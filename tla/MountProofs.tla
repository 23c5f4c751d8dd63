----------------------------- MODULE MountProofs -----------------------------
(***************************************************************************)
(* Theorems about Mount, for any volumes, block, inode and group sizes.    *)
(***************************************************************************)
EXTENDS Mount, TLAPS

USE VolumeAssumption

-----------------------------------------------------------------------------
(* Arithmetic                                                              *)

LEMMA DivMod ==
  ASSUME NEW a \in Int, NEW b \in Nat \ {0}
  PROVE  /\ a \div b \in Int /\ a % b \in Nat
         /\ b * (a \div b) <= a /\ a < b * (a \div b) + b
         /\ a % b = a - b * (a \div b) /\ a % b < b
OBVIOUS

\* The quotient is what the multiples next to a say it is.
LEMMA Quotient ==
  ASSUME NEW a \in Int, NEW b \in Nat \ {0}, NEW q \in Int, b * q <= a, a < b * q + b
  PROVE  a \div b = q
OBVIOUS

LEMMA QuotientBounds ==
  ASSUME NEW a \in Nat, NEW b \in Nat \ {0}
  PROVE  a \div b \in Nat
OBVIOUS

\* An inode number of the volume is in one of its groups.
LEMMA GroupExists ==
  ASSUME NEW n \in Nat \ {0}, NEW groups \in Int, NEW i \in Nat \ {0}, i <= groups * n
  PROVE  (i - 1) \div n < groups
<1> DEFINE q == (i - 1) \div n
<1>1. q \in Nat /\ q * n <= i - 1
  BY QuotientBounds
<1>2. q * n < groups * n
  BY <1>1
<1> HIDE DEF q
<1>3. QED
  BY <1>1, <1>2

\* The descriptors are read from where they are, all of those of full groups.
LEMMA AllLoaded ==
  ASSUME NEW v \in Volume, Super[v] # NotExt
  PROVE  Loaded(Super[v]) = [g \in 0 .. totalGroups(Super[v]) - 1 |-> g]
<1> DEFINE s == Super[v]
           sectors == s.blocksize \div SECT
           total == totalGroups(s)
<1>1. s \in Superblock
  OBVIOUS
<1>2. /\ s.blocksize \in Nat \ {0} /\ s.blocks \in Nat
      /\ s.blocks_per_group \in Nat \ {0}
  BY <1>1 DEF Superblock
<1>3. sectors = 2 \/ (sectors \in Nat /\ sectors >= 4)
  <2>1. CASE s.blocksize = 2 * SECT
    <3>1. s.blocksize \in Int /\ SECT * 2 <= s.blocksize /\ s.blocksize < SECT * 2 + SECT
      BY <1>2, <2>1
    <3>2. QED
      BY <3>1, Quotient
  <2>2. CASE s.blocksize >= 4 * SECT
    <3>1. sectors \in Int /\ s.blocksize < SECT * sectors + SECT
      <4>1. s.blocksize \in Int /\ SECT \in Nat \ {0}
        BY <1>2
      <4>2. QED
        BY <4>1, DivMod, Zenon
    <3>2. sectors >= 4
      <4>1. SUFFICES ASSUME sectors <= 3 PROVE FALSE
        BY <3>1
      <4>2. SECT * sectors <= SECT * 3
        BY <3>1, <4>1
      <4>3. QED
        BY <1>2, <2>2, <3>1, <4>2
    <3>3. QED
      BY <3>1, <3>2
  <2>3. QED
    BY <2>1, <2>2, FormatAssumption
<1>4. DescriptorSector(s) = AfterSuper(s)
  <2>1. CASE sectors = 2
    <3>1. (4 + 2 - 1) \div 2 = 2
      OBVIOUS
    <3>2. QED
      BY <2>1, <3>1 DEF DescriptorSector, AfterSuper
  <2>2. CASE sectors \in Nat /\ sectors >= 4
    <3>1. (4 + sectors - 1) \div sectors = 1
      BY <2>2, Quotient
    <3>2. QED
      BY <2>2, <3>1 DEF DescriptorSector, AfterSuper
  <2>3. QED
    BY <1>3, <2>1, <2>2
<1>5. total \in Nat
  BY <1>2, QuotientBounds DEF totalGroups
<1>6. ASSUME NEW g \in 0 .. total - 1
      PROVE  (g + 1) * DESC <= gSizes(s) * SECT
  <2> DEFINE size == DESC * total
  <2>1. size \in Nat /\ (g + 1) * DESC <= size
    <3>1. /\ g + 1 \in Nat /\ g + 1 <= total /\ total \in Nat
          /\ total - (g + 1) \in Nat /\ DESC \in Nat
      BY <1>5
    <3>2. DESC * (total - (g + 1)) \in Nat
      BY <3>1
    <3>3. DESC * (total - (g + 1)) = size - (g + 1) * DESC /\ size \in Nat
      BY <3>1
    <3>4. (g + 1) * DESC \in Nat
      BY <3>1
    <3>5. QED
      BY <3>2, <3>3, <3>4
  <2>2. size \div SECT \in Int /\ size < SECT * (size \div SECT) + SECT
    <3>1. size \in Int /\ SECT \in Nat \ {0}
      BY <2>1
    <3>2. QED
      BY <3>1, DivMod, Zenon
  <2>3. gSizes(s) * SECT = SECT * (size \div SECT) + SECT
    BY <2>2 DEF gSizes
  <2>4. QED
    BY <2>1, <2>2, <2>3
<1>7. QED
  BY <1>4, <1>6 DEF Loaded

LEMMA InodePlaced ==
  ASSUME NEW v \in Volume, Super[v] # NotExt, NEW inum \in Nat,
         Exists(Super[v], inum), GroupOf(Super[v], inum) < totalGroups(Super[v])
  PROVE  /\ ~Rejected(Super[v], inum)
         /\ IsPlaceOf(Super[v], inum, Place(Super[v], Loaded(Super[v]), inum))
<1> DEFINE s == Super[v]
           ipg == s.inodes_per_group
           isize == s.inode_size
           bsize == s.blocksize
           g == (inum - 1) \div ipg
           k == (inum - 1) % ipg
           index == k * isize
           place == Place(s, Loaded(s), inum)
<1>1. /\ ipg \in Nat \ {0} /\ isize \in Nat \ {0} /\ bsize \in Nat \ {0}
      /\ s.blocks_per_group \in Nat \ {0} /\ s.blocks \in Nat
      /\ s.first_data_block \in Nat
  <2>1. s \in Superblock
    OBVIOUS
  <2>2. QED
    BY <2>1 DEF Superblock
<1>2. inum - 1 \in Nat /\ inum - 1 < Groups(s) * ipg /\ Groups(s) \in Int
  <2>1. s.blocks - s.first_data_block + s.blocks_per_group - 1 \in Int
    BY <1>1
  <2>2. Groups(s) \in Int
    BY <1>1, <2>1, DivMod, Zenon DEF Groups
  <2>3. QED
    BY <1>1, <2>2 DEF Exists
<1>3. /\ g \in Int /\ k \in Nat /\ k < ipg
      /\ ipg * g <= inum - 1 /\ k = inum - 1 - ipg * g
  <2>1. inum - 1 \in Int
    BY <1>2
  <2>2. QED
    BY <1>1, <2>1, DivMod, Zenon
<1>4. g \in Nat
  BY <1>1, <1>2, QuotientBounds
<1>5. g <= Groups(s) - 1
  <2>1. SUFFICES ASSUME g - Groups(s) \in Nat PROVE FALSE
    BY <1>2, <1>3
  <2>2. ipg * (g - Groups(s)) \in Nat
    BY <1>1, <2>1
  <2>3. ipg * (g - Groups(s)) = ipg * g - Groups(s) * ipg
    BY <1>1, <1>2, <1>3
  <2>4. QED
    BY <1>1, <1>2, <1>3, <2>2, <2>3
<1>6. ~Rejected(s, inum) /\ g \in 0 .. totalGroups(s) - 1
  <2>1. totalGroups(s) \in Nat
    BY <1>1, QuotientBounds DEF totalGroups
  <2>2. g < totalGroups(s)
    BY DEF GroupOf
  <2>3. QED
    BY <1>2, <1>4, <2>1, <2>2 DEF Rejected, GroupOf
<1>7. place = [table |-> g, block |-> index \div bsize, offset |-> index % bsize]
  BY <1>6, AllLoaded DEF Place, GroupOf
<1>8. index \in Nat
  BY <1>1, <1>3
<1> DEFINE q == index \div bsize
           o == index % bsize
           c == bsize \div isize
<1>9. q \in Int /\ o \in Nat /\ o = index - bsize * q /\ o < bsize
  <2>1. index \in Int
    BY <1>8
  <2>2. QED
    BY <1>1, <2>1, DivMod, Zenon
<1>10. o + isize <= bsize
  <2>1. c \in Int /\ bsize % isize = bsize - isize * c
    <3>1. bsize \in Int
      BY <1>1
    <3>2. QED
      BY <1>1, <3>1, DivMod, Zenon
  <2>2. bsize = isize * c
    BY <1>1, <2>1, FormatAssumption
  <2> HIDE DEF c, q
  <2>3. o = isize * (k - c * q)
    <3>1. bsize * q = isize * (c * q)
      BY <1>1, <1>9, <2>1, <2>2
    <3>2. isize * (k - c * q) = k * isize - isize * (c * q)
      BY <1>1, <1>3, <1>9, <2>1
    <3>3. QED
      BY <1>9, <3>1, <3>2
  <2>4. k - c * q < c
    <3>1. SUFFICES ASSUME k - c * q - c \in Nat PROVE FALSE
      BY <1>3, <1>9, <2>1
    <3>2. isize * (k - c * q - c) \in Nat
      BY <1>1, <3>1
    <3>3. isize * (k - c * q - c) = isize * (k - c * q) - isize * c
      BY <1>1, <1>3, <1>9, <2>1
    <3>4. QED
      BY <1>1, <1>9, <2>2, <2>3, <3>2, <3>3
  <2>5. isize * (c - (k - c * q) - 1) \in Nat
    <3>1. c - (k - c * q) - 1 \in Nat
      BY <1>3, <1>9, <2>1, <2>4
    <3>2. QED
      BY <1>1, <3>1
  <2>6. isize * (c - (k - c * q) - 1) = isize * c - isize * (k - c * q) - isize
    BY <1>1, <1>3, <1>9, <2>1
  <2>7. QED
    BY <1>1, <1>9, <2>2, <2>3, <2>5, <2>6
<1>11. /\ inum = g * ipg + k + 1
       /\ q * bsize + o = k * isize
  <2> HIDE DEF g, k, q, o
  <2>1. ipg * g = g * ipg /\ bsize * q = q * bsize /\ g * ipg \in Int /\ q * bsize \in Int
    BY <1>1, <1>3, <1>9
  <2>2. inum = g * ipg + k + 1
    BY <1>3, <2>1
  <2>3. q * bsize + o = k * isize
    BY <1>8, <1>9, <2>1
  <2>4. QED
    BY <2>2, <2>3
<1>12. g \in 0 .. Groups(s) - 1 /\ k \in 0 .. ipg - 1
  BY <1>1, <1>2, <1>3, <1>4, <1>5
<1>13. IsPlaceOf(s, inum, place)
  BY <1>7, <1>10, <1>11, <1>12 DEF IsPlaceOf
<1>14. QED
  BY <1>6, <1>13

-----------------------------------------------------------------------------
(* MountInv step by step                                                   *)

LEMMA InitMountInv == Init => MountInv
BY DEF Init, MountInv, MountTypeOK, BuiltSoFar, BuiltFromDisk, FoundFromDisk

\* A construction that starts forgets the object and the inode found before.
LEMMA ReadSuperInv ==
  ASSUME MountInv, NEW v \in Volume, ReadSuper(v)
  PROVE  MountInv'
<1> USE DEF MountInv
<1>1. MountTypeOK'
  BY DEF MountTypeOK, ReadSuper
<1>2. BuiltSoFar'
  BY DEF MountTypeOK, BuiltSoFar, ReadSuper
<1>3. BuiltFromDisk'
  BY DEF MountTypeOK, BuiltFromDisk, ReadSuper
<1>4. FoundFromDisk'
  BY DEF FoundFromDisk, ReadSuper
<1>5. QED
  BY <1>1, <1>2, <1>3, <1>4

LEMMA MagicInv ==
  ASSUME MountInv, BadMagic \/ GoodMagic
  PROVE  MountInv'
<1> USE DEF MountInv
<1>1. MountTypeOK'
  BY DEF MountTypeOK, BadMagic, GoodMagic
<1>2. BuiltSoFar'
  BY DEF MountTypeOK, BuiltSoFar, BadMagic, GoodMagic
<1>3. BuiltFromDisk'
  BY DEF MountTypeOK, BuiltSoFar, BuiltFromDisk, BadMagic, GoodMagic
<1>4. FoundFromDisk'
  BY DEF FoundFromDisk, BadMagic, GoodMagic
<1>5. QED
  BY <1>1, <1>2, <1>3, <1>4

LEMMA ReadGroupsInv ==
  ASSUME MountInv, ReadGroups
  PROVE  MountInv'
<1> USE DEF MountInv
<1>1. MountTypeOK'
  BY DEF MountTypeOK, ReadGroups
<1>2. BuiltSoFar'
  BY DEF MountTypeOK, BuiltSoFar, ReadGroups
<1>3. BuiltFromDisk'
  BY DEF MountTypeOK, BuiltSoFar, BuiltFromDisk, ReadGroups
<1>4. FoundFromDisk'
  BY DEF FoundFromDisk, BuiltSoFar, ReadGroups
<1>5. QED
  BY <1>1, <1>2, <1>3, <1>4

\* The object becomes valid with what it was built from.
LEMMA ReadRootInv ==
  ASSUME MountInv, ReadRoot
  PROVE  MountInv'
<1> USE DEF MountInv
<1>1. MountTypeOK'
  BY DEF MountTypeOK, ReadRoot
<1>2. BuiltSoFar'
  BY DEF BuiltSoFar, ReadRoot
<1>3. BuiltFromDisk'
  BY DEF MountTypeOK, BuiltSoFar, BuiltFromDisk, ReadRoot
<1>4. FoundFromDisk'
  BY DEF MountTypeOK, BuiltSoFar, FoundFromDisk, ReadRoot
<1>5. QED
  BY <1>1, <1>2, <1>3, <1>4

LEMMA ReadInodeInv ==
  ASSUME MountInv, NEW v \in Volume, NEW inum \in Inum, ReadInode(v, inum)
  PROVE  MountInv'
<1> USE DEF MountInv
<1>1. MountTypeOK'
  BY DEF MountTypeOK, ReadInode
<1>2. BuiltSoFar'
  BY DEF BuiltSoFar, ReadInode
<1>3. BuiltFromDisk'
  BY DEF BuiltFromDisk, ReadInode
<1>4. FoundFromDisk'
  BY DEF MountTypeOK, BuiltFromDisk, FoundFromDisk, ReadInode
<1>5. QED
  BY <1>1, <1>2, <1>3, <1>4

LEMMA NextMountInv == MountInv /\ [Next]_vars => MountInv'
<1> SUFFICES ASSUME MountInv, [Next]_vars PROVE MountInv'
  OBVIOUS
<1>1. CASE UNCHANGED vars
  BY <1>1 DEF vars, MountInv, MountTypeOK, BuiltSoFar, BuiltFromDisk, FoundFromDisk
<1>2. CASE Next
  BY <1>2, ReadSuperInv, MagicInv, ReadGroupsInv, ReadRootInv, ReadInodeInv DEF Next
<1>3. QED
  BY <1>1, <1>2

LEMMA MountInvariance == Spec => []MountInv
  BY InitMountInv, NextMountInv, PTL DEF Spec

-----------------------------------------------------------------------------
(* The theorems                                                            *)

\* Every inode of a full group is looked for where the format puts it, for any
\* block, inode and group size (Ext2Partition::read_inode).
THEOREM InodesArePlaced == Spec => []InodesExact
<1>1. ASSUME MountInv PROVE InodesExact
  <2> DEFINE s == Super[found.vol]
  <2>1. SUFFICES ASSUME Sound, Exists(s, found.inum), GroupOf(s, found.inum) < totalGroups(s)
                 PROVE  IsPlaceOf(s, found.inum, found.place)
    BY DEF InodesExact
  <2>2. /\ found.vol \in Volume /\ found.inum \in Nat /\ s # NotExt
        /\ found.place = IF Rejected(s, found.inum) THEN NoPlace
                           ELSE Place(s, Loaded(s), found.inum)
    BY <1>1, <2>1 DEF MountInv, FoundFromDisk, Sound
  <2>3. QED
    BY <1>1, <2>1, <2>2, InodePlaced
<1>2. QED
  BY <1>1, MountInvariance, PTL

\* Beyond the loaded descriptors one entry is used, for the numbers of the group
\* totalGroups; a number of the volume is among them only when the volume has a group
\* that the code did not count (the bound of Ext2Partition::read_inode).
THEOREM JunkOnlyPastLoadedHolds == Spec => []JunkOnlyPastLoaded
<1>1. ASSUME MountInv PROVE JunkOnlyPastLoaded
  <2> DEFINE s == Super[found.vol]
             g == GroupOf(s, found.inum)
             total == totalGroups(s)
  <2>1. SUFFICES ASSUME Sound, found.place.table = Junk
                 PROVE  g = total /\ (Exists(s, found.inum) => total < Groups(s))
    BY DEF JunkOnlyPastLoaded
  <2>2. /\ found.vol \in Volume /\ found.inum \in Nat /\ s # NotExt
        /\ found.place = IF Rejected(s, found.inum) THEN NoPlace
                           ELSE Place(s, Loaded(s), found.inum)
    BY <1>1, <2>1 DEF MountInv, FoundFromDisk, Sound
  <2>3. ~Rejected(s, found.inum) /\ Place(s, Loaded(s), found.inum).table = Junk
    BY <2>1, <2>2 DEF NoPlace
  <2>4. Loaded(s) = [i \in 0 .. total - 1 |-> i]
    BY <1>1, <2>2, AllLoaded
  <2>5. g \notin 0 .. total - 1
    BY <2>3, <2>4 DEF Place
  <2>6. g \in Nat /\ total \in Nat /\ g <= total
    <3>1. s \in Superblock
      BY <2>2
    <3>2. s.inodes_per_group \in Nat \ {0} /\ s.blocks \in Nat /\ s.blocks_per_group \in Nat \ {0}
      BY <3>1 DEF Superblock
    <3>3. found.inum - 1 \in Nat
      BY <2>2, <2>3 DEF Rejected
    <3>4. g \in Nat /\ total \in Nat
      BY <3>2, <3>3, QuotientBounds DEF GroupOf, totalGroups
    <3>5. QED
      BY <2>3, <3>4 DEF Rejected
  <2>7. g = total
    BY <2>5, <2>6
  <2>8. ASSUME Exists(s, found.inum) PROVE total < Groups(s)
    <3>1. s \in Superblock
      BY <2>2
    <3>2. /\ s.inodes_per_group \in Nat \ {0} /\ s.blocks \in Nat
          /\ s.blocks_per_group \in Nat \ {0} /\ s.first_data_block \in {0, 1}
      BY <3>1 DEF Superblock
    <3>3. Groups(s) \in Int
      BY <3>2 DEF Groups
    <3>4. found.inum \in Nat \ {0} /\ found.inum <= Groups(s) * s.inodes_per_group
      BY <2>2, <2>8 DEF Exists
    <3>5. g < Groups(s)
      BY <3>2, <3>3, <3>4, GroupExists DEF GroupOf
    <3>6. QED
      BY <2>7, <3>5
  <2>9. QED
    BY <2>7, <2>8
<1>2. QED
  BY <1>1, MountInvariance, PTL
===============================================================================
