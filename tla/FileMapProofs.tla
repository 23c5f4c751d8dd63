---------------------------- MODULE FileMapProofs ----------------------------
(***************************************************************************)
(* Theorems about FileMap, for any number of direct pointers, any size of  *)
(* a pointer block, and any extent trees that have the on-disk format.     *)
(***************************************************************************)
EXTENDS FileMap, Sequences, SequenceTheorems, FiniteSetTheorems, WellFoundedInduction,
        TLAPS

-----------------------------------------------------------------------------
(* Arithmetic                                                              *)

LEMMA DivMod ==
  ASSUME NEW a \in Nat, NEW b \in Nat \ {0}
  PROVE  \E q \in Nat, r \in 0 .. b - 1 : q = a \div b /\ r = a % b /\ a = b * q + r
<1>1. a \div b \in Nat /\ a % b \in Nat /\ a % b = a - b * (a \div b) /\ a % b < b
  OBVIOUS
<1>2. PICK q \in Nat, r \in Nat : q = a \div b /\ r = a % b /\ r = a - b * q /\ r < b
  BY <1>1
<1>3. b * q \in Nat
  OBVIOUS
<1>4. a = b * q + r /\ r \in 0 .. b - 1
  BY <1>2, <1>3
<1>5. QED
  BY <1>2, <1>4

LEMMA Multiples ==
  ASSUME NEW b \in Nat \ {0}, NEW p \in Nat, NEW q \in Nat
  PROVE  b * p \in Nat /\ (p <= q => b * p <= b * q) /\ (p < q => b * p + b <= b * q)
<1>1. b * p \in Nat
  OBVIOUS
<1>2. ASSUME p <= q PROVE b * p <= b * q
  <2>1. PICK c \in Nat : q = p + c
    BY <1>2
  <2>2. b * q = b * p + b * c /\ b * c \in Nat
    BY <2>1
  <2>3. QED
    BY <1>1, <2>2
<1>3. ASSUME p < q PROVE b * p + b <= b * q
  <2>1. PICK c \in Nat : q = p + 1 + c
    BY <1>3
  <2>2. b * q = b * p + b + b * c /\ b * c \in Nat
    BY <2>1
  <2>3. QED
    BY <1>1, <2>2
<1>4. QED
  BY <1>1, <1>2, <1>3

\* Two digits are what their number makes of them.
LEMMA SameDigits ==
  ASSUME NEW b \in Nat \ {0}, NEW p \in Nat, NEW q \in Nat,
         NEW r \in 0 .. b - 1, NEW s \in 0 .. b - 1, b * p + r = b * q + s
  PROVE  p = q /\ r = s
<1>1. b * p \in Nat /\ b * q \in Nat
  BY Multiples
<1>2. ~(p < q)
  <2>1. p < q => b * p + b <= b * q
    BY Multiples
  <2>2. QED
    BY <1>1, <2>1
<1>3. ~(q < p)
  <2>1. q < p => b * q + b <= b * p
    BY Multiples
  <2>2. QED
    BY <1>1, <2>1
<1>4. QED
  BY <1>1, <1>2, <1>3

\* A number below b * b has two digits.
LEMMA TwoDigits ==
  ASSUME NEW b \in Nat \ {0}, NEW t \in Nat
  PROVE  /\ b * b \in Nat
         /\ t < b * b =>
              \E j, k \in 0 .. b - 1 :
                j = t \div b /\ k = t % b /\ t = b * j + k /\ t \div (b * b) = 0
<1>1. b * b \in Nat /\ b * b # 0
  BY Multiples
<1>2. PICK q \in Nat, r \in 0 .. b - 1 : q = t \div b /\ r = t % b /\ t = b * q + r
  BY DivMod
<1>3. ASSUME t < b * b PROVE q \in 0 .. b - 1
  <2>1. q >= b => b * b <= b * q
    BY Multiples
  <2>2. b * q \in Nat
    BY Multiples
  <2>3. QED
    BY <1>1, <1>2, <1>3, <2>1, <2>2
<1>4. ASSUME t < b * b PROVE t \div (b * b) = 0
  <2>1. PICK c \in Nat : c = b * b /\ c # 0
    BY <1>1
  <2>2. t < c
    BY <1>4, <2>1
  <2>3. t \div c = 0
    BY <2>1, <2>2
  <2>4. QED
    BY <2>1, <2>3
<1>5. QED
  BY <1>1, <1>2, <1>3, <1>4

LEMMA ThreeDigits ==
  ASSUME NEW b \in Nat \ {0}, NEW p \in Nat, NEW q \in Nat, NEW r \in Nat
  PROVE  b * (b * p + q) + r \in Nat
<1>1. PICK v \in Nat : v = b * p + q
  BY Multiples
<1>2. b * v + r \in Nat
  BY Multiples
<1>3. QED
  BY <1>1, <1>2

-----------------------------------------------------------------------------
(* Paths                                                                   *)

USE PointerAssumption

\* Where the on-disk format puts the blocks of a file, level by level.
LEMMA LeafLevels ==
  ASSUME NEW p \in Pointers!Leaves
  PROVE  LET at == Pointers!FileBlockAt(p)
         IN  \/ \E k \in 0 .. NDIR - 1 : p = <<k>> /\ at = k
             \/ \E j \in 0 .. SZ - 1 : p = <<NDIR, j>> /\ at = NDIR + j
             \/ \E j, k \in 0 .. SZ - 1 :
                  p = <<NDIR + 1, j, k>> /\ at = NDIR + SZ + (SZ * j + k)
             \/ \E j, k, m \in 0 .. SZ - 1 :
                  p = <<NDIR + 2, j, k, m>> /\ at = NDIR + SZ + SZ * SZ + (SZ * (SZ * j + k) + m)
<1> DEFINE at == Pointers!FileBlockAt(p)
<1>1. CASE p \in {<<k>> : k \in 0 .. NDIR - 1}
  <2>1. PICK k \in 0 .. NDIR - 1 : p = <<k>>
    BY <1>1
  <2>2. Len(p) = 1 /\ p[1] = k
    BY <2>1
  <2>3. at = k
    BY <2>2 DEF Pointers!FileBlockAt
  <2>4. QED
    BY <2>1, <2>3
<1>2. CASE p \in {NDIR} \X (0 .. SZ - 1)
  <2>1. PICK j \in 0 .. SZ - 1 : p = <<NDIR, j>>
    BY <1>2
  <2>2. Len(p) = 2 /\ p[2] = j
    BY <2>1
  <2>3. at = NDIR + j
    BY <2>2 DEF Pointers!FileBlockAt
  <2>4. QED
    BY <2>1, <2>3
<1>3. CASE p \in {NDIR + 1} \X (0 .. SZ - 1) \X (0 .. SZ - 1)
  <2>1. PICK j \in 0 .. SZ - 1, k \in 0 .. SZ - 1 : p = <<NDIR + 1, j, k>>
    BY <1>3
  <2>2. Len(p) = 3 /\ p[2] = j /\ p[3] = k
    BY <2>1
  <2>3. at = NDIR + SZ + j * SZ + k
    BY <2>2 DEF Pointers!FileBlockAt
  <2>4. j * SZ = SZ * j /\ SZ * j \in Nat
    BY Multiples
  <2>5. at = NDIR + SZ + (SZ * j + k)
    BY <2>3, <2>4
  <2>6. QED
    BY <2>1, <2>5
<1>4. CASE p \in {NDIR + 2} \X (0 .. SZ - 1) \X (0 .. SZ - 1) \X (0 .. SZ - 1)
  <2>1. PICK j \in 0 .. SZ - 1, k \in 0 .. SZ - 1, m \in 0 .. SZ - 1 : p = <<NDIR + 2, j, k, m>>
    BY <1>4
  <2>2. Len(p) = 4 /\ p[2] = j /\ p[3] = k /\ p[4] = m
    BY <2>1
  <2>3. at = NDIR + SZ + SZ * SZ + (j * SZ + k) * SZ + m
    BY <2>2 DEF Pointers!FileBlockAt
  <2>4. j * SZ = SZ * j /\ SZ * j \in Nat /\ SZ * SZ \in Nat
    BY Multiples
  <2>5. PICK q \in Nat : q = SZ * j + k
    BY <2>4
  <2>6. q * SZ = SZ * q /\ SZ * q \in Nat
    BY Multiples
  <2>7. at = NDIR + SZ + SZ * SZ + (SZ * q + m)
    BY <2>3, <2>4, <2>5, <2>6
  <2>8. QED
    BY <2>1, <2>5, <2>7
<1>5. QED
  BY <1>1, <1>2, <1>3, <1>4 DEF Pointers!Leaves, Pointers!IND, Pointers!DIND, Pointers!TIND, Pointers!Entry

\* The path of a file block in reach, by the bounds and the digits of the code.
LEMMA PathOfBlock ==
  ASSUME NEW n \in Nat
  PROVE  /\ Pointers!indlast = NDIR + SZ /\ Pointers!dindlast = NDIR + SZ + SZ * SZ
         /\ SZ * SZ \in Nat
         /\ n < NDIR + SZ + SZ * SZ + SZ * SZ => Pointers!PathOf(n) \in Pointers!Leaves
         /\ n < NDIR => Pointers!PathOf(n) = <<n>>
         /\ NDIR <= n /\ n < NDIR + SZ => Pointers!PathOf(n) = <<NDIR, n - NDIR>>
         /\ \A t \in Nat : n = NDIR + SZ + t /\ t < SZ * SZ =>
              Pointers!PathOf(n) = <<NDIR + 1, t \div SZ, t % SZ>>
         /\ \A t \in Nat : n = NDIR + SZ + SZ * SZ + t /\ t < SZ * SZ =>
              Pointers!PathOf(n) = <<NDIR + 2, t \div (SZ * SZ), t \div SZ, t % SZ>>
<1> DEFINE A(p) == Pointers!FileBlockAt(p)
           SS == SZ * SZ
<1>1. SS \in Nat
  BY TwoDigits
<1>2. Pointers!indlast = NDIR + SZ /\ Pointers!dindlast = NDIR + SZ + SS
  <2>1. Pointers!indlast = NDIR + SZ
    BY DEF Pointers!indlast
  <2>2. QED
    BY <1>1, <2>1 DEF Pointers!dindlast
<1> HIDE DEF SS
<1>3. ASSUME NEW q, q \in Pointers!Leaves, A(q) = n,
             \A p \in Pointers!Leaves : A(p) = n => p = q
      PROVE  Pointers!PathOf(n) = q /\ Pointers!PathOf(n) \in Pointers!Leaves
  BY <1>3 DEF Pointers!PathOf
\* A digit pair below SS, for the levels whose numbers it keeps apart.
<1>4. ASSUME NEW j \in 0 .. SZ - 1, NEW k \in 0 .. SZ - 1
      PROVE  SZ * j + k \in 0 .. SS - 1
  <2>1. SZ * j + SZ <= SS /\ SZ * j \in Nat
    BY Multiples DEF SS
  <2>2. QED
    BY <1>1, <2>1
<1>5. ASSUME n < NDIR PROVE Pointers!PathOf(n) = <<n>> /\ Pointers!PathOf(n) \in Pointers!Leaves
  <2>1. <<n>> \in Pointers!Leaves
    BY <1>5 DEF Pointers!Leaves
  <2>2. A(<<n>>) = n
    BY DEF Pointers!FileBlockAt
  <2>3. ASSUME NEW p \in Pointers!Leaves, A(p) = n PROVE p = <<n>>
    BY <1>1, <1>4, <1>5, <2>3, LeafLevels DEF SS
  <2>4. QED
    BY <1>3, <2>1, <2>2, <2>3
<1>6. ASSUME NDIR <= n, n < NDIR + SZ
      PROVE  Pointers!PathOf(n) = <<NDIR, n - NDIR>> /\ Pointers!PathOf(n) \in Pointers!Leaves
  <2>1. PICK j \in 0 .. SZ - 1 : n = NDIR + j /\ n - NDIR = j
    BY <1>6
  <2>2. <<NDIR, j>> \in Pointers!Leaves
    BY <2>1 DEF Pointers!Leaves, Pointers!IND, Pointers!Entry
  <2>3. A(<<NDIR, j>>) = n
    BY <2>1 DEF Pointers!FileBlockAt
  <2>4. ASSUME NEW p \in Pointers!Leaves, A(p) = n PROVE p = <<NDIR, j>>
    <3>1. \A k \in 0 .. SZ - 1 : n = NDIR + k => k = j
      BY <2>1
    <3>2. \A v \in 0 .. SS - 1 : n # NDIR + SZ + v
      BY <1>1, <2>1
    <3>3. \A v \in Nat : n # NDIR + SZ + SS + v
      BY <1>1, <2>1
    <3>4. \A k \in 0 .. NDIR - 1 : n # k
      BY <1>6
    <3>5. \A k \in 0 .. SZ - 1, m \in 0 .. SZ - 1 : SZ * k + m \in 0 .. SS - 1
      BY <1>4
    <3>6. \A k, m, x \in 0 .. SZ - 1 : SZ * (SZ * k + m) + x \in Nat
      BY <1>1, <3>5, ThreeDigits
    <3>7. QED
      BY <2>4, <3>1, <3>2, <3>3, <3>4, <3>5, <3>6, LeafLevels DEF SS
  <2>5. QED
    BY <1>3, <2>1, <2>2, <2>3, <2>4
<1>7. ASSUME NEW t \in Nat, n = NDIR + SZ + t, t < SS
      PROVE  /\ Pointers!PathOf(n) = <<NDIR + 1, t \div SZ, t % SZ>>
             /\ Pointers!PathOf(n) \in Pointers!Leaves
  <2>1. PICK j \in 0 .. SZ - 1, k \in 0 .. SZ - 1 :
          t \div SZ = j /\ t % SZ = k /\ t = SZ * j + k
    BY <1>7, TwoDigits DEF SS
  <2> DEFINE q == <<NDIR + 1, j, k>>
  <2>2. q \in Pointers!Leaves
    BY DEF Pointers!Leaves, Pointers!DIND, Pointers!Entry
  <2>3. A(q) = n
    <3>1. Len(q) = 3 /\ q[2] = j /\ q[3] = k
      OBVIOUS
    <3>2. A(q) = NDIR + SZ + j * SZ + k
      BY <3>1 DEF Pointers!FileBlockAt
    <3>3. j * SZ = SZ * j /\ SZ * j \in Nat
      BY Multiples
    <3>4. QED
      BY <1>7, <2>1, <3>2, <3>3
  <2>4. ASSUME NEW p \in Pointers!Leaves, A(p) = n PROVE p = q
    <3>1. \A a, b \in 0 .. SZ - 1 : n = NDIR + SZ + (SZ * a + b) => a = j /\ b = k
      <4>1. SUFFICES ASSUME NEW a \in 0 .. SZ - 1, NEW b \in 0 .. SZ - 1,
                            n = NDIR + SZ + (SZ * a + b)
                     PROVE  a = j /\ b = k
        OBVIOUS
      <4>2. SZ * a + b \in 0 .. SS - 1
        BY <1>4
      <4>3. SZ * a + b = t
        BY <1>7, <4>1, <4>2
      <4>4. QED
        BY <2>1, <4>3, SameDigits
    <3>2. \A v \in Nat : n # NDIR + SZ + SS + v
      BY <1>1, <1>7
    <3>3. \A a \in 0 .. NDIR - 1 : n # a
      BY <1>7
    <3>4. \A a \in 0 .. SZ - 1 : n # NDIR + a
      BY <1>7
    <3>5. \A a, b, c \in 0 .. SZ - 1 : SZ * (SZ * a + b) + c \in Nat
      BY <1>1, ThreeDigits
    <3>6. QED
      BY <2>4, <3>1, <3>2, <3>3, <3>4, <3>5, LeafLevels DEF SS
  <2>5. QED
    BY <1>3, <2>1, <2>2, <2>3, <2>4
<1>8. ASSUME NEW t \in Nat, n = NDIR + SZ + SS + t, t < SS
      PROVE  /\ Pointers!PathOf(n) = <<NDIR + 2, t \div (SZ * SZ), t \div SZ, t % SZ>>
             /\ Pointers!PathOf(n) \in Pointers!Leaves
  <2>1. PICK j \in 0 .. SZ - 1, k \in 0 .. SZ - 1 :
          t \div SZ = j /\ t % SZ = k /\ t = SZ * j + k /\ t \div (SZ * SZ) = 0
    BY <1>8, TwoDigits DEF SS
  <2> DEFINE q == <<NDIR + 2, 0, j, k>>
  <2>2. q \in Pointers!Leaves
    BY DEF Pointers!Leaves, Pointers!TIND, Pointers!Entry
  <2>3. A(q) = n
    <3>1. Len(q) = 4 /\ q[2] = 0 /\ q[3] = j /\ q[4] = k
      OBVIOUS
    <3>2. A(q) = NDIR + SZ + SS + (0 * SZ + j) * SZ + k
      BY <3>1 DEF Pointers!FileBlockAt, SS
    <3>3. 0 * SZ + j = j /\ j * SZ = SZ * j /\ SZ * j \in Nat
      BY Multiples
    <3>4. A(q) = NDIR + SZ + SS + SZ * j + k
      BY <3>2, <3>3
    <3>5. QED
      BY <1>1, <1>8, <2>1, <3>3, <3>4
  <2>4. ASSUME NEW p \in Pointers!Leaves, A(p) = n PROVE p = q
    <3>1. \A a, b, c \in 0 .. SZ - 1 :
            n = NDIR + SZ + SS + (SZ * (SZ * a + b) + c) => a = 0 /\ b = j /\ c = k
      <4>1. SUFFICES ASSUME NEW a \in 0 .. SZ - 1, NEW b \in 0 .. SZ - 1, NEW c \in 0 .. SZ - 1,
                            n = NDIR + SZ + SS + (SZ * (SZ * a + b) + c)
                     PROVE  a = 0 /\ b = j /\ c = k
        OBVIOUS
      <4>2. PICK v \in Nat : v = SZ * a + b
        BY <1>4
      <4>3. SZ * v \in Nat
        BY Multiples
      <4>4. SZ * v + c = t
        BY <1>1, <1>8, <4>1, <4>2, <4>3
      <4>5. v = j /\ c = k
        BY <2>1, <4>4, SameDigits
      <4>6. SZ * a + b = SZ * 0 + j
        BY <4>2, <4>5
      <4>7. QED
        BY <4>5, <4>6, SameDigits
    <3>2. \A v \in 0 .. SS - 1 : n # NDIR + SZ + v
      BY <1>1, <1>8
    <3>3. \A a \in 0 .. NDIR - 1 : n # a
      BY <1>1, <1>8
    <3>4. \A a \in 0 .. SZ - 1 : n # NDIR + a
      BY <1>1, <1>8
    <3>5. \A a, b \in 0 .. SZ - 1 : SZ * a + b \in 0 .. SS - 1
      BY <1>4
    <3>6. \/ \E a \in 0 .. NDIR - 1 : p = <<a>> /\ A(p) = a
          \/ \E a \in 0 .. SZ - 1 : p = <<NDIR, a>> /\ A(p) = NDIR + a
          \/ \E a, b \in 0 .. SZ - 1 :
               p = <<NDIR + 1, a, b>> /\ A(p) = NDIR + SZ + (SZ * a + b)
          \/ \E a, b, c \in 0 .. SZ - 1 :
               p = <<NDIR + 2, a, b, c>> /\ A(p) = NDIR + SZ + SS + (SZ * (SZ * a + b) + c)
      BY LeafLevels DEF SS
    <3>7. PICK a \in 0 .. SZ - 1, b \in 0 .. SZ - 1, c \in 0 .. SZ - 1 :
            p = <<NDIR + 2, a, b, c>> /\ n = NDIR + SZ + SS + (SZ * (SZ * a + b) + c)
      BY <2>4, <3>2, <3>3, <3>4, <3>5, <3>6
    <3>8. QED
      BY <3>1, <3>7
  <2>5. QED
    BY <1>3, <2>1, <2>2, <2>3, <2>4
<1>9. ASSUME n < NDIR + SZ + SS + SS PROVE Pointers!PathOf(n) \in Pointers!Leaves
  <2>1. \/ n < NDIR
        \/ NDIR <= n /\ n < NDIR + SZ
        \/ \E t \in Nat : n = NDIR + SZ + t /\ t < SS
        \/ \E t \in Nat : n = NDIR + SZ + SS + t /\ t < SS
    <3>1. n >= NDIR + SZ => n - (NDIR + SZ) \in Nat /\ n = NDIR + SZ + (n - (NDIR + SZ))
      OBVIOUS
    <3>2. n >= NDIR + SZ + SS =>
            n - (NDIR + SZ + SS) \in Nat /\ n = NDIR + SZ + SS + (n - (NDIR + SZ + SS))
      BY <1>1
    <3>3. QED
      BY <1>1, <1>9, <3>1, <3>2
  <2>2. QED
    BY <1>5, <1>6, <1>7, <1>8, <2>1
<1>10. QED
  BY <1>1, <1>2, <1>5, <1>6, <1>7, <1>8, <1>9 DEF SS

-----------------------------------------------------------------------------
(* Through the pointers                                                    *)

\* The way to a block, pointer by pointer.
LEMMA PathShape ==
  ASSUME NEW p \in Pointers!Leaves
  PROVE  /\ p \in Seq(Nat) /\ Len(p) \in 1 .. 4
         /\ \A m \in 2 .. Len(p) : p[m] \in Pointers!Entry
<1>1. \/ \E k \in 0 .. NDIR - 1 : p = <<k>>
      \/ \E j \in 0 .. SZ - 1 : p = <<NDIR, j>>
      \/ \E j, k \in 0 .. SZ - 1 : p = <<NDIR + 1, j, k>>
      \/ \E j, k, m \in 0 .. SZ - 1 : p = <<NDIR + 2, j, k, m>>
  BY LeafLevels
<1>2. CASE \E k \in 0 .. NDIR - 1 : p = <<k>>
  BY <1>2
<1>3. CASE \E j \in 0 .. SZ - 1 : p = <<NDIR, j>>
  BY <1>3 DEF Pointers!Entry
<1>4. CASE \E j, k \in 0 .. SZ - 1 : p = <<NDIR + 1, j, k>>
  BY <1>4 DEF Pointers!Entry
<1>5. CASE \E j, k, m \in 0 .. SZ - 1 : p = <<NDIR + 2, j, k, m>>
  BY <1>5 DEF Pointers!Entry
<1>6. QED
  BY <1>1, <1>2, <1>3, <1>4, <1>5

\* What lies on the way to a block, before it, is a pointer block.
LEMMA Above ==
  ASSUME NEW p \in Pointers!Leaves, NEW m \in 1 .. Len(p) - 1
  PROVE  SubSeq(p, 1, m) \in Pointers!Prefixes(p) \ {p} /\ SubSeq(p, 1, m) \in Pointers!PointerBlocks
<1>1. p \in Seq(Nat) /\ Len(p) \in 1 .. 4
  BY PathShape
<1>2. PICK n \in 1 .. 4 : n = Len(p)
  BY <1>1
<1>3. m \in 1 .. n /\ m \in Int /\ 1 <= m /\ m # n /\ m - 1 + 1 = m
  BY <1>2
<1>4. SubSeq(p, 1, m) \in Pointers!Prefixes(p)
  BY <1>2, <1>3 DEF Pointers!Prefixes
<1>5. \A i \in 1 .. m : p[i] \in Nat
  BY <1>1, <1>2, <1>3
<1>6. Len(SubSeq(p, 1, m)) = IF 1 <= m THEN m - 1 + 1 ELSE 0
  BY <1>3, <1>5, SubSeqProperties
<1>7. Len(SubSeq(p, 1, m)) # Len(p)
  BY <1>2, <1>3, <1>6
<1>8. SubSeq(p, 1, m) \in Pointers!Prefixes(p) \ {p}
  BY <1>4, <1>7
<1>9. QED
  BY <1>8 DEF Pointers!PointerBlocks

LEMMA Tails ==
  ASSUME NEW a, NEW b, NEW c, NEW d
  PROVE  /\ Tail(<<a>>) = <<>> /\ Tail(<<a, b>>) = <<b>>
         /\ Tail(<<a, b, c>>) = <<b, c>> /\ Tail(<<a, b, c, d>>) = <<b, c, d>>
         /\ <<a>> \o <<>> = <<a>>
<1>1. Tail(<<a>>) = <<>>
  OBVIOUS
<1>2. Tail(<<a, b>>) = <<b>>
  OBVIOUS
<1>3. Tail(<<a, b, c>>) = <<b, c>>
  OBVIOUS
<1>4. Tail(<<a, b, c, d>>) = <<b, c, d>>
  OBVIOUS
<1>5. <<a>> \o <<>> = <<a>>
  OBVIOUS
<1>6. QED
  BY <1>1, <1>2, <1>3, <1>4, <1>5

\* A path is its first pointer and the others.
LEMMA FirstAndRest ==
  ASSUME NEW p \in Seq(Nat), Len(p) \in 1 .. 4
  PROVE  SubSeq(p, 1, 1) = <<p[1]>> /\ SubSeq(p, 2, Len(p)) = Tail(p)
<1>1. SubSeq(p, 1, 1) = <<p[1]>> \o SubSeq(p, 2, 1)
  <2>1. 1 \in 1 .. Len(p)
    <3>1. PICK n \in 1 .. 4 : Len(p) = n
      OBVIOUS
    <3>2. 1 \in 1 .. n
      OBVIOUS
    <3>3. QED
      BY <3>1, <3>2
  <2>2. 1 \in 1 .. 1
    OBVIOUS
  <2>3. SubSeq(p, 1, 1) = <<p[1]>> \o SubSeq(p, 1 + 1, 1)
    BY <2>1, <2>2, SubSeqRecursiveFirst
  <2>4. QED
    BY <2>3
<1>2. SubSeq(p, 2, 1) = <<>>
  BY SubSeqEmpty
<1>3. SubSeq(p, 1, 1) = <<p[1]>>
  BY <1>1, <1>2, Tails
<1>4. p # <<>>
  OBVIOUS
<1>5. Tail(p) = SubSeq(p, 2, Len(p))
  BY <1>4, TailIsSubSeq
<1>6. QED
  BY <1>3, <1>5

\* The first pointer of a path and the indices after it.
LEMMA Split ==
  ASSUME NEW p \in Pointers!Leaves
  PROVE  SubSeq(p, 1, 1) = <<p[1]>> /\ SubSeq(p, 2, Len(p)) = Tail(p)
BY PathShape, FirstAndRest

LEMMA SplitInOne ==
  ASSUME NEW a,
         <<a>> \in Pointers!Leaves
  PROVE  LET p == <<a>>
         IN  SubSeq(p, 1, 1) = <<a>> /\ SubSeq(p, 2, Len(p)) = <<>>
<1> DEFINE p == <<a>>
<1>1. p[1] = a /\ Tail(p) = <<>>
  BY Tails
<1>2. SubSeq(p, 1, 1) = <<p[1]>> /\ SubSeq(p, 2, Len(p)) = Tail(p)
  BY Split
<1> HIDE DEF p
<1>3. SubSeq(p, 1, 1) = <<a>> /\ SubSeq(p, 2, Len(p)) = <<>>
  BY <1>1, <1>2
<1>4. QED
  BY <1>3 DEF p

LEMMA SplitInTwo ==
  ASSUME NEW a, NEW b,
         <<a, b>> \in Pointers!Leaves
  PROVE  LET p == <<a, b>>
         IN  SubSeq(p, 1, 1) = <<a>> /\ SubSeq(p, 2, Len(p)) = <<b>>
<1> DEFINE p == <<a, b>>
<1>1. p[1] = a /\ Tail(p) = <<b>>
  BY Tails
<1>2. SubSeq(p, 1, 1) = <<p[1]>> /\ SubSeq(p, 2, Len(p)) = Tail(p)
  BY Split
<1> HIDE DEF p
<1>3. SubSeq(p, 1, 1) = <<a>> /\ SubSeq(p, 2, Len(p)) = <<b>>
  BY <1>1, <1>2
<1>4. QED
  BY <1>3 DEF p

LEMMA SplitInThree ==
  ASSUME NEW a, NEW b, NEW c,
         <<a, b, c>> \in Pointers!Leaves
  PROVE  LET p == <<a, b, c>>
         IN  SubSeq(p, 1, 1) = <<a>> /\ SubSeq(p, 2, Len(p)) = <<b, c>>
<1> DEFINE p == <<a, b, c>>
<1>1. p[1] = a /\ Tail(p) = <<b, c>>
  BY Tails
<1>2. SubSeq(p, 1, 1) = <<p[1]>> /\ SubSeq(p, 2, Len(p)) = Tail(p)
  BY Split
<1> HIDE DEF p
<1>3. SubSeq(p, 1, 1) = <<a>> /\ SubSeq(p, 2, Len(p)) = <<b, c>>
  BY <1>1, <1>2
<1>4. QED
  BY <1>3 DEF p

LEMMA SplitInFour ==
  ASSUME NEW a, NEW b, NEW c, NEW d,
         <<a, b, c, d>> \in Pointers!Leaves
  PROVE  LET p == <<a, b, c, d>>
         IN  SubSeq(p, 1, 1) = <<a>> /\ SubSeq(p, 2, Len(p)) = <<b, c, d>>
<1> DEFINE p == <<a, b, c, d>>
<1>1. p[1] = a /\ Tail(p) = <<b, c, d>>
  BY Tails
<1>2. SubSeq(p, 1, 1) = <<p[1]>> /\ SubSeq(p, 2, Len(p)) = Tail(p)
  BY Split
<1> HIDE DEF p
<1>3. SubSeq(p, 1, 1) = <<a>> /\ SubSeq(p, 2, Len(p)) = <<b, c, d>>
  BY <1>1, <1>2
<1>4. QED
  BY <1>3 DEF p

LEMMA NextOnPath ==
  ASSUME NEW p \in Seq(Nat), NEW k \in 1 .. Len(p) - 1
  PROVE  LET rest == SubSeq(p, k + 1, Len(p))
         IN  /\ Head(rest) = p[k + 1]
             /\ Tail(rest) = SubSeq(p, k + 2, Len(p))
             /\ Tail(rest) = <<>> <=> k + 1 = Len(p)
             /\ Append(SubSeq(p, 1, k), p[k + 1]) = SubSeq(p, 1, k + 1)
<1>1. Len(p) \in Nat
  OBVIOUS
<1>2. /\ Head(SubSeq(p, k + 1, Len(p))) = p[k + 1]
      /\ Tail(SubSeq(p, k + 1, Len(p))) = SubSeq(p, (k + 1) + 1, Len(p))
  BY <1>1, HeadTailOfSubSeq
<1>3. Append(SubSeq(p, 1, k), p[k + 1]) = SubSeq(p, 1, k + 1)
  <2>1. SubSeq(p, 1, k + 1) = SubSeq(p, 1, (k + 1) - 1) \o <<p[k + 1]>>
    <3>1. 1 \in 1 .. Len(p) /\ k + 1 \in 1 .. Len(p)
      BY <1>1
    <3>2. QED
      BY <3>1, SubSeqRecursiveSecond
  <2>2. SubSeq(p, 1, k) \in Seq(Nat)
    BY <1>1, SubSeqProperties
  <2>3. (k + 1) - 1 = k
    BY <1>1
  <2>4. p[k + 1] \in Nat
    BY <1>1
  <2>5. QED
    BY <2>1, <2>2, <2>3, <2>4, AppendIsConcat
<1>4. SubSeq(p, k + 2, Len(p)) = <<>> <=> k + 1 = Len(p)
  <2>1. k + 2 \in Int /\ Len(p) \in Int
    BY <1>1
  <2>2. CASE k + 1 = Len(p)
    BY <1>1, <2>1, <2>2, SubSeqEmpty
  <2>3. CASE k + 1 # Len(p)
    <3>1. k + 2 <= Len(p) /\ \A m \in k + 2 .. Len(p) : p[m] \in Nat
      BY <1>1, <2>3
    <3>2. Len(SubSeq(p, k + 2, Len(p))) = Len(p) - (k + 2) + 1
      BY <2>1, <3>1, SubSeqProperties
    <3>3. Len(p) - (k + 2) + 1 # 0
      BY <1>1, <3>1
    <3>4. QED
      BY <2>3, <3>2, <3>3
  <2>4. QED
    BY <2>2, <2>3
<1>5. (k + 1) + 1 = k + 2
  BY <1>1
<1>6. QED
  BY <1>1, <1>2, <1>3, <1>4, <1>5

LEMMA ReachBounds ==
  ASSUME lbn \in 0 .. Pointers!FileBlocks - 1, Pointers!InReach
  PROVE  lbn \in Nat /\ lbn < NDIR + SZ + SZ * SZ + SZ * SZ
<1>1. SZ * SZ \in Nat
  BY TwoDigits
<1>2. Pointers!dindlast = NDIR + SZ + SZ * SZ
  BY PathOfBlock
<1>3. QED
  BY <1>1, <1>2 DEF Pointers!InReach

\* Every branch of fileblock_to_logical starts with the first pointer of lbn's
\* path and keeps the others.
LEMMA FollowKeepsPath ==
  ASSUME Pointers!WalkInv, NEW k, NEW path, Pointers!Follow(k, path),
         Pointers!InReach => LET p == Pointers!PathOf(lbn)
                             IN  SubSeq(p, 1, 1) = <<k>> /\ path = SubSeq(p, 2, Len(p))
  PROVE  Pointers!WalkInv'
<1> DEFINE p == Pointers!PathOf(lbn)
<1>1. /\ pc = "start" /\ lbn' = lbn /\ hole' = hole /\ bad' = bad
      /\ block' = Pointers!Pointer(<<k>>) /\ todo' = path
      /\ pc' = IF path = <<>> THEN "check" ELSE "walk"
  BY DEF Pointers!Follow
<1>2. lbn \in 0 .. Pointers!FileBlocks - 1
  BY DEF Pointers!WalkInv
<1>3. ASSUME Pointers!InReach
      PROVE  /\ Pointers!OnPath(p, 1)'
             /\ Len(p) \in 1 .. 4 /\ path = SubSeq(p, 2, Len(p)) /\ (path = <<>> <=> Len(p) = 1)
  <2>1. lbn \in Nat /\ lbn < NDIR + SZ + SZ * SZ + SZ * SZ
    BY <1>2, <1>3, ReachBounds
  <2>2. p \in Pointers!Leaves
    BY <2>1, PathOfBlock
  <2>3. p \in Seq(Nat) /\ Len(p) \in 1 .. 4
    BY <2>2, PathShape
  <2>4. SubSeq(p, 1, 1) = <<k>> /\ path = SubSeq(p, 2, Len(p))
    BY <1>3
  <2>5. path = <<>> <=> Len(p) = 1
    <3>1. Len(p) = 1 => path = <<>>
      BY <2>3, <2>4, SubSeqEmpty
    <3>2. Len(p) > 1 => Len(path) = Len(p) - 1
      <4>1. \A m \in 2 .. Len(p) : p[m] \in Nat
        BY <2>3
      <4>2. Len(SubSeq(p, 2, Len(p))) = IF 2 <= Len(p) THEN Len(p) - 2 + 1 ELSE 0
        BY <2>3, <4>1, SubSeqProperties
      <4>3. QED
        BY <2>3, <2>4, <4>2
    <3>3. Len(p) > 1 => path # <<>>
      <4>1. PICK n \in 1 .. 4 : n = Len(p)
        BY <2>3
      <4>2. n > 1 => Len(path) = n - 1 /\ n - 1 # 0
        BY <3>2, <4>1
      <4>3. Len(<<>>) = 0
        OBVIOUS
      <4>4. QED
        BY <4>1, <4>2, <4>3
    <3>4. Len(p) = 1 \/ Len(p) > 1
      <4>1. PICK n \in 1 .. 4 : n = Len(p)
        BY <2>3
      <4>2. n = 1 \/ n > 1
        OBVIOUS
      <4>3. QED
        BY <4>1, <4>2
    <3>5. QED
      BY <3>1, <3>3, <3>4
  <2>6. Pointers!OnPath(p, 1)'
    <3>1. block' = Pointers!Pointer(SubSeq(p, 1, 1))
      BY <1>1, <2>4
    <3>2. p' = p
      BY <1>1
    <3>3. QED
      BY <1>1, <3>1, <3>2 DEF Pointers!OnPath, Pointers!Pointer
  <2>7. QED
    BY <2>3, <2>4, <2>5, <2>6
<1>4. p' = p /\ Pointers!FileBlocks' = Pointers!FileBlocks /\ (Pointers!InReach' <=> Pointers!InReach)
  BY <1>1 DEF Pointers!InReach
<1>5. CASE path = <<>>
  <2>1. pc' = "check" /\ (Pointers!InReach => Pointers!OnPath(p, Len(p))')
    BY <1>1, <1>3, <1>5
  <2>2. QED
    BY <1>1, <1>2, <1>4, <2>1 DEF Pointers!WalkInv
<1>6. CASE path # <<>>
  <2>1. pc' = "walk"
    BY <1>1, <1>6
  <2>2. Pointers!InReach =>
          \E m \in 1 .. Len(p) - 1 : todo' = SubSeq(p, m + 1, Len(p)) /\ Pointers!OnPath(p, m)'
    BY <1>1, <1>3, <1>6
  <2>3. QED
    BY <1>1, <1>2, <1>4, <2>1, <2>2 DEF Pointers!WalkInv
<1>7. QED
  BY <1>5, <1>6

LEMMA BranchInv ==
  ASSUME Pointers!WalkInv,
         Pointers!Direct \/ Pointers!Indirect \/ Pointers!DoubleIndirect \/ Pointers!TripleIndirect
  PROVE  Pointers!WalkInv'
<1> DEFINE p == Pointers!PathOf(lbn)
           n == NDIR + SZ
           SS == SZ * SZ
<1>1. /\ SS \in Nat /\ Pointers!indlast = n /\ Pointers!dindlast = n + SS
      /\ lbn \in 0 .. Pointers!FileBlocks - 1
  BY PathOfBlock, TwoDigits DEF Pointers!WalkInv
<1>2. Pointers!InReach => lbn \in Nat /\ lbn < n + SS + SS
  BY <1>1, ReachBounds
<1>3. Pointers!InReach => p \in Pointers!Leaves
  BY <1>2, PathOfBlock
<1> HIDE DEF SS
<1>4. CASE Pointers!Direct
  <2>1. lbn < NDIR /\ Pointers!Follow(lbn, <<>>)
    BY <1>4 DEF Pointers!Direct
  <2>2. Pointers!InReach => p = <<lbn>>
    BY <1>2, <2>1, PathOfBlock
  <2>3. Pointers!InReach => SubSeq(p, 1, 1) = <<lbn>> /\ SubSeq(p, 2, Len(p)) = <<>>
    BY <1>3, <2>2, SplitInOne
  <2>4. QED
    BY <2>1, <2>3, FollowKeepsPath
<1>5. CASE Pointers!Indirect
  <2>1. NDIR <= lbn /\ lbn < n /\ Pointers!Follow(NDIR, <<lbn - NDIR>>)
    BY <1>1, <1>5 DEF Pointers!Indirect, Pointers!IND
  <2>2. Pointers!InReach => p = <<NDIR, lbn - NDIR>>
    BY <1>2, <2>1, PathOfBlock
  <2>3. Pointers!InReach => SubSeq(p, 1, 1) = <<NDIR>> /\ SubSeq(p, 2, Len(p)) = <<lbn - NDIR>>
    <3> DEFINE j == lbn - NDIR
    <3> HIDE DEF j, p
    <3>1. p \in Pointers!Leaves /\ p = <<NDIR, j>> =>
            SubSeq(p, 1, 1) = <<NDIR>> /\ SubSeq(p, 2, Len(p)) = <<j>>
      BY SplitInTwo
    <3>2. QED
      BY <1>3, <2>2, <3>1 DEF j
  <2>4. QED
    BY <2>1, <2>3, FollowKeepsPath
<1>6. CASE Pointers!DoubleIndirect
  <2> DEFINE t == lbn - n
  <2>1. n <= lbn /\ lbn < n + SS /\ Pointers!Follow(NDIR + 1, <<t \div SZ, t % SZ>>)
    BY <1>1, <1>6 DEF Pointers!DoubleIndirect, Pointers!DIND
  <2>2. Pointers!InReach => t \in Nat /\ lbn = n + t /\ t < SS
    BY <1>1, <1>2, <2>1
  <2>3. Pointers!InReach => p = <<NDIR + 1, t \div SZ, t % SZ>>
    BY <1>2, <2>2, PathOfBlock DEF SS
  <2> HIDE DEF t
  <2>4. Pointers!InReach => SubSeq(p, 1, 1) = <<NDIR + 1>> /\ SubSeq(p, 2, Len(p)) = <<t \div SZ, t % SZ>>
    <3> DEFINE j == t \div SZ
               k == t % SZ
    <3> HIDE DEF j, k, p
    <3>1. p \in Pointers!Leaves /\ p = <<NDIR + 1, j, k>> =>
            SubSeq(p, 1, 1) = <<NDIR + 1>> /\ SubSeq(p, 2, Len(p)) = <<j, k>>
      BY SplitInThree
    <3>2. QED
      BY <1>3, <2>3, <3>1 DEF j, k
  <2>5. QED
    BY <2>1, <2>4, FollowKeepsPath
<1>7. CASE Pointers!TripleIndirect
  <2> DEFINE t == lbn - (n + SS)
  <2>1. n + SS <= lbn /\ Pointers!Follow(NDIR + 2, <<t \div (SZ * SZ), t \div SZ, t % SZ>>)
    BY <1>1, <1>7 DEF Pointers!TripleIndirect, Pointers!TIND
  <2>2. Pointers!InReach => t \in Nat /\ lbn = n + SS + t /\ t < SS
    BY <1>1, <1>2, <2>1
  <2>3. Pointers!InReach => p = <<NDIR + 2, t \div (SZ * SZ), t \div SZ, t % SZ>>
    BY <1>2, <2>2, PathOfBlock DEF SS
  <2> HIDE DEF t
  <2>4. Pointers!InReach =>
          SubSeq(p, 1, 1) = <<NDIR + 2>> /\ SubSeq(p, 2, Len(p)) = <<t \div (SZ * SZ), t \div SZ, t % SZ>>
    <3> DEFINE i == t \div (SZ * SZ)
               j == t \div SZ
               k == t % SZ
    <3> HIDE DEF i, j, k, p
    <3>1. p \in Pointers!Leaves /\ p = <<NDIR + 2, i, j, k>> =>
            SubSeq(p, 1, 1) = <<NDIR + 2>> /\ SubSeq(p, 2, Len(p)) = <<i, j, k>>
      BY SplitInFour
    <3>2. QED
      BY <1>3, <2>3, <3>1 DEF i, j, k
  <2>5. QED
    BY <2>1, <2>4, FollowKeepsPath
<1>8. QED
  BY <1>4, <1>5, <1>6, <1>7

\* One more pointer of the path, whatever buffer it is taken from.
LEMMA ReadPointersInv == ASSUME Pointers!WalkInv, Pointers!ReadPointers PROVE Pointers!WalkInv'
<1> DEFINE p == Pointers!PathOf(lbn)
<1>1. /\ pc = "walk" /\ lbn' = lbn /\ hole' = hole /\ bad' = bad
      /\ block' \in Pointers!BufferEntries(Head(todo)) /\ todo' = Tail(todo)
      /\ pc' = IF todo' = <<>> THEN "check" ELSE "walk"
  BY DEF Pointers!ReadPointers
<1>2. lbn \in 0 .. Pointers!FileBlocks - 1
  BY DEF Pointers!WalkInv
<1>3. p' = p /\ Pointers!FileBlocks' = Pointers!FileBlocks /\ (Pointers!InReach' <=> Pointers!InReach)
  BY <1>1 DEF Pointers!InReach
<1>4. ASSUME Pointers!InReach
      PROVE  \E k \in 1 .. Len(p) - 1 :
               /\ Pointers!OnPath(p, k + 1)' /\ Len(p) \in Nat
               /\ Tail(todo) = SubSeq(p, k + 2, Len(p)) /\ (Tail(todo) = <<>> <=> k + 1 = Len(p))
  <2>1. lbn \in Nat /\ lbn < NDIR + SZ + SZ * SZ + SZ * SZ
    BY <1>2, <1>4, ReachBounds
  <2>2. p \in Pointers!Leaves
    BY <2>1, PathOfBlock
  <2>3. /\ p \in Seq(Nat) /\ Len(p) \in 1 .. 4
        /\ \A m \in 2 .. Len(p) : p[m] \in Pointers!Entry
    BY <2>2, PathShape
  <2>4. PICK k \in 1 .. Len(p) - 1 : todo = SubSeq(p, k + 1, Len(p)) /\ Pointers!OnPath(p, k)
    BY <1>1, <1>4 DEF Pointers!WalkInv
  <2>5. /\ Head(todo) = p[k + 1] /\ Tail(todo) = SubSeq(p, k + 2, Len(p))
        /\ Tail(todo) = <<>> <=> k + 1 = Len(p)
        /\ Append(SubSeq(p, 1, k), p[k + 1]) = SubSeq(p, 1, k + 1)
    BY <2>3, <2>4, NextOnPath
  <2>6. k \in 1 .. Len(p) /\ k + 1 \in 2 .. Len(p) /\ (k + 1) - 1 = k /\ k \in 1 .. k
    BY <2>3
  <2>7. Head(todo) \in Pointers!Entry /\ SubSeq(p, 1, k) \in Pointers!PointerBlocks
    BY <2>2, <2>3, <2>5, <2>6, Above
  <2> HIDE DEF p
  <2>8. Pointers!OnPath(p, k + 1)'
    <3>1. SUFFICES \/ block' = Pointers!Pointer(SubSeq(p, 1, k + 1))
                   \/ \E m \in 1 .. k : SubSeq(p, 1, m) \in {hole, bad}
      BY <1>1, <1>3, <2>6 DEF Pointers!OnPath, Pointers!Pointer
    <3>2. CASE \E m \in 1 .. k - 1 : SubSeq(p, 1, m) \in {hole, bad}
      <4>1. PICK m \in 1 .. k - 1 : SubSeq(p, 1, m) \in {hole, bad}
        BY <3>2
      <4>2. m \in 1 .. k
        BY <2>6
      <4>3. QED
        BY <4>1, <4>2
    <3>3. CASE SubSeq(p, 1, k) \in {hole, bad}
      BY <2>6, <3>3
    <3>4. CASE block = Pointers!Pointer(SubSeq(p, 1, k)) /\ SubSeq(p, 1, k) \notin {hole, bad}
      <4>1. block = SubSeq(p, 1, k)
        BY <3>4 DEF Pointers!Pointer
      <4>2. block' = Pointers!Pointer(Append(block, Head(todo)))
        BY <1>1, <2>7, <3>4, <4>1 DEF Pointers!BufferEntries
      <4>3. QED
        BY <2>5, <4>1, <4>2
    <3>5. QED
      BY <2>4, <3>2, <3>3, <3>4 DEF Pointers!OnPath
  <2>9. Len(p) \in Nat
    BY <2>3
  <2>10. QED
    BY <2>5, <2>8, <2>9
<1>5. CASE Tail(todo) = <<>>
  <2>1. pc' = "check" /\ (Pointers!InReach => Pointers!OnPath(p, Len(p))')
    BY <1>1, <1>4, <1>5
  <2>2. QED
    BY <1>1, <1>2, <1>3, <2>1 DEF Pointers!WalkInv
<1>6. CASE Tail(todo) # <<>>
  <2>1. pc' = "walk"
    BY <1>1, <1>6
  <2>2. Pointers!InReach =>
          \E m \in 1 .. Len(p) - 1 : todo' = SubSeq(p, m + 1, Len(p)) /\ Pointers!OnPath(p, m)'
    <3>1. SUFFICES ASSUME Pointers!InReach
                   PROVE  \E m \in 1 .. Len(p) - 1 :
                            todo' = SubSeq(p, m + 1, Len(p)) /\ Pointers!OnPath(p, m)'
      OBVIOUS
    <3>2. PICK k \in 1 .. Len(p) - 1 :
            /\ Pointers!OnPath(p, k + 1)' /\ Len(p) \in Nat
            /\ Tail(todo) = SubSeq(p, k + 2, Len(p)) /\ (Tail(todo) = <<>> <=> k + 1 = Len(p))
      BY <1>4, <3>1
    <3>3. k + 1 \in 1 .. Len(p) - 1 /\ (k + 1) + 1 = k + 2
      BY <1>6, <3>2
    <3>4. QED
      BY <1>1, <3>2, <3>3
  <2>3. QED
    BY <1>1, <1>2, <1>3, <2>1, <2>2 DEF Pointers!WalkInv
<1>7. QED
  BY <1>5, <1>6

LEMMA ReadDataBlockInv ==
  ASSUME Pointers!WalkInv, Pointers!ReadDataBlock \/ (UNCHANGED pointerVars /\ lbn' = lbn)
  PROVE  Pointers!WalkInv'
<1> DEFINE p == Pointers!PathOf(lbn)
<1>1. /\ lbn' = lbn /\ hole' = hole /\ bad' = bad /\ block' = block /\ todo' = todo
      /\ \/ pc = "check" /\ pc' = "done" /\ result' = block
         \/ pc' = pc /\ result' = result
  BY DEF Pointers!ReadDataBlock, pointerVars
<1>2. p' = p /\ Pointers!FileBlocks' = Pointers!FileBlocks /\ (Pointers!InReach' <=> Pointers!InReach)
  BY <1>1 DEF Pointers!InReach
<1>3. \A k : Pointers!OnPath(p, k) => Pointers!OnPath(p, k)'
  BY <1>1, <1>2 DEF Pointers!OnPath, Pointers!Pointer
<1>4. QED
  BY <1>1, <1>2, <1>3 DEF Pointers!WalkInv

\* Where a walk ends is where its property says.
LEMMA WalkEnds == ASSUME Pointers!WalkInv PROVE Pointers!FindsItsBlock
<1> DEFINE p == Pointers!PathOf(lbn)
<1>1. SUFFICES ASSUME pc = "done", Pointers!InReach,
                      {hole, bad} \cap Pointers!OnTheWay(lbn) = {}
               PROVE  result = Pointers!Pointer(p)
  BY DEF Pointers!FindsItsBlock
<1>2. lbn \in 0 .. Pointers!FileBlocks - 1 /\ Pointers!OnPath(p, Len(p)) /\ result = block
  BY <1>1 DEF Pointers!WalkInv
<1>3. p \in Pointers!Leaves
  <2>1. lbn \in Nat /\ lbn < NDIR + SZ + SZ * SZ + SZ * SZ
    BY <1>1, <1>2, ReachBounds
  <2>2. QED
    BY <2>1, PathOfBlock
<1>4. SubSeq(p, 1, Len(p)) = p
  BY <1>3, PathShape, SubSeqFull
<1>5. \A m \in 1 .. Len(p) - 1 : SubSeq(p, 1, m) \in Pointers!OnTheWay(lbn)
  BY <1>3, Above DEF Pointers!OnTheWay
<1> HIDE DEF p
<1>6. \A m \in 1 .. Len(p) - 1 : SubSeq(p, 1, m) \notin {hole, bad}
  BY <1>1, <1>5
<1>7. QED
  BY <1>2, <1>4, <1>6 DEF Pointers!OnPath

-----------------------------------------------------------------------------
(* Through the extent tree                                                 *)

USE TreeAssumption

\* A set of indices has a first.
LEMMA FirstIndex ==
  ASSUME NEW S, S \subseteq Nat, S # {}
  PROVE  /\ (CHOOSE i \in S : \A j \in S : i <= j) \in S
         /\ \A j \in S : (CHOOSE i \in S : \A k \in S : i <= k) <= j
<1>1. \E i \in S : \A j \in S : i <= j
  <2> DEFINE T == {0 .. i : i \in S}
             less == StrictSubsetOrdering(Nat)
  <2>1. T \subseteq FiniteSubsetsOf(Nat) /\ T # {}
    <3>1. \A i \in S : 0 .. i \in SUBSET Nat /\ IsFiniteSet(0 .. i)
      BY FS_Interval
    <3>2. QED
      BY <3>1 DEF FiniteSubsetsOf
  <2> HIDE DEF T
  <2>2. \E x \in T : \A y \in T : ~(<<y, x>> \in StrictSubsetOrdering(Nat))
    BY <2>1, FS_StrictSubsetOrderingWellFounded, WFMin, Zenon
  <2>3. PICK i \in S : \A j \in S : <<0 .. j, 0 .. i>> \notin less
    <3> HIDE DEF less
    <3>1. PICK x \in T : \A y \in T : <<y, x>> \notin less
      BY <2>2 DEF less
    <3>2. PICK i \in S : x = 0 .. i
      BY DEF T
    <3>3. \A j \in S : 0 .. j \in T
      BY DEF T
    <3>4. QED
      BY <3>1, <3>2, <3>3
  <2>4. ASSUME NEW j \in S, j < i PROVE FALSE
    <3>1. 0 .. j \subseteq 0 .. i /\ 0 .. i # 0 .. j
      <4>1. i \in 0 .. i /\ i \notin 0 .. j
        BY <2>4
      <4>2. 0 .. j \subseteq 0 .. i
        BY <2>4
      <4>3. QED
        BY <4>1, <4>2
    <3>2. 0 .. j \in SUBSET Nat /\ 0 .. i \in SUBSET Nat
      OBVIOUS
    <3>3. <<0 .. j, 0 .. i>> \in less
      BY <3>1, <3>2 DEF StrictSubsetOrdering
    <3>4. QED
      BY <2>3, <3>3
  <2>5. \A j \in S : ~(j < i) => i <= j
    OBVIOUS
  <2>6. QED
    BY <2>4, <2>5
<1>2. QED
  BY <1>1

LEMMA TreeInitInv == ASSUME Tree!Init PROVE Tree!SearchInv
BY DEF Tree!Init, Tree!SearchInv, Tree!LeadsOn, Tree!FindsItsBlock

LEMMA EntryOfSeq == ASSUME NEW S, NEW s \in Seq(S) PROVE \A i \in DOMAIN s : s[i] \in S
OBVIOUS

\* A leaf that leads to the extents of lbn gives its block.
LEMMA LeafFinds ==
  ASSUME lbn \in FileBlock, Tree!LeadsOn(header), Tree!Leaf,
         \A e \in Extents[tree] : Tree!IsUnwritten(e) => lbn < e.block
  PROVE  found' = Tree!OnDisk(lbn)
<1> DEFINE e == header.entries
           holding == {i \in DOMAIN e : Tree!Holds(e[i])}
           first == CHOOSE i \in holding : \A j \in holding : i <= j
           owner == {x \in Extents[tree] : ~Tree!IsUnwritten(x) /\ lbn \in Tree!Covered(x)}
<1>1. /\ header.depth = 0
      /\ found' = IF holding = {} THEN 0 ELSE e[first].start + lbn - e[first].block
  BY DEF Tree!Leaf, Tree!Return
<1>2. /\ Extents[header] \subseteq [block : Nat, len : Nat, start : Nat]
      /\ e \in Seq(Extents[header]) /\ Extents[header] = {e[i] : i \in DOMAIN e}
      /\ \A x, y \in Extents[header] : Tree!Covered(x) \cap Tree!Covered(y) # {} => x = y
  BY <1>1 DEF Tree!LeadsOn, Tree!IsNode, Tree!Range
<1>3. lbn \in Nat /\ InitMax \in Nat
  OBVIOUS
<1>4. owner = {x \in Extents[header] : Tree!Holds(x)}
  <2>1. ASSUME NEW x \in Extents[header], Tree!Holds(x)
        PROVE  ~Tree!IsUnwritten(x) /\ lbn \in Tree!Covered(x)
    <3>1. x \in [block : Nat, len : Nat, start : Nat] /\ x \in Extents[tree]
      BY <1>2 DEF Tree!LeadsOn
    <3>2. x.block <= lbn /\ lbn < x.block + x.len
      BY <2>1 DEF Tree!Holds, Tree!EndOf
    <3>3. ~Tree!IsUnwritten(x)
      BY <1>3, <3>1, <3>2
    <3>4. QED
      BY <1>3, <3>1, <3>2, <3>3 DEF Tree!Covered, Tree!Length
  <2>2. ASSUME NEW x \in Extents[tree], ~Tree!IsUnwritten(x), lbn \in Tree!Covered(x)
        PROVE  x \in Extents[header] /\ Tree!Holds(x)
    <3>1. x \in Extents[header]
      BY <2>2 DEF Tree!LeadsOn
    <3>2. x \in [block : Nat, len : Nat, start : Nat]
      BY <1>2, <3>1
    <3>3. QED
      BY <1>3, <2>2, <3>1, <3>2 DEF Tree!Covered, Tree!Length, Tree!Holds, Tree!EndOf
  <2>3. Extents[header] \subseteq Extents[tree]
    BY DEF Tree!LeadsOn
  <2>4. QED
    BY <2>1, <2>2, <2>3
<1> HIDE DEF owner
<1>5. CASE holding = {}
  <2>1. owner = {}
    BY <1>2, <1>4, <1>5
  <2>2. QED
    BY <1>1, <1>5, <2>1 DEF Tree!OnDisk, owner
<1>6. CASE holding # {}
  <2>1. holding \subseteq Nat
    BY <1>2
  <2>2. first \in holding
    BY <1>6, <2>1, FirstIndex
  <2> HIDE DEF first
  <2>3. e[first] \in owner
    BY <1>2, <1>4, <2>2
  <2>4. \A x \in owner : x = e[first]
    BY <1>2, <1>4, <2>3 DEF owner
  <2>5. (CHOOSE x \in owner : TRUE) = e[first] /\ owner # {}
    BY <2>3, <2>4
  <2>6. Tree!OnDisk(lbn) = LET x == CHOOSE x \in owner : TRUE IN x.start + lbn - x.block
    BY <2>5 DEF Tree!OnDisk, owner
  <2>7. QED
    BY <1>1, <1>6, <2>5, <2>6
<1>7. QED
  BY <1>5, <1>6

\* The index entry that is followed leads to the extents of lbn; where there is
\* none, the file has none.
LEMMA IndexFinds ==
  ASSUME lbn \in FileBlock, Tree!LeadsOn(header), Tree!IndexNode
  PROVE  \/ search' = "child" /\ Tree!LeadsOn(index'.child)
         \/ search' = "done" /\ found' = 0 /\ Tree!OnDisk(lbn) = 0
<1> DEFINE e == header.entries
           following == {i \in DOMAIN e : Tree!Follows(i)}
           first == CHOOSE i \in following : \A j \in following : i <= j
<1>1. /\ header.depth > 0
      /\ IF following = {} THEN search' = "done" /\ found' = 0
         ELSE search' = "child" /\ index' = e[first]
  BY DEF Tree!IndexNode, Tree!Return
<1>2. header \in Nodes /\ Tree!IsNode(header)
  BY DEF Tree!LeadsOn
<1>3. header.depth # 0
  BY <1>1
<1>4. /\ Extents[header] \subseteq [block : Nat, len : Nat, start : Nat]
      /\ e \in Seq([block : Nat, child : Nodes])
      /\ Extents[header] = UNION {Extents[e[i].child] : i \in DOMAIN e}
      /\ \A i, j \in DOMAIN e : \A x \in Extents[e[i].child] :
           /\ j <= i => e[j].block <= x.block
           /\ i < j => x.block + Tree!Length(x) <= e[j].block
  BY <1>2, <1>3 DEF Tree!IsNode
<1>5. lbn \in Nat /\ InitMax \in Nat
  OBVIOUS
<1>6. DOMAIN e = 1 .. Len(e) /\ Len(e) \in Nat
  BY <1>4
<1>7. \A i \in DOMAIN e : e[i] \in [block : Nat, child : Nodes]
  <2> HIDE DEF e
  <2>1. e \in Seq([block : Nat, child : Nodes])
    BY <1>4
  <2> DEFINE R == [block : Nat, child : Nodes]
  <2> HIDE DEF R
  <2>2. e \in Seq(R) => \A i \in DOMAIN e : e[i] \in R
    BY EntryOfSeq
  <2>3. QED
    BY <2>1, <2>2 DEF R
<1>8. ASSUME NEW x \in Extents[header], lbn \in Tree!Covered(x)
      PROVE  /\ x.block \in Nat /\ Tree!Length(x) \in Int
             /\ x.block <= lbn /\ lbn < x.block + Tree!Length(x)
  <2>1. x \in [block : Nat, len : Nat, start : Nat]
    BY <1>4
  <2>2. Tree!Length(x) \in Int
    BY <1>5, <2>1 DEF Tree!Length
  <2>3. QED
    BY <1>5, <1>8, <2>1, <2>2 DEF Tree!Covered
<1>9. CASE following = {}
  <2>1. e = <<>>
    <3>1. Len(e) \in DOMAIN e => Len(e) \in following
      BY DEF Tree!Follows
    <3>2. Len(e) = 0
      BY <1>6, <1>9, <3>1
    <3>3. QED
      BY <1>4, <3>2
  <2>2. Extents[header] = {}
    BY <1>4, <1>6, <2>1
  <2>3. Tree!OnDisk(lbn) = 0
    BY <2>2 DEF Tree!OnDisk, Tree!LeadsOn
  <2>4. QED
    BY <1>1, <1>9, <2>3
<1>10. CASE following # {}
  <2>1. following \subseteq Nat
    BY <1>6
  <2>2. first \in following /\ \A j \in following : first <= j
    BY <1>10, <2>1, FirstIndex
  <2> HIDE DEF first
  <2>3. PICK i \in DOMAIN e : i = first /\ Tree!Follows(i) /\ \A j \in following : i <= j
    BY <2>2
  <2>4. e[i] \in [block : Nat, child : Nodes]
    BY <1>7
  <2>5. ASSUME NEW x \in Extents[header], lbn \in Tree!Covered(x) PROVE x \in Extents[e[i].child]
    <3>1. /\ x.block \in Nat /\ Tree!Length(x) \in Int
          /\ x.block <= lbn /\ lbn < x.block + Tree!Length(x)
      BY <1>8, <2>5
    <3>2. PICK k \in DOMAIN e : x \in Extents[e[k].child]
      BY <1>4
    <3>3. ~(k < i)
      <4>1. SUFFICES ASSUME k < i PROVE FALSE
        OBVIOUS
      <4>2. k \notin following
        BY <1>6, <2>3, <4>1
      <4>3. k + 1 \in DOMAIN e
        BY <1>6, <2>3, <3>2, <4>1
      <4>4. ~(lbn < e[k + 1].block)
        BY <3>2, <4>2 DEF Tree!Follows
      <4>5. x.block + Tree!Length(x) <= e[k + 1].block
        <5>1. k < k + 1
          BY <1>6
        <5>2. QED
          BY <1>4, <3>2, <4>3, <5>1
      <4>6. e[k + 1].block \in Nat
        <5>1. e[k + 1] \in [block : Nat, child : Nodes]
          BY <1>7, <4>3
        <5>2. QED
          BY <5>1
      <4>7. QED
        BY <1>5, <3>1, <4>4, <4>5, <4>6
    <3>4. ~(i < k)
      <4>1. SUFFICES ASSUME i < k PROVE FALSE
        OBVIOUS
      <4>2. i + 1 \in DOMAIN e /\ i # Len(e) /\ i + 1 <= k
        BY <1>6, <2>3, <3>2, <4>1
      <4>3. lbn < e[i + 1].block
        BY <2>3, <4>2 DEF Tree!Follows
      <4>4. e[i + 1].block <= x.block
        BY <1>4, <3>2, <4>2
      <4>5. e[i + 1].block \in Nat
        <5>1. e[i + 1] \in [block : Nat, child : Nodes]
          BY <1>7, <4>2
        <5>2. QED
          BY <5>1
      <4>6. QED
        BY <1>5, <3>1, <4>3, <4>4, <4>5
    <3>5. k = i
      BY <1>6, <2>3, <3>2, <3>3, <3>4
    <3>6. QED
      BY <3>2, <3>5
  <2>6. Extents[e[i].child] \subseteq Extents[header]
    BY <1>4, <2>3
  <2>7. Tree!LeadsOn(e[i].child)
    BY <2>4, <2>5, <2>6 DEF Tree!LeadsOn
  <2>8. index' = e[i]
    BY <1>1, <1>10, <2>3
  <2>9. QED
    BY <1>1, <1>10, <2>7, <2>8
<1>11. QED
  BY <1>9, <1>10

LEMMA TreeStepInv ==
  ASSUME Tree!SearchInv, Tree!Next \/ (UNCHANGED extentVars /\ lbn' = lbn)
  PROVE  Tree!SearchInv'
<1>1. tree' = tree /\ lbn' = lbn /\ tree \in Nodes /\ lbn \in FileBlock
  BY DEF Tree!SearchInv, Tree!Next, Tree!BadMagic, Tree!Leaf, Tree!IndexNode, Tree!ReadChild,
         Tree!ReadChildFails, Tree!Returned, Tree!vars, extentVars
<1>2. ASSUME NEW n PROVE Tree!LeadsOn(n)' <=> \E m : m = n' /\ Tree!LeadsOn(m)
  BY <1>1 DEF Tree!LeadsOn
<1>3. Tree!OnDisk(lbn)' = Tree!OnDisk(lbn)
  BY <1>1 DEF Tree!OnDisk
<1>4. CASE Tree!BadMagic
  <2>1. header = NoHeader /\ search = "search" /\ search' = "done" /\ failed' = failed
    BY <1>4 DEF Tree!BadMagic, Tree!Return
  <2>2. failed
    BY <2>1 DEF Tree!SearchInv, Tree!LeadsOn
  <2>3. QED
    BY <1>1, <2>1, <2>2 DEF Tree!SearchInv, Tree!FindsItsBlock
<1>5. CASE Tree!Leaf
  <2>1. search = "search" /\ search' = "done" /\ failed' = failed
    BY <1>5 DEF Tree!Leaf, Tree!Return
  <2>2. ~failed => Tree!LeadsOn(header)
    BY <2>1 DEF Tree!SearchInv
  <2>3. ~failed /\ (\A x \in Extents[tree] : Tree!IsUnwritten(x) => lbn < x.block) =>
          found' = Tree!OnDisk(lbn)
    BY <1>1, <1>5, <2>2, LeafFinds
  <2>4. Tree!FindsItsBlock'
    BY <1>1, <1>3, <2>1, <2>3 DEF Tree!FindsItsBlock, Tree!IsUnwritten
  <2>5. QED
    BY <1>1, <2>1, <2>4 DEF Tree!SearchInv
<1>6. CASE Tree!IndexNode
  <2>1. search = "search" /\ search' \in {"child", "done"} /\ failed' = failed
    BY <1>6 DEF Tree!IndexNode, Tree!Return
  <2>2. ~failed =>
          \/ search' = "child" /\ Tree!LeadsOn(index'.child)
          \/ search' = "done" /\ found' = 0 /\ Tree!OnDisk(lbn) = 0
    BY <1>1, <1>6, <2>1, IndexFinds DEF Tree!SearchInv
  <2>3. Tree!FindsItsBlock'
    BY <1>3, <2>1, <2>2 DEF Tree!FindsItsBlock
  <2>4. ~failed' => (search' = "child" => Tree!LeadsOn(index.child)')
    BY <1>1, <2>1, <2>2 DEF Tree!LeadsOn
  <2>5. QED
    BY <1>1, <2>1, <2>3, <2>4 DEF Tree!SearchInv
<1>7. CASE Tree!ReadChild
  <2>1. search = "child" /\ search' = "search" /\ failed' = failed /\ header' = index.child
    BY <1>7 DEF Tree!ReadChild
  <2>2. ~failed => Tree!LeadsOn(header)'
    BY <1>1, <2>1 DEF Tree!SearchInv, Tree!LeadsOn
  <2>3. QED
    BY <1>1, <2>1, <2>2 DEF Tree!SearchInv, Tree!FindsItsBlock
<1>8. CASE Tree!ReadChildFails
  <2>1. search' = "search" /\ failed' = TRUE
    BY <1>8 DEF Tree!ReadChildFails
  <2>2. QED
    BY <1>1, <2>1 DEF Tree!SearchInv, Tree!FindsItsBlock
<1>9. CASE Tree!Returned \/ (UNCHANGED extentVars /\ lbn' = lbn)
  <2>1. /\ search' = search /\ failed' = failed /\ header' = header
        /\ index' = index /\ found' = found
    BY <1>9 DEF Tree!Returned, Tree!vars, extentVars
  <2>2. Tree!FindsItsBlock' <=> Tree!FindsItsBlock
    BY <1>1, <1>3, <2>1 DEF Tree!FindsItsBlock, Tree!IsUnwritten
  <2>3. (Tree!LeadsOn(header)' <=> Tree!LeadsOn(header))
        /\ (Tree!LeadsOn(index.child)' <=> Tree!LeadsOn(index.child))
    BY <1>1, <2>1 DEF Tree!LeadsOn, Tree!Covered, Tree!Length, Tree!IsUnwritten
  <2>4. QED
    BY <1>1, <2>1, <2>2, <2>3 DEF Tree!SearchInv
<1>10. QED
  BY <1>4, <1>5, <1>6, <1>7, <1>8, <1>9 DEF Tree!Next

-----------------------------------------------------------------------------
(* read_data_block                                                         *)

\* A lookup in the block pointers below dindlast + sz * sz stays on the path of its
\* block until it meets a pointer block that is missing or not read, and one in an
\* extent tree above every extent its block is in.
THEOREM FileMapInvariant == Spec => []FileMapInv
<1>1. Init => FileMapInv
  <2>1. SUFFICES ASSUME Init PROVE FileMapInv
    OBVIOUS
  <2>2. CASE extents = TRUE /\ Tree!Init
    BY <2>2, TreeInitInv DEF FileMapInv
  <2>3. CASE extents = FALSE /\ Pointers!Init
    BY <2>3, AskedAssumption DEF FileMapInv, Pointers!Init, Pointers!WalkInv
  <2>4. QED
    BY <2>1, <2>2, <2>3 DEF Init
<1>2. FileMapInv /\ [Next]_vars => FileMapInv'
  <2>1. SUFFICES ASSUME FileMapInv, [Next]_vars PROVE FileMapInv'
    OBVIOUS
  <2>2. extents' = extents /\ extents \in BOOLEAN
    BY <2>1 DEF FileMapInv, Next, ThroughTree, ThroughPointers, vars
  <2>3. CASE extents
    <3>1. Tree!Next \/ (UNCHANGED extentVars /\ lbn' = lbn)
      <4>1. CASE Next
        BY <2>3, <4>1 DEF Next, ThroughTree, ThroughPointers
      <4>2. CASE UNCHANGED vars
        BY <4>2 DEF vars
      <4>3. QED
        BY <2>1, <4>1, <4>2
    <3>2. Tree!SearchInv'
      BY <2>1, <2>3, <3>1, TreeStepInv DEF FileMapInv
    <3>3. QED
      BY <2>2, <2>3, <3>2 DEF FileMapInv
  <2>4. CASE ~extents
    <3>1. Pointers!WalkInv
      BY <2>1, <2>4 DEF FileMapInv
    <3>2. Pointers!Next \/ (UNCHANGED pointerVars /\ lbn' = lbn)
      <4>1. CASE Next
        BY <2>4, <4>1 DEF Next, ThroughTree, ThroughPointers
      <4>2. CASE UNCHANGED vars
        BY <4>2 DEF vars
      <4>3. QED
        BY <2>1, <4>1, <4>2
    <3>3. \/ Pointers!Direct \/ Pointers!Indirect
          \/ Pointers!DoubleIndirect \/ Pointers!TripleIndirect
          \/ Pointers!ReadPointers
          \/ Pointers!ReadDataBlock \/ (UNCHANGED pointerVars /\ lbn' = lbn)
      BY <3>2 DEF Pointers!Next, Pointers!Returned, Pointers!vars, pointerVars
    <3>4. Pointers!WalkInv'
      BY <3>1, <3>3, BranchInv, ReadPointersInv, ReadDataBlockInv
    <3>5. QED
      BY <2>2, <2>4, <3>4 DEF FileMapInv
  <2>5. QED
    BY <2>2, <2>3, <2>4
<1>3. QED
  BY <1>1, <1>2, PTL DEF Spec

\* A file block below dindlast + sz * sz, where the code can look one up, is found
\* whatever the block size, when its own pointer blocks are there and can be read;
\* nothing is assumed of the rest of the file or of what new memory holds.
THEOREM PointersLeadToBlockHolds == Spec => []PointersLeadToBlock
<1>1. FileMapInv => PointersLeadToBlock
  BY WalkEnds DEF FileMapInv, PointersLeadToBlock
<1>2. QED
  BY <1>1, FileMapInvariant, PTL

\* Unless a read fails or an unwritten extent starts at or before the block, the
\* search of a well-formed extent tree of any depth and shape ends where the tree has
\* the block, and at 0 for a hole.
THEOREM ExtentsLeadToBlockHolds == Spec => []ExtentsLeadToBlock
<1>1. FileMapInv => ExtentsLeadToBlock
  BY DEF FileMapInv, ExtentsLeadToBlock, Tree!SearchInv
<1>2. QED
  BY <1>1, FileMapInvariant, PTL
===============================================================================
