---------------------------- MODULE CryptProofs ----------------------------
(***************************************************************************)
(* Proofs about the cipher library, for every block cipher whose two       *)
(* directions undo each other under a key, blocks of any number of bytes   *)
(* that a byte can count, any messages, and any number of calls and of     *)
(* damaged blocks: RoundTrip, DamageIsLocal and PaddingIsExact. The modes  *)
(* are recursive functions, of which the provers know an equation that the *)
(* function satisfies if any does; that one does is proved first, then     *)
(* what the runs of such an equation hold. From bits over bytes and blocks *)
(* the lemmas lead to what a mode makes of a whole message, and from there *)
(* to the answers of the programs.                                         *)
(***************************************************************************)
EXTENDS Crypt, FiniteSetTheorems, SequenceTheorems, WellFoundedInduction, TLAPS

-----------------------------------------------------------------------------
(* Induction over an interval                                                *)

LEMMA LeastElement ==
  ASSUME NEW S \in SUBSET Nat, S # {}
  PROVE  \E x \in S : \A y \in S : x <= y
<1> DEFINE Less == OpToRel(<, Nat)
<1>1. PICK x \in S : \A y \in S : ~(<<y, x>> \in Less)
  <2>1. IsWellFoundedOn(Less, Nat)
    BY NatLessThanWellFounded DEF OpToRel
  <2> HIDE DEF Less
  <2> QED
    BY <2>1, WFMin
<1>2. \A y \in S : ~(y < x)
  BY <1>1 DEF OpToRel
<1> QED
  BY <1>2

LEMMA IntervalInduction ==
  ASSUME NEW N \in Nat, NEW S, 0 \in S, \A n \in 1 .. N : n - 1 \in S => n \in S
  PROVE  \A n \in 0 .. N : n \in S
<1> SUFFICES ASSUME {n \in 0 .. N : n \notin S} # {} PROVE FALSE
  OBVIOUS
<1>1. PICK x \in {n \in 0 .. N : n \notin S} : \A y \in {n \in 0 .. N : n \notin S} : x <= y
  <2>1. {n \in 0 .. N : n \notin S} \in SUBSET Nat
    OBVIOUS
  <2> QED
    BY <2>1, LeastElement
<1>2. x \in 1 .. N /\ x - 1 \in 0 .. N /\ ~(x <= x - 1)
  BY <1>1
<1>3. x - 1 \in S
  BY <1>1, <1>2
<1> QED
  BY <1>1, <1>2, <1>3

-----------------------------------------------------------------------------
(* Powers of two                                                             *)

Exponents == {0, 1, 2, 3, 4, 5, 6, 7, 8, 9, 10, 11, 12, 13, 14, 15, 16, 17, 18, 19, 20, 21, 22,
              23, 24, 25, 26, 27, 28, 29, 30, 31}

LEMMA PowerValues ==
  /\ TwoTo(0) = 1 /\ TwoTo(1) = 2 /\ TwoTo(2) = 4 /\ TwoTo(3) = 8 /\ TwoTo(4) = 16 /\ TwoTo(5) = 32 /\ TwoTo(6) = 64 /\ TwoTo(7) = 128
  /\ TwoTo(8) = 256 /\ TwoTo(9) = 512 /\ TwoTo(10) = 1024 /\ TwoTo(11) = 2048 /\ TwoTo(12) = 4096 /\ TwoTo(13) = 8192
  /\ TwoTo(14) = 16384 /\ TwoTo(15) = 32768 /\ TwoTo(16) = 65536 /\ TwoTo(17) = 131072 /\ TwoTo(18) = 262144
  /\ TwoTo(19) = 524288 /\ TwoTo(20) = 1048576 /\ TwoTo(21) = 2097152 /\ TwoTo(22) = 4194304 /\ TwoTo(23) = 8388608
  /\ TwoTo(24) = 16777216 /\ TwoTo(25) = 33554432 /\ TwoTo(26) = 67108864 /\ TwoTo(27) = 134217728
  /\ TwoTo(28) = 268435456 /\ TwoTo(29) = 536870912 /\ TwoTo(30) = 1073741824 /\ TwoTo(31) = 2147483648
  BY DEF TwoTo

LEMMA NextPower ==
  ASSUME NEW i \in 0 .. 30
  PROVE  TwoTo(i + 1) = 2 * TwoTo(i)
<1>1. i \in Exponents \ {31}
  BY DEF Exponents
<1> QED
  BY <1>1, PowerValues DEF Exponents

LEMMA PowersArePositive ==
  ASSUME NEW i \in 0 .. 31
  PROVE  TwoTo(i) \in Nat \ {0}
<1>1. i \in Exponents
  BY DEF Exponents
<1> QED
  BY <1>1, PowerValues DEF Exponents

LEMMA PowersGrow ==
  ASSUME NEW i \in 0 .. 31, NEW j \in 0 .. 31, i <= j
  PROVE  TwoTo(i) <= TwoTo(j)
<1>1. i \in Exponents /\ j \in Exponents
  BY DEF Exponents
<1>2. \A k \in Exponents : k <= j => TwoTo(k) <= TwoTo(j)
  BY <1>1, PowerValues DEF Exponents
<1> QED
  BY <1>1, <1>2

LEMMA HalfOfQuotient ==
  ASSUME NEW n \in Nat, NEW i \in 0 .. 30
  PROVE  (n \div TwoTo(i)) \div 2 = n \div TwoTo(i + 1) /\ n \div TwoTo(i) \in Nat
<1>1. \A p \in Nat \ {0} : (n \div p) \div 2 = n \div (2 * p) /\ n \div p \in Nat
  <2> SUFFICES ASSUME NEW p \in Nat \ {0}
               PROVE  (n \div p) \div 2 = n \div (2 * p) /\ n \div p \in Nat
    OBVIOUS
  <2> DEFINE q == n \div p
             h == q \div 2
  <2>1. q \in Nat /\ n = p * q + (n % p) /\ n % p \in 0 .. p - 1
    OBVIOUS
  <2>2. h \in Nat /\ q \in {2 * h, 2 * h + 1}
    BY <2>1
  <2>3. n >= (2 * p) * h /\ n < (2 * p) * (h + 1)
    <3>1. CASE q = 2 * h
      <4>1. p * q = (2 * p) * h
        BY <2>2, <3>1
      <4>2. (2 * p) * (h + 1) = (2 * p) * h + 2 * p
        BY <2>2
      <4> HIDE DEF q, h
      <4> QED
        BY <2>1, <2>2, <4>1, <4>2
    <3>2. CASE q = 2 * h + 1
      <4>1. p * q = (2 * p) * h + p
        BY <2>2, <3>2
      <4>2. (2 * p) * (h + 1) = (2 * p) * h + 2 * p
        BY <2>2
      <4> HIDE DEF q, h
      <4> QED
        BY <2>1, <2>2, <4>1, <4>2
    <3> HIDE DEF q, h
    <3> QED
      BY <2>2, <3>1, <3>2
  <2>4. n \div (2 * p) = h
    <3> HIDE DEF h, q
    <3> QED
      BY <2>2, <2>3
  <2> QED
    BY <2>1, <2>4
<1>2. TwoTo(i + 1) = 2 * TwoTo(i) /\ TwoTo(i) \in Nat \ {0}
  BY NextPower, PowersArePositive
<1> QED
  BY <1>1, <1>2

-----------------------------------------------------------------------------
(* Recursive functions on an interval: step k makes F[v][k] of v. A run of    *)
(* steps stays in S.                                                         *)

Steps(N, start, F, g) == [k \in 0 .. N |-> IF k = 0 THEN start ELSE F[g[k - 1]][k]]

Stays(N, S, F) == \A v \in S : \A k \in 1 .. N : F[v][k] \in S

IsRun(N, S, start, F, g) ==
  /\ g = [k \in 0 .. N |-> g[k]]
  /\ g[0] = start
  /\ \A k \in 1 .. N : g[k] = F[g[k - 1]][k]
  /\ \A k \in 0 .. N : g[k] \in S

LEMMA StepsExist ==
  ASSUME NEW N \in Nat, NEW start, NEW F
  PROVE  \E g : g = Steps(N, start, F, g)
<1> DEFINE S == {n \in Nat : \E g : g = Steps(n, start, F, g)}
<1>1. 0 \in S
  <2> DEFINE h == [k \in 0 .. 0 |-> start]
  <2>1. h = Steps(0, start, F, h)
    BY DEF Steps
  <2> QED
    BY <2>1
<1>2. \A n \in 1 .. N : n - 1 \in S => n \in S
  <2> SUFFICES ASSUME NEW n \in 1 .. N, n - 1 \in S PROVE n \in S
    OBVIOUS
  <2>1. PICK g : g = Steps(n - 1, start, F, g)
    OBVIOUS
  <2> DEFINE h == [k \in 0 .. n |-> IF k < n THEN g[k] ELSE F[g[n - 1]][n]]
  <2>2. \A k \in 0 .. n : h[k] = IF k = 0 THEN start ELSE F[h[k - 1]][k]
    <3> SUFFICES ASSUME NEW k \in 0 .. n
                 PROVE  h[k] = IF k = 0 THEN start ELSE F[h[k - 1]][k]
      OBVIOUS
    <3>1. CASE k = n
      BY <3>1
    <3>2. CASE k < n
      <4>1. g[k] = IF k = 0 THEN start ELSE F[g[k - 1]][k]
        BY <2>1, <3>2 DEF Steps
      <4>2. h[k] = g[k] /\ (k # 0 => h[k - 1] = g[k - 1])
        BY <3>2
      <4> HIDE DEF h
      <4> QED
        BY <4>1, <4>2
    <3> QED
      BY <3>1, <3>2
  <2>3. h = Steps(n, start, F, h)
    <3>1. h = [k \in 0 .. n |-> h[k]]
      OBVIOUS
    <3> HIDE DEF h
    <3> QED
      BY <2>2, <3>1 DEF Steps
  <2>4. \E f : f = Steps(n, start, F, f)
    <3> HIDE DEF h
    <3> QED
      BY <2>3
  <2> QED
    BY <2>4
<1> HIDE DEF S
<1>3. N \in S
  BY <1>1, <1>2, IntervalInduction
<1> QED
  BY <1>3 DEF S

LEMMA StepsStay ==
  ASSUME NEW N \in Nat, NEW S, NEW g, g[0] \in S,
         \A k \in 1 .. N : g[k - 1] \in S => g[k] \in S
  PROVE  \A k \in 0 .. N : g[k] \in S
<1> DEFINE T == {k \in 0 .. N : g[k] \in S}
<1>1. 0 \in T
  OBVIOUS
<1>2. \A n \in 1 .. N : n - 1 \in T => n \in T
  OBVIOUS
<1> HIDE DEF T
<1>3. \A n \in 0 .. N : n \in T
  BY <1>1, <1>2, IntervalInduction
<1> QED
  BY <1>3 DEF T

LEMMA RunExists ==
  ASSUME NEW N \in Nat, NEW S, NEW start \in S, NEW F, Stays(N, S, F)
  PROVE  \E g : IsRun(N, S, start, F, g)
<1>1. PICK g : g = Steps(N, start, F, g)
  BY StepsExist
<1>2. g[0] = start /\ \A k \in 1 .. N : g[k] = F[g[k - 1]][k]
  BY <1>1 DEF Steps
<1>3. \A k \in 1 .. N : g[k - 1] \in S => g[k] \in S
  BY <1>2 DEF Stays
<1>4. \A k \in 0 .. N : g[k] \in S
  BY <1>2, <1>3, StepsStay
<1>5. g = [k \in 0 .. N |-> g[k]]
  BY <1>1 DEF Steps
<1>6. IsRun(N, S, start, F, g)
  BY <1>2, <1>4, <1>5 DEF IsRun
<1> QED
  BY <1>6

-----------------------------------------------------------------------------
(* Numbers and their bits                                                    *)

\* The bit i of x, as a number.
Bit(x, i) == IF i \in x THEN 1 ELSE 0

Tops(width, x, g) == [k \in 0 .. width |-> IF k = 0 THEN 0 ELSE 2 * g[k - 1] + Bit(x, width - k)]

\* g are the numbers of the highest bits of x.
AreTops(width, x, g) ==
  /\ g[0] = 0
  /\ \A k \in 1 .. width : g[k] = 2 * g[k - 1] + Bit(x, width - k)
  /\ \A k \in 0 .. width : g[k] \in Nat

LEMMA NumberBySteps ==
  ASSUME NEW width \in Nat, NEW x
  PROVE  \E g : AreTops(width, x, g) /\ NumberOf(width, x) = g[width]
<1> DEFINE F == [v \in Nat |-> [k \in 1 .. width |-> 2 * v + Bit(x, width - k)]]
           chosen == CHOOSE g : g = Tops(width, x, g)
<1>1. \A i : Bit(x, i) \in Nat
  BY DEF Bit
<1>2. Stays(width, Nat, F)
  BY <1>1 DEF Stays
<1>3. \E g : IsRun(width, Nat, 0, F, g)
  <2> HIDE DEF F
  <2>1. 0 \in Nat
    OBVIOUS
  <2> QED
    BY <1>2, <2>1, RunExists
<1>4. PICK g : IsRun(width, Nat, 0, F, g)
  BY <1>3
<1>5. \A k \in 1 .. width : g[k] = 2 * g[k - 1] + Bit(x, width - k)
  <2> SUFFICES ASSUME NEW k \in 1 .. width PROVE g[k] = 2 * g[k - 1] + Bit(x, width - k)
    OBVIOUS
  <2>1. g[k] = F[g[k - 1]][k] /\ g[k - 1] \in Nat
    <3>1. k - 1 \in 0 .. width
      OBVIOUS
    <3> HIDE DEF F
    <3> QED
      BY <1>4, <3>1 DEF IsRun
  <2> QED
    BY <2>1
<1>6. g = Tops(width, x, g)
  <2>1. g = [k \in 0 .. width |-> g[k]] /\ g[0] = 0
    BY <1>4 DEF IsRun
  <2>2. ASSUME NEW k \in 0 .. width
        PROVE  g[k] = IF k = 0 THEN 0 ELSE 2 * g[k - 1] + Bit(x, width - k)
    <3>1. g[0] = 0
      BY <2>1
    <3>2. k = 0 \/ k \in 1 .. width
      OBVIOUS
    <3> QED
      BY <1>5, <3>1, <3>2
  <2> QED
    BY <2>1, <2>2 DEF Tops
<1>7. chosen = Tops(width, x, chosen)
  BY <1>6
<1>8. NumberOf(width, x) = chosen[width]
  BY DEF NumberOf, Tops, Bit
<1> HIDE DEF chosen
<1>9. chosen[0] = 0 /\ \A k \in 1 .. width : chosen[k] = 2 * chosen[k - 1] + Bit(x, width - k)
  BY <1>7 DEF Tops
<1>10. \A k \in 0 .. width : chosen[k] \in Nat
  <2> DEFINE T == Nat
  <2>1. chosen[0] \in T /\ \A k \in 1 .. width : chosen[k - 1] \in T => chosen[k] \in T
    BY <1>1, <1>9
  <2> HIDE DEF T
  <2>2. \A k \in 0 .. width : chosen[k] \in T
    BY <2>1, StepsStay
  <2> QED
    BY <2>2 DEF T
<1>11. AreTops(width, x, chosen)
  BY <1>9, <1>10 DEF AreTops
<1> QED
  BY <1>8, <1>11

LEMMA HalfAndBit ==
  ASSUME NEW a, NEW b \in Nat, NEW c \in {0, 1}, a = 2 * b + c
  PROVE  a \div 2 = b /\ a % 2 = c
  OBVIOUS

LEMMA BitsOfNumber ==
  ASSUME NEW width \in 1 .. 30, NEW x \in SUBSET (0 .. width - 1)
  PROVE  /\ NumberOf(width, x) \in 0 .. TwoTo(width) - 1
         /\ Bits(NumberOf(width, x)) = x
<1>0. PICK g : AreTops(width, x, g) /\ NumberOf(width, x) = g[width]
  BY NumberBySteps
<1>1. /\ g[0] = 0
      /\ \A k \in 1 .. width : g[k] = 2 * g[k - 1] + Bit(x, width - k)
      /\ \A k \in 0 .. width : g[k] \in Nat
  BY <1>0 DEF AreTops
<1> DEFINE n == g[width]
           S == {k \in 0 .. width : n \div TwoTo(k) = g[width - k]}
<1>2. n \in Nat
  BY <1>1
<1>3. 0 \in S
  <2>1. TwoTo(0) = 1
    BY PowerValues
  <2> QED
    BY <1>2, <2>1
<1>4. \A k \in 1 .. width : k - 1 \in S => k \in S
  <2> SUFFICES ASSUME NEW k \in 1 .. width, k - 1 \in S PROVE n \div TwoTo(k) = g[width - k]
    OBVIOUS
  <2> DEFINE j == width - k + 1
  <2>1. j \in 1 .. width /\ j = width - (k - 1) /\ j - 1 = width - k
    OBVIOUS
  <2>2. n \div TwoTo(k) = (n \div TwoTo(k - 1)) \div 2
    <3>1. k - 1 \in 0 .. 30 /\ (k - 1) + 1 = k
      OBVIOUS
    <3> HIDE DEF n
    <3> QED
      BY <1>2, <3>1, HalfOfQuotient
  <2>3. n \div TwoTo(k - 1) = g[j]
    BY <2>1
  <2>4. g[j] = 2 * g[j - 1] + Bit(x, width - j)
    BY <1>1, <2>1
  <2>5. g[j - 1] \in Nat /\ Bit(x, width - j) \in {0, 1}
    BY <1>1, <2>1 DEF Bit
  <2>6. g[j] \div 2 = g[j - 1]
    BY <2>4, <2>5, HalfAndBit
  <2> HIDE DEF n, j
  <2> QED
    BY <2>1, <2>2, <2>3, <2>6
<1>5. \A k \in 0 .. width : n \div TwoTo(k) = g[width - k]
  <2> HIDE DEF S
  <2>1. \A k \in 0 .. width : k \in S
    BY <1>3, <1>4, IntervalInduction
  <2> QED
    BY <2>1 DEF S
<1>6. n < TwoTo(width)
  <2>1. n \div TwoTo(width) = 0
    BY <1>1, <1>5
  <2>2. TwoTo(width) \in Nat \ {0}
    BY PowersArePositive
  <2> HIDE DEF n
  <2> QED
    BY <1>2, <2>1, <2>2
<1>7. \A i \in 0 .. 30 : ((n \div TwoTo(i)) % 2 = 1) <=> i \in x
  <2> SUFFICES ASSUME NEW i \in 0 .. 30
               PROVE  ((n \div TwoTo(i)) % 2 = 1) <=> i \in x
    OBVIOUS
  <2>1. CASE i < width
    <3> DEFINE j == width - i
    <3>1. j \in 1 .. width /\ width - j = i
      BY <2>1
    <3>2. g[j] = 2 * g[j - 1] + Bit(x, i) /\ g[j - 1] \in Nat
      BY <1>1, <3>1
    <3>3. n \div TwoTo(i) = g[j]
      BY <1>5, <2>1
    <3>4. g[j] % 2 = Bit(x, i)
      <4>1. Bit(x, i) \in {0, 1}
        BY DEF Bit
      <4> QED
        BY <3>2, <4>1, HalfAndBit
    <3> HIDE DEF n, j
    <3> QED
      BY <3>3, <3>4 DEF Bit
  <2>2. CASE i >= width
    <3>1. TwoTo(i) \in Nat \ {0} /\ n < TwoTo(i)
      <4> HIDE DEF n
      <4>1. TwoTo(width) <= TwoTo(i) /\ TwoTo(width) \in Nat /\ TwoTo(i) \in Nat \ {0}
        BY <2>2, PowersGrow, PowersArePositive
      <4> QED
        BY <1>2, <1>6, <4>1
    <3>2. n \div TwoTo(i) = 0
      <4> HIDE DEF n
      <4> QED
        BY <1>2, <3>1
    <3>3. i \notin x
      BY <2>2
    <3> HIDE DEF n
    <3> QED
      BY <3>2, <3>3
  <2> QED
    BY <2>1, <2>2
<1>8. Bits(n) = x
  <2> HIDE DEF n
  <2>1. x \subseteq 0 .. 30
    OBVIOUS
  <2> QED
    BY <1>7, <2>1 DEF Bits
<1>9. n \in 0 .. TwoTo(width) - 1
  <2>1. TwoTo(width) \in Nat
    BY PowersArePositive
  <2> HIDE DEF n
  <2> QED
    BY <1>2, <1>6, <2>1
<1> QED
  BY <1>0, <1>8, <1>9

LEMMA NumberOfBits ==
  ASSUME NEW width \in 1 .. 30, NEW n \in 0 .. TwoTo(width) - 1
  PROVE  Bits(n) \subseteq 0 .. width - 1 /\ NumberOf(width, Bits(n)) = n
<1>1. TwoTo(width) \in Nat \ {0} /\ n \in Nat /\ n < TwoTo(width)
  BY PowersArePositive
<1>2. \A i \in 0 .. 30 : i >= width => n \div TwoTo(i) = 0
  <2> SUFFICES ASSUME NEW i \in 0 .. 30, i >= width PROVE n \div TwoTo(i) = 0
    OBVIOUS
  <2>1. TwoTo(width) <= TwoTo(i) /\ TwoTo(i) \in Nat \ {0}
    BY PowersGrow, PowersArePositive
  <2> QED
    BY <1>1, <2>1
<1>3. Bits(n) \subseteq 0 .. width - 1
  BY <1>2 DEF Bits
<1>10. PICK g : AreTops(width, Bits(n), g) /\ NumberOf(width, Bits(n)) = g[width]
  BY NumberBySteps
<1>4. /\ g[0] = 0
      /\ \A k \in 1 .. width : g[k] = 2 * g[k - 1] + Bit(Bits(n), width - k)
      /\ \A k \in 0 .. width : g[k] \in Nat
  BY <1>10 DEF AreTops
<1> DEFINE S == {k \in 0 .. width : g[k] = n \div TwoTo(width - k)}
<1>5. 0 \in S
  BY <1>2, <1>4
<1>6. \A k \in 1 .. width : k - 1 \in S => k \in S
  <2> SUFFICES ASSUME NEW k \in 1 .. width, k - 1 \in S PROVE g[k] = n \div TwoTo(width - k)
    OBVIOUS
  <2> DEFINE i == width - k
             m == n \div TwoTo(i)
  <2>1. i \in 0 .. 29 /\ width - (k - 1) = i + 1
    OBVIOUS
  <2>2. m \div 2 = n \div TwoTo(i + 1) /\ m \in Nat
    <3>1. n \in Nat /\ i \in 0 .. 30
      BY <1>1, <2>1
    <3> HIDE DEF i
    <3> QED
      BY <3>1, HalfOfQuotient
  <2>3. g[k - 1] = m \div 2
    BY <2>1, <2>2
  <2>4. Bit(Bits(n), i) = m % 2
    <3>1. m % 2 \in {0, 1}
      <4> HIDE DEF m
      <4> QED
        BY <2>2
    <3>2. i \in Bits(n) <=> m % 2 = 1
      BY <2>1 DEF Bits
    <3> HIDE DEF m, i
    <3> QED
      BY <3>1, <3>2 DEF Bit
  <2>5. m = 2 * (m \div 2) + (m % 2)
    <3> HIDE DEF m
    <3> QED
      BY <2>2
  <2>6. g[k] = 2 * g[k - 1] + Bit(Bits(n), i)
    BY <1>4
  <2> HIDE DEF m
  <2> QED
    BY <2>3, <2>4, <2>5, <2>6 DEF m
<1>7. width \in S
  <2> HIDE DEF S
  <2> QED
    BY <1>5, <1>6, IntervalInduction
<1>8. g[width] = n \div TwoTo(0)
  BY <1>7
<1>9. g[width] = n
  BY <1>1, <1>8, PowerValues
<1> QED
  BY <1>3, <1>9, <1>10

-----------------------------------------------------------------------------
(* Places: the x-th of things that lie w to a row.                           *)

LEMMA Places ==
  ASSUME NEW w \in Nat \ {0}
  PROVE  /\ \A a \in Nat : \A i \in 0 .. w - 1 :
              w * a + i \in Nat /\ (w * a + i) \div w = a /\ (w * a + i) % w = i
         /\ \A x \in Nat : /\ x \div w \in Nat /\ x % w \in 0 .. w - 1
                           /\ x = w * (x \div w) + (x % w)
<1>1. ASSUME NEW a \in Nat, NEW i \in 0 .. w - 1
      PROVE  w * a + i \in Nat /\ (w * a + i) \div w = a /\ (w * a + i) % w = i
  <2> DEFINE p == w * a
  <2>1. p \in Nat
    OBVIOUS
  <2>2. w * (a + 1) = p + w
    OBVIOUS
  <2>3. w * a + i \in Nat
    <3> HIDE DEF p
    <3> QED
      BY <2>1 DEF p
  <2>4. (w * a + i) \div w = a
    BY <2>1, <2>2, <2>3
  <2>5. w * a + i = w * ((w * a + i) \div w) + ((w * a + i) % w)
    BY <2>3
  <2> QED
    BY <2>3, <2>4, <2>5
<1>2. ASSUME NEW x \in Nat
      PROVE  x \div w \in Nat /\ x % w \in 0 .. w - 1 /\ x = w * (x \div w) + (x % w)
  OBVIOUS
<1> QED
  BY <1>1, <1>2

LEMMA RowsBelow ==
  ASSUME NEW w \in Nat \ {0}, NEW n \in Nat, NEW a \in Nat, NEW i \in 0 .. w - 1
  PROVE  w * a + i < w * n <=> a < n
<1>1. w * n = w * a + w * (n - a) /\ w * a \in Nat
  OBVIOUS
<1>2. CASE a < n
  <2>1. w * (n - a) >= w
    BY <1>2
  <2> QED
    BY <1>1, <1>2, <2>1
<1>3. CASE ~ (a < n)
  <2>1. w * (n - a) <= 0
    BY <1>3
  <2> QED
    BY <1>1, <1>3, <2>1
<1> QED
  BY <1>2, <1>3

LEMMA RowOfPlace ==
  ASSUME NEW w \in Nat \ {0}, NEW n \in Nat, NEW x \in 0 .. w * n - 1
  PROVE  x \div w \in 0 .. n - 1 /\ x % w \in 0 .. w - 1 /\ x = w * (x \div w) + (x % w)
<1>1. w * n \in Nat
  OBVIOUS
<1>2. x \in Nat /\ x < w * n
  BY <1>1
<1>3. x \div w \in Nat /\ x % w \in 0 .. w - 1 /\ x = w * (x \div w) + (x % w)
  BY <1>2, Places
<1>4. w * (x \div w) + (x % w) < w * n
  BY <1>2, <1>3
<1>5. x \div w < n
  <2> DEFINE a == x \div w
             i == x % w
  <2>1. a \in Nat /\ i \in 0 .. w - 1 /\ w * a + i < w * n
    BY <1>3, <1>4
  <2> HIDE DEF a, i
  <2>2. a < n
    BY <2>1, RowsBelow
  <2> QED
    BY <2>2 DEF a
<1> QED
  BY <1>3, <1>5

-----------------------------------------------------------------------------
(* Digits and the word they are joined to                                    *)

LEMMA JoinedBit ==
  ASSUME NEW w \in 1 .. 30, NEW n \in Nat, NEW d \in [1 .. n -> 0 .. TwoTo(w) - 1], Len(d) = n,
         NEW k \in 1 .. n, NEW i \in 0 .. w - 1
  PROVE  w * (n - k) + i \in Join(w, d) <=> i \in Bits(d[k])
<1>1. \A j \in 1 .. n : Bits(d[j]) \subseteq 0 .. w - 1
  BY NumberOfBits
<1>2. w * (n - k) + i \in Join(w, d) <=> \E j \in 1 .. n : \E e \in Bits(d[j]) :
        w * (n - k) + i = w * (n - j) + e
  BY DEF Join
<1>3. ASSUME NEW j \in 1 .. n, NEW e \in Bits(d[j]), w * (n - k) + i = w * (n - j) + e
      PROVE  j = k /\ e = i
  <2> DEFINE a == n - k
             b == n - j
  <2>1. a \in Nat /\ b \in Nat /\ e \in 0 .. w - 1 /\ w \in Nat \ {0}
    BY <1>1, <1>3
  <2>2. w * a + i = w * b + e
    BY <1>3
  <2>3. a = b /\ i = e
    <3> HIDE DEF a, b
    <3>1. (w * a + i) \div w = a /\ (w * b + e) \div w = b
      BY <2>1, Places
    <3>2. (w * a + i) % w = i /\ (w * b + e) % w = e
      BY <2>1, Places
    <3> QED
      BY <2>2, <3>1, <3>2
  <2> QED
    BY <2>3
<1> QED
  BY <1>2, <1>3

LEMMA JoinIsWord ==
  ASSUME NEW w \in 1 .. 30, NEW n \in Nat, NEW d \in [1 .. n -> 0 .. TwoTo(w) - 1], Len(d) = n
  PROVE  Join(w, d) \subseteq 0 .. w * n - 1
<1> SUFFICES ASSUME NEW k \in 1 .. n, NEW i \in Bits(d[k])
             PROVE  w * (n - k) + i \in 0 .. w * n - 1
  BY DEF Join
<1>1. i \in 0 .. w - 1
  BY NumberOfBits
<1>2. w \in Nat \ {0} /\ n - k \in Nat /\ n - k < n
  OBVIOUS
<1>3. w * (n - k) + i \in Nat /\ w * n \in Nat
  <2>1. w * (n - k) + i \in Nat
    BY <1>1, <1>2, Places
  <2>2. w * n \in Nat
    BY <1>2
  <2> QED
    BY <2>1, <2>2
<1>4. w * (n - k) + i < w * n
  <2> DEFINE a == n - k
  <2>1. a \in Nat /\ a < n
    BY <1>2
  <2> HIDE DEF a
  <2>2. w * a + i < w * n
    BY <1>1, <1>2, <2>1, RowsBelow
  <2> QED
    BY <2>2 DEF a
<1> QED
  BY <1>3, <1>4

\* The bits of digit k of x.
Digits(w, n, x, k) == {i \in 0 .. w - 1 : w * (n - k) + i \in x}

LEMMA CutDigits ==
  ASSUME NEW w \in 1 .. 30, NEW n \in Nat, NEW x
  PROVE  /\ Cut(w, n, x) \in [1 .. n -> 0 .. TwoTo(w) - 1]
         /\ Len(Cut(w, n, x)) = n
         /\ \A k \in 1 .. n : Bits(Cut(w, n, x)[k]) = Digits(w, n, x, k)
<1>1. \A k \in 1 .. n : Digits(w, n, x, k) \in SUBSET (0 .. w - 1)
  BY DEF Digits
<1>2. Cut(w, n, x) = [k \in 1 .. n |-> NumberOf(w, Digits(w, n, x, k))]
  BY DEF Cut, Digits
<1>3. \A k \in 1 .. n : /\ NumberOf(w, Digits(w, n, x, k)) \in 0 .. TwoTo(w) - 1
                        /\ Bits(NumberOf(w, Digits(w, n, x, k))) = Digits(w, n, x, k)
  BY <1>1, BitsOfNumber
<1> QED
  BY <1>2, <1>3

LEMMA CutOfJoined ==
  ASSUME NEW w \in 1 .. 30, NEW n \in Nat, NEW d \in [1 .. n -> 0 .. TwoTo(w) - 1], Len(d) = n
  PROVE  Cut(w, n, Join(w, d)) = d
<1> SUFFICES ASSUME NEW k \in 1 .. n
             PROVE  NumberOf(w, Digits(w, n, Join(w, d), k)) = d[k]
  BY DEF Cut, Digits
<1>1. d[k] \in 0 .. TwoTo(w) - 1
  OBVIOUS
<1>2. Bits(d[k]) \subseteq 0 .. w - 1 /\ NumberOf(w, Bits(d[k])) = d[k]
  BY <1>1, NumberOfBits
<1>3. \A i \in 0 .. w - 1 : w * (n - k) + i \in Join(w, d) <=> i \in Bits(d[k])
  BY JoinedBit
<1>4. Digits(w, n, Join(w, d), k) = Bits(d[k])
  BY <1>2, <1>3 DEF Digits
<1> QED
  BY <1>2, <1>4

LEMMA JoinOfCut ==
  ASSUME NEW w \in 1 .. 30, NEW n \in Nat, NEW x \in SUBSET (0 .. w * n - 1)
  PROVE  Join(w, Cut(w, n, x)) = x
<1> DEFINE d == Cut(w, n, x)
<1>1. /\ d \in [1 .. n -> 0 .. TwoTo(w) - 1] /\ Len(d) = n
      /\ \A k \in 1 .. n : Bits(d[k]) = Digits(w, n, x, k)
  BY CutDigits
<1> HIDE DEF d
<1>2. Join(w, d) \subseteq 0 .. w * n - 1
  BY <1>1, JoinIsWord
<1>3. ASSUME NEW y \in 0 .. w * n - 1
      PROVE  y \in Join(w, d) <=> y \in x
  <2> DEFINE k == n - (y \div w)
             i == y % w
  <2>1. w \in Nat \ {0}
    OBVIOUS
  <2>2. y \div w \in 0 .. n - 1 /\ i \in 0 .. w - 1 /\ y = w * (y \div w) + i
    BY <2>1, RowOfPlace
  <2>3. k \in 1 .. n /\ n - k = y \div w
    BY <2>2
  <2>4. y = w * (n - k) + i
    BY <2>2, <2>3
  <2> HIDE DEF k, i
  <2>5. y \in Join(w, d) <=> i \in Bits(d[k])
    BY <1>1, <2>2, <2>3, <2>4, JoinedBit
  <2> QED
    BY <1>1, <2>2, <2>3, <2>4, <2>5 DEF Digits
<1>4. Join(w, d) = x
  BY <1>2, <1>3
<1> QED
  BY <1>4 DEF d

-----------------------------------------------------------------------------
(* Bytes and blocks                                                          *)

Word == SUBSET (0 .. BlockBits - 1)

ByteBlock == {b \in Seq(Byte) : Len(b) = Size}

LEMMA Sizes ==
  /\ Size \in Nat \ {0} /\ Width \in 1 .. 30 /\ Size \in Byte
  /\ BlockBits \in Nat \ {0} /\ BlockBits = Width * Size
  /\ Byte = 0 .. TwoTo(Width) - 1 /\ Byte \subseteq Nat
  /\ {} \in Word
<1>1. Size \in Nat \ {0} /\ Width \in 1 .. 30 /\ Size \in Byte
  BY CryptConstants
<1>2. BlockBits \in Nat \ {0} /\ BlockBits = Width * Size
  BY <1>1 DEF BlockBits
<1> QED
  BY <1>1, <1>2 DEF Byte, Word

LEMMA RowIsSeq ==
  ASSUME NEW S, NEW n \in Nat, NEW f \in [1 .. n -> S]
  PROVE  f \in Seq(S) /\ Len(f) = n
  OBVIOUS

LEMMA BlockIsWord ==
  ASSUME NEW b \in ByteBlock
  PROVE  Block(b) \in Word /\ Cut(Width, Size, Block(b)) = b
<1>1. b \in [1 .. Size -> 0 .. TwoTo(Width) - 1] /\ Len(b) = Size
  <2>1. b \in Seq(Byte) /\ Len(b) = Size
    BY DEF ByteBlock
  <2>2. b \in [1 .. Size -> Byte]
    BY <2>1, LenProperties
  <2> QED
    BY <2>1, <2>2, Sizes
<1>2. Join(Width, b) \subseteq 0 .. Width * Size - 1
  BY <1>1, Sizes, JoinIsWord
<1>3. Cut(Width, Size, Join(Width, b)) = b
  BY <1>1, Sizes, CutOfJoined
<1> QED
  BY <1>2, <1>3, Sizes DEF Block, Word

LEMMA WordIsBlock ==
  ASSUME NEW x \in Word
  PROVE  Cut(Width, Size, x) \in ByteBlock /\ Block(Cut(Width, Size, x)) = x
<1>1. x \in SUBSET (0 .. Width * Size - 1)
  BY Sizes DEF Word
<1>2. Cut(Width, Size, x) \in [1 .. Size -> Byte] /\ Len(Cut(Width, Size, x)) = Size
  BY Sizes, CutDigits
<1>3. Cut(Width, Size, x) \in Seq(Byte)
  BY <1>2, Sizes, RowIsSeq
<1>4. Join(Width, Cut(Width, Size, x)) = x
  BY <1>1, Sizes, JoinOfCut
<1> QED
  BY <1>2, <1>3, <1>4 DEF ByteBlock, Block

LEMMA ProductIsNat ==
  ASSUME NEW a \in Nat, NEW b \in Nat
  PROVE  a * b \in Nat
  OBVIOUS

\* Piece k of s.
LEMMA PieceOf ==
  ASSUME NEW S, NEW s \in Seq(S), NEW n \in Nat \ {0}, NEW k \in 1 .. Len(s) \div n
  PROVE  LET piece == SubSeq(s, n * (k - 1) + 1, n * k)
         IN /\ piece \in Seq(S) /\ Len(piece) = n
            /\ \A i \in 1 .. n : n * (k - 1) + i \in 1 .. Len(s) /\ piece[i] = s[n * (k - 1) + i]
<1> DEFINE m == n * (k - 1)
           piece == SubSeq(s, m + 1, n * k)
           len == Len(s)
<1>1. len \in Nat /\ len \div n \in Nat /\ n * (len \div n) <= len
  <2>1. len \in Nat
    OBVIOUS
  <2> HIDE DEF len
  <2>2. len \div n \in Nat /\ len % n \in 0 .. n - 1 /\ len = n * (len \div n) + (len % n)
    BY <2>1, Places
  <2>3. n * (len \div n) \in Nat
    BY <2>2, ProductIsNat
  <2> QED
    BY <2>1, <2>2, <2>3
<1>2. m \in Nat /\ n * k = m + n
  <2>1. k \in Nat \ {0}
    BY <1>1
  <2> QED
    BY <2>1
<1>3. n * k <= n * (len \div n)
  <2> DEFINE q == len \div n
  <2>1. k <= q /\ q \in Nat /\ k \in Nat
    BY <1>1
  <2> HIDE DEF q
  <2>2. n * q = n * k + n * (q - k) /\ n * (q - k) >= 0
    BY <2>1
  <2>3. n * k <= n * q
    BY <2>1, <2>2
  <2> QED
    BY <2>3 DEF q
<1>4. m + n <= len
  <2>1. n * (len \div n) \in Nat
    BY <1>1
  <2> HIDE DEF m, len
  <2> QED
    BY <1>1, <1>2, <1>3, <2>1
<1>5. \A i \in 1 .. n : m + i \in 1 .. len
  <2> HIDE DEF m, len
  <2> QED
    BY <1>1, <1>2, <1>4
<1>6. \A i \in m + 1 .. m + n : s[i] \in S
  <2> SUFFICES ASSUME NEW i \in m + 1 .. m + n PROVE s[i] \in S
    OBVIOUS
  <2>1. i \in 1 .. Len(s)
    <3> HIDE DEF m
    <3> QED
      BY <1>1, <1>2, <1>4
  <2> QED
    BY <2>1
<1>7. /\ SubSeq(s, m + 1, m + n) \in Seq(S)
      /\ Len(SubSeq(s, m + 1, m + n)) = n
      /\ \A i \in 1 .. n : SubSeq(s, m + 1, m + n)[i] = s[m + i]
  <2> HIDE DEF m
  <2>1. m + 1 \in Int /\ m + n \in Int /\ m + 1 <= m + n /\ (m + n) - (m + 1) + 1 = n
    BY <1>2
  <2>2. /\ SubSeq(s, m + 1, m + n) \in Seq(S)
        /\ Len(SubSeq(s, m + 1, m + n)) = n
        /\ \A i \in 1 .. (m + n) - (m + 1) + 1 : SubSeq(s, m + 1, m + n)[i] = s[(m + 1) + i - 1]
    BY <1>6, <2>1, SubSeqProperties
  <2>3. \A i \in 1 .. n : (m + 1) + i - 1 = m + i
    BY <1>2
  <2> QED
    BY <2>1, <2>2, <2>3
<1> QED
  BY <1>2, <1>5, <1>7

LEMMA BlocksOf ==
  ASSUME NEW input \in Seq(Byte)
  PROVE  /\ Blocks(input) \in Seq(Word)
         /\ Len(Blocks(input)) = Len(input) \div Size
         /\ Len(input) \div Size \in Nat
         /\ \A k \in 1 .. Len(input) \div Size :
              LET piece == SubSeq(input, Size * (k - 1) + 1, Size * k)
              IN /\ piece \in ByteBlock
                 /\ Blocks(input)[k] = Block(piece)
<1> DEFINE n == Len(input) \div Size
           piece(k) == SubSeq(input, Size * (k - 1) + 1, Size * k)
<1>1. n \in Nat
  BY Sizes
<1>2. \A k \in 1 .. n : piece(k) \in ByteBlock
  <2> SUFFICES ASSUME NEW k \in 1 .. n PROVE piece(k) \in ByteBlock
    OBVIOUS
  <2>1. SubSeq(input, Size * (k - 1) + 1, Size * k) \in Seq(Byte)
    BY Sizes, PieceOf
  <2>2. Len(SubSeq(input, Size * (k - 1) + 1, Size * k)) = Size
    BY Sizes, PieceOf
  <2> QED
    BY <2>1, <2>2 DEF ByteBlock
<1>3. Pieces(input, Size) = [k \in 1 .. n |-> piece(k)]
  BY DEF Pieces
<1>4. Len(Pieces(input, Size)) = n
  BY <1>1, <1>3
<1>5. Blocks(input) = [k \in 1 .. n |-> Block(piece(k))]
  BY <1>3, <1>4 DEF Blocks
<1>6. \A k \in 1 .. n : Block(piece(k)) \in Word
  BY <1>2, BlockIsWord
<1> HIDE DEF n, piece
<1>7. Blocks(input) \in Seq(Word) /\ Len(Blocks(input)) = n
  BY <1>1, <1>5, <1>6
<1> QED
  BY <1>1, <1>2, <1>5, <1>7 DEF n, piece

\* Byte i of block k.
LEMMA BytesOf ==
  ASSUME NEW blocks \in Seq(Word)
  PROVE  /\ Bytes(blocks) \in Seq(Byte)
         /\ Len(Bytes(blocks)) = Size * Len(blocks)
         /\ \A k \in 1 .. Len(blocks) : \A i \in 1 .. Size :
              Bytes(blocks)[Size * (k - 1) + i] = Cut(Width, Size, blocks[k])[i]
<1> DEFINE n == Len(blocks)
           cut == [j \in 1 .. n |-> Cut(Width, Size, blocks[j])]
<1>1. n \in Nat /\ Size * n \in Nat
  BY Sizes
<1>2. \A j \in 1 .. n : blocks[j] \in Word
  OBVIOUS
<1>3. \A j \in 1 .. n : cut[j] \in ByteBlock
  BY <1>2, WordIsBlock
<1>4. Bytes(blocks) = [x \in 1 .. Size * n |-> cut[((x - 1) \div Size) + 1][((x - 1) % Size) + 1]]
  BY DEF Bytes
<1> HIDE DEF cut
<1>5. \A j \in 1 .. n : \A i \in 1 .. Size : cut[j][i] \in Byte
  BY <1>3 DEF ByteBlock
<1>6. ASSUME NEW x \in 1 .. Size * n
      PROVE  ((x - 1) \div Size) + 1 \in 1 .. n /\ ((x - 1) % Size) + 1 \in 1 .. Size
  <2> DEFINE y == x - 1
  <2>1. y \in 0 .. Size * n - 1
    BY <1>1
  <2> HIDE DEF y, n
  <2>2. y \div Size \in 0 .. n - 1 /\ y % Size \in 0 .. Size - 1
    BY <1>1, <2>1, Sizes, RowOfPlace
  <2>3. (y \div Size) + 1 \in 1 .. n /\ (y % Size) + 1 \in 1 .. Size
    BY <1>1, <2>2, Sizes
  <2> QED
    BY <2>3 DEF y
<1>7. \A x \in 1 .. Size * n : cut[((x - 1) \div Size) + 1][((x - 1) % Size) + 1] \in Byte
  BY <1>5, <1>6
<1>8. Bytes(blocks) \in Seq(Byte) /\ Len(Bytes(blocks)) = Size * n
  <2> DEFINE len == Size * n
             e(x) == cut[((x - 1) \div Size) + 1][((x - 1) % Size) + 1]
  <2>1. Bytes(blocks) = [x \in 1 .. len |-> e(x)] /\ \A x \in 1 .. len : e(x) \in Byte
    BY <1>4, <1>7
  <2>2. len \in Nat
    BY <1>1
  <2> HIDE DEF e, len
  <2>3. Bytes(blocks) \in Seq(Byte) /\ Len(Bytes(blocks)) = len
    BY <2>1, <2>2
  <2> QED
    BY <2>3 DEF len
<1>9. ASSUME NEW k \in 1 .. n, NEW i \in 1 .. Size
      PROVE  Bytes(blocks)[Size * (k - 1) + i] = cut[k][i]
  <2> DEFINE a == k - 1
             j == i - 1
             x == Size * a + i
  <2>1. a \in Nat /\ a < n /\ j \in 0 .. Size - 1 /\ k = a + 1 /\ i = j + 1
    BY <1>1, Sizes
  <2> HIDE DEF a, j, n
  <2>2. Size * a + j < Size * n /\ Size * a + j \in Nat
    BY <1>1, <2>1, Sizes, RowsBelow, Places
  <2>3. (Size * a + j) \div Size = a /\ (Size * a + j) % Size = j
    BY <2>1, Sizes, Places
  <2>4. Size * a \in Nat
    BY <2>1, Sizes
  <2>5. x - 1 = Size * a + j /\ x \in 1 .. Size * n
    <3> DEFINE p == Size * a
               q == Size * n
    <3>1. p \in Nat /\ q \in Nat /\ p + j < q /\ j \in Nat /\ i = j + 1
      BY <1>1, <2>1, <2>2, <2>4
    <3> HIDE DEF p, q
    <3>2. (p + i) - 1 = p + j /\ p + i \in 1 .. q
      BY <3>1
    <3> QED
      BY <3>2 DEF p, q
  <2> HIDE DEF x
  <2>6. Bytes(blocks)[x] = cut[((x - 1) \div Size) + 1][((x - 1) % Size) + 1]
    BY <1>4, <2>5
  <2>7. Bytes(blocks)[x] = cut[k][i]
    BY <2>1, <2>3, <2>5, <2>6
  <2> QED
    BY <2>7 DEF x, a
<1> QED
  BY <1>8, <1>9 DEF cut

LEMMA BlocksOfBytes ==
  ASSUME NEW blocks \in Seq(Word)
  PROVE  Blocks(Bytes(blocks)) = blocks
<1> DEFINE n == Len(blocks)
           input == Bytes(blocks)
<1>1. /\ input \in Seq(Byte) /\ Len(input) = Size * n /\ n \in Nat
      /\ \A k \in 1 .. n : \A i \in 1 .. Size :
           input[Size * (k - 1) + i] = Cut(Width, Size, blocks[k])[i]
  BY BytesOf
<1>2. Len(input) \div Size = n
  <2>1. (Size * n + 0) \div Size = n /\ 0 \in 0 .. Size - 1 /\ Size * n \in Nat
    BY <1>1, Sizes, Places
  <2> QED
    BY <1>1, <2>1
<1> HIDE DEF input, n
<1>3. /\ Blocks(input) \in Seq(Word) /\ Len(Blocks(input)) = n
      /\ \A k \in 1 .. n : LET piece == SubSeq(input, Size * (k - 1) + 1, Size * k)
                           IN piece \in ByteBlock /\ Blocks(input)[k] = Block(piece)
  BY <1>1, <1>2, BlocksOf
<1>4. ASSUME NEW k \in 1 .. n PROVE Blocks(input)[k] = blocks[k]
  <2> DEFINE piece == SubSeq(input, Size * (k - 1) + 1, Size * k)
             cut == Cut(Width, Size, blocks[k])
  <2>1. blocks[k] \in Word
    BY DEF n
  <2>2. cut \in ByteBlock /\ Block(cut) = blocks[k]
    BY <2>1, WordIsBlock
  <2>3. piece \in ByteBlock /\ \A i \in 1 .. Size : piece[i] = input[Size * (k - 1) + i]
    <3>1. piece \in ByteBlock
      BY <1>3
    <3>2. k \in 1 .. Len(input) \div Size /\ Size \in Nat \ {0} /\ input \in Seq(Byte)
      BY <1>1, <1>2, Sizes
    <3>3. \A i \in 1 .. Size : SubSeq(input, Size * (k - 1) + 1, Size * k)[i] = input[Size * (k - 1) + i]
      BY <3>2, PieceOf
    <3> QED
      BY <3>1, <3>3
  <2> HIDE DEF piece, cut
  <2>4. \A i \in 1 .. Size : piece[i] = cut[i]
    BY <1>1, <2>3 DEF cut
  <2>5. piece = cut
    BY <2>2, <2>3, <2>4, Sizes DEF ByteBlock
  <2> QED
    BY <1>3, <2>2, <2>5 DEF piece
<1> QED
  BY <1>3, <1>4 DEF n, input

LEMMA BytesOfBlocks ==
  ASSUME NEW input \in Seq(Byte), Len(input) % Size = 0
  PROVE  /\ Bytes(Blocks(input)) = input
         /\ Len(input) = Size * Len(Blocks(input))
<1> DEFINE n == Len(input) \div Size
           blocks == Blocks(input)
<1>1. /\ blocks \in Seq(Word) /\ Len(blocks) = n /\ n \in Nat
      /\ \A k \in 1 .. n : LET piece == SubSeq(input, Size * (k - 1) + 1, Size * k)
                           IN piece \in ByteBlock /\ blocks[k] = Block(piece)
  BY BlocksOf
<1>2. Len(input) = Size * n /\ Size * n \in Nat
  <2> DEFINE len == Len(input)
  <2>1. len \in Nat
    OBVIOUS
  <2> HIDE DEF len
  <2>2. len = Size * (len \div Size) + (len % Size) /\ len \div Size \in Nat
    BY <2>1, Sizes, Places
  <2>3. Size * (len \div Size) \in Nat
    BY <2>2, Sizes
  <2> QED
    BY <2>2, <2>3 DEF len
<1> HIDE DEF blocks
<1>3. /\ Bytes(blocks) \in Seq(Byte) /\ Len(Bytes(blocks)) = Size * n
      /\ \A k \in 1 .. n : \A i \in 1 .. Size :
           Bytes(blocks)[Size * (k - 1) + i] = Cut(Width, Size, blocks[k])[i]
  BY <1>1, BytesOf
<1>4. ASSUME NEW x \in 1 .. Size * n PROVE Bytes(blocks)[x] = input[x]
  <2> DEFINE y == x - 1
             k == (y \div Size) + 1
             i == (y % Size) + 1
             piece == SubSeq(input, Size * (k - 1) + 1, Size * k)
  <2>1. y \in 0 .. Size * n - 1
    BY <1>2
  <2>2. y \div Size \in 0 .. n - 1 /\ y % Size \in 0 .. Size - 1 /\ y = Size * (y \div Size) + (y % Size)
    <3> HIDE DEF y, n
    <3> QED
      BY <1>1, <2>1, Sizes, RowOfPlace
  <2>3. k \in 1 .. n /\ i \in 1 .. Size /\ k - 1 = y \div Size
    <3> DEFINE a == y \div Size
               r == y % Size
    <3>1. a \in 0 .. n - 1 /\ r \in 0 .. Size - 1 /\ n \in Nat /\ Size \in Nat
      BY <1>1, <2>2, Sizes
    <3> HIDE DEF a, r, n
    <3>2. a + 1 \in 1 .. n /\ r + 1 \in 1 .. Size /\ (a + 1) - 1 = a
      BY <3>1
    <3> QED
      BY <3>2 DEF a, r
  <2>4. x = Size * (k - 1) + i
    <3> DEFINE p == Size * (y \div Size)
    <3>1. y = p + (y % Size) /\ p \in Nat /\ y \in Nat /\ y % Size \in Nat
      <4> HIDE DEF y
      <4> QED
        BY <2>1, <2>2, Sizes
    <3>2. x = y + 1
      OBVIOUS
    <3>3. x = p + ((y % Size) + 1)
      <4> HIDE DEF y, p
      <4> QED
        BY <3>1, <3>2
    <3> QED
      BY <2>3, <3>3
  <2> HIDE DEF k, i, n
  <2>5. piece \in ByteBlock /\ blocks[k] = Block(piece) /\ piece[i] = input[Size * (k - 1) + i]
    <3>1. piece \in ByteBlock /\ blocks[k] = Block(piece)
      BY <1>1, <2>3
    <3>2. k \in 1 .. Len(input) \div Size
      BY <2>3 DEF n
    <3>3. piece[i] = input[Size * (k - 1) + i]
      BY <2>3, <3>2, Sizes, PieceOf
    <3> QED
      BY <3>1, <3>3
  <2>6. Cut(Width, Size, blocks[k]) = piece
    BY <2>5, BlockIsWord
  <2>7. Bytes(blocks)[Size * (k - 1) + i] = piece[i]
    BY <1>3, <2>3, <2>6
  <2> QED
    BY <2>4, <2>5, <2>7
<1>5. Bytes(blocks) = input
  <2> HIDE DEF n
  <2> DEFINE len == Size * n
  <2>1. Len(input) = len /\ Len(Bytes(blocks)) = len /\ len \in Nat
    BY <1>2, <1>3
  <2>2. \A x \in 1 .. len : Bytes(blocks)[x] = input[x]
    BY <1>4
  <2> HIDE DEF len
  <2> QED
    BY <1>3, <2>1, <2>2
<1> QED
  BY <1>1, <1>2, <1>5 DEF blocks

-----------------------------------------------------------------------------
(* The modes, block by block                                                 *)

Modes == {"ECB", "CBC", "CFB1"}

EK == Key("ENCRYPT")
DK == Key("DECRYPT")

LEMMA CipherInverts ==
  ASSUME NEW b \in Word
  PROVE  /\ Encipher(EK, b) \in Word /\ Decipher(DK, b) \in Word
         /\ Decipher(DK, Encipher(EK, b)) = b /\ Encipher(EK, Decipher(DK, b)) = b
         /\ Encipher(DK, b) = Encipher(EK, b)
  BY CryptConstants DEF Word, EK, DK

LEMMA XorOfWords ==
  ASSUME NEW x \in Word, NEW y \in Word
  PROVE  Xor(x, y) \in Word /\ Xor(Xor(x, y), y) = x
  BY DEF Xor, Word

\* What stands before block i.
Prev(IV, blocks, i) == IF i = 1 THEN IV ELSE blocks[i - 1]

LEMMA PrevIsWord ==
  ASSUME NEW IV \in Word, NEW blocks \in Seq(Word), NEW i \in 1 .. Len(blocks) + 1
  PROVE  Prev(IV, blocks, i) \in Word
<1>1. CASE i = 1
  BY <1>1 DEF Prev
<1>2. CASE i # 1
  <2>1. i - 1 \in 1 .. Len(blocks)
    BY <1>2
  <2>2. blocks[i - 1] \in Word
    BY <2>1, ElementOfSeq
  <2> QED
    BY <1>2, <2>2 DEF Prev
<1> QED
  BY <1>1, <1>2

LEMMA SameRun ==
  ASSUME NEW N \in Nat, NEW g, NEW h, g[0] = h[0],
         \A k \in 1 .. N : g[k - 1] = h[k - 1] => g[k] = h[k]
  PROVE  \A k \in 0 .. N : g[k] = h[k]
<1> DEFINE T == {k \in 0 .. N : g[k] = h[k]}
<1>1. 0 \in T /\ \A n \in 1 .. N : n - 1 \in T => n \in T
  OBVIOUS
<1> HIDE DEF T
<1>2. \A n \in 0 .. N : n \in T
  BY <1>1, IntervalInduction
<1> QED
  BY <1>2 DEF T

-----------------------------------------------------------------------------
(* CBC                                                                       *)

CbcChain(IV, blocks, c) ==
  [i \in 0 .. Len(blocks) |-> IF i = 0 THEN IV ELSE Encipher(EK, Xor(blocks[i], c[i - 1]))]

LEMMA CbcEnciphers ==
  ASSUME NEW IV \in Word, NEW blocks \in Seq(Word)
  PROVE  LET e == cbcEncrypt(EK, IV, blocks)
         IN /\ e \in Seq(Word) /\ Len(e) = Len(blocks)
            /\ \A i \in 1 .. Len(blocks) : e[i] = Encipher(EK, Xor(blocks[i], Prev(IV, e, i)))
<1> DEFINE n == Len(blocks)
           F == [v \in Word |-> [i \in 1 .. n |-> Encipher(EK, Xor(blocks[i], v))]]
           chosen == CHOOSE c : c = CbcChain(IV, blocks, c)
           e == [i \in 1 .. n |-> chosen[i]]
<1>1. n \in Nat /\ \A i \in 1 .. n : blocks[i] \in Word
  OBVIOUS
<1>2. \A v \in Word : \A i \in 1 .. n : Encipher(EK, Xor(blocks[i], v)) \in Word
  BY <1>1, XorOfWords, CipherInverts
<1>3. Stays(n, Word, F)
  BY <1>2 DEF Stays
<1>4. \E g : IsRun(n, Word, IV, F, g)
  <2> HIDE DEF F, n
  <2> QED
    BY <1>1, <1>3, RunExists
<1>5. PICK g : IsRun(n, Word, IV, F, g)
  BY <1>4
<1>6. ASSUME NEW i \in 0 .. n
      PROVE  g[i] = IF i = 0 THEN IV ELSE Encipher(EK, Xor(blocks[i], g[i - 1]))
  <2>1. g[0] = IV
    BY <1>5 DEF IsRun
  <2>2. CASE i # 0
    <3>1. i \in 1 .. n /\ i - 1 \in 0 .. n
      BY <2>2
    <3>2. g[i] = F[g[i - 1]][i] /\ g[i - 1] \in Word
      <4> HIDE DEF F, n
      <4> QED
        BY <1>5, <3>1 DEF IsRun
    <3> QED
      BY <2>2, <3>1, <3>2
  <2> QED
    BY <2>1, <2>2
<1>7. g = CbcChain(IV, blocks, g)
  <2>1. g = [i \in 0 .. n |-> g[i]]
    BY <1>5 DEF IsRun
  <2> QED
    BY <1>6, <2>1 DEF CbcChain
<1>8. chosen = CbcChain(IV, blocks, chosen)
  BY <1>7
<1>9. cbcEncrypt(EK, IV, blocks) = e
  BY DEF cbcEncrypt, CbcChain
<1> HIDE DEF chosen
<1>10. chosen[0] = IV /\ \A i \in 1 .. n : chosen[i] = Encipher(EK, Xor(blocks[i], chosen[i - 1]))
  BY <1>8 DEF CbcChain
<1>11. \A i \in 0 .. n : chosen[i] \in Word
  <2>1. \A i \in 1 .. n : chosen[i - 1] \in Word => chosen[i] \in Word
    BY <1>2, <1>10
  <2> HIDE DEF n
  <2> QED
    BY <1>1, <1>10, <2>1, StepsStay
<1>12. e \in Seq(Word) /\ Len(e) = n
  <2>1. \A i \in 1 .. n : chosen[i] \in Word
    BY <1>11
  <2> HIDE DEF n
  <2>2. e \in [1 .. n -> Word]
    BY <2>1
  <2> HIDE DEF e
  <2> QED
    BY <1>1, <2>2, RowIsSeq
<1>13. ASSUME NEW i \in 1 .. n
       PROVE  e[i] = Encipher(EK, Xor(blocks[i], Prev(IV, e, i)))
  <2>1. chosen[i - 1] = Prev(IV, e, i)
    <3>1. CASE i = 1
      BY <1>10, <3>1 DEF Prev
    <3>2. CASE i # 1
      <4>1. i - 1 \in 1 .. n
        BY <3>2
      <4> QED
        BY <3>2, <4>1 DEF Prev
    <3> QED
      BY <3>1, <3>2
  <2> QED
    BY <1>10, <2>1
<1> HIDE DEF e
<1> QED
  BY <1>9, <1>12, <1>13

\* The buffer and the IV after k blocks.
CbcAfter(IV, blocks, k) ==
  [out |-> [i \in 1 .. Len(blocks) |-> IF i <= k THEN Xor(Decipher(DK, blocks[i]), Prev(IV, blocks, i))
                                       ELSE blocks[i]],
   IV |-> Prev(IV, blocks, k + 1)]

CbcRun(IV, blocks, v) ==
  [i \in 0 .. Len(blocks) |-> IF i = 0 THEN [out |-> blocks, IV |-> IV] ELSE cbcBlock(DK, v[i - 1], i)]

LEMMA CbcDeciphers ==
  ASSUME NEW IV \in Word, NEW blocks \in Seq(Word)
  PROVE  cbcDecrypt(DK, IV, blocks) = CbcAfter(IV, blocks, Len(blocks))
<1> DEFINE n == Len(blocks)
           g == [k \in 0 .. n |-> CbcAfter(IV, blocks, k)]
           chosen == CHOOSE v : v = CbcRun(IV, blocks, v)
<1>1. n \in Nat /\ blocks = [i \in 1 .. n |-> blocks[i]]
  OBVIOUS
<1>2. g[0] = [out |-> blocks, IV |-> IV]
  <2>1. 0 \in 0 .. n
    BY <1>1
  <2>2. g[0] = CbcAfter(IV, blocks, 0)
    BY <2>1
  <2>3. [i \in 1 .. n |-> IF i <= 0 THEN Xor(Decipher(DK, blocks[i]), Prev(IV, blocks, i))
                          ELSE blocks[i]] = blocks
    <3>1. \A i \in 1 .. n : ~ (i <= 0)
      BY <1>1
    <3> HIDE DEF n
    <3> QED
      BY <1>1, <3>1
  <2>4. Prev(IV, blocks, 0 + 1) = IV
    BY DEF Prev
  <2> QED
    BY <2>2, <2>3, <2>4 DEF CbcAfter
<1>3. ASSUME NEW k \in 1 .. n
      PROVE  CbcAfter(IV, blocks, k) = cbcBlock(DK, CbcAfter(IV, blocks, k - 1), k)
  <2> DEFINE before == CbcAfter(IV, blocks, k - 1)
             out == [i \in 1 .. n |-> IF i <= k - 1 THEN Xor(Decipher(DK, blocks[i]), Prev(IV, blocks, i))
                                      ELSE blocks[i]]
  <2>1. before = [out |-> out, IV |-> Prev(IV, blocks, k)]
    <3>1. k - 1 + 1 = k
      BY <1>1
    <3> QED
      BY <3>1 DEF CbcAfter
  <2>2. out[k] = blocks[k]
    BY <1>1
  <2>3. blocks[k] = Prev(IV, blocks, k + 1)
    <3>1. k + 1 # 1 /\ (k + 1) - 1 = k
      BY <1>1
    <3> QED
      BY <3>1 DEF Prev
  <2>4. [out EXCEPT ![k] = Xor(Decipher(DK, blocks[k]), Prev(IV, blocks, k))] =
          [i \in 1 .. n |-> IF i <= k THEN Xor(Decipher(DK, blocks[i]), Prev(IV, blocks, i))
                            ELSE blocks[i]]
    <3>1. \A i \in 1 .. n : i <= k <=> i <= k - 1 \/ i = k
      BY <1>1
    <3> QED
      BY <3>1
  <2>5. cbcBlock(DK, before, k) =
          [out |-> [out EXCEPT ![k] = Xor(Decipher(DK, out[k]), Prev(IV, blocks, k))], IV |-> out[k]]
    <3> HIDE DEF out, before
    <3> QED
      BY <2>1 DEF cbcBlock
  <2> HIDE DEF before, out
  <2> QED
    BY <2>2, <2>3, <2>4, <2>5 DEF CbcAfter, before
<1>4. g = CbcRun(IV, blocks, g)
  <2>1. ASSUME NEW k \in 0 .. n
        PROVE  g[k] = IF k = 0 THEN [out |-> blocks, IV |-> IV] ELSE cbcBlock(DK, g[k - 1], k)
    <3>1. CASE k # 0
      <4>1. k \in 1 .. n /\ k - 1 \in 0 .. n
        BY <3>1
      <4>2. g[k] = CbcAfter(IV, blocks, k) /\ g[k - 1] = CbcAfter(IV, blocks, k - 1)
        BY <4>1
      <4> HIDE DEF g, n
      <4> QED
        BY <1>3, <3>1, <4>1, <4>2
    <3> HIDE DEF g
    <3> QED
      BY <1>2, <3>1
  <2>2. g = [k \in 0 .. n |-> g[k]]
    OBVIOUS
  <2> HIDE DEF g
  <2> QED
    BY <2>1, <2>2 DEF CbcRun
<1>5. chosen = CbcRun(IV, blocks, chosen)
  <2> HIDE DEF g
  <2> QED
    BY <1>4
<1>6. cbcDecrypt(DK, IV, blocks) = chosen[n]
  BY DEF cbcDecrypt, CbcRun
<1> HIDE DEF chosen, g
<1>7. \A k \in 0 .. n : chosen[k] = g[k]
  <2>1. chosen[0] = g[0]
    BY <1>1, <1>4, <1>5 DEF CbcRun
  <2>2. ASSUME NEW k \in 1 .. n
        PROVE  chosen[k] = cbcBlock(DK, chosen[k - 1], k) /\ g[k] = cbcBlock(DK, g[k - 1], k)
    <3>1. k \in 0 .. Len(blocks) /\ k # 0
      OBVIOUS
    <3>2. chosen[k] = cbcBlock(DK, chosen[k - 1], k)
      BY <1>5, <3>1 DEF CbcRun
    <3>3. g[k] = cbcBlock(DK, g[k - 1], k)
      BY <1>4, <3>1 DEF CbcRun
    <3> QED
      BY <3>2, <3>3
  <2> HIDE DEF n
  <2> QED
    BY <1>1, <2>1, <2>2, SameRun
<1>8. chosen[n] = CbcAfter(IV, blocks, n)
  BY <1>1, <1>7 DEF g
<1> QED
  BY <1>6, <1>8

-----------------------------------------------------------------------------
(* CFB1. After k bits the register holds the first k bits of w, the block    *)
(* that is fed to it, behind what is left of its IV.                         *)

Register(IV, w, k) ==
  {p \in 0 .. BlockBits - 1 : IF p < k THEN BlockBits - k + p \in w ELSE p - k \in IV}

LEMMA RegisterIsWord ==
  ASSUME NEW IV, NEW w, NEW k
  PROVE  Register(IV, w, k) \in Word
  BY DEF Register, Word

LEMMA RegisterEnds ==
  ASSUME NEW IV \in Word, NEW w \in Word
  PROVE  Register(IV, w, 0) = IV /\ Register(IV, w, BlockBits) = w
<1> DEFINE B == BlockBits
<1>1. B \in Nat /\ IV \subseteq 0 .. B - 1 /\ w \subseteq 0 .. B - 1
  BY Sizes DEF Word
<1>2. \A p \in 0 .. B - 1 : /\ ~ (p < 0) /\ p - 0 = p
                            /\ p < B /\ B - B + p = p
  BY <1>1
<1>3. \A p \in 0 .. B - 1 : (p \in Register(IV, w, 0) <=> p \in IV) /\ (p \in Register(IV, w, B) <=> p \in w)
  BY <1>2 DEF Register
<1>4. Register(IV, w, 0) \subseteq 0 .. B - 1 /\ Register(IV, w, B) \subseteq 0 .. B - 1
  BY DEF Register
<1> HIDE DEF B
<1>5. Register(IV, w, 0) = IV /\ Register(IV, w, B) = w
  BY <1>1, <1>3, <1>4
<1> QED
  BY <1>5 DEF B

LEMMA RegisterMoves ==
  ASSUME NEW IV \in Word, NEW w \in Word, NEW k \in 1 .. BlockBits
  PROVE  Register(IV, w, k) =
           Shl(BlockBits, Register(IV, w, k - 1), 1) \cup (IF BlockBits - k \in w THEN {0} ELSE {})
<1> DEFINE B == BlockBits
           r == Register(IV, w, k - 1)
           fed == IF B - k \in w THEN {0} ELSE {}
<1>1. B \in Nat \ {0} /\ k \in 1 .. B
  BY Sizes
<1>2. \A p \in 0 .. B - 1 : p \in r <=> IF p < k - 1 THEN B - (k - 1) + p \in w ELSE p - (k - 1) \in IV
  BY DEF Register
<1>3. r \subseteq 0 .. B - 1
  BY DEF Register
<1> HIDE DEF r
<1>4. ASSUME NEW p \in 0 .. B - 1
      PROVE  p \in Register(IV, w, k) <=> p \in Shl(B, r, 1) \cup fed
  <2>1. p \in Register(IV, w, k) <=> IF p < k THEN B - k + p \in w ELSE p - k \in IV
    BY DEF Register
  <2>2. CASE p = 0
    <3>1. p \notin Shl(B, r, 1)
      BY <1>1, <1>3, <2>2 DEF Shl
    <3>2. p < k /\ B - k + p = B - k
      BY <1>1, <2>2
    <3> HIDE DEF B
    <3> QED
      BY <2>1, <2>2, <3>1, <3>2
  <2>3. CASE p # 0
    <3>1. p - 1 \in 0 .. B - 1 /\ (p - 1) + 1 = p
      BY <1>1, <2>3
    <3>2. p \in Shl(B, r, 1) <=> p - 1 \in r
      <4>1. p \in Shl(B, r, 1) <=> \E i \in r : i + 1 < B /\ p = i + 1
        BY DEF Shl
      <4>2. \A i \in r : p = i + 1 <=> i = p - 1
        BY <1>3
      <4>3. (p - 1) + 1 < B
        BY <1>1, <3>1
      <4> HIDE DEF B
      <4> QED
        BY <4>1, <4>2, <4>3
    <3>3. p - 1 \in r <=> IF p < k THEN B - k + p \in w ELSE p - k \in IV
      <4>1. p - 1 < k - 1 <=> p < k
        BY <1>1
      <4>2. B - (k - 1) + (p - 1) = B - k + p /\ (p - 1) - (k - 1) = p - k
        BY <1>1
      <4> HIDE DEF B
      <4> QED
        BY <1>2, <3>1, <4>1, <4>2
    <3>4. p \notin fed
      BY <2>3
    <3> QED
      BY <2>1, <3>2, <3>3, <3>4
  <2> QED
    BY <2>2, <2>3
<1>5. Shl(B, r, 1) \cup fed \subseteq 0 .. B - 1
  <2>1. Shl(B, r, 1) \subseteq 0 .. B - 1
    BY <1>1, <1>3 DEF Shl
  <2>2. 0 \in 0 .. B - 1
    BY <1>1
  <2> QED
    BY <2>1, <2>2
<1>6. Register(IV, w, k) \subseteq 0 .. B - 1
  BY DEF Register
<1> HIDE DEF fed
<1>7. Register(IV, w, k) = Shl(B, r, 1) \cup fed
  BY <1>4, <1>5, <1>6
<1> QED
  BY <1>7 DEF r, fed

\* What the register gives for bit i, which is combined with it.
Stream(key, IV, w, i) == BlockBits - 1 \in Encipher(key, Register(IV, w, BlockBits - 1 - i))

CfbBits(key, block, IV, enciphers, v) ==
  [k \in 0 .. BlockBits |-> IF k = 0 THEN [in |-> block, out |-> {}, IV |-> IV]
                            ELSE cfbBit(key, v[k - 1], k - 1, enciphers)]

Cell == [in : Word, out : Word, IV : Word]

LEMMA BitStep ==
  ASSUME NEW key, NEW c \in Cell, NEW k \in 1 .. BlockBits, NEW enciphers \in BOOLEAN
  PROVE  LET found == (BlockBits - k \in c.in) # (BlockBits - 1 \in Encipher(key, c.IV))
             fed == IF enciphers THEN found ELSE BlockBits - k \in c.in
         IN /\ cfbBit(key, c, k - 1, enciphers) =
                 [in |-> c.in,
                  out |-> IF found THEN c.out \cup {BlockBits - k} ELSE c.out,
                  IV |-> Shl(BlockBits, c.IV, 1) \cup (IF fed THEN {0} ELSE {})]
            /\ cfbBit(key, c, k - 1, enciphers) \in Cell
<1> DEFINE B == BlockBits
           found == (B - k \in c.in) # (B - 1 \in Encipher(key, c.IV))
           fed == IF enciphers THEN found ELSE B - k \in c.in
           after == [in |-> c.in, out |-> IF found THEN c.out \cup {B - k} ELSE c.out,
                     IV |-> Shl(B, c.IV, 1) \cup (IF fed THEN {0} ELSE {})]
<1>1. B \in Nat \ {0} /\ k \in 1 .. B /\ B - 1 - (k - 1) = B - k /\ B - k \in 0 .. B - 1
  BY Sizes
<1>2. cfbBit(key, c, k - 1, enciphers) = after
  <2>1. c = [in |-> c.in, out |-> c.out, IV |-> c.IV]
    BY DEF Cell
  <2>2. cfbBit(key, c, k - 1, enciphers) =
          [c EXCEPT !.out = IF found THEN @ \cup {B - k} ELSE @,
                    !.IV = Shl(B, @, 1) \cup (IF fed THEN {0} ELSE {})]
    BY <1>1 DEF cfbBit
  <2> HIDE DEF found, fed, B
  <2> QED
    BY <2>1, <2>2
<1>3. Shl(B, c.IV, 1) \cup (IF fed THEN {0} ELSE {}) \in Word
  <2>1. c.IV \subseteq 0 .. B - 1 /\ 0 \in 0 .. B - 1
    BY <1>1 DEF Cell, Word
  <2>2. Shl(B, c.IV, 1) \subseteq 0 .. B - 1
    BY <1>1, <2>1 DEF Shl
  <2> HIDE DEF fed
  <2> QED
    BY <2>1, <2>2 DEF Word
<1>4. (IF found THEN c.out \cup {B - k} ELSE c.out) \in Word /\ c.in \in Word
  <2>1. c.out \in Word /\ c.in \in Word
    BY DEF Cell
  <2>2. c.out \cup {B - k} \in Word
    BY <1>1, <2>1 DEF Word
  <2> HIDE DEF found
  <2> QED
    BY <2>1, <2>2
<1> HIDE DEF found, fed
<1>5. after \in Cell
  BY <1>3, <1>4 DEF Cell
<1> HIDE DEF after
<1> QED
  BY <1>2, <1>5 DEF after, found, fed

LEMMA CfbBySteps ==
  ASSUME NEW key, NEW b \in Word, NEW IV \in Word, NEW enciphers \in BOOLEAN
  PROVE  \E v : /\ v[0] = [in |-> b, out |-> {}, IV |-> IV]
                /\ \A k \in 0 .. BlockBits : v[k] \in Cell
                /\ \A k \in 1 .. BlockBits : v[k] = cfbBit(key, v[k - 1], k - 1, enciphers)
                /\ cfbBlock(key, b, IV, enciphers) = v[BlockBits]
<1> DEFINE n == BlockBits
           start == [in |-> b, out |-> {}, IV |-> IV]
           F == [c \in Cell |-> [k \in 1 .. n |-> cfbBit(key, c, k - 1, enciphers)]]
           chosen == CHOOSE v : v = CfbBits(key, b, IV, enciphers, v)
<1>1. n \in Nat /\ start \in Cell
  BY Sizes DEF Cell
<1>2. \A c \in Cell : \A k \in 1 .. n : cfbBit(key, c, k - 1, enciphers) \in Cell
  BY BitStep
<1>3. Stays(n, Cell, F)
  BY <1>2 DEF Stays
<1>4. \E g : IsRun(n, Cell, start, F, g)
  <2> HIDE DEF F, n, start
  <2> QED
    BY <1>1, <1>3, RunExists
<1>5. PICK g : IsRun(n, Cell, start, F, g)
  BY <1>4
<1>6. ASSUME NEW k \in 0 .. n
      PROVE  g[k] = IF k = 0 THEN start ELSE cfbBit(key, g[k - 1], k - 1, enciphers)
  <2>1. g[0] = start
    <3> HIDE DEF F, start
    <3> QED
      BY <1>5 DEF IsRun
  <2>2. CASE k # 0
    <3>1. k \in 1 .. n /\ k - 1 \in 0 .. n
      BY <1>1, <2>2
    <3>2. g[k] = F[g[k - 1]][k] /\ g[k - 1] \in Cell
      <4> HIDE DEF F, n, start
      <4> QED
        BY <1>5, <3>1 DEF IsRun
    <3> QED
      BY <2>2, <3>1, <3>2
  <2> HIDE DEF start
  <2> QED
    BY <2>1, <2>2
<1>7. g = CfbBits(key, b, IV, enciphers, g)
  <2>1. g = [k \in 0 .. n |-> g[k]]
    <3> HIDE DEF F, start
    <3> QED
      BY <1>5 DEF IsRun
  <2> QED
    BY <1>6, <2>1 DEF CfbBits
<1>8. chosen = CfbBits(key, b, IV, enciphers, chosen)
  BY <1>7
<1>9. cfbBlock(key, b, IV, enciphers) = chosen[n]
  BY DEF cfbBlock, CfbBits
<1> HIDE DEF chosen
<1>10. ASSUME NEW k \in 0 .. n
       PROVE  chosen[k] = IF k = 0 THEN start ELSE cfbBit(key, chosen[k - 1], k - 1, enciphers)
  BY <1>8 DEF CfbBits
<1>11. chosen[0] = start
  <2>1. 0 \in 0 .. n
    BY <1>1
  <2> HIDE DEF start, n
  <2> QED
    BY <1>10, <2>1
<1>12. ASSUME NEW k \in 1 .. n
       PROVE  chosen[k] = cfbBit(key, chosen[k - 1], k - 1, enciphers)
  <2>1. k \in 0 .. n /\ k # 0
    BY <1>1
  <2> HIDE DEF start, n
  <2> QED
    BY <1>10, <2>1
<1>13. \A k \in 0 .. n : chosen[k] \in Cell
  <2>1. chosen[0] \in Cell
    BY <1>1, <1>11
  <2>2. \A k \in 1 .. n : chosen[k - 1] \in Cell => chosen[k] \in Cell
    BY <1>2, <1>12
  <2> HIDE DEF n
  <2> QED
    BY <1>1, <2>1, <2>2, StepsStay
<1> QED
  BY <1>9, <1>11, <1>12, <1>13

\* What CFB1 makes of a block: each bit is combined with one of the enciphered
\* register, into which w is fed, the block that is enciphered.
LEMMA CfbResult ==
  ASSUME NEW key, NEW b \in Word, NEW IV \in Word, NEW enciphers \in BOOLEAN
  PROVE  LET c == cfbBlock(key, b, IV, enciphers)
             w == IF enciphers THEN c.out ELSE b
         IN /\ c \in Cell
            /\ c.IV = w
            /\ \A i \in 0 .. BlockBits - 1 : i \in c.out <=> ((i \in b) # Stream(key, IV, w, i))
<1> DEFINE B == BlockBits
<1>1. PICK v : /\ v[0] = [in |-> b, out |-> {}, IV |-> IV]
               /\ \A k \in 0 .. B : v[k] \in Cell
               /\ \A k \in 1 .. B : v[k] = cfbBit(key, v[k - 1], k - 1, enciphers)
               /\ cfbBlock(key, b, IV, enciphers) = v[B]
  BY CfbBySteps
<1> DEFINE o == v[B].out
           w == IF enciphers THEN o ELSE b
           found(k) == (B - k \in v[k - 1].in) # (B - 1 \in Encipher(key, v[k - 1].IV))
           fed(k) == IF enciphers THEN found(k) ELSE B - k \in v[k - 1].in
<1>2. B \in Nat \ {0}
  BY Sizes
<1>3. v[B] \in Cell /\ o \in Word /\ w \in Word
  <2>1. v[B] \in Cell
    BY <1>1, <1>2
  <2>2. o \in Word
    BY <2>1 DEF Cell
  <2> HIDE DEF o
  <2> QED
    BY <2>1, <2>2
<1>4. ASSUME NEW k \in 1 .. B
      PROVE  /\ v[k].in = v[k - 1].in
             /\ v[k].out = IF found(k) THEN v[k - 1].out \cup {B - k} ELSE v[k - 1].out
             /\ v[k].IV = Shl(B, v[k - 1].IV, 1) \cup (IF fed(k) THEN {0} ELSE {})
  <2>1. v[k - 1] \in Cell
    BY <1>1, <1>2
  <2>2. v[k] = [in |-> v[k - 1].in,
                out |-> IF found(k) THEN v[k - 1].out \cup {B - k} ELSE v[k - 1].out,
                IV |-> Shl(B, v[k - 1].IV, 1) \cup (IF fed(k) THEN {0} ELSE {})]
    BY <1>1, <2>1, BitStep
  <2> HIDE DEF found, fed
  <2> QED
    BY <2>2
<1> HIDE DEF found, fed, o, w, B
<1>5. \A k \in 0 .. B : v[k].in = b
  <2> DEFINE T == {k \in 0 .. B : v[k].in = b}
  <2>1. 0 \in T
    BY <1>1, <1>2
  <2>3. ASSUME NEW k \in 1 .. B, k - 1 \in T PROVE k \in T
    <3>1. v[k].in = v[k - 1].in
      BY <1>4
    <3>2. v[k].in = b
      BY <2>3, <3>1
    <3> QED
      BY <1>2, <3>2
  <2> HIDE DEF T
  <2>2. \A k \in 0 .. B : k \in T
    BY <1>2, <2>1, <2>3, IntervalInduction
  <2> QED
    BY <2>2 DEF T
\* After k bits the output holds the highest k bits and no other.
<1>6. \A k \in 0 .. B : v[k].out \subseteq B - k .. B - 1
  <2> DEFINE T == {k \in 0 .. B : v[k].out \subseteq B - k .. B - 1}
  <2>1. 0 \in T
    BY <1>1, <1>2
  <2>2. ASSUME NEW k \in 1 .. B, k - 1 \in T PROVE k \in T
    <3>1. v[k - 1].out \subseteq B - (k - 1) .. B - 1
      BY <2>2
    <3>2. v[k].out \subseteq v[k - 1].out \cup {B - k}
      BY <1>4
    <3>3. B - (k - 1) .. B - 1 \subseteq B - k .. B - 1 /\ B - k \in B - k .. B - 1
      BY <1>2
    <3>4. v[k].out \subseteq B - k .. B - 1
      BY <3>1, <3>2, <3>3
    <3> QED
      BY <1>2, <3>4
  <2> HIDE DEF T
  <2>3. \A k \in 0 .. B : k \in T
    BY <1>2, <2>1, <2>2, IntervalInduction
  <2> QED
    BY <2>3 DEF T
<1>7. \A j \in 0 .. B : \A i \in 0 .. B - 1 : i \in v[B - j].out <=> i >= j /\ i \in o
  <2> DEFINE T == {j \in 0 .. B : \A i \in 0 .. B - 1 : i \in v[B - j].out <=> i >= j /\ i \in o}
  <2>1. 0 \in T
    BY <1>2 DEF o
  <2>2. ASSUME NEW j \in 1 .. B, j - 1 \in T PROVE j \in T
    <3> DEFINE k == B - (j - 1)
    <3>1. k \in 1 .. B /\ B - j = k - 1 /\ B - k = j - 1 /\ k - 1 \in 0 .. B
      BY <1>2
    <3>2. v[k - 1].out \subseteq B - (k - 1) .. B - 1
      BY <1>6, <3>1
    <3>3. \A i \in 0 .. B - 1 : i \in v[k].out <=> i >= j - 1 /\ i \in o
      BY <2>2
    <3> HIDE DEF k, T
    <3>4. B - (k - 1) = j
      BY <1>2, <3>1
    <3>5. v[k].out = v[k - 1].out \cup {j - 1} \/ v[k].out = v[k - 1].out
      BY <1>4, <3>1
    <3>6. ASSUME NEW i \in 0 .. B - 1 PROVE i \in v[k - 1].out <=> i >= j /\ i \in o
      <4>1. CASE i = j - 1
        BY <3>2, <3>4, <4>1
      <4>2. CASE i # j - 1
        <5>1. i >= j - 1 <=> i >= j
          BY <1>2, <4>2
        <5> QED
          BY <3>3, <3>5, <4>2, <5>1
      <4> QED
        BY <4>1, <4>2
    <3> QED
      BY <3>1, <3>6 DEF T
  <2> HIDE DEF T
  <2>3. \A j \in 0 .. B : j \in T
    BY <1>2, <2>1, <2>2, IntervalInduction
  <2> QED
    BY <2>3 DEF T
<1>8. ASSUME NEW k \in 1 .. B PROVE B - k \in o <=> found(k)
  <2>1. B - k \in 0 .. B - 1 /\ B - (B - k) = k /\ B - k \in 0 .. B /\ B - k >= B - k
    BY <1>2
  <2>2. B - k \in v[k].out <=> B - k \in o
    BY <1>7, <2>1
  <2>3. B - k \notin v[k - 1].out
    <3>1. v[k - 1].out \subseteq B - (k - 1) .. B - 1
      BY <1>2, <1>6
    <3> QED
      BY <1>2, <3>1
  <2> QED
    BY <1>4, <2>2, <2>3
<1>9. ASSUME NEW k \in 1 .. B PROVE fed(k) <=> B - k \in w
  <2>1. v[k - 1].in = b
    BY <1>2, <1>5
  <2> QED
    BY <1>8, <2>1 DEF fed, w
<1>10. \A k \in 0 .. B : v[k].IV = Register(IV, w, k)
  <2> DEFINE T == {k \in 0 .. B : v[k].IV = Register(IV, w, k)}
  <2>1. 0 \in T
    BY <1>1, <1>2, <1>3, RegisterEnds
  <2>2. ASSUME NEW k \in 1 .. B, k - 1 \in T PROVE k \in T
    <3>1. v[k - 1].IV = Register(IV, w, k - 1)
      BY <2>2
    <3>2. v[k].IV = Shl(B, v[k - 1].IV, 1) \cup (IF B - k \in w THEN {0} ELSE {})
      BY <1>4, <1>9
    <3>3. Register(IV, w, k) = Shl(B, Register(IV, w, k - 1), 1) \cup (IF B - k \in w THEN {0} ELSE {})
      BY <1>3, RegisterMoves DEF B
    <3>4. v[k].IV = Register(IV, w, k)
      BY <3>1, <3>2, <3>3
    <3> QED
      BY <1>2, <3>4
  <2> HIDE DEF T
  <2>3. \A k \in 0 .. B : k \in T
    BY <1>2, <2>1, <2>2, IntervalInduction
  <2> QED
    BY <2>3 DEF T
<1>11. ASSUME NEW i \in 0 .. B - 1
       PROVE  i \in o <=> ((i \in b) # Stream(key, IV, w, i))
  <2> DEFINE k == B - i
  <2>1. k \in 1 .. B /\ B - k = i /\ k - 1 = B - 1 - i /\ k - 1 \in 0 .. B
    BY <1>2
  <2> HIDE DEF k
  <2>2. i \in o <=> found(k)
    BY <1>8, <2>1
  <2>3. v[k - 1].in = b /\ v[k - 1].IV = Register(IV, w, B - 1 - i)
    BY <1>5, <1>10, <2>1
  <2> QED
    BY <2>1, <2>2, <2>3 DEF found, Stream, B
<1>12. v[B].IV = w
  BY <1>2, <1>3, <1>10, RegisterEnds DEF B
<1> QED
  BY <1>1, <1>3, <1>11, <1>12 DEF o, w, B

\* The two directions: w is the enciphered block.
LEMMA CfbEnciphers ==
  ASSUME NEW key, NEW b \in Word, NEW IV \in Word
  PROVE  LET o == cfbBlock(key, b, IV, TRUE).out
         IN /\ cfbBlock(key, b, IV, TRUE) \in Cell /\ o \in Word
            /\ cfbBlock(key, b, IV, TRUE).IV = o
            /\ \A i \in 0 .. BlockBits - 1 : i \in o <=> ((i \in b) # Stream(key, IV, o, i))
<1> DEFINE c == cfbBlock(key, b, IV, TRUE)
<1>1. c \in Cell /\ c.IV = c.out /\ \A i \in 0 .. BlockBits - 1 : i \in c.out <=> ((i \in b) # Stream(key, IV, c.out, i))
  <2> DEFINE enciphers == TRUE
             x == cfbBlock(key, b, IV, enciphers)
             w == IF enciphers THEN x.out ELSE b
  <2>1. enciphers \in BOOLEAN
    OBVIOUS
  <2> HIDE DEF enciphers
  <2>2. x \in Cell /\ x.IV = w /\ \A i \in 0 .. BlockBits - 1 : i \in x.out <=> ((i \in b) # Stream(key, IV, w, i))
    BY <2>1, CfbResult
  <2>3. x = c /\ w = c.out
    BY DEF enciphers
  <2> HIDE DEF x, w, c
  <2> QED
    BY <2>2, <2>3
<1> HIDE DEF c
<1>2. c.out \in Word
  BY <1>1 DEF Cell
<1> QED
  BY <1>1, <1>2 DEF c

LEMMA CfbDeciphers ==
  ASSUME NEW key, NEW b \in Word, NEW IV \in Word
  PROVE  LET p == cfbBlock(key, b, IV, FALSE).out
         IN /\ cfbBlock(key, b, IV, FALSE) \in Cell /\ p \in Word
            /\ cfbBlock(key, b, IV, FALSE).IV = b
            /\ \A i \in 0 .. BlockBits - 1 : i \in p <=> ((i \in b) # Stream(key, IV, b, i))
<1> DEFINE c == cfbBlock(key, b, IV, FALSE)
<1>1. c \in Cell /\ c.IV = b /\ \A i \in 0 .. BlockBits - 1 : i \in c.out <=> ((i \in b) # Stream(key, IV, b, i))
  <2> DEFINE enciphers == FALSE
             x == cfbBlock(key, b, IV, enciphers)
             w == IF enciphers THEN x.out ELSE b
  <2>1. enciphers \in BOOLEAN
    OBVIOUS
  <2> HIDE DEF enciphers
  <2>2. x \in Cell /\ x.IV = w /\ \A i \in 0 .. BlockBits - 1 : i \in x.out <=> ((i \in b) # Stream(key, IV, w, i))
    BY <2>1, CfbResult
  <2>3. x = c /\ w = b
    BY DEF enciphers
  <2> HIDE DEF x, w, c
  <2> QED
    BY <2>2, <2>3
<1> HIDE DEF c
<1>2. c.out \in Word
  BY <1>1 DEF Cell
<1> QED
  BY <1>1, <1>2 DEF c

LEMMA SameStream ==
  ASSUME NEW IV \in Word, NEW w, NEW i
  PROVE  Stream(DK, IV, w, i) = Stream(EK, IV, w, i)
  BY RegisterIsWord, CipherInverts DEF Stream

\* Deciphering a block undoes enciphering it, with the same IV.
LEMMA CfbUndone ==
  ASSUME NEW b \in Word, NEW IV \in Word
  PROVE  cfbBlock(DK, cfbBlock(EK, b, IV, TRUE).out, IV, FALSE).out = b
<1> DEFINE o == cfbBlock(EK, b, IV, TRUE).out
           p == cfbBlock(DK, o, IV, FALSE).out
<1>1. o \in Word /\ \A i \in 0 .. BlockBits - 1 : i \in o <=> ((i \in b) # Stream(EK, IV, o, i))
  BY CfbEnciphers
<1> HIDE DEF o
<1>2. p \in Word /\ \A i \in 0 .. BlockBits - 1 : i \in p <=> ((i \in o) # Stream(DK, IV, o, i))
  BY <1>1, CfbDeciphers
<1> HIDE DEF p
<1>3. \A i \in 0 .. BlockBits - 1 : Stream(DK, IV, o, i) = Stream(EK, IV, o, i)
  BY SameStream
<1>4. ASSUME NEW i \in 0 .. BlockBits - 1 PROVE i \in p <=> i \in b
  <2>1. Stream(EK, IV, o, i) \in BOOLEAN
    BY DEF Stream
  <2> QED
    BY <1>1, <1>2, <1>3, <2>1
<1>5. p = b
  BY <1>2, <1>4 DEF Word
<1> QED
  BY <1>5 DEF o, p

CfbChain(key, IV, blocks, enciphers, v) ==
  [i \in 0 .. Len(blocks) |-> IF i = 0 THEN [out |-> {}, IV |-> IV]
                              ELSE cfbBlock(key, blocks[i], v[i - 1].IV, enciphers)]

AreCfbBlocks(key, IV, blocks, enciphers, v) ==
  /\ v[0].IV = IV
  /\ \A i \in 1 .. Len(blocks) : v[i] = cfbBlock(key, blocks[i], v[i - 1].IV, enciphers)
  /\ \A i \in 0 .. Len(blocks) : v[i].IV \in Word
  /\ cfb(key, IV, blocks, enciphers) =
       [out |-> [i \in 1 .. Len(blocks) |-> v[i].out], IV |-> v[Len(blocks)].IV]

LEMMA CfbByBlocks ==
  ASSUME NEW key, NEW IV \in Word, NEW blocks \in Seq(Word), NEW enciphers \in BOOLEAN
  PROVE  \E v : AreCfbBlocks(key, IV, blocks, enciphers, v)
<1> DEFINE n == Len(blocks)
           start == [out |-> {}, IV |-> IV]
           S == Cell \cup {start}
           F == [c \in S |-> [i \in 1 .. n |-> cfbBlock(key, blocks[i], c.IV, enciphers)]]
           chosen == CHOOSE v : v = CfbChain(key, IV, blocks, enciphers, v)
<1>1. n \in Nat /\ \A i \in 1 .. n : blocks[i] \in Word
  OBVIOUS
<1>2. start \in S /\ start.IV = IV /\ \A c \in S : c.IV \in Word
  BY DEF Cell
<1> HIDE DEF start
<1>3. \A c \in S : \A i \in 1 .. n : cfbBlock(key, blocks[i], c.IV, enciphers) \in S
  <2> SUFFICES ASSUME NEW c \in S, NEW i \in 1 .. n
               PROVE  cfbBlock(key, blocks[i], c.IV, enciphers) \in Cell
    OBVIOUS
  <2>1. blocks[i] \in Word /\ c.IV \in Word
    BY <1>1, <1>2
  <2> QED
    BY <2>1, CfbResult
<1> HIDE DEF S
<1>4. Stays(n, S, F)
  BY <1>3 DEF Stays
<1>5. \E g : IsRun(n, S, start, F, g)
  <2> HIDE DEF F, n
  <2> QED
    BY <1>1, <1>2, <1>4, RunExists
<1>6. PICK g : IsRun(n, S, start, F, g)
  BY <1>5
<1>7. ASSUME NEW i \in 0 .. n
      PROVE  g[i] = IF i = 0 THEN start ELSE cfbBlock(key, blocks[i], g[i - 1].IV, enciphers)
  <2>1. g[0] = start
    <3> HIDE DEF F
    <3> QED
      BY <1>6 DEF IsRun
  <2>2. CASE i # 0
    <3>1. i \in 1 .. n /\ i - 1 \in 0 .. n
      BY <1>1, <2>2
    <3>2. g[i] = F[g[i - 1]][i] /\ g[i - 1] \in S
      <4> HIDE DEF F, n
      <4> QED
        BY <1>6, <3>1 DEF IsRun
    <3> QED
      BY <2>2, <3>1, <3>2
  <2> QED
    BY <2>1, <2>2
<1>8. g = CfbChain(key, IV, blocks, enciphers, g)
  <2>1. g = [i \in 0 .. n |-> g[i]]
    <3> HIDE DEF F
    <3> QED
      BY <1>6 DEF IsRun
  <2> QED
    BY <1>7, <2>1 DEF CfbChain, start
<1>9. chosen = CfbChain(key, IV, blocks, enciphers, chosen)
  BY <1>8
<1>10. cfb(key, IV, blocks, enciphers) = [out |-> [i \in 1 .. n |-> chosen[i].out], IV |-> chosen[n].IV]
  BY DEF cfb, CfbChain
<1> HIDE DEF chosen
<1>11. ASSUME NEW i \in 0 .. n
       PROVE  chosen[i] = IF i = 0 THEN start ELSE cfbBlock(key, blocks[i], chosen[i - 1].IV, enciphers)
  BY <1>9 DEF CfbChain, start
<1>12. chosen[0] = start
  <2>1. 0 \in 0 .. n
    BY <1>1
  <2> HIDE DEF n
  <2> QED
    BY <1>11, <2>1
<1>13. ASSUME NEW i \in 1 .. n
       PROVE  chosen[i] = cfbBlock(key, blocks[i], chosen[i - 1].IV, enciphers)
  <2>1. i \in 0 .. n /\ i # 0
    BY <1>1
  <2> HIDE DEF n
  <2> QED
    BY <1>11, <2>1
<1>14. \A i \in 0 .. n : chosen[i] \in S
  <2>1. chosen[0] \in S
    BY <1>2, <1>12
  <2>2. \A i \in 1 .. n : chosen[i - 1] \in S => chosen[i] \in S
    BY <1>3, <1>13
  <2> HIDE DEF n
  <2> QED
    BY <1>1, <2>1, <2>2, StepsStay
<1>15. \A i \in 0 .. n : chosen[i].IV \in Word
  BY <1>2, <1>14
<1>16. AreCfbBlocks(key, IV, blocks, enciphers, chosen)
  BY <1>2, <1>10, <1>12, <1>13, <1>15 DEF AreCfbBlocks
<1> QED
  BY <1>16

\* The register of a block holds the enciphered block before it.
LEMMA CfbResults ==
  ASSUME NEW key, NEW IV \in Word, NEW blocks \in Seq(Word), NEW enciphers \in BOOLEAN
  PROVE  LET r == cfb(key, IV, blocks, enciphers)
             w == IF enciphers THEN r.out ELSE blocks
         IN /\ r.out \in Seq(Word) /\ Len(r.out) = Len(blocks)
            /\ \A i \in 1 .. Len(blocks) :
                 r.out[i] = cfbBlock(key, blocks[i], Prev(IV, w, i), enciphers).out
            /\ r.IV = Prev(IV, w, Len(blocks) + 1)
<1> DEFINE n == Len(blocks)
           r == cfb(key, IV, blocks, enciphers)
           w == IF enciphers THEN r.out ELSE blocks
<1>0. PICK v : AreCfbBlocks(key, IV, blocks, enciphers, v)
  BY CfbByBlocks
<1>1. /\ v[0].IV = IV
      /\ \A i \in 1 .. n : v[i] = cfbBlock(key, blocks[i], v[i - 1].IV, enciphers)
      /\ \A i \in 0 .. n : v[i].IV \in Word
      /\ r = [out |-> [i \in 1 .. n |-> v[i].out], IV |-> v[n].IV]
  BY <1>0 DEF AreCfbBlocks
<1>2. n \in Nat /\ \A i \in 1 .. n : blocks[i] \in Word
  OBVIOUS
<1>3. r.out = [i \in 1 .. n |-> v[i].out] /\ r.IV = v[n].IV
  BY <1>1
<1> HIDE DEF r, n
<1>4. ASSUME NEW i \in 1 .. n
      PROVE  v[i].out \in Word /\ v[i].IV = IF enciphers THEN v[i].out ELSE blocks[i]
  <2>1. blocks[i] \in Word /\ i - 1 \in 0 .. n /\ v[i - 1].IV \in Word
    BY <1>1, <1>2
  <2> DEFINE before == v[i - 1].IV
             b == blocks[i]
             c == cfbBlock(key, b, before, enciphers)
  <2>2. b \in Word /\ before \in Word
    BY <2>1
  <2>3. v[i] = c
    BY <1>1
  <2> HIDE DEF b, before
  <2>4. c \in Cell /\ c.IV = IF enciphers THEN c.out ELSE b
    BY <2>2, CfbResult
  <2> HIDE DEF c
  <2> QED
    BY <2>3, <2>4 DEF Cell, b
<1>5. r.out \in Seq(Word) /\ Len(r.out) = n
  <2>1. r.out \in [1 .. n -> Word]
    BY <1>3, <1>4
  <2> QED
    BY <1>2, <2>1, RowIsSeq
<1>6. ASSUME NEW i \in 0 .. n
      PROVE  v[i].IV = Prev(IV, w, i + 1)
  <2>1. CASE i = 0
    BY <1>1, <2>1 DEF Prev
  <2>2. CASE i # 0
    <3>1. i \in 1 .. n /\ i + 1 # 1 /\ (i + 1) - 1 = i
      BY <1>2, <2>2
    <3>2. w[i] = IF enciphers THEN v[i].out ELSE blocks[i]
      BY <1>3, <3>1
    <3> HIDE DEF w
    <3> QED
      BY <1>4, <3>1, <3>2 DEF Prev
  <2> QED
    BY <2>1, <2>2
<1>7. ASSUME NEW i \in 1 .. n
      PROVE  r.out[i] = cfbBlock(key, blocks[i], Prev(IV, w, i), enciphers).out
  <2>1. i - 1 \in 0 .. n /\ (i - 1) + 1 = i
    BY <1>2
  <2>2. v[i - 1].IV = Prev(IV, w, i)
    BY <1>6, <2>1
  <2> HIDE DEF w
  <2> QED
    BY <1>1, <1>3, <2>2
<1>8. r.IV = Prev(IV, w, n + 1)
  BY <1>2, <1>3, <1>6
<1> HIDE DEF w
<1>9. /\ r.out \in Seq(Word) /\ Len(r.out) = n
      /\ \A i \in 1 .. n : r.out[i] = cfbBlock(key, blocks[i], Prev(IV, w, i), enciphers).out
      /\ r.IV = Prev(IV, w, n + 1)
  BY <1>5, <1>7, <1>8
<1> QED
  BY <1>9 DEF r, w, n

-----------------------------------------------------------------------------
(* Every mode                                                                *)

\* What a block is deciphered to, behind the block or the IV prev.
Plain(m, prev, c) ==
  IF m = "ECB" THEN Decipher(DK, c)
  ELSE IF m = "CBC" THEN Xor(Decipher(DK, c), prev)
  ELSE cfbBlock(DK, c, prev, FALSE).out

LEMMA PlainIsWord ==
  ASSUME NEW m, NEW prev \in Word, NEW c \in Word
  PROVE  Plain(m, prev, c) \in Word
<1>1. Decipher(DK, c) \in Word
  BY CipherInverts
<1>2. Xor(Decipher(DK, c), prev) \in Word
  BY <1>1, XorOfWords
<1>3. cfbBlock(DK, c, prev, FALSE).out \in Word
  BY CfbDeciphers
<1> QED
  BY <1>1, <1>2, <1>3 DEF Plain

\* In the modes that take padding, the block can be told from what it is deciphered to.
LEMMA PlainTellsBlock ==
  ASSUME NEW m \in {"ECB", "CBC"}, NEW prev \in Word, NEW c \in Word, NEW d \in Word,
         Plain(m, prev, c) = Plain(m, prev, d)
  PROVE  c = d
<1>1. Decipher(DK, c) \in Word /\ Decipher(DK, d) \in Word
  BY CipherInverts
<1>2. Decipher(DK, c) = Decipher(DK, d)
  <2>1. CASE m = "ECB"
    BY <2>1 DEF Plain
  <2>2. CASE m = "CBC"
    <3> DEFINE x == Decipher(DK, c)
               y == Decipher(DK, d)
    <3>1. x \in Word /\ y \in Word /\ Xor(x, prev) = Xor(y, prev)
      BY <1>1, <2>2 DEF Plain
    <3> HIDE DEF x, y
    <3>2. x = Xor(Xor(x, prev), prev) /\ y = Xor(Xor(y, prev), prev)
      BY <3>1, XorOfWords
    <3>3. x = y
      BY <3>1, <3>2
    <3> QED
      BY <3>3 DEF x, y
  <2> QED
    BY <2>1, <2>2
<1>3. Encipher(EK, Decipher(DK, c)) = c /\ Encipher(EK, Decipher(DK, d)) = d
  BY CipherInverts
<1> QED
  BY <1>2, <1>3

\* What enciphering the blocks p with IV has made of them.
IsCipherOf(m, IV, p, e) ==
  /\ e \in Seq(Word) /\ Len(e) = Len(p)
  /\ \A i \in 1 .. Len(p) : Plain(m, Prev(IV, e, i), e[i]) = p[i]

\* The IV that enciphering leaves.
Left(m, IV, e) == IF m = "CFB1" THEN Prev(IV, e, Len(e) + 1) ELSE IV

LEMMA EncipherResult ==
  ASSUME NEW m \in Modes, NEW IV \in Word, NEW p \in Seq(Word), NEW cipher,
         cipher.mode = m, cipher.IV = IV
  PROVE  \E e : IsCipherOf(m, IV, p, e) /\ Enciphering(cipher, EK, p) = Done(Bytes(e), Left(m, IV, e))
<1> DEFINE n == Len(p)
<1>1. n \in Nat /\ \A i \in 1 .. n : p[i] \in Word
  OBVIOUS
<1>2. CASE m = "ECB"
  <2> DEFINE e == ecbEncrypt(EK, p)
  <2>1. e \in [1 .. n -> Word]
    BY <1>1, CipherInverts DEF ecbEncrypt
  <2>2. e \in Seq(Word) /\ Len(e) = n
    <3> HIDE DEF e, n
    <3> QED
      BY <1>1, <2>1, RowIsSeq
  <2>3. \A i \in 1 .. n : Decipher(DK, e[i]) = p[i]
    BY <1>1, CipherInverts DEF ecbEncrypt
  <2>4. Enciphering(cipher, EK, p) = Done(Bytes(e), IV)
    BY <1>2 DEF Enciphering
  <2>5. Left(m, IV, e) = IV
    BY <1>2 DEF Left
  <2> HIDE DEF e
  <2>6. IsCipherOf(m, IV, p, e)
    BY <1>2, <2>2, <2>3 DEF IsCipherOf, Plain
  <2> QED
    BY <2>4, <2>5, <2>6
<1>3. CASE m = "CBC"
  <2> DEFINE e == cbcEncrypt(EK, IV, p)
  <2>1. e \in Seq(Word) /\ Len(e) = n /\ \A i \in 1 .. n : e[i] = Encipher(EK, Xor(p[i], Prev(IV, e, i)))
    BY CbcEnciphers
  <2>2. Enciphering(cipher, EK, p) = Done(Bytes(e), IV)
    BY <1>3 DEF Enciphering
  <2>3. Left(m, IV, e) = IV
    BY <1>3 DEF Left
  <2> HIDE DEF e, n
  <2>4. ASSUME NEW i \in 1 .. n PROVE Plain(m, Prev(IV, e, i), e[i]) = p[i]
    <3> DEFINE prev == Prev(IV, e, i)
    <3>1. prev \in Word
      <4>1. i \in 1 .. Len(e) + 1
        BY <1>1, <2>1
      <4> QED
        BY <2>1, <4>1, PrevIsWord
    <3> HIDE DEF prev
    <3>2. Xor(p[i], prev) \in Word /\ Xor(Xor(p[i], prev), prev) = p[i]
      BY <1>1, <3>1, XorOfWords
    <3>3. Decipher(DK, Encipher(EK, Xor(p[i], prev))) = Xor(p[i], prev)
      BY <3>2, CipherInverts
    <3>4. Xor(Decipher(DK, e[i]), prev) = p[i]
      BY <2>1, <3>2, <3>3 DEF prev
    <3> QED
      BY <1>3, <3>4 DEF Plain, prev
  <2>5. IsCipherOf(m, IV, p, e)
    BY <2>1, <2>4 DEF IsCipherOf, n
  <2> QED
    BY <2>2, <2>3, <2>5
<1>4. CASE m = "CFB1"
  <2> DEFINE enciphers == TRUE
             r == cfb(EK, IV, p, enciphers)
             w == IF enciphers THEN r.out ELSE p
             e == r.out
  <2>1. Enciphering(cipher, EK, p) = Done(Bytes(e), r.IV)
    BY <1>4 DEF Enciphering, Moved
  <2>2. enciphers \in BOOLEAN /\ w = e
    OBVIOUS
  <2>3. \A i \in 1 .. n : \A x : cfbBlock(EK, p[i], x, enciphers) = cfbBlock(EK, p[i], x, TRUE)
    OBVIOUS
  <2> HIDE DEF enciphers
  <2>4. /\ r.out \in Seq(Word) /\ Len(r.out) = n
        /\ \A i \in 1 .. n : r.out[i] = cfbBlock(EK, p[i], Prev(IV, w, i), enciphers).out
        /\ r.IV = Prev(IV, w, n + 1)
    BY <2>2, CfbResults
  <2> HIDE DEF w
  <2> HIDE DEF r
  <2>5. Left(m, IV, e) = r.IV
    BY <1>4, <2>2, <2>4 DEF Left
  <2> HIDE DEF n
  <2>6. ASSUME NEW i \in 1 .. n PROVE Plain(m, Prev(IV, e, i), e[i]) = p[i]
    <3> DEFINE prev == Prev(IV, e, i)
               b == p[i]
    <3>1. prev \in Word
      <4>1. i \in 1 .. Len(e) + 1
        BY <1>1, <2>4
      <4> QED
        BY <2>4, <4>1, PrevIsWord
    <3>2. e[i] = cfbBlock(EK, b, prev, TRUE).out /\ b \in Word
      BY <1>1, <2>2, <2>3, <2>4
    <3> HIDE DEF prev, b, e
    <3>3. cfbBlock(DK, e[i], prev, FALSE).out = b
      BY <3>1, <3>2, CfbUndone
    <3> QED
      BY <1>4, <3>3 DEF Plain, prev, b
  <2>7. IsCipherOf(m, IV, p, e)
    BY <2>4, <2>6 DEF IsCipherOf, n
  <2> QED
    BY <2>1, <2>5, <2>7
<1> QED
  BY <1>2, <1>3, <1>4 DEF Modes

\* What the enciphered blocks c are deciphered to.
PlainOf(m, IV, c) == [i \in 1 .. Len(c) |-> Plain(m, Prev(IV, c, i), c[i])]

LEMMA PlainOfIsSeq ==
  ASSUME NEW m, NEW IV \in Word, NEW c \in Seq(Word)
  PROVE  PlainOf(m, IV, c) \in Seq(Word) /\ Len(PlainOf(m, IV, c)) = Len(c)
<1> DEFINE n == Len(c)
<1>1. n \in Nat
  OBVIOUS
<1>2. ASSUME NEW i \in 1 .. n PROVE Plain(m, Prev(IV, c, i), c[i]) \in Word
  <2>1. i \in 1 .. Len(c) + 1 /\ c[i] \in Word
    OBVIOUS
  <2>2. Prev(IV, c, i) \in Word
    BY <2>1, PrevIsWord
  <2> QED
    BY <2>1, <2>2, PlainIsWord
<1> HIDE DEF n
<1>3. PlainOf(m, IV, c) \in [1 .. n -> Word]
  BY <1>2 DEF PlainOf, n
<1>4. PlainOf(m, IV, c) \in Seq(Word) /\ Len(PlainOf(m, IV, c)) = n
  BY <1>1, <1>3, RowIsSeq
<1> QED
  BY <1>4 DEF n

LEMMA DecipherResult ==
  ASSUME NEW m \in Modes, NEW IV \in Word, NEW c \in Seq(Word), NEW cipher,
         cipher.mode = m, cipher.IV = IV
  PROVE  Deciphering(cipher, DK, c) =
           Done(Bytes(PlainOf(m, IV, c)), IF m = "ECB" THEN IV ELSE Prev(IV, c, Len(c) + 1))
<1> DEFINE n == Len(c)
<1>1. n \in Nat /\ \A i \in 1 .. n : c[i] \in Word
  OBVIOUS
<1>2. CASE m = "ECB"
  <2>1. PlainOf(m, IV, c) = [i \in 1 .. n |-> Decipher(DK, c[i])]
    BY <1>2 DEF PlainOf, Plain
  <2> QED
    BY <1>2, <2>1 DEF Deciphering
<1>3. CASE m = "CBC"
  <2>1. cbcDecrypt(DK, IV, c) = CbcAfter(IV, c, n)
    BY CbcDeciphers
  <2>2. PlainOf(m, IV, c) = [i \in 1 .. n |-> Xor(Decipher(DK, c[i]), Prev(IV, c, i))]
    BY <1>3 DEF PlainOf, Plain
  <2>3. \A i \in 1 .. n : i <= n
    BY <1>1
  <2>4. cbcDecrypt(DK, IV, c) = [out |-> PlainOf(m, IV, c), IV |-> Prev(IV, c, n + 1)]
    BY <2>1, <2>2, <2>3 DEF CbcAfter
  <2>5. Deciphering(cipher, DK, c) = Moved(cbcDecrypt(DK, IV, c))
    BY <1>3 DEF Deciphering
  <2> QED
    BY <1>3, <2>4, <2>5 DEF Moved
<1>4. CASE m = "CFB1"
  <2> DEFINE enciphers == FALSE
             r == cfb(DK, IV, c, enciphers)
             w == IF enciphers THEN r.out ELSE c
  <2>1. Deciphering(cipher, DK, c) = Done(Bytes(r.out), r.IV)
    BY <1>4 DEF Deciphering, Moved
  <2>2. enciphers \in BOOLEAN /\ w = c
    OBVIOUS
  <2>3. \A i \in 1 .. n : \A x : cfbBlock(DK, c[i], x, enciphers) = cfbBlock(DK, c[i], x, FALSE)
    OBVIOUS
  <2> HIDE DEF enciphers
  <2>4. /\ r.out \in Seq(Word) /\ Len(r.out) = n
        /\ \A i \in 1 .. n : r.out[i] = cfbBlock(DK, c[i], Prev(IV, w, i), enciphers).out
        /\ r.IV = Prev(IV, w, n + 1)
    BY <2>2, CfbResults
  <2> HIDE DEF w, r, n
  <2>5. r.out = [i \in 1 .. n |-> r.out[i]]
    BY <2>4
  <2>6. \A i \in 1 .. n : r.out[i] = Plain(m, Prev(IV, c, i), c[i])
    BY <1>4, <2>2, <2>3, <2>4 DEF Plain
  <2>7. r.out = PlainOf(m, IV, c)
    BY <2>5, <2>6 DEF PlainOf, n
  <2>8. Deciphering(cipher, DK, c) = Done(Bytes(PlainOf(m, IV, c)), Prev(IV, c, n + 1))
    BY <2>1, <2>2, <2>4, <2>7
  <2> QED
    BY <1>4, <2>8 DEF n
<1> QED
  BY <1>2, <1>3, <1>4 DEF Modes

-----------------------------------------------------------------------------
(* Padding                                                                   *)

LEMMA PaddingLength ==
  ASSUME NEW n \in Nat
  PROVE  LET padLen == Size - (n % Size)
         IN padLen \in 1 .. Size /\ n + padLen = Size * ((n \div Size) + 1) /\ n \div Size \in Nat
<1> DEFINE q == n \div Size
           r == n % Size
<1>1. q \in Nat /\ r \in 0 .. Size - 1 /\ n = Size * q + r
  BY Sizes, Places
<1>2. Size \in Nat \ {0}
  BY Sizes
<1> HIDE DEF q, r
<1>3. Size * (q + 1) = Size * q + Size /\ Size * q \in Nat
  BY <1>1, <1>2
<1>4. n + (Size - r) = Size * (q + 1)
  BY <1>1, <1>2, <1>3
<1>5. Size - r \in 1 .. Size
  BY <1>1, <1>2
<1> QED
  BY <1>1, <1>4, <1>5 DEF q, r

LEMMA PaddedBytes ==
  ASSUME NEW input \in Seq(Byte)
  PROVE  LET padLen == Size - (Len(input) % Size)
         IN /\ Padded(input) \in Seq(Byte)
            /\ padLen \in 1 .. Size
            /\ Len(Padded(input)) = Len(input) + padLen
            /\ Len(Padded(input)) = Size * ((Len(input) \div Size) + 1)
            /\ \A i \in 1 .. Len(input) + padLen :
                 Padded(input)[i] = IF i <= Len(input) THEN input[i] ELSE padLen
<1> DEFINE len == Len(input)
           padLen == Size - (len % Size)
           padding == [i \in 1 .. padLen |-> padLen]
<1>1. len \in Nat
  OBVIOUS
<1>2. padLen \in 1 .. Size /\ len + padLen = Size * ((len \div Size) + 1)
  <2> HIDE DEF len
  <2> QED
    BY <1>1, PaddingLength
<1>3. Padded(input) = input \o padding
  BY DEF Padded
<1> HIDE DEF padLen
<1>4. padLen \in Byte /\ padLen \in Nat
  <2>1. TwoTo(Width) \in Nat
    <3>1. Width \in 0 .. 31
      BY Sizes
    <3> QED
      BY <3>1, PowersArePositive
  <2>2. Size <= TwoTo(Width) - 1 /\ Size \in Nat
    BY <2>1, Sizes
  <2> QED
    BY <1>2, <2>1, <2>2, Sizes
<1>5. padding \in Seq(Byte) /\ Len(padding) = padLen
  <2>1. padding \in [1 .. padLen -> Byte]
    BY <1>4
  <2> HIDE DEF padding
  <2> QED
    BY <1>4, <2>1, RowIsSeq
<1>6. \A i \in 1 .. padLen : padding[i] = padLen
  OBVIOUS
<1> HIDE DEF padding
<1>7. /\ input \o padding \in Seq(Byte)
      /\ Len(input \o padding) = len + padLen
      /\ \A i \in 1 .. len + padLen :
           (input \o padding)[i] = IF i <= len THEN input[i] ELSE padding[i - len]
  BY <1>5, ConcatProperties
<1> HIDE DEF len
<1>8. \A i \in 1 .. len + padLen : ~ (i <= len) => i - len \in 1 .. padLen
  BY <1>1, <1>4
<1>9. \A i \in 1 .. len + padLen : (input \o padding)[i] = IF i <= len THEN input[i] ELSE padLen
  BY <1>6, <1>7, <1>8
<1> QED
  BY <1>2, <1>3, <1>7, <1>9 DEF len, padLen

\* Padding that was put on is found right and comes off.
LEMMA PaddingComesOff ==
  ASSUME NEW input \in Seq(Byte), NEW m
  PROVE  LET plain == Padded(input)
         IN PadError(m, plain) = "ok" /\ SubSeq(plain, 1, Len(plain) - Last(plain)) = input
<1> DEFINE len == Len(input)
           padLen == Size - (len % Size)
           plain == Padded(input)
<1>1. /\ plain \in Seq(Byte) /\ padLen \in 1 .. Size /\ Len(plain) = len + padLen
      /\ \A i \in 1 .. len + padLen : plain[i] = IF i <= len THEN input[i] ELSE padLen
  BY PaddedBytes
<1>2. len \in Nat /\ Size \in Nat
  BY Sizes
<1> HIDE DEF len, padLen, plain
<1>3. Last(plain) = padLen
  <2>1. len + padLen \in 1 .. len + padLen /\ ~ (len + padLen <= len)
    BY <1>1, <1>2
  <2> QED
    BY <1>1, <2>1 DEF Last
<1>4. \A i \in Len(plain) + 1 - padLen .. Len(plain) : plain[i] = padLen
  <2>1. \A i \in Len(plain) + 1 - padLen .. Len(plain) : i \in 1 .. len + padLen /\ ~ (i <= len)
    BY <1>1, <1>2
  <2> QED
    BY <1>1, <2>1
<1>5. PadError(m, plain) = "ok"
  <2>1. ~ (padLen > Size) /\ padLen # 0
    BY <1>1, <1>2
  <2> QED
    BY <1>3, <1>4, <2>1 DEF PadError
<1>6. SubSeq(plain, 1, Len(plain) - Last(plain)) = input
  <2>1. Len(plain) - Last(plain) = len
    BY <1>1, <1>2, <1>3
  <2>2. \A i \in 1 .. len : plain[i] = input[i] /\ input[i] \in Byte
    <3>1. \A i \in 1 .. len : i \in 1 .. len + padLen /\ i <= len
      BY <1>1, <1>2
    <3>2. \A i \in 1 .. len : input[i] \in Byte
      BY DEF len
    <3> QED
      BY <1>1, <3>1, <3>2
  <2>3. /\ SubSeq(plain, 1, len) \in Seq(Byte)
        /\ Len(SubSeq(plain, 1, len)) = IF 1 <= len THEN len - 1 + 1 ELSE 0
        /\ \A i \in 1 .. len - 1 + 1 : SubSeq(plain, 1, len)[i] = plain[1 + i - 1]
    BY <1>2, <2>2, SubSeqProperties
  <2>4. Len(SubSeq(plain, 1, len)) = len
    BY <1>2, <2>3
  <2>5. \A i \in 1 .. len : SubSeq(plain, 1, len)[i] = plain[i]
    <3>1. \A i \in 1 .. len : i \in 1 .. len - 1 + 1 /\ 1 + i - 1 = i
      BY <1>2
    <3> QED
      BY <2>3, <3>1
  <2>6. SubSeq(plain, 1, len) = input
    BY <2>2, <2>3, <2>4, <2>5, SeqEqual DEF len
  <2> QED
    BY <2>1, <2>6
<1> QED
  BY <1>5, <1>6 DEF plain

\* Padding that comes off can be put on again: it was padding.
LEMMA PaddingPutBack ==
  ASSUME NEW plain \in Seq(Byte), NEW k \in Nat \ {0}, Len(plain) = Size * k,
         NEW m, PadError(m, plain) = "ok", Last(plain) # 0
  PROVE  LET out == SubSeq(plain, 1, Len(plain) - Last(plain))
         IN out \in Seq(Byte) /\ Padded(out) = plain
<1> DEFINE len == Len(plain)
           padLen == Last(plain)
           left == len - padLen
           out == SubSeq(plain, 1, left)
<1>1. Size \in Nat \ {0} /\ len \in Nat /\ len = Size * k
  BY Sizes
<1>2. len >= Size
  <2>1. k - 1 \in Nat /\ Size * k = Size * (k - 1) + Size
    BY <1>1
  <2>2. Size * (k - 1) \in Nat
    BY <1>1, <2>1, ProductIsNat
  <2> HIDE DEF len
  <2> QED
    BY <1>1, <2>1, <2>2
<1>3. padLen \in Byte
  <2>1. len \in 1 .. Len(plain)
    BY <1>1, <1>2
  <2> QED
    BY <2>1, ElementOfSeq DEF Last
<1>4. padLen <= Size /\ \A i \in len + 1 - padLen .. len : plain[i] = padLen
  <2>1. padLen \in Int /\ Size \in Int
    BY <1>1, <1>3, Sizes
  <2>2. ~ (padLen > Size) /\ \A i \in len + 1 - padLen .. len : plain[i] = padLen
    BY DEF PadError
  <2> HIDE DEF padLen, len
  <2> QED
    BY <2>1, <2>2
<1>5. padLen \in 1 .. Size
  <2>1. padLen \in Nat /\ padLen # 0
    BY <1>3, Sizes
  <2> HIDE DEF padLen
  <2> QED
    BY <1>1, <1>4, <2>1
<1>6. \A i \in 1 .. len : plain[i] \in Byte
  BY ElementOfSeq
<1> HIDE DEF padLen, len
<1>7. left \in Nat
  BY <1>1, <1>2, <1>5
<1> HIDE DEF left
<1>8. left <= len /\ len - left = padLen /\ left + padLen = len
  BY <1>1, <1>5 DEF left
<1>9. out \in Seq(Byte) /\ Len(out) = left /\ \A i \in 1 .. left : out[i] = plain[i]
  <2>1. \A i \in 1 .. left : plain[i] \in Byte
    BY <1>1, <1>6, <1>7, <1>8
  <2>2. /\ SubSeq(plain, 1, left) \in Seq(Byte)
        /\ Len(SubSeq(plain, 1, left)) = IF 1 <= left THEN left - 1 + 1 ELSE 0
        /\ \A i \in 1 .. left - 1 + 1 : SubSeq(plain, 1, left)[i] = plain[1 + i - 1]
    BY <1>7, <2>1, SubSeqProperties
  <2>3. \A i \in 1 .. left : i \in 1 .. left - 1 + 1 /\ 1 + i - 1 = i
    BY <1>7
  <2>4. Len(SubSeq(plain, 1, left)) = left
    BY <1>7, <2>2
  <2> QED
    BY <2>2, <2>3, <2>4
<1> HIDE DEF out
\* What is left and the padding fill blocks, hence the padding has this length.
<1>10. Size - (left % Size) = padLen
  <2> DEFINE a == k - 1
             i == Size - padLen
  <2>1. a \in Nat /\ i \in 0 .. Size - 1 /\ Size - i = padLen
    BY <1>1, <1>5
  <2>2. left = Size * a + i
    <3>1. Size * k = Size * a + Size
      BY <1>1
    <3>2. Size * a \in Nat
      BY <1>1, <2>1, ProductIsNat
    <3> HIDE DEF a
    <3> QED
      BY <1>1, <1>5, <1>8, <3>1, <3>2, <1>7
  <2> HIDE DEF a, i
  <2>3. (Size * a + i) % Size = i
    BY <1>1, <2>1, Places
  <2> QED
    BY <2>1, <2>2, <2>3
<1>11. /\ Padded(out) \in Seq(Byte) /\ Len(Padded(out)) = left + padLen
       /\ \A i \in 1 .. left + padLen : Padded(out)[i] = IF i <= left THEN out[i] ELSE padLen
  BY <1>9, <1>10, PaddedBytes
<1>12. ASSUME NEW i \in 1 .. len PROVE Padded(out)[i] = plain[i]
  <2>1. CASE i <= left
    <3>1. i \in 1 .. left
      BY <1>1, <1>7, <2>1
    <3> QED
      BY <1>8, <1>9, <1>11, <2>1, <3>1
  <2>2. CASE ~ (i <= left)
    <3>1. i \in len + 1 - padLen .. len
      BY <1>1, <1>5, <1>7, <1>8, <2>2
    <3> QED
      BY <1>4, <1>8, <1>11, <2>2, <3>1
  <2> QED
    BY <2>1, <2>2
<1>13. Padded(out) = plain
  BY <1>8, <1>11, <1>12, SeqEqual DEF len
<1> QED
  BY <1>9, <1>13 DEF out, left, len, padLen

-----------------------------------------------------------------------------
(* The calls of the programs                                                 *)

Uses ==
  /\ mode \in Modes /\ reused \in BOOLEAN /\ padded \in BOOLEAN
  /\ padded => mode # "CFB1"
  /\ padded \/ reused

\* What is enciphered of a message.
Input(t) == IF padded THEN Padded(t) ELSE t

CanBeSent(t) == t \in Seq(Byte) /\ t # <<>> /\ (padded \/ Len(t) % Size = 0)

LEMMA InputBlocks ==
  ASSUME NEW t, CanBeSent(t)
  PROVE  /\ Input(t) \in Seq(Byte) /\ Bytes(Blocks(Input(t))) = Input(t)
         /\ Blocks(Input(t)) \in Seq(Word) /\ Len(Blocks(Input(t))) \in Nat \ {0}
         /\ Len(Input(t)) = Size * Len(Blocks(Input(t)))
         /\ padded => Len(Blocks(Input(t))) = (Len(t) \div Size) + 1
<1> DEFINE k == IF padded THEN (Len(t) \div Size) + 1 ELSE Len(t) \div Size
<1>1. t \in Seq(Byte) /\ Len(t) \in Nat \ {0} /\ Size \in Nat \ {0}
  BY Sizes DEF CanBeSent
<1>2. k \in Nat \ {0} /\ Input(t) \in Seq(Byte) /\ Len(Input(t)) = Size * k
  <2> DEFINE len == Len(t)
             q == len \div Size
  <2>1. len \in Nat \ {0}
    BY <1>1
  <2> HIDE DEF len
  <2>2. q \in Nat /\ len = Size * q + (len % Size) /\ Size * q \in Nat
    <3>1. q \in Nat /\ len = Size * q + (len % Size)
      BY <1>1, <2>1, Places
    <3> HIDE DEF q
    <3> QED
      BY <1>1, <3>1, ProductIsNat
  <2> HIDE DEF q
  <2>3. CASE padded
    <3>1. Padded(t) \in Seq(Byte) /\ Len(Padded(t)) = Size * (q + 1)
      BY <1>1, PaddedBytes DEF q, len
    <3>2. q + 1 \in Nat \ {0} /\ k = q + 1
      BY <2>2, <2>3 DEF q, len
    <3> HIDE DEF k
    <3> QED
      BY <2>3, <3>1, <3>2 DEF Input
  <2>4. CASE ~ padded
    <3>1. len % Size = 0
      BY <2>4 DEF CanBeSent, len
    <3>2. len = Size * q
      BY <2>2, <3>1
    <3>3. q # 0
      BY <1>1, <2>1, <3>2
    <3>4. k = q
      BY <2>4 DEF q, len
    <3> HIDE DEF k
    <3> QED
      BY <1>1, <2>2, <2>4, <3>2, <3>3, <3>4 DEF Input, len
  <2> QED
    BY <2>3, <2>4
<1> HIDE DEF k
<1>3. Len(Input(t)) % Size = 0 /\ Len(Input(t)) \div Size = k
  <2>1. (Size * k + 0) % Size = 0 /\ (Size * k + 0) \div Size = k
    <3>1. 0 \in 0 .. Size - 1 /\ k \in Nat
      BY <1>1, <1>2
    <3> QED
      BY <1>1, <3>1, Places
  <2>2. Size * k \in Nat
    BY <1>1, <1>2, ProductIsNat
  <2> QED
    BY <1>2, <2>1, <2>2
<1>4. Blocks(Input(t)) \in Seq(Word) /\ Len(Blocks(Input(t))) = k
  BY <1>2, <1>3, BlocksOf
<1>5. Bytes(Blocks(Input(t))) = Input(t)
  BY <1>2, <1>3, BytesOfBlocks
<1>6. padded => k = (Len(t) \div Size) + 1
  BY DEF k
<1> QED
  BY <1>2, <1>4, <1>5, <1>6

LEMMA BytesAreWhole ==
  ASSUME NEW b \in Seq(Word), Len(b) # 0
  PROVE  /\ Bytes(b) \in Seq(Byte) /\ Len(Bytes(b)) = Size * Len(b) /\ Bytes(b) # <<>>
         /\ Len(Bytes(b)) % Size = 0 /\ Len(Bytes(b)) \in Nat
<1> DEFINE n == Len(b)
<1>1. Bytes(b) \in Seq(Byte) /\ Len(Bytes(b)) = Size * n
  BY BytesOf
<1>2. n \in Nat \ {0} /\ Size \in Nat \ {0}
  BY Sizes
<1> HIDE DEF n
<1>3. Size * n \in Nat \ {0}
  BY <1>2
<1>4. (Size * n + 0) % Size = 0
  <2>1. 0 \in 0 .. Size - 1 /\ n \in Nat
    BY <1>2
  <2> QED
    BY <1>2, <2>1, Places
<1>5. (Size * n) % Size = 0
  BY <1>3, <1>4
<1>6. Bytes(b) # <<>>
  BY <1>1, <1>3
<1> QED
  BY <1>1, <1>3, <1>5, <1>6 DEF n

LEMMA KeysHaveDirections ==
  /\ EK.direction = "ENCRYPT" /\ EK = memToKey("ENCRYPT", 128, <<1>>)
  /\ DK.direction = "DECRYPT" /\ DK = memToKey("DECRYPT", 128, <<1>>)
  BY DEF EK, DK, Key, memToKey

\* An instance without an IV.
LEMMA NewInstance ==
  ASSUME NEW m \in Modes
  PROVE  cipherInit(m, <<>>).ret = "ok" /\ cipherInit(m, <<>>).mode = m /\ cipherInit(m, <<>>).IV = {}
  BY DEF cipherInit, Modes

LEMMA ArgumentsAreRight ==
  ASSUME NEW msg, msg # <<>>, NEW unit, Len(msg) % unit = 0
  PROVE  ArgError(<<1>>, msg, unit, 128) = "ok"
<1>1. <<1>> # <<>>
  OBVIOUS
<1> DEFINE pass == <<1>>
<1>2. pass # <<>>
  BY <1>1
<1> HIDE DEF pass
<1>3. ArgError(pass, msg, unit, 128) = "ok"
  BY <1>2 DEF ArgError
<1> QED
  BY <1>3 DEF pass

\* The call that enciphers a message.
LEMMA EncipheredIs ==
  ASSUME Uses, enc \in Word, NEW t, CanBeSent(t)
  PROVE  LET IV == IF reused THEN enc ELSE {}
         IN \E e : /\ IsCipherOf(mode, IV, Blocks(Input(t)), e)
                   /\ Enciphered(t).out = Bytes(e)
                   /\ reused => Enciphered(t).IV = Left(mode, IV, e)
<1> DEFINE IV == IF reused THEN enc ELSE {}
           p == Blocks(Input(t))
<1>1. p \in Seq(Word) /\ Len(p) \in Nat \ {0} /\ t # <<>> /\ t \in Seq(Byte) /\ Len(t) \in Nat
  BY InputBlocks DEF CanBeSent
<1>2. IV \in Word /\ mode \in Modes
  BY Sizes DEF Uses
<1>3. CASE reused
  <2> DEFINE cipher == [mode |-> mode, IV |-> enc]
  <2>1. cipher.mode = mode /\ cipher.IV = IV
    BY <1>3
  <2>2. Enciphered(t) = Enciphering(cipher, EK, p)
    <3>1. CASE padded
      <4>1. mode \in {"ECB", "CBC"} /\ p = Blocks(Padded(t))
        BY <3>1 DEF Uses, Modes, Input
      <4>2. EK = Key("ENCRYPT") /\ EK.direction # "DECRYPT"
        BY KeysHaveDirections DEF EK
      <4>3. Enciphered(t) = padEncrypt(cipher, EK, t)
        BY <1>3, <3>1, <4>2 DEF Enciphered
      <4> HIDE DEF p
      <4>4. cipher.mode \in {"ECB", "CBC"}
        BY <2>1, <4>1
      <4> HIDE DEF cipher
      <4>5. padEncrypt(cipher, EK, t) = Enciphering(cipher, EK, Blocks(Padded(t)))
        BY <1>1, <4>2, <4>4 DEF padEncrypt
      <4> QED
        BY <4>1, <4>3, <4>5
    <3>2. CASE ~ padded
      <4>1. EK = Key("ENCRYPT") /\ EK.direction # "DECRYPT" /\ p = Blocks(t)
        BY <3>2, KeysHaveDirections DEF EK, Input
      <4>2. Enciphered(t) = blockEncrypt(cipher, EK, t)
        BY <1>3, <3>2, <4>1 DEF Enciphered
      <4> HIDE DEF p, cipher
      <4> QED
        BY <4>1, <4>2 DEF blockEncrypt
    <3> QED
      BY <3>1, <3>2
  <2> HIDE DEF cipher, p, IV
  <2>3. PICK e : IsCipherOf(mode, IV, p, e) /\ Enciphering(cipher, EK, p) = Done(Bytes(e), Left(mode, IV, e))
    BY <1>1, <1>2, <2>1, EncipherResult
  <2>4. Enciphered(t).out = Bytes(e) /\ Enciphered(t).IV = Left(mode, IV, e)
    BY <2>2, <2>3 DEF Done
  <2> QED
    BY <2>3, <2>4 DEF p, IV
<1>4. CASE ~ reused
  <2> DEFINE cipher == cipherInit(mode, <<>>)
  <2>1. padded /\ mode \in {"ECB", "CBC"} /\ p = Blocks(Padded(t)) /\ IV = {}
    BY <1>4 DEF Uses, Modes, Input
  <2>2. cipher.ret = "ok" /\ cipher.mode = mode /\ cipher.IV = IV
    BY <1>2, <2>1, NewInstance
  <2>3. EK = memToKey("ENCRYPT", 128, <<1>>) /\ EK.direction = "ENCRYPT"
    BY KeysHaveDirections
  <2>4. ArgError(<<1>>, t, 1, 128) = "ok"
    <3>1. Len(t) % 1 = 0
      BY <1>1
    <3> QED
      BY <1>1, <3>1, ArgumentsAreRight
  <2>5. Enciphered(t) = Thrown(aes_generic(mode, EK, t), "encryption failure")
    BY <1>4, <2>3, <2>4 DEF Enciphered, naes_encrypt
  <2> HIDE DEF IV, p, cipher
  <2>6. aes_generic(mode, EK, t) = padEncrypt(cipher, EK, t)
    BY <2>2, <2>3 DEF aes_generic, cipher
  <2>7. padEncrypt(cipher, EK, t) = Enciphering(cipher, EK, p)
    BY <1>1, <2>1, <2>2, <2>3 DEF padEncrypt
  <2>8. PICK e : IsCipherOf(mode, IV, p, e) /\ Enciphering(cipher, EK, p) = Done(Bytes(e), Left(mode, IV, e))
    BY <1>1, <1>2, <2>2, EncipherResult
  <2>9. Bytes(e) # <<>>
    BY <1>1, <2>8, BytesAreWhole DEF IsCipherOf
  <2>10. Enciphered(t).out = Bytes(e)
    BY <2>5, <2>6, <2>7, <2>8, <2>9 DEF Thrown, Done
  <2> QED
    BY <1>4, <2>8, <2>10 DEF p, IV
<1> QED
  BY <1>3, <1>4

LEMMA ErrorIsNotOk ==
  Fails("Decryption failure", {}).ret # "ok"
  BY Zenon DEF Fails

\* What the library answers when blocks are deciphered to plain.
Answers(answer, plain) ==
  LET out == SubSeq(plain, 1, Len(plain) - Last(plain))
  IN IF ~ padded THEN answer.ret = "ok" /\ answer.out = plain
     ELSE IF PadError(mode, plain) = "ok" /\ (reused \/ out # <<>>)
       THEN answer.ret = "ok" /\ answer.out = out
     ELSE answer.ret # "ok"

\* The exception of RoundTrip.
DriftsApart == reused /\ padded /\ mode = "CBC"

\* The call that deciphers.
LEMMA DecipheredIs ==
  ASSUME Uses, ~ DriftsApart, dec \in Word, NEW b \in Seq(Word), Len(b) # 0
  PROVE  LET IV == IF reused THEN dec ELSE {}
             answer == Deciphered(Bytes(b))
         IN /\ Answers(answer, Bytes(PlainOf(mode, IV, b)))
            /\ reused => answer.IV = IF mode = "ECB" THEN IV ELSE Prev(IV, b, Len(b) + 1)
<1> DEFINE IV == IF reused THEN dec ELSE {}
           c == Bytes(b)
           plain == Bytes(PlainOf(mode, IV, b))
           next == IF mode = "ECB" THEN IV ELSE Prev(IV, b, Len(b) + 1)
<1>1. c # <<>> /\ Len(c) % Size = 0 /\ Blocks(c) = b
  BY BytesAreWhole, BlocksOfBytes
<1>2. IV \in Word /\ mode \in Modes
  BY Sizes DEF Uses
<1>3. DK.direction = "DECRYPT" /\ DK = Key("DECRYPT") /\ DK = memToKey("DECRYPT", 128, <<1>>)
  BY KeysHaveDirections DEF DK
<1> HIDE DEF IV
<1>4. ASSUME NEW cipher, cipher.mode = mode, cipher.IV = IV
      PROVE  Deciphering(cipher, DK, b) = Done(plain, next)
  BY <1>2, <1>4, DecipherResult
<1> HIDE DEF c, plain, next
<1>5. CASE ~ padded
  <2> DEFINE cipher == [mode |-> mode, IV |-> dec]
  <2>1. reused /\ cipher.mode = mode /\ cipher.IV = IV
    BY <1>5 DEF Uses, IV
  <2>2. Deciphered(c) = blockDecrypt(cipher, DK, c)
    BY <1>3, <1>5, <2>1 DEF Deciphered
  <2> HIDE DEF cipher
  <2>3. Deciphered(c) = Done(plain, next)
    BY <1>1, <1>3, <1>4, <2>1, <2>2 DEF blockDecrypt
  <2>4. Answers(Deciphered(c), plain) /\ Deciphered(c).IV = next
    BY <1>5, <2>3 DEF Answers, Done
  <2> QED
    BY <2>4 DEF c, plain, next, IV
<1>6. ASSUME padded, NEW cipher, cipher.mode = mode, cipher.IV = IV
      PROVE  padDecrypt(cipher, DK, c) =
               Unpadded(mode, plain, Deciphering(cipher, DK, Front(b)).IV)
  <2>1. Deciphering(cipher, DK, b).out = plain
    BY <1>4, <1>6 DEF Done
  <2>2. cipher.mode \in {"ECB", "CBC"}
    BY <1>6 DEF Uses, Modes
  <2>3. ~ (DK.direction = "ENCRYPT") /\ ~ (DK.direction # "ENCRYPT" /\ c = <<>>)
        /\ ~ (DK.direction # "ENCRYPT" /\ Len(c) % Size # 0)
    BY <1>1, <1>3
  <2>4. padDecrypt(cipher, DK, c) =
          IF cipher.mode \notin {"ECB", "CBC"} THEN Fails("BAD_CIPHER_STATE", cipher.IV)
          ELSE Unpadded(cipher.mode, Deciphering(cipher, DK, Blocks(c)).out,
                        Deciphering(cipher, DK, Front(Blocks(c))).IV)
    BY <2>3 DEF padDecrypt
  <2> QED
    BY <1>1, <1>6, <2>1, <2>2, <2>4
<1>7. ASSUME padded, NEW left
      PROVE  LET answer == Unpadded(mode, plain, left)
             IN /\ answer.IV = left
                /\ IF PadError(mode, plain) = "ok"
                   THEN answer.ret = "ok" /\ answer.out = SubSeq(plain, 1, Len(plain) - Last(plain))
                   ELSE answer.ret # "ok" /\ answer.out = <<>>
  BY DEF Unpadded, Done, Fails
<1>8. CASE padded /\ reused
  <2> DEFINE cipher == [mode |-> mode, IV |-> dec]
             left == Deciphering(cipher, DK, Front(b)).IV
  <2>1. cipher.mode = mode /\ cipher.IV = IV /\ mode = "ECB"
    BY <1>8 DEF Uses, DriftsApart, Modes, IV
  <2>2. Deciphered(c) = padDecrypt(cipher, DK, c)
    BY <1>3, <1>8 DEF Deciphered
  <2>3. left = IV
    BY <2>1 DEF Deciphering, Done
  <2> HIDE DEF cipher, left
  <2>4. Deciphered(c) = Unpadded(mode, plain, left)
    BY <1>6, <1>8, <2>1, <2>2 DEF left
  <2>5. Answers(Deciphered(c), plain)
    BY <1>7, <1>8, <2>4 DEF Answers
  <2>6. Deciphered(c).IV = next
    BY <1>7, <1>8, <2>1, <2>3, <2>4 DEF next
  <2> QED
    BY <2>5, <2>6 DEF c, plain, next, IV
<1>9. CASE padded /\ ~ reused
  <2> DEFINE cipher == cipherInit(mode, <<>>)
             left == Deciphering(cipher, DK, Front(b)).IV
             answer == Unpadded(mode, plain, left)
  <2>1. cipher.ret = "ok" /\ cipher.mode = mode /\ cipher.IV = IV
    BY <1>2, <1>9, NewInstance DEF IV
  <2>2. ArgError(<<1>>, c, Size, 128) = "ok"
    BY <1>1, ArgumentsAreRight
  <2>3. Deciphered(c) = Thrown(aes_generic(mode, DK, c), "Decryption failure")
    <3>1. ~ reused /\ memToKey("DECRYPT", 128, <<1>>) = DK
      BY <1>3, <1>9
    <3> QED
      BY <2>2, <3>1, Zenon DEF Deciphered, naes_decrypt
  <2> HIDE DEF cipher, left
  <2>4. aes_generic(mode, DK, c) = padDecrypt(cipher, DK, c)
    BY <1>3, <2>1 DEF aes_generic, cipher
  <2>5. aes_generic(mode, DK, c) = answer
    BY <1>6, <1>9, <2>1, <2>4 DEF left
  <2> DEFINE out == SubSeq(plain, 1, Len(plain) - Last(plain))
  <2>6. IF PadError(mode, plain) = "ok" THEN answer.ret = "ok" /\ answer.out = out
        ELSE answer.ret # "ok" /\ answer.out = <<>>
    BY <1>7, <1>9
  <2> HIDE DEF answer, out
  <2>7. IF PadError(mode, plain) = "ok" /\ out # <<>>
        THEN Deciphered(c).ret = "ok" /\ Deciphered(c).out = out
        ELSE Deciphered(c).ret # "ok"
    <3>1. CASE answer.out = <<>>
      <4>1. Deciphered(c) = Fails("Decryption failure", {})
        BY <2>3, <2>5, <3>1, Zenon DEF Thrown
      <4>2. Deciphered(c).ret # "ok"
        BY <4>1, ErrorIsNotOk, Zenon
      <4> QED
        BY <2>6, <3>1, <4>2
    <3>2. CASE answer.out # <<>>
      <4>1. Deciphered(c) = answer
        BY <2>3, <2>5, <3>2, Zenon DEF Thrown
      <4> QED
        BY <2>6, <3>2, <4>1
    <3> QED
      BY <3>1, <3>2
  <2>8. Answers(Deciphered(c), plain)
    BY <1>9, <2>7 DEF Answers, out
  <2> QED
    BY <1>9, <2>8 DEF c, plain, IV
<1> QED
  BY <1>5, <1>8, <1>9 DEF Uses

-----------------------------------------------------------------------------
(* A damaged block                                                           *)

LEMMA DamagedBytes ==
  ASSUME NEW b \in Seq(Word), NEW i \in 1 .. 3, NEW block \in [1 .. Size -> Byte],
         Size * (i - 1) + Size <= Len(Bytes(b))
  PROVE  LET place == Size * (i - 1)
             old == Bytes(b)
         IN /\ i \in 1 .. Len(b) /\ Block(block) \in Word
            /\ SubSeq(old, 1, place) \o block \o SubSeq(old, place + Size + 1, Len(old))
                 = Bytes([b EXCEPT ![i] = Block(block)])
<1> DEFINE n == Len(b)
           place == Size * (i - 1)
           old == Bytes(b)
           len == Len(old)
           w == Block(block)
           hit == [b EXCEPT ![i] = w]
           front == SubSeq(old, 1, place)
           back == SubSeq(old, place + Size + 1, len)
           new == front \o block \o back
<1>1. Size \in Nat \ {0} /\ n \in Nat /\ i \in Nat \ {0}
  BY Sizes
<1>2. /\ old \in Seq(Byte) /\ len = Size * n
      /\ \A k \in 1 .. n : \A r \in 1 .. Size : old[Size * (k - 1) + r] = Cut(Width, Size, b[k])[r]
  BY BytesOf
<1>3. place \in Nat /\ place + Size = Size * i /\ len \in Nat /\ place + Size <= len
  <2>1. Size * i = Size * (i - 1) + Size
    BY <1>1
  <2>2. i - 1 \in Nat
    BY <1>1
  <2>3. Size * (i - 1) \in Nat /\ Size * n \in Nat
    BY <1>1, <2>2, ProductIsNat
  <2> QED
    BY <1>2, <2>1, <2>3
<1>4. i \in 1 .. n
  <2>1. i - 1 \in Nat /\ 0 \in 0 .. Size - 1
    BY <1>1
  <2>2. Size * (i - 1) + 0 < Size * n
    <3> HIDE DEF n, len
    <3> QED
      BY <1>1, <1>2, <1>3
  <2>3. i - 1 < n
    <3> HIDE DEF n
    <3> QED
      BY <1>1, <2>1, <2>2, RowsBelow
  <2> QED
    BY <1>1, <2>3
<1>5. block \in ByteBlock /\ block \in Seq(Byte) /\ Len(block) = Size
  <2>1. block \in Seq(Byte) /\ Len(block) = Size
    BY <1>1, RowIsSeq
  <2> QED
    BY <2>1 DEF ByteBlock
<1>6. w \in Word /\ Cut(Width, Size, w) = block
  BY <1>5, BlockIsWord
<1> HIDE DEF w
<1>7. hit \in Seq(Word) /\ Len(hit) = n /\ hit[i] = w /\ \A k \in 1 .. n : k # i => hit[k] = b[k]
  BY <1>4, <1>6
<1> HIDE DEF hit
<1>8. /\ Bytes(hit) \in Seq(Byte) /\ Len(Bytes(hit)) = Size * n
      /\ \A k \in 1 .. n : \A r \in 1 .. Size : Bytes(hit)[Size * (k - 1) + r] = Cut(Width, Size, hit[k])[r]
  BY <1>7, BytesOf
<1> HIDE DEF n
<1>9. \A x \in 1 .. len : old[x] \in Byte
  BY <1>2, ElementOfSeq
<1> HIDE DEF old, len
<1>10. front \in Seq(Byte) /\ Len(front) = place /\ \A x \in 1 .. place : front[x] = old[x]
  <2> HIDE DEF place
  <2>1. \A x \in 1 .. place : old[x] \in Byte
    BY <1>1, <1>3, <1>9
  <2>2. /\ SubSeq(old, 1, place) \in Seq(Byte)
        /\ Len(SubSeq(old, 1, place)) = IF 1 <= place THEN place - 1 + 1 ELSE 0
        /\ \A x \in 1 .. place - 1 + 1 : SubSeq(old, 1, place)[x] = old[1 + x - 1]
    BY <1>3, <2>1, SubSeqProperties
  <2>3. \A x \in 1 .. place : x \in 1 .. place - 1 + 1 /\ 1 + x - 1 = x
    BY <1>3
  <2>4. Len(SubSeq(old, 1, place)) = place
    BY <1>3, <2>2
  <2> QED
    BY <2>2, <2>3, <2>4
<1>11. /\ back \in Seq(Byte) /\ Len(back) = len - (place + Size)
       /\ \A x \in 1 .. len - (place + Size) : back[x] = old[place + Size + x]
  <2> DEFINE m == place + Size
  <2>1. m \in Nat /\ m <= len
    BY <1>1, <1>3
  <2> HIDE DEF m, place
  <2>2. \A x \in m + 1 .. len : old[x] \in Byte
    BY <1>9, <2>1
  <2>3. /\ SubSeq(old, m + 1, len) \in Seq(Byte)
        /\ Len(SubSeq(old, m + 1, len)) = IF m + 1 <= len THEN len - (m + 1) + 1 ELSE 0
        /\ \A x \in 1 .. len - (m + 1) + 1 : SubSeq(old, m + 1, len)[x] = old[(m + 1) + x - 1]
    BY <1>3, <2>1, <2>2, SubSeqProperties
  <2>4. \A x \in 1 .. len - m : x \in 1 .. len - (m + 1) + 1 /\ (m + 1) + x - 1 = m + x
    BY <1>3, <2>1
  <2>5. Len(SubSeq(old, m + 1, len)) = len - m
    BY <1>3, <2>1, <2>3
  <2>6. \A x \in 1 .. len - m : SubSeq(old, m + 1, len)[x] = old[m + x]
    BY <2>3, <2>4
  <2> QED
    BY <2>3, <2>5, <2>6 DEF m
<1> HIDE DEF front, back
<1>12. /\ new \in Seq(Byte) /\ Len(new) = len
       /\ \A x \in 1 .. len : new[x] = IF x <= place THEN old[x]
                                       ELSE IF x <= place + Size THEN block[x - place] ELSE old[x]
  <2> HIDE DEF place
  <2> DEFINE start == front \o block
  <2>1. /\ start \in Seq(Byte) /\ Len(start) = place + Size
        /\ \A x \in 1 .. place + Size : start[x] = IF x <= place THEN front[x] ELSE block[x - place]
    BY <1>5, <1>10, ConcatProperties
  <2> HIDE DEF start
  <2>2. /\ start \o back \in Seq(Byte) /\ Len(start \o back) = (place + Size) + (len - (place + Size))
        /\ \A x \in 1 .. (place + Size) + (len - (place + Size)) :
             (start \o back)[x] = IF x <= place + Size THEN start[x] ELSE back[x - (place + Size)]
    <3> DEFINE m == place + Size
               rest == len - m
    <3>1. Len(start) = m /\ Len(back) = rest /\ start \in Seq(Byte) /\ back \in Seq(Byte)
      BY <1>11, <2>1
    <3> HIDE DEF m, rest
    <3>2. /\ start \o back \in Seq(Byte) /\ Len(start \o back) = m + rest
          /\ \A x \in 1 .. m + rest : (start \o back)[x] = IF x <= m THEN start[x] ELSE back[x - m]
      BY <3>1, ConcatProperties
    <3> QED
      BY <3>2 DEF m, rest
  <2>3. (place + Size) + (len - (place + Size)) = len
    BY <1>1, <1>3
  <2>4. ASSUME NEW x \in 1 .. len
        PROVE  (start \o back)[x] = IF x <= place THEN old[x]
                                    ELSE IF x <= place + Size THEN block[x - place] ELSE old[x]
    <3>1. CASE x <= place
      <4>1. x \in 1 .. place /\ x \in 1 .. place + Size /\ x <= place + Size
        BY <1>1, <1>3, <3>1
      <4> QED
        BY <1>10, <2>1, <2>2, <2>3, <3>1, <4>1
    <3>2. CASE ~ (x <= place) /\ x <= place + Size
      <4>1. x \in 1 .. place + Size
        BY <1>1, <1>3, <3>2
      <4> QED
        BY <2>1, <2>2, <2>3, <3>2, <4>1
    <3>3. CASE ~ (x <= place + Size)
      <4>1. /\ x - (place + Size) \in 1 .. len - (place + Size) /\ place + Size + (x - (place + Size)) = x
            /\ ~ (x <= place)
        BY <1>1, <1>3, <3>3
      <4> QED
        BY <1>11, <2>2, <2>3, <3>3, <4>1
    <3> QED
      BY <3>1, <3>2, <3>3
  <2> QED
    BY <2>2, <2>3, <2>4 DEF start
<1> HIDE DEF new
<1>13. ASSUME NEW x \in 1 .. len PROVE new[x] = Bytes(hit)[x]
  <2> DEFINE y == x - 1
             k == (y \div Size) + 1
             r == (y % Size) + 1
  <2>1. y \in 0 .. Size * n - 1
    BY <1>2, <1>3
  <2>2. y \div Size \in 0 .. n - 1 /\ y % Size \in 0 .. Size - 1 /\ y = Size * (y \div Size) + (y % Size)
    <3> HIDE DEF y
    <3> QED
      BY <1>1, <2>1, RowOfPlace DEF n
  <2>3. k \in 1 .. n /\ r \in 1 .. Size /\ k - 1 = y \div Size
    <3> DEFINE a == y \div Size
               s == y % Size
    <3>1. a \in 0 .. n - 1 /\ s \in 0 .. Size - 1 /\ n \in Nat /\ Size \in Nat
      BY <1>1, <2>2 DEF n
    <3> HIDE DEF a, s
    <3>2. a + 1 \in 1 .. n /\ s + 1 \in 1 .. Size /\ (a + 1) - 1 = a
      BY <3>1
    <3> QED
      BY <3>2 DEF a, s
  <2>4. x = Size * (k - 1) + r
    <3> DEFINE p == Size * (y \div Size)
    <3>1. y = p + (y % Size) /\ p \in Nat /\ y \in Nat /\ y % Size \in Nat
      <4>1. y \in Nat
        BY <1>3
      <4> HIDE DEF y
      <4>2. y \div Size \in Nat /\ y % Size \in 0 .. Size - 1
        BY <1>1, <4>1, Places
      <4>3. y % Size \in Nat
        BY <1>1, <4>2
      <4> QED
        BY <1>1, <2>2, <4>1, <4>2, <4>3, ProductIsNat
    <3>2. x = y + 1
      BY <1>3
    <3>3. x = p + ((y % Size) + 1)
      <4> HIDE DEF y, p
      <4> QED
        BY <3>1, <3>2
    <3> QED
      BY <2>3, <3>3
  <2> HIDE DEF y, k, r
  <2>5. k \in Nat /\ r \in Nat /\ Size * (k - 1) \in Nat
    <3>1. k - 1 \in Nat /\ k \in Nat /\ r \in Nat
      BY <1>1, <2>3 DEF n
    <3> QED
      BY <1>1, <3>1, ProductIsNat
  <2>6. Bytes(hit)[x] = Cut(Width, Size, hit[k])[r] /\ old[x] = Cut(Width, Size, b[k])[r]
    BY <1>2, <1>8, <2>3, <2>4
  <2>7. CASE k = i
    <3>1. place < x /\ x <= place + Size /\ x - place = r
      <4>1. x = place + r
        BY <2>4, <2>7
      <4> HIDE DEF place
      <4> QED
        BY <1>1, <1>3, <2>3, <4>1
    <3>2. ~ (x <= place)
      <4> HIDE DEF place
      <4> QED
        BY <1>3, <3>1
    <3> HIDE DEF place
    <3> QED
      BY <1>6, <1>7, <1>12, <2>6, <2>7, <3>1, <3>2
  <2>8. CASE k # i
    <3>1. x <= place \/ ~ (x <= place + Size)
      <4>1. CASE k < i
        <5>1. Size * (i - 1) = Size * (k - 1) + Size * (i - k) /\ Size * (i - k) >= Size
          BY <1>1, <2>5, <4>1
        <5>2. Size * (i - k) \in Nat
          BY <1>1, <2>5, <4>1
        <5> DEFINE p == Size * (k - 1)
                   q == Size * (i - k)
        <5>3. x = p + r /\ place = p + q /\ q >= Size /\ p \in Nat /\ q \in Nat
          BY <2>4, <2>5, <5>1, <5>2
        <5> HIDE DEF p, q, place
        <5>4. x <= place
          BY <1>1, <2>3, <5>3
        <5> QED
          BY <5>4
      <4>2. CASE ~ (k < i)
        <5>1. k > i
          BY <1>1, <2>5, <2>8, <4>2
        <5>2. Size * (k - 1) = Size * (i - 1) + Size * (k - i) /\ Size * (k - i) >= Size
          BY <1>1, <2>5, <5>1
        <5>3. Size * (k - i) \in Nat
          BY <1>1, <2>5, <5>1
        <5> DEFINE q == Size * (k - i)
        <5>4. x = place + q + r /\ q >= Size /\ q \in Nat
          BY <2>4, <5>2, <5>3
        <5> HIDE DEF q, place
        <5>5. ~ (x <= place + Size)
          BY <1>1, <1>3, <2>3, <5>4
        <5> QED
          BY <5>5
      <4> QED
        BY <4>1, <4>2
    <3>2. hit[k] = b[k]
      BY <1>7, <2>3, <2>8
    <3> HIDE DEF place
    <3>3. new[x] = old[x]
      <4>1. x <= place + Size /\ ~ (x <= place) => FALSE
        BY <3>1
      <4> QED
        BY <1>12, <3>1, <4>1
    <3> QED
      BY <2>6, <3>2, <3>3
  <2> QED
    BY <2>7, <2>8
<1>14. new = Bytes(hit)
  BY <1>2, <1>8, <1>12, <1>13, SeqEqual
<1> QED
  BY <1>4, <1>6, <1>14 DEF n, w, hit, new, front, back, place, len, old

-----------------------------------------------------------------------------
(* The invariant. Every message was enciphered to some blocks, sent[j], and  *)
(* these arrive, or will, as seen[j], which differ where they were damaged.  *)

StartIV(sent, j) == IF mode = "CFB1" /\ j > 1 THEN Last(sent[j - 1]) ELSE {}
Begin(seen, j) == IF reused /\ mode # "ECB" /\ j > 1 THEN Last(seen[j - 1]) ELSE {}

Shape(texts, wires, gots) ==
  /\ texts \in Seq(Seq(Byte)) /\ \A j \in 1 .. Len(texts) : CanBeSent(texts[j])
  /\ wires \in Seq(Seq(Byte))
  /\ \E S : gots \in Seq(S)
  /\ Len(texts) = Len(gots) + Len(wires)

\* Each message starts with the IV that the message before it left.
Sent(texts, IV, sent) ==
  /\ sent \in Seq(Seq(Word)) /\ Len(sent) = Len(texts)
  /\ \A j \in 1 .. Len(texts) : /\ IsCipherOf(mode, StartIV(sent, j), Blocks(Input(texts[j])), sent[j])
                                /\ Len(sent[j]) # 0
  /\ IV = StartIV(sent, Len(texts) + 1)

\* Only the damaged blocks are others.
Arrives(hurts, sent, seen) ==
  /\ seen \in Seq(Seq(Word)) /\ Len(seen) = Len(sent)
  /\ \A j \in 1 .. Len(sent) :
       /\ Len(seen[j]) = Len(sent[j])
       /\ \A i \in 1 .. Len(sent[j]) : <<j, i>> \in hurts \/ seen[j][i] = sent[j][i]

Received(wires, gots, IV, seen) ==
  /\ \A j \in 1 .. Len(wires) : wires[j] = Bytes(seen[Len(gots) + j])
  /\ \A j \in 1 .. Len(gots) :
       /\ gots[j].of = Bytes(seen[j])
       /\ DriftsApart \/ Answers(gots[j], Bytes(PlainOf(mode, Begin(seen, j), seen[j])))
  /\ DriftsApart \/ IV = Begin(seen, Len(gots) + 1)

Inv ==
  /\ Uses
  /\ Shape(text, wire, got)
  /\ \E sent, seen : /\ Sent(text, enc, sent)
                     /\ Arrives(hurt, sent, seen)
                     /\ Received(wire, got, dec, seen)

LEMMA LastIsWord ==
  ASSUME NEW b \in Seq(Word), Len(b) # 0
  PROVE  Last(b) \in Word /\ Last(b) = b[Len(b)] /\ \A IV : Last(b) = Prev(IV, b, Len(b) + 1)
<1>1. Len(b) \in 1 .. Len(b) /\ Len(b) + 1 # 1 /\ (Len(b) + 1) - 1 = Len(b)
  OBVIOUS
<1> QED
  BY <1>1, ElementOfSeq DEF Last, Prev

LEMMA StartIsWord ==
  ASSUME NEW texts, NEW IV, NEW sent, Len(texts) \in Nat, Sent(texts, IV, sent),
         NEW j \in 1 .. Len(texts) + 1
  PROVE  StartIV(sent, j) \in Word
<1>1. CASE mode = "CFB1" /\ j > 1
  <2>1. j - 1 \in 1 .. Len(texts)
    BY <1>1
  <2>2. sent[j - 1] \in Seq(Word) /\ Len(sent[j - 1]) # 0
    BY <2>1 DEF Sent
  <2> QED
    BY <1>1, <2>2, LastIsWord DEF StartIV
<1>2. CASE ~ (mode = "CFB1" /\ j > 1)
  BY <1>2, Sizes DEF StartIV
<1> QED
  BY <1>1, <1>2

LEMMA BeginIsWord ==
  ASSUME NEW seen \in Seq(Seq(Word)), \A j \in 1 .. Len(seen) : Len(seen[j]) # 0,
         NEW j \in 1 .. Len(seen) + 1
  PROVE  Begin(seen, j) \in Word
<1>1. CASE reused /\ mode # "ECB" /\ j > 1
  <2>1. j - 1 \in 1 .. Len(seen)
    BY <1>1
  <2>2. seen[j - 1] \in Seq(Word) /\ Len(seen[j - 1]) # 0
    BY <2>1, ElementOfSeq
  <2> QED
    BY <1>1, <2>2, LastIsWord DEF Begin
<1>2. CASE ~ (reused /\ mode # "ECB" /\ j > 1)
  BY <1>2, Sizes DEF Begin
<1> QED
  BY <1>1, <1>2

LEMMA Appended ==
  ASSUME NEW S, NEW s \in Seq(S), NEW e \in S
  PROVE  /\ Append(s, e) \in Seq(S) /\ Len(Append(s, e)) = Len(s) + 1 /\ Len(s) \in Nat
         /\ \A j \in 1 .. Len(s) : Append(s, e)[j] = s[j]
         /\ Append(s, e)[Len(s) + 1] = e
  OBVIOUS

\* The IV that is left is the one the next message starts with.
LEMMA LeftIsStart ==
  ASSUME NEW m, NEW e \in Seq(Word), Len(e) # 0, NEW IV
  PROVE  Left(m, IV, e) = IF m = "CFB1" THEN Last(e) ELSE IV
  BY LastIsWord DEF Left

LEMMA SentOneMore ==
  ASSUME NEW texts \in Seq(Seq(Byte)), NEW IV, NEW sent, Sent(texts, IV, sent),
         NEW t \in Seq(Byte), NEW e, Len(e) # 0, NEW next,
         IsCipherOf(mode, IV, Blocks(Input(t)), e),
         next = IF mode = "CFB1" THEN Last(e) ELSE {}
  PROVE  Sent(Append(texts, t), next, Append(sent, e))
<1> DEFINE n == Len(texts)
           texts2 == Append(texts, t)
           sent2 == Append(sent, e)
<1>1. n \in Nat /\ Len(texts2) = n + 1 /\ (\A j \in 1 .. n : texts2[j] = texts[j]) /\ texts2[n + 1] = t
  BY Appended
<1>2. e \in Seq(Word) /\ sent \in Seq(Seq(Word)) /\ Len(sent) = n
  BY DEF IsCipherOf, Sent
<1>3. /\ sent2 \in Seq(Seq(Word)) /\ Len(sent2) = n + 1
      /\ (\A j \in 1 .. n : sent2[j] = sent[j]) /\ sent2[n + 1] = e
  BY <1>2, Appended
<1> HIDE DEF n, texts2, sent2
<1>4. \A j \in 1 .. n + 1 : StartIV(sent2, j) = StartIV(sent, j)
  <2> SUFFICES ASSUME NEW j \in 1 .. n + 1, j > 1 PROVE sent2[j - 1] = sent[j - 1]
    BY DEF StartIV
  <2>1. j - 1 \in 1 .. n
    BY <1>1
  <2> QED
    BY <1>3, <2>1
<1>5. ASSUME NEW j \in 1 .. n + 1
      PROVE  /\ IsCipherOf(mode, StartIV(sent2, j), Blocks(Input(texts2[j])), sent2[j])
             /\ Len(sent2[j]) # 0
  <2>1. CASE j = n + 1
    <3>1. IV = StartIV(sent2, n + 1)
      BY <1>1, <1>4 DEF Sent, n
    <3> QED
      BY <1>1, <1>3, <2>1, <3>1
  <2>2. CASE j # n + 1
    <3>1. j \in 1 .. n
      BY <1>1, <2>2
    <3>2. IsCipherOf(mode, StartIV(sent, j), Blocks(Input(texts[j])), sent[j]) /\ Len(sent[j]) # 0
      BY <3>1 DEF Sent, n
    <3> QED
      BY <1>1, <1>3, <1>4, <3>1, <3>2
  <2> QED
    BY <2>1, <2>2
<1>6. next = StartIV(sent2, n + 1 + 1)
  <2>1. n + 1 + 1 > 1 /\ (n + 1 + 1) - 1 = n + 1
    BY <1>1
  <2> QED
    BY <1>3, <2>1 DEF StartIV
<1>7. Sent(texts2, next, sent2)
  BY <1>1, <1>3, <1>5, <1>6 DEF Sent
<1> QED
  BY <1>7 DEF texts2, sent2

\* What was enciphered goes on the wire as it is.
LEMMA ArrivesOneMore ==
  ASSUME NEW hurts, NEW sent \in Seq(Seq(Word)), NEW seen, Arrives(hurts, sent, seen), NEW e \in Seq(Word)
  PROVE  Arrives(hurts, Append(sent, e), Append(seen, e))
<1> DEFINE n == Len(sent)
           sent2 == Append(sent, e)
           seen2 == Append(seen, e)
<1>1. n \in Nat /\ seen \in Seq(Seq(Word)) /\ Len(seen) = n
  BY DEF Arrives
<1>2. /\ sent2 \in Seq(Seq(Word)) /\ Len(sent2) = n + 1
      /\ (\A j \in 1 .. n : sent2[j] = sent[j]) /\ sent2[n + 1] = e
  BY Appended
<1>3. /\ seen2 \in Seq(Seq(Word)) /\ Len(seen2) = n + 1
      /\ (\A j \in 1 .. n : seen2[j] = seen[j]) /\ seen2[n + 1] = e
  BY <1>1, Appended
<1> HIDE DEF n, sent2, seen2
<1>4. ASSUME NEW j \in 1 .. n + 1
      PROVE  /\ Len(seen2[j]) = Len(sent2[j])
             /\ \A i \in 1 .. Len(sent2[j]) : <<j, i>> \in hurts \/ seen2[j][i] = sent2[j][i]
  <2>1. CASE j = n + 1
    BY <1>2, <1>3, <2>1
  <2>2. CASE j # n + 1
    <3>1. j \in 1 .. n
      BY <1>1, <2>2
    <3>2. /\ Len(seen[j]) = Len(sent[j])
          /\ \A i \in 1 .. Len(sent[j]) : <<j, i>> \in hurts \/ seen[j][i] = sent[j][i]
      BY <3>1 DEF Arrives, n
    <3> QED
      BY <1>2, <1>3, <3>1, <3>2
  <2> QED
    BY <2>1, <2>2
<1>5. Arrives(hurts, sent2, seen2)
  BY <1>2, <1>3, <1>4 DEF Arrives
<1> QED
  BY <1>5 DEF sent2, seen2

LEMMA ReceivedOneMore ==
  ASSUME NEW wires \in Seq(Seq(Byte)), NEW gots, Len(gots) \in Nat, NEW IV, NEW seen \in Seq(Seq(Word)),
         Len(seen) = Len(gots) + Len(wires), Received(wires, gots, IV, seen), NEW e \in Seq(Word)
  PROVE  Received(Append(wires, Bytes(e)), gots, IV, Append(seen, e))
<1> DEFINE n == Len(wires)
           g == Len(gots)
           wires2 == Append(wires, Bytes(e))
           seen2 == Append(seen, e)
<1>1. n \in Nat /\ g \in Nat /\ Len(seen) = g + n
  OBVIOUS
<1>2. Len(wires2) = n + 1 /\ (\A j \in 1 .. n : wires2[j] = wires[j]) /\ wires2[n + 1] = Bytes(e)
  <2>1. Bytes(e) \in Seq(Byte)
    BY BytesOf
  <2> QED
    BY <2>1, Appended
<1>3. (\A j \in 1 .. g + n : seen2[j] = seen[j]) /\ seen2[(g + n) + 1] = e
  BY <1>1, Appended
<1> HIDE DEF n, g, wires2, seen2
<1>4. \A j \in 1 .. g + 1 : Begin(seen2, j) = Begin(seen, j)
  <2> SUFFICES ASSUME NEW j \in 1 .. g + 1, j > 1 PROVE seen2[j - 1] = seen[j - 1]
    BY DEF Begin
  <2>1. j - 1 \in 1 .. g + n
    BY <1>1
  <2> QED
    BY <1>3, <2>1
<1>5. ASSUME NEW j \in 1 .. n + 1 PROVE wires2[j] = Bytes(seen2[g + j])
  <2>1. CASE j = n + 1
    <3>1. g + j = (g + n) + 1
      BY <1>1, <2>1
    <3> QED
      BY <1>2, <1>3, <2>1, <3>1
  <2>2. CASE j # n + 1
    <3>1. j \in 1 .. n /\ g + j \in 1 .. g + n
      BY <1>1, <2>2
    <3>2. wires[j] = Bytes(seen[g + j])
      BY <3>1 DEF Received, g, n
    <3> QED
      BY <1>2, <1>3, <3>1, <3>2
  <2> QED
    BY <2>1, <2>2
<1>6. ASSUME NEW j \in 1 .. g
      PROVE  /\ gots[j].of = Bytes(seen2[j])
             /\ DriftsApart \/ Answers(gots[j], Bytes(PlainOf(mode, Begin(seen2, j), seen2[j])))
  <2>1. j \in 1 .. g + n /\ j \in 1 .. g + 1
    BY <1>1
  <2>2. seen2[j] = seen[j] /\ Begin(seen2, j) = Begin(seen, j)
    BY <1>3, <1>4, <2>1
  <2>3. /\ gots[j].of = Bytes(seen[j])
        /\ DriftsApart \/ Answers(gots[j], Bytes(PlainOf(mode, Begin(seen, j), seen[j])))
    BY DEF Received, g
  <2> QED
    BY <2>2, <2>3
<1>7. DriftsApart \/ IV = Begin(seen2, g + 1)
  <2>1. Begin(seen2, g + 1) = Begin(seen, g + 1)
    BY <1>1, <1>4
  <2> QED
    BY <2>1 DEF Received, g
<1>8. Received(wires2, gots, IV, seen2)
  BY <1>2, <1>5, <1>6, <1>7 DEF Received, g
<1> QED
  BY <1>8 DEF wires2, seen2

LEMMA ReceivedHead ==
  ASSUME NEW wires \in Seq(Seq(Byte)), wires # <<>>, NEW S, NEW gots \in Seq(S), NEW IV,
         NEW seen, Received(wires, gots, IV, seen),
         NEW a \in S, a.of = Head(wires), NEW next,
         DriftsApart \/ /\ Answers(a, Bytes(PlainOf(mode, Begin(seen, Len(gots) + 1), seen[Len(gots) + 1])))
                        /\ next = Begin(seen, Len(gots) + 1 + 1)
  PROVE  Received(Tail(wires), Append(gots, a), next, seen)
<1> DEFINE n == Len(wires)
           g == Len(gots)
           wires2 == Tail(wires)
           gots2 == Append(gots, a)
<1>1. n \in Nat \ {0} /\ g \in Nat
  OBVIOUS
<1>2. Len(wires2) = n - 1 /\ (\A j \in 1 .. n - 1 : wires2[j] = wires[j + 1]) /\ Head(wires) = wires[1]
  OBVIOUS
<1>3. Len(gots2) = g + 1 /\ (\A j \in 1 .. g : gots2[j] = gots[j]) /\ gots2[g + 1] = a
  BY Appended
<1> HIDE DEF n, g, wires2, gots2
<1>4. \A j \in 1 .. n : wires[j] = Bytes(seen[g + j])
  BY DEF Received, n, g
<1>5. ASSUME NEW j \in 1 .. n - 1 PROVE wires2[j] = Bytes(seen[(g + 1) + j])
  <2>1. j + 1 \in 1 .. n /\ g + (j + 1) = (g + 1) + j
    BY <1>1
  <2> QED
    BY <1>2, <1>4, <2>1
<1>6. ASSUME NEW j \in 1 .. g + 1
      PROVE  /\ gots2[j].of = Bytes(seen[j])
             /\ DriftsApart \/ Answers(gots2[j], Bytes(PlainOf(mode, Begin(seen, j), seen[j])))
  <2>1. CASE j = g + 1
    <3>1. 1 \in 1 .. n
      BY <1>1
    <3>2. a.of = Bytes(seen[g + 1])
      BY <1>2, <1>4, <3>1
    <3> QED
      BY <1>3, <2>1, <3>2 DEF g
  <2>2. CASE j # g + 1
    <3>1. j \in 1 .. g
      BY <1>1, <2>2
    <3>2. /\ gots[j].of = Bytes(seen[j])
          /\ DriftsApart \/ Answers(gots[j], Bytes(PlainOf(mode, Begin(seen, j), seen[j])))
      BY <3>1 DEF Received, g
    <3> QED
      BY <1>3, <3>1, <3>2
  <2> QED
    BY <2>1, <2>2
<1>7. DriftsApart \/ next = Begin(seen, g + 1 + 1)
  BY DEF g
<1>8. Received(wires2, gots2, next, seen)
  BY <1>2, <1>3, <1>5, <1>6, <1>7 DEF Received
<1> QED
  BY <1>8 DEF wires2, gots2

\* Block i of message k, which is still on the wire, becomes w.
LEMMA Damaged ==
  ASSUME NEW hurts, NEW sent \in Seq(Seq(Word)), NEW seen, Arrives(hurts, sent, seen),
         NEW wires \in Seq(Seq(Byte)), NEW gots, Len(gots) \in Nat, NEW IV,
         Len(seen) = Len(gots) + Len(wires), Received(wires, gots, IV, seen),
         NEW j \in 1 .. Len(wires), NEW i, NEW w \in Word,
         i \in 1 .. Len(seen[Len(gots) + j])
  PROVE  LET k == Len(gots) + j
             hit == [seen[k] EXCEPT ![i] = w]
             seen2 == [seen EXCEPT ![k] = hit]
         IN /\ Arrives(hurts \cup {<<k, i>>}, sent, seen2)
            /\ Received([wires EXCEPT ![j] = Bytes(hit)], gots, IV, seen2)
<1> DEFINE n == Len(wires)
           g == Len(gots)
           k == g + j
           hit == [seen[k] EXCEPT ![i] = w]
           seen2 == [seen EXCEPT ![k] = hit]
           hurts2 == hurts \cup {<<k, i>>}
           wires2 == [wires EXCEPT ![j] = Bytes(hit)]
<1>1. n \in Nat /\ g \in Nat /\ Len(seen) = g + n /\ k \in 1 .. g + n /\ k > g
  OBVIOUS
<1>2. seen \in Seq(Seq(Word)) /\ Len(sent) = g + n
  BY <1>1 DEF Arrives
<1>3. seen[k] \in Seq(Word) /\ i \in 1 .. Len(seen[k])
  BY <1>1, <1>2
<1>4. hit \in Seq(Word) /\ Len(hit) = Len(seen[k]) /\ \A x \in 1 .. Len(seen[k]) : x # i => hit[x] = seen[k][x]
  <2> HIDE DEF k
  <2> QED
    BY <1>3, ExceptSeq
<1> HIDE DEF hit, k
<1>5. /\ seen2 \in Seq(Seq(Word)) /\ Len(seen2) = g + n /\ seen2[k] = hit
      /\ \A x \in 1 .. g + n : x # k => seen2[x] = seen[x]
  <2> HIDE DEF n, g
  <2> QED
    BY <1>1, <1>2, <1>4, ExceptSeq
<1>6. wires2[j] = Bytes(hit) /\ Len(wires2) = n /\ \A x \in 1 .. n : x # j => wires2[x] = wires[x]
  <2>1. Bytes(hit) \in Seq(Byte)
    BY <1>4, BytesOf
  <2> QED
    BY <2>1, ExceptSeq
<1> HIDE DEF seen2, wires2, hurts2, n, g
<1>7. ASSUME NEW x \in 1 .. Len(sent)
      PROVE  /\ Len(seen2[x]) = Len(sent[x])
             /\ \A y \in 1 .. Len(sent[x]) : <<x, y>> \in hurts2 \/ seen2[x][y] = sent[x][y]
  <2>1. /\ Len(seen[x]) = Len(sent[x])
        /\ \A y \in 1 .. Len(sent[x]) : <<x, y>> \in hurts \/ seen[x][y] = sent[x][y]
    BY DEF Arrives
  <2>2. CASE x = k
    <3>1. Len(seen2[x]) = Len(sent[x])
      BY <1>4, <1>5, <2>1, <2>2
    <3>2. ASSUME NEW y \in 1 .. Len(sent[x]) PROVE <<x, y>> \in hurts2 \/ seen2[x][y] = sent[x][y]
      <4>1. CASE y = i
        BY <2>2, <4>1 DEF hurts2
      <4>2. CASE y # i
        <5>1. seen2[x][y] = seen[x][y]
          BY <1>4, <1>5, <2>1, <2>2, <4>2
        <5> QED
          BY <2>1, <5>1 DEF hurts2
      <4> QED
        BY <4>1, <4>2
    <3> QED
      BY <3>1, <3>2
  <2>3. CASE x # k
    <3>1. seen2[x] = seen[x]
      BY <1>2, <1>5, <2>3
    <3> QED
      BY <2>1, <3>1 DEF hurts2
  <2> QED
    BY <2>2, <2>3
<1>8. Arrives(hurts2, sent, seen2)
  BY <1>2, <1>5, <1>7 DEF Arrives
<1>9. \A x \in 1 .. g + 1 : Begin(seen2, x) = Begin(seen, x)
  <2> SUFFICES ASSUME NEW x \in 1 .. g + 1, x > 1 PROVE seen2[x - 1] = seen[x - 1]
    BY DEF Begin
  <2>1. x - 1 \in 1 .. g + n /\ x - 1 # k
    BY <1>1
  <2> QED
    BY <1>5, <2>1
<1>10. ASSUME NEW x \in 1 .. n PROVE wires2[x] = Bytes(seen2[g + x])
  <2>1. CASE x = j
    BY <1>5, <1>6, <2>1 DEF k
  <2>2. CASE x # j
    <3>1. g + x \in 1 .. g + n /\ g + x # k
      BY <1>1, <2>2 DEF k
    <3>2. wires[x] = Bytes(seen[g + x])
      BY DEF Received, g, n
    <3> QED
      BY <1>5, <1>6, <2>2, <3>1, <3>2
  <2> QED
    BY <2>1, <2>2
<1>11. ASSUME NEW x \in 1 .. g
       PROVE  /\ gots[x].of = Bytes(seen2[x])
              /\ DriftsApart \/ Answers(gots[x], Bytes(PlainOf(mode, Begin(seen2, x), seen2[x])))
  <2>1. x \in 1 .. g + n /\ x # k /\ x \in 1 .. g + 1
    BY <1>1
  <2>2. seen2[x] = seen[x] /\ Begin(seen2, x) = Begin(seen, x)
    BY <1>5, <1>9, <2>1
  <2>3. /\ gots[x].of = Bytes(seen[x])
        /\ DriftsApart \/ Answers(gots[x], Bytes(PlainOf(mode, Begin(seen, x), seen[x])))
    BY DEF Received, g
  <2> QED
    BY <2>2, <2>3
<1>12. DriftsApart \/ IV = Begin(seen2, g + 1)
  <2>1. Begin(seen2, g + 1) = Begin(seen, g + 1)
    BY <1>1, <1>9
  <2> QED
    BY <2>1 DEF Received, g
<1>13. Received(wires2, gots, IV, seen2)
  BY <1>6, <1>10, <1>11, <1>12 DEF Received, g
<1> QED
  BY <1>8, <1>13 DEF hurts2, seen2, wires2, hit, k, g

LEMMA InitInv ==
  ASSUME CryptInit
  PROVE  Inv
<1>1. Uses
  BY DEF CryptInit, Uses, Modes
<1>2. text = <<>> /\ wire = <<>> /\ got = <<>> /\ enc = {} /\ dec = {}
  BY DEF CryptInit
<1>3. Shape(<<>>, <<>>, <<>>)
  <2>1. <<>> \in Seq(Seq(Byte)) /\ Len(<<>>) = 0
    OBVIOUS
  <2> QED
    BY <2>1 DEF Shape
<1>4. Sent(<<>>, {}, <<>>)
  <2>1. <<>> \in Seq(Seq(Word)) /\ Len(<<>>) = 0
    OBVIOUS
  <2>2. StartIV(<<>>, 0 + 1) = {}
    BY DEF StartIV
  <2> QED
    BY <2>1, <2>2 DEF Sent
<1>5. Arrives(hurt, <<>>, <<>>)
  <2>1. <<>> \in Seq(Seq(Word)) /\ Len(<<>>) = 0
    OBVIOUS
  <2> QED
    BY <2>1 DEF Arrives
<1>6. Received(<<>>, <<>>, {}, <<>>)
  <2>1. Begin(<<>>, 0 + 1) = {}
    BY DEF Begin
  <2> QED
    BY <2>1 DEF Received
<1> QED
  BY <1>1, <1>2, <1>3, <1>4, <1>5, <1>6 DEF Inv

\* How the library is used does not change.
LEMMA SameUse ==
  ASSUME Uses, UNCHANGED <<mode, reused, padded>>, Shape(text', wire', got'), NEW sent, NEW seen,
         Sent(text', enc', sent), Arrives(hurt', sent, seen), Received(wire', got', dec', seen)
  PROVE  Inv'
<1>1. Uses'
  BY DEF Uses
<1>2. Shape(text, wire, got)'
  BY DEF Shape, CanBeSent
<1>3. Sent(text, enc, sent)'
  BY DEF Sent, StartIV, Input
<1>4. Arrives(hurt, sent, seen)'
  BY DEF Arrives
<1>5. Received(wire, got, dec, seen)'
  BY DEF Received, DriftsApart, Answers, Begin
<1> QED
  BY <1>1, <1>2, <1>3, <1>4, <1>5 DEF Inv

LEMMA Lengths ==
  ASSUME NEW sent, NEW seen, Shape(text, wire, got), Sent(text, enc, sent), Arrives(hurt, sent, seen)
  PROVE  /\ text \in Seq(Seq(Byte)) /\ wire \in Seq(Seq(Byte))
         /\ sent \in Seq(Seq(Word)) /\ seen \in Seq(Seq(Word))
         /\ Len(text) \in Nat /\ Len(wire) \in Nat /\ Len(got) \in Nat
         /\ Len(text) = Len(got) + Len(wire) /\ Len(sent) = Len(text) /\ Len(seen) = Len(text)
         /\ \A j \in 1 .. Len(seen) : seen[j] \in Seq(Word) /\ Len(seen[j]) # 0 /\ Len(seen[j]) = Len(sent[j])
<1>1. /\ text \in Seq(Seq(Byte)) /\ wire \in Seq(Seq(Byte))
      /\ sent \in Seq(Seq(Word)) /\ seen \in Seq(Seq(Word))
      /\ Len(text) = Len(got) + Len(wire) /\ Len(sent) = Len(text) /\ Len(seen) = Len(text)
  BY DEF Shape, Sent, Arrives
<1>2. Len(got) \in Nat
  BY DEF Shape
<1>3. ASSUME NEW j \in 1 .. Len(seen) PROVE seen[j] \in Seq(Word) /\ Len(seen[j]) # 0 /\ Len(seen[j]) = Len(sent[j])
  <2>1. Len(sent[j]) # 0
    BY <1>1 DEF Sent
  <2>2. Len(seen[j]) = Len(sent[j])
    BY <1>1 DEF Arrives
  <2>3. seen[j] \in Seq(Word)
    BY <1>1, ElementOfSeq
  <2> QED
    BY <2>1, <2>2, <2>3
<1> QED
  BY <1>1, <1>2, <1>3

LEMMA EncryptInv ==
  ASSUME Inv, NEW m \in Messages, Encrypt(m)
  PROVE  Inv'
<1>1. PICK sent, seen : Sent(text, enc, sent) /\ Arrives(hurt, sent, seen) /\ Received(wire, got, dec, seen)
  BY DEF Inv
<1>2. Uses /\ Shape(text, wire, got) /\ UNCHANGED <<mode, reused, padded, dec, hurt, got>>
  BY DEF Inv, Encrypt
<1>3. /\ text \in Seq(Seq(Byte)) /\ wire \in Seq(Seq(Byte))
      /\ sent \in Seq(Seq(Word)) /\ seen \in Seq(Seq(Word))
      /\ Len(text) \in Nat /\ Len(wire) \in Nat /\ Len(got) \in Nat
      /\ Len(text) = Len(got) + Len(wire) /\ Len(sent) = Len(text) /\ Len(seen) = Len(text)
  BY <1>1, <1>2, Lengths
<1>4. CanBeSent(m) /\ m \in Seq(Byte)
  BY CryptConstants DEF Encrypt, CanBeSent
<1> DEFINE IV == IF reused THEN enc ELSE {}
<1>5. enc = StartIV(sent, Len(text) + 1) /\ enc \in Word
  <2>1. Len(text) + 1 \in 1 .. Len(text) + 1
    BY <1>3
  <2> QED
    BY <1>1, <1>3, <2>1, StartIsWord DEF Sent
<1>6. IV = enc /\ (mode # "CFB1" => enc = {}) /\ (~ reused => mode # "CFB1")
  BY <1>2, <1>5 DEF StartIV, Uses
<1>7. PICK e : /\ IsCipherOf(mode, IV, Blocks(Input(m)), e)
               /\ Enciphered(m).out = Bytes(e)
               /\ reused => Enciphered(m).IV = Left(mode, IV, e)
  BY <1>2, <1>4, <1>5, EncipheredIs
<1>8. e \in Seq(Word) /\ Len(e) # 0
  <2>1. e \in Seq(Word) /\ Len(e) = Len(Blocks(Input(m)))
    BY <1>7 DEF IsCipherOf
  <2>2. Len(Blocks(Input(m))) \in Nat \ {0}
    BY <1>4, InputBlocks
  <2> QED
    BY <2>1, <2>2
<1>9. /\ text' = Append(text, m) /\ wire' = Append(wire, Bytes(e))
      /\ enc' = IF reused THEN Enciphered(m).IV ELSE enc
  BY <1>7 DEF Encrypt
<1>10. enc' = IF mode = "CFB1" THEN Last(e) ELSE {}
  <2>1. Left(mode, IV, e) = IF mode = "CFB1" THEN Last(e) ELSE IV
    BY <1>8, LeftIsStart
  <2> HIDE DEF IV
  <2>2. CASE reused
    BY <1>6, <1>7, <1>9, <2>1, <2>2
  <2>3. CASE ~ reused
    BY <1>6, <1>9, <2>3
  <2> QED
    BY <2>2, <2>3
<1> HIDE DEF IV
<1>11. Sent(text', enc', Append(sent, e))
  <2>1. IsCipherOf(mode, enc, Blocks(Input(m)), e)
    BY <1>6, <1>7
  <2>2. Sent(Append(text, m), enc', Append(sent, e))
    BY <1>1, <1>3, <1>4, <1>8, <1>10, <2>1, SentOneMore
  <2> QED
    BY <1>9, <2>2
<1>12. Arrives(hurt', Append(sent, e), Append(seen, e))
  <2>1. Arrives(hurt, Append(sent, e), Append(seen, e))
    BY <1>1, <1>3, <1>8, ArrivesOneMore
  <2> QED
    BY <1>2, <2>1
<1>13. Received(wire', got', dec', Append(seen, e))
  <2>1. Received(Append(wire, Bytes(e)), got, dec, Append(seen, e))
    BY <1>1, <1>3, <1>8, ReceivedOneMore
  <2> QED
    BY <1>2, <1>9, <2>1
<1>14. Shape(text', wire', got')
  <2> DEFINE n == Len(text)
             texts == Append(text, m)
             wires == Append(wire, Bytes(e))
  <2>1. texts \in Seq(Seq(Byte)) /\ Len(texts) = n + 1 /\ (\A j \in 1 .. n : texts[j] = text[j]) /\ texts[n + 1] = m
    BY <1>3, <1>4, Appended
  <2>2. wires \in Seq(Seq(Byte)) /\ Len(wires) = Len(wire) + 1
    <3>1. Bytes(e) \in Seq(Byte)
      BY <1>8, BytesOf
    <3> QED
      BY <1>3, <3>1, Appended
  <2>3. (\A j \in 1 .. n : CanBeSent(text[j])) /\ n \in Nat
    BY <1>2, <1>3 DEF Shape
  <2> HIDE DEF n, texts, wires
  <2>4. ASSUME NEW j \in 1 .. n + 1 PROVE CanBeSent(texts[j])
    <3>1. CASE j = n + 1
      BY <1>4, <2>1, <3>1
    <3>2. CASE j # n + 1
      <4>1. j \in 1 .. n
        BY <2>3, <3>2
      <4> QED
        BY <2>1, <2>3, <4>1
    <3> QED
      BY <3>1, <3>2
  <2>5. Len(texts) = Len(got) + Len(wires)
    BY <1>3, <2>1, <2>2 DEF n
  <2>6. \E S : got \in Seq(S)
    BY <1>2 DEF Shape
  <2>7. Shape(texts, wires, got)
    BY <2>1, <2>2, <2>4, <2>5, <2>6 DEF Shape
  <2> QED
    BY <1>2, <1>9, <2>7 DEF texts, wires
<1> QED
  BY <1>2, <1>11, <1>12, <1>13, <1>14, SameUse

LEMMA DecryptInv ==
  ASSUME Inv, Decrypt
  PROVE  Inv'
<1>1. PICK sent, seen : Sent(text, enc, sent) /\ Arrives(hurt, sent, seen) /\ Received(wire, got, dec, seen)
  BY DEF Inv
<1>2. Uses /\ Shape(text, wire, got) /\ UNCHANGED <<mode, reused, padded, enc, text, hurt>>
  BY DEF Inv, Decrypt
<1>3. /\ text \in Seq(Seq(Byte)) /\ wire \in Seq(Seq(Byte))
      /\ sent \in Seq(Seq(Word)) /\ seen \in Seq(Seq(Word))
      /\ Len(text) \in Nat /\ Len(wire) \in Nat /\ Len(got) \in Nat
      /\ Len(text) = Len(got) + Len(wire) /\ Len(sent) = Len(text) /\ Len(seen) = Len(text)
      /\ \A j \in 1 .. Len(seen) : seen[j] \in Seq(Word) /\ Len(seen[j]) # 0
  BY <1>1, <1>2, Lengths
<1> DEFINE g == Len(got)
           a == [ret |-> Deciphered(Head(wire)).ret, out |-> Deciphered(Head(wire)).out, of |-> Head(wire)]
           b == seen[g + 1]
<1>4. wire # <<>> /\ wire' = Tail(wire) /\ got' = Append(got, a)
      /\ dec' = IF reused THEN Deciphered(Head(wire)).IV ELSE dec
  BY DEF Decrypt
<1>5. g \in Nat /\ g + 1 \in 1 .. Len(seen) /\ Head(wire) = Bytes(b) /\ b \in Seq(Word) /\ Len(b) # 0
  <2>1. Len(wire) \in Nat \ {0} /\ Head(wire) = wire[1]
    BY <1>3, <1>4
  <2>2. 1 \in 1 .. Len(wire) /\ g + 1 \in 1 .. Len(seen)
    <3> DEFINE n == Len(wire)
               all == Len(seen)
    <3>1. n \in Nat \ {0} /\ g \in Nat /\ all = g + n
      BY <1>3, <2>1
    <3> HIDE DEF n, g, all
    <3>2. 1 \in 1 .. n /\ g + 1 \in 1 .. all
      BY <3>1
    <3> QED
      BY <3>2 DEF n, all
  <2>3. wire[1] = Bytes(seen[Len(got) + 1])
    BY <1>1, <2>2 DEF Received
  <2> QED
    BY <1>3, <2>1, <2>2, <2>3
<1> HIDE DEF b
<1>6. DriftsApart \/ /\ Answers(a, Bytes(PlainOf(mode, Begin(seen, g + 1), b)))
                     /\ dec' = Begin(seen, g + 1 + 1)
  <2> SUFFICES ASSUME ~ DriftsApart
               PROVE  /\ Answers(a, Bytes(PlainOf(mode, Begin(seen, g + 1), b)))
                      /\ dec' = Begin(seen, g + 1 + 1)
    OBVIOUS
  <2>1. dec = Begin(seen, g + 1)
    BY <1>1 DEF Received
  <2>2. dec \in Word
    <3>1. g + 1 \in 1 .. Len(seen) + 1
      BY <1>3, <1>5
    <3>2. Begin(seen, g + 1) \in Word
      BY <1>3, <3>1, BeginIsWord
    <3> QED
      BY <2>1, <3>2
  <2> DEFINE IV == IF reused THEN dec ELSE {}
             answer == Deciphered(Bytes(b))
  <2>3. Answers(answer, Bytes(PlainOf(mode, IV, b)))
    BY <1>2, <1>5, <2>2, DecipheredIs
  <2>4. reused => answer.IV = IF mode = "ECB" THEN IV ELSE Prev(IV, b, Len(b) + 1)
    BY <1>2, <1>5, <2>2, DecipheredIs
  <2>5. IV = dec
    BY <2>1 DEF Begin
  <2> HIDE DEF IV
  <2>6. Answers(a, Bytes(PlainOf(mode, Begin(seen, g + 1), b)))
    <3>1. a.ret = answer.ret /\ a.out = answer.out
      BY <1>5
    <3> HIDE DEF a, answer
    <3> QED
      BY <2>1, <2>3, <2>5, <3>1 DEF Answers
  <2>7. g + 1 + 1 > 1 /\ (g + 1 + 1) - 1 = g + 1
    BY <1>5
  <2>8. dec' = Begin(seen, g + 1 + 1)
    <3>1. CASE reused /\ mode # "ECB"
      <4>1. dec' = Prev(IV, b, Len(b) + 1)
        BY <1>4, <1>5, <2>4, <3>1
      <4>2. Prev(IV, b, Len(b) + 1) = Last(b)
        BY <1>5, LastIsWord
      <4>3. Begin(seen, g + 1 + 1) = Last(b)
        BY <2>7, <3>1 DEF Begin, b
      <4> QED
        BY <4>1, <4>2, <4>3
    <3>2. CASE ~ (reused /\ mode # "ECB")
      <4>1. dec' = dec
        BY <1>4, <1>5, <2>4, <2>5, <3>2
      <4>2. Begin(seen, g + 1) = {} /\ Begin(seen, g + 1 + 1) = {}
        BY <3>2 DEF Begin
      <4> QED
        BY <2>1, <4>1, <4>2
    <3> QED
      BY <3>1, <3>2
  <2> QED
    BY <2>6, <2>8
<1>7. a.of = Head(wire)
  OBVIOUS
<1> HIDE DEF a
<1>8. PICK S : got \in Seq(S)
  BY <1>2 DEF Shape
<1> DEFINE T == S \cup {a}
<1>9. got \in Seq(T) /\ a \in T
  BY <1>8
<1> HIDE DEF T
<1>10. Received(wire', got', dec', seen)
  <2>1. Received(Tail(wire), Append(got, a), dec', seen)
    BY <1>1, <1>3, <1>4, <1>6, <1>7, <1>9, ReceivedHead DEF b
  <2> QED
    BY <1>4, <2>1
<1>11. Sent(text', enc', sent) /\ Arrives(hurt', sent, seen)
  BY <1>1, <1>2
<1>12. Shape(text', wire', got')
  <2>1. Append(got, a) \in Seq(T) /\ Len(Append(got, a)) = Len(got) + 1
    BY <1>9, Appended
  <2>2. Tail(wire) \in Seq(Seq(Byte)) /\ Len(Tail(wire)) = Len(wire) - 1
    BY <1>3, <1>4
  <2>3. Len(text) = Len(Append(got, a)) + Len(Tail(wire))
    BY <1>3, <2>1, <2>2
  <2>4. \E U : Append(got, a) \in Seq(U)
    BY <2>1
  <2>5. Shape(text, Tail(wire), Append(got, a))
    BY <1>2, <2>2, <2>3, <2>4 DEF Shape
  <2> QED
    BY <1>2, <1>4, <2>5
<1> QED
  BY <1>2, <1>10, <1>11, <1>12, SameUse

LEMMA DamageInv ==
  ASSUME Inv, NEW j \in 1 .. Len(wire), NEW i \in 1 .. 3, NEW block \in Damages, Damage(j, i, block)
  PROVE  Inv'
<1>1. PICK sent, seen : Sent(text, enc, sent) /\ Arrives(hurt, sent, seen) /\ Received(wire, got, dec, seen)
  BY DEF Inv
<1>2. Uses /\ Shape(text, wire, got) /\ UNCHANGED <<mode, reused, padded, enc, dec, text, got>>
  BY DEF Inv, Damage
<1>3. /\ text \in Seq(Seq(Byte)) /\ wire \in Seq(Seq(Byte))
      /\ sent \in Seq(Seq(Word)) /\ seen \in Seq(Seq(Word))
      /\ Len(text) \in Nat /\ Len(wire) \in Nat /\ Len(got) \in Nat
      /\ Len(text) = Len(got) + Len(wire) /\ Len(sent) = Len(text) /\ Len(seen) = Len(text)
      /\ \A k \in 1 .. Len(seen) : seen[k] \in Seq(Word)
  BY <1>1, <1>2, Lengths
<1> DEFINE k == Len(got) + j
           b == seen[k]
           hit == [b EXCEPT ![i] = Block(block)]
           place == Size * (i - 1)
           old == wire[j]
<1>4. k \in 1 .. Len(seen) /\ b \in Seq(Word) /\ old = Bytes(b)
  <2>1. k \in 1 .. Len(seen)
    BY <1>3
  <2>2. wire[j] = Bytes(seen[Len(got) + j])
    BY <1>1 DEF Received
  <2> QED
    BY <1>3, <2>1, <2>2
<1>5. /\ place + Size <= Len(old)
      /\ wire' = [wire EXCEPT ![j] = SubSeq(old, 1, place) \o block \o SubSeq(old, place + Size + 1, Len(old))]
      /\ hurt' = hurt \cup {<<k, i>>}
  BY DEF Damage
<1>6. block \in [1 .. Size -> Byte]
  BY CryptConstants
<1> HIDE DEF b
<1>7. /\ i \in 1 .. Len(b) /\ Block(block) \in Word
      /\ SubSeq(old, 1, place) \o block \o SubSeq(old, place + Size + 1, Len(old)) = Bytes(hit)
  <2>1. Size * (i - 1) + Size <= Len(Bytes(b))
    BY <1>4, <1>5
  <2> HIDE DEF old
  <2> QED
    BY <1>4, <1>6, <2>1, DamagedBytes
<1>8. hit \in Seq(Word)
  BY <1>4, <1>7
<1>9. /\ Arrives(hurt', sent, [seen EXCEPT ![k] = hit])
      /\ Received(wire', got', dec', [seen EXCEPT ![k] = hit])
  <2>1. /\ Arrives(hurt \cup {<<k, i>>}, sent, [seen EXCEPT ![k] = hit])
        /\ Received([wire EXCEPT ![j] = Bytes(hit)], got, dec, [seen EXCEPT ![k] = hit])
    BY <1>1, <1>3, <1>7, Damaged DEF b
  <2>2. wire' = [wire EXCEPT ![j] = Bytes(hit)]
    BY <1>5, <1>7
  <2> HIDE DEF hit, k
  <2> QED
    BY <1>2, <1>5, <2>1, <2>2
<1>10. Sent(text', enc', sent)
  BY <1>1, <1>2
<1>11. Shape(text', wire', got')
  <2>1. Bytes(hit) \in Seq(Byte)
    BY <1>8, BytesOf
  <2>2. wire' = [wire EXCEPT ![j] = Bytes(hit)]
    BY <1>5, <1>7
  <2> HIDE DEF hit
  <2>3. wire' \in Seq(Seq(Byte)) /\ Len(wire') = Len(wire)
    BY <1>3, <2>1, <2>2
  <2>4. Shape(text, wire', got)
    BY <1>2, <2>3 DEF Shape
  <2> QED
    BY <1>2, <2>4
<1> HIDE DEF hit, k
<1> QED
  BY <1>2, <1>9, <1>10, <1>11, SameUse

\* A step that changes nothing.
LEMMA StutterInv ==
  ASSUME Inv, UNCHANGED cryptVars
  PROVE  Inv'
<1>1. PICK sent, seen : Sent(text, enc, sent) /\ Arrives(hurt, sent, seen) /\ Received(wire, got, dec, seen)
  BY DEF Inv
<1>2. /\ Uses /\ Shape(text, wire, got)
      /\ UNCHANGED <<mode, reused, padded, enc, dec, text, wire, hurt, got>>
  BY DEF Inv, cryptVars
<1>3. /\ Shape(text', wire', got') /\ Sent(text', enc', sent)
      /\ Arrives(hurt', sent, seen) /\ Received(wire', got', dec', seen)
  BY <1>1, <1>2
<1> QED
  BY <1>2, <1>3, SameUse

\* In every state there are the blocks that were sent and those that arrive for them.
THEOREM Invariance == CryptSpec => []Inv
<1>1. CryptInit => Inv
  BY InitInv
<1>2. Inv /\ [CryptNext]_cryptVars => Inv'
  <2> SUFFICES ASSUME Inv, [CryptNext]_cryptVars PROVE Inv'
    OBVIOUS
  <2>1. CASE \E m \in Messages : Encrypt(m)
    BY <2>1, EncryptInv
  <2>2. CASE Decrypt
    BY <2>2, DecryptInv
  <2>3. CASE \E j \in 1 .. Len(wire), i \in 1 .. 3, block \in Damages : Damage(j, i, block)
    BY <2>3, DamageInv
  <2>4. CASE UNCHANGED cryptVars
    BY <2>4, StutterInv
  <2> QED
    BY <2>1, <2>2, <2>3, <2>4 DEF CryptNext
<1> QED
  BY <1>1, <1>2, PTL DEF CryptSpec

-----------------------------------------------------------------------------
(* What the properties say of an answer                                      *)

LEMMA RoundTripFollows ==
  ASSUME Inv
  PROVE  RoundTrip
<1> SUFFICES ASSUME hurt = {}, reused => mode # "CBC", NEW j \in 1 .. Len(got)
             PROVE  got[j].ret = "ok" /\ got[j].out = text[j]
  BY DEF RoundTrip
<1>1. PICK sent, seen : Sent(text, enc, sent) /\ Arrives(hurt, sent, seen) /\ Received(wire, got, dec, seen)
  BY DEF Inv
<1>2. Uses /\ Shape(text, wire, got) /\ ~ DriftsApart
  BY DEF Inv, DriftsApart
<1>3. /\ sent \in Seq(Seq(Word)) /\ seen \in Seq(Seq(Word))
      /\ Len(text) \in Nat /\ Len(wire) \in Nat /\ Len(got) \in Nat
      /\ Len(text) = Len(got) + Len(wire) /\ Len(sent) = Len(text) /\ Len(seen) = Len(text)
  BY <1>1, <1>2, Lengths
<1>4. j \in 1 .. Len(text) /\ j \in Nat
  <2> DEFINE g == Len(got)
             n == Len(wire)
             all == Len(text)
  <2>1. g \in Nat /\ n \in Nat /\ all = g + n /\ j \in 1 .. g
    BY <1>3
  <2> HIDE DEF g, n, all
  <2>2. j \in 1 .. all /\ j \in Nat
    BY <2>1
  <2> QED
    BY <2>2 DEF all
<1>5. ASSUME NEW k \in 1 .. Len(text) PROVE seen[k] = sent[k]
  <2>1. sent[k] \in Seq(Word) /\ seen[k] \in Seq(Word)
    BY <1>3, ElementOfSeq
  <2>2. Len(seen[k]) = Len(sent[k]) /\ \A i \in 1 .. Len(sent[k]) : seen[k][i] = sent[k][i]
    BY <1>1, <1>3 DEF Arrives
  <2> DEFINE s == sent[k]
             t == seen[k]
  <2> HIDE DEF s, t
  <2>3. s = t
    BY <2>1, <2>2, SeqEqual DEF s, t
  <2> QED
    BY <2>3 DEF s, t
<1>6. Begin(seen, j) = StartIV(sent, j)
  <2>1. CASE mode = "CFB1" /\ j > 1
    <3>1. reused /\ mode # "ECB"
      BY <1>2, <2>1 DEF Uses
    <3>2. j - 1 \in 1 .. Len(text)
      BY <1>3, <1>4, <2>1
    <3> QED
      BY <1>5, <2>1, <3>1, <3>2 DEF Begin, StartIV
  <2>2. CASE ~ (mode = "CFB1" /\ j > 1)
    <3>1. ~ (reused /\ mode # "ECB" /\ j > 1)
      BY <1>2, <2>2 DEF Uses, Modes
    <3> QED
      BY <2>2, <3>1 DEF Begin, StartIV
  <2> QED
    BY <2>1, <2>2
<1> DEFINE IV == Begin(seen, j)
           p == Blocks(Input(text[j]))
           plain == Bytes(PlainOf(mode, IV, seen[j]))
<1>7. CanBeSent(text[j]) /\ IsCipherOf(mode, IV, p, seen[j])
  BY <1>1, <1>2, <1>4, <1>5, <1>6 DEF Shape, Sent
<1>8. Answers(got[j], plain)
  BY <1>1, <1>2 DEF Received
<1>9. p \in Seq(Word) /\ Bytes(p) = Input(text[j]) /\ Input(text[j]) \in Seq(Byte)
  BY <1>7, InputBlocks
<1>10. plain = Input(text[j])
  <2> HIDE DEF IV, p
  <2>1. Len(seen[j]) = Len(p) /\ \A i \in 1 .. Len(p) : Plain(mode, Prev(IV, seen[j], i), seen[j][i]) = p[i]
    BY <1>7 DEF IsCipherOf
  <2>2. PlainOf(mode, IV, seen[j]) = [i \in 1 .. Len(p) |-> p[i]]
    BY <2>1 DEF PlainOf
  <2>3. PlainOf(mode, IV, seen[j]) = p
    BY <1>9, <2>2
  <2> QED
    BY <1>9, <2>3
<1> HIDE DEF plain
<1>11. CASE ~ padded
  BY <1>8, <1>10, <1>11 DEF Answers, Input
<1>12. CASE padded
  <2>1. text[j] \in Seq(Byte) /\ text[j] # <<>> /\ plain = Padded(text[j])
    BY <1>7, <1>10, <1>12 DEF CanBeSent, Input
  <2>2. PadError(mode, plain) = "ok" /\ SubSeq(plain, 1, Len(plain) - Last(plain)) = text[j]
    BY <2>1, PaddingComesOff
  <2> QED
    BY <1>8, <1>12, <2>1, <2>2 DEF Answers
<1> QED
  BY <1>11, <1>12

LEMMA DamageIsLocalFollows ==
  ASSUME Inv
  PROVE  DamageIsLocal
<1> SUFFICES ASSUME ~ padded, NEW j \in 1 .. Len(got), NEW i \in 1 .. Len(Blocks(text[j])),
                    mode = "CBC" => i > 1 \/ j = 1, hurt \cap Behind(j, i) = {}
             PROVE  Blocks(got[j].out)[i] = Blocks(text[j])[i]
  BY DEF DamageIsLocal
<1>1. PICK sent, seen : Sent(text, enc, sent) /\ Arrives(hurt, sent, seen) /\ Received(wire, got, dec, seen)
  BY DEF Inv
<1>2. Uses /\ Shape(text, wire, got) /\ ~ DriftsApart /\ reused
  BY DEF Inv, DriftsApart, Uses
<1>3. /\ sent \in Seq(Seq(Word)) /\ seen \in Seq(Seq(Word))
      /\ Len(text) \in Nat /\ Len(wire) \in Nat /\ Len(got) \in Nat
      /\ Len(text) = Len(got) + Len(wire) /\ Len(sent) = Len(text) /\ Len(seen) = Len(text)
      /\ \A k \in 1 .. Len(seen) : seen[k] \in Seq(Word) /\ Len(seen[k]) # 0 /\ Len(seen[k]) = Len(sent[k])
  BY <1>1, <1>2, Lengths
<1>4. j \in 1 .. Len(text) /\ j \in Nat
  <2> DEFINE g == Len(got)
             n == Len(wire)
             all == Len(text)
  <2>1. g \in Nat /\ n \in Nat /\ all = g + n /\ j \in 1 .. g
    BY <1>3
  <2> HIDE DEF g, n, all
  <2>2. j \in 1 .. all /\ j \in Nat
    BY <2>1
  <2> QED
    BY <2>2 DEF all
<1> DEFINE IV == Begin(seen, j)
           s == sent[j]
           t == seen[j]
           p == Blocks(text[j])
<1>5. CanBeSent(text[j]) /\ Input(text[j]) = text[j] /\ IsCipherOf(mode, StartIV(sent, j), p, s)
  BY <1>1, <1>2, <1>4 DEF Shape, Sent, Input
<1>6. t \in Seq(Word) /\ Len(t) # 0 /\ Len(t) = Len(s) /\ Len(s) = Len(p) /\ Len(p) \in Nat
  BY <1>3, <1>4, <1>5 DEF IsCipherOf
<1>7. \A y \in 1 .. Len(s) : <<j, y>> \in hurt \/ t[y] = s[y]
  BY <1>1, <1>3, <1>4 DEF Arrives
<1>8. IV \in Word
  <2>1. j \in 1 .. Len(seen) + 1
    BY <1>3, <1>4
  <2> QED
    BY <1>3, <2>1, BeginIsWord
\* The blocks of the answer.
<1>9. Blocks(got[j].out) = PlainOf(mode, IV, t)
  <2>1. got[j].out = Bytes(PlainOf(mode, IV, t))
    BY <1>1, <1>2 DEF Received, Answers
  <2> HIDE DEF IV, t
  <2>2. PlainOf(mode, IV, t) \in Seq(Word)
    BY <1>6, <1>8, PlainOfIsSeq
  <2> QED
    BY <2>1, <2>2, BlocksOfBytes
<1>10. Blocks(got[j].out)[i] = Plain(mode, Prev(IV, t, i), t[i])
  BY <1>6, <1>9 DEF PlainOf
<1>11. p[i] = Plain(mode, Prev(StartIV(sent, j), s, i), s[i])
  BY <1>5 DEF IsCipherOf
<1>12. t[i] = s[i]
  <2>1. <<j, i>> \notin hurt
    BY DEF Behind
  <2> QED
    BY <1>6, <1>7, <2>1
<1>13. mode # "ECB" => Prev(IV, t, i) = Prev(StartIV(sent, j), s, i)
  <2> SUFFICES ASSUME mode # "ECB" PROVE Prev(IV, t, i) = Prev(StartIV(sent, j), s, i)
    OBVIOUS
  <2>1. CASE i > 1
    <3>1. <<j, i - 1>> \notin hurt
      BY <2>1 DEF Behind
    <3>2. i - 1 \in 1 .. Len(s) /\ i # 1
      BY <1>6, <2>1
    <3>3. t[i - 1] = s[i - 1]
      BY <1>7, <3>1, <3>2
    <3> HIDE DEF IV, t, s
    <3> QED
      BY <3>2, <3>3 DEF Prev
  <2>2. CASE ~ (i > 1) /\ j > 1
    <3>1. i = 1 /\ mode = "CFB1"
      BY <1>2, <1>4, <1>6, <2>2 DEF Uses, Modes
    <3>2. j - 1 \in 1 .. Len(text)
      BY <1>3, <1>4, <2>2
    <3> DEFINE u == sent[j - 1]
               v == seen[j - 1]
               last == Len(Blocks(text[j - 1]))
    <3>3. <<j - 1, last>> \notin hurt
      BY <2>2 DEF Behind
    <3>4. Len(u) = last /\ Len(v) = Len(u) /\ Len(v) # 0 /\ v \in Seq(Word)
      <4>1. IsCipherOf(mode, StartIV(sent, j - 1), Blocks(Input(text[j - 1])), u)
        BY <1>1, <3>2 DEF Sent
      <4>2. Len(u) = last
        BY <4>1 DEF IsCipherOf, Input
      <4> QED
        BY <1>3, <3>2, <4>2
    <3>5. \A y \in 1 .. Len(u) : <<j - 1, y>> \in hurt \/ v[y] = u[y]
      BY <1>1, <1>3, <3>2 DEF Arrives
    <3>6. Last(v) = Last(u)
      <4> HIDE DEF u, v, last
      <4>1. last \in 1 .. Len(u)
        BY <3>4
      <4> QED
        BY <3>3, <3>4, <3>5, <4>1 DEF Last
    <3>7. IV = Last(v) /\ StartIV(sent, j) = Last(u)
      BY <1>2, <2>2, <3>1 DEF Begin, StartIV
    <3> QED
      BY <3>1, <3>6, <3>7 DEF Prev
  <2>3. CASE ~ (i > 1) /\ ~ (j > 1)
    <3>1. i = 1
      BY <1>6, <2>3
    <3>2. IV = {} /\ StartIV(sent, j) = {}
      BY <2>3 DEF Begin, StartIV
    <3> QED
      BY <3>1, <3>2 DEF Prev
  <2> QED
    BY <2>1, <2>2, <2>3
<1>14. Plain(mode, Prev(IV, t, i), t[i]) = Plain(mode, Prev(StartIV(sent, j), s, i), s[i])
  <2>1. CASE mode = "ECB"
    BY <1>12, <2>1 DEF Plain
  <2>2. CASE mode # "ECB"
    BY <1>12, <1>13, <2>2
  <2> QED
    BY <2>1, <2>2
<1> QED
  BY <1>10, <1>11, <1>14

\* Blocks that are deciphered alike are alike.
LEMMA SameCipher ==
  ASSUME NEW m \in {"ECB", "CBC"}, NEW IV \in Word, NEW c \in Seq(Word), NEW p, NEW e,
         p = PlainOf(m, IV, c), IsCipherOf(m, IV, p, e)
  PROVE  e = c
<1> DEFINE n == Len(c)
           T == {k \in 0 .. n : \A i \in 1 .. k : e[i] = c[i]}
<1>1. n \in Nat /\ Len(p) = n /\ \A i \in 1 .. n : p[i] = Plain(m, Prev(IV, c, i), c[i])
  BY DEF PlainOf
<1>2. e \in Seq(Word) /\ Len(e) = n /\ \A i \in 1 .. n : Plain(m, Prev(IV, e, i), e[i]) = p[i]
  BY <1>1 DEF IsCipherOf
<1>3. \A i \in 1 .. n : e[i] \in Word /\ c[i] \in Word /\ i \in 1 .. Len(c) + 1
  BY <1>1, <1>2
<1> HIDE DEF n
<1>4. 0 \in T
  BY <1>1
<1>5. ASSUME NEW k \in 1 .. n, k - 1 \in T PROVE k \in T
  <2>1. \A i \in 1 .. k - 1 : e[i] = c[i]
    BY <1>5
  <2>2. Prev(IV, e, k) = Prev(IV, c, k)
    <3>1. CASE k # 1
      <4>1. k - 1 \in 1 .. k - 1
        BY <1>1, <3>1
      <4>2. e[k - 1] = c[k - 1]
        BY <2>1, <4>1
      <4> QED
        BY <3>1, <4>2 DEF Prev
    <3>2. CASE k = 1
      BY <3>2 DEF Prev
    <3> QED
      BY <3>1, <3>2
  <2>3. Prev(IV, c, k) \in Word
    BY <1>3, PrevIsWord
  <2>4. Plain(m, Prev(IV, c, k), e[k]) = Plain(m, Prev(IV, c, k), c[k])
    BY <1>1, <1>2, <2>2
  <2>5. e[k] = c[k]
    BY <1>3, <2>3, <2>4, PlainTellsBlock
  <2>6. \A i \in 1 .. k : i = k \/ i \in 1 .. k - 1
    BY <1>1
  <2>7. \A i \in 1 .. k : e[i] = c[i]
    BY <2>1, <2>5, <2>6
  <2> QED
    BY <1>1, <2>7
<1> HIDE DEF T
<1>6. n \in T
  <2>1. \A k \in 0 .. n : k \in T
    BY <1>1, <1>4, <1>5, IntervalInduction
  <2> QED
    BY <1>1, <2>1
<1>7. \A i \in 1 .. n : e[i] = c[i]
  BY <1>6 DEF T
<1> QED
  BY <1>2, <1>7, SeqEqual DEF n

LEMMA PaddingIsExactFollows ==
  ASSUME Inv
  PROVE  PaddingIsExact
<1> SUFFICES ASSUME padded, ~ reused
             PROVE  /\ \A j \in 1 .. Len(wire) :
                         Len(wire[j]) <= aes_prepare_pad_buffer(Len(text[Len(got) + j]))
                    /\ \A j \in 1 .. Len(got) :
                         got[j].ret = "ok" /\ (mode = "ECB" => Len(got[j].out) < Len(got[j].of)) =>
                           Enciphered(got[j].out).out = got[j].of
  BY DEF PaddingIsExact
<1>1. PICK sent, seen : Sent(text, enc, sent) /\ Arrives(hurt, sent, seen) /\ Received(wire, got, dec, seen)
  BY DEF Inv
<1>2. Uses /\ Shape(text, wire, got) /\ ~ DriftsApart /\ mode \in {"ECB", "CBC"}
  BY DEF Inv, DriftsApart, Uses, Modes
<1>3. /\ sent \in Seq(Seq(Word)) /\ seen \in Seq(Seq(Word))
      /\ Len(text) \in Nat /\ Len(wire) \in Nat /\ Len(got) \in Nat
      /\ Len(text) = Len(got) + Len(wire) /\ Len(sent) = Len(text) /\ Len(seen) = Len(text)
      /\ \A k \in 1 .. Len(seen) : seen[k] \in Seq(Word) /\ Len(seen[k]) # 0 /\ Len(seen[k]) = Len(sent[k])
  BY <1>1, <1>2, Lengths
<1>4. ASSUME NEW k \in 1 .. Len(text)
      PROVE  Len(seen[k]) = (Len(text[k]) \div Size) + 1 /\ Len(text[k]) \in Nat
  <2>1. CanBeSent(text[k]) /\ IsCipherOf(mode, StartIV(sent, k), Blocks(Input(text[k])), sent[k])
    BY <1>1, <1>2 DEF Shape, Sent
  <2>2. Len(Blocks(Input(text[k]))) = (Len(text[k]) \div Size) + 1
    BY <2>1, InputBlocks
  <2>3. Len(sent[k]) = Len(Blocks(Input(text[k])))
    BY <2>1 DEF IsCipherOf
  <2>4. Len(seen[k]) = Len(sent[k])
    BY <1>3
  <2>5. Len(text[k]) \in Nat
    BY <2>1 DEF CanBeSent
  <2> QED
    BY <2>2, <2>3, <2>4, <2>5
<1>5. ASSUME NEW j \in 1 .. Len(wire)
      PROVE  Len(wire[j]) <= aes_prepare_pad_buffer(Len(text[Len(got) + j]))
  <2> DEFINE k == Len(got) + j
             len == Len(text[k])
  <2>1. k \in 1 .. Len(text) /\ k \in 1 .. Len(seen) /\ wire[j] = Bytes(seen[k])
    BY <1>1, <1>3 DEF Received
  <2>2. seen[k] \in Seq(Word)
    BY <1>3, <2>1
  <2>3. Len(wire[j]) = Size * ((len \div Size) + 1) /\ len \in Nat
    <3>1. Len(Bytes(seen[k])) = Size * Len(seen[k])
      BY <2>2, BytesOf
    <3> QED
      BY <1>4, <2>1, <3>1
  <2> HIDE DEF len
  <2> DEFINE q == len \div Size
  <2>4. q \in Nat /\ Size \in Nat \ {0}
    BY <2>3, Sizes, Places
  <2> HIDE DEF q
  <2>5. Size * (q + 2) = Size * (q + 1) + Size /\ Size * (q + 1) \in Nat
    BY <2>4
  <2>6. Size * (q + 1) <= Size * (q + 2)
    BY <2>4, <2>5
  <2> QED
    BY <2>3, <2>6 DEF aes_prepare_pad_buffer, q, len, k
<1>6. ASSUME NEW j \in 1 .. Len(got), got[j].ret = "ok",
             mode = "ECB" => Len(got[j].out) < Len(got[j].of)
      PROVE  Enciphered(got[j].out).out = got[j].of
  <2> DEFINE c == seen[j]
             p == PlainOf(mode, {}, c)
             plain == Bytes(p)
             out == SubSeq(plain, 1, Len(plain) - Last(plain))
  <2>1. j \in 1 .. Len(seen)
    <3> DEFINE g == Len(got)
               n == Len(wire)
               all == Len(seen)
    <3>1. g \in Nat /\ n \in Nat /\ all = g + n /\ j \in 1 .. g
      BY <1>3
    <3> HIDE DEF g, n, all
    <3>2. j \in 1 .. all
      BY <3>1
    <3> QED
      BY <3>2 DEF all
  <2>2. c \in Seq(Word) /\ Len(c) \in Nat \ {0}
    BY <1>3, <2>1
  <2>3. got[j].of = Bytes(c) /\ Answers(got[j], plain)
    <3>1. Begin(seen, j) = {}
      BY DEF Begin
    <3> QED
      BY <1>1, <1>2, <3>1 DEF Received
  <2> HIDE DEF c
  <2>4. p \in Seq(Word) /\ Len(p) = Len(c)
    BY <2>2, Sizes, PlainOfIsSeq
  <2> HIDE DEF p
  <2>5. plain \in Seq(Byte) /\ Len(plain) = Size * Len(c) /\ Len(Bytes(c)) = Size * Len(c)
        /\ Size * Len(c) \in Nat
    BY <2>2, <2>4, BytesAreWhole
  <2> HIDE DEF plain
  <2>6. PadError(mode, plain) = "ok" /\ out # <<>> /\ got[j].out = out
    BY <1>6, <2>3 DEF Answers
  <2>7. Last(plain) # 0
    <3>1. CASE mode = "CBC"
      BY <2>6, <3>1 DEF PadError
    <3>2. CASE mode = "ECB"
      <4> SUFFICES ASSUME Last(plain) = 0 PROVE FALSE
        OBVIOUS
      <4>1. Len(plain) - Last(plain) = Len(plain) /\ Len(plain) \in Nat
        BY <2>5
      <4>2. SubSeq(plain, 1, Len(plain)) = plain
        BY <2>5
      <4>3. out = plain
        BY <4>1, <4>2
      <4>4. Len(got[j].out) < Len(got[j].of) /\ Len(got[j].out) = Len(got[j].of)
        BY <1>6, <2>3, <2>5, <2>6, <3>2, <4>3
      <4> QED
        BY <2>3, <2>5, <4>4
    <3> QED
      BY <1>2, <3>1, <3>2
  <2>8. out \in Seq(Byte) /\ Padded(out) = plain
    BY <2>2, <2>5, <2>6, <2>7, PaddingPutBack
  <2> HIDE DEF out
  <2>9. CanBeSent(out) /\ Blocks(Input(out)) = p
    <3>1. Blocks(plain) = p
      BY <2>4, BlocksOfBytes DEF plain
    <3> QED
      BY <2>6, <2>8, <3>1 DEF CanBeSent, Input
  <2>10. enc \in Word
    <3>1. enc = StartIV(sent, Len(text) + 1) /\ Len(text) + 1 \in 1 .. Len(text) + 1
      BY <1>1, <1>3 DEF Sent
    <3> QED
      BY <1>1, <1>3, <3>1, StartIsWord
  <2>11. PICK e : IsCipherOf(mode, {}, p, e) /\ Enciphered(out).out = Bytes(e)
    <3> DEFINE IV == IF reused THEN enc ELSE {}
    <3>1. \E e : IsCipherOf(mode, IV, Blocks(Input(out)), e) /\ Enciphered(out).out = Bytes(e)
      BY <1>2, <2>9, <2>10, EncipheredIs
    <3>2. IV = {}
      OBVIOUS
    <3> HIDE DEF IV
    <3> QED
      BY <2>9, <3>1, <3>2
  <2>12. e = c
    <3>1. {} \in Word /\ p = PlainOf(mode, {}, c)
      BY Sizes DEF p
    <3> QED
      BY <1>2, <2>2, <2>11, <3>1, SameCipher
  <2> QED
    BY <2>3, <2>6, <2>11, <2>12
<1> QED
  BY <1>5, <1>6

\* Whatever block cipher is used, the messages come out as they went in and in
\* their order, however often an instance is used (naes_encrypt, blockEncrypt and
\* padEncrypt with their opposites).
THEOREM MessagesComeBack == CryptSpec => []RoundTrip
  BY Invariance, RoundTripFollows, PTL

\* A damaged block spoils itself and at most the one behind it (cbcBlock, cfbBit).
THEOREM OnlyTheNextIsSpoilt == CryptSpec => []DamageIsLocal
  BY Invariance, DamageIsLocalFollows, PTL

\* What is taken off as padding can be put on again, and the buffer of a padded
\* message is large enough (padDecrypt, aes_prepare_pad_buffer).
THEOREM PaddingIsPutBack == CryptSpec => []PaddingIsExact
  BY Invariance, PaddingIsExactFollows, PTL
=============================================================================
