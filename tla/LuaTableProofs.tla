--------------------------- MODULE LuaTableProofs ---------------------------
(***************************************************************************)
(* Proofs about module LuaTable, for any keys, values and sizes.           *)
(*                                                                         *)
(* The links of the hash part are taken by themselves first: Links(nx, D)  *)
(* on nodes D, with Onward(nx, D, i), the nodes from i on. WellFormed(tab) *)
(* is what holds of a table between two calls: its chains end, do not      *)
(* branch, and begin in the main position of the keys they hold. Each      *)
(* operation has a lemma which says that its table is well formed and what *)
(* luaH_get then finds: ...Keeps, ...Finds, ...Stores.                     *)
(*                                                                         *)
(* A table is built anew step by step, which is an induction over an       *)
(* interval (IntervalInduction); that there is room for each key is a      *)
(* matter of counting (NotFull, RehashMakesRoom). The last two sections    *)
(* are about the behaviours and the theorems.                              *)
(***************************************************************************)
EXTENDS LuaTable, FiniteSetTheorems, WellFoundedInduction, TLAPS

-----------------------------------------------------------------------------
(* Powers of two. Their values are computed once; what is said of them is    *)
(* found by going through the exponents.                                     *)

LEMMA PowerValues ==
  /\ twoto(0) = 1 /\ twoto(1) = 2 /\ twoto(2) = 4 /\ twoto(3) = 8 /\ twoto(4) = 16
  /\ twoto(5) = 32 /\ twoto(6) = 64 /\ twoto(7) = 128 /\ twoto(8) = 256 /\ twoto(9) = 512
  /\ twoto(10) = 1024 /\ twoto(11) = 2048 /\ twoto(12) = 4096 /\ twoto(13) = 8192
  /\ twoto(14) = 16384 /\ twoto(15) = 32768 /\ twoto(16) = 65536 /\ twoto(17) = 131072
  /\ twoto(18) = 262144 /\ twoto(19) = 524288 /\ twoto(20) = 1048576 /\ twoto(21) = 2097152
  /\ twoto(22) = 4194304 /\ twoto(23) = 8388608 /\ twoto(24) = 16777216
  /\ twoto(25) = 33554432 /\ twoto(26) = 67108864 /\ twoto(27) = 134217728
  /\ twoto(28) = 268435456 /\ twoto(29) = 536870912 /\ twoto(30) = 1073741824
  /\ twoto(31) = 2147483648 /\ twoto(32) = 4294967296
  BY DEF twoto

Exponents == {0, 1, 2, 3, 4, 5, 6, 7, 8, 9, 10, 11, 12, 13, 14, 15, 16, 17, 18, 19, 20, 21, 22,
              23, 24, 25, 26, 27, 28, 29, 30, 31, 32}

LEMMA PowersArePositive ==
  ASSUME NEW i \in 0 .. 32
  PROVE  twoto(i) \in Nat /\ twoto(i) >= 1
<1>1. i \in Exponents
  BY DEF Exponents
<1> QED
  BY <1>1, PowerValues DEF Exponents

LEMMA NextPower ==
  ASSUME NEW i \in 0 .. 31
  PROVE  twoto(i + 1) = 2 * twoto(i)
<1>1. i \in Exponents \ {32}
  BY DEF Exponents
<1> QED
  BY <1>1, PowerValues DEF Exponents

LEMMA PowersGrow ==
  ASSUME NEW i \in 0 .. 32, NEW j \in 0 .. 32, i <= j
  PROVE  twoto(i) <= twoto(j)
<1>1. i \in Exponents /\ j \in Exponents
  BY DEF Exponents
<1>2. \A k \in Exponents : k <= j => twoto(k) <= twoto(j)
  BY <1>1, PowerValues DEF Exponents
<1> QED
  BY <1>1, <1>2

\* The power an index is in the slice of.
LEMMA SliceOf ==
  ASSUME NEW x \in 0 .. twoto(27)
  PROVE  /\ ceillog2(x) \in 0 .. 27
         /\ x <= twoto(ceillog2(x))
         /\ ceillog2(x) = 0 \/ x > twoto(ceillog2(x) - 1)
<1>1. x \in Nat /\ x <= 134217728
  BY PowerValues
<1>2. \E i \in 0 .. 27 : x <= twoto(i) /\ (i = 0 \/ x > twoto(i - 1))
  BY <1>1, PowerValues
<1> QED
  BY <1>2 DEF ceillog2

LEMMA SliceInPart ==
  ASSUME NEW i \in 0 .. 27, NEW x \in 0 .. twoto(i)
  PROVE  ceillog2(x) \in 0 .. i /\ x <= twoto(ceillog2(x))
<1>1. twoto(i) <= twoto(27) /\ x \in Nat /\ twoto(i) \in Nat /\ twoto(27) \in Nat /\ x <= twoto(i)
  BY PowersGrow, PowersArePositive
<1>2. x \in 0 .. twoto(27)
  BY <1>1
<1> DEFINE c == ceillog2(x)
<1>3. c \in 0 .. 27 /\ x <= twoto(c) /\ (c = 0 \/ x > twoto(c - 1))
  BY <1>2, SliceOf
<1> HIDE DEF c
<1>4. c > i => twoto(i) <= twoto(c - 1) /\ twoto(c - 1) \in Nat
  BY <1>3, PowersGrow, PowersArePositive
<1>5. c <= i
  BY <1>1, <1>3, <1>4
<1> QED
  BY <1>3, <1>5 DEF c

-----------------------------------------------------------------------------
(* Links. nx takes a node to the next one, or to -1.                         *)

Links(nx, D) == nx \in [D -> D \cup {-1}] /\ -1 \notin D

Followed(nx, S) == \A k \in S : nx[k] = -1 \/ nx[k] \in S

\* The nodes from i on.
Onward(nx, D, i) == {j \in D : \A S \in SUBSET D : i \in S /\ Followed(nx, S) => j \in S}

\* Every way along the links ends.
NoCycle(nx, D) == \A S \in SUBSET D : (\A k \in S : nx[k] \in S) => S = {}

LEMMA OnwardSelf ==
  ASSUME NEW nx, NEW D, NEW i \in D
  PROVE  i \in Onward(nx, D, i) /\ Onward(nx, D, i) \subseteq D
  BY DEF Onward

LEMMA OnwardWithin ==
  ASSUME NEW nx, NEW D, NEW S \in SUBSET D, NEW i \in S, Followed(nx, S)
  PROVE  Onward(nx, D, i) \subseteq S
  BY DEF Onward

LEMMA OnwardIsFollowed ==
  ASSUME NEW nx, NEW D, Links(nx, D), NEW i \in D
  PROVE  Followed(nx, Onward(nx, D, i))
<1> SUFFICES ASSUME NEW k \in Onward(nx, D, i), nx[k] # -1
             PROVE  nx[k] \in Onward(nx, D, i)
  BY DEF Followed
<1>1. k \in D /\ nx[k] \in D
  BY DEF Onward, Links
<1>2. \A S \in SUBSET D : i \in S /\ Followed(nx, S) => nx[k] \in S
  BY DEF Onward, Followed
<1> QED
  BY <1>1, <1>2 DEF Onward

LEMMA OnwardTransitive ==
  ASSUME NEW nx, NEW D, Links(nx, D), NEW i \in D, NEW j \in Onward(nx, D, i)
  PROVE  j \in D /\ Onward(nx, D, j) \subseteq Onward(nx, D, i)
<1>1. Followed(nx, Onward(nx, D, i)) /\ Onward(nx, D, i) \in SUBSET D
  BY OnwardIsFollowed, OnwardSelf
<1> QED
  BY <1>1, OnwardWithin

LEMMA OnwardStep ==
  ASSUME NEW nx, NEW D, Links(nx, D), NEW i \in D
  PROVE  Onward(nx, D, i) = {i} \cup (IF nx[i] = -1 THEN {} ELSE Onward(nx, D, nx[i]))
<1> DEFINE rest == IF nx[i] = -1 THEN {} ELSE Onward(nx, D, nx[i])
<1>1. nx[i] = -1 \/ nx[i] \in D
  BY DEF Links
<1>2. {i} \cup rest \in SUBSET D
  BY <1>1, OnwardSelf
<1>3. Followed(nx, {i} \cup rest)
  <2>1. nx[i] # -1 => nx[i] \in rest /\ Followed(nx, rest)
    BY <1>1, OnwardSelf, OnwardIsFollowed
  <2> QED
    BY <2>1 DEF Followed
<1>4. Onward(nx, D, i) \subseteq {i} \cup rest
  BY <1>2, <1>3, OnwardWithin
<1>5. nx[i] # -1 => nx[i] \in Onward(nx, D, i)
  BY <1>1, OnwardSelf, OnwardIsFollowed DEF Followed
<1>6. nx[i] # -1 => rest \subseteq Onward(nx, D, i)
  BY <1>5, OnwardTransitive
<1> QED
  BY <1>4, <1>6, OnwardSelf

LEMMA OnwardOneWay ==
  ASSUME NEW nx, NEW D, Links(nx, D), NoCycle(nx, D),
         NEW i \in D, NEW j \in Onward(nx, D, i), i \in Onward(nx, D, j)
  PROVE  i = j
<1> SUFFICES ASSUME i # j PROVE FALSE
  OBVIOUS
<1> DEFINE S == {k \in D : i \in Onward(nx, D, k) /\ k \in Onward(nx, D, i)}
<1>1. ASSUME NEW k \in S PROVE nx[k] \in S
  <2>1. k \in D /\ i \in Onward(nx, D, k) /\ k \in Onward(nx, D, i)
    OBVIOUS
  <2>2. Onward(nx, D, k) = {k} \cup (IF nx[k] = -1 THEN {} ELSE Onward(nx, D, nx[k]))
    BY <2>1, OnwardStep
  <2>3. nx[k] # -1 /\ i \in Onward(nx, D, nx[k])
    <3>1. CASE k # i
      BY <2>1, <2>2, <3>1
    <3>2. CASE k = i
      <4>1. nx[k] # -1 /\ j \in Onward(nx, D, nx[k])
        BY <2>2, <3>2
      <4>2. nx[k] \in D
        BY <2>1, <4>1 DEF Links
      <4> QED
        BY <4>1, <4>2, OnwardTransitive
    <3> QED
      BY <3>1, <3>2
  <2>4. nx[k] \in Onward(nx, D, i)
    BY <2>1, <2>3, OnwardIsFollowed DEF Followed
  <2> QED
    BY <2>3, <2>4, OnwardSelf
<1>2. i \in S
  BY OnwardSelf
<1> QED
  BY <1>1, <1>2 DEF NoCycle

LEMMA OnwardOneChain ==
  ASSUME NEW nx, NEW D, Links(nx, D), NEW i \in D,
         NEW j \in Onward(nx, D, i), NEW k \in Onward(nx, D, i)
  PROVE  k \in Onward(nx, D, j) \/ j \in Onward(nx, D, k)
<1> DEFINE S == {m \in Onward(nx, D, i) : m \in Onward(nx, D, j) \/ j \in Onward(nx, D, m)}
<1>1. S \in SUBSET D /\ i \in S
  BY OnwardSelf
<1>2. ASSUME NEW m \in S, nx[m] # -1 PROVE nx[m] \in S
  <2>1. nx[m] \in Onward(nx, D, i)
    BY <1>2, OnwardIsFollowed DEF Followed
  <2>2. m \in D /\ j \in D
    BY OnwardSelf
  <2>3. m \in Onward(nx, D, j) => nx[m] \in Onward(nx, D, j)
    BY <1>2, <2>2, OnwardIsFollowed DEF Followed
  <2>4. j \in Onward(nx, D, m) => j = m \/ j \in Onward(nx, D, nx[m])
    BY <1>2, <2>2, OnwardStep
  <2>5. j \in Onward(nx, D, j)
    BY <2>2, OnwardSelf
  <2> QED
    BY <2>1, <2>3, <2>4, <2>5
<1>3. Followed(nx, S)
  BY <1>2 DEF Followed
<1>4. k \in S
  BY <1>1, <1>3, OnwardWithin
<1> QED
  BY <1>4

\* Some nodes of a chain have a first one.
LEMMA OnwardFirst ==
  ASSUME NEW nx, NEW D, Links(nx, D), NoCycle(nx, D), NEW i \in D,
         NEW T \in SUBSET Onward(nx, D, i), T # {}
  PROVE  \E j \in T : T \subseteq Onward(nx, D, j)
<1> SUFFICES ASSUME \A j \in T : ~(T \subseteq Onward(nx, D, j)) PROVE FALSE
  OBVIOUS
<1> DEFINE S == {k \in D : T \subseteq Onward(nx, D, k)}
<1>1. ASSUME NEW k \in S PROVE nx[k] \in S
  <2>1. k \notin T /\ k \in D
    OBVIOUS
  <2>2. Onward(nx, D, k) = {k} \cup (IF nx[k] = -1 THEN {} ELSE Onward(nx, D, nx[k]))
    BY <2>1, OnwardStep
  <2>3. nx[k] # -1 /\ T \subseteq Onward(nx, D, nx[k])
    BY <2>1, <2>2
  <2> QED
    BY <2>1, <2>3 DEF Links
<1>2. i \in S
  OBVIOUS
<1> QED
  BY <1>1, <1>2 DEF NoCycle

-----------------------------------------------------------------------------
(* Positions                                                                 *)

\* Everything that can be looked for, the indices of unbound_search included.
KeySpace ==
  [tt : {"number"}, n : 0 .. twoto(30) - 1] \cup [tt : {"string"}, hash : Nat]
  \cup [tt : {"boolean"}, b : {0, 1}] \cup [tt : {"object"}, at : Nat]

Nodes(tab) == 0 .. twoto(tab.lsizenode) - 1

LEMMA KeysAreKeys ==
  /\ Keys \subseteq KeySpace
  /\ Nil \notin KeySpace
  /\ \A key \in Keys : arrayindex(key) < twoto(27)
  /\ \A key \in KeySpace : arrayindex(key) \in Int
<1>1. twoto(28) = 268435456 /\ twoto(30) = 1073741824 /\ twoto(27) = 134217728
  BY PowerValues
<1>2. Keys \subseteq KeySpace
  BY <1>1, TableConstants DEF KeySpace
<1>3. \A key \in Keys : arrayindex(key) < twoto(27)
  BY <1>1, TableConstants DEF arrayindex
<1>4. \A key \in KeySpace : arrayindex(key) \in Int
  BY <1>1 DEF arrayindex, KeySpace
<1> QED
  BY <1>2, <1>3, <1>4 DEF Nil, KeySpace

LEMMA IndexOfNumber ==
  ASSUME NEW i \in Nat
  PROVE  /\ arrayindex(Number(i)) = i
         /\ i < twoto(29) => Number(i) \in KeySpace
         /\ \A key \in KeySpace : arrayindex(key) = i => key = Number(i)
<1>1. twoto(29) = 536870912 /\ twoto(30) = 1073741824
  BY PowerValues
<1>2. arrayindex(Number(i)) = i
  BY DEF arrayindex, Number
<1>3. i < twoto(29) => Number(i) \in KeySpace
  BY <1>1 DEF Number, KeySpace
<1>4. ASSUME NEW key \in KeySpace, arrayindex(key) = i PROVE key = Number(i)
  <2>1. key.tt = "number" /\ key.n % 2 = 0 /\ key.n \div 2 = i
    BY <1>4 DEF arrayindex
  <2>2. key \in [tt : {"number"}, n : 0 .. twoto(30) - 1]
    BY <2>1 DEF KeySpace
  <2>3. key.n \in Nat
    BY <1>1, <2>2
  <2>4. key.n = 2 * i
    BY <2>1, <2>3
  <2> QED
    BY <2>2, <2>4 DEF Number
<1> QED
  BY <1>2, <1>3, <1>4

LEMMA WordsAreNumbers ==
  ASSUME NEW n \in 1 .. twoto(30) - 1
  PROVE  Words(n) \in Nat
<1> DEFINE f == CHOOSE i \in 0 .. 29 : twoto(i) <= n /\ n < twoto(i + 1)
           rest == n - twoto(f)
           exponent == (1022 + f) * twoto(20)
<1>1. \E i \in 0 .. 29 : twoto(i) <= n /\ n < twoto(i + 1)
  <2>1. n \in Nat /\ n >= 1 /\ n < 1073741824
    BY PowerValues
  <2> QED
    BY <2>1, PowerValues
<1>2. f \in 0 .. 29 /\ twoto(f) <= n
  BY <1>1
<1> HIDE DEF f
<1>3. n \in Nat /\ twoto(f) \in Nat /\ rest \in Nat
  BY <1>2, PowersArePositive, PowerValues
<1>4. exponent \in Nat
  BY <1>2, PowerValues
<1> HIDE DEF rest, exponent
<1>5. CASE f <= 20
  <2>1. twoto(20 - f) \in Nat
    BY <1>2, <1>5, PowersArePositive
  <2>2. rest * twoto(20 - f) \in Nat
    BY <1>3, <2>1
  <2>3. exponent + rest * twoto(20 - f) \in Nat
    BY <1>4, <2>2
  <2> QED
    BY <1>5, <2>3 DEF Words, f, rest, exponent
<1>6. CASE ~(f <= 20)
  <2>1. twoto(f - 20) \in Nat /\ twoto(f - 20) >= 1 /\ twoto(52 - f) \in Nat
    BY <1>2, <1>6, PowersArePositive
  <2>2. rest \div twoto(f - 20) \in Nat /\ rest % twoto(f - 20) \in Nat
    BY <1>3, <2>1
  <2>3. (rest % twoto(f - 20)) * twoto(52 - f) \in Nat
    BY <2>1, <2>2
  <2>4. exponent + rest \div twoto(f - 20) + (rest % twoto(f - 20)) * twoto(52 - f) \in Nat
    BY <1>4, <2>2, <2>3
  <2>5. (exponent + rest \div twoto(f - 20) + (rest % twoto(f - 20)) * twoto(52 - f)) % twoto(32) \in Nat
    BY <2>4, PowerValues
  <2> QED
    BY <1>6, <2>5 DEF Words, f, rest, exponent
<1> QED
  BY <1>5, <1>6

LEMMA MainIsNode ==
  ASSUME NEW tab, tab.lsizenode \in 0 .. MAXBITS, NEW key \in KeySpace
  PROVE  mainposition(tab, key) \in Nodes(tab)
<1> DEFINE size == twoto(tab.lsizenode)
<1>1. size \in Nat /\ size >= 1
  BY PowersArePositive DEF MAXBITS
<1>2. \A n \in Nat : n % size \in 0 .. size - 1
  BY <1>1
<1>3. \A n \in Nat : n % (IF size = 1 THEN 1 ELSE size - 1) \in 0 .. size - 1
  BY <1>1
<1> HIDE DEF size
<1>4. CASE key.tt = "number"
  <2>1. key \in [tt : {"number"}, n : 0 .. twoto(30) - 1]
    BY <1>4 DEF KeySpace
  <2>2. key.n \in 0 .. twoto(30) - 1
    BY <2>1
  <2>3. key.n # 0 => Words(key.n) \in Nat
    BY <2>2, WordsAreNumbers, PowerValues
  <2>4. hashnum(tab, key.n) \in 0 .. size - 1
    BY <1>1, <1>3, <2>3 DEF hashnum, hashmod, sizenode, size
  <2> QED
    BY <1>4, <2>4 DEF mainposition, Nodes, size
<1>5. CASE key.tt = "string"
  <2>1. key.hash \in Nat
    BY <1>5 DEF KeySpace
  <2> QED
    BY <1>2, <1>5, <2>1 DEF mainposition, hashpow2, sizenode, Nodes, size
<1>6. CASE key.tt = "boolean"
  <2>1. key.b \in Nat
    BY <1>6 DEF KeySpace
  <2> QED
    BY <1>2, <1>6, <2>1 DEF mainposition, hashpow2, sizenode, Nodes, size
<1>7. CASE key.tt = "object"
  <2>1. key.at \in Nat
    BY <1>7 DEF KeySpace
  <2> QED
    BY <1>3, <1>7, <2>1 DEF mainposition, hashmod, sizenode, Nodes, size
<1> QED
  BY <1>4, <1>5, <1>6, <1>7 DEF KeySpace

LEMMA MainBySize ==
  ASSUME NEW tab, NEW other, tab.lsizenode = other.lsizenode, NEW key
  PROVE  mainposition(tab, key) = mainposition(other, key)
  BY DEF mainposition, hashnum, hashmod, hashpow2, sizenode

-----------------------------------------------------------------------------
(* Tables as they should be                                                  *)

NodeSet(tab) ==
  [key : Keys \cup {Nil}, dead : BOOLEAN, val : Values \cup {nil}, next : Nodes(tab) \cup {-1}]

Shape(tab) ==
  tab \in [array : [1 .. tab.sizearray -> Values \cup {nil}], sizearray : 0 .. twoto(MAXBITS),
           node : [Nodes(tab) -> NodeSet(tab)],
           lsizenode : 0 .. MAXBITS, lastfree : 0 .. twoto(tab.lsizenode), dummy : BOOLEAN]

Nexts(tab) == [i \in Nodes(tab) |-> tab.node[i].next]
On(tab, i) == Onward(Nexts(tab), Nodes(tab), i)
Occupied(tab, i) == tab.node[i].key # Nil
Home(tab, i) == mainposition(tab, tab.node[i].key)

\* A node is on the chain of its key's main position, which the first node of that
\* chain is in; chains may meet in a node, where the rest is common to them. Of
\* several nodes with one key all have died but the first.
Chains(tab) ==
  /\ NoCycle(Nexts(tab), Nodes(tab))
  /\ \A i, j \in Nodes(tab) : i # j /\ tab.node[i].next = tab.node[j].next => tab.node[i].next = -1
  /\ \A i \in Nodes(tab) : tab.node[i].next # -1 =>
       Occupied(tab, i) /\ Occupied(tab, tab.node[i].next)
  /\ \A i \in Nodes(tab) : Occupied(tab, i) =>
       /\ i \in On(tab, Home(tab, i))
       /\ Occupied(tab, Home(tab, i))
       /\ Home(tab, Home(tab, i)) = Home(tab, i)
  /\ \A i, j \in Nodes(tab) :
       i # j /\ Occupied(tab, i) /\ tab.node[i].key = tab.node[j].key /\ ~tab.node[i].dead =>
         tab.node[j].dead /\ j \in On(tab, i)

\* Only a live key has a value, no key of the array part is in a node, and the free
\* nodes are below lastfree.
Fields(tab) ==
  /\ \A i \in Nodes(tab) : tab.node[i].val # nil => Occupied(tab, i) /\ ~tab.node[i].dead
  /\ \A i \in Nodes(tab) : Occupied(tab, i) => ~InArray(tab, tab.node[i].key)
  /\ \A i \in Nodes(tab) : ~Occupied(tab, i) => ~tab.node[i].dead
  /\ \A i \in 1 .. tab.sizearray : tab.array[i] # nil => Number(i) \in Keys
  /\ tab.dummy => tab.lsizenode = 0 /\ tab.lastfree = 0 /\ ~Occupied(tab, 0)
  /\ ~tab.dummy => \A i \in Nodes(tab) : i >= tab.lastfree => Occupied(tab, i)

WellFormed(tab) == Shape(tab) /\ Chains(tab) /\ Fields(tab)

Live(tab, i, key) == tab.node[i].key = key /\ ~tab.node[i].dead

-----------------------------------------------------------------------------
(* Lookup                                                                    *)

LEMMA NodesAreNumbers ==
  ASSUME NEW tab, tab.lsizenode \in 0 .. MAXBITS
  PROVE  /\ twoto(tab.lsizenode) \in Nat /\ twoto(tab.lsizenode) >= 1
         /\ Nodes(tab) \subseteq Nat /\ 0 \in Nodes(tab) /\ -1 \notin Nodes(tab)
  BY PowersArePositive DEF MAXBITS, Nodes

LEMMA ShapeLinks ==
  ASSUME NEW tab, Shape(tab)
  PROVE  /\ Links(Nexts(tab), Nodes(tab))
         /\ DOMAIN tab.node = Nodes(tab)
         /\ \A i \in Nodes(tab) : Nexts(tab)[i] = tab.node[i].next
<1>1. tab.lsizenode \in 0 .. MAXBITS
  BY DEF Shape
<1>2. -1 \notin Nodes(tab)
  BY <1>1, NodesAreNumbers
<1>3. tab.node \in [Nodes(tab) -> NodeSet(tab)]
  BY DEF Shape
<1>4. \A i \in Nodes(tab) : tab.node[i].next \in Nodes(tab) \cup {-1}
  BY <1>3 DEF NodeSet
<1> QED
  BY <1>2, <1>3, <1>4 DEF Links, Nexts

LEMMA ChainIsOnward ==
  ASSUME NEW tab, Shape(tab), NoCycle(Nexts(tab), Nodes(tab)), NEW i \in Nodes(tab)
  PROVE  Chain(tab, i) = On(tab, i)
<1> DEFINE D == Nodes(tab)
           nx == Nexts(tab)
           Steps(h) == h = [j \in DOMAIN tab.node |->
                             {j} \cup (IF tab.node[j].next = -1 THEN {} ELSE h[tab.node[j].next])]
           f == CHOOSE h : Steps(h)
           g == [j \in D |-> On(tab, j)]
           S == {k \in D : f[k] # g[k]}
<1>0. Links(nx, D) /\ DOMAIN tab.node = D /\ \A k \in D : nx[k] = tab.node[k].next
  BY ShapeLinks
<1>1. Steps(g)
  <2>1. \A j \in D : g[j] = {j} \cup (IF nx[j] = -1 THEN {} ELSE g[nx[j]])
    BY <1>0, OnwardStep DEF Links, On
  <2> HIDE DEF nx
  <2> QED
    BY <1>0, <2>1
<1>2. Steps(f)
  BY <1>1
<1>3. \A k \in S : nx[k] \in S
  <2> SUFFICES ASSUME NEW k \in S PROVE nx[k] \in S
    OBVIOUS
  <2>0. k \in D /\ (nx[k] = -1 \/ nx[k] \in D) /\ nx[k] = tab.node[k].next
    BY <1>0 DEF Links
  <2>1. f[k] = {k} \cup (IF tab.node[k].next = -1 THEN {} ELSE f[tab.node[k].next])
    BY <1>0, <1>2
  <2>2. g[k] = {k} \cup (IF tab.node[k].next = -1 THEN {} ELSE g[tab.node[k].next])
    BY <1>0, <1>1
  <2> HIDE DEF f, g, nx, D
  <2> QED
    BY <2>0, <2>1, <2>2
<1>4. S = {}
  BY <1>3 DEF NoCycle
<1> HIDE DEF g
<1>5. f[i] = g[i]
  BY <1>4
<1>6. Chain(tab, i) = f[i]
  BY DEF Chain
<1> QED
  BY <1>5, <1>6 DEF g

\* The first of some nodes of one chain.
LEMMA FirstOfChain ==
  ASSUME NEW tab, Shape(tab), NoCycle(Nexts(tab), Nodes(tab)), NEW i \in Nodes(tab),
         NEW T \in SUBSET On(tab, i), T # {}
  PROVE  /\ FirstNode(tab, T) \in T /\ T \subseteq On(tab, FirstNode(tab, T))
         /\ \A j \in T : T \subseteq On(tab, j) => FirstNode(tab, T) = j
<1> DEFINE D == Nodes(tab)
           nx == Nexts(tab)
<1>1. Links(nx, D)
  BY ShapeLinks
<1>2. T \subseteq D
  BY OnwardSelf DEF On
<1>3. \A j \in T : Chain(tab, j) = On(tab, j)
  BY <1>2, ChainIsOnward
<1>4. \E j \in T : T \subseteq On(tab, j)
  BY <1>1, OnwardFirst DEF On
<1>5. FirstNode(tab, T) \in T /\ T \subseteq On(tab, FirstNode(tab, T))
  BY <1>3, <1>4 DEF FirstNode
<1>6. ASSUME NEW j \in T, T \subseteq On(tab, j) PROVE FirstNode(tab, T) = j
  BY <1>1, <1>2, <1>5, <1>6, OnwardOneWay DEF On
<1> QED
  BY <1>5, <1>6

LEMMA ArrayPlace ==
  ASSUME NEW tab, NEW key \in KeySpace, InArray(tab, key)
  PROVE  /\ Place(tab, key) = <<"array", arrayindex(key)>>
         /\ luaH_get(tab, key) = tab.array[arrayindex(key)]
         /\ findindex(tab, key) = arrayindex(key)
<1>1. key # Nil
  BY KeysAreKeys
<1>2. Place(tab, key) = <<"array", arrayindex(key)>>
  BY <1>1 DEF Place
<1> QED
  BY <1>1, <1>2 DEF luaH_get, ValueAt, findindex

\* A live node is found, by luaH_get and by a traversal.
LEMMA NodePlace ==
  ASSUME NEW tab, WellFormed(tab), NEW key \in KeySpace,
         NEW i \in Nodes(tab), Live(tab, i, key)
  PROVE  /\ ~InArray(tab, key)
         /\ Place(tab, key) = <<"node", i>>
         /\ luaH_get(tab, key) = tab.node[i].val
         /\ findindex(tab, key) = tab.sizearray + i + 1
<1> DEFINE main == mainposition(tab, key)
           same == {j \in Chain(tab, main) : tab.node[j].key = key}
           alive == {j \in Chain(tab, main) : tab.node[j].key = key /\ ~tab.node[j].dead}
<1>1. key # Nil /\ Occupied(tab, i) /\ Home(tab, i) = main
  BY KeysAreKeys DEF Live, Occupied, Home
<1>2. ~InArray(tab, key)
  BY <1>1 DEF WellFormed, Fields, Live
<1>3. main \in Nodes(tab)
  BY MainIsNode DEF WellFormed, Shape
<1>4. Chain(tab, main) = On(tab, main) /\ On(tab, main) \subseteq Nodes(tab)
  BY <1>3, ChainIsOnward, OnwardSelf DEF WellFormed, Chains, On
<1>5. i \in Chain(tab, main)
  BY <1>1, <1>4 DEF WellFormed, Chains
<1>6. i \in On(tab, i)
  BY OnwardSelf DEF On
<1>7. i \in same /\ same \subseteq On(tab, i)
  <2>1. ASSUME NEW j \in same, j # i PROVE j \in On(tab, i)
    BY <1>1, <1>4, <2>1 DEF WellFormed, Chains, Live
  <2> QED
    BY <1>5, <1>6, <2>1 DEF Live
<1>8. i \in alive /\ alive \subseteq same
  BY <1>5 DEF Live
<1>9. same \in SUBSET On(tab, main) /\ alive \in SUBSET On(tab, main)
  BY <1>4
<1>10. Shape(tab) /\ NoCycle(Nexts(tab), Nodes(tab))
  BY DEF WellFormed, Chains
<1>11. i # -1
  BY NodesAreNumbers, <1>10 DEF Shape
<1> HIDE DEF main, same, alive
<1>12. FirstNode(tab, same) = i
  BY <1>3, <1>7, <1>9, <1>10, FirstOfChain
<1>13. FirstNode(tab, alive) = i
  BY <1>3, <1>7, <1>8, <1>9, <1>10, FirstOfChain
<1>14. NodeOf(tab, key) = i
  BY <1>13 DEF NodeOf, alive, main
<1>15. Place(tab, key) = <<"node", i>>
  BY <1>1, <1>2, <1>11, <1>14 DEF Place
<1>16. luaH_get(tab, key) = tab.node[i].val
  BY <1>15 DEF luaH_get, ValueAt
<1>17. findindex(tab, key) = tab.sizearray + i + 1
  BY <1>1, <1>2, <1>11, <1>12 DEF findindex, same, main
<1> QED
  BY <1>2, <1>15, <1>16, <1>17

LEMMA NoPlace ==
  ASSUME NEW tab, WellFormed(tab), NEW key \in KeySpace, ~InArray(tab, key),
         \A i \in Nodes(tab) : ~Live(tab, i, key)
  PROVE  Place(tab, key) = Nowhere /\ luaH_get(tab, key) = nil
<1> DEFINE main == mainposition(tab, key)
<1>1. main \in Nodes(tab)
  BY MainIsNode DEF WellFormed, Shape
<1>2. Chain(tab, main) \subseteq Nodes(tab)
  BY <1>1, ChainIsOnward, OnwardSelf DEF WellFormed, Chains, On
<1>3. {j \in Chain(tab, main) : tab.node[j].key = key /\ ~tab.node[j].dead} = {}
  BY <1>2 DEF Live
<1>4. NodeOf(tab, key) = -1
  BY <1>3 DEF NodeOf, FirstNode
<1>5. key # Nil
  BY KeysAreKeys
<1>6. Place(tab, key) = Nowhere
  BY <1>4, <1>5 DEF Place
<1> QED
  BY <1>6 DEF luaH_get, ValueAt, Nowhere

\* What luaH_get finds, and where.
LEMMA PlaceCases ==
  ASSUME NEW tab, WellFormed(tab), NEW key \in KeySpace
  PROVE  \/ /\ InArray(tab, key)
            /\ arrayindex(key) \in 1 .. tab.sizearray
            /\ Place(tab, key) = <<"array", arrayindex(key)>>
            /\ luaH_get(tab, key) = tab.array[arrayindex(key)]
         \/ /\ ~InArray(tab, key)
            /\ \E i \in Nodes(tab) : /\ Live(tab, i, key)
                                     /\ Place(tab, key) = <<"node", i>>
                                     /\ luaH_get(tab, key) = tab.node[i].val
         \/ /\ ~InArray(tab, key)
            /\ \A i \in Nodes(tab) : ~Live(tab, i, key)
            /\ Place(tab, key) = Nowhere
            /\ luaH_get(tab, key) = nil
<1>1. CASE InArray(tab, key)
  BY <1>1, ArrayPlace DEF InArray
<1>2. CASE ~InArray(tab, key)
  BY <1>2, NodePlace, NoPlace
<1> QED
  BY <1>1, <1>2

\* A key that is not in Keys has no value, and only a key with a value is there.
LEMMA OnlyKeysHaveValues ==
  ASSUME NEW tab, WellFormed(tab), NEW key \in KeySpace
  PROVE  /\ luaH_get(tab, key) \in Values \cup {nil}
         /\ luaH_get(tab, key) # nil => key \in Keys
<1>1. CASE InArray(tab, key)
  <2>1. luaH_get(tab, key) = tab.array[arrayindex(key)] /\ arrayindex(key) \in 1 .. tab.sizearray
    BY <1>1, ArrayPlace DEF InArray
  <2>2. arrayindex(key) \in Nat /\ tab.array \in [1 .. tab.sizearray -> Values \cup {nil}]
    BY <2>1 DEF WellFormed, Shape
  <2>3. key = Number(arrayindex(key))
    BY <2>2, IndexOfNumber
  <2> QED
    BY <2>1, <2>2, <2>3 DEF WellFormed, Fields
<1>2. CASE ~InArray(tab, key)
  <2>1. \A i \in Nodes(tab) : tab.node[i].key \in Keys \cup {Nil} /\ tab.node[i].val \in Values \cup {nil}
    BY DEF WellFormed, Shape, NodeSet
  <2>2. CASE \E i \in Nodes(tab) : Live(tab, i, key)
    BY <1>2, <2>1, <2>2, NodePlace, KeysAreKeys DEF Live
  <2>3. CASE \A i \in Nodes(tab) : ~Live(tab, i, key)
    BY <1>2, <2>3, NoPlace
  <2> QED
    BY <2>2, <2>3
<1> QED
  BY <1>1, <1>2

-----------------------------------------------------------------------------
(* Changes of the links                                                      *)

OneBefore(nx, D) == \A i, j \in D : i # j /\ nx[i] = nx[j] => nx[i] = -1

\* A node of no chain is put in behind another.
PutBehind(nx, m, n) == [nx EXCEPT ![n] = nx[m], ![m] = n]

LEMMA InsertLink ==
  ASSUME NEW nx, NEW D, Links(nx, D), NoCycle(nx, D), OneBefore(nx, D),
         NEW m \in D, NEW n \in D, m # n, nx[n] = -1, \A k \in D : nx[k] # n,
         NEW new, new = PutBehind(nx, m, n)
  PROVE  /\ Links(new, D) /\ NoCycle(new, D) /\ OneBefore(new, D)
         /\ \A i \in D : Onward(nx, D, i) \subseteq Onward(new, D, i)
         /\ n \in Onward(new, D, m)
         /\ \A j \in Onward(nx, D, m) : j # m => j \in Onward(new, D, n)
<1>1. new \in [D -> D \cup {-1}]
  BY DEF Links, PutBehind
<1>2. /\ new[n] = nx[m] /\ new[m] = n
      /\ \A k \in D : k # m /\ k # n => new[k] = nx[k]
  BY DEF Links, PutBehind
<1>3. Links(new, D)
  BY <1>1 DEF Links
<1>4. NoCycle(new, D)
  <2> SUFFICES ASSUME NEW S \in SUBSET D, \A k \in S : new[k] \in S PROVE S = {}
    BY DEF NoCycle
  <2>1. \A k \in S \ {n} : nx[k] \in S \ {n}
    <3> SUFFICES ASSUME NEW k \in S \ {n} PROVE nx[k] \in S \ {n}
      OBVIOUS
    <3>1. CASE k = m
      BY <1>2, <3>1
    <3>2. CASE k # m
      BY <1>2, <3>2
    <3> QED
      BY <3>1, <3>2
  <2>2. S \ {n} = {}
    BY <2>1 DEF NoCycle
  <2>3. n \notin S
    BY <1>2, <2>2
  <2> QED
    BY <2>2, <2>3
<1>5. OneBefore(new, D)
  <2>1. \A i \in D : i # m => new[i] # n
    BY <1>2
  <2>2. \A i, j \in D \ {m} : i # j /\ new[i] = new[j] => new[i] = -1
    <3> SUFFICES ASSUME NEW i \in D \ {m}, NEW j \in D \ {m}, i # j, new[i] = new[j]
                 PROVE  new[i] = -1
      OBVIOUS
    <3>1. CASE i = n
      BY <1>2, <3>1 DEF OneBefore
    <3>2. CASE j = n
      BY <1>2, <3>2 DEF OneBefore
    <3>3. CASE i # n /\ j # n
      BY <1>2, <3>3 DEF OneBefore
    <3> QED
      BY <3>1, <3>2, <3>3
  <2>3. ASSUME NEW i \in D, NEW j \in D, i # j, new[i] = new[j] PROVE new[i] = -1
    BY <1>2, <2>1, <2>2, <2>3
  <2> QED
    BY <2>3 DEF OneBefore
<1>6. \A i \in D : n # -1 /\ (new[i] # -1 => new[i] \in D)
  BY <1>3 DEF Links
<1>7. ASSUME NEW S \in SUBSET D, Followed(new, S), NEW k \in S, nx[k] # -1 PROVE nx[k] \in S
  <2>1. CASE k = m
    <3>1. n \in S
      BY <1>2, <1>6, <1>7, <2>1 DEF Followed
    <3> QED
      BY <1>2, <1>7, <2>1, <3>1 DEF Followed
  <2>2. CASE k # m
    BY <1>2, <1>7, <2>2 DEF Followed
  <2> QED
    BY <2>1, <2>2
<1>8. ASSUME NEW i \in D PROVE Onward(nx, D, i) \subseteq Onward(new, D, i)
  <2>1. Followed(new, Onward(new, D, i)) /\ Onward(new, D, i) \in SUBSET D /\ i \in Onward(new, D, i)
    BY <1>3, OnwardIsFollowed, OnwardSelf
  <2>2. Followed(nx, Onward(new, D, i))
    BY <1>7, <2>1 DEF Followed
  <2> QED
    BY <2>1, <2>2, OnwardWithin
<1>9. n \in Onward(new, D, m)
  <2>1. m \in Onward(new, D, m) /\ Followed(new, Onward(new, D, m))
    BY <1>3, OnwardIsFollowed, OnwardSelf
  <2> QED
    BY <1>2, <1>6, <2>1 DEF Followed
<1>10. ASSUME NEW j \in Onward(nx, D, m), j # m PROVE j \in Onward(new, D, n)
  <2> DEFINE T == Onward(new, D, n)
  <2>1. Followed(new, T) /\ T \in SUBSET D /\ n \in T
    BY <1>3, OnwardIsFollowed, OnwardSelf
  <2>2. Followed(nx, T)
    BY <1>7, <2>1 DEF Followed
  <2>3. nx[m] = -1 \/ nx[m] \in T
    BY <1>2, <2>1 DEF Followed
  <2>4. Followed(nx, {m} \cup T)
    BY <2>2, <2>3 DEF Followed
  <2>5. Onward(nx, D, m) \subseteq {m} \cup T
    BY <2>1, <2>4, OnwardWithin
  <2> QED
    BY <1>10, <2>5
<1> QED
  BY <1>3, <1>4, <1>5, <1>8, <1>9, <1>10

\* A node gives its place in its chain to one of no chain.
PutBetween(nx, p, m, n) == [nx EXCEPT ![p] = n, ![n] = nx[m], ![m] = -1]

Moved(m, n, i) == IF i = m THEN n ELSE i

LEMMA MoveLink ==
  ASSUME NEW nx, NEW D, Links(nx, D), NoCycle(nx, D), OneBefore(nx, D),
         NEW m \in D, NEW n \in D, NEW p \in D, m # n, p # m, p # n,
         nx[p] = m, nx[n] = -1, \A k \in D : nx[k] # n,
         NEW new, new = PutBetween(nx, p, m, n)
  PROVE  /\ Links(new, D) /\ NoCycle(new, D) /\ OneBefore(new, D)
         /\ \A i \in D : \A j \in Onward(nx, D, i) : Moved(m, n, j) \in Onward(new, D, Moved(m, n, i))
<1>1. new \in [D -> D \cup {-1}]
  BY DEF Links, PutBetween
<1>2. /\ new[p] = n /\ new[n] = nx[m] /\ new[m] = -1
      /\ \A k \in D : k # p /\ k # m /\ k # n => new[k] = nx[k]
  BY DEF Links, PutBetween
<1>3. Links(new, D)
  BY <1>1 DEF Links
<1>4. nx[m] # m
  <2>1. nx[m] = m => \A k \in {m} : nx[k] \in {m}
    OBVIOUS
  <2> QED
    BY <2>1 DEF NoCycle
<1>5. \A k \in D : k # p => nx[k] # m
  BY DEF OneBefore, Links
<1>6. NoCycle(new, D)
  <2> SUFFICES ASSUME NEW S \in SUBSET D, \A k \in S : new[k] \in S PROVE S = {}
    BY DEF NoCycle
  <2> DEFINE R == {k \in D \ {n} : Moved(m, n, k) \in S}
  <2>1. m \notin S
    BY <1>2 DEF Links
  <2>2. \A k \in R : nx[k] \in R
    <3> SUFFICES ASSUME NEW k \in R PROVE nx[k] \in R
      OBVIOUS
    <3>1. CASE k = m
      BY <1>2, <1>4, <3>1 DEF Moved
    <3>2. CASE k = p
      BY <1>2, <3>2 DEF Moved
    <3>3. CASE k # m /\ k # p
      BY <1>2, <1>5, <3>3 DEF Moved
    <3> QED
      BY <3>1, <3>2, <3>3
  <2>3. R = {}
    BY <2>2 DEF NoCycle
  <2>4. n \notin S
    BY <2>3 DEF Moved
  <2>5. \A k \in D : k # n /\ k # m => k \notin S
    BY <2>3 DEF Moved
  <2> QED
    BY <2>1, <2>4, <2>5
<1>7. OneBefore(new, D)
  <2>1. \A i \in D : i # p => new[i] # n
    <3>1. n # -1
      BY DEF Links
    <3> QED
      BY <1>2, <3>1
  <2>2. \A i, j \in D \ {p} : i # j /\ new[i] = new[j] => new[i] = -1
    <3> SUFFICES ASSUME NEW i \in D \ {p}, NEW j \in D \ {p}, i # j, new[i] = new[j]
                 PROVE  new[i] = -1
      OBVIOUS
    <3>1. CASE i = m \/ j = m
      BY <1>2, <3>1
    <3>2. CASE i = n /\ j # m
      BY <1>2, <3>2 DEF OneBefore
    <3>3. CASE j = n /\ i # m
      BY <1>2, <3>3 DEF OneBefore
    <3>4. CASE i # n /\ j # n /\ i # m /\ j # m
      BY <1>2, <3>4 DEF OneBefore
    <3> QED
      BY <3>1, <3>2, <3>3, <3>4
  <2>3. ASSUME NEW i \in D, NEW j \in D, i # j, new[i] = new[j] PROVE new[i] = -1
    BY <1>2, <2>1, <2>2, <2>3
  <2> QED
    BY <2>3 DEF OneBefore
<1>8. ASSUME NEW i \in D, NEW j \in Onward(nx, D, i)
      PROVE  Moved(m, n, j) \in Onward(new, D, Moved(m, n, i))
  <2> DEFINE s == Moved(m, n, i)
             T == Onward(new, D, s)
             S == {k \in D : Moved(m, n, k) \in T}
  <2>1. s \in D
    BY DEF Moved
  <2>2. Followed(new, T) /\ s \in T
    BY <1>3, <2>1, OnwardIsFollowed, OnwardSelf
  <2> HIDE DEF T
  <2>3. ASSUME NEW k \in S, nx[k] # -1 PROVE nx[k] \in S
    <3>0. nx[k] \in D /\ n # -1
      BY <2>3 DEF Links
    <3>1. CASE k = m
      BY <1>2, <1>4, <2>2, <2>3, <3>0, <3>1 DEF Moved, Followed
    <3>2. CASE k = p
      BY <1>2, <2>2, <3>0, <3>2 DEF Moved, Followed
    <3>3. CASE k # m /\ k # p
      BY <1>2, <1>5, <2>2, <2>3, <3>0, <3>3 DEF Moved, Followed
    <3> QED
      BY <3>1, <3>2, <3>3
  <2>4. Followed(nx, S) /\ i \in S /\ S \in SUBSET D
    BY <2>2, <2>3 DEF Followed
  <2>5. Onward(nx, D, i) \subseteq S
    BY <2>4, OnwardWithin
  <2> QED
    BY <2>5 DEF T
<1> QED
  BY <1>3, <1>6, <1>7, <1>8

\* A node that is not the first of a chain has one before it.
LEMMA OneIsBefore ==
  ASSUME NEW nx, NEW D, Links(nx, D), NEW i \in D, NEW m \in Onward(nx, D, i), m # i
  PROVE  \E p \in Onward(nx, D, i) : nx[p] = m
<1> SUFFICES ASSUME \A p \in Onward(nx, D, i) : nx[p] # m PROVE FALSE
  OBVIOUS
<1> DEFINE S == Onward(nx, D, i) \ {m}
<1>1. Followed(nx, S) /\ i \in S /\ S \in SUBSET D
  BY OnwardSelf, OnwardIsFollowed DEF Followed
<1>2. Onward(nx, D, i) \subseteq S
  BY <1>1, OnwardWithin
<1> QED
  BY <1>2

-----------------------------------------------------------------------------
(* Insertion                                                                 *)

LEMMA ValueInNode ==
  ASSUME NEW tab, WellFormed(tab), NEW key \in KeySpace, ~InArray(tab, key), NEW v, v # nil
  PROVE  luaH_get(tab, key) = v <=>
           \E i \in Nodes(tab) : tab.node[i].key = key /\ tab.node[i].val = v
<1>1. ASSUME NEW i \in Nodes(tab), tab.node[i].key = key, tab.node[i].val = v
      PROVE  luaH_get(tab, key) = v
  <2>1. Live(tab, i, key)
    BY <1>1 DEF WellFormed, Fields, Live
  <2> QED
    BY <1>1, <2>1, NodePlace
<1>2. ASSUME luaH_get(tab, key) = v
      PROVE  \E i \in Nodes(tab) : tab.node[i].key = key /\ tab.node[i].val = v
  BY <1>2, PlaceCases DEF Live
<1> QED
  BY <1>1, <1>2

\* The fields of one hash part are in the other.
Carried(tab, other) ==
  \A i \in Nodes(tab) : tab.node[i].val # nil =>
    \E j \in Nodes(other) :
      other.node[j].key = tab.node[i].key /\ other.node[j].val = tab.node[i].val

LEMMA SameFields ==
  ASSUME NEW tab, NEW other, WellFormed(tab), WellFormed(other),
         tab.sizearray = other.sizearray, tab.array = other.array,
         Carried(tab, other), Carried(other, tab)
  PROVE  \A key \in KeySpace : luaH_get(other, key) = luaH_get(tab, key)
<1> SUFFICES ASSUME NEW key \in KeySpace
             PROVE  luaH_get(other, key) = luaH_get(tab, key)
  OBVIOUS
<1>1. CASE InArray(tab, key)
  <2>1. InArray(other, key)
    BY <1>1 DEF InArray
  <2> QED
    BY <1>1, <2>1, ArrayPlace
<1>2. CASE ~InArray(tab, key)
  <2>1. ~InArray(other, key)
    BY <1>2 DEF InArray
  <2>2. \A v : v # nil => (luaH_get(tab, key) = v <=> luaH_get(other, key) = v)
    <3> SUFFICES ASSUME NEW v, v # nil
                 PROVE  luaH_get(tab, key) = v <=> luaH_get(other, key) = v
      OBVIOUS
    <3>1. luaH_get(tab, key) = v <=>
            \E i \in Nodes(tab) : tab.node[i].key = key /\ tab.node[i].val = v
      BY <1>2, ValueInNode
    <3>2. luaH_get(other, key) = v <=>
            \E i \in Nodes(other) : other.node[i].key = key /\ other.node[i].val = v
      BY <2>1, ValueInNode
    <3> QED
      BY <3>1, <3>2 DEF Carried
  <2> QED
    BY <2>2
<1> QED
  BY <1>1, <1>2

\* What newkey does to a table: node i has the key, and no field changes.
SameSizes(tab, other) ==
  /\ other.sizearray = tab.sizearray
  /\ other.lsizenode = tab.lsizenode
  /\ other.dummy = tab.dummy

Inserted(tab, other, key, i) ==
  /\ WellFormed(other) /\ SameSizes(tab, other)
  /\ i \in Nodes(other) /\ Live(other, i, key)
  /\ \A k \in KeySpace : luaH_get(other, k) = luaH_get(tab, k)
  /\ \A j \in Nodes(other) : j # i /\ Occupied(other, j) =>
       \E k \in Nodes(tab) : Occupied(tab, k) /\ other.node[j].val = tab.node[k].val

\* A table whose nodes change.
WithNodes(tab, nodes, lf) == [tab EXCEPT !.node = nodes, !.lastfree = lf]

LEMMA ShapeWithNodes ==
  ASSUME NEW tab, Shape(tab), NEW nodes \in [Nodes(tab) -> NodeSet(tab)],
         NEW lf \in 0 .. twoto(tab.lsizenode)
  PROVE  LET u == WithNodes(tab, nodes, lf)
         IN  /\ Shape(u) /\ Nodes(u) = Nodes(tab)
             /\ u.array = tab.array /\ u.sizearray = tab.sizearray /\ u.lsizenode = tab.lsizenode
             /\ u.dummy = tab.dummy /\ u.node = nodes /\ u.lastfree = lf
<1> DEFINE u == [tab EXCEPT !.node = nodes, !.lastfree = lf]
<1>1. /\ u.array = tab.array /\ u.sizearray = tab.sizearray /\ u.lsizenode = tab.lsizenode
      /\ u.dummy = tab.dummy /\ u.node = nodes /\ u.lastfree = lf
  BY DEF Shape
<1>2. Nodes(u) = Nodes(tab)
  BY <1>1 DEF Nodes
<1>3. u \in [array : [1 .. tab.sizearray -> Values \cup {nil}], sizearray : 0 .. twoto(MAXBITS),
           node : [Nodes(tab) -> NodeSet(tab)],
           lsizenode : 0 .. MAXBITS, lastfree : 0 .. twoto(tab.lsizenode), dummy : BOOLEAN]
  BY DEF Shape
<1>4. Shape(u)
  BY <1>1, <1>2, <1>3 DEF Shape, NodeSet
<1> QED
  BY <1>1, <1>2, <1>4 DEF WithNodes

LEMMA TakeShape ==
  ASSUME NEW tab, Shape(tab), NEW mp \in Nodes(tab), NEW key \in Keys
  PROVE  LET u == Take(tab, mp, key).tab
         IN  /\ Shape(u) /\ Nodes(u) = Nodes(tab) /\ SameSizes(tab, u)
             /\ u.array = tab.array /\ u.lastfree = tab.lastfree
             /\ u.node[mp].key = key /\ ~u.node[mp].dead
             /\ u.node[mp].val = tab.node[mp].val /\ u.node[mp].next = tab.node[mp].next
             /\ \A k \in Nodes(tab) : k # mp => u.node[k] = tab.node[k]
<1> DEFINE u == Take(tab, mp, key).tab
           nodes == [tab.node EXCEPT ![mp].key = key, ![mp].dead = FALSE]
<1>1. /\ nodes[mp].key = key /\ ~nodes[mp].dead
      /\ nodes[mp].val = tab.node[mp].val /\ nodes[mp].next = tab.node[mp].next
      /\ \A k \in Nodes(tab) : k # mp => nodes[k] = tab.node[k]
  BY DEF Shape, NodeSet
<1>2. nodes \in [Nodes(tab) -> NodeSet(tab)] /\ tab.lastfree \in 0 .. twoto(tab.lsizenode)
  BY DEF Shape, NodeSet
<1>3. u = WithNodes(tab, nodes, tab.lastfree)
  BY DEF Shape, NodeSet, WithNodes, Take
<1> HIDE DEF u, nodes
<1>4. /\ Shape(u) /\ Nodes(u) = Nodes(tab) /\ SameSizes(tab, u)
      /\ u.array = tab.array /\ u.lastfree = tab.lastfree /\ u.node = nodes
  BY <1>2, <1>3, ShapeWithNodes DEF SameSizes
<1> QED
  BY <1>1, <1>4 DEF u

\* The main position is free, or the key there has no value.
LEMMA TakeMain ==
  ASSUME NEW tab, WellFormed(tab), NEW key \in Keys, ~InArray(tab, key),
         \A i \in Nodes(tab) : ~Live(tab, i, key), ~tab.dummy,
         NEW mp, mp = mainposition(tab, key), tab.node[mp].val = nil
  PROVE  Inserted(tab, Take(tab, mp, key).tab, key, mp)
<1> DEFINE u == Take(tab, mp, key).tab
           D == Nodes(tab)
<1>1. key \in KeySpace /\ key # Nil /\ mp \in D
  BY KeysAreKeys, MainIsNode DEF WellFormed, Shape
<1>2. Shape(tab) /\ DOMAIN tab.node = D
  BY ShapeLinks DEF WellFormed
<1>3. /\ Shape(u) /\ Nodes(u) = D /\ SameSizes(tab, u)
      /\ u.array = tab.array /\ u.lastfree = tab.lastfree
      /\ u.node[mp].key = key /\ ~u.node[mp].dead
      /\ u.node[mp].val = tab.node[mp].val /\ u.node[mp].next = tab.node[mp].next
      /\ \A k \in D : k # mp => u.node[k] = tab.node[k]
  BY <1>1, <1>2, TakeShape
<1>4. /\ u.array = tab.array /\ u.sizearray = tab.sizearray /\ u.lsizenode = tab.lsizenode
      /\ u.lastfree = tab.lastfree /\ u.dummy = tab.dummy
  BY <1>3 DEF SameSizes
<1> HIDE DEF u
<1>6. Nexts(u) = Nexts(tab)
  BY <1>3, <1>4 DEF Nexts
<1>7. \A k : On(u, k) = On(tab, k)
  BY <1>3, <1>6 DEF On
<1>8. \A k \in D : Occupied(u, k) <=> k = mp \/ Occupied(tab, k)
  BY <1>1, <1>3, <1>4 DEF Occupied
<1>9. /\ \A k \in D : k # mp => Home(u, k) = Home(tab, k)
      /\ Home(u, mp) = mp
  BY <1>3, <1>4, MainBySize DEF Home
<1>10. Chains(tab) /\ Fields(tab)
  BY DEF WellFormed
<1>11. Chains(u)
  <2>1. \A k \in D : u.node[k].next = tab.node[k].next
    BY <1>3, <1>4
  <2>2. \A i, j \in D : i # j /\ u.node[i].next = u.node[j].next => u.node[i].next = -1
    BY <1>10, <2>1 DEF Chains
  <2>3. \A i \in D : u.node[i].next # -1 => Occupied(u, i) /\ Occupied(u, u.node[i].next)
    <3>1. \A i \in D : u.node[i].next # -1 => u.node[i].next \in D
      BY <1>3, <1>4 DEF Shape, NodeSet
    <3> QED
      BY <1>8, <1>10, <2>1, <3>1 DEF Chains
  <2>4. ASSUME NEW i \in D, Occupied(u, i)
        PROVE  i \in On(u, Home(u, i)) /\ Occupied(u, Home(u, i)) /\ Home(u, Home(u, i)) = Home(u, i)
    <3>1. CASE i = mp
      BY <1>3, <1>8, <1>9, <3>1, OnwardSelf DEF On
    <3>2. CASE i # mp
      <4>1. /\ i \in On(tab, Home(tab, i)) /\ Occupied(tab, Home(tab, i))
            /\ Home(tab, Home(tab, i)) = Home(tab, i)
        BY <1>8, <1>10, <2>4, <3>2 DEF Chains
      <4>2. Home(tab, i) \in D
        <5>1. tab.node[i].key \in Keys
          BY <1>2, <1>8, <2>4, <3>2 DEF Shape, NodeSet, Occupied
        <5> QED
          BY <1>2, <5>1, MainIsNode, KeysAreKeys DEF Home, Shape
      <4> QED
        BY <1>7, <1>8, <1>9, <3>2, <4>1, <4>2
    <3> QED
      BY <3>1, <3>2
  <2>5. ASSUME NEW i \in D, NEW j \in D, i # j, Occupied(u, i), u.node[i].key = u.node[j].key,
               ~u.node[i].dead
        PROVE  u.node[j].dead /\ j \in On(u, i)
    <3>1. CASE i = mp
      <4>1. tab.node[j].key = key /\ tab.node[j].dead
        BY <1>3, <1>4, <2>5, <3>1 DEF Live
      <4>2. Occupied(tab, j) /\ Home(tab, j) = mp
        BY <1>1, <4>1 DEF Occupied, Home
      <4> QED
        BY <1>3, <1>4, <1>7, <1>10, <2>5, <3>1, <4>1, <4>2 DEF Chains
    <3>2. CASE j = mp
      BY <1>3, <1>4, <2>5, <3>2 DEF Live
    <3>3. CASE i # mp /\ j # mp
      BY <1>3, <1>4, <1>7, <1>8, <1>10, <2>5, <3>3 DEF Chains
    <3> QED
      BY <3>1, <3>2, <3>3
  <2> QED
    BY <1>3, <1>6, <1>10, <2>2, <2>3, <2>4, <2>5 DEF Chains
<1>12. Fields(u)
  <2>1. \A i \in D : u.node[i].val # nil => Occupied(u, i) /\ ~u.node[i].dead
    BY <1>3, <1>4, <1>8, <1>10 DEF Fields
  <2>2. \A i \in D : Occupied(u, i) => ~InArray(u, u.node[i].key)
    BY <1>3, <1>4, <1>8, <1>10 DEF Fields, InArray
  <2>3. \A i \in D : ~Occupied(u, i) => ~u.node[i].dead
    BY <1>3, <1>4, <1>8, <1>10 DEF Fields
  <2>4. \A i \in D : i >= u.lastfree => Occupied(u, i)
    BY <1>3, <1>4, <1>8, <1>10 DEF Fields
  <2> QED
    BY <1>3, <1>4, <1>10, <2>1, <2>2, <2>3, <2>4 DEF Fields
<1>13. WellFormed(u)
  BY <1>3, <1>11, <1>12 DEF WellFormed
<1>14. Carried(tab, u) /\ Carried(u, tab)
  BY <1>3, <1>4 DEF Carried
<1>15. \A k \in KeySpace : luaH_get(u, k) = luaH_get(tab, k)
  BY <1>3, <1>4, <1>13, <1>14, SameFields
<1>16. \A j \in D : j # mp /\ Occupied(u, j) => Occupied(tab, j) /\ u.node[j].val = tab.node[j].val
  BY <1>3, <1>4, <1>8
<1> QED
  BY <1>1, <1>3, <1>4, <1>13, <1>15, <1>16 DEF Inserted, Live, u

LEMMA MaxIsGreatest ==
  ASSUME NEW b \in Nat, NEW S \in SUBSET (0 .. b), S # {}
  PROVE  Max(S) \in S /\ \A y \in S : y <= Max(S)
<1> DEFINE Less == OpToRel(<, Nat)
           R == {b - y : y \in S}
<1>1. R \in SUBSET Nat /\ R # {}
  <2>1. \A y \in S : b - y \in Nat
    OBVIOUS
  <2> QED
    BY <2>1
<1>2. PICK x \in R : \A y \in R : ~(<<y, x>> \in Less)
  BY <1>1, NatLessThanWellFounded, WFMin
<1>3. \A y \in R : ~(y < x)
  BY <1>1, <1>2 DEF OpToRel
<1>4. PICK m \in S : x = b - m
  BY <1>2
<1>5. \A y \in S : m >= y
  <2> SUFFICES ASSUME NEW y \in S PROVE m >= y
    OBVIOUS
  <2>1. b - y \in R /\ y \in Nat /\ m \in Nat
    OBVIOUS
  <2> QED
    BY <1>3, <1>4, <2>1
<1>6. Max(S) \in S /\ \A y \in S : Max(S) >= y
  BY <1>5 DEF Max
<1> QED
  BY <1>6

LEMMA FreePosition ==
  ASSUME NEW tab, WellFormed(tab), NEW n, n = getfreepos(tab)
  PROVE  /\ n # -1 => /\ n \in Nodes(tab) /\ n < tab.lastfree /\ ~tab.dummy
                      /\ ~Occupied(tab, n) /\ ~tab.node[n].dead
                      /\ tab.node[n].val = nil /\ tab.node[n].next = -1
                      /\ \A k \in Nodes(tab) : tab.node[k].next # n
                      /\ \A k \in Nodes(tab) : k > n => Occupied(tab, k)
         /\ n = -1 /\ ~tab.dummy => \A k \in Nodes(tab) : Occupied(tab, k)
<1> DEFINE free == {i \in 0 .. tab.lastfree - 1 : tab.node[i].key = Nil}
<1>1. Chains(tab) /\ Fields(tab) /\ Shape(tab)
  BY DEF WellFormed
<1>2. /\ tab.lastfree \in Nat /\ twoto(tab.lsizenode) \in Nat /\ tab.lastfree <= twoto(tab.lsizenode)
      /\ tab.lsizenode \in 0 .. MAXBITS
  BY <1>1, NodesAreNumbers DEF Shape
<1>3. 0 .. tab.lastfree - 1 \subseteq Nodes(tab) /\ Nodes(tab) \subseteq Nat /\ free \subseteq 0 .. tab.lastfree
  BY <1>2 DEF Nodes
<1>4. ~tab.dummy => \A k \in Nodes(tab) : k >= tab.lastfree => Occupied(tab, k)
  BY <1>1 DEF Fields
<1>5. CASE free = {}
  <2>1. \A k \in 0 .. tab.lastfree - 1 : Occupied(tab, k)
    BY <1>5 DEF Occupied
  <2>2. n = -1
    BY <1>5 DEF getfreepos
  <2> QED
    BY <1>2, <1>3, <1>4, <2>1, <2>2
<1>6. CASE free # {}
  <2>1. n = Max(free)
    BY <1>6 DEF getfreepos
  <2>2. n \in free /\ \A k \in free : k <= n
    BY <1>2, <1>3, <1>6, <2>1, MaxIsGreatest
  <2> HIDE DEF free
  <2>3. n \in Nodes(tab) /\ n < tab.lastfree /\ ~Occupied(tab, n) /\ n # -1
    BY <1>2, <1>3, <2>2 DEF Occupied, free
  <2>4. ~tab.dummy
    BY <1>1, <1>3, <2>3 DEF Fields
  <2>5. \A k \in Nodes(tab) : k > n => Occupied(tab, k)
    <3> SUFFICES ASSUME NEW k \in Nodes(tab), k > n, ~Occupied(tab, k) PROVE FALSE
      OBVIOUS
    <3>1. k < tab.lastfree
      BY <1>2, <1>3, <1>4, <2>4
    <3>2. k \in free
      BY <1>2, <1>3, <3>1 DEF free, Occupied
    <3> QED
      BY <1>3, <2>2, <2>3, <3>2
  <2>6. ~tab.node[n].dead /\ tab.node[n].val = nil
    BY <1>1, <2>3 DEF Fields
  <2>7. tab.node[n].next = -1 /\ \A k \in Nodes(tab) : tab.node[k].next # n
    BY <1>1, <2>3 DEF Chains
  <2> QED
    BY <2>3, <2>4, <2>5, <2>6, <2>7
<1> QED
  BY <1>5, <1>6

-----------------------------------------------------------------------------
(* A key whose main position is taken by one of the same chain               *)

Behind(tab, mp, n) ==
  [[tab EXCEPT !.lastfree = n] EXCEPT !.node[n].next = tab.node[mp].next, !.node[mp].next = n]

LEMMA BehindShape ==
  ASSUME NEW tab, Shape(tab), NEW mp \in Nodes(tab), NEW n \in Nodes(tab), n # mp,
         n \in 0 .. twoto(tab.lsizenode)
  PROVE  LET w == Behind(tab, mp, n)
         IN  /\ Shape(w) /\ Nodes(w) = Nodes(tab) /\ SameSizes(tab, w)
             /\ w.array = tab.array /\ w.lastfree = n
             /\ \A k \in Nodes(tab) : /\ w.node[k].key = tab.node[k].key
                                      /\ w.node[k].dead = tab.node[k].dead
                                      /\ w.node[k].val = tab.node[k].val
             /\ Nexts(w) = PutBehind(Nexts(tab), mp, n)
<1> DEFINE w == Behind(tab, mp, n)
           nodes == [tab.node EXCEPT ![n].next = tab.node[mp].next, ![mp].next = n]
<1>1. \A k \in Nodes(tab) : /\ nodes[k].key = tab.node[k].key
                            /\ nodes[k].dead = tab.node[k].dead
                            /\ nodes[k].val = tab.node[k].val
  BY DEF Shape, NodeSet
<1>2. /\ nodes[n].next = tab.node[mp].next /\ nodes[mp].next = n
      /\ \A k \in Nodes(tab) : k # mp /\ k # n => nodes[k].next = tab.node[k].next
  BY DEF Shape, NodeSet
<1>3. nodes \in [Nodes(tab) -> NodeSet(tab)]
  BY DEF Shape, NodeSet
<1>4. w = WithNodes(tab, nodes, n)
  BY DEF Shape, NodeSet, WithNodes, Behind
<1> HIDE DEF w, nodes
<1>5. /\ Shape(w) /\ Nodes(w) = Nodes(tab) /\ SameSizes(tab, w)
      /\ w.array = tab.array /\ w.lastfree = n /\ w.node = nodes
  BY <1>3, <1>4, ShapeWithNodes DEF SameSizes
<1>6. Nexts(w) = PutBehind(Nexts(tab), mp, n)
  BY <1>2, <1>5 DEF Nexts, PutBehind
<1> QED
  BY <1>1, <1>5, <1>6 DEF w

LEMMA TakeBehind ==
  ASSUME NEW tab, WellFormed(tab), NEW key \in Keys, ~InArray(tab, key),
         \A i \in Nodes(tab) : ~Live(tab, i, key),
         NEW mp, mp = mainposition(tab, key), tab.node[mp].val # nil, Home(tab, mp) = mp,
         NEW n, n = getfreepos(tab), n # -1
  PROVE  Inserted(tab, Take(Behind(tab, mp, n), n, key).tab, key, n)
<1> DEFINE w == Behind(tab, mp, n)
           u == Take(w, n, key).tab
           D == Nodes(tab)
<1>1. key \in KeySpace /\ key # Nil /\ mp \in D
  BY KeysAreKeys, MainIsNode DEF WellFormed, Shape
<1>2. Shape(tab) /\ Chains(tab) /\ Fields(tab)
  BY DEF WellFormed
<1>3. /\ n \in D /\ n < tab.lastfree /\ ~tab.dummy
      /\ ~Occupied(tab, n) /\ tab.node[n].val = nil /\ tab.node[n].next = -1
      /\ \A k \in D : tab.node[k].next # n
      /\ \A k \in D : k > n => Occupied(tab, k)
  BY FreePosition
<1>4. Occupied(tab, mp) /\ ~tab.node[mp].dead /\ n # mp
  BY <1>1, <1>2, <1>3 DEF Fields
<1>5. n \in 0 .. twoto(tab.lsizenode) /\ D \subseteq Nat /\ n \in Nat
  BY <1>2, <1>3, NodesAreNumbers DEF Shape, Nodes
<1>6. /\ Shape(w) /\ Nodes(w) = D /\ SameSizes(tab, w)
      /\ w.array = tab.array /\ w.lastfree = n
      /\ \A k \in D : /\ w.node[k].key = tab.node[k].key
                      /\ w.node[k].dead = tab.node[k].dead
                      /\ w.node[k].val = tab.node[k].val
      /\ Nexts(w) = PutBehind(Nexts(tab), mp, n)
  BY <1>1, <1>2, <1>3, <1>4, <1>5, BehindShape
<1> HIDE DEF w
<1>7. /\ Shape(u) /\ Nodes(u) = D /\ SameSizes(w, u)
      /\ u.array = w.array /\ u.lastfree = w.lastfree
      /\ u.node[n].key = key /\ ~u.node[n].dead
      /\ u.node[n].val = w.node[n].val /\ u.node[n].next = w.node[n].next
      /\ \A k \in D : k # n => u.node[k] = w.node[k]
  BY <1>3, <1>6, TakeShape
<1> HIDE DEF u
<1>8. /\ SameSizes(tab, u) /\ u.sizearray = tab.sizearray /\ u.lsizenode = tab.lsizenode
      /\ u.dummy = tab.dummy /\ u.array = tab.array /\ u.lastfree = n
  BY <1>6, <1>7 DEF SameSizes
<1>9. /\ u.node[n].val = nil
      /\ \A k \in D : k # n => /\ u.node[k].key = tab.node[k].key
                               /\ u.node[k].dead = tab.node[k].dead
                               /\ u.node[k].val = tab.node[k].val
  BY <1>3, <1>6, <1>7
<1>10. Nexts(u) = PutBehind(Nexts(tab), mp, n)
  <2>1. \A k \in D : u.node[k].next = w.node[k].next
    BY <1>7
  <2>2. Nexts(u) = Nexts(w)
    BY <1>6, <1>7, <2>1 DEF Nexts
  <2> QED
    BY <1>6, <2>2
<1>11. /\ Links(Nexts(tab), D) /\ NoCycle(Nexts(tab), D) /\ OneBefore(Nexts(tab), D)
       /\ \A k \in D : Nexts(tab)[k] = tab.node[k].next
  <2>1. Links(Nexts(tab), D) /\ \A k \in D : Nexts(tab)[k] = tab.node[k].next
    BY <1>2, ShapeLinks
  <2> QED
    BY <1>2, <2>1 DEF Chains, OneBefore
<1>12. /\ NoCycle(Nexts(u), D) /\ OneBefore(Nexts(u), D)
       /\ \A i \in D : On(tab, i) \subseteq On(u, i)
       /\ n \in On(u, mp)
       /\ \A j \in On(tab, mp) : j # mp => j \in On(u, n)
  <2> DEFINE nx == Nexts(tab)
  <2>1. nx[n] = -1 /\ \A k \in D : nx[k] # n
    BY <1>3, <1>11
  <2> HIDE DEF nx, D
  <2>2. /\ NoCycle(Nexts(u), D) /\ OneBefore(Nexts(u), D)
        /\ \A i \in D : Onward(nx, D, i) \subseteq Onward(Nexts(u), D, i)
        /\ n \in Onward(Nexts(u), D, mp)
        /\ \A j \in Onward(nx, D, mp) : j # mp => j \in Onward(Nexts(u), D, n)
    BY <1>1, <1>3, <1>4, <1>10, <1>11, <2>1, InsertLink DEF nx
  <2> QED
    BY <1>7, <2>2 DEF On, nx, D
<1>13. \A k \in D : u.node[k].next = Nexts(u)[k] /\ (u.node[k].next # -1 => u.node[k].next \in D)
  BY <1>7, ShapeLinks DEF Links
<1>14. \A k \in D : Occupied(u, k) <=> k = n \/ Occupied(tab, k)
  BY <1>1, <1>7, <1>9 DEF Occupied
<1>15. /\ \A k \in D : k # n => Home(u, k) = Home(tab, k)
       /\ Home(u, n) = mp
  BY <1>7, <1>8, <1>9, MainBySize DEF Home
<1>16. Chains(u)
  <2>1. \A i, j \in D : i # j /\ u.node[i].next = u.node[j].next => u.node[i].next = -1
    BY <1>12, <1>13 DEF OneBefore
  <2>2. ASSUME NEW i \in D, u.node[i].next # -1
        PROVE  Occupied(u, i) /\ Occupied(u, u.node[i].next)
    <3>1. CASE i = n
      BY <1>1, <1>2, <1>4, <1>10, <1>11, <1>13, <1>14, <2>2, <3>1 DEF Chains, Links, PutBehind
    <3>2. CASE i = mp
      BY <1>1, <1>3, <1>4, <1>10, <1>11, <1>13, <1>14, <3>2 DEF Links, PutBehind
    <3>3. CASE i # mp /\ i # n
      <4>1. u.node[i].next = tab.node[i].next
        BY <1>10, <1>11, <1>13, <3>3 DEF Links, PutBehind
      <4> QED
        BY <1>2, <1>13, <1>14, <2>2, <4>1 DEF Chains
    <3> QED
      BY <3>1, <3>2, <3>3
  <2>3. ASSUME NEW i \in D, Occupied(u, i)
        PROVE  i \in On(u, Home(u, i)) /\ Occupied(u, Home(u, i)) /\ Home(u, Home(u, i)) = Home(u, i)
    <3>1. CASE i = n
      BY <1>1, <1>4, <1>12, <1>14, <1>15, <3>1
    <3>2. CASE i # n
      <4>1. /\ i \in On(tab, Home(tab, i)) /\ Occupied(tab, Home(tab, i))
            /\ Home(tab, Home(tab, i)) = Home(tab, i)
        BY <1>2, <1>14, <2>3, <3>2 DEF Chains
      <4>2. Home(tab, i) \in D
        <5>1. tab.node[i].key \in Keys
          BY <1>2, <1>14, <2>3, <3>2 DEF Shape, NodeSet, Occupied
        <5> QED
          BY <1>2, <5>1, MainIsNode, KeysAreKeys DEF Home, Shape
      <4>3. Home(tab, i) # n
        BY <1>3, <4>1
      <4> QED
        BY <1>12, <1>14, <1>15, <3>2, <4>1, <4>2, <4>3
    <3> QED
      BY <3>1, <3>2
  <2>4. ASSUME NEW i \in D, NEW j \in D, i # j, Occupied(u, i), u.node[i].key = u.node[j].key,
               ~u.node[i].dead
        PROVE  u.node[j].dead /\ j \in On(u, i)
    <3>1. CASE i = n
      <4>1. tab.node[j].key = key /\ tab.node[j].dead
        BY <1>7, <1>9, <2>4, <3>1 DEF Live
      <4>2. Occupied(tab, j) /\ Home(tab, j) = mp
        BY <1>1, <4>1 DEF Occupied, Home
      <4>3. j \in On(tab, mp) /\ j # mp
        BY <1>2, <1>4, <4>1, <4>2 DEF Chains
      <4> QED
        BY <1>9, <1>12, <2>4, <3>1, <4>1, <4>3
    <3>2. CASE j = n
      BY <1>7, <1>9, <2>4, <3>2 DEF Live
    <3>3. CASE i # n /\ j # n
      <4>1. tab.node[j].dead /\ j \in On(tab, i)
        BY <1>2, <1>9, <1>14, <2>4, <3>3 DEF Chains
      <4> QED
        BY <1>9, <1>12, <3>3, <4>1
    <3> QED
      BY <3>1, <3>2, <3>3
  <2> QED
    BY <1>7, <1>12, <2>1, <2>2, <2>3, <2>4 DEF Chains
<1>17. Fields(u)
  <2>1. \A i \in D : u.node[i].val # nil => Occupied(u, i) /\ ~u.node[i].dead
    BY <1>2, <1>9, <1>14 DEF Fields
  <2>2. \A i \in D : Occupied(u, i) => ~InArray(u, u.node[i].key)
    BY <1>2, <1>7, <1>8, <1>9, <1>14 DEF Fields, InArray
  <2>3. \A i \in D : ~Occupied(u, i) => ~u.node[i].dead
    BY <1>2, <1>9, <1>14 DEF Fields
  <2>4. \A i \in D : i >= u.lastfree => Occupied(u, i)
    BY <1>3, <1>5, <1>8, <1>14
  <2> QED
    BY <1>2, <1>3, <1>7, <1>8, <2>1, <2>2, <2>3, <2>4 DEF Fields
<1>18. WellFormed(u)
  BY <1>7, <1>16, <1>17 DEF WellFormed
<1>19. Carried(tab, u) /\ Carried(u, tab)
  BY <1>3, <1>7, <1>9 DEF Carried
<1>20. \A k \in KeySpace : luaH_get(u, k) = luaH_get(tab, k)
  BY <1>8, <1>18, <1>19, SameFields
<1>21. \A j \in D : j # n /\ Occupied(u, j) => Occupied(tab, j) /\ u.node[j].val = tab.node[j].val
  BY <1>9, <1>14
<1> QED
  BY <1>3, <1>7, <1>8, <1>9, <1>18, <1>20, <1>21 DEF Inserted, Live, u, w

-----------------------------------------------------------------------------
(* A key whose main position is taken by one of another chain                *)

LEMMA MoveAwayShape ==
  ASSUME NEW tab, Shape(tab), NoCycle(Nexts(tab), Nodes(tab)),
         NEW mp \in Nodes(tab), NEW n \in Nodes(tab), n # mp,
         n \in 0 .. twoto(tab.lsizenode), tab.node[n].next = -1,
         Home(tab, mp) \in Nodes(tab), Home(tab, mp) # mp, mp \in On(tab, Home(tab, mp))
  PROVE  LET w == MoveAway([tab EXCEPT !.lastfree = n], mp, n)
         IN  /\ Shape(w) /\ Nodes(w) = Nodes(tab) /\ SameSizes(tab, w)
             /\ w.array = tab.array /\ w.lastfree = n
             /\ \A k \in Nodes(tab) : k # n => /\ w.node[k].key = tab.node[k].key
                                               /\ w.node[k].dead = tab.node[k].dead
                                               /\ k # mp => w.node[k].val = tab.node[k].val
             /\ w.node[mp].val = nil
             /\ w.node[n].key = tab.node[mp].key /\ w.node[n].dead = tab.node[mp].dead
             /\ w.node[n].val = tab.node[mp].val
             /\ \E p \in Nodes(tab) : /\ p # mp /\ p # n /\ Nexts(tab)[p] = mp
                                      /\ Nexts(w) = PutBetween(Nexts(tab), p, mp, n)
<1> DEFINE left == [tab EXCEPT !.lastfree = n]
           home == Home(tab, mp)
           p == CHOOSE i \in Chain(left, mainposition(left, left.node[mp].key)) : left.node[i].next = mp
           w == MoveAway(left, mp, n)
           nodes == [tab.node EXCEPT ![p].next = n, ![n] = tab.node[mp], ![mp].next = -1, ![mp].val = nil]
           D == Nodes(tab)
<1>1. /\ left = WithNodes(tab, tab.node, n)
      /\ tab.node \in [D -> NodeSet(tab)]
  BY DEF WithNodes, Shape
<1>2. /\ Shape(left) /\ Nodes(left) = D /\ left.node = tab.node /\ left.lsizenode = tab.lsizenode
      /\ left.array = tab.array /\ left.sizearray = tab.sizearray /\ left.dummy = tab.dummy
  <2> HIDE DEF left
  <2> QED
    BY <1>1, ShapeWithNodes
<1>3. w = [left EXCEPT !.node[p].next = n, !.node[n] = left.node[mp],
                       !.node[mp].next = -1, !.node[mp].val = nil]
  BY DEF MoveAway
<1> HIDE DEF left
<1>4. Nexts(left) = Nexts(tab)
  BY <1>2 DEF Nexts
<1>5. mainposition(left, left.node[mp].key) = home
  BY <1>2, MainBySize DEF Home
<1>6. Chain(left, home) = On(tab, home)
  <2>1. Chain(left, home) = On(left, home)
    BY <1>2, <1>4, ChainIsOnward
  <2> QED
    BY <1>2, <1>4, <2>1 DEF On
<1>7. Links(Nexts(tab), D) /\ \A k \in D : Nexts(tab)[k] = tab.node[k].next
  BY ShapeLinks
<1>8. \E i \in On(tab, home) : tab.node[i].next = mp
  <2>1. \E i \in On(tab, home) : Nexts(tab)[i] = mp
    BY <1>7, OneIsBefore DEF On
  <2> QED
    BY <1>7, <2>1, OnwardSelf DEF On
<1>9. p \in On(tab, home) /\ tab.node[p].next = mp
  BY <1>2, <1>5, <1>6, <1>8
<1> HIDE DEF p
<1>10. p \in D
  BY <1>9, OnwardSelf DEF On
<1>11. p # mp
  <2>1. Nexts(tab)[mp] = mp => \A k \in {mp} : Nexts(tab)[k] \in {mp}
    OBVIOUS
  <2>2. Nexts(tab)[mp] # mp
    BY <2>1 DEF NoCycle
  <2> QED
    BY <1>7, <1>9, <1>10, <2>2
<1>12. p # n /\ n # -1 /\ mp # -1
  BY <1>7, <1>9 DEF Links
<1>13. /\ \A k \in D : k # n => /\ nodes[k].key = tab.node[k].key
                                /\ nodes[k].dead = tab.node[k].dead
                                /\ k # mp => nodes[k].val = tab.node[k].val
       /\ nodes[mp].val = nil
       /\ nodes[n].key = tab.node[mp].key /\ nodes[n].dead = tab.node[mp].dead
       /\ nodes[n].val = tab.node[mp].val
  BY <1>10, <1>11, <1>12 DEF Shape, NodeSet
<1>14. /\ nodes[p].next = n /\ nodes[n].next = tab.node[mp].next /\ nodes[mp].next = -1
       /\ \A k \in D : k # mp /\ k # n /\ k # p => nodes[k].next = tab.node[k].next
  BY <1>10, <1>11, <1>12 DEF Shape, NodeSet
<1>15. nodes \in [D -> NodeSet(tab)]
  BY <1>10 DEF Shape, NodeSet
<1>16. w = WithNodes(tab, nodes, n)
  BY <1>3, <1>10 DEF left, Shape, NodeSet, WithNodes
<1> HIDE DEF w, nodes
<1>17. /\ Shape(w) /\ Nodes(w) = D /\ SameSizes(tab, w)
       /\ w.array = tab.array /\ w.lastfree = n /\ w.node = nodes
  BY <1>15, <1>16, ShapeWithNodes DEF SameSizes
<1>18. Nexts(w) = PutBetween(Nexts(tab), p, mp, n)
  BY <1>7, <1>10, <1>11, <1>12, <1>14, <1>17 DEF Nexts, PutBetween
<1>19. Nexts(tab)[p] = mp
  BY <1>7, <1>9, <1>10
<1> QED
  BY <1>10, <1>11, <1>12, <1>13, <1>17, <1>18, <1>19 DEF w, left

LEMMA TakeMoved ==
  ASSUME NEW tab, WellFormed(tab), NEW key \in Keys, ~InArray(tab, key),
         \A i \in Nodes(tab) : ~Live(tab, i, key),
         NEW mp, mp = mainposition(tab, key), tab.node[mp].val # nil, Home(tab, mp) # mp,
         NEW n, n = getfreepos(tab), n # -1
  PROVE  Inserted(tab, Take(MoveAway([tab EXCEPT !.lastfree = n], mp, n), mp, key).tab, key, mp)
<1> DEFINE w == MoveAway([tab EXCEPT !.lastfree = n], mp, n)
           u == Take(w, mp, key).tab
           D == Nodes(tab)
           home == Home(tab, mp)
<1>1. key \in KeySpace /\ key # Nil /\ mp \in D
  BY KeysAreKeys, MainIsNode DEF WellFormed, Shape
<1>2. Shape(tab) /\ Chains(tab) /\ Fields(tab)
  BY DEF WellFormed
<1>3. /\ n \in D /\ n < tab.lastfree /\ ~tab.dummy
      /\ ~Occupied(tab, n) /\ tab.node[n].val = nil /\ tab.node[n].next = -1
      /\ \A k \in D : tab.node[k].next # n
      /\ \A k \in D : k > n => Occupied(tab, k)
  BY FreePosition
<1>4. Occupied(tab, mp) /\ ~tab.node[mp].dead /\ n # mp
  BY <1>1, <1>2, <1>3 DEF Fields
<1>5. n \in 0 .. twoto(tab.lsizenode) /\ D \subseteq Nat /\ n \in Nat
  BY <1>2, <1>3, NodesAreNumbers DEF Shape, Nodes
<1>6. \A i \in D : Occupied(tab, i) => Home(tab, i) \in D
  <2> SUFFICES ASSUME NEW i \in D, Occupied(tab, i) PROVE Home(tab, i) \in D
    OBVIOUS
  <2>1. tab.node[i].key \in Keys
    BY <1>2 DEF Shape, NodeSet, Occupied
  <2> QED
    BY <1>2, <2>1, MainIsNode, KeysAreKeys DEF Home, Shape
<1>7. home \in D /\ mp \in On(tab, home)
  BY <1>1, <1>2, <1>4, <1>6 DEF Chains
<1>8. /\ Shape(w) /\ Nodes(w) = D /\ SameSizes(tab, w)
      /\ w.array = tab.array /\ w.lastfree = n
      /\ \A k \in D : k # n => /\ w.node[k].key = tab.node[k].key
                               /\ w.node[k].dead = tab.node[k].dead
                               /\ k # mp => w.node[k].val = tab.node[k].val
      /\ w.node[mp].val = nil
      /\ w.node[n].key = tab.node[mp].key /\ w.node[n].dead = tab.node[mp].dead
      /\ w.node[n].val = tab.node[mp].val
      /\ \E p \in D : /\ p # mp /\ p # n /\ Nexts(tab)[p] = mp
                      /\ Nexts(w) = PutBetween(Nexts(tab), p, mp, n)
  BY <1>1, <1>2, <1>3, <1>4, <1>5, <1>7, MoveAwayShape DEF Chains
<1> HIDE DEF w
<1>9. /\ Shape(u) /\ Nodes(u) = D /\ SameSizes(w, u)
      /\ u.array = w.array /\ u.lastfree = w.lastfree
      /\ u.node[mp].key = key /\ ~u.node[mp].dead
      /\ u.node[mp].val = w.node[mp].val /\ u.node[mp].next = w.node[mp].next
      /\ \A k \in D : k # mp => u.node[k] = w.node[k]
  BY <1>1, <1>8, TakeShape
<1> HIDE DEF u
<1>10. /\ SameSizes(tab, u) /\ u.sizearray = tab.sizearray /\ u.lsizenode = tab.lsizenode
       /\ u.dummy = tab.dummy /\ u.array = tab.array /\ u.lastfree = n
  BY <1>8, <1>9 DEF SameSizes
<1>11. /\ u.node[mp].val = nil
       /\ u.node[n].key = tab.node[mp].key /\ ~u.node[n].dead /\ u.node[n].val = tab.node[mp].val
       /\ \A k \in D : k # n /\ k # mp => /\ u.node[k].key = tab.node[k].key
                                          /\ u.node[k].dead = tab.node[k].dead
                                          /\ u.node[k].val = tab.node[k].val
  BY <1>3, <1>4, <1>8, <1>9
<1>12. PICK p \in D : /\ p # mp /\ p # n /\ Nexts(tab)[p] = mp
                      /\ Nexts(u) = PutBetween(Nexts(tab), p, mp, n)
  <2>1. \A k \in D : u.node[k].next = w.node[k].next
    BY <1>9
  <2>2. Nexts(u) = Nexts(w)
    BY <1>8, <1>9, <2>1 DEF Nexts
  <2> QED
    BY <1>8, <2>2
<1>13. /\ Links(Nexts(tab), D) /\ NoCycle(Nexts(tab), D) /\ OneBefore(Nexts(tab), D)
       /\ \A k \in D : Nexts(tab)[k] = tab.node[k].next
  <2>1. Links(Nexts(tab), D) /\ \A k \in D : Nexts(tab)[k] = tab.node[k].next
    BY <1>2, ShapeLinks
  <2> QED
    BY <1>2, <2>1 DEF Chains, OneBefore
<1>14. /\ NoCycle(Nexts(u), D) /\ OneBefore(Nexts(u), D)
       /\ \A i \in D : \A j \in On(tab, i) : Moved(mp, n, j) \in On(u, Moved(mp, n, i))
  <2> DEFINE nx == Nexts(tab)
  <2>1. nx[n] = -1 /\ \A k \in D : nx[k] # n
    BY <1>3, <1>13
  <2> HIDE DEF nx, D
  <2>2. /\ NoCycle(Nexts(u), D) /\ OneBefore(Nexts(u), D)
        /\ \A i \in D : \A j \in Onward(nx, D, i) :
             Moved(mp, n, j) \in Onward(Nexts(u), D, Moved(mp, n, i))
    BY <1>1, <1>3, <1>4, <1>12, <1>13, <2>1, MoveLink DEF nx
  <2> QED
    BY <1>9, <2>2 DEF On, nx, D
<1>15. \A k \in D : u.node[k].next = Nexts(u)[k] /\ (u.node[k].next # -1 => u.node[k].next \in D)
  BY <1>9, ShapeLinks DEF Links
<1>16. \A k \in D : Occupied(u, k) <=> k = n \/ Occupied(tab, k)
  BY <1>1, <1>4, <1>9, <1>11 DEF Occupied
<1>17. /\ \A k \in D : k # n /\ k # mp => Home(u, k) = Home(tab, k)
       /\ Home(u, n) = home /\ Home(u, mp) = mp
  BY <1>9, <1>10, <1>11, MainBySize DEF Home
\* The key that moves is not of the chain that begins here.
<1>18. \A k \in D : Occupied(tab, k) => Home(tab, k) # mp /\ tab.node[k].key # key
  <2>1. \A k \in D : Occupied(tab, k) => Home(tab, k) # mp
    BY <1>2 DEF Chains
  <2> QED
    BY <2>1 DEF Home
<1>19. Chains(u)
  <2>1. \A i, j \in D : i # j /\ u.node[i].next = u.node[j].next => u.node[i].next = -1
    BY <1>14, <1>15 DEF OneBefore
  <2>2. ASSUME NEW i \in D, u.node[i].next # -1
        PROVE  Occupied(u, i) /\ Occupied(u, u.node[i].next)
    <3>0. /\ Nexts(u)[p] = n /\ Nexts(u)[n] = Nexts(tab)[mp] /\ Nexts(u)[mp] = -1
          /\ \A k \in D : k # p /\ k # n /\ k # mp => Nexts(u)[k] = Nexts(tab)[k]
      BY <1>1, <1>3, <1>4, <1>12, <1>13 DEF Links, PutBetween
    <3>1. CASE i = n
      BY <1>1, <1>2, <1>13, <1>15, <1>16, <2>2, <3>0, <3>1 DEF Chains
    <3>2. CASE i = p
      <4>1. tab.node[p].next # -1
        BY <1>1, <1>12, <1>13 DEF Links
      <4> QED
        BY <1>2, <1>3, <1>15, <1>16, <3>0, <3>2, <4>1 DEF Chains
    <3>3. CASE i # p /\ i # n
      <4>1. u.node[i].next = tab.node[i].next
        BY <1>13, <1>15, <2>2, <3>0, <3>3
      <4> QED
        BY <1>2, <1>15, <1>16, <2>2, <4>1 DEF Chains
    <3> QED
      BY <3>1, <3>2, <3>3
  <2>3. ASSUME NEW i \in D, Occupied(u, i)
        PROVE  i \in On(u, Home(u, i)) /\ Occupied(u, Home(u, i)) /\ Home(u, Home(u, i)) = Home(u, i)
    <3>1. CASE i = mp
      BY <1>1, <1>4, <1>9, <1>16, <1>17, <3>1, OnwardSelf DEF On
    <3>2. CASE i = n
      <4>1. Occupied(tab, home) /\ Home(tab, home) = home
        BY <1>1, <1>2, <1>4 DEF Chains
      <4>2. home # n /\ home # mp
        BY <1>3, <4>1
      <4>3. n \in On(u, home)
        BY <1>7, <1>14, <4>2 DEF Moved
      <4> QED
        BY <1>7, <1>16, <1>17, <3>2, <4>1, <4>2, <4>3
    <3>3. CASE i # n /\ i # mp
      <4>1. /\ Occupied(tab, i)
            /\ i \in On(tab, Home(tab, i)) /\ Occupied(tab, Home(tab, i))
            /\ Home(tab, Home(tab, i)) = Home(tab, i)
        BY <1>2, <1>16, <2>3, <3>3 DEF Chains
      <4>2. Home(tab, i) \in D /\ Home(tab, i) # n /\ Home(tab, i) # mp
        BY <1>3, <1>6, <1>18, <4>1
      <4>3. i \in On(u, Home(tab, i))
        BY <1>14, <3>3, <4>1, <4>2 DEF Moved
      <4> QED
        BY <1>16, <1>17, <3>3, <4>1, <4>2, <4>3
    <3> QED
      BY <3>1, <3>2, <3>3
  <2>4. ASSUME NEW i \in D, NEW j \in D, i # j, Occupied(u, i), u.node[i].key = u.node[j].key,
               ~u.node[i].dead
        PROVE  u.node[j].dead /\ j \in On(u, i)
    <3>1. \A k \in D : k # mp => u.node[k].key # key
      BY <1>1, <1>3, <1>4, <1>11, <1>18 DEF Occupied
    <3>2. i # mp /\ j # mp
      BY <1>9, <2>4, <3>1
    <3>3. CASE i = n
      <4>1. tab.node[mp].key = tab.node[j].key
        BY <1>11, <2>4, <3>2, <3>3
      <4>2. tab.node[j].dead /\ j \in On(tab, mp)
        BY <1>1, <1>2, <1>4, <3>2, <4>1 DEF Chains
      <4>3. j \in On(u, n)
        BY <1>1, <1>14, <2>4, <3>2, <3>3, <4>2 DEF Moved
      <4> QED
        BY <1>11, <2>4, <3>2, <3>3, <4>2, <4>3
    <3>4. CASE j = n
      <4>1. tab.node[i].key = tab.node[mp].key /\ ~tab.node[i].dead /\ Occupied(tab, i)
        BY <1>11, <1>16, <2>4, <3>2, <3>4
      <4> QED
        BY <1>1, <1>2, <1>4, <3>2, <4>1 DEF Chains
    <3>5. CASE i # n /\ j # n
      <4>1. tab.node[j].dead /\ j \in On(tab, i)
        BY <1>2, <1>11, <1>16, <2>4, <3>2, <3>5 DEF Chains
      <4> QED
        BY <1>11, <1>14, <3>2, <3>5, <4>1 DEF Moved
    <3> QED
      BY <3>3, <3>4, <3>5
  <2> QED
    BY <1>9, <1>14, <2>1, <2>2, <2>3, <2>4 DEF Chains
<1>20. Fields(u)
  <2>1. \A i \in D : u.node[i].val # nil => Occupied(u, i) /\ ~u.node[i].dead
    BY <1>2, <1>11, <1>16 DEF Fields
  <2>2. \A i \in D : Occupied(u, i) => ~InArray(u, u.node[i].key)
    BY <1>1, <1>2, <1>4, <1>9, <1>10, <1>11, <1>16 DEF Fields, InArray
  <2>3. \A i \in D : ~Occupied(u, i) => ~u.node[i].dead
    BY <1>2, <1>9, <1>11, <1>16 DEF Fields
  <2>4. \A i \in D : i >= u.lastfree => Occupied(u, i)
    BY <1>3, <1>5, <1>10, <1>16
  <2> QED
    BY <1>2, <1>3, <1>9, <1>10, <2>1, <2>2, <2>3, <2>4 DEF Fields
<1>21. WellFormed(u)
  BY <1>9, <1>19, <1>20 DEF WellFormed
<1>22. Carried(tab, u) /\ Carried(u, tab)
  BY <1>1, <1>3, <1>9, <1>11 DEF Carried
<1>23. \A k \in KeySpace : luaH_get(u, k) = luaH_get(tab, k)
  BY <1>10, <1>21, <1>22, SameFields
<1>24. \A j \in D : j # mp /\ Occupied(u, j) =>
         \E k \in D : Occupied(tab, k) /\ u.node[j].val = tab.node[k].val
  BY <1>1, <1>4, <1>11, <1>16
<1> QED
  BY <1>1, <1>9, <1>10, <1>11, <1>21, <1>23, <1>24 DEF Inserted, Live, u, w

\* A key that is nowhere goes into a node, if there is room.
LEMMA NewKey ==
  ASSUME NEW tab, WellFormed(tab), NEW key \in Keys, Place(tab, key) = Nowhere, ~Full(tab, key)
  PROVE  \E i \in Nodes(tab) : /\ newkey(tab, key).place = <<"node", i>>
                               /\ Inserted(tab, newkey(tab, key).tab, key, i)
<1> DEFINE mp == mainposition(tab, key)
           n == getfreepos(tab)
<1>1. key \in KeySpace
  BY KeysAreKeys
<1>2. ~InArray(tab, key) /\ \A i \in Nodes(tab) : ~Live(tab, i, key)
  BY <1>1, ArrayPlace, NodePlace DEF Nowhere
<1>3. mp \in Nodes(tab)
  BY <1>1, MainIsNode DEF WellFormed, Shape
<1> HIDE DEF mp, n
<1>4. tab.dummy => n = -1
  BY FreePosition DEF n
<1>5. ~(tab.node[mp].val = nil /\ ~tab.dummy) => n # -1
  BY DEF Full, mp, n
<1>6. CASE tab.node[mp].val = nil /\ ~tab.dummy
  <2>1. newkey(tab, key) = Take(tab, mp, key)
    BY <1>6 DEF newkey, mp
  <2>2. Inserted(tab, Take(tab, mp, key).tab, key, mp)
    BY <1>2, <1>6, TakeMain DEF mp
  <2>3. Take(tab, mp, key).place = <<"node", mp>>
    BY DEF Take
  <2> QED
    BY <1>3, <2>1, <2>2, <2>3
<1>7. CASE ~(tab.node[mp].val = nil /\ ~tab.dummy) /\ Home(tab, mp) # mp
  <2>1. newkey(tab, key) = Take(MoveAway([tab EXCEPT !.lastfree = n], mp, n), mp, key)
    BY <1>7 DEF newkey, mp, n, Home
  <2>2. Inserted(tab, Take(MoveAway([tab EXCEPT !.lastfree = n], mp, n), mp, key).tab, key, mp)
    BY <1>2, <1>4, <1>5, <1>7, TakeMoved DEF mp, n
  <2>3. Take(MoveAway([tab EXCEPT !.lastfree = n], mp, n), mp, key).place = <<"node", mp>>
    BY DEF Take
  <2> QED
    BY <1>3, <2>1, <2>2, <2>3
<1>8. CASE ~(tab.node[mp].val = nil /\ ~tab.dummy) /\ Home(tab, mp) = mp
  <2>1. newkey(tab, key) = Take(Behind(tab, mp, n), n, key)
    <3>1. [tab EXCEPT !.lastfree = n].node = tab.node
      BY DEF WellFormed, Shape
    <3> QED
      BY <1>8, <3>1 DEF newkey, mp, n, Home, Behind
  <2>2. Inserted(tab, Take(Behind(tab, mp, n), n, key).tab, key, n)
    BY <1>2, <1>4, <1>5, <1>8, TakeBehind DEF mp, n
  <2>3. Take(Behind(tab, mp, n), n, key).place = <<"node", n>>
    BY DEF Take
  <2>4. n \in Nodes(tab)
    BY <1>5, <1>8, FreePosition DEF n
  <2> QED
    BY <2>1, <2>2, <2>3, <2>4
<1> QED
  BY <1>6, <1>7, <1>8

-----------------------------------------------------------------------------
(* Changes that leave the chains alone                                       *)

SameChains(tab, u) ==
  /\ SameSizes(tab, u) /\ u.lastfree = tab.lastfree
  /\ \A k \in Nodes(tab) : /\ u.node[k].key = tab.node[k].key
                           /\ u.node[k].next = tab.node[k].next
                           /\ tab.node[k].dead => u.node[k].dead

LEMMA KeptChains ==
  ASSUME NEW tab, WellFormed(tab), NEW u, Shape(u), SameChains(tab, u)
  PROVE  /\ Nodes(u) = Nodes(tab) /\ Chains(u)
         /\ \A k \in Nodes(tab) : On(u, k) = On(tab, k)
         /\ \A i \in Nodes(tab) : Occupied(u, i) => ~InArray(u, u.node[i].key)
         /\ u.dummy => u.lsizenode = 0 /\ u.lastfree = 0 /\ ~Occupied(u, 0)
         /\ ~u.dummy => \A i \in Nodes(tab) : i >= u.lastfree => Occupied(u, i)
<1>1. /\ u.sizearray = tab.sizearray /\ u.lsizenode = tab.lsizenode /\ u.dummy = tab.dummy
      /\ u.lastfree = tab.lastfree
  BY DEF SameChains, SameSizes
<1>2. Nodes(u) = Nodes(tab)
  BY <1>1 DEF Nodes
<1>3. Nexts(u) = Nexts(tab)
  BY <1>2 DEF Nexts, SameChains
<1>4. \A k : On(u, k) = On(tab, k)
  BY <1>2, <1>3 DEF On
<1>5. \A k \in Nodes(tab) : Occupied(u, k) <=> Occupied(tab, k)
  BY DEF SameChains, Occupied
<1>6. \A k \in Nodes(tab) : Home(u, k) = Home(tab, k)
  BY <1>1, MainBySize DEF Home, SameChains
<1>7. Shape(tab) /\ Chains(tab) /\ Fields(tab)
  BY DEF WellFormed
<1>8. \A i \in Nodes(tab) : Occupied(tab, i) => Home(tab, i) \in Nodes(tab)
  <2> SUFFICES ASSUME NEW i \in Nodes(tab), Occupied(tab, i) PROVE Home(tab, i) \in Nodes(tab)
    OBVIOUS
  <2>1. tab.node[i].key \in Keys
    BY <1>7 DEF Shape, NodeSet, Occupied
  <2> QED
    BY <1>7, <2>1, MainIsNode, KeysAreKeys DEF Home, Shape
<1>9. Chains(u)
  <2>1. \A i, j \in Nodes(tab) : i # j /\ u.node[i].next = u.node[j].next => u.node[i].next = -1
    BY <1>7 DEF Chains, SameChains
  <2>2. \A i \in Nodes(tab) : u.node[i].next # -1 => Occupied(u, i) /\ Occupied(u, u.node[i].next)
    <3>1. \A i \in Nodes(tab) : u.node[i].next # -1 => u.node[i].next \in Nodes(tab)
      BY <1>2 DEF Shape, NodeSet
    <3> QED
      BY <1>5, <1>7, <3>1 DEF Chains, SameChains
  <2>3. \A i \in Nodes(tab) : Occupied(u, i) =>
          i \in On(u, Home(u, i)) /\ Occupied(u, Home(u, i)) /\ Home(u, Home(u, i)) = Home(u, i)
    BY <1>4, <1>5, <1>6, <1>7, <1>8 DEF Chains
  <2>4. \A i, j \in Nodes(tab) :
          i # j /\ Occupied(u, i) /\ u.node[i].key = u.node[j].key /\ ~u.node[i].dead =>
            u.node[j].dead /\ j \in On(u, i)
    BY <1>4, <1>5, <1>7 DEF Chains, SameChains
  <2> QED
    BY <1>2, <1>3, <1>7, <2>1, <2>2, <2>3, <2>4 DEF Chains
<1>10. \A i \in Nodes(tab) : Occupied(u, i) => ~InArray(u, u.node[i].key)
  BY <1>1, <1>5, <1>7 DEF Fields, SameChains, InArray
<1>11. u.dummy => u.lsizenode = 0 /\ u.lastfree = 0 /\ ~Occupied(u, 0)
  <2>1. 0 \in Nodes(tab)
    BY <1>7, NodesAreNumbers DEF Shape
  <2> QED
    BY <1>1, <1>5, <1>7, <2>1 DEF Fields
<1>12. ~u.dummy => \A i \in Nodes(tab) : i >= u.lastfree => Occupied(u, i)
  BY <1>1, <1>5, <1>7 DEF Fields
<1> QED
  BY <1>2, <1>4, <1>9, <1>10, <1>11, <1>12

\* A traversal finds its way as before.
LEMMA SameTraversal ==
  ASSUME NEW tab, NEW u, WellFormed(tab), WellFormed(u), SameChains(tab, u),
         NEW key \in KeySpace \cup {Nil}
  PROVE  findindex(u, key) = findindex(tab, key)
<1>1. CASE key = Nil
  <2>1. ~InArray(tab, Nil) /\ ~InArray(u, Nil)
    BY DEF InArray, arrayindex, Nil, WellFormed, Shape
  <2> QED
    BY <1>1, <2>1 DEF findindex
<1>2. CASE key \in KeySpace
  <2>0. u.sizearray = tab.sizearray /\ u.lsizenode = tab.lsizenode
    BY DEF SameChains, SameSizes
  <2>1. /\ Shape(tab) /\ NoCycle(Nexts(tab), Nodes(tab))
        /\ Shape(u) /\ NoCycle(Nexts(u), Nodes(u))
    BY DEF WellFormed, Chains
  <2>2. Nodes(u) = Nodes(tab) /\ \A k \in Nodes(tab) : On(u, k) = On(tab, k)
    BY <2>1, KeptChains
  <2> DEFINE main == mainposition(tab, key)
             same == {j \in Chain(tab, main) : tab.node[j].key = key}
             now == {j \in Chain(u, main) : u.node[j].key = key}
  <2>3. main = mainposition(u, key) /\ main \in Nodes(tab)
    BY <1>2, <2>0, <2>1, MainBySize, MainIsNode DEF Shape
  <2>4. Chain(tab, main) = On(tab, main) /\ Chain(u, main) = On(tab, main)
    BY <2>1, <2>2, <2>3, ChainIsOnward
  <2>5. On(tab, main) \subseteq Nodes(tab)
    BY <2>3, OnwardSelf DEF On
  <2>6. now = same
    BY <2>4, <2>5 DEF SameChains
  <2>7. same \in SUBSET On(tab, main)
    BY <2>4
  <2> HIDE DEF same, now, main
  <2>8. FirstNode(u, same) = FirstNode(tab, same)
    <3>1. CASE same = {}
      BY <3>1 DEF FirstNode
    <3>2. CASE same # {}
      <4>1. FirstNode(tab, same) \in same /\ same \subseteq On(tab, FirstNode(tab, same))
        BY <2>1, <2>3, <2>7, <3>2, FirstOfChain
      <4>2. same \in SUBSET On(u, main)
        BY <2>2, <2>3, <2>7
      <4>3. \A j \in same : same \subseteq On(u, j) => FirstNode(u, same) = j
        BY <2>1, <2>2, <2>3, <3>2, <4>2, FirstOfChain
      <4> QED
        BY <2>2, <2>5, <2>7, <4>1, <4>3
    <3> QED
      BY <3>1, <3>2
  <2>9. InArray(u, key) <=> InArray(tab, key)
    BY <2>0 DEF InArray
  <2> QED
    BY <2>0, <2>3, <2>6, <2>8, <2>9 DEF findindex, same, now, main
<1> QED
  BY <1>1, <1>2

-----------------------------------------------------------------------------
(* Values                                                                    *)

LEMMA PutKeeps ==
  ASSUME NEW tab, WellFormed(tab), NEW key \in Keys, Place(tab, key) # Nowhere,
         NEW v \in Values \cup {nil}
  PROVE  LET u == Put(tab, Place(tab, key), v)
         IN  /\ WellFormed(u) /\ SameChains(tab, u)
             /\ \A q \in KeySpace : luaH_get(u, q) = IF q = key THEN v ELSE luaH_get(tab, q)
             /\ \A j \in Nodes(tab) : \/ u.node[j].val = tab.node[j].val
                                      \/ Live(tab, j, key) /\ u.node[j].val = v
<1> DEFINE u == Put(tab, Place(tab, key), v)
           D == Nodes(tab)
<1>1. key \in KeySpace
  BY KeysAreKeys
<1>2. Shape(tab) /\ Chains(tab) /\ Fields(tab)
  BY DEF WellFormed
<1>3. CASE InArray(tab, key)
  <2> DEFINE a == arrayindex(key)
  <2>1. Place(tab, key) = <<"array", a>> /\ a \in 1 .. tab.sizearray
    BY <1>1, <1>3, ArrayPlace DEF InArray
  <2>2. u = [tab EXCEPT !.array[a] = v]
    BY <2>1 DEF Put
  <2> HIDE DEF a
  <2>3. /\ u.sizearray = tab.sizearray /\ u.lsizenode = tab.lsizenode /\ u.dummy = tab.dummy
        /\ u.lastfree = tab.lastfree /\ u.node = tab.node
        /\ u.array = [tab.array EXCEPT ![a] = v]
    BY <1>2, <2>2 DEF Shape
  <2>4. Nodes(u) = D
    BY <2>3 DEF Nodes
  <2>5. Shape(u)
    <3>1. u \in [array : [1 .. tab.sizearray -> Values \cup {nil}], sizearray : 0 .. twoto(MAXBITS),
                 node : [Nodes(tab) -> NodeSet(tab)],
                 lsizenode : 0 .. MAXBITS, lastfree : 0 .. twoto(tab.lsizenode), dummy : BOOLEAN]
      BY <1>2, <2>1, <2>2 DEF Shape
    <3>2. NodeSet(u) = NodeSet(tab)
      BY <2>4 DEF NodeSet
    <3> QED
      BY <2>3, <2>4, <3>1, <3>2 DEF Shape
  <2> HIDE DEF u
  <2>6. SameChains(tab, u)
    BY <2>3 DEF SameChains, SameSizes
  <2>7. /\ Chains(u)
        /\ \A i \in D : Occupied(u, i) => ~InArray(u, u.node[i].key)
        /\ u.dummy => u.lsizenode = 0 /\ u.lastfree = 0 /\ ~Occupied(u, 0)
        /\ ~u.dummy => \A i \in D : i >= u.lastfree => Occupied(u, i)
    BY <2>5, <2>6, KeptChains
  <2>8. a \in Nat /\ key = Number(a)
    <3>1. a \in Nat
      BY <1>2, <2>1 DEF Shape
    <3> QED
      BY <1>1, <3>1, IndexOfNumber DEF a
  <2>9. \A i \in 1 .. tab.sizearray : u.array[i] = IF i = a THEN v ELSE tab.array[i]
    BY <1>2, <2>1, <2>3 DEF Shape
  <2>10. Fields(u)
    <3>1. \A i \in D : /\ u.node[i].val # nil => Occupied(u, i) /\ ~u.node[i].dead
                       /\ ~Occupied(u, i) => ~u.node[i].dead
      BY <1>2, <2>3 DEF Fields, Occupied
    <3>2. \A i \in 1 .. u.sizearray : u.array[i] # nil => Number(i) \in Keys
      BY <1>2, <2>3, <2>8, <2>9 DEF Fields
    <3> QED
      BY <2>4, <2>7, <3>1, <3>2 DEF Fields
  <2>11. WellFormed(u)
    BY <2>5, <2>7, <2>10 DEF WellFormed
  <2>12. ASSUME NEW q \in KeySpace
         PROVE  luaH_get(u, q) = IF q = key THEN v ELSE luaH_get(tab, q)
    <3>1. CASE InArray(tab, q)
      <4>1. InArray(u, q) /\ arrayindex(q) \in 1 .. tab.sizearray
        BY <2>3, <3>1 DEF InArray
      <4>2. q = key <=> arrayindex(q) = a
        BY <1>1, <2>8, <4>1, IndexOfNumber DEF a
      <4>3. luaH_get(tab, q) = tab.array[arrayindex(q)] /\ luaH_get(u, q) = u.array[arrayindex(q)]
        BY <3>1, <4>1, ArrayPlace
      <4> QED
        BY <2>9, <4>1, <4>2, <4>3
    <3>2. CASE ~InArray(tab, q)
      <4>1. ~InArray(u, q) /\ q # key
        BY <1>3, <2>3, <3>2 DEF InArray
      <4>2. \A i \in D : Live(u, i, q) <=> Live(tab, i, q)
        BY <2>3 DEF Live
      <4>3. CASE \E i \in D : Live(tab, i, q)
        BY <2>3, <2>4, <2>11, <4>1, <4>2, <4>3, NodePlace
      <4>4. CASE \A i \in D : ~Live(tab, i, q)
        BY <2>4, <2>11, <3>2, <4>1, <4>2, <4>4, NoPlace
      <4> QED
        BY <4>3, <4>4
    <3> QED
      BY <3>1, <3>2
  <2> QED
    BY <2>3, <2>6, <2>11, <2>12 DEF u
<1>4. CASE ~InArray(tab, key)
  <2>1. PICK i \in D : Live(tab, i, key) /\ Place(tab, key) = <<"node", i>>
    BY <1>1, <1>4, PlaceCases
  <2>2. u = [tab EXCEPT !.node[i].val = v]
    BY <2>1 DEF Put
  <2> DEFINE nodes == [tab.node EXCEPT ![i].val = v]
  <2>3. /\ \A k \in D : /\ nodes[k].key = tab.node[k].key /\ nodes[k].dead = tab.node[k].dead
                        /\ nodes[k].next = tab.node[k].next
                        /\ nodes[k].val = IF k = i THEN v ELSE tab.node[k].val
        /\ nodes \in [D -> NodeSet(tab)] /\ tab.lastfree \in 0 .. twoto(tab.lsizenode)
    BY <1>2 DEF Shape, NodeSet
  <2>4. u = WithNodes(tab, nodes, tab.lastfree)
    <3> HIDE DEF u
    <3> QED
      BY <1>2, <2>2 DEF Shape, NodeSet, WithNodes
  <2> HIDE DEF u, nodes
  <2>5. /\ Shape(u) /\ Nodes(u) = D
        /\ u.array = tab.array /\ u.sizearray = tab.sizearray /\ u.lsizenode = tab.lsizenode
        /\ u.dummy = tab.dummy /\ u.node = nodes /\ u.lastfree = tab.lastfree
    BY <1>2, <2>3, <2>4, ShapeWithNodes
  <2>6. SameChains(tab, u)
    BY <2>3, <2>5 DEF SameChains, SameSizes
  <2>7. /\ Chains(u)
        /\ \A k \in D : Occupied(u, k) => ~InArray(u, u.node[k].key)
        /\ u.dummy => u.lsizenode = 0 /\ u.lastfree = 0 /\ ~Occupied(u, 0)
        /\ ~u.dummy => \A k \in D : k >= u.lastfree => Occupied(u, k)
    BY <2>5, <2>6, KeptChains
  <2>8. \A k \in D : Occupied(u, k) <=> Occupied(tab, k)
    BY <2>3, <2>5 DEF Occupied
  <2>9. Occupied(tab, i) /\ ~tab.node[i].dead
    BY <1>1, <2>1, KeysAreKeys DEF Live, Occupied
  <2>10. Fields(u)
    <3>1. \A k \in D : /\ u.node[k].val # nil => Occupied(u, k) /\ ~u.node[k].dead
                       /\ ~Occupied(u, k) => ~u.node[k].dead
      BY <1>2, <2>3, <2>5, <2>8, <2>9 DEF Fields
    <3> QED
      BY <1>2, <2>5, <2>7, <3>1 DEF Fields
  <2>11. WellFormed(u)
    BY <2>5, <2>7, <2>10 DEF WellFormed
  <2>12. ASSUME NEW q \in KeySpace
         PROVE  luaH_get(u, q) = IF q = key THEN v ELSE luaH_get(tab, q)
    <3>1. InArray(u, q) <=> InArray(tab, q)
      BY <2>5 DEF InArray
    <3>2. \A k \in D : Live(u, k, q) <=> Live(tab, k, q)
      BY <2>3, <2>5 DEF Live
    <3>3. CASE InArray(tab, q)
      BY <1>4, <2>5, <3>1, <3>3, ArrayPlace
    <3>4. CASE ~InArray(tab, q) /\ \E k \in D : Live(tab, k, q)
      <4>1. PICK k \in D : Live(tab, k, q)
        BY <3>4
      <4>2. luaH_get(tab, q) = tab.node[k].val
        BY <4>1, NodePlace
      <4>3. luaH_get(u, q) = u.node[k].val
        BY <2>5, <2>11, <3>2, <4>1, NodePlace
      <4>4. q = key <=> k = i
        <5>1. q = key => k = i
          BY <1>2, <2>1, <2>9, <4>1 DEF Chains, Live
        <5> QED
          BY <2>1, <4>1, <5>1 DEF Live
      <4> QED
        BY <2>3, <2>5, <4>2, <4>3, <4>4
    <3>5. CASE ~InArray(tab, q) /\ \A k \in D : ~Live(tab, k, q)
      <4>1. q # key
        BY <2>1, <3>5
      <4>2. luaH_get(tab, q) = nil
        BY <3>5, NoPlace
      <4>3. luaH_get(u, q) = nil
        BY <2>5, <2>11, <3>1, <3>2, <3>5, NoPlace
      <4> QED
        BY <4>1, <4>2, <4>3
    <3> QED
      BY <3>3, <3>4, <3>5
  <2> QED
    BY <2>1, <2>3, <2>5, <2>6, <2>11, <2>12 DEF u
<1> QED
  BY <1>3, <1>4

-----------------------------------------------------------------------------
(* Setting a key                                                             *)

HasRoom(tab, key) == Place(tab, key) = Nowhere => ~Full(tab, key)

LEMMA SetInRoomFinds ==
  ASSUME NEW tab, WellFormed(tab), NEW key \in Keys, HasRoom(tab, key)
  PROVE  LET r == SetInRoom(tab, key)
         IN  /\ WellFormed(r.tab) /\ SameSizes(tab, r.tab)
             /\ r.place = Place(r.tab, key) /\ r.place # Nowhere
             /\ \A q \in KeySpace : luaH_get(r.tab, q) = luaH_get(tab, q)
             /\ Place(tab, key) # Nowhere => r.tab = tab
             /\ \A j \in Nodes(r.tab) : Occupied(r.tab, j) /\ ~Live(r.tab, j, key) =>
                  \E k \in Nodes(tab) : Occupied(tab, k) /\ r.tab.node[j].val = tab.node[k].val
<1>1. CASE Place(tab, key) # Nowhere
  <2>1. SetInRoom(tab, key) = [tab |-> tab, place |-> Place(tab, key)]
    BY <1>1 DEF SetInRoom
  <2> QED
    BY <1>1, <2>1 DEF SameSizes
<1>2. CASE Place(tab, key) = Nowhere
  <2>1. ~Full(tab, key)
    BY <1>2 DEF HasRoom
  <2>2. SetInRoom(tab, key) = newkey(tab, key)
    BY <1>2, <2>1 DEF SetInRoom
  <2> DEFINE u == newkey(tab, key).tab
  <2>3. PICK i \in Nodes(tab) : newkey(tab, key).place = <<"node", i>> /\ Inserted(tab, u, key, i)
    BY <1>2, <2>1, NewKey
  <2> HIDE DEF u
  <2>4. WellFormed(u) /\ i \in Nodes(u) /\ Live(u, i, key) /\ SameSizes(tab, u)
    BY <2>3 DEF Inserted
  <2>5. Place(u, key) = <<"node", i>>
    BY <2>4, NodePlace, KeysAreKeys
  <2>6. <<"node", i>> # Nowhere
    BY DEF Nowhere
  <2> QED
    BY <1>2, <2>2, <2>3, <2>4, <2>5, <2>6 DEF Inserted, u
<1> QED
  BY <1>1, <1>2

\* Every key has a value, as in a table that is being built.
Dense(tab) == \A i \in Nodes(tab) : Occupied(tab, i) => tab.node[i].val # nil

LEMMA SetFieldStores ==
  ASSUME NEW tab, WellFormed(tab), Dense(tab),
         NEW field, field.key \in Keys, field.val \in Values \cup {nil}, field.val # nil,
         HasRoom(tab, field.key)
  PROVE  LET u == SetField(tab, field)
         IN  /\ WellFormed(u) /\ SameSizes(tab, u) /\ Dense(u)
             /\ \A q \in KeySpace : luaH_get(u, q) = IF q = field.key THEN field.val ELSE luaH_get(tab, q)
<1> DEFINE key == field.key
           v == field.val
           r == SetInRoom(tab, key)
           w == r.tab
           u == Put(w, r.place, v)
<1>1. u = SetField(tab, field)
  BY DEF SetField
<1>2. /\ WellFormed(w) /\ SameSizes(tab, w)
      /\ r.place = Place(w, key) /\ r.place # Nowhere
      /\ \A q \in KeySpace : luaH_get(w, q) = luaH_get(tab, q)
      /\ \A j \in Nodes(w) : Occupied(w, j) /\ ~Live(w, j, key) =>
           \E k \in Nodes(tab) : Occupied(tab, k) /\ w.node[j].val = tab.node[k].val
  BY SetInRoomFinds
<1> HIDE DEF w
<1>3. u = Put(w, Place(w, key), v) /\ Place(w, key) # Nowhere
  BY <1>2
<1> HIDE DEF r, u
<1>4. /\ WellFormed(u) /\ SameChains(w, u)
      /\ \A q \in KeySpace : luaH_get(u, q) = IF q = key THEN v ELSE luaH_get(w, q)
      /\ \A j \in Nodes(w) : \/ u.node[j].val = w.node[j].val
                             \/ Live(w, j, key) /\ u.node[j].val = v
  BY <1>2, <1>3, PutKeeps
<1>5. SameSizes(tab, u) /\ Nodes(u) = Nodes(w)
  BY <1>2, <1>4 DEF SameChains, SameSizes, Nodes
<1>6. Dense(u)
  <2> SUFFICES ASSUME NEW j \in Nodes(w), Occupied(u, j) PROVE u.node[j].val # nil
    BY <1>5 DEF Dense
  <2>1. Occupied(w, j)
    BY <1>4 DEF SameChains, Occupied
  <2>2. CASE ~Live(w, j, key)
    BY <1>2, <1>4, <2>1, <2>2 DEF Dense
  <2>3. CASE Live(w, j, key)
    <3>1. Place(w, key) = <<"node", j>> /\ luaH_get(w, key) = w.node[j].val
      BY <1>2, <2>3, NodePlace, KeysAreKeys
    <3>2. key \in KeySpace /\ luaH_get(u, key) = v
      BY <1>4, KeysAreKeys
    <3>3. Live(u, j, key)
      <4>1. ~u.node[j].dead
        <5>1. u = [w EXCEPT !.node[j].val = v]
          BY <1>3, <3>1 DEF Put
        <5> QED
          BY <1>2, <2>3, <5>1 DEF Live, WellFormed, Shape, NodeSet
      <4> QED
        BY <1>4, <2>3, <4>1 DEF SameChains, Live
    <3>4. luaH_get(u, key) = u.node[j].val
      BY <1>4, <1>5, <3>2, <3>3, NodePlace
    <3> QED
      BY <3>2, <3>4
  <2> QED
    BY <2>2, <2>3
<1> QED
  BY <1>1, <1>2, <1>4, <1>5, <1>6

-----------------------------------------------------------------------------
(* Induction over an interval                                                *)

LEMMA LeastElement ==
  ASSUME NEW S \in SUBSET Nat, S # {}
  PROVE  \E x \in S : \A y \in S : x <= y
<1> DEFINE Less == OpToRel(<, Nat)
<1>1. PICK x \in S : \A y \in S : ~(<<y, x>> \in Less)
  BY NatLessThanWellFounded, WFMin
<1>2. \A y \in S : ~(y < x)
  BY <1>1 DEF OpToRel
<1> QED
  BY <1>2

LEMMA IntervalInduction ==
  ASSUME NEW N \in Nat, NEW S, 0 \in S, \A n \in 1 .. N : n - 1 \in S => n \in S
  PROVE  \A n \in 0 .. N : n \in S
<1> SUFFICES ASSUME {n \in 0 .. N : n \notin S} # {} PROVE FALSE
  OBVIOUS
<1>1. PICK x \in {n \in 0 .. N : n \notin S} : \A y \in {n \in 0 .. N : n \notin S} : x <= y
  <2>1. {n \in 0 .. N : n \notin S} \in SUBSET Nat
    OBVIOUS
  <2> QED
    BY <2>1, LeastElement
<1>2. x \in 1 .. N /\ x - 1 \in 0 .. N /\ ~(x <= x - 1)
  BY <1>1
<1>3. x - 1 \in S
  BY <1>1, <1>2
<1> QED
  BY <1>1, <1>2, <1>3

-----------------------------------------------------------------------------
(* New tables                                                                *)

LogSize(nh) == IF nh = 0 THEN 0 ELSE ceillog2(nh)

\* A table with an array part and no keys in the hash part.
Fresh(array, na, nh) ==
  [array |-> array, sizearray |-> na,
   node |-> [i \in 0 .. twoto(LogSize(nh)) - 1 |-> FreeNode], lsizenode |-> LogSize(nh),
   lastfree |-> IF nh = 0 THEN 0 ELSE twoto(LogSize(nh)), dummy |-> nh = 0]

LEMMA LogSizeFits ==
  ASSUME NEW nh \in 0 .. twoto(MAXBITS)
  PROVE  /\ LogSize(nh) \in 0 .. MAXBITS /\ nh <= twoto(LogSize(nh))
         /\ nh = 0 => LogSize(nh) = 0
<1>1. MAXBITS \in 0 .. 27 /\ ceillog2(nh) \in 0 .. MAXBITS /\ nh <= twoto(ceillog2(nh))
  BY SliceInPart DEF MAXBITS
<1>2. twoto(0) = 1
  BY PowerValues
<1> QED
  BY <1>1, <1>2 DEF LogSize, MAXBITS

LEMMA FreshIsWellFormed ==
  ASSUME NEW na \in 0 .. twoto(MAXBITS), NEW nh \in 0 .. twoto(MAXBITS),
         NEW array \in [1 .. na -> Values \cup {nil}],
         \A i \in 1 .. na : array[i] # nil => Number(i) \in Keys
  PROVE  LET u == Fresh(array, na, nh)
         IN  /\ WellFormed(u) /\ Dense(u) /\ u.sizearray = na /\ u.lsizenode = LogSize(nh)
             /\ (u.dummy <=> nh = 0) /\ nh <= twoto(u.lsizenode)
             /\ \A q \in KeySpace :
                  luaH_get(u, q) = IF arrayindex(q) \in 1 .. na THEN array[arrayindex(q)] ELSE nil
<1> DEFINE u == Fresh(array, na, nh)
           ls == LogSize(nh)
<1>1. /\ u.sizearray = na /\ u.lsizenode = ls /\ u.array = array /\ (u.dummy <=> nh = 0)
      /\ u.lastfree = IF nh = 0 THEN 0 ELSE twoto(ls)
      /\ u.node = [i \in 0 .. twoto(ls) - 1 |-> FreeNode]
  BY DEF Fresh
<1>2. Nodes(u) = 0 .. twoto(ls) - 1
  BY <1>1 DEF Nodes
<1>3. /\ ls \in 0 .. MAXBITS /\ nh <= twoto(ls) /\ (nh = 0 => ls = 0)
      /\ twoto(ls) \in Nat /\ twoto(ls) >= 1
  <2>1. ls \in 0 .. MAXBITS /\ nh <= twoto(ls) /\ (nh = 0 => ls = 0)
    BY LogSizeFits
  <2> HIDE DEF ls
  <2>2. ls \in 0 .. 32
    BY <2>1 DEF MAXBITS
  <2>3. twoto(ls) \in Nat /\ twoto(ls) >= 1
    BY <2>2, PowersArePositive
  <2> QED
    BY <2>1, <2>3
<1>4. \A i \in Nodes(u) : u.node[i] = FreeNode
  BY <1>1, <1>2
<1>5. FreeNode \in NodeSet(u)
  BY DEF FreeNode, NodeSet
<1>6. Shape(u)
  <2>1. u \in [array : [1 .. na -> Values \cup {nil}], sizearray : 0 .. twoto(MAXBITS),
               node : [0 .. twoto(ls) - 1 -> NodeSet(u)],
               lsizenode : 0 .. MAXBITS, lastfree : 0 .. twoto(ls), dummy : BOOLEAN]
    <3>1. [i \in 0 .. twoto(ls) - 1 |-> FreeNode] \in [0 .. twoto(ls) - 1 -> NodeSet(u)]
      BY <1>5
    <3>2. (IF nh = 0 THEN 0 ELSE twoto(ls)) \in 0 .. twoto(ls)
      BY <1>3
    <3> QED
      BY <1>3, <3>1, <3>2 DEF Fresh
  <2> QED
    BY <1>1, <1>2, <2>1 DEF Shape
<1> HIDE DEF u, ls
<1>7. \A i \in Nodes(u) : /\ ~Occupied(u, i) /\ u.node[i].val = nil /\ ~u.node[i].dead
                          /\ u.node[i].next = -1 /\ \A q \in KeySpace : ~Live(u, i, q)
  BY <1>4, KeysAreKeys DEF FreeNode, Occupied, Live
<1>8. Chains(u)
  <2>1. NoCycle(Nexts(u), Nodes(u))
    <3>1. \A i \in Nodes(u) : Nexts(u)[i] = -1
      BY <1>7 DEF Nexts
    <3>2. -1 \notin Nodes(u)
      BY <1>6, NodesAreNumbers DEF Shape
    <3> QED
      BY <3>1, <3>2 DEF NoCycle
  <2> QED
    BY <1>7, <2>1 DEF Chains
<1>9. Fields(u)
  <2>1. u.dummy => u.lsizenode = 0 /\ u.lastfree = 0 /\ ~Occupied(u, 0)
    <3>1. 0 \in Nodes(u)
      BY <1>6, NodesAreNumbers DEF Shape
    <3> QED
      BY <1>1, <1>3, <1>7, <3>1
  <2>2. ~u.dummy => \A i \in Nodes(u) : ~(i >= u.lastfree)
    <3>1. ~u.dummy => u.lastfree = twoto(ls)
      BY <1>1
    <3>2. \A i \in Nodes(u) : ~(i >= twoto(ls))
      BY <1>2, <1>3
    <3> QED
      BY <3>1, <3>2
  <2> QED
    BY <1>1, <1>7, <2>1, <2>2 DEF Fields
<1>10. WellFormed(u) /\ Dense(u)
  BY <1>6, <1>7, <1>8, <1>9 DEF WellFormed, Dense
<1>11. ASSUME NEW q \in KeySpace
       PROVE  luaH_get(u, q) = IF arrayindex(q) \in 1 .. na THEN array[arrayindex(q)] ELSE nil
  <2>1. CASE InArray(u, q)
    BY <1>1, <2>1, ArrayPlace DEF InArray
  <2>2. CASE ~InArray(u, q)
    BY <1>1, <1>7, <1>10, <2>2, NoPlace DEF InArray
  <2> QED
    BY <2>1, <2>2
<1> QED
  BY <1>1, <1>3, <1>10, <1>11 DEF u, ls

LEMMA NewTable ==
  ASSUME NEW na \in 0 .. twoto(MAXBITS), NEW nh \in 0 .. twoto(MAXBITS)
  PROVE  /\ WellFormed(luaH_new(na, nh))
         /\ \A q \in KeySpace : luaH_get(luaH_new(na, nh), q) = nil
<1> DEFINE array == [i \in 1 .. na |-> nil]
<1>1. na \in Nat
  BY PowersArePositive DEF MAXBITS
<1>2. luaH_new(na, nh) = Fresh(array, na, nh)
  <2> DEFINE empty == [array |-> <<>>, sizearray |-> 0, node |-> <<>>, lsizenode |-> 0,
                       lastfree |-> 0, dummy |-> TRUE]
             part == setarrayvector(empty, na)
  <2>1. array = [i \in 1 .. na |-> IF i <= 0 THEN <<>>[i] ELSE nil]
    BY <1>1
  <2>2. part = [array |-> array, sizearray |-> na, node |-> <<>>, lsizenode |-> 0,
                lastfree |-> 0, dummy |-> TRUE]
    <3>1. part = [empty EXCEPT !.array = [i \in 1 .. na |-> IF i <= empty.sizearray THEN @[i] ELSE nil],
                               !.sizearray = na]
      BY DEF setarrayvector
    <3>2. part = [empty EXCEPT !.array = array, !.sizearray = na]
      BY <2>1, <3>1
    <3> HIDE DEF part, array
    <3> QED
      BY <3>2
  <2>3. luaH_new(na, nh) = setnodevector(part, nh)
    BY DEF luaH_new
  <2> HIDE DEF part, array
  <2> QED
    BY <2>2, <2>3 DEF setnodevector, Fresh, LogSize
<1>3. array \in [1 .. na -> Values \cup {nil}] /\ \A i \in 1 .. na : array[i] = nil
  OBVIOUS
<1> HIDE DEF array
<1> QED
  BY <1>2, <1>3, FreshIsWellFormed

-----------------------------------------------------------------------------
(* Room                                                                      *)

\* While a table is built, there is a node for every key that will be in one.
LEMMA NotFull ==
  ASSUME NEW u, WellFormed(u), Dense(u), NEW key \in Keys,
         NEW nh \in Nat, u.dummy <=> nh = 0, nh <= twoto(u.lsizenode),
         NEW R, IsFiniteSet(R), Cardinality(R) <= nh, ~InArray(u, key) => key \in R,
         \A q \in Keys : ~InArray(u, q) /\ luaH_get(u, q) # nil => q \in R
  PROVE  HasRoom(u, key)
<1> SUFFICES ASSUME Place(u, key) = Nowhere, Full(u, key) PROVE FALSE
  BY DEF HasRoom
<1>0. key \in KeySpace /\ Shape(u) /\ Chains(u) /\ Fields(u)
  BY KeysAreKeys DEF WellFormed
<1>1. ~InArray(u, key) /\ \A i \in Nodes(u) : ~Live(u, i, key)
  BY <1>0, ArrayPlace, NodePlace DEF Nowhere
<1>2. Cardinality(R) \in Nat /\ Cardinality(R) # 0
  <2>1. R # {}
    BY <1>1
  <2> QED
    <3>1. Cardinality(R) \in Nat
      BY FS_CardinalityType
    <3>2. Cardinality(R) # 0
      BY <2>1, FS_EmptySet
    <3> QED
      BY <3>1, <3>2
<1>3. ~u.dummy
  <2>1. nh # 0
    BY <1>2
  <2> QED
    BY <2>1
<1>4. \A i \in Nodes(u) : Occupied(u, i) /\ u.node[i].val # nil /\ ~u.node[i].dead
  <2>1. getfreepos(u) = -1
    BY DEF Full
  <2>2. \A i \in Nodes(u) : Occupied(u, i)
    BY <1>3, <2>1, FreePosition
  <2> QED
    BY <1>0, <2>2 DEF Dense, Fields
<1> DEFINE f == [i \in Nodes(u) |-> u.node[i].key]
<1>5. \A i \in Nodes(u) : u.node[i].key \in R \ {key}
  <2> SUFFICES ASSUME NEW i \in Nodes(u) PROVE u.node[i].key \in R \ {key}
    OBVIOUS
  <2>1. u.node[i].key \in Keys
    BY <1>0, <1>4 DEF Shape, NodeSet, Occupied
  <2>2. Live(u, i, u.node[i].key)
    BY <1>4 DEF Live
  <2>3. luaH_get(u, u.node[i].key) # nil /\ ~InArray(u, u.node[i].key)
    BY <1>4, <2>1, <2>2, NodePlace, KeysAreKeys
  <2> QED
    BY <1>1, <2>1, <2>2, <2>3
<1>6. \A i, j \in Nodes(u) : u.node[i].key = u.node[j].key => i = j
  BY <1>0, <1>4 DEF Chains
<1>7. f \in Injection(Nodes(u), R \ {key})
  BY <1>5, <1>6 DEF Injection, IsInjective
<1>8. IsFiniteSet(R \ {key}) /\ Cardinality(R \ {key}) = Cardinality(R) - 1
  BY <1>1, FS_RemoveElement
<1>9. Cardinality(Nodes(u)) <= Cardinality(R \ {key})
  BY <1>7, <1>8, FS_Injection
<1>10. Cardinality(Nodes(u)) = twoto(u.lsizenode) /\ twoto(u.lsizenode) \in Nat
  <2>1. twoto(u.lsizenode) \in Nat /\ twoto(u.lsizenode) >= 1
    BY <1>0, NodesAreNumbers DEF Shape
  <2> QED
    BY <2>1, FS_Interval DEF Nodes
<1> QED
  BY <1>2, <1>8, <1>9, <1>10

-----------------------------------------------------------------------------
(* The table built anew                                                      *)

Kept(tab, na) == [i \in 1 .. na |-> IF i <= tab.sizearray THEN tab.array[i] ELSE nil]

Cut(tab, na, nh) == Fresh(Kept(tab, na), na, nh)

Slice(tab, na) == IF na < tab.sizearray THEN tab.sizearray - na ELSE 0

FieldAt(tab, na, k) ==
  IF k <= Slice(tab, na) THEN [key |-> Number(na + k), val |-> tab.array[na + k]]
  ELSE tab.node[sizenode(tab) - (k - Slice(tab, na))]

AllFields(tab, na) == Slice(tab, na) + sizenode(tab)

\* The table before its first field, as resize makes it.
Emptied(tab, na, nh) ==
  LET grown == IF na > tab.sizearray THEN setarrayvector(tab, na) ELSE tab
      fresh == setnodevector(grown, nh)
  IN  [fresh EXCEPT !.array = [i \in 1 .. na |-> @[i]], !.sizearray = na]

LEMMA CutOfTable ==
  ASSUME NEW tab, Shape(tab), NEW na \in 0 .. twoto(MAXBITS), NEW nh \in 0 .. twoto(MAXBITS)
  PROVE  Emptied(tab, na, nh) = Cut(tab, na, nh)
<1> DEFINE grown == IF na > tab.sizearray THEN setarrayvector(tab, na) ELSE tab
           fresh == setnodevector(grown, nh)
           cut == [fresh EXCEPT !.array = [i \in 1 .. na |-> fresh.array[i]], !.sizearray = na]
           size == IF na > tab.sizearray THEN na ELSE tab.sizearray
           nodes == [i \in 0 .. twoto(LogSize(nh)) - 1 |-> FreeNode]
           free == IF nh = 0 THEN 0 ELSE twoto(LogSize(nh))
           none == nh = 0
<1>0. na \in Nat /\ tab.sizearray \in Nat
  BY PowersArePositive DEF Shape, MAXBITS
<1>1. grown = [array |-> grown.array, sizearray |-> size, node |-> tab.node,
               lsizenode |-> tab.lsizenode, lastfree |-> tab.lastfree, dummy |-> tab.dummy]
  <2>1. CASE na > tab.sizearray
    <3>1. grown = [tab EXCEPT !.array = [i \in 1 .. na |-> IF i <= tab.sizearray THEN tab.array[i] ELSE nil],
                              !.sizearray = na]
      BY <2>1 DEF setarrayvector
    <3> HIDE DEF grown
    <3> QED
      BY <2>1, <3>1 DEF Shape
  <2>2. CASE ~(na > tab.sizearray)
    BY <2>2 DEF Shape
  <2> QED
    BY <2>1, <2>2
<1>2. \A i \in 1 .. na : grown.array[i] = IF i <= tab.sizearray THEN tab.array[i] ELSE nil
  <2>1. CASE na > tab.sizearray
    <3>1. grown.array = [i \in 1 .. na |-> IF i <= tab.sizearray THEN tab.array[i] ELSE nil]
      BY <2>1 DEF setarrayvector, Shape
    <3> QED
      BY <3>1
  <2>2. CASE ~(na > tab.sizearray)
    BY <1>0, <2>2
  <2> QED
    BY <2>1, <2>2
<1> HIDE DEF grown
<1>3. fresh = [array |-> grown.array, sizearray |-> size, node |-> nodes,
               lsizenode |-> LogSize(nh), lastfree |-> free, dummy |-> none]
  <2>1. fresh = [grown EXCEPT !.dummy = none, !.lsizenode = LogSize(nh), !.node = nodes, !.lastfree = free]
    BY DEF setnodevector, LogSize
  <2>2. PICK a : grown = [array |-> a, sizearray |-> size, node |-> tab.node,
                          lsizenode |-> tab.lsizenode, lastfree |-> tab.lastfree, dummy |-> tab.dummy]
    BY <1>1
  <2> HIDE DEF fresh, nodes, free, size, none
  <2> QED
    BY <2>1, <2>2
<1>4. [i \in 1 .. na |-> fresh.array[i]] = Kept(tab, na)
  BY <1>2, <1>3 DEF Kept
<1>5. cut = [array |-> Kept(tab, na), sizearray |-> na, node |-> nodes,
             lsizenode |-> LogSize(nh), lastfree |-> free, dummy |-> none]
  <2>1. cut = [fresh EXCEPT !.array = Kept(tab, na), !.sizearray = na]
    BY <1>4
  <2> HIDE DEF cut, fresh, nodes, free, size, none
  <2> QED
    BY <1>3, <2>1
<1> QED
  BY <1>5 DEF Cut, Fresh, Emptied, grown

\* One step after the other, from a table on.
Filling(start, tab, na, N, g) ==
  [k \in 0 .. N |-> IF k = 0 THEN start ELSE SetField(g[k - 1], FieldAt(tab, na, k))]

LEMMA StepsExist ==
  ASSUME NEW start, NEW tab, NEW na, NEW N \in Nat
  PROVE  \E g : g = Filling(start, tab, na, N, g)
<1> DEFINE S == {n \in Nat : \E g : g = Filling(start, tab, na, n, g)}
<1>1. 0 \in S
  <2> DEFINE h == [k \in 0 .. 0 |-> start]
  <2>1. h = Filling(start, tab, na, 0, h)
    BY DEF Filling
  <2> QED
    BY <2>1
<1>2. \A n \in 1 .. N : n - 1 \in S => n \in S
  <2> SUFFICES ASSUME NEW n \in 1 .. N, n - 1 \in S PROVE n \in S
    OBVIOUS
  <2>1. PICK g : g = Filling(start, tab, na, n - 1, g)
    OBVIOUS
  <2> DEFINE h == [k \in 0 .. n |-> IF k < n THEN g[k] ELSE SetField(g[n - 1], FieldAt(tab, na, n))]
  <2>2. \A k \in 0 .. n : h[k] = IF k = 0 THEN start ELSE SetField(h[k - 1], FieldAt(tab, na, k))
    <3> SUFFICES ASSUME NEW k \in 0 .. n
                 PROVE  h[k] = IF k = 0 THEN start ELSE SetField(h[k - 1], FieldAt(tab, na, k))
      OBVIOUS
    <3>1. CASE k = n
      BY <3>1
    <3>2. CASE k < n
      <4>1. g[k] = IF k = 0 THEN start ELSE SetField(g[k - 1], FieldAt(tab, na, k))
        BY <2>1, <3>2 DEF Filling
      <4>2. h[k] = g[k] /\ (k # 0 => h[k - 1] = g[k - 1])
        BY <3>2
      <4> HIDE DEF h
      <4> QED
        BY <4>1, <4>2
    <3> QED
      BY <3>1, <3>2
  <2>3. h = Filling(start, tab, na, n, h)
    <3>1. h = [k \in 0 .. n |-> h[k]]
      OBVIOUS
    <3> HIDE DEF h
    <3> QED
      BY <2>2, <3>1 DEF Filling
  <2>4. \E f : f = Filling(start, tab, na, n, f)
    <3> HIDE DEF h
    <3> QED
      BY <2>3
  <2> QED
    BY <2>4
<1> HIDE DEF S
<1>3. N \in S
  BY <1>1, <1>2, IntervalInduction
<1> QED
  BY <1>3 DEF S

LEMMA ResizeBySteps ==
  ASSUME NEW tab, Shape(tab), NEW na \in 0 .. twoto(MAXBITS), NEW nh \in 0 .. twoto(MAXBITS)
  PROVE  /\ AllFields(tab, na) \in Nat
         /\ \E g : /\ g[0] = Cut(tab, na, nh)
                   /\ \A k \in 1 .. AllFields(tab, na) : g[k] = SetField(g[k - 1], FieldAt(tab, na, k))
                   /\ resize(tab, na, nh) = g[AllFields(tab, na)]
<1> DEFINE start == Emptied(tab, na, nh)
           N == AllFields(tab, na)
           filled == CHOOSE g : g = Filling(start, tab, na, N, g)
<1>1. start = Cut(tab, na, nh)
  BY CutOfTable
<1>2. N \in Nat
  <2>1. twoto(MAXBITS) \in Nat
    BY PowersArePositive DEF MAXBITS
  <2>2. tab.sizearray \in Nat /\ na \in Nat
    BY <2>1 DEF Shape
  <2>3. twoto(tab.lsizenode) \in Nat
    BY NodesAreNumbers DEF Shape
  <2> QED
    BY <2>2, <2>3 DEF AllFields, Slice, sizenode
<1>3. \E g : g = Filling(start, tab, na, N, g)
  <2> HIDE DEF start, N
  <2> QED
    BY <1>2, StepsExist
<1>4. filled = Filling(start, tab, na, N, filled)
  <2> HIDE DEF start, N
  <2> QED
    BY <1>3
<1>5. resize(tab, na, nh) = filled[N]
  BY DEF resize, Filling, Emptied, AllFields, FieldAt, Slice
<1> HIDE DEF filled, start, N
<1>6. filled[0] = start /\ \A k \in 1 .. N : filled[k] = SetField(filled[k - 1], FieldAt(tab, na, k))
  BY <1>2, <1>4 DEF Filling
<1> QED
  BY <1>1, <1>2, <1>5, <1>6 DEF N

LEMMA PartsAreNumbers ==
  ASSUME NEW tab, Shape(tab)
  PROVE  tab.sizearray \in Nat /\ sizenode(tab) \in Nat /\ Nodes(tab) = 0 .. sizenode(tab) - 1
<1>1. twoto(MAXBITS) \in Nat
  BY PowersArePositive DEF MAXBITS
<1>2. tab.sizearray \in Nat
  BY <1>1 DEF Shape
<1>3. twoto(tab.lsizenode) \in Nat
  BY NodesAreNumbers DEF Shape
<1> QED
  BY <1>2, <1>3 DEF Nodes, sizenode

\* What is moved is a field of the table, or nothing.
LEMMA FieldOfTable ==
  ASSUME NEW tab, WellFormed(tab), NEW na \in Nat, NEW k \in 1 .. AllFields(tab, na)
  PROVE  /\ FieldAt(tab, na, k).val \in Values \cup {nil}
         /\ FieldAt(tab, na, k).val # nil =>
              /\ FieldAt(tab, na, k).key \in Keys
              /\ luaH_get(tab, FieldAt(tab, na, k).key) = FieldAt(tab, na, k).val
<1>0. Shape(tab) /\ Fields(tab)
  BY DEF WellFormed
<1>1. tab.sizearray \in Nat /\ sizenode(tab) \in Nat /\ Nodes(tab) = 0 .. sizenode(tab) - 1
  BY <1>0, PartsAreNumbers
<1>2. CASE k <= Slice(tab, na)
  <2> DEFINE i == na + k
  <2>1. i \in 1 .. tab.sizearray
    BY <1>1, <1>2 DEF Slice, AllFields
  <2>2. FieldAt(tab, na, k).key = Number(i) /\ FieldAt(tab, na, k).val = tab.array[i]
    BY <1>2 DEF FieldAt
  <2>3. tab.array[i] \in Values \cup {nil}
    BY <1>0, <2>1 DEF Shape
  <2>4. ASSUME tab.array[i] # nil
        PROVE  Number(i) \in Keys /\ luaH_get(tab, Number(i)) = tab.array[i]
    <3>1. Number(i) \in Keys
      BY <1>0, <2>1, <2>4 DEF Fields
    <3>2. arrayindex(Number(i)) = i
      BY <2>1, IndexOfNumber
    <3>3. InArray(tab, Number(i))
      BY <2>1, <3>2 DEF InArray
    <3> QED
      BY <3>1, <3>2, <3>3, ArrayPlace, KeysAreKeys
  <2> QED
    BY <2>2, <2>3, <2>4
<1>3. CASE ~(k <= Slice(tab, na))
  <2> DEFINE i == sizenode(tab) - (k - Slice(tab, na))
  <2>1. i \in Nodes(tab)
    BY <1>1, <1>3 DEF AllFields, Slice
  <2>2. FieldAt(tab, na, k) = tab.node[i]
    BY <1>3 DEF FieldAt
  <2> HIDE DEF i
  <2>3. tab.node[i].val \in Values \cup {nil} /\ tab.node[i].key \in Keys \cup {Nil}
    BY <1>0, <2>1 DEF Shape, NodeSet
  <2>4. ASSUME tab.node[i].val # nil
        PROVE  tab.node[i].key \in Keys /\ luaH_get(tab, tab.node[i].key) = tab.node[i].val
    <3>1. Occupied(tab, i) /\ Live(tab, i, tab.node[i].key)
      BY <1>0, <2>1, <2>4 DEF Fields, Live
    <3>2. tab.node[i].key \in Keys
      BY <2>3, <3>1 DEF Occupied
    <3> QED
      BY <2>1, <3>1, <3>2, NodePlace, KeysAreKeys
  <2> QED
    BY <2>2, <2>3, <2>4
<1> QED
  BY <1>2, <1>3

\* Everything that does not stay in the array part is moved.
LEMMA FieldsComplete ==
  ASSUME NEW tab, WellFormed(tab), NEW na \in Nat, NEW q \in KeySpace, luaH_get(tab, q) # nil
  PROVE  \/ arrayindex(q) \in 1 .. na /\ arrayindex(q) \in 1 .. tab.sizearray
         \/ \E k \in 1 .. AllFields(tab, na) :
              FieldAt(tab, na, k).key = q /\ FieldAt(tab, na, k).val # nil
<1>0. Shape(tab) /\ Fields(tab)
  BY DEF WellFormed
<1>1. tab.sizearray \in Nat /\ sizenode(tab) \in Nat /\ Nodes(tab) = 0 .. sizenode(tab) - 1
  BY <1>0, PartsAreNumbers
<1>2. CASE InArray(tab, q)
  <2> DEFINE i == arrayindex(q)
  <2>1. i \in 1 .. tab.sizearray /\ luaH_get(tab, q) = tab.array[i]
    BY <1>2, ArrayPlace DEF InArray
  <2>2. q = Number(i)
    BY <1>1, <2>1, IndexOfNumber
  <2> HIDE DEF i
  <2>3. CASE i > na
    <3>1. i - na \in 1 .. AllFields(tab, na) /\ i - na <= Slice(tab, na)
      BY <1>1, <2>1, <2>3 DEF AllFields, Slice
    <3>2. na + (i - na) = i
      BY <1>1, <2>1
    <3>3. FieldAt(tab, na, i - na).key = Number(i) /\ FieldAt(tab, na, i - na).val = tab.array[i]
      BY <3>1, <3>2 DEF FieldAt
    <3> QED
      BY <2>1, <2>2, <3>1, <3>3
  <2>4. CASE ~(i > na)
    BY <1>1, <2>1, <2>4 DEF i
  <2> QED
    BY <2>3, <2>4
<1>3. CASE ~InArray(tab, q)
  <2>1. PICK i \in Nodes(tab) : Live(tab, i, q) /\ luaH_get(tab, q) = tab.node[i].val
    BY <1>3, PlaceCases
  <2> DEFINE k == Slice(tab, na) + sizenode(tab) - i
  <2>2. k \in 1 .. AllFields(tab, na) /\ ~(k <= Slice(tab, na)) /\ sizenode(tab) - (k - Slice(tab, na)) = i
    BY <1>1, <2>1 DEF AllFields, Slice
  <2> HIDE DEF k
  <2>3. FieldAt(tab, na, k) = tab.node[i]
    BY <2>2 DEF FieldAt
  <2> QED
    BY <2>1, <2>2, <2>3 DEF Live
<1> QED
  BY <1>2, <1>3

\* The keys that need a node.
Elsewhere(tab, na) == {q \in Keys : luaH_get(tab, q) # nil /\ arrayindex(q) \notin 1 .. na}

\* The table holds what it held before: nothing is lost, whatever moves where.
LEMMA ResizeKeeps ==
  ASSUME NEW tab, WellFormed(tab), NEW na \in 0 .. twoto(MAXBITS), NEW nh \in 0 .. twoto(MAXBITS),
         Cardinality(Elsewhere(tab, na)) <= nh
  PROVE  LET u == resize(tab, na, nh)
         IN  /\ WellFormed(u) /\ Dense(u) /\ u.sizearray = na
             /\ (u.dummy <=> nh = 0) /\ nh <= twoto(u.lsizenode)
             /\ \A q \in KeySpace : luaH_get(u, q) = luaH_get(tab, q)
<1>0. Shape(tab) /\ Fields(tab)
  BY DEF WellFormed
<1>1. tab.sizearray \in Nat /\ na \in Nat /\ nh \in Nat
  <2>1. twoto(MAXBITS) \in Nat
    BY PowersArePositive DEF MAXBITS
  <2> QED
    BY <1>0, <2>1, PartsAreNumbers
<1> DEFINE N == AllFields(tab, na)
           c == Cut(tab, na, nh)
           field(k) == FieldAt(tab, na, k)
           stays(q) == arrayindex(q) \in 1 .. na /\ arrayindex(q) \in 1 .. tab.sizearray
           moved(k, q) == \E l \in 1 .. k : field(l).key = q /\ field(l).val # nil
           Part(k, u) ==
             /\ WellFormed(u) /\ Dense(u) /\ SameSizes(c, u)
             /\ \A q \in KeySpace :
                  luaH_get(u, q) = IF stays(q) \/ moved(k, q) THEN luaH_get(tab, q) ELSE nil
<1>2. PICK g : /\ g[0] = c
               /\ \A k \in 1 .. N : g[k] = SetField(g[k - 1], field(k))
               /\ resize(tab, na, nh) = g[N]
  BY <1>0, ResizeBySteps
<1>3. N \in Nat
  BY <1>0, ResizeBySteps
<1>4. /\ WellFormed(c) /\ Dense(c) /\ c.sizearray = na /\ (c.dummy <=> nh = 0) /\ nh <= twoto(c.lsizenode)
      /\ \A q \in KeySpace : luaH_get(c, q) = IF stays(q) THEN luaH_get(tab, q) ELSE nil
  <2> DEFINE array == Kept(tab, na)
  <2>1. array \in [1 .. na -> Values \cup {nil}]
    BY <1>0, <1>1 DEF Shape, Kept
  <2>2. \A i \in 1 .. na : array[i] = IF i <= tab.sizearray THEN tab.array[i] ELSE nil
    BY DEF Kept
  <2>3. \A i \in 1 .. na : array[i] # nil => Number(i) \in Keys
    BY <1>0, <1>1, <2>2 DEF Fields
  <2>4. c = Fresh(array, na, nh)
    BY DEF Cut
  <2> HIDE DEF array, c
  <2>5. /\ WellFormed(c) /\ Dense(c) /\ c.sizearray = na /\ (c.dummy <=> nh = 0) /\ nh <= twoto(c.lsizenode)
        /\ \A q \in KeySpace :
             luaH_get(c, q) = IF arrayindex(q) \in 1 .. na THEN array[arrayindex(q)] ELSE nil
    BY <2>1, <2>3, <2>4, FreshIsWellFormed
  <2>6. ASSUME NEW q \in KeySpace PROVE luaH_get(c, q) = IF stays(q) THEN luaH_get(tab, q) ELSE nil
    <3>1. CASE stays(q)
      <4>1. InArray(tab, q)
        BY <3>1 DEF InArray
      <4>2. luaH_get(tab, q) = tab.array[arrayindex(q)]
        BY <4>1, ArrayPlace
      <4> QED
        BY <1>1, <2>2, <2>5, <3>1, <4>2
    <3>2. CASE ~stays(q)
      BY <1>1, <2>2, <2>5, <3>2
    <3> QED
      BY <3>1, <3>2
  <2> QED
    BY <2>5, <2>6
<1> HIDE DEF c, N
<1>5. IsFiniteSet(Elsewhere(tab, na))
  <2>1. Elsewhere(tab, na) \in SUBSET Keys
    BY DEF Elsewhere
  <2> QED
    BY <2>1, TableConstants, FS_Subset
<1> DEFINE S == {k \in 0 .. N : Part(k, g[k])}
<1>6. 0 \in S
  <2>1. \A q : ~moved(0, q)
    OBVIOUS
  <2>2. Part(0, c)
    BY <1>4, <2>1 DEF SameSizes
  <2> HIDE DEF Part
  <2> QED
    BY <1>2, <1>3, <2>2
<1>7. ASSUME NEW k \in 1 .. N, k - 1 \in S PROVE k \in S
  <2> DEFINE u == g[k - 1]
             f == field(k)
  <2>1. /\ WellFormed(u) /\ Dense(u) /\ SameSizes(c, u)
        /\ \A q \in KeySpace :
             luaH_get(u, q) = IF stays(q) \/ moved(k - 1, q) THEN luaH_get(tab, q) ELSE nil
    BY <1>7
  <2>2. \A q : moved(k, q) <=> moved(k - 1, q) \/ (f.key = q /\ f.val # nil)
    <3>1. 1 .. k = 1 .. (k - 1) \cup {k}
      BY <1>3
    <3> HIDE DEF field
    <3> QED
      BY <3>1
  <2>3. f.val \in Values \cup {nil} /\ (f.val # nil => f.key \in Keys /\ luaH_get(tab, f.key) = f.val)
    BY <1>1, FieldOfTable DEF N
  <2>4. g[k] = SetField(u, f)
    BY <1>2
  <2> HIDE DEF u, f, moved, stays
  <2>5. CASE f.val = nil
    <3>1. g[k] = u
      BY <2>4, <2>5 DEF SetField
    <3>2. Part(k, u)
      BY <2>1, <2>2, <2>5
    <3> HIDE DEF Part
    <3> QED
      BY <3>1, <3>2
  <2>6. CASE f.val # nil
    <3>1. u.sizearray = na /\ u.lsizenode = c.lsizenode /\ (u.dummy <=> nh = 0) /\ nh <= twoto(u.lsizenode)
      BY <1>4, <2>1 DEF SameSizes
    <3>2. \A q \in Keys : InArray(u, q) <=> arrayindex(q) \in 1 .. na
      BY <3>1 DEF InArray
    <3>3. ~InArray(u, f.key) => f.key \in Elsewhere(tab, na)
      BY <2>3, <2>6, <3>2 DEF Elsewhere
    <3>4. \A q \in Keys : ~InArray(u, q) /\ luaH_get(u, q) # nil => q \in Elsewhere(tab, na)
      BY <2>1, <3>2, KeysAreKeys DEF Elsewhere
    <3>5. HasRoom(u, f.key)
      BY <1>1, <1>5, <2>1, <2>3, <2>6, <3>1, <3>3, <3>4, NotFull
    <3>6. /\ WellFormed(g[k]) /\ SameSizes(u, g[k]) /\ Dense(g[k])
          /\ \A q \in KeySpace : luaH_get(g[k], q) = IF q = f.key THEN f.val ELSE luaH_get(u, q)
      BY <2>1, <2>3, <2>4, <2>6, <3>5, SetFieldStores
    <3>7. SameSizes(c, g[k])
      BY <2>1, <3>6 DEF SameSizes
    <3>8. \A q \in KeySpace :
            luaH_get(g[k], q) = IF stays(q) \/ moved(k, q) THEN luaH_get(tab, q) ELSE nil
      BY <2>1, <2>2, <2>3, <2>6, <3>6
    <3> QED
      BY <3>6, <3>7, <3>8
  <2> QED
    BY <2>5, <2>6
<1>8. Part(N, g[N])
  <2> HIDE DEF Part
  <2>1. \A k \in 1 .. N : k - 1 \in S => k \in S
    BY <1>7
  <2> HIDE DEF S
  <2>2. N \in S
    BY <1>3, <1>6, <2>1, IntervalInduction
  <2> QED
    BY <2>2 DEF S
<1>9. \A q \in KeySpace : luaH_get(tab, q) # nil => stays(q) \/ moved(N, q)
  BY <1>1, FieldsComplete DEF N
<1>10. \A q \in KeySpace : luaH_get(g[N], q) = luaH_get(tab, q)
  <2> HIDE DEF stays, moved
  <2> QED
    BY <1>8, <1>9
<1>11. g[N].sizearray = na /\ (g[N].dummy <=> nh = 0) /\ nh <= twoto(g[N].lsizenode)
  BY <1>4, <1>8 DEF SameSizes
<1> QED
  BY <1>2, <1>8, <1>10, <1>11

-----------------------------------------------------------------------------
(* The size of the array part                                                *)

UpTo(ints, n) == {k \in ints : k <= n}
InSlices(ints) == [i \in Slices |-> {k \in ints : ceillog2(k) = i}]

\* The sizes of which more than half would be in use.
Pays(ints) == {i \in Slices : 2 * Cardinality(UpTo(ints, twoto(i))) > twoto(i)}

LEMMA IndicesAreFinite ==
  ASSUME NEW ints \in SUBSET (1 .. twoto(MAXBITS))
  PROVE  /\ twoto(MAXBITS) \in Nat /\ ints \subseteq Nat /\ \A k \in ints : k >= 1
         /\ IsFiniteSet(ints) /\ Cardinality(ints) \in Nat
         /\ \A n : /\ IsFiniteSet(UpTo(ints, n)) /\ Cardinality(UpTo(ints, n)) \in Nat
                   /\ Cardinality(UpTo(ints, n)) <= Cardinality(ints)
                   /\ Cardinality(UpTo(ints, n)) = Cardinality(ints) => UpTo(ints, n) = ints
         /\ \A n \in Nat : Cardinality(UpTo(ints, n)) <= n
<1>1. twoto(MAXBITS) \in Nat
  BY PowersArePositive DEF MAXBITS
<1>2. \A k \in ints : k \in Nat /\ k >= 1
  <2> DEFINE top == twoto(MAXBITS)
  <2>1. top \in Nat /\ ints \subseteq 1 .. top
    BY <1>1
  <2> HIDE DEF top
  <2> QED
    BY <2>1
<1>3. IsFiniteSet(ints)
  <2>1. IsFiniteSet(1 .. twoto(MAXBITS))
    BY <1>1, FS_Interval
  <2> QED
    BY <2>1, FS_Subset
<1>4. Cardinality(ints) \in Nat
  BY <1>3, FS_CardinalityType
<1>5. ASSUME NEW n
      PROVE  /\ IsFiniteSet(UpTo(ints, n)) /\ Cardinality(UpTo(ints, n)) \in Nat
             /\ Cardinality(UpTo(ints, n)) <= Cardinality(ints)
             /\ Cardinality(UpTo(ints, n)) = Cardinality(ints) => UpTo(ints, n) = ints
  <2>1. UpTo(ints, n) \in SUBSET ints
    BY DEF UpTo
  <2> QED
    BY <1>3, <2>1, FS_Subset, FS_CardinalityType
<1>6. ASSUME NEW n \in Nat PROVE Cardinality(UpTo(ints, n)) <= n
  <2>1. UpTo(ints, n) \in SUBSET (1 .. n)
    <3> SUFFICES ASSUME NEW k \in UpTo(ints, n) PROVE k \in 1 .. n
      OBVIOUS
    <3>1. k \in Nat /\ k >= 1 /\ k <= n
      BY <1>2 DEF UpTo
    <3> QED
      BY <3>1
  <2>2. IsFiniteSet(1 .. n) /\ Cardinality(1 .. n) = n
    BY FS_Interval
  <2> QED
    BY <2>1, <2>2, FS_Subset
<1> QED
  BY <1>1, <1>2, <1>3, <1>4, <1>5, <1>6

LEMMA SlicesAreNumbers == Slices = 0 .. 26 /\ MAXBITS = 26
  BY DEF Slices, MAXBITS

\* An index is at most 2^i when its slice is no later than the i-th.
LEMMA SlicesBelow ==
  ASSUME NEW ints \in SUBSET (1 .. twoto(MAXBITS)), NEW i \in Slices
  PROVE  UNION {InSlices(ints)[j] : j \in 0 .. i} = UpTo(ints, twoto(i))
<1>1. i \in 0 .. 26 /\ \A j \in 0 .. i : j \in Slices
  BY SlicesAreNumbers
<1>2. twoto(i) \in Nat /\ twoto(MAXBITS) \in Nat
  BY <1>1, PowersArePositive, SlicesAreNumbers
<1>3. ASSUME NEW k \in ints
      PROVE  /\ ceillog2(k) \in 0 .. 26 /\ k \in Nat
             /\ k <= twoto(i) <=> ceillog2(k) <= i
  <2>1. k \in 0 .. twoto(26) /\ k \in Nat
    BY <1>2, SlicesAreNumbers
  <2>2. ceillog2(k) \in 0 .. 26 /\ k <= twoto(ceillog2(k))
    BY <2>1, SliceInPart
  <2>3. k <= twoto(i) => ceillog2(k) <= i
    <3> SUFFICES ASSUME k <= twoto(i) PROVE ceillog2(k) <= i
      OBVIOUS
    <3>1. k \in 0 .. twoto(i)
      BY <1>2, <2>1
    <3>2. ceillog2(k) \in 0 .. i
      BY <1>1, <3>1, SliceInPart
    <3> QED
      BY <3>2
  <2>4. ceillog2(k) <= i => k <= twoto(i)
    <3> DEFINE c == ceillog2(k)
    <3> HIDE DEF c
    <3>1. c \in 0 .. 26 /\ k <= twoto(c)
      BY <2>2 DEF c
    <3>2. c <= i => twoto(c) <= twoto(i) /\ twoto(c) \in Nat
      BY <1>1, <3>1, PowersGrow, PowersArePositive
    <3> QED
      BY <1>2, <2>1, <3>1, <3>2 DEF c
  <2> QED
    BY <2>1, <2>2, <2>3, <2>4
<1>4. ASSUME NEW k \in UpTo(ints, twoto(i)) PROVE \E j \in 0 .. i : k \in InSlices(ints)[j]
  <2>1. k \in ints /\ ceillog2(k) \in 0 .. i
    BY <1>1, <1>3 DEF UpTo
  <2>2. k \in InSlices(ints)[ceillog2(k)]
    BY <1>1, <2>1 DEF InSlices
  <2> QED
    BY <2>1, <2>2
<1>5. ASSUME NEW j \in 0 .. i, NEW k \in InSlices(ints)[j] PROVE k \in UpTo(ints, twoto(i))
  <2>1. k \in ints /\ ceillog2(k) = j
    BY <1>1 DEF InSlices
  <2> QED
    BY <1>1, <1>3, <2>1 DEF UpTo
<1> QED
  BY <1>4, <1>5

\* computesizes finds the largest of them, and how many keys go there.
LEMMA ComputedSizes ==
  ASSUME NEW ints \in SUBSET (1 .. twoto(MAXBITS))
  PROVE  LET best == computesizes(InSlices(ints), Cardinality(ints))
         IN  /\ best.n = IF Pays(ints) = {} THEN 0 ELSE twoto(Max(Pays(ints)))
             /\ best.na = Cardinality(UpTo(ints, best.n))
             /\ best.n \in 0 .. twoto(MAXBITS)
<1> DEFINE nums == InSlices(ints)
           narray == Cardinality(ints)
           below(i) == Cardinality(UNION {nums[j] : j \in 0 .. i})
           loop == {i \in Slices : twoto(i) \div 2 < narray /\ (i = 0 \/ below(i - 1) # narray)}
           good == {i \in loop : nums[i] # {} /\ below(i) > twoto(i) \div 2}
           best == computesizes(nums, narray)
           used(n) == Cardinality(UpTo(ints, n))
<1>0. Slices = 0 .. 26 /\ MAXBITS = 26
  BY SlicesAreNumbers
<1>1. best = IF good = {} THEN [n |-> 0, na |-> 0] ELSE [n |-> twoto(Max(good)), na |-> below(Max(good))]
  BY DEF computesizes
<1>2. \A i \in Slices : below(i) = used(twoto(i))
  BY SlicesBelow
<1> HIDE DEF best, nums, below
<1>3. narray \in Nat /\ \A n : used(n) \in Nat /\ used(n) <= narray
  BY IndicesAreFinite
<1>4. \A i \in Slices : /\ twoto(i) \in Nat /\ twoto(i) >= 1
                        /\ i = 0 => twoto(i) \div 2 = 0
                        /\ i # 0 => i - 1 \in Slices /\ twoto(i) = 2 * twoto(i - 1)
                                    /\ twoto(i - 1) \in Nat /\ twoto(i) \div 2 = twoto(i - 1)
  <2> SUFFICES ASSUME NEW i \in Slices
               PROVE  /\ twoto(i) \in Nat /\ twoto(i) >= 1
                      /\ i = 0 => twoto(i) \div 2 = 0
                      /\ i # 0 => i - 1 \in Slices /\ twoto(i) = 2 * twoto(i - 1)
                                  /\ twoto(i - 1) \in Nat /\ twoto(i) \div 2 = twoto(i - 1)
    OBVIOUS
  <2>1. twoto(i) \in Nat /\ twoto(i) >= 1
    BY <1>0, PowersArePositive
  <2>2. twoto(0) = 1
    BY PowerValues
  <2>3. ASSUME i # 0
        PROVE  /\ i - 1 \in Slices /\ twoto(i) = 2 * twoto(i - 1)
               /\ twoto(i - 1) \in Nat
    <3>1. i - 1 \in 0 .. 31 /\ (i - 1) + 1 = i /\ i - 1 \in 0 .. 32
      BY <1>0, <2>3
    <3>2. twoto((i - 1) + 1) = 2 * twoto(i - 1)
      BY <3>1, NextPower
    <3> QED
      BY <1>0, <3>1, <3>2, PowersArePositive
  <2>4. \A x \in Nat : (2 * x) \div 2 = x
    OBVIOUS
  <2> QED
    BY <2>1, <2>2, <2>3, <2>4
<1>5. \A i \in Slices : below(i) > twoto(i) \div 2 => i \in Pays(ints)
  <2> SUFFICES ASSUME NEW i \in Slices, used(twoto(i)) > twoto(i) \div 2
               PROVE  2 * used(twoto(i)) > twoto(i)
    BY <1>2 DEF Pays
  <2> HIDE DEF used
  <2>1. CASE i = 0
    <3>1. twoto(i) = 1
      BY <2>1, PowerValues
    <3> QED
      BY <1>3, <1>4, <2>1, <3>1
  <2>2. CASE i # 0
    BY <1>3, <1>4, <2>2
  <2> QED
    BY <2>1, <2>2
<1>6. ASSUME Pays(ints) # {}
      PROVE  Max(Pays(ints)) \in good
  <2> DEFINE m == Max(Pays(ints))
  <2>1. Pays(ints) \in SUBSET (0 .. 26)
    BY <1>0 DEF Pays
  <2>2. m \in Pays(ints)
    BY <1>6, <2>1, MaxIsGreatest
  <2>3. m \in Slices /\ 2 * used(twoto(m)) > twoto(m)
    BY <2>2 DEF Pays
  <2> HIDE DEF m
  <2>4. used(twoto(m)) > twoto(m) \div 2
    <3> DEFINE x == used(twoto(m))
    <3>1. x \in Nat /\ 2 * x > twoto(m)
      BY <1>3, <2>3
    <3> HIDE DEF x
    <3>2. x > twoto(m) \div 2
      BY <1>4, <2>3, <3>1, PowerValues
    <3> QED
      BY <3>2 DEF x
  <2>5. twoto(m) \div 2 < narray
    <3>1. twoto(m) \div 2 \in Nat
      BY <1>4, <2>3
    <3> HIDE DEF used, narray
    <3> QED
      BY <1>3, <2>4, <3>1
  <2>6. nums[m] # {}
    <3> SUFFICES ASSUME nums[m] = {} PROVE FALSE
      OBVIOUS
    <3>1. \A k \in ints : ceillog2(k) # m
      BY <2>3 DEF nums, InSlices
    <3>2. CASE m = 0
      <4>1. \A k \in ints : k \in Nat /\ k >= 1 /\ (k <= 1 => ceillog2(k) = 0)
        <5> SUFFICES ASSUME NEW k \in ints PROVE k \in Nat /\ k >= 1 /\ (k <= 1 => ceillog2(k) = 0)
          OBVIOUS
        <5>1. k \in Nat /\ k >= 1
          BY IndicesAreFinite
        <5>2. k <= 1 => k \in 0 .. twoto(0)
          BY <5>1, PowerValues
        <5>3. k <= 1 => ceillog2(k) \in 0 .. 0
          BY <5>2, SliceInPart
        <5> QED
          BY <5>1, <5>3
      <4>2. UpTo(ints, twoto(m)) = {}
        <5>1. twoto(m) = 1
          BY <3>2, PowerValues
        <5>2. \A k \in ints : ~(k <= 1)
          BY <3>1, <3>2, <4>1
        <5> QED
          BY <5>1, <5>2 DEF UpTo
      <4>3. used(twoto(m)) = 0
        BY <4>2, FS_EmptySet
      <4> QED
        BY <1>4, <2>3, <4>3
    <3>3. CASE m # 0
      <4>1. UNION {nums[j] : j \in 0 .. m} = UNION {nums[j] : j \in 0 .. m - 1}
        <5>1. 0 .. m = 0 .. (m - 1) \cup {m}
          BY <1>0, <2>3, <3>3
        <5> QED
          BY <5>1
      <4>2. below(m) = below(m - 1)
        BY <4>1 DEF below
      <4>3. used(twoto(m)) = used(twoto(m - 1)) /\ twoto(m - 1) \in Nat /\ twoto(m) \div 2 = twoto(m - 1)
        BY <1>2, <1>4, <2>3, <3>3, <4>2
      <4>4. used(twoto(m - 1)) <= twoto(m - 1)
        BY <4>3, IndicesAreFinite
      <4> HIDE DEF used
      <4> QED
        BY <1>3, <2>4, <4>3, <4>4
    <3> QED
      BY <3>2, <3>3
  <2>7. m = 0 \/ below(m - 1) # narray
    <3> SUFFICES ASSUME m # 0, below(m - 1) = narray PROVE FALSE
      OBVIOUS
    <3>1. used(twoto(m - 1)) = narray
      BY <1>2, <1>4, <2>3
    <3>2. UpTo(ints, twoto(m - 1)) = ints
      BY <3>1, IndicesAreFinite
    <3>3. UNION {nums[j] : j \in 0 .. (m - 1)} = ints
      BY <1>4, <2>3, <3>2, SlicesBelow DEF nums
    <3>4. PICK k \in nums[m] : TRUE
      BY <2>6
    <3>5. k \in ints /\ ceillog2(k) = m
      BY <2>3, <3>4 DEF nums, InSlices
    <3>6. PICK j \in 0 .. (m - 1) : k \in nums[j]
      BY <3>3, <3>5
    <3>7. ceillog2(k) = j
      <4>1. j \in Slices
        BY <1>0, <2>3
      <4> QED
        BY <3>6, <4>1 DEF nums, InSlices
    <3> QED
      BY <1>0, <2>3, <3>5, <3>7
  <2> QED
    BY <1>2, <2>3, <2>4, <2>5, <2>6, <2>7 DEF m
<1>7. good \subseteq Pays(ints)
  BY <1>5
<1>8. CASE Pays(ints) = {}
  <2>1. good = {}
    BY <1>7, <1>8
  <2>2. best.n = 0 /\ best.na = 0
    BY <1>1, <2>1
  <2>3. UpTo(ints, 0) = {}
    <3>1. \A k \in ints : k \in Nat /\ k >= 1
      BY IndicesAreFinite
    <3>2. \A k \in ints : ~(k <= 0)
      BY <3>1
    <3> QED
      BY <3>2 DEF UpTo
  <2>4. Cardinality(UpTo(ints, 0)) = 0
    BY <2>3, FS_EmptySet
  <2>5. 0 \in 0 .. twoto(MAXBITS)
    BY IndicesAreFinite
  <2> QED
    BY <1>8, <2>2, <2>4, <2>5 DEF best, nums
<1>9. CASE Pays(ints) # {}
  <2>1. good # {} /\ Max(Pays(ints)) \in good
    BY <1>6, <1>9
  <2>2. good \in SUBSET (0 .. 26) /\ Pays(ints) \in SUBSET (0 .. 26)
    BY <1>0 DEF Pays
  <2>3. /\ Max(good) \in good /\ \A y \in good : y <= Max(good)
        /\ Max(Pays(ints)) \in Pays(ints) /\ \A y \in Pays(ints) : y <= Max(Pays(ints))
    BY <1>9, <2>1, <2>2, MaxIsGreatest
  <2>7. good \subseteq Pays(ints)
    BY <1>7
  <2> HIDE DEF good
  <2>4. Max(good) = Max(Pays(ints))
    <3>1. Max(good) <= Max(Pays(ints)) /\ Max(Pays(ints)) <= Max(good)
      <4>1. Max(good) \in Pays(ints)
        BY <2>3, <2>7
      <4> QED
        BY <2>1, <2>3, <4>1
    <3>2. Max(good) \in 0 .. 26 /\ Max(Pays(ints)) \in 0 .. 26
      BY <2>2, <2>3
    <3> QED
      BY <3>1, <3>2
  <2> DEFINE m == Max(Pays(ints))
  <2>5. m \in Slices
    BY <1>0, <2>2, <2>3
  <2>6. best.n = twoto(m) /\ best.na = below(m)
    BY <1>1, <2>1, <2>4
  <2> HIDE DEF m
  <2>8. best.na = Cardinality(UpTo(ints, best.n))
    BY <1>2, <2>5, <2>6
  <2>9. twoto(m) \in 0 .. twoto(MAXBITS)
    <3>1. m \in 0 .. 26
      BY <1>0, <2>5
    <3>2. twoto(m) <= twoto(26) /\ twoto(m) \in Nat /\ twoto(26) \in Nat
      BY <3>1, PowersGrow, PowersArePositive
    <3> QED
      BY <1>0, <3>2
  <2> QED
    BY <1>9, <2>6, <2>8, <2>9 DEF best, nums, m
<1> QED
  BY <1>8, <1>9

-----------------------------------------------------------------------------
(* Counting                                                                  *)

LEMMA SameNumber ==
  ASSUME NEW I, IsFiniteSet(I), NEW W, NEW f \in [I -> W],
         \A i, j \in I : f[i] = f[j] => i = j, \A q \in W : \E i \in I : f[i] = q
  PROVE  IsFiniteSet(W) /\ Cardinality(W) = Cardinality(I)
<1>1. f \in Injection(I, W)
  BY DEF Injection, IsInjective
<1>2. f \in Surjection(I, W)
  BY DEF Surjection
<1>3. ExistsBijection(I, W)
  BY <1>1, <1>2 DEF ExistsBijection, Bijection
<1> QED
  BY <1>3, FS_Bijection

\* Keys that are as many as their indices.
LEMMA KeysOfIndices ==
  ASSUME NEW I \in SUBSET Nat, IsFiniteSet(I), NEW W,
         \A i \in I : Number(i) \in W, \A q \in W : \E i \in I : q = Number(i)
  PROVE  IsFiniteSet(W) /\ Cardinality(W) = Cardinality(I)
<1> DEFINE f == [i \in I |-> Number(i)]
<1>1. f \in [I -> W]
  OBVIOUS
<1>2. \A i, j \in I : f[i] = f[j] => i = j
  <2> SUFFICES ASSUME NEW i \in I, NEW j \in I, Number(i) = Number(j) PROVE i = j
    OBVIOUS
  <2>1. arrayindex(Number(i)) = i /\ arrayindex(Number(j)) = j
    BY IndexOfNumber
  <2> QED
    BY <2>1
<1>3. \A q \in W : \E i \in I : f[i] = q
  OBVIOUS
<1> HIDE DEF f
<1> QED
  BY <1>1, <1>2, <1>3, SameNumber

\* The keys that have a value.
Used(tab) == {q \in Keys : luaH_get(tab, q) # nil}

LEMMA UsedKeysAreCounted ==
  ASSUME NEW tab, WellFormed(tab)
  PROVE  /\ IsFiniteSet(Used(tab))
         /\ Cardinality(numusearray(tab)) \in Nat /\ Cardinality(numusehash(tab)) \in Nat
         /\ Cardinality(Used(tab)) =
              Cardinality(numusearray(tab)) + Cardinality(numusehash(tab))
<1> DEFINE A == numusearray(tab)
           H == numusehash(tab)
           UA == {q \in Used(tab) : InArray(tab, q)}
           UH == {q \in Used(tab) : ~InArray(tab, q)}
           f == [i \in H |-> tab.node[i].key]
<1>0. Shape(tab) /\ Chains(tab) /\ Fields(tab) /\ DOMAIN tab.node = Nodes(tab)
  BY ShapeLinks DEF WellFormed
<1>1. tab.sizearray \in Nat /\ sizenode(tab) \in Nat /\ Nodes(tab) = 0 .. sizenode(tab) - 1
  BY <1>0, PartsAreNumbers
<1>2. IsFiniteSet(A) /\ A \in SUBSET (1 .. tab.sizearray)
  <2>1. IsFiniteSet(1 .. tab.sizearray)
    BY <1>1, FS_Interval
  <2>2. A \in SUBSET (1 .. tab.sizearray)
    BY DEF numusearray
  <2> QED
    BY <2>1, <2>2, FS_Subset
<1>3. IsFiniteSet(H) /\ H \in SUBSET Nodes(tab)
  <2>1. IsFiniteSet(0 .. sizenode(tab) - 1)
    BY <1>1, FS_Interval
  <2>2. H \in SUBSET Nodes(tab)
    BY <1>0 DEF numusehash
  <2> QED
    BY <1>1, <2>1, <2>2, FS_Subset
<1>4. IsFiniteSet(UA) /\ Cardinality(UA) = Cardinality(A)
  <2>1. \A i \in A : Number(i) \in UA
    <3> SUFFICES ASSUME NEW i \in A PROVE Number(i) \in UA
      OBVIOUS
    <3>1. i \in 1 .. tab.sizearray /\ i \in Nat /\ tab.array[i] # nil
      BY <1>1, <1>2 DEF numusearray
    <3>2. Number(i) \in Keys /\ Number(i) \in KeySpace
      BY <1>0, <3>1, KeysAreKeys DEF Fields
    <3>3. InArray(tab, Number(i)) /\ arrayindex(Number(i)) = i
      BY <3>1, IndexOfNumber DEF InArray
    <3>4. luaH_get(tab, Number(i)) = tab.array[i]
      BY <3>2, <3>3, ArrayPlace
    <3> QED
      BY <3>1, <3>2, <3>3, <3>4 DEF Used
  <2>2. \A q \in UA : \E i \in A : q = Number(i)
    <3> SUFFICES ASSUME NEW q \in UA PROVE \E i \in A : q = Number(i)
      OBVIOUS
    <3>1. q \in KeySpace /\ InArray(tab, q) /\ luaH_get(tab, q) # nil
      BY KeysAreKeys DEF Used
    <3>2. arrayindex(q) \in 1 .. tab.sizearray /\ arrayindex(q) \in Nat
      BY <1>1, <3>1 DEF InArray
    <3>3. tab.array[arrayindex(q)] # nil
      BY <3>1, ArrayPlace
    <3>4. arrayindex(q) \in A
      BY <3>2, <3>3 DEF numusearray
    <3>5. q = Number(arrayindex(q))
      BY <3>1, <3>2, IndexOfNumber
    <3> QED
      BY <3>4, <3>5
  <2>3. A \in SUBSET Nat
    BY <1>1, <1>2
  <2> HIDE DEF A, UA
  <2> QED
    BY <1>2, <2>1, <2>2, <2>3, KeysOfIndices
<1>5. IsFiniteSet(UH) /\ Cardinality(UH) = Cardinality(H)
  <2>1. \A i \in H : /\ tab.node[i].key \in UH
                     /\ i \in Nodes(tab) /\ Occupied(tab, i) /\ ~tab.node[i].dead
    <3> SUFFICES ASSUME NEW i \in H
                 PROVE  /\ tab.node[i].key \in UH
                        /\ i \in Nodes(tab) /\ Occupied(tab, i) /\ ~tab.node[i].dead
      OBVIOUS
    <3>1. i \in Nodes(tab) /\ tab.node[i].val # nil
      BY <1>3 DEF numusehash
    <3>2. Occupied(tab, i) /\ ~tab.node[i].dead /\ ~InArray(tab, tab.node[i].key)
      BY <1>0, <3>1 DEF Fields
    <3>3. tab.node[i].key \in Keys
      BY <1>0, <3>1, <3>2 DEF Shape, NodeSet, Occupied
    <3>4. luaH_get(tab, tab.node[i].key) = tab.node[i].val
      BY <3>1, <3>2, <3>3, NodePlace, KeysAreKeys DEF Live
    <3> QED
      BY <3>1, <3>2, <3>3, <3>4 DEF Used
  <2>2. f \in [H -> UH]
    BY <2>1
  <2>3. \A i, j \in H : f[i] = f[j] => i = j
    BY <1>0, <2>1 DEF Chains
  <2>4. \A q \in UH : \E i \in H : f[i] = q
    <3> SUFFICES ASSUME NEW q \in UH PROVE \E i \in H : tab.node[i].key = q
      OBVIOUS
    <3>1. q \in KeySpace /\ ~InArray(tab, q) /\ luaH_get(tab, q) # nil
      BY KeysAreKeys DEF Used
    <3>2. PICK i \in Nodes(tab) : Live(tab, i, q) /\ luaH_get(tab, q) = tab.node[i].val
      BY <3>1, PlaceCases
    <3> QED
      BY <1>0, <3>1, <3>2 DEF numusehash, Live
  <2> HIDE DEF f, H, UH
  <2> QED
    BY <1>3, <2>2, <2>3, <2>4, SameNumber
<1>6. Used(tab) = UA \cup UH /\ UA \cap UH = {}
  OBVIOUS
<1>7. Cardinality(UA \cup UH) = Cardinality(UA) + Cardinality(UH) - 0 /\ IsFiniteSet(UA \cup UH)
  <2>1. Cardinality(UA \cap UH) = 0
    BY <1>6, FS_EmptySet
  <2> HIDE DEF UA, UH
  <2> QED
    BY <1>4, <1>5, <2>1, FS_Union
<1>8. Cardinality(A) \in Nat /\ Cardinality(H) \in Nat
  BY <1>2, <1>3, FS_CardinalityType
<1> HIDE DEF UA, UH
<1> QED
  BY <1>4, <1>5, <1>6, <1>7, <1>8

-----------------------------------------------------------------------------
(* Making room                                                               *)

\* The indices rehash counts: those of the keys that have a value and of the new one.
Indices(tab, key) ==
  numusearray(tab)
  \cup {arrayindex(tab.node[i].key) : i \in {j \in numusehash(tab) : countint(tab.node[j].key)}}
  \cup (IF countint(key) THEN {arrayindex(key)} ELSE {})

LEMMA CountedIndices ==
  ASSUME NEW tab, WellFormed(tab), NEW key \in Keys
  PROVE  /\ Indices(tab, key) \in SUBSET (1 .. twoto(MAXBITS))
         /\ \A i \in Indices(tab, key) : Number(i) \in Used(tab) \cup {key}
         /\ \A q \in Used(tab) \cup {key} : countint(q) => arrayindex(q) \in Indices(tab, key)
<1> DEFINE A == numusearray(tab)
           H == {j \in numusehash(tab) : countint(tab.node[j].key)}
<1>0. Shape(tab) /\ Fields(tab) /\ DOMAIN tab.node = Nodes(tab)
  BY ShapeLinks DEF WellFormed
<1>1. twoto(MAXBITS) \in Nat
  BY PowersArePositive DEF MAXBITS
<1>2. tab.sizearray \in Nat /\ tab.sizearray <= twoto(MAXBITS)
  BY <1>0, <1>1 DEF Shape
<1>3. ASSUME NEW i \in A
      PROVE  i \in 1 .. twoto(MAXBITS) /\ Number(i) \in Used(tab)
  <2>1. i \in 1 .. tab.sizearray /\ i \in Nat /\ tab.array[i] # nil
    BY <1>2 DEF numusearray
  <2>2. Number(i) \in Keys /\ Number(i) \in KeySpace
    BY <1>0, <2>1, KeysAreKeys DEF Fields
  <2>3. InArray(tab, Number(i)) /\ arrayindex(Number(i)) = i
    BY <2>1, IndexOfNumber DEF InArray
  <2>4. luaH_get(tab, Number(i)) = tab.array[i]
    BY <2>2, <2>3, ArrayPlace
  <2> QED
    BY <1>1, <1>2, <2>1, <2>2, <2>4 DEF Used
<1>4. ASSUME NEW j \in H
      PROVE  /\ arrayindex(tab.node[j].key) \in 1 .. twoto(MAXBITS)
             /\ tab.node[j].key \in Used(tab)
             /\ Number(arrayindex(tab.node[j].key)) = tab.node[j].key
  <2>1. j \in Nodes(tab) /\ tab.node[j].val # nil /\ countint(tab.node[j].key)
    BY <1>0 DEF numusehash
  <2>2. Occupied(tab, j) /\ ~tab.node[j].dead
    BY <1>0, <2>1 DEF Fields
  <2>3. tab.node[j].key \in Keys /\ tab.node[j].key \in KeySpace
    BY <1>0, <2>1, <2>2, KeysAreKeys DEF Shape, NodeSet, Occupied
  <2>4. luaH_get(tab, tab.node[j].key) = tab.node[j].val
    BY <2>1, <2>2, <2>3, NodePlace DEF Live
  <2>5. arrayindex(tab.node[j].key) \in 1 .. twoto(MAXBITS)
    BY <2>1 DEF countint
  <2>6. arrayindex(tab.node[j].key) \in Nat
    BY <1>1, <2>5
  <2>7. Number(arrayindex(tab.node[j].key)) = tab.node[j].key
    BY <2>3, <2>6, IndexOfNumber
  <2> QED
    BY <2>1, <2>3, <2>4, <2>5, <2>7 DEF Used
<1>5. ASSUME countint(key)
      PROVE  arrayindex(key) \in 1 .. twoto(MAXBITS) /\ Number(arrayindex(key)) = key
  <2>1. arrayindex(key) \in 1 .. twoto(MAXBITS)
    BY <1>5 DEF countint
  <2>2. arrayindex(key) \in Nat
    BY <1>1, <2>1
  <2> QED
    BY <2>1, <2>2, KeysAreKeys, IndexOfNumber
<1>6. ASSUME NEW i \in Indices(tab, key)
      PROVE  i \in 1 .. twoto(MAXBITS) /\ Number(i) \in Used(tab) \cup {key}
  <2>1. CASE i \in A
    BY <1>3, <2>1
  <2>2. CASE \E j \in H : i = arrayindex(tab.node[j].key)
    BY <1>4, <2>2
  <2>3. CASE countint(key) /\ i = arrayindex(key)
    BY <1>5, <2>3
  <2>4. i \in A \/ (\E j \in H : i = arrayindex(tab.node[j].key)) \/ (countint(key) /\ i = arrayindex(key))
    BY DEF Indices
  <2> QED
    BY <2>1, <2>2, <2>3, <2>4
<1>7. ASSUME NEW q \in Used(tab) \cup {key}, countint(q)
      PROVE  arrayindex(q) \in Indices(tab, key)
  <2>1. CASE q = key
    BY <1>7, <2>1 DEF Indices
  <2>2. CASE q \in Used(tab)
    <3>1. q \in KeySpace /\ luaH_get(tab, q) # nil
      BY <2>2, KeysAreKeys DEF Used
    <3>2. CASE InArray(tab, q)
      <4>1. arrayindex(q) \in 1 .. tab.sizearray /\ tab.array[arrayindex(q)] # nil
        BY <3>1, <3>2, ArrayPlace DEF InArray
      <4> QED
        BY <4>1 DEF Indices, numusearray
    <3>3. CASE ~InArray(tab, q)
      <4>1. PICK j \in Nodes(tab) : Live(tab, j, q) /\ luaH_get(tab, q) = tab.node[j].val
        BY <3>1, <3>3, PlaceCases
      <4>2. j \in H /\ tab.node[j].key = q
        BY <1>0, <1>7, <3>1, <4>1 DEF numusehash, Live
      <4> QED
        BY <4>2 DEF Indices
    <3> QED
      BY <3>2, <3>3
  <2> QED
    BY <2>1, <2>2
<1> QED
  BY <1>6, <1>7

\* What rehash makes of a table: the same fields, and room for the key.
LEMMA RehashMakesRoom ==
  ASSUME NEW tab, WellFormed(tab), NEW key \in Keys, Place(tab, key) = Nowhere
  PROVE  LET u == rehash(tab, key)
         IN  /\ WellFormed(u) /\ HasRoom(u, key)
             /\ \A q \in KeySpace : luaH_get(u, q) = luaH_get(tab, q)
<1> DEFINE I == Indices(tab, key)
           total == Cardinality(numusearray(tab)) + Cardinality(numusehash(tab)) + 1
           best == computesizes(InSlices(I), Cardinality(I))
           na == best.n
           nh == total - best.na
           W == Used(tab) \cup {key}
           In == {q \in W : arrayindex(q) \in 1 .. na}
           R == W \ In
           u == rehash(tab, key)
<1>0. I \in SUBSET (1 .. twoto(MAXBITS)) /\ twoto(MAXBITS) \in Nat
  BY CountedIndices, PowersArePositive DEF MAXBITS
<1>1. u = resize(tab, na, nh)
  BY DEF rehash, Indices, InSlices
<1>2. na \in 0 .. twoto(MAXBITS) /\ best.na = Cardinality(UpTo(I, na))
  BY <1>0, ComputedSizes
<1>3. key \in KeySpace /\ luaH_get(tab, key) = nil
  BY KeysAreKeys DEF luaH_get, ValueAt, Nowhere
<1>4. /\ IsFiniteSet(W) /\ Cardinality(W) = total /\ total \in Nat
      /\ Cardinality(W) <= twoto(MAXBITS)
  <2>1. key \notin Used(tab)
    BY <1>3 DEF Used
  <2>2. IsFiniteSet(Used(tab)) /\ Cardinality(Used(tab)) + 1 = total /\ total \in Nat
    BY UsedKeysAreCounted
  <2>3. IsFiniteSet(W) /\ Cardinality(W) = total
    BY <2>1, <2>2, FS_AddElement
  <2>4. W \in SUBSET Keys /\ IsFiniteSet(Keys) /\ Cardinality(Keys) <= twoto(MAXBITS)
    BY TableConstants DEF Used
  <2>5. Cardinality(W) <= Cardinality(Keys) /\ Cardinality(Keys) \in Nat
    BY <2>4, FS_Subset, FS_CardinalityType
  <2> HIDE DEF W, total
  <2> QED
    BY <1>0, <2>2, <2>3, <2>4, <2>5
<1> HIDE DEF best, u, total
<1>5. IsFiniteSet(In) /\ Cardinality(In) = best.na
  <2>1. IsFiniteSet(UpTo(I, na)) /\ I \subseteq Nat
    BY <1>0, IndicesAreFinite
  <2>2. UpTo(I, na) \in SUBSET Nat
    BY <2>1 DEF UpTo
  <2>3. \A i \in UpTo(I, na) : Number(i) \in In
    <3> SUFFICES ASSUME NEW i \in UpTo(I, na) PROVE Number(i) \in In
      OBVIOUS
    <3>1. i \in I /\ i \in Nat /\ i >= 1 /\ i <= na
      BY <1>0, <2>1, IndicesAreFinite DEF UpTo
    <3>2. arrayindex(Number(i)) = i
      BY <3>1, IndexOfNumber
    <3>3. Number(i) \in W
      BY <3>1, CountedIndices
    <3>4. i \in 1 .. na
      BY <1>0, <1>2, <3>1
    <3> QED
      BY <3>2, <3>3, <3>4
  <2>4. \A q \in In : \E i \in UpTo(I, na) : q = Number(i)
    <3> SUFFICES ASSUME NEW q \in In PROVE \E i \in UpTo(I, na) : q = Number(i)
      OBVIOUS
    <3>1. q \in KeySpace /\ q \in W /\ arrayindex(q) \in 1 .. na
      BY <1>3, KeysAreKeys DEF Used
    <3>2. arrayindex(q) \in Nat /\ arrayindex(q) <= na /\ arrayindex(q) \in 1 .. twoto(MAXBITS)
      BY <1>0, <1>2, <3>1
    <3>3. arrayindex(q) \in I
      BY <3>1, <3>2, CountedIndices DEF countint
    <3>4. q = Number(arrayindex(q))
      BY <3>1, <3>2, IndexOfNumber
    <3>5. arrayindex(q) \in UpTo(I, na)
      BY <3>2, <3>3 DEF UpTo
    <3> QED
      BY <3>4, <3>5
  <2> HIDE DEF In, I, na
  <2> QED
    BY <1>2, <2>1, <2>2, <2>3, <2>4, KeysOfIndices
<1>6. IsFiniteSet(R) /\ Cardinality(R) = nh /\ nh \in 0 .. twoto(MAXBITS)
  <2>1. W \cap In = In
    OBVIOUS
  <2>2. IsFiniteSet(R) /\ Cardinality(R) = Cardinality(W) - Cardinality(In)
    <3> HIDE DEF W, In
    <3> QED
      BY <1>4, <2>1, FS_Difference
  <2>3. Cardinality(R) \in Nat /\ Cardinality(In) \in Nat
    BY <1>5, <2>2, FS_CardinalityType
  <2> HIDE DEF W, In, R
  <2> QED
    BY <1>0, <1>4, <1>5, <2>2, <2>3
<1>7. Cardinality(Elsewhere(tab, na)) <= nh
  <2>1. Elsewhere(tab, na) \in SUBSET R
    BY DEF Elsewhere, Used
  <2> HIDE DEF R, nh, na
  <2> QED
    BY <1>6, <2>1, FS_Subset
<1> HIDE DEF nh, na, I
<1>8. /\ WellFormed(u) /\ Dense(u) /\ u.sizearray = na
      /\ (u.dummy <=> nh = 0) /\ nh <= twoto(u.lsizenode)
      /\ \A q \in KeySpace : luaH_get(u, q) = luaH_get(tab, q)
  BY <1>1, <1>2, <1>6, <1>7, ResizeKeeps
<1>9. \A q \in W : ~InArray(u, q) => q \in R
  BY <1>8 DEF InArray
<1>10. \A q \in Keys : ~InArray(u, q) /\ luaH_get(u, q) # nil => q \in R
  <2> SUFFICES ASSUME NEW q \in Keys, ~InArray(u, q), luaH_get(u, q) # nil PROVE q \in R
    OBVIOUS
  <2>1. luaH_get(tab, q) # nil
    BY <1>8, KeysAreKeys
  <2>2. q \in W
    BY <2>1 DEF Used
  <2> HIDE DEF R, W
  <2> QED
    BY <1>9, <2>2
<1>11. ~InArray(u, key) => key \in R
  BY <1>9
<1> HIDE DEF R, W, In
<1>12. nh \in Nat /\ Cardinality(R) <= nh
  <2>1. nh \in Nat
    BY <1>0, <1>6
  <2> QED
    BY <1>6, <2>1
<1>13. HasRoom(u, key)
  BY <1>6, <1>8, <1>10, <1>11, <1>12, NotFull
<1> QED
  BY <1>8, <1>13 DEF u

\* luaH_set finds a place for every key, and changes no field.
LEMMA SetFinds ==
  ASSUME NEW tab, WellFormed(tab), NEW key \in Keys
  PROVE  LET r == luaH_set(tab, key)
         IN  /\ WellFormed(r.tab) /\ r.place = Place(r.tab, key) /\ r.place # Nowhere
             /\ \A q \in KeySpace : luaH_get(r.tab, q) = luaH_get(tab, q)
             /\ Place(tab, key) # Nowhere => r.tab = tab
<1>1. CASE Place(tab, key) = Nowhere /\ Full(tab, key)
  <2> DEFINE u == rehash(tab, key)
  <2>1. /\ WellFormed(u) /\ HasRoom(u, key)
        /\ \A q \in KeySpace : luaH_get(u, q) = luaH_get(tab, q)
    BY <1>1, RehashMakesRoom
  <2>2. luaH_set(tab, key) = SetInRoom(u, key)
    BY <1>1 DEF luaH_set
  <2> HIDE DEF u
  <2> QED
    BY <1>1, <2>1, <2>2, SetInRoomFinds
<1>2. CASE ~(Place(tab, key) = Nowhere /\ Full(tab, key))
  <2>1. luaH_set(tab, key) = SetInRoom(tab, key) /\ HasRoom(tab, key)
    BY <1>2 DEF luaH_set, HasRoom
  <2> QED
    BY <2>1, SetInRoomFinds
<1> QED
  BY <1>1, <1>2

-----------------------------------------------------------------------------
(* What the program and the collector do to a table                          *)

\* Store: the key has the value, and all others have what they had.
LEMMA StoreKeeps ==
  ASSUME NEW tab, WellFormed(tab), NEW key \in Keys, NEW v \in Values \cup {nil}
  PROVE  LET r == luaH_set(tab, key)
             u == Put(r.tab, r.place, v)
         IN  /\ WellFormed(u)
             /\ \A q \in KeySpace : luaH_get(u, q) = IF q = key THEN v ELSE luaH_get(tab, q)
             /\ luaH_get(tab, key) # nil => SameChains(tab, u)
<1> DEFINE r == luaH_set(tab, key)
           u == Put(r.tab, r.place, v)
<1>1. /\ WellFormed(r.tab) /\ r.place = Place(r.tab, key) /\ r.place # Nowhere
      /\ \A q \in KeySpace : luaH_get(r.tab, q) = luaH_get(tab, q)
      /\ Place(tab, key) # Nowhere => r.tab = tab
  BY SetFinds
<1> HIDE DEF r
<1>2. /\ WellFormed(u) /\ SameChains(r.tab, u)
      /\ \A q \in KeySpace : luaH_get(u, q) = IF q = key THEN v ELSE luaH_get(r.tab, q)
  BY <1>1, PutKeeps
<1>3. luaH_get(tab, key) # nil => Place(tab, key) # Nowhere
  BY DEF luaH_get, ValueAt, Nowhere
<1> HIDE DEF u
<1> QED
  BY <1>1, <1>2, <1>3 DEF u, r

\* A larger array part: the nodes were enough for the keys that are not in it.
LEMMA ResizeArrayKeeps ==
  ASSUME NEW tab, WellFormed(tab), NEW na \in 0 .. twoto(MAXBITS), na > tab.sizearray
  PROVE  LET u == resize(tab, na, IF tab.dummy THEN 0 ELSE sizenode(tab))
         IN  /\ WellFormed(u)
             /\ \A q \in KeySpace : luaH_get(u, q) = luaH_get(tab, q)
<1> DEFINE nh == IF tab.dummy THEN 0 ELSE sizenode(tab)
           E == Elsewhere(tab, na)
           f == [q \in E |-> CHOOSE i \in Nodes(tab) : Live(tab, i, q) /\ tab.node[i].val # nil]
<1>0. Shape(tab) /\ Fields(tab) /\ twoto(MAXBITS) \in Nat
  BY PowersArePositive DEF WellFormed, MAXBITS
<1>1. tab.sizearray \in Nat /\ sizenode(tab) \in Nat /\ Nodes(tab) = 0 .. sizenode(tab) - 1
  BY <1>0, PartsAreNumbers
<1>2. sizenode(tab) <= twoto(MAXBITS)
  <2>0. tab.lsizenode \in 0 .. MAXBITS
    BY <1>0 DEF Shape
  <2>1. tab.lsizenode \in 0 .. 32 /\ 26 \in 0 .. 32 /\ tab.lsizenode <= 26
    BY <2>0 DEF MAXBITS
  <2> QED
    BY <2>1, PowersGrow DEF sizenode, MAXBITS
<1>3. nh \in 0 .. twoto(MAXBITS)
  BY <1>0, <1>1, <1>2
<1>4. ASSUME NEW q \in E
      PROVE  \E i \in Nodes(tab) : Live(tab, i, q) /\ tab.node[i].val # nil
  <2>1. q \in KeySpace /\ luaH_get(tab, q) # nil /\ arrayindex(q) \notin 1 .. na
    BY KeysAreKeys DEF Elsewhere
  <2>2. ~InArray(tab, q)
    <3>1. \A j \in 1 .. tab.sizearray : j \in 1 .. na
      BY <1>0, <1>1
    <3> QED
      BY <2>1, <3>1 DEF InArray
  <2> QED
    BY <2>1, <2>2, PlaceCases
<1>5. \A q \in E : f[q] \in Nodes(tab) /\ Live(tab, f[q], q)
  BY <1>4
<1>6. Cardinality(E) <= nh
  <2>1. CASE tab.dummy
    <3>1. Nodes(tab) = {0} /\ tab.node[0].val = nil
      <4>1. tab.lsizenode = 0 /\ ~Occupied(tab, 0)
        BY <1>0, <2>1 DEF Fields
      <4>2. sizenode(tab) = 1
        BY <4>1, PowerValues DEF sizenode
      <4>3. Nodes(tab) = {0}
        BY <1>1, <4>2
      <4> QED
        BY <1>0, <4>1, <4>3 DEF Fields
    <3>2. E = {}
      BY <1>4, <3>1
    <3> QED
      BY <2>1, <3>2, FS_EmptySet
  <2>2. CASE ~tab.dummy
    <3>1. IsFiniteSet(Nodes(tab)) /\ Cardinality(Nodes(tab)) = sizenode(tab)
      <4>1. IsFiniteSet(0 .. sizenode(tab) - 1)
            /\ Cardinality(0 .. sizenode(tab) - 1) = sizenode(tab)
        BY <1>1, FS_Interval
      <4> QED
        BY <1>1, <4>1
    <3>2. \A p, q \in E : f[p] = f[q] => p = q
      BY <1>5 DEF Live
    <3>3. f \in Injection(E, Nodes(tab))
      <4>1. f \in [E -> Nodes(tab)]
        BY <1>5
      <4> HIDE DEF f
      <4> QED
        BY <3>2, <4>1 DEF Injection, IsInjective
    <3> HIDE DEF E
    <3>4. Cardinality(E) <= Cardinality(Nodes(tab))
      BY <3>1, <3>3, FS_Injection
    <3> QED
      BY <2>2, <3>1, <3>4
  <2> QED
    BY <2>1, <2>2
<1> HIDE DEF nh
<1>7. /\ WellFormed(resize(tab, na, nh))
      /\ \A q \in KeySpace : luaH_get(resize(tab, na, nh), q) = luaH_get(tab, q)
  BY <1>3, <1>6, ResizeKeeps
<1> QED
  BY <1>7 DEF nh

\* The collector's pass: dead keys keep their places and their links.
Swept(tab) ==
  [tab EXCEPT !.node = [i \in DOMAIN tab.node |->
     IF tab.node[i].val = nil /\ collectable(tab.node[i].key)
     THEN [tab.node[i] EXCEPT !.dead = TRUE] ELSE tab.node[i]]]

LEMMA SweepKeeps ==
  ASSUME NEW tab, WellFormed(tab)
  PROVE  /\ WellFormed(Swept(tab)) /\ SameChains(tab, Swept(tab))
         /\ \A q \in KeySpace : luaH_get(Swept(tab), q) = luaH_get(tab, q)
<1> DEFINE nodes == [i \in Nodes(tab) |->
                       IF tab.node[i].val = nil /\ collectable(tab.node[i].key)
                       THEN [tab.node[i] EXCEPT !.dead = TRUE] ELSE tab.node[i]]
           u == Swept(tab)
<1>0. Shape(tab) /\ Chains(tab) /\ Fields(tab) /\ DOMAIN tab.node = Nodes(tab)
  BY ShapeLinks DEF WellFormed
<1>1. u = WithNodes(tab, nodes, tab.lastfree)
  BY <1>0 DEF Swept, WithNodes, Shape
<1>2. \A i \in Nodes(tab) : tab.node[i] \in NodeSet(tab)
  BY <1>0 DEF Shape
<1>3. nodes \in [Nodes(tab) -> NodeSet(tab)]
  BY <1>2 DEF NodeSet
<1>4. /\ Shape(u) /\ Nodes(u) = Nodes(tab) /\ u.array = tab.array
      /\ u.sizearray = tab.sizearray /\ u.lsizenode = tab.lsizenode /\ u.dummy = tab.dummy
      /\ u.node = nodes /\ u.lastfree = tab.lastfree
  <2>1. tab.lastfree \in 0 .. twoto(tab.lsizenode)
    BY <1>0 DEF Shape
  <2> HIDE DEF nodes
  <2> QED
    BY <1>0, <1>1, <1>3, <2>1, ShapeWithNodes
<1>5. \A i \in Nodes(tab) : /\ u.node[i].key = tab.node[i].key
                            /\ u.node[i].next = tab.node[i].next
                            /\ u.node[i].val = tab.node[i].val
                            /\ tab.node[i].dead => u.node[i].dead
                            /\ u.node[i].dead =>
                                 tab.node[i].dead \/ (tab.node[i].val = nil /\ collectable(tab.node[i].key))
  <2> SUFFICES ASSUME NEW i \in Nodes(tab)
               PROVE  /\ u.node[i].key = tab.node[i].key
                      /\ u.node[i].next = tab.node[i].next
                      /\ u.node[i].val = tab.node[i].val
                      /\ tab.node[i].dead => u.node[i].dead
                      /\ u.node[i].dead =>
                           tab.node[i].dead \/ (tab.node[i].val = nil /\ collectable(tab.node[i].key))
    OBVIOUS
  <2>1. u.node[i] = IF tab.node[i].val = nil /\ collectable(tab.node[i].key)
                    THEN [tab.node[i] EXCEPT !.dead = TRUE] ELSE tab.node[i]
    BY <1>4
  <2>2. tab.node[i] \in NodeSet(tab)
    BY <1>2
  <2> HIDE DEF u, nodes
  <2>3. CASE tab.node[i].val = nil /\ collectable(tab.node[i].key)
    <3>1. u.node[i] = [tab.node[i] EXCEPT !.dead = TRUE]
      BY <2>1, <2>3
    <3>2. /\ u.node[i].key = tab.node[i].key /\ u.node[i].next = tab.node[i].next
          /\ u.node[i].val = tab.node[i].val /\ u.node[i].dead
      BY <2>2, <3>1 DEF NodeSet
    <3> QED
      BY <2>3, <3>2
  <2>4. CASE ~(tab.node[i].val = nil /\ collectable(tab.node[i].key))
    <3>1. u.node[i] = tab.node[i]
      BY <2>1, <2>4
    <3>2. /\ u.node[i].key = tab.node[i].key /\ u.node[i].next = tab.node[i].next
          /\ u.node[i].val = tab.node[i].val
      BY <3>1
    <3>3. (tab.node[i].dead => u.node[i].dead) /\ (u.node[i].dead => tab.node[i].dead)
      BY <3>1
    <3> QED
      BY <3>2, <3>3
  <2> QED
    BY <2>3, <2>4
<1> HIDE DEF u, nodes
<1>6. SameChains(tab, u)
  BY <1>4, <1>5 DEF SameChains, SameSizes
<1>7. Chains(u)
  BY <1>4, <1>6, KeptChains
<1>8. ~collectable(Nil)
  BY DEF collectable, Nil
<1>9. Fields(u)
  <2>1. \A i \in Nodes(u) : u.node[i].val # nil => Occupied(u, i) /\ ~u.node[i].dead
    BY <1>0, <1>4, <1>5 DEF Fields, Occupied
  <2>2. \A i \in Nodes(u) : Occupied(u, i) => ~InArray(u, u.node[i].key)
    BY <1>4, <1>6, KeptChains
  <2>3. \A i \in Nodes(u) : ~Occupied(u, i) => ~u.node[i].dead
    BY <1>0, <1>4, <1>5, <1>8 DEF Fields, Occupied
  <2>4. \A i \in 1 .. u.sizearray : u.array[i] # nil => Number(i) \in Keys
    BY <1>0, <1>4 DEF Fields
  <2>5. /\ u.dummy => u.lsizenode = 0 /\ u.lastfree = 0 /\ ~Occupied(u, 0)
        /\ ~u.dummy => \A i \in Nodes(u) : i >= u.lastfree => Occupied(u, i)
    BY <1>4, <1>6, KeptChains
  <2> QED
    BY <2>1, <2>2, <2>3, <2>4, <2>5 DEF Fields
<1>10. WellFormed(u)
  BY <1>4, <1>7, <1>9 DEF WellFormed
<1>11. \A q \in KeySpace : luaH_get(u, q) = luaH_get(tab, q)
  <2>1. Carried(tab, u) /\ Carried(u, tab)
    BY <1>4, <1>5 DEF Carried
  <2> QED
    BY <1>4, <1>10, <2>1, SameFields
<1> QED
  BY <1>6, <1>10, <1>11 DEF u

-----------------------------------------------------------------------------
(* The sizes that pay                                                        *)

LEMMA BestSizes ==
  ASSUME NEW ints \in SUBSET (1 .. 9)
  PROVE  LET nums == [i \in Slices |-> {k \in ints : ceillog2(k) = i}]
             used(n) == Cardinality({k \in ints : k <= n})
             good == {n \in {twoto(i) : i \in Slices} : 2 * used(n) > n}
             best == computesizes(nums, Cardinality(ints))
         IN  /\ best.n = IF good = {} THEN 0 ELSE Max(good)
             /\ best.na = used(best.n)
<1> DEFINE best == computesizes(InSlices(ints), Cardinality(ints))
           good == {n \in {twoto(i) : i \in Slices} : 2 * Cardinality(UpTo(ints, n)) > n}
           P == Pays(ints)
<1>0. Slices = 0 .. 26 /\ MAXBITS = 26
  BY SlicesAreNumbers
<1>1. ints \in SUBSET (1 .. twoto(MAXBITS))
  <2>1. twoto(4) = 16
    BY PowerValues
  <2>2. 16 <= twoto(26) /\ twoto(26) \in Nat
    <3>1. 4 \in 0 .. 32 /\ 26 \in 0 .. 32 /\ 4 <= 26
      OBVIOUS
    <3> QED
      BY <2>1, <3>1, PowersGrow, PowersArePositive
  <2> QED
    BY <1>0, <2>2
<1>2. /\ best.n = IF P = {} THEN 0 ELSE twoto(Max(P))
      /\ best.na = Cardinality(UpTo(ints, best.n))
  BY <1>1, ComputedSizes
<1> HIDE DEF best
<1>3. good = {twoto(i) : i \in P}
  BY DEF Pays
<1>4. \A i \in 0 .. 26 : twoto(i) \in 0 .. twoto(26) /\ twoto(i) \in Nat /\ twoto(26) \in Nat
  <2> SUFFICES ASSUME NEW i \in 0 .. 26
               PROVE  twoto(i) \in 0 .. twoto(26) /\ twoto(i) \in Nat /\ twoto(26) \in Nat
    OBVIOUS
  <2>1. twoto(i) <= twoto(26) /\ twoto(i) \in Nat /\ twoto(26) \in Nat
    BY PowersGrow, PowersArePositive
  <2> QED
    BY <2>1
<1>5. P \in SUBSET (0 .. 26)
  BY <1>0 DEF Pays
<1> HIDE DEF good, P
<1>6. ASSUME P # {}
      PROVE  good # {} /\ Max(good) = twoto(Max(P))
  <2>1. Max(P) \in P /\ \A y \in P : y <= Max(P)
    BY <1>5, <1>6, MaxIsGreatest
  <2>2. good # {} /\ good \in SUBSET (0 .. twoto(26)) /\ twoto(26) \in Nat
    <3>1. twoto(26) \in Nat
      BY <1>4
    <3>2. good # {}
      BY <1>3, <1>6
    <3>3. good \in SUBSET (0 .. twoto(26))
      BY <1>3, <1>4, <1>5
    <3> QED
      BY <3>1, <3>2, <3>3
  <2>3. Max(good) \in good /\ \A y \in good : y <= Max(good)
    BY <2>2, MaxIsGreatest
  <2>4. PICK i \in P : Max(good) = twoto(i)
    BY <1>3, <2>3
  <2>5. twoto(Max(P)) <= Max(good)
    BY <1>3, <2>1, <2>3
  <2>6. twoto(i) <= twoto(Max(P)) /\ twoto(i) \in Nat /\ twoto(Max(P)) \in Nat
    <3>0. i \in 0 .. 26 /\ Max(P) \in 0 .. 26 /\ i <= Max(P)
      BY <1>5, <2>1
    <3>1. i \in 0 .. 32 /\ Max(P) \in 0 .. 32 /\ i <= Max(P)
      BY <3>0
    <3> QED
      BY <3>1, PowersGrow, PowersArePositive
  <2> QED
    BY <2>2, <2>4, <2>5, <2>6
<1>7. best.n = IF good = {} THEN 0 ELSE Max(good)
  BY <1>2, <1>3, <1>6
<1> QED
  BY <1>2, <1>7 DEF best, good, InSlices, UpTo

-----------------------------------------------------------------------------
(* The length                                                                *)

Narrowed(tab, ends) ==
  LET i == ends[1]
      j == ends[2]
      m == (i + j) \div 2
  IN CASE j - i <= 1 -> <<i, j>>
       [] OTHER -> IF Has(tab, m) THEN <<m, j>> ELSE <<i, m>>

Searching(tab, low, high, N, g) ==
  [k \in 0 .. N |-> IF k = 0 THEN <<low, high>> ELSE Narrowed(tab, g[k - 1])]

LEMMA SearchExists ==
  ASSUME NEW tab, NEW low, NEW high, NEW N \in Nat
  PROVE  \E g : g = Searching(tab, low, high, N, g)
<1> DEFINE S == {n \in Nat : \E g : g = Searching(tab, low, high, n, g)}
<1>1. 0 \in S
  <2> DEFINE h == [k \in 0 .. 0 |-> <<low, high>>]
  <2>1. h = Searching(tab, low, high, 0, h)
    BY DEF Searching
  <2> QED
    BY <2>1
<1>2. \A n \in 1 .. N : n - 1 \in S => n \in S
  <2> SUFFICES ASSUME NEW n \in 1 .. N, n - 1 \in S PROVE n \in S
    OBVIOUS
  <2>1. PICK g : g = Searching(tab, low, high, n - 1, g)
    OBVIOUS
  <2> DEFINE h == [k \in 0 .. n |-> IF k < n THEN g[k] ELSE Narrowed(tab, g[n - 1])]
  <2>2. \A k \in 0 .. n : h[k] = IF k = 0 THEN <<low, high>> ELSE Narrowed(tab, h[k - 1])
    <3> SUFFICES ASSUME NEW k \in 0 .. n
                 PROVE  h[k] = IF k = 0 THEN <<low, high>> ELSE Narrowed(tab, h[k - 1])
      OBVIOUS
    <3>1. CASE k = n
      <4>1. h[n] = Narrowed(tab, g[n - 1]) /\ h[n - 1] = g[n - 1] /\ n # 0
        OBVIOUS
      <4> HIDE DEF h
      <4> QED
        BY <3>1, <4>1
    <3>2. CASE k < n
      <4>1. g[k] = IF k = 0 THEN <<low, high>> ELSE Narrowed(tab, g[k - 1])
        <5> HIDE DEF h
        <5>1. k \in 0 .. n - 1
          BY <3>2
        <5>2. Searching(tab, low, high, n - 1, g)[k]
                = IF k = 0 THEN <<low, high>> ELSE Narrowed(tab, g[k - 1])
          BY <5>1 DEF Searching
        <5> QED
          BY <2>1, <5>2
      <4>2. h[k] = g[k] /\ (k # 0 => h[k - 1] = g[k - 1])
        BY <3>2
      <4> HIDE DEF h
      <4> QED
        BY <4>1, <4>2
    <3> QED
      BY <3>1, <3>2
  <2>3. h = Searching(tab, low, high, n, h)
    <3>1. h = [k \in 0 .. n |-> h[k]]
      OBVIOUS
    <3> HIDE DEF h
    <3> QED
      BY <2>2, <3>1 DEF Searching
  <2>4. \E f : f = Searching(tab, low, high, n, f)
    <3> HIDE DEF h
    <3> QED
      BY <2>3
  <2> QED
    BY <2>4
<1> HIDE DEF S
<1>3. N \in S
  BY <1>1, <1>2, IntervalInduction
<1> QED
  BY <1>3 DEF S

LEMMA BetweenBySteps ==
  ASSUME NEW tab, NEW low \in Nat, NEW high \in Nat, low < high
  PROVE  \E g : /\ g[0] = <<low, high>>
                /\ \A k \in 1 .. high - low : g[k] = Narrowed(tab, g[k - 1])
                /\ Between(tab, low, high) = g[high - low][1]
<1> DEFINE N == high - low
           search == CHOOSE g : g = Searching(tab, low, high, N, g)
           Body(g, k) ==
             LET i == g[k - 1][1]
                 j == g[k - 1][2]
                 m == (i + j) \div 2
             IN CASE k = 0 -> <<low, high>>
                  [] k # 0 /\ j - i <= 1 -> <<i, j>>
                  [] OTHER -> IF Has(tab, m) THEN <<m, j>> ELSE <<i, m>>
<1>1. \A g, k : Body(g, k) = IF k = 0 THEN <<low, high>> ELSE Narrowed(tab, g[k - 1])
  BY DEF Narrowed
<1>2. \A g : [k \in 0 .. N |-> Body(g, k)] = Searching(tab, low, high, N, g)
  <2> HIDE DEF Body
  <2> QED
    BY <1>1 DEF Searching
<1>3. Between(tab, low, high) = (CHOOSE g : g = [k \in 0 .. N |-> Body(g, k)])[N][1]
  BY DEF Between
<1> HIDE DEF Body, N
<1>4. (CHOOSE g : g = [k \in 0 .. N |-> Body(g, k)]) = search
  BY <1>2
<1>5. N \in Nat
  BY DEF N
<1>6. search = Searching(tab, low, high, N, search)
  BY <1>5, SearchExists
<1> HIDE DEF search
<1>7. search[0] = <<low, high>> /\ \A k \in 1 .. N : search[k] = Narrowed(tab, search[k - 1])
  BY <1>5, <1>6 DEF Searching
<1> QED
  BY <1>3, <1>4, <1>7 DEF N

\* The search keeps a value at its lower end and none at its upper end.
LEMMA BetweenIsBorder ==
  ASSUME NEW tab, NEW low \in Nat, NEW high \in Nat, low < high,
         low = 0 \/ Has(tab, low), ~Has(tab, high)
  PROVE  LET n == Between(tab, low, high)
         IN  n \in Nat /\ (n > 0 => Has(tab, n)) /\ ~Has(tab, n + 1)
<1>1. PICK g : /\ g[0] = <<low, high>>
               /\ \A k \in 1 .. high - low : g[k] = Narrowed(tab, g[k - 1])
               /\ Between(tab, low, high) = g[high - low][1]
  BY BetweenBySteps
<1> DEFINE N == high - low
           Ok(i, j, k) == /\ i \in Nat /\ j \in Nat /\ i < j
                          /\ i = 0 \/ Has(tab, i)
                          /\ ~Has(tab, j)
                          /\ j - i <= 1 \/ j - i <= N - k
           S == {k \in 0 .. N : \E i, j \in Nat : g[k] = <<i, j>> /\ Ok(i, j, k)}
<1>2. N \in Nat
  OBVIOUS
<1>3. 0 \in S
  <2>1. Ok(low, high, 0)
    OBVIOUS
  <2> QED
    BY <1>1, <1>2, <2>1
<1>4. \A k \in 1 .. N : k - 1 \in S => k \in S
  <2> SUFFICES ASSUME NEW k \in 1 .. N, k - 1 \in S PROVE k \in S
    OBVIOUS
  <2>1. PICK i, j \in Nat : g[k - 1] = <<i, j>> /\ Ok(i, j, k - 1)
    OBVIOUS
  <2> DEFINE m == (i + j) \div 2
  <2>2. g[k] = IF j - i <= 1 THEN <<i, j>> ELSE IF Has(tab, m) THEN <<m, j>> ELSE <<i, m>>
    <3>1. g[k] = Narrowed(tab, <<i, j>>)
      BY <1>1, <2>1
    <3> QED
      BY <3>1 DEF Narrowed
  <2>3. j - i > 1 => m \in Nat /\ i < m /\ m < j
    BY <2>1
  <2> HIDE DEF m
  <2>4. CASE j - i <= 1
    BY <2>1, <2>2, <2>4
  <2>5. CASE j - i > 1 /\ Has(tab, m)
    <3>1. Ok(m, j, k) /\ g[k] = <<m, j>>
      BY <1>2, <2>1, <2>2, <2>3, <2>5
    <3> QED
      BY <2>3, <2>5, <3>1
  <2>6. CASE j - i > 1 /\ ~Has(tab, m)
    <3>1. Ok(i, m, k) /\ g[k] = <<i, m>>
      BY <1>2, <2>1, <2>2, <2>3, <2>6
    <3> QED
      BY <2>3, <2>6, <3>1
  <2> QED
    BY <2>1, <2>4, <2>5, <2>6
<1>5. N \in S
  <2> HIDE DEF S, N
  <2>1. \A k \in 0 .. N : k \in S
    BY <1>2, <1>3, <1>4, IntervalInduction
  <2> QED
    BY <1>2, <2>1
<1>6. PICK i, j \in Nat : g[N] = <<i, j>> /\ Ok(i, j, N)
  BY <1>5
<1>7. j = i + 1
  BY <1>2, <1>6
<1>8. Between(tab, low, high) = i
  BY <1>1, <1>6
<1> QED
  BY <1>6, <1>7, <1>8

\* In the array part, what is there is the value; no larger index has one.
LEMMA HasInArray ==
  ASSUME NEW tab, WellFormed(tab), NEW i \in 1 .. tab.sizearray
  PROVE  Has(tab, i) <=> tab.array[i] # nil
<1>1. tab.sizearray \in 0 .. twoto(MAXBITS) /\ MAXBITS = 26
  BY DEF WellFormed, Shape, MAXBITS
<1>2. twoto(26) = 67108864 /\ twoto(29) = 536870912
  BY PowerValues
<1>3. i \in Nat /\ i < twoto(29)
  BY <1>1, <1>2
<1>4. Number(i) \in KeySpace /\ arrayindex(Number(i)) = i
  BY <1>3, IndexOfNumber
<1>5. luaH_get(tab, Number(i)) = tab.array[i]
  BY <1>4, ArrayPlace DEF InArray
<1> QED
  BY <1>5 DEF Has

LEMMA NoLargeIndex ==
  ASSUME NEW tab, WellFormed(tab), NEW i \in Nat, i >= twoto(27), i < twoto(29)
  PROVE  ~Has(tab, i)
<1>1. Number(i) \in KeySpace /\ arrayindex(Number(i)) = i
  BY IndexOfNumber
<1>2. Number(i) \notin Keys
  <2>1. twoto(27) \in Nat
    BY PowersArePositive
  <2>2. ~(i < twoto(27))
    BY <2>1
  <2> QED
    BY <1>1, <2>2, KeysAreKeys
<1> QED
  BY <1>1, <1>2, OnlyKeysHaveValues DEF Has

LEMMA NextEnd ==
  ASSUME NEW size \in Nat, NEW k \in 0 .. 31
  PROVE  /\ Doubled(size, 0) = size + 1
         /\ Doubled(size, k) \in Nat /\ Doubled(size, k) >= 1
         /\ Doubled(size, k + 1) = 2 * Doubled(size, k)
<1>1. twoto(0) = 1
  BY PowerValues
<1>2. twoto(k + 1) = 2 * twoto(k) /\ twoto(k) \in Nat /\ twoto(k) >= 1
  BY NextPower, PowersArePositive
<1> DEFINE p == twoto(k)
<1>3. p \in Nat /\ p >= 1
  BY <1>2
<1>4. Doubled(size, k) = (size + 1) * p /\ Doubled(size, k + 1) = (size + 1) * (2 * p)
  BY <1>2 DEF Doubled
<1> HIDE DEF p
<1>5. (size + 1) * p \in Nat /\ (size + 1) * p >= 1 /\ (size + 1) * (2 * p) = 2 * ((size + 1) * p)
  BY <1>3, Z3
<1>6. Doubled(size, 0) = size + 1
  BY <1>1 DEF Doubled
<1> QED
  BY <1>4, <1>5, <1>6

\* The search beyond the array part ends before its numbers leave the range.
LEMMA DoublingsEnd ==
  ASSUME NEW tab, WellFormed(tab), NEW size \in 0 .. twoto(26)
  PROVE  LET k == Doublings(tab, size)
         IN  /\ k \in 0 .. 27 /\ ~Has(tab, Doubled(size, k))
             /\ \A l \in 0 .. k - 1 : Has(tab, Doubled(size, l))
<1> DEFINE Big == {k \in 0 .. 27 : Doubled(size, k) >= twoto(27)}
           Out == {k \in 0 .. 27 : ~Has(tab, Doubled(size, k))}
<1>1. twoto(26) = 67108864 /\ twoto(27) = 134217728 /\ twoto(29) = 536870912
  BY PowerValues
<1>2. size \in Nat /\ size + 1 < twoto(27)
  BY <1>1
<1>3. 27 \in Big
  <2>1. Doubled(size, 27) = (size + 1) * 134217728
    BY <1>1 DEF Doubled
  <2> QED
    BY <1>1, <1>2, <2>1
<1>4. PICK b \in Big : \A k \in Big : b <= k
  <2>1. Big \in SUBSET Nat /\ Big # {}
    BY <1>3
  <2> HIDE DEF Big
  <2> QED
    BY <2>1, LeastElement
<1>5. b # 0
  <2>1. Doubled(size, 0) = size + 1
    BY <1>2, NextEnd
  <2>2. ~(Doubled(size, 0) >= twoto(27))
    BY <1>1, <1>2, <2>1
  <2> QED
    BY <2>2
<1>6. Doubled(size, b) \in Nat /\ Doubled(size, b) < twoto(29)
  <2>1. b - 1 \in 0 .. 27 /\ b - 1 \in 0 .. 31 /\ (b - 1) + 1 = b /\ ~(b <= b - 1)
    BY <1>5
  <2>2. ~(Doubled(size, b - 1) >= twoto(27))
    BY <1>4, <2>1
  <2>3. Doubled(size, b - 1) \in Nat /\ Doubled(size, (b - 1) + 1) = 2 * Doubled(size, b - 1)
    BY <1>2, <2>1, NextEnd
  <2> DEFINE e == Doubled(size, b - 1)
  <2>4. e \in Nat /\ ~(e >= 134217728) /\ Doubled(size, b) = 2 * e
    BY <1>1, <2>1, <2>2, <2>3
  <2> HIDE DEF e
  <2> QED
    BY <1>1, <2>4
<1>7. ~Has(tab, Doubled(size, b))
  BY <1>6, NoLargeIndex
<1>8. b \in Out
  BY <1>7
<1>9. PICK k \in Out : \A l \in Out : k <= l
  <2>1. Out \in SUBSET Nat /\ Out # {}
    BY <1>8
  <2> HIDE DEF Out
  <2> QED
    BY <2>1, LeastElement
<1>10. \A l \in 0 .. k - 1 : Has(tab, Doubled(size, l))
  <2> SUFFICES ASSUME NEW l \in 0 .. k - 1, ~Has(tab, Doubled(size, l)) PROVE FALSE
    OBVIOUS
  <2>1. l \in 0 .. 27 /\ ~(k <= l)
    OBVIOUS
  <2>2. l \in Out
    BY <2>1
  <2> QED
    BY <1>9, <2>1, <2>2
<1>11. \E x \in 0 .. 27 : ~Has(tab, Doubled(size, x)) /\ \A l \in 0 .. x - 1 : Has(tab, Doubled(size, l))
  BY <1>9, <1>10
<1> QED
  BY <1>11 DEF Doublings

LEMMA LengthOfTable ==
  ASSUME NEW tab, WellFormed(tab)
  PROVE  LET n == luaH_getn(tab)
         IN  (n > 0 => Has(tab, n)) /\ ~Has(tab, n + 1)
<1> DEFINE j == tab.sizearray
<1>0. Shape(tab) /\ Fields(tab)
  BY DEF WellFormed
<1>1. j \in 0 .. twoto(26) /\ twoto(26) = 67108864 /\ twoto(29) = 536870912
  BY <1>0, PowerValues DEF Shape, MAXBITS
<1>2. j \in Nat /\ j + 1 < twoto(29)
  BY <1>1
<1>3. CASE j > 0 /\ tab.array[j] = nil
  <2>1. j \in 1 .. tab.sizearray
    BY <1>2, <1>3
  <2>2. ~Has(tab, j)
    BY <1>3, <2>1, HasInArray
  <2>3. luaH_getn(tab) = Between(tab, 0, j)
    BY <1>3 DEF luaH_getn
  <2> QED
    BY <1>2, <1>3, <2>2, <2>3, BetweenIsBorder
<1>4. ASSUME ~(j > 0 /\ tab.array[j] = nil)
      PROVE  j = 0 \/ Has(tab, j)
  <2>1. j # 0 => j \in 1 .. tab.sizearray /\ tab.array[j] # nil
    BY <1>2, <1>4
  <2> QED
    BY <2>1, HasInArray
<1>5. CASE ~(j > 0 /\ tab.array[j] = nil) /\ tab.dummy
  <2>1. luaH_getn(tab) = j
    BY <1>5 DEF luaH_getn
  <2>2. Number(j + 1) \in KeySpace /\ arrayindex(Number(j + 1)) = j + 1
    BY <1>2, IndexOfNumber
  <2>3. ~InArray(tab, Number(j + 1))
    <3>1. ~(j + 1 \in 1 .. j)
      BY <1>2
    <3> QED
      BY <2>2, <3>1 DEF InArray
  <2>4. Nodes(tab) = {0}
    <3>1. tab.lsizenode = 0
      BY <1>0, <1>5 DEF Fields
    <3> QED
      BY <3>1, PowerValues DEF Nodes
  <2>5. ~Live(tab, 0, Number(j + 1))
    <3>1. tab.node[0].key = Nil
      BY <1>0, <1>5 DEF Fields, Occupied
    <3> QED
      BY <2>2, <3>1, KeysAreKeys DEF Live
  <2>6. luaH_get(tab, Number(j + 1)) = nil
    BY <2>2, <2>3, <2>4, <2>5, NoPlace
  <2>7. j = 0 \/ Has(tab, j)
    BY <1>4, <1>5
  <2> QED
    BY <1>2, <2>1, <2>6, <2>7 DEF Has
<1>6. CASE ~(j > 0 /\ tab.array[j] = nil) /\ ~tab.dummy
  <2> DEFINE k == Doublings(tab, j)
             low == IF k = 0 THEN j ELSE Doubled(j, k - 1)
             high == Doubled(j, k)
  <2>1. luaH_getn(tab) = Between(tab, low, high)
    BY <1>6 DEF luaH_getn, unbound_search
  <2>2. k \in 0 .. 27 /\ ~Has(tab, high) /\ \A l \in 0 .. k - 1 : Has(tab, Doubled(j, l))
    BY <1>1, DoublingsEnd
  <2>3. j = 0 \/ Has(tab, j)
    BY <1>4, <1>6
  <2> HIDE DEF k, j
  <2>4. /\ low \in Nat /\ high \in Nat /\ low < high
        /\ low = 0 \/ Has(tab, low)
    <3>1. CASE k = 0
      <4>1. Doubled(j, 0) = j + 1
        BY <1>2, NextEnd
      <4> QED
        BY <1>2, <2>3, <3>1, <4>1
    <3>2. CASE k # 0
      <4>1. k - 1 \in 0 .. 31 /\ k - 1 \in 0 .. k - 1 /\ (k - 1) + 1 = k
        BY <2>2, <3>2
      <4>2. Doubled(j, k - 1) \in Nat /\ Doubled(j, k - 1) >= 1 /\ Doubled(j, (k - 1) + 1) = 2 * Doubled(j, k - 1)
        BY <1>2, <4>1, NextEnd
      <4>3. Has(tab, Doubled(j, k - 1))
        BY <2>2, <4>1
      <4> DEFINE e == Doubled(j, k - 1)
      <4>4. e \in Nat /\ e >= 1 /\ high = 2 * e /\ low = e
        BY <3>2, <4>1, <4>2
      <4>5. Has(tab, e)
        BY <4>3
      <4> HIDE DEF e, low, high
      <4> QED
        BY <4>4, <4>5
    <3> QED
      BY <3>1, <3>2
  <2> HIDE DEF low, high
  <2> QED
    BY <2>1, <2>2, <2>4, BetweenIsBorder
<1> QED
  BY <1>3, <1>5, <1>6

-----------------------------------------------------------------------------
(* Traversal                                                                 *)

Places(tab) == tab.sizearray + sizenode(tab)

LEMMA NilIsBefore == \A tab : findindex(tab, Nil) = 0
  BY DEF findindex, Nil, InArray, arrayindex

\* A place in use has a key, which the traversal finds its way on from.
LEMMA UsedPlace ==
  ASSUME NEW tab, WellFormed(tab), NEW i \in 1 .. Places(tab), UsedAt(tab, i)
  PROVE  KeyAt(tab, i) \in Keys /\ findindex(tab, KeyAt(tab, i)) = i
<1>0. Shape(tab) /\ Fields(tab)
  BY DEF WellFormed
<1>1. tab.sizearray \in Nat /\ sizenode(tab) \in Nat /\ Nodes(tab) = 0 .. sizenode(tab) - 1
  BY <1>0, PartsAreNumbers
<1>2. i \in Nat /\ i >= 1 /\ i <= tab.sizearray + sizenode(tab)
  BY <1>1 DEF Places
<1>3. CASE i <= tab.sizearray
  <2>1. i \in 1 .. tab.sizearray /\ tab.array[i] # nil /\ KeyAt(tab, i) = Number(i)
    BY <1>1, <1>2, <1>3 DEF UsedAt, KeyAt
  <2>2. Number(i) \in Keys /\ Number(i) \in KeySpace
    BY <1>0, <2>1, KeysAreKeys DEF Fields
  <2>3. arrayindex(Number(i)) = i
    BY <1>2, IndexOfNumber
  <2>4. findindex(tab, Number(i)) = i
    BY <2>1, <2>2, <2>3, ArrayPlace DEF InArray
  <2> QED
    BY <2>1, <2>2, <2>4
<1>4. CASE i > tab.sizearray
  <2> DEFINE n == i - tab.sizearray - 1
  <2>1. n \in Nodes(tab) /\ tab.sizearray + n + 1 = i /\ ~(i <= tab.sizearray)
    BY <1>1, <1>2, <1>4
  <2>2. tab.node[n].val # nil /\ KeyAt(tab, i) = tab.node[n].key
    BY <2>1 DEF UsedAt, KeyAt
  <2> HIDE DEF n
  <2>3. Occupied(tab, n) /\ ~tab.node[n].dead
    BY <1>0, <2>1, <2>2 DEF Fields
  <2>4. tab.node[n].key \in Keys /\ tab.node[n].key \in KeySpace
    BY <1>0, <2>1, <2>3, KeysAreKeys DEF Shape, NodeSet, Occupied
  <2>5. findindex(tab, tab.node[n].key) = tab.sizearray + n + 1
    BY <2>1, <2>3, <2>4, NodePlace DEF Live
  <2> QED
    BY <2>1, <2>2, <2>4, <2>5
<1> QED
  BY <1>1, <1>2, <1>3, <1>4

LEMMA PlaceOfUsed ==
  ASSUME NEW tab, WellFormed(tab), NEW key \in KeySpace, luaH_get(tab, key) # nil
  PROVE  LET i == findindex(tab, key)
         IN  i \in 1 .. Places(tab) /\ UsedAt(tab, i) /\ KeyAt(tab, i) = key
<1>1. tab.sizearray \in Nat /\ sizenode(tab) \in Nat /\ Nodes(tab) = 0 .. sizenode(tab) - 1
  BY PartsAreNumbers DEF WellFormed
<1>2. CASE InArray(tab, key)
  <2> DEFINE i == arrayindex(key)
  <2>1. findindex(tab, key) = i /\ luaH_get(tab, key) = tab.array[i]
    BY <1>2, ArrayPlace
  <2>2. i \in 1 .. tab.sizearray
    BY <1>2 DEF InArray
  <2>3. key = Number(i)
    <3>1. i \in Nat
      BY <1>1, <2>2
    <3> QED
      BY <3>1, IndexOfNumber
  <2> HIDE DEF i
  <2>4. i \in 1 .. Places(tab) /\ i <= tab.sizearray
    BY <1>1, <2>2 DEF Places
  <2> QED
    BY <2>1, <2>3, <2>4 DEF UsedAt, KeyAt
<1>3. CASE ~InArray(tab, key)
  <2>1. PICK n \in Nodes(tab) : Live(tab, n, key) /\ luaH_get(tab, key) = tab.node[n].val
    BY <1>3, PlaceCases
  <2> DEFINE i == tab.sizearray + n + 1
  <2>2. findindex(tab, key) = i
    BY <2>1, NodePlace
  <2>3. i \in 1 .. Places(tab) /\ ~(i <= tab.sizearray) /\ i - tab.sizearray - 1 = n
    BY <1>1, <2>1 DEF Places
  <2> HIDE DEF i
  <2> QED
    BY <2>1, <2>2, <2>3 DEF UsedAt, KeyAt, Live
<1> QED
  BY <1>2, <1>3

LEMMA MinIsLeast ==
  ASSUME NEW S \in SUBSET Nat, S # {}
  PROVE  Min(S) \in S /\ \A y \in S : Min(S) <= y
<1>1. PICK x \in S : \A y \in S : x <= y
  BY LeastElement
<1> QED
  BY <1>1 DEF Min

\* What comes next: the first key with a value behind the place the traversal has got
\* to. At the end every such key is at that place or before it.
LEMMA NextKey ==
  ASSUME NEW tab, WellFormed(tab), NEW from \in Nat
  PROVE  LET key == luaH_next(tab, from)
         IN  /\ key = Nil => \A q \in Keys : luaH_get(tab, q) # nil => findindex(tab, q) <= from
             /\ key # Nil =>
                  /\ key \in Keys /\ findindex(tab, key) \in Nat /\ findindex(tab, key) > from
                  /\ \A q \in Keys : luaH_get(tab, q) # nil =>
                       \/ findindex(tab, q) <= from
                       \/ q = key
                       \/ findindex(tab, q) > findindex(tab, key)
<1> DEFINE N == Places(tab)
           after == {i \in from + 1 .. N : UsedAt(tab, i)}
           next == luaH_next(tab, from)
<1>1. tab.sizearray \in Nat /\ sizenode(tab) \in Nat /\ N \in Nat
  BY PartsAreNumbers DEF WellFormed, Places
<1>2. next = IF after = {} THEN Nil ELSE KeyAt(tab, Min(after))
  BY DEF luaH_next, Places
<1>3. ASSUME NEW q \in Keys, luaH_get(tab, q) # nil
      PROVE  LET i == findindex(tab, q)
             IN  i \in Nat /\ KeyAt(tab, i) = q /\ (i <= from \/ i \in after)
  <2> DEFINE i == findindex(tab, q)
  <2>1. i \in 1 .. N /\ UsedAt(tab, i) /\ KeyAt(tab, i) = q
    BY <1>3, PlaceOfUsed, KeysAreKeys
  <2> HIDE DEF i, N
  <2>2. i \in Nat /\ (i <= from \/ i \in from + 1 .. N)
    BY <1>1, <2>1
  <2> QED
    BY <2>1, <2>2 DEF i
<1> HIDE DEF next
<1>4. CASE after = {}
  <2>1. next = Nil
    BY <1>2, <1>4
  <2> QED
    BY <1>3, <1>4, <2>1 DEF next
<1>5. CASE after # {}
  <2> DEFINE m == Min(after)
  <2>1. after \in SUBSET Nat
    BY <1>1
  <2>2. m \in after /\ \A y \in after : m <= y
    <3> HIDE DEF after
    <3> QED
      BY <1>5, <2>1, MinIsLeast
  <2> HIDE DEF m
  <2>3. m \in 1 .. N /\ m > from /\ UsedAt(tab, m) /\ m \in Nat
    BY <1>1, <2>2
  <2>4. next = KeyAt(tab, m)
    BY <1>2, <1>5 DEF m
  <2>5. next \in Keys /\ findindex(tab, next) = m
    BY <2>3, <2>4, UsedPlace
  <2>6. next # Nil
    BY <2>5, KeysAreKeys
  <2>7. ASSUME NEW q \in Keys, luaH_get(tab, q) # nil
        PROVE  findindex(tab, q) <= from \/ q = next \/ findindex(tab, q) > m
    <3> DEFINE i == findindex(tab, q)
    <3>1. i \in Nat /\ KeyAt(tab, i) = q /\ (i <= from \/ i \in after)
      BY <1>3, <2>7
    <3> HIDE DEF i
    <3>2. CASE i \in after /\ i # m
      BY <2>2, <2>3, <3>1, <3>2 DEF i
    <3>3. CASE i = m
      BY <2>4, <3>1, <3>3
    <3> QED
      BY <3>1, <3>2, <3>3 DEF i
  <2> QED
    BY <2>3, <2>5, <2>6, <2>7 DEF next
<1> QED
  BY <1>4, <1>5

-----------------------------------------------------------------------------
(* The invariant                                                             *)

\* The table is well formed and holds what the program stored.
TableHolds ==
  /\ WellFormed(t)
  /\ model \in [Keys -> Values \cup {nil}]
  /\ \A k \in Keys : luaH_get(t, k) = model[k]

\* The traversal is at the key it came to last, it came to keys at ever later places,
\* and what it has to come to, and has not, is behind the place it is at.
Travels ==
  /\ trav \in [st : {"none", "on", "over"}, key : Keys \cup {Nil}]
  /\ seen \in Seq(Keys)
  /\ trav.key = IF seen = <<>> THEN Nil ELSE seen[Len(seen)]
  /\ trav.st = "none" => seen = <<>> /\ due = {}
  /\ \A n \in 1 .. Len(seen) : findindex(t, seen[n]) \in Nat
  /\ \A m, n \in 1 .. Len(seen) : m < n => findindex(t, seen[m]) < findindex(t, seen[n])
  /\ due \subseteq {k \in Keys : model[k] # nil}
  /\ \A k \in due : \/ k \in Range(seen)
                    \/ trav.st = "on" /\ ~(findindex(t, k) <= findindex(t, trav.key))

IInv == TableHolds /\ Travels

LEMMA InitHolds == TableInit => IInv
<1> SUFFICES ASSUME TableInit PROVE IInv
  OBVIOUS
<1>1. PICK narray \in Sizes, nhash \in Sizes : t = luaH_new(narray, nhash)
  BY DEF TableInit
<1>2. narray \in 0 .. twoto(MAXBITS) /\ nhash \in 0 .. twoto(MAXBITS)
  BY TableConstants
<1>3. WellFormed(t) /\ \A q \in KeySpace : luaH_get(t, q) = nil
  BY <1>1, <1>2, NewTable
<1>4. model = [k \in Keys |-> nil] /\ trav = [st |-> "none", key |-> Nil] /\ due = {} /\ seen = <<>>
  BY DEF TableInit
<1>5. TableHolds
  BY <1>3, <1>4, KeysAreKeys DEF TableHolds
<1>6. Travels
  <2>1. seen \in Seq(Keys) /\ Len(seen) = 0
    BY <1>4
  <2>2. \A n \in 1 .. Len(seen) : FALSE
    BY <2>1
  <2> QED
    BY <1>4, <2>1, <2>2 DEF Travels
<1> QED
  BY <1>5, <1>6 DEF IInv

\* What leaves the places alone, and the values the traversal has to come to, leaves
\* the traversal alone.
LEMMA TravelGoesOn ==
  ASSUME Travels, UNCHANGED <<trav, seen>>,
         \A q \in Keys \cup {Nil} : findindex(t', q) = findindex(t, q),
         due' \subseteq due, \A k \in due' : model'[k] # nil
  PROVE  Travels'
<1>1. \A n \in 1 .. Len(seen) : seen[n] \in Keys
  BY DEF Travels
<1>2. trav.key \in Keys \cup {Nil}
  BY DEF Travels
<1>3. \A n \in 1 .. Len(seen) : findindex(t', seen[n]) \in Nat
  BY <1>1 DEF Travels
<1>4. \A m, n \in 1 .. Len(seen) : m < n => findindex(t', seen[m]) < findindex(t', seen[n])
  BY <1>1 DEF Travels
<1>5. due' \subseteq {k \in Keys : model'[k] # nil}
  BY DEF Travels
<1>6. \A k \in due' : \/ k \in Range(seen)
                      \/ trav.st = "on" /\ ~(findindex(t', k) <= findindex(t', trav.key))
  BY <1>2, <1>5 DEF Travels
<1>7. trav.st = "none" => due' = {}
  BY DEF Travels
<1> QED
  BY <1>3, <1>4, <1>5, <1>6, <1>7 DEF Travels

\* Where no traversal is, none is disturbed.
LEMMA NoTravel ==
  ASSUME Travels, trav.st = "none", UNCHANGED <<trav, seen, due>>
  PROVE  Travels'
<1>1. seen = <<>> /\ due = {} /\ seen' = <<>> /\ due' = {}
  BY DEF Travels
<1>2. Len(seen') = 0 /\ \A n \in 1 .. Len(seen') : FALSE
  BY <1>1
<1>3. \A k \in due' : FALSE
  BY <1>1
<1> QED
  BY <1>1, <1>2, <1>3 DEF Travels

LEMMA StoreStep ==
  ASSUME IInv, NEW key \in Keys, NEW v \in Values \cup {nil}, Store(key, v)
  PROVE  IInv'
<1>1. t' = Put(luaH_set(t, key).tab, luaH_set(t, key).place, v)
  BY DEF Store
<1>2. model' = [model EXCEPT ![key] = v] /\ UNCHANGED <<trav, seen>>
      /\ due' = IF v = nil THEN due \ {key} ELSE due
  BY DEF Store
<1>3. WellFormed(t) /\ Travels /\ model \in [Keys -> Values \cup {nil}]
      /\ \A k \in Keys : luaH_get(t, k) = model[k]
  BY DEF IInv, TableHolds
<1>4. /\ WellFormed(t')
      /\ \A q \in KeySpace : luaH_get(t', q) = IF q = key THEN v ELSE luaH_get(t, q)
      /\ luaH_get(t, key) # nil => SameChains(t, t')
  BY <1>1, <1>3, StoreKeeps
<1>5. TableHolds'
  BY <1>2, <1>3, <1>4, KeysAreKeys DEF TableHolds
<1>6. CASE trav.st = "none"
  <2>1. due' = due
    BY <1>2, <1>3, <1>6 DEF Travels
  <2>2. Travels'
    BY <1>2, <1>3, <1>6, <2>1, NoTravel
  <2> QED
    BY <1>5, <2>2 DEF IInv
<1>7. CASE luaH_get(t, key) # nil
  <2>1. \A q \in Keys \cup {Nil} : findindex(t', q) = findindex(t, q)
    BY <1>3, <1>4, <1>7, SameTraversal, KeysAreKeys
  <2>2. due' \subseteq due /\ \A k \in due' : model'[k] # nil
    BY <1>2, <1>3 DEF Travels
  <2>3. Travels'
    BY <1>2, <1>3, <2>1, <2>2, TravelGoesOn
  <2> QED
    BY <1>5, <2>3 DEF IInv
<1> QED
  BY <1>6, <1>7 DEF Store

LEMMA ResizeArrayStep ==
  ASSUME IInv, NEW nasize \in Sizes, luaH_resizearray(nasize)
  PROVE  IInv'
<1>1. /\ trav.st = "none" /\ nasize > t.sizearray /\ UNCHANGED <<model, trav, due, seen>>
      /\ t' = resize(t, nasize, IF t.dummy THEN 0 ELSE sizenode(t))
  BY DEF luaH_resizearray
<1>2. nasize \in 0 .. twoto(MAXBITS)
  BY TableConstants
<1>3. WellFormed(t) /\ Travels /\ model \in [Keys -> Values \cup {nil}]
      /\ \A k \in Keys : luaH_get(t, k) = model[k]
  BY DEF IInv, TableHolds
<1>4. WellFormed(t') /\ \A q \in KeySpace : luaH_get(t', q) = luaH_get(t, q)
  BY <1>1, <1>2, <1>3, ResizeArrayKeeps
<1>5. TableHolds'
  BY <1>1, <1>3, <1>4, KeysAreKeys DEF TableHolds
<1>6. Travels'
  BY <1>1, <1>3, NoTravel
<1> QED
  BY <1>5, <1>6 DEF IInv

LEMMA RemoveEntriesStep ==
  ASSUME IInv, RemoveEntries
  PROVE  IInv'
<1>1. t' = Swept(t) /\ UNCHANGED <<model, trav, due, seen>>
  BY DEF RemoveEntries, Swept
<1>2. WellFormed(t) /\ Travels /\ model \in [Keys -> Values \cup {nil}]
      /\ \A k \in Keys : luaH_get(t, k) = model[k]
  BY DEF IInv, TableHolds
<1>3. WellFormed(t') /\ SameChains(t, t') /\ \A q \in KeySpace : luaH_get(t', q) = luaH_get(t, q)
  BY <1>1, <1>2, SweepKeeps
<1>4. TableHolds'
  BY <1>1, <1>2, <1>3, KeysAreKeys DEF TableHolds
<1>5. \A q \in Keys \cup {Nil} : findindex(t', q) = findindex(t, q)
  BY <1>2, <1>3, SameTraversal, KeysAreKeys
<1>6. Travels'
  <2>1. due' \subseteq due /\ \A k \in due' : model'[k] # nil
    BY <1>1, <1>2 DEF Travels
  <2> QED
    BY <1>1, <1>2, <1>5, <2>1, TravelGoesOn
<1> QED
  BY <1>4, <1>6 DEF IInv

\* A traversal begins before the first place.
LEMMA BeginStep ==
  ASSUME IInv, Begin
  PROVE  IInv'
<1>1. /\ trav' = [st |-> "on", key |-> Nil] /\ seen' = <<>>
      /\ due' = {k \in Keys : model[k] # nil} /\ UNCHANGED <<t, model, sets>>
  BY DEF Begin
<1>2. TableHolds'
  BY <1>1 DEF IInv, TableHolds
<1>3. findindex(t', Nil) = 0 /\ t' = t
  BY <1>1, NilIsBefore
<1>4. \A k \in due' : ~(findindex(t', k) <= findindex(t', Nil))
  <2> SUFFICES ASSUME NEW k \in due' PROVE ~(findindex(t', k) <= findindex(t', Nil))
    OBVIOUS
  <2>1. k \in KeySpace /\ luaH_get(t, k) # nil /\ WellFormed(t)
    BY <1>1, KeysAreKeys DEF IInv, TableHolds
  <2>2. findindex(t, k) \in 1 .. Places(t)
    BY <2>1, PlaceOfUsed
  <2>3. Places(t) \in Nat
    BY <2>1, PartsAreNumbers DEF Places, WellFormed
  <2>4. findindex(t, k) \in Nat /\ findindex(t, k) >= 1
    BY <2>2, <2>3
  <2> QED
    BY <1>3, <2>4
<1>5. seen' \in Seq(Keys) /\ Len(seen') = 0 /\ \A n \in 1 .. Len(seen') : FALSE
  BY <1>1
<1>6. Travels'
  BY <1>1, <1>4, <1>5 DEF Travels
<1> QED
  BY <1>2, <1>6 DEF IInv

LEMMA LeaveStep ==
  ASSUME IInv, Leave
  PROVE  IInv'
<1>1. /\ trav' = [st |-> "none", key |-> Nil] /\ seen' = <<>> /\ due' = {}
      /\ UNCHANGED <<t, model, sets>>
  BY DEF Leave
<1>2. TableHolds'
  BY <1>1 DEF IInv, TableHolds
<1>3. seen' \in Seq(Keys) /\ Len(seen') = 0 /\ \A n \in 1 .. Len(seen') : FALSE
  BY <1>1
<1>4. Travels'
  BY <1>1, <1>3 DEF Travels
<1> QED
  BY <1>2, <1>4 DEF IInv

\* The traversal always knows where it is.
LEMMA PlaceIsKnown ==
  ASSUME IInv
  PROVE  findindex(t, trav.key) \in Nat
<1>1. CASE seen = <<>>
  BY <1>1, NilIsBefore DEF IInv, Travels
<1>2. CASE seen # <<>>
  <2>1. seen \in Seq(Keys) /\ trav.key = seen[Len(seen)]
    BY <1>2 DEF IInv, Travels
  <2>2. Len(seen) \in 1 .. Len(seen)
    BY <1>2, <2>1
  <2> QED
    BY <2>1, <2>2 DEF IInv, Travels
<1> QED
  BY <1>1, <1>2

LEMMA StepStep ==
  ASSUME IInv, Step
  PROVE  IInv'
<1> DEFINE from == findindex(t, trav.key)
           key == luaH_next(t, from)
<1>0. WellFormed(t) /\ Travels /\ from \in Nat /\ trav.st = "on" /\ UNCHANGED <<t, model, due, sets>>
      /\ \A k \in Keys : luaH_get(t, k) = model[k]
  BY PlaceIsKnown DEF IInv, TableHolds, Step
<1>1. TableHolds'
  BY <1>0 DEF IInv, TableHolds
<1>2. IF key = Nil THEN trav' = [trav EXCEPT !.st = "over"] /\ UNCHANGED seen
      ELSE trav' = [trav EXCEPT !.key = key] /\ seen' = Append(seen, key)
  <2>1. from # -1
    BY <1>0
  <2> QED
    BY <2>1 DEF Step
<1>3. /\ key = Nil => \A q \in Keys : luaH_get(t, q) # nil => findindex(t, q) <= from
      /\ key # Nil => /\ key \in Keys /\ findindex(t, key) \in Nat /\ findindex(t, key) > from
                      /\ \A q \in Keys : luaH_get(t, q) # nil =>
                           \/ findindex(t, q) <= from
                           \/ q = key
                           \/ findindex(t, q) > findindex(t, key)
  BY <1>0, NextKey
<1> HIDE DEF key
<1>4. /\ trav \in [st : {"none", "on", "over"}, key : Keys \cup {Nil}] /\ seen \in Seq(Keys)
      /\ trav.key = IF seen = <<>> THEN Nil ELSE seen[Len(seen)]
      /\ \A n \in 1 .. Len(seen) : findindex(t, seen[n]) \in Nat
      /\ \A m, n \in 1 .. Len(seen) : m < n => findindex(t, seen[m]) < findindex(t, seen[n])
      /\ due \subseteq {k \in Keys : model[k] # nil}
      /\ \A k \in due : k \in Range(seen) \/ ~(findindex(t, k) <= from)
  BY <1>0 DEF Travels
<1>5. \A k \in due : k \in Keys /\ luaH_get(t, k) # nil
  BY <1>0, <1>4
<1>6. CASE key = Nil
  <2>1. trav' = [trav EXCEPT !.st = "over"] /\ seen' = seen
    BY <1>2, <1>6
  <2>2. /\ trav' \in [st : {"none", "on", "over"}, key : Keys \cup {Nil}]
        /\ trav'.key = trav.key /\ trav'.st = "over"
    BY <1>4, <2>1
  <2>3. \A k \in due : k \in Range(seen)
    BY <1>3, <1>4, <1>5, <1>6
  <2>4. Travels'
    BY <1>0, <1>4, <2>1, <2>2, <2>3 DEF Travels
  <2> QED
    BY <1>1, <2>4 DEF IInv
<1>7. CASE key # Nil
  <2> DEFINE new == Append(seen, key)
  <2>1. trav' = [trav EXCEPT !.key = key] /\ seen' = new /\ key \in Keys
    BY <1>2, <1>3, <1>7
  <2>2. /\ trav' \in [st : {"none", "on", "over"}, key : Keys \cup {Nil}]
        /\ trav'.key = key /\ trav'.st = "on"
    BY <1>0, <1>4, <2>1
  <2>3. /\ new \in Seq(Keys) /\ new # <<>> /\ Len(seen) \in Nat /\ Len(new) = Len(seen) + 1
        /\ new[Len(new)] = key /\ \A n \in 1 .. Len(seen) : new[n] = seen[n]
    BY <1>4, <2>1
  <2> HIDE DEF new
  <2>4. \A n \in 1 .. Len(seen) : findindex(t, seen[n]) <= from
    <3> SUFFICES ASSUME NEW n \in 1 .. Len(seen) PROVE findindex(t, seen[n]) <= from
      OBVIOUS
    <3>1. Len(seen) \in 1 .. Len(seen) /\ seen # <<>> /\ (n = Len(seen) \/ n < Len(seen))
      BY <1>4, <2>3
    <3>2. from = findindex(t, seen[Len(seen)])
      BY <1>4, <3>1
    <3>3. /\ findindex(t, seen[n]) \in Nat
          /\ n < Len(seen) => findindex(t, seen[n]) < findindex(t, seen[Len(seen)])
      BY <1>4, <3>1
    <3> QED
      BY <1>0, <3>1, <3>2, <3>3
  <2>5. \A n \in 1 .. Len(new) : findindex(t, new[n]) \in Nat
    <3> SUFFICES ASSUME NEW n \in 1 .. Len(new) PROVE findindex(t, new[n]) \in Nat
      OBVIOUS
    <3>1. n \in 1 .. Len(seen) \/ n = Len(new)
      BY <2>3
    <3> QED
      BY <1>3, <1>4, <1>7, <2>3, <3>1
  <2>6. ASSUME NEW m \in 1 .. Len(new), NEW n \in 1 .. Len(new), m < n
        PROVE  findindex(t, new[m]) < findindex(t, new[n])
    <3>1. m \in 1 .. Len(seen) /\ (n \in 1 .. Len(seen) \/ n = Len(new))
      BY <2>3, <2>6
    <3>2. CASE n \in 1 .. Len(seen)
      BY <1>4, <2>3, <2>6, <3>1, <3>2
    <3>3. CASE n = Len(new)
      <4>1. findindex(t, seen[m]) <= from /\ findindex(t, seen[m]) \in Nat
        BY <1>4, <2>4, <3>1
      <4>2. findindex(t, key) \in Nat /\ findindex(t, key) > from
        BY <1>3, <1>7
      <4>3. new[m] = seen[m] /\ new[n] = key
        BY <2>3, <3>1, <3>3
      <4> QED
        BY <1>0, <4>1, <4>2, <4>3
    <3> QED
      BY <3>1, <3>2, <3>3
  <2>7. \A k \in due : k \in Range(new) \/ ~(findindex(t, k) <= findindex(t, key))
    <3> SUFFICES ASSUME NEW k \in due PROVE k \in Range(new) \/ ~(findindex(t, k) <= findindex(t, key))
      OBVIOUS
    <3>1. DOMAIN new = 1 .. Len(new) /\ DOMAIN seen = 1 .. Len(seen)
      BY <1>4, <2>3
    <3>2. CASE k \in Range(seen)
      <4>1. PICK n \in 1 .. Len(seen) : k = seen[n]
        BY <3>1, <3>2 DEF Range
      <4>2. n \in 1 .. Len(new) /\ k = new[n]
        BY <2>3, <4>1
      <4> QED
        BY <3>1, <4>2 DEF Range
    <3>3. CASE k = key
      <4>1. Len(new) \in 1 .. Len(new) /\ k = new[Len(new)]
        BY <2>3, <3>3
      <4> QED
        BY <3>1, <4>1 DEF Range
    <3>4. CASE ~(findindex(t, k) <= from) /\ k # key
      <4>1. findindex(t, k) > findindex(t, key)
        BY <1>3, <1>5, <1>7, <3>4
      <4>2. findindex(t, k) \in Nat
        <5>1. Places(t) \in Nat /\ findindex(t, k) \in 1 .. Places(t)
          BY <1>0, <1>5, PlaceOfUsed, PartsAreNumbers, KeysAreKeys DEF Places, WellFormed
        <5> QED
          BY <5>1
      <4>3. findindex(t, key) \in Nat
        BY <1>3, <1>7
      <4> QED
        BY <4>1, <4>2, <4>3
    <3> QED
      BY <1>4, <3>2, <3>3, <3>4
  <2>8. Travels'
    <3>1. t' = t /\ due' = due /\ model' = model
      BY <1>0
    <3>2. \A m, n \in 1 .. Len(new) : m < n => findindex(t, new[m]) < findindex(t, new[n])
      BY <2>6
    <3> HIDE DEF from
    <3> QED
      BY <1>4, <2>1, <2>2, <2>3, <2>5, <2>7, <3>1, <3>2 DEF Travels
  <2> QED
    BY <1>1, <2>8 DEF IInv
<1> QED
  BY <1>6, <1>7

LEMMA StepKeepsInv ==
  ASSUME IInv, [TableNext]_tableVars
  PROVE  IInv'
<1>1. ASSUME NEW key \in Keys, NEW v \in Values \cup {nil}, Store(key, v) PROVE IInv'
  BY <1>1, StoreStep
<1>2. ASSUME NEW n \in Sizes, luaH_resizearray(n) PROVE IInv'
  BY <1>2, ResizeArrayStep
<1>3. CASE RemoveEntries
  BY <1>3, RemoveEntriesStep
<1>4. CASE Begin
  BY <1>4, BeginStep
<1>5. CASE Step
  BY <1>5, StepStep
<1>6. CASE Leave
  BY <1>6, LeaveStep
<1>7. CASE UNCHANGED tableVars
  BY <1>7 DEF tableVars, IInv, TableHolds, Travels
<1> QED
  BY <1>1, <1>2, <1>3, <1>4, <1>5, <1>6, <1>7 DEF TableNext

-----------------------------------------------------------------------------
(* Theorems                                                                  *)

\* In every state the table is well formed, holds what was stored, and a traversal
\* that is under way knows its place (ltable.c).
THEOREM Invariance == TableSpec => []IInv
<1>1. TableInit => IInv
  BY InitHolds
<1>2. IInv /\ [TableNext]_tableVars => IInv'
  BY StepKeepsInv
<1> QED
  BY <1>1, <1>2, PTL DEF TableSpec

LEMMA InvMap == IInv => HoldsTheMap
<1> SUFFICES ASSUME IInv PROVE HoldsTheMap
  OBVIOUS
<1>1. \A k \in Keys : luaH_get(t, k) = model[k]
  BY DEF IInv, TableHolds
<1>2. SizesAreBest
  BY BestSizes DEF SizesAreBest
<1> QED
  BY <1>1, <1>2 DEF HoldsTheMap

LEMMA InvTraversal == IInv => TraversalSeesAll
<1> SUFFICES ASSUME IInv PROVE TraversalSeesAll
  OBVIOUS
<1>1. trav.st # "failed" /\ seen \in Seq(Keys)
  BY DEF IInv, Travels
<1>2. IsInjective(seen)
  <2>1. DOMAIN seen = 1 .. Len(seen)
    BY <1>1
  <2>2. ASSUME NEW m \in 1 .. Len(seen), NEW n \in 1 .. Len(seen), seen[m] = seen[n]
        PROVE  m = n
    <3>1. m \in Int /\ n \in Int
      BY <1>1
    <3>2. ~(m < n) /\ ~(n < m)
      BY <2>2 DEF IInv, Travels
    <3> QED
      BY <3>1, <3>2
  <2> QED
    BY <2>1, <2>2 DEF IsInjective
<1>3. trav.st = "over" => due \subseteq Range(seen)
  BY DEF IInv, Travels
<1> QED
  BY <1>1, <1>2, <1>3 DEF TraversalSeesAll

LEMMA InvBorder == IInv => LengthIsBorder
  BY LengthOfTable DEF IInv, TableHolds, LengthIsBorder

\* A table is a map: whatever was set, cleared and moved, each key has the value stored
\* last, and the array part computesizes chooses is the largest that pays (newkey,
\* 399-429; resize, 297-324; computesizes, 189-208).
THEOREM MapHeld == TableSpec => []HoldsTheMap
  BY Invariance, InvMap, PTL

\* A traversal in which fields that exist are set and cleared, and their keys die, comes
\* to no key twice and to every key that stays (findindex, 132-156; luaH_next, 159-176).
THEOREM TraversalComplete == TableSpec => []TraversalSeesAll
  BY Invariance, InvTraversal, PTL

\* The length is always a border (luaH_getn, 560-577; unbound_search, 528-553).
THEOREM BorderFound == TableSpec => []LengthIsBorder
  BY Invariance, InvBorder, PTL
=============================================================================
