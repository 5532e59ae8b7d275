------------------------------ MODULE LuaTable ------------------------------
(***************************************************************************)
(* src/projects/halelua/src/ltable.c: the tables of Lua. A table has an    *)
(* array part and a hash part whose nodes are linked into chains: a key is *)
(* found from its main position, and a node that is not in its own main    *)
(* position makes way for a key whose main position it is. When no node is *)
(* free the table is built anew, with an array part of the best size.      *)
(*                                                                         *)
(* One program sets and clears fields and traverses the table; a traversal *)
(* allows changes of the fields that exist. The collector may pass at any  *)
(* time and turn the keys of cleared fields into dead ones.                *)
(***************************************************************************)
EXTENDS Integers, SequencesExt

CONSTANTS Keys,    \* the keys the program uses
          Values,  \* the values it stores, without nil
          Sizes,   \* what it asks luaH_resizearray for
          MaxSets  \* bound: keys that are set and array parts that are resized

\* A number counts halves, so that 3 and 5/2 are both numbers. Strings have the
\* hash they are interned with, all other objects their address.
Number(n) == [tt |-> "number", n |-> 2 * n]
Nil == [tt |-> "nil"]
nil == 0

collectable(key) == key.tt \in {"string", "object"}

VARIABLES t,     \* the table
          model, \* what the program has stored in it
          trav,  \* the key a traversal has got to, Nil before the first
          due,   \* keys the traversal has to come to
          seen,  \* the keys it came to, in order
          sets   \* calls made

tableVars == <<t, model, trav, due, seen, sets>>

-----------------------------------------------------------------------------
(* Sizes and positions *)

twoto(x) == 2 ^ x

MAXBITS == 26

\* The code makes no part larger than 2^MAXBITS and reports an overflow instead
\* (setnodevector). Integers are below 2^27, where unbound_search does not yet turn
\* to its linear search.
ASSUME TableConstants ==
  /\ Keys \subseteq [tt : {"number"}, n : 0 .. twoto(28) - 1] \cup [tt : {"string"}, hash : Nat]
                   \cup [tt : {"boolean"}, b : {0, 1}] \cup [tt : {"object"}, at : Nat]
  /\ IsFiniteSet(Keys) /\ Cardinality(Keys) <= twoto(MAXBITS)
  /\ Sizes \subseteq 0 .. twoto(MAXBITS)
  /\ nil \notin Values
  /\ MaxSets \in Nat

\* ceillog2: the number of the slice (2^(i-1), 2^i] an index is in.
ceillog2(x) == CHOOSE i \in 0 .. 27 : x <= twoto(i) /\ (i = 0 \/ x > twoto(i - 1))

sizenode(tab) == twoto(tab.lsizenode)

\* The sum of the two words of a number's representation: 20 bits of the mantissa
\* are in the upper word, behind the exponent.
Words(n) ==
  LET f == CHOOSE i \in 0 .. 29 : twoto(i) <= n /\ n < twoto(i + 1)
      rest == n - twoto(f)
      exponent == (1022 + f) * twoto(20)
  IN IF f <= 20 THEN exponent + rest * twoto(20 - f)
     ELSE (exponent + rest \div twoto(f - 20) + (rest % twoto(f - 20)) * twoto(52 - f)) % twoto(32)

\* The divisor is the largest odd number below the size of the hash part.
hashmod(tab, n) == n % (IF sizenode(tab) = 1 THEN 1 ELSE sizenode(tab) - 1)
hashpow2(tab, n) == n % sizenode(tab)

hashnum(tab, n) == IF n = 0 THEN 0 ELSE hashmod(tab, Words(n))

mainposition(tab, key) ==
  CASE key.tt = "number" -> hashnum(tab, key.n)
    [] key.tt = "string" -> hashpow2(tab, key.hash)
    [] key.tt = "boolean" -> hashpow2(tab, key.b)
    [] key.tt = "object" -> hashmod(tab, key.at)

\* The index of a key that can live in the array part, -1 for others.
arrayindex(key) ==
  IF key.tt = "number" /\ key.n % 2 = 0 THEN key.n \div 2 ELSE -1

InArray(tab, key) == arrayindex(key) \in 1 .. tab.sizearray

\* The nodes of the chain a node is in, from it on.
Chain(tab, i) ==
  LET from[j \in DOMAIN tab.node] ==
        {j} \cup (IF tab.node[j].next = -1 THEN {} ELSE from[tab.node[j].next])
  IN from[i]

\* The first of some nodes of a chain, -1 when there are none.
FirstNode(tab, nodes) ==
  IF nodes = {} THEN -1 ELSE CHOOSE i \in nodes : nodes \subseteq Chain(tab, i)

\* The first node of the key's chain that holds it.
NodeOf(tab, key) ==
  FirstNode(tab, {i \in Chain(tab, mainposition(tab, key)) :
                tab.node[i].key = key /\ ~tab.node[i].dead})

-----------------------------------------------------------------------------
(* Access *)

\* Where the value of a key is: an index of the array part, a node, or nowhere,
\* as in luaO_nilobject. luaH_getnum and luaH_getstr are its branches.
Nowhere == <<"nil", 0>>

Place(tab, key) ==
  CASE key = Nil -> Nowhere
    [] InArray(tab, key) -> <<"array", arrayindex(key)>>
    [] OTHER -> IF NodeOf(tab, key) = -1 THEN Nowhere ELSE <<"node", NodeOf(tab, key)>>

ValueAt(tab, place) ==
  CASE place[1] = "array" -> tab.array[place[2]]
    [] place[1] = "node" -> tab.node[place[2]].val
    [] OTHER -> nil

luaH_get(tab, key) == ValueAt(tab, Place(tab, key))

Put(tab, place, v) ==
  CASE place[1] = "array" -> [tab EXCEPT !.array[place[2]] = v]
    [] place[1] = "node" -> [tab EXCEPT !.node[place[2]].val = v]
    [] OTHER -> tab

-----------------------------------------------------------------------------
(* New tables *)

FreeNode == [key |-> Nil, dead |-> FALSE, val |-> nil, next |-> -1]

\* An empty hash part is the dummy node, whose key is never set.
setnodevector(tab, size) ==
  LET lsize == IF size = 0 THEN 0 ELSE ceillog2(size)
  IN [tab EXCEPT !.dummy = size = 0, !.lsizenode = lsize,
                 !.node = [i \in 0 .. twoto(lsize) - 1 |-> FreeNode],
                 !.lastfree = IF size = 0 THEN 0 ELSE twoto(lsize)]

setarrayvector(tab, size) ==
  [tab EXCEPT !.array = [i \in 1 .. size |-> IF i <= tab.sizearray THEN @[i] ELSE nil],
              !.sizearray = size]

luaH_new(narray, nhash) ==
  setnodevector(setarrayvector([array |-> <<>>, sizearray |-> 0, node |-> <<>>, lsizenode |-> 0,
                                lastfree |-> 0, dummy |-> TRUE], narray), nhash)

-----------------------------------------------------------------------------
(* Counting keys for a new array part. nums[i] is the set of those of slice i, *)
(* of which the code keeps the number.                                         *)

Slices == 0 .. MAXBITS

countint(key) == arrayindex(key) \in 1 .. twoto(MAXBITS)

numusearray(tab) == {i \in 1 .. tab.sizearray : tab.array[i] # nil}

numusehash(tab) == {i \in DOMAIN tab.node : tab.node[i].val # nil}

\* The largest size of the array part with more than half of its slots in use,
\* and how many keys go there.
computesizes(nums, narray) ==
  LET below(i) == Cardinality(UNION {nums[j] : j \in 0 .. i})
      loop == {i \in Slices : twoto(i) \div 2 < narray /\ (i = 0 \/ below(i - 1) # narray)}
      good == {i \in loop : nums[i] # {} /\ below(i) > twoto(i) \div 2}
  IN IF good = {} THEN [n |-> 0, na |-> 0] ELSE [n |-> twoto(Max(good)), na |-> below(Max(good))]

-----------------------------------------------------------------------------
(* Insertion *)

\* Every node from the last free one down that has a key is in use.
getfreepos(tab) ==
  LET free == {i \in 0 .. tab.lastfree - 1 : tab.node[i].key = Nil}
  IN IF free = {} THEN -1 ELSE Max(free)

\* The key takes the node mp, whose links stay.
Take(tab, mp, key) ==
  [tab |-> [tab EXCEPT !.node[mp].key = key, !.node[mp].dead = FALSE], place |-> <<"node", mp>>]

\* Slip: the chain is not led around the node that moves.
SlipMoveAway(tab, mp, n) ==
  [tab EXCEPT !.node[n] = tab.node[mp], !.node[mp].next = -1, !.node[mp].val = nil]

\* The node at mp belongs to another chain: it moves to n, and the chain with it.
MoveAway(tab, mp, n) ==
  LET previous == CHOOSE i \in Chain(tab, mainposition(tab, tab.node[mp].key)) :
                    tab.node[i].next = mp
  IN [tab EXCEPT !.node[previous].next = n, !.node[n] = tab.node[mp],
                 !.node[mp].next = -1, !.node[mp].val = nil]

\* A new key needs a free node, and there is none.
Full(tab, key) ==
  /\ tab.node[mainposition(tab, key)].val # nil \/ tab.dummy
  /\ getfreepos(tab) = -1

newkey(tab, key) ==
  LET mp == mainposition(tab, key)
      n == getfreepos(tab)
      left == [tab EXCEPT !.lastfree = n]
  IN CASE tab.node[mp].val = nil /\ ~tab.dummy -> Take(tab, mp, key)
       [] OTHER ->
            IF mainposition(tab, tab.node[mp].key) # mp
            THEN Take(MoveAway(left, mp, n), mp, key)
            ELSE Take([left EXCEPT !.node[n].next = tab.node[mp].next, !.node[mp].next = n], n, key)

\* Where the key is, or is put if there is room: then the table is not built anew.
SetInRoom(tab, key) ==
  CASE Place(tab, key) # Nowhere -> [tab |-> tab, place |-> Place(tab, key)]
    [] Place(tab, key) = Nowhere /\ Full(tab, key) -> [tab |-> tab, place |-> Nowhere]
    [] OTHER -> newkey(tab, key)

SetField(tab, field) ==
  LET r == SetInRoom(tab, field.key)
  IN IF field.val = nil THEN tab ELSE Put(r.tab, r.place, field.val)

\* The elements of the vanishing slice are inserted first, then the hash part
\* from its last node to its first. Where one had no room the code would build the
\* table anew once more; here it would be lost, and ResizeKeeps proves that none is.
resize(tab, nasize, nhsize) ==
  LET grown == IF nasize > tab.sizearray THEN setarrayvector(tab, nasize) ELSE tab
      fresh == setnodevector(grown, nhsize)
      cut == [fresh EXCEPT !.array = [i \in 1 .. nasize |-> @[i]], !.sizearray = nasize]
      slice == IF nasize < tab.sizearray THEN tab.sizearray - nasize ELSE 0
      field(k) == IF k <= slice THEN [key |-> Number(nasize + k), val |-> tab.array[nasize + k]]
                  ELSE tab.node[sizenode(tab) - (k - slice)]
      filled[k \in 0 .. slice + sizenode(tab)] ==
        IF k = 0 THEN cut ELSE SetField(filled[k - 1], field(k))
  IN filled[slice + sizenode(tab)]

rehash(tab, key) ==
  LET hashed == numusehash(tab)
      ints == numusearray(tab)
              \cup {arrayindex(tab.node[i].key) : i \in {j \in hashed : countint(tab.node[j].key)}}
              \cup (IF countint(key) THEN {arrayindex(key)} ELSE {})
      nums == [i \in Slices |-> {k \in ints : ceillog2(k) = i}]
      best == computesizes(nums, Cardinality(ints))
      total == Cardinality(numusearray(tab)) + Cardinality(hashed) + 1
  IN resize(tab, best.n, total - best.na)

luaH_set(tab, key) ==
  IF Place(tab, key) = Nowhere /\ Full(tab, key) THEN SetInRoom(rehash(tab, key), key)
  ELSE SetInRoom(tab, key)

-----------------------------------------------------------------------------
(* Traversal: first the array part, then the nodes *)

\* Slip: a dead key is not looked for.
Slipfindindex(tab, key) ==
  CASE key = Nil -> 0
    [] InArray(tab, key) -> arrayindex(key)
    [] OTHER -> IF NodeOf(tab, key) = -1 THEN -1 ELSE tab.sizearray + NodeOf(tab, key) + 1

\* How many places the traversal has behind it; -1 for a key that is not there.
\* The key may have died since: the first node with the same object is taken.
findindex(tab, key) ==
  LET i == FirstNode(tab, {j \in Chain(tab, mainposition(tab, key)) : tab.node[j].key = key})
  IN CASE key = Nil -> 0
       [] InArray(tab, key) -> arrayindex(key)
       [] OTHER -> IF i = -1 THEN -1 ELSE tab.sizearray + i + 1

KeyAt(tab, i) == IF i <= tab.sizearray THEN Number(i) ELSE tab.node[i - tab.sizearray - 1].key
UsedAt(tab, i) ==
  IF i <= tab.sizearray THEN tab.array[i] # nil ELSE tab.node[i - tab.sizearray - 1].val # nil

\* The next key with a value, Nil at the end.
luaH_next(tab, from) ==
  LET after == {i \in from + 1 .. tab.sizearray + sizenode(tab) : UsedAt(tab, i)}
  IN IF after = {} THEN Nil ELSE KeyAt(tab, Min(after))

-----------------------------------------------------------------------------
(* The border: an index with a value in front of one without *)

Has(tab, i) == luaH_get(tab, Number(i)) # nil

\* Binary search between an index with a value, or 0, and one without.
Between(tab, low, high) ==
  LET search[k \in 0 .. high - low] ==
        LET i == search[k - 1][1]
            j == search[k - 1][2]
            m == (i + j) \div 2
        IN CASE k = 0 -> <<low, high>>
             [] k # 0 /\ j - i <= 1 -> <<i, j>>
             [] OTHER -> IF Has(tab, m) THEN <<m, j>> ELSE <<i, m>>
  IN search[high - low][1]

\* What is beyond the array part: the upper end is doubled until there is no
\* value.
Doubled(size, k) == (size + 1) * twoto(k)
Doublings(tab, size) ==
  CHOOSE k \in 0 .. 27 : ~Has(tab, Doubled(size, k)) /\ \A l \in 0 .. k - 1 : Has(tab, Doubled(size, l))

\* Slip: the lower end is left where the search began.
Slipunbound_search(tab, size) ==
  LET k == Doublings(tab, size)
  IN IF k = 0 THEN size ELSE Doubled(size, k) - 1

unbound_search(tab, size) ==
  LET k == Doublings(tab, size)
  IN Between(tab, IF k = 0 THEN size ELSE Doubled(size, k - 1), Doubled(size, k))

luaH_getn(tab) ==
  LET j == tab.sizearray
  IN CASE j > 0 /\ tab.array[j] = nil -> Between(tab, 0, j)
       [] ~(j > 0 /\ tab.array[j] = nil) /\ tab.dummy -> j
       [] OTHER -> unbound_search(tab, j)

-----------------------------------------------------------------------------
(* The program and the collector *)

TableInit ==
  /\ \E narray \in Sizes, nhash \in Sizes : t = luaH_new(narray, nhash)
  /\ model = [k \in Keys |-> nil]
  /\ trav = [st |-> "none", key |-> Nil] /\ due = {} /\ seen = <<>>
  /\ sets = 0

\* lua_rawset. A key that is not in the table is put there even for nil.
Store(key, v) ==
  /\ \/ trav.st = "none" /\ sets < MaxSets
     \/ trav.st = "on" /\ luaH_get(t, key) # nil
  /\ \E r \in {luaH_set(t, key)} : t' = Put(r.tab, r.place, v)
  /\ model' = [model EXCEPT ![key] = v]
  /\ due' = IF v = nil THEN due \ {key} ELSE due
  /\ sets' = IF trav.st = "on" THEN sets ELSE sets + 1
  /\ UNCHANGED <<trav, seen>>

\* OP_SETLIST makes room for the list that follows.
luaH_resizearray(nasize) ==
  /\ trav.st = "none" /\ sets < MaxSets /\ nasize > t.sizearray
  /\ t' = resize(t, nasize, IF t.dummy THEN 0 ELSE sizenode(t))
  /\ sets' = sets + 1
  /\ UNCHANGED <<model, trav, due, seen>>

\* traversetable, lgc.c: the keys of fields without a value die.
RemoveEntries ==
  /\ \E i \in DOMAIN t.node : t.node[i].val = nil /\ collectable(t.node[i].key) /\ ~t.node[i].dead
  /\ t' = [t EXCEPT !.node = [i \in DOMAIN t.node |->
             IF t.node[i].val = nil /\ collectable(t.node[i].key)
             THEN [t.node[i] EXCEPT !.dead = TRUE] ELSE t.node[i]]]
  /\ UNCHANGED <<model, trav, due, seen, sets>>

Begin ==
  /\ trav.st = "none"
  /\ trav' = [st |-> "on", key |-> Nil] /\ seen' = <<>>
  /\ due' = {k \in Keys : model[k] # nil}
  /\ UNCHANGED <<t, model, sets>>

Step ==
  /\ trav.st = "on"
  /\ \E from \in {findindex(t, trav.key)} :
       IF from = -1 THEN trav' = [trav EXCEPT !.st = "failed"] /\ UNCHANGED seen
       ELSE \E key \in {luaH_next(t, from)} :
              IF key = Nil THEN trav' = [trav EXCEPT !.st = "over"] /\ UNCHANGED seen
              ELSE trav' = [trav EXCEPT !.key = key] /\ seen' = Append(seen, key)
  /\ UNCHANGED <<t, model, due, sets>>

\* The program leaves its loop.
Leave ==
  /\ trav.st # "none"
  /\ trav' = [st |-> "none", key |-> Nil] /\ due' = {} /\ seen' = <<>>
  /\ UNCHANGED <<t, model, sets>>

TableNext ==
  \/ \E key \in Keys, v \in Values \cup {nil} : Store(key, v)
  \/ \E n \in Sizes : luaH_resizearray(n)
  \/ RemoveEntries \/ Begin \/ Step \/ Leave

TableSpec == TableInit /\ [][TableNext]_tableVars

-----------------------------------------------------------------------------
(* Properties *)

\* The array part computesizes chooses is the largest in which more than half of
\* the slots are used, for every set of indices (189-208).
SizesAreBest ==
  sets = 0 =>
    \A ints \in SUBSET (1 .. 9) :
      LET nums == [i \in Slices |-> {k \in ints : ceillog2(k) = i}]
          used(n) == Cardinality({k \in ints : k <= n})
          good == {n \in {twoto(i) : i \in Slices} : 2 * used(n) > n}
          best == computesizes(nums, Cardinality(ints))
      IN /\ best.n = IF good = {} THEN 0 ELSE Max(good)
         /\ best.na = used(best.n)

\* Whatever was set, cleared, moved between the parts and between the nodes, each
\* key is found with the value stored last (newkey, 399-429; resize, 297-324); and
\* the parts have the sizes that pay.
HoldsTheMap ==
  /\ \A k \in Keys : luaH_get(t, k) = model[k]
  /\ SizesAreBest

\* A traversal in which fields that exist are changed or cleared never loses its
\* place, also when the key it has got to died (findindex, 145-149). It comes to
\* no key twice and, when it is over, to every one that was not cleared before.
TraversalSeesAll ==
  /\ trav.st # "failed"
  /\ IsInjective(seen)
  /\ trav.st = "over" => due \subseteq Range(seen)

\* The length of the table is a border, for every table (556-559).
LengthIsBorder ==
  LET n == luaH_getn(t)
  IN /\ n > 0 => Has(t, n)
     /\ ~Has(t, n + 1)
=============================================================================
