------------------------------ MODULE MCLuaHeap -----------------------------
(***************************************************************************)
(* Modules LuaTable and LuaGc on small instances: keys and programs.       *)
(*                                                                         *)
(* The integers 1, 2 and 3 can live in both parts of a table; the strings  *)
(* S(0) and S(2) collide in a hash part of one or two nodes, and the       *)
(* object, which only the hash part takes, with them or with an integer in *)
(* the larger ones.                                                        *)
(*                                                                         *)
(* A program begins with nothing and makes two kinds of object, or begins  *)
(* with a closure over the stack of a coroutine, which only it refers to   *)
(* once the coroutine is dropped.                                          *)
(***************************************************************************)
EXTENDS LuaTable, LuaGc

S(h) == [tt |-> "string", hash |-> h]
O(a) == [tt |-> "object", at |-> a]

MCKeys == {Number(1), Number(2), Number(3), S(0), S(2), O(3)}

Program(makes, last, calls, gc, heap) ==
  [makes |-> makes, last |-> last, calls |-> calls, full |-> gc, heap |-> heap]

\* Two objects of some kinds on the stack.
Two(a, b) ==
  [NewHeap EXCEPT !.kind[3] = a, !.kind[4] = b, !.refs[MAIN] = Pair(3, 4)]

\* A weak table and a udata.
Held == [Two("weak value", "udata") EXCEPT !.refs[4] = Pair(REGISTRY, none)]

\* A udata with the only reference to its environment.
Finalized == [Two("udata", "table") EXCEPT !.refs[MAIN] = Pair(3, none), !.refs[3] = Pair(4, none)]

\* A closure whose variable is closed.
Private ==
  [Two("closure", "upvalue") EXCEPT !.refs[MAIN] = Pair(3, none), !.refs[3] = Pair(4, none)]

\* A coroutine and a closure over a level of a stack.
Shared(thread) ==
  [Two("thread", "closure") EXCEPT !.kind[5] = "upvalue", !.refs[4] = Pair(5, none), !.owner[5] = thread]

OfCoroutine == [Shared(3) EXCEPT !.refs[3] = Pair(4, none)]

MCPrograms ==
  {Program({}, 5, 3, FALSE, Held), Program({"udata"}, 5, 2, TRUE, Held),
   Program({"string"}, 5, 3, FALSE, Two("weak key", "string")),
   Program({"closure", "table"}, 5, 3, FALSE, NewHeap),
   Program({"table"}, 5, 2, FALSE, Private), Program({"thread", "table"}, 4, 3, FALSE, NewHeap),
   Program({"table"}, 5, 2, TRUE, Finalized),
   Program({}, 5, 3, FALSE, OfCoroutine), Program({"table"}, 6, 2, TRUE, OfCoroutine),
   Program({}, 5, 3, FALSE, Shared(MAIN))}

\* The one that does not run.
NoTable ==
  /\ t = luaH_new(0, 0) /\ model = [k \in Keys |-> nil] /\ sets = MaxSets
  /\ trav = [st |-> "none", key |-> Nil] /\ due = {} /\ seen = <<>>

NoProgram ==
  /\ L = MAIN /\ program = [makes |-> {}, last |-> 0, calls |-> 0, full |-> FALSE]
  /\ g = [NewState(NewHeap) EXCEPT !.state = "closed"]
  /\ full = "no" /\ kept = NotAsked
=============================================================================
