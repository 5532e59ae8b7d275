-------------------------------- MODULE LuaGc --------------------------------
(***************************************************************************)
(* src/projects/halelua/src/lgc.c: the incremental collector of Lua, with  *)
(* the program that changes the heap between its steps. The collector      *)
(* marks from the roots with gray objects still to be traversed, finishes  *)
(* marking without letting the program in, and sweeps: what kept the white *)
(* of before is freed. There are two whites, so that an object made during *)
(* a sweep is safe. A program that stores a white object in a black one    *)
(* meets a barrier; stacks have none and stay gray.                        *)
(*                                                                         *)
(* An object is a number, 0 stands for a value that is none. The lists of  *)
(* the collector are sets: a step takes any of the gray objects, of those  *)
(* not swept yet, or of the finalizers that wait. Strings have one         *)
(* content, and so one bucket of the string table.                         *)
(***************************************************************************)
EXTENDS Integers

CONSTANTS Objects,    \* the numbers of what a program can make
          Programs    \* the programs: what each makes and begins with, and how much it does

VARIABLES g,          \* the global state and its heap
          L,          \* the running thread
          program,    \* what it makes, the last number, the calls left, are full collections asked for
          full,       \* how far a full collection is: "no", "sweep" or "mark"
          kept        \* what the roots and each udata kept when it was called

gcVars == <<g, L, program, full, kept>>

none == 0
MAIN == 1             \* the main thread
REGISTRY == 2         \* the registry and the table of globals
All == {MAIN, REGISTRY} \cup Objects

\* marked is a white, 0 or 1, or one of these.
GRAY == 2
BLACK == 3

Weak == {"weak key", "weak value"}
Tables == {"table"} \cup Weak
Traversed == {"thread", "closure"} \cup Tables
Kinds == {"free", "string", "udata", "upvalue"} \cup Traversed

\* The two values of an object: the stack of a thread, a field of a table, key and
\* value of a weak table's entry, the upvalue of a closure, the value of a closed
\* upvalue, the environment of a udata.
Pair(a, b) == [i \in 1 .. 2 |-> IF i = 1 THEN a ELSE b]
Levels(thread) == IF thread = MAIN THEN 1 .. 2 ELSE {1}

\* The program's part of the state: an upvalue's value is that of a level of its
\* owner, a thread while it is open, itself when it is closed (v of UpVal).
NewHeap ==
  [kind |-> [o \in All |-> CASE o = MAIN -> "thread" [] o = REGISTRY -> "table" [] OTHER -> "free"],
   refs |-> [o \in All |-> Pair(none, none)],
   owner |-> [o \in All |-> o],
   level |-> [o \in All |-> 1]]

\* finalized: the bit of a udata. ran: the finalizers that ran. lost: the udata
\* freed without, or finalized twice.
NewState(heap) ==
  [kind |-> heap.kind, refs |-> heap.refs, owner |-> heap.owner, level |-> heap.level,
   marked |-> [o \in All |-> 0], white |-> 0, state |-> "pause",
   gray |-> {}, grayagain |-> {}, weak |-> {}, unswept |-> {},
   tmudata |-> {}, finalized |-> {}, ran |-> {}, lost |-> {}]

Used(s) == {o \in All : s.kind[o] # "free"}
Of(s, kinds) == {o \in All : s.kind[o] \in kinds}
OpenUpvals(s) == {uv \in All : s.owner[uv] # uv}
Value(s, uv) == s.refs[s.owner[uv]][s.level[uv]]
Leads(s, o) == {s.refs[o][1], s.refs[o][2], Value(s, o)} \ {none}

\* Where the value of an object is, if it has any.
Owned(s, o) ==
  /\ IF s.owner[o] = o THEN s.level[o] = 1
     ELSE s.kind[o] = "upvalue" /\ s.kind[s.owner[o]] = "thread" /\ s.refs[o] = Pair(none, none)
  /\ s.kind[o] \in {"free", "string"} => s.refs[o] = Pair(none, none)

\* What an object of each kind holds, all of it among some objects.
Wired(s, o, objects) ==
  /\ Leads(s, o) \subseteq objects
  /\ s.kind[o] = "closure" => s.refs[o][1] # none /\ s.kind[s.refs[o][1]] = "upvalue"
  /\ s.kind[o] = "udata" => s.refs[o][1] # none /\ s.kind[s.refs[o][1]] \in Tables
  /\ s.kind[o] \in {"closure", "udata", "upvalue"} => s.refs[o][2] = none
  /\ s.kind[o] # "closure" => \A v \in Leads(s, o) : s.kind[v] # "upvalue"
  /\ s.kind[o] \in Weak /\ s.refs[o][2] = none => s.refs[o][1] = none

IsHeap(h) ==
  /\ h.kind \in [All -> Kinds] /\ h.refs \in [All -> [1 .. 2 -> All \cup {none}]]
  /\ h.owner \in [All -> All] /\ h.level \in [All -> 1 .. 2]
  /\ h.kind[MAIN] = "thread" /\ h.kind[REGISTRY] = "table"
  /\ \A o \in All : Owned(h, o)
  /\ \A o \in Used(h) : Wired(h, o, Used(h))

\* What a program begins with has been made by one.
ASSUME ProgramsAssumption ==
  /\ Objects \subseteq Nat \ 0 .. 2
  /\ \A p \in Programs : IsHeap(p.heap)

\* No full collection goes on.
NotAsked == [from |-> {}, of |-> [o \in All |-> {}], ran |-> {}]

GcInit ==
  /\ \E p \in Programs :
       /\ program = [makes |-> p.makes, last |-> p.last, calls |-> p.calls, full |-> p.full]
       /\ g = NewState(p.heap)
  /\ L = MAIN
  /\ full = "no" /\ kept = NotAsked

-----------------------------------------------------------------------------
(* Marking *)

iswhite(s, o) == s.marked[o] \in {0, 1}
isdead(s, o) == s.marked[o] = 1 - s.white

Paint(s, S, color) == [s EXCEPT !.marked = [o \in All |-> IF o \in S THEN color ELSE @[o]]]
makewhite(s, S) == Paint(s, S, s.white)

Whites(s, S) == {o \in S \ {none} : iswhite(s, o)}

\* markvalue, markobject, reallymarkobject of some objects: an upvalue marks its
\* value, a udata its environment. An open upvalue is never black, a udata never gray.
markobject(s, S) ==
  LET found == Whites(s, S)
      values == found \cup Whites(s, {Value(s, uv) : uv \in found \cap Of(s, {"upvalue"})})
      marks == values \cup Whites(s, {s.refs[u][1] : u \in values \cap Of(s, {"udata"})})
      black == (marks \cap Of(s, {"udata", "upvalue"})) \ OpenUpvals(s)
  IN [Paint(Paint(s, marks, GRAY), black, BLACK)
        EXCEPT !.gray = @ \cup (marks \cap Of(s, Traversed))]

\* What traversing an object marks. An empty entry keeps its key as a dead one.
Strong(s, o) ==
  (CASE s.kind[o] = "thread" -> {REGISTRY, s.refs[o][1], s.refs[o][2]}
     [] s.kind[o] = "weak key" -> {s.refs[o][2]}
     [] s.kind[o] = "weak value" -> {v \in {s.refs[o][1]} : s.refs[o][2] # none}
     [] s.kind[o] = "upvalue" -> {Value(s, o)}
     [] OTHER -> {s.refs[o][1], s.refs[o][2]}) \ {none}

\* A thread stays gray, for there are no barriers for stacks, and a weak table for
\* its clearing.
propagatemark(s, o) ==
  LET taken == [s EXCEPT !.gray = @ \ {o}]
  IN markobject(CASE s.kind[o] = "thread" -> [taken EXCEPT !.grayagain = @ \cup {o}]
                  [] s.kind[o] \in Weak -> [taken EXCEPT !.weak = @ \cup {o}]
                  [] OTHER -> Paint(taken, {o}, BLACK),
                Strong(s, o))

markroot(s) ==
  markobject([s EXCEPT !.gray = {}, !.grayagain = {}, !.weak = {}, !.state = "propagate"],
             {MAIN, REGISTRY})

\* The upvalues of threads that nobody marked may be marked themselves.
remarkupvals(s) ==
  markobject(s, {Value(s, uv) : uv \in {x \in OpenUpvals(s) : s.marked[x] = GRAY}})

\* Udata to be finalized go to tmudata.
luaC_separateudata(s, all) ==
  LET taken == {u \in Of(s, {"udata"}) \ (s.tmudata \cup s.finalized) : all \/ iswhite(s, u)}
  IN [s EXCEPT !.finalized = @ \cup taken, !.tmudata = @ \cup taken]

marktmu(s) == markobject(makewhite(s, s.tmudata), s.tmudata)

\* A string is a value, and is marked where a weak table holds it.
iscleared(s, o, iskey) ==
  /\ o # none /\ s.kind[o] # "string"
  /\ iswhite(s, o) \/ (s.kind[o] = "udata" /\ ~iskey /\ o \in s.finalized)

cleartable(s) ==
  LET entries == {t \in s.weak : s.refs[t][2] # none}
      cleared == {t \in entries : iscleared(s, s.refs[t][1], TRUE) \/ iscleared(s, s.refs[t][2], FALSE)}
      held == {s.refs[t][1] : t \in entries} \cup {s.refs[t][2] : t \in entries \ cleared}
  IN [Paint(s, held \cap Of(s, {"string"}), GRAY)
        EXCEPT !.refs = [t \in All |-> IF t \in cleared THEN Pair(none, none) ELSE @[t]]]

\* The lists that a sweep goes through; an open upvalue is in that of its thread.
Listed(s) == (Used(s) \ Of(s, {"string"})) \ (OpenUpvals(s) \cup s.tmudata)

\* The end of marking, where the program has no turn: what was caught by barriers,
\* the weak tables, the running thread, the stacks, and what waiting finalizers can
\* reach, each followed by propagateall.
Atomic == {"remarked", "weak again", "again", "saved"}

atomic(s, l) ==
  CASE s.state = "propagate" -> [remarkupvals(s) EXCEPT !.state = "remarked"]
    [] s.state = "remarked" ->
         markobject([s EXCEPT !.gray = s.weak, !.weak = {}, !.state = "weak again"], {l})
    [] s.state = "weak again" -> [s EXCEPT !.gray = s.grayagain, !.grayagain = {}, !.state = "again"]
    [] s.state = "again" -> [marktmu(luaC_separateudata(s, FALSE)) EXCEPT !.state = "saved"]
    [] s.state = "saved" ->
         [cleartable(s) EXCEPT !.white = 1 - @, !.unswept = Listed(s), !.state = "sweepstring"]

-----------------------------------------------------------------------------
(* Barriers *)

\* luaC_barrier of an object that is no table: the value is marked, or, in a
\* sweep, the object becomes white to avoid other barriers.
\* Slip: the object becomes white while marking too.
SlipluaC_barrier(s, o, v) ==
  IF v # none /\ iswhite(s, v) /\ s.marked[o] = BLACK THEN makewhite(s, {o}) ELSE s

luaC_barrier(s, o, v) ==
  IF v # none /\ iswhite(s, v) /\ s.marked[o] = BLACK
  THEN IF s.state = "propagate" THEN markobject(s, {v}) ELSE makewhite(s, {o})
  ELSE s

\* luaC_barriert: a table is traversed again.
luaC_barriert(s, t, values) ==
  IF Whites(s, values) # {} /\ s.marked[t] = BLACK
  THEN [Paint(s, {t}, GRAY) EXCEPT !.grayagain = @ \cup {t}]
  ELSE s

\* Open upvalues that were marked and are closed must become like other objects.
luaC_linkupval(s, closed) ==
  LET marked == {uv \in closed : s.marked[uv] = GRAY}
  IN IF s.state = "propagate"
     THEN markobject(Paint(s, marked, BLACK), {Value(s, uv) : uv \in marked})
     ELSE makewhite(s, marked)

-----------------------------------------------------------------------------
(* Freeing and finalizing *)

Erase(s, S) ==
  [s EXCEPT !.kind = [o \in All |-> IF o \in S THEN "free" ELSE @[o]],
            !.refs = [o \in All |-> IF o \in S THEN Pair(none, none) ELSE @[o]],
            !.owner = [o \in All |-> IF o \in S THEN o ELSE @[o]],
            !.level = [o \in All |-> IF o \in S THEN 1 ELSE @[o]],
            !.marked = [o \in All |-> IF o \in S THEN 0 ELSE @[o]],
            !.unswept = @ \ S, !.finalized = @ \ S, !.ran = @ \ S,
            !.lost = @ \cup ((S \cap Of(s, {"udata"})) \ s.ran)]

UpvalsFrom(s, thread, level) ==
  {uv \in OpenUpvals(s) : s.owner[uv] = thread /\ s.level[uv] >= level}

luaF_close(s, thread, level) ==
  LET upvals == UpvalsFrom(s, thread, level)
      dead == {uv \in upvals : isdead(s, uv)}
      closed == upvals \ dead
  IN luaC_linkupval(
       [Erase(s, dead) EXCEPT
          !.refs = [o \in All |-> IF o \in closed THEN Pair(Value(s, o), none) ELSE @[o]],
          !.owner = [o \in All |-> IF o \in closed THEN o ELSE @[o]],
          !.level = [o \in All |-> IF o \in closed THEN 1 ELSE @[o]]], closed)

\* sweeplist of some objects: freed, or white for the next cycle. The main thread
\* is fixed.
Swept(s, S) ==
  LET dead == {o \in S \ {MAIN} : isdead(s, o)}
  IN Erase([makewhite(s, S) EXCEPT !.unswept = @ \ S], dead)

\* The open upvalues of a thread are swept with it, and those left are closed when
\* it is freed (luaE_freethread).
sweeplist(s, o) ==
  LET upvals == Swept(s, UpvalsFrom(s, o, 1))
  IN Swept(IF isdead(s, o) /\ o # MAIN THEN luaF_close(upvals, o, 1) ELSE upvals, {o})

sweepstrings(s) == [Swept(s, Of(s, {"string"})) EXCEPT !.state = "sweep"]

\* A udata goes back to its list and its finalizer runs, which may store it where
\* the program finds it again.
GCTM(s, u, stores) ==
  LET back == [makewhite(s, {u}) EXCEPT !.tmudata = @ \ {u}, !.ran = @ \cup {u},
                                        !.lost = @ \cup ({u} \cap s.ran)]
  IN IF stores
     THEN luaC_barriert([back EXCEPT !.refs[REGISTRY] = Pair(u, none)], REGISTRY, {u})
     ELSE back

\* What a step of the collector may make of the state, called by thread l.
singlestep(s, l) ==
  CASE s.state = "pause" -> {markroot(s)}
    [] s.state \in {"propagate"} \cup Atomic ->
         IF s.gray = {} THEN {atomic(s, l)} ELSE {propagatemark(s, o) : o \in s.gray}
    [] s.state = "sweepstring" -> {sweepstrings(s)}
    [] s.state = "sweep" ->
         {IF x.unswept = {} THEN [x EXCEPT !.state = "finalize"] ELSE x :
            x \in {sweeplist(s, o) : o \in s.unswept}}
    [] s.state = "finalize" ->
         IF s.tmudata = {} THEN {[s EXCEPT !.state = "pause"]}
         ELSE {GCTM(s, u, stores) : u \in s.tmudata, stores \in BOOLEAN}

\* Marking that was begun is given up: a sweep that frees nothing makes all white.
Restarted(s) ==
  IF s.state \in {"pause", "propagate"}
  THEN [s EXCEPT !.gray = {}, !.grayagain = {}, !.weak = {}, !.unswept = Listed(s),
                 !.state = "sweepstring"]
  ELSE s

-----------------------------------------------------------------------------
(* What can be reached *)

\* Through what keeps an object, where a string in a weak table counts.
Keeps(s, o) == (Strong(s, o) \cup (Leads(s, o) \cap Of(s, {"string"}))) \ {none}

\* In every set that holds the roots and what its members lead to.
Closed(S, next) == \A o \in S : next[o] \subseteq S

Reach(from, next) ==
  LET closed == {S \in {from \cup T : T \in SUBSET (All \ from)} : Closed(S, next)}
  IN {o \in All : \A S \in closed : o \in S}

Accessible(s) == Reach({MAIN, REGISTRY, L} \cup s.tmudata, [o \in All |-> Leads(s, o)])

Kept(s) ==
  LET from(S) == Reach(S, [o \in All |-> Keeps(s, o)])
  IN [from |-> from({MAIN, REGISTRY, L}), ran |-> s.ran,
      of |-> [u \in All |-> IF s.kind[u] = "udata" THEN from({u}) ELSE {}]]

-----------------------------------------------------------------------------
(* The program *)

\* What the program has in its hands: its stack and the registry.
InHand == ({g.refs[L][i] : i \in 1 .. 2} \cup {REGISTRY}) \ {none}

\* What it can read of an object.
Readable(o) ==
  CASE g.kind[o] = "closure" -> {Value(g, g.refs[o][1])}
    [] g.kind[o] = "thread" -> {}
    [] OTHER -> {g.refs[o][1], g.refs[o][2]}

Hold(s, i, v) == [s EXCEPT !.refs[L][i] = v]

Assign(i, v) ==
  /\ v # g.refs[L][i]
  /\ g' = Hold(g, i, v)

\* The objects of a program are made in the order of their numbers.
Unused(s) == {o \in Objects : o <= program.last /\ s.kind[o] = "free"}
NextUnused(s) == {o \in Unused(s) : \A x \in Unused(s) : o <= x}

\* luaC_link, luaS_newudata: a new object is white.
Linked(s, o, kind, refs) ==
  [s EXCEPT !.kind[o] = kind, !.refs[o] = refs, !.marked[o] = s.white]

\* A string of the same content is found, and brought back if it is dead.
luaS_newlstr(i) ==
  LET there == Of(g, {"string"})
  IN \/ \E o \in there : g' = Hold(makewhite(g, {x \in {o} : isdead(g, x)}), i, o)
     \/ there = {} /\ \E o \in NextUnused(g) : g' = Hold(Linked(g, o, "string", Pair(none, none)), i, o)

New(kind, i, v) == \E o \in NextUnused(g) : g' = Hold(Linked(g, o, kind, Pair(v, none)), i, o)

\* The open upvalue of a level: found in the list of the thread, and brought back
\* if it is dead, or new.
\* Slip: a dead one is taken as it is.
SlipluaF_findupval(s, level) ==
  LET open == {uv \in OpenUpvals(s) : s.owner[uv] = L /\ s.level[uv] = level}
  IN IF open = {}
     THEN {[uv |-> uv, s |-> [Linked(s, uv, "upvalue", Pair(none, none))
                                EXCEPT !.owner[uv] = L, !.level[uv] = level]] : uv \in NextUnused(s)}
     ELSE {[uv |-> uv, s |-> s] : uv \in open}

luaF_findupval(s, level) ==
  LET open == {uv \in OpenUpvals(s) : s.owner[uv] = L /\ s.level[uv] = level}
  IN IF open = {}
     THEN {[uv |-> uv, s |-> [Linked(s, uv, "upvalue", Pair(none, none))
                                EXCEPT !.owner[uv] = L, !.level[uv] = level]] : uv \in NextUnused(s)}
     ELSE {[uv |-> uv, s |-> makewhite(s, {x \in {uv} : isdead(s, x)})] : uv \in open}

\* OP_CLOSURE with one upvalue, of a level of the running function's stack.
NewClosure(i, level) ==
  \E o \in NextUnused(g) :
    \E found \in luaF_findupval(Linked(g, o, "closure", Pair(none, none)), level) :
      g' = Hold([found.s EXCEPT !.refs[o] = Pair(found.uv, none)], i, o)

\* lua_settable and its kind: a field of a table or an entry of a weak table.
SetTable(t, refs) ==
  /\ g.refs[t] # refs
  /\ g' = luaC_barriert([g EXCEPT !.refs[t] = refs], t, {refs[1], refs[2]})

\* OP_SETUPVAL of a closure.
SetUpval(c, v) ==
  LET uv == g.refs[c][1]
  IN /\ Value(g, uv) # v
     /\ g' = luaC_barrier([g EXCEPT !.refs[g.owner[uv]][g.level[uv]] = v], uv, v)

\* lua_setfenv of a udata.
SetEnv(u, t) ==
  /\ g.refs[u][1] # t
  /\ g' = luaC_barrier([g EXCEPT !.refs[u] = Pair(t, none)], u, t)

Close(level) ==
  /\ UpvalsFrom(g, L, level) # {}
  /\ g' = luaF_close(g, L, level)

\* lua_resume hands a value to a coroutine and lua_yield one back.
Resume(co, v) ==
  /\ L = MAIN /\ co # MAIN
  /\ g' = [g EXCEPT !.refs[co][1] = v] /\ L' = co

Yield(i) ==
  /\ L # MAIN
  /\ g' = [g EXCEPT !.refs[MAIN][i] = g.refs[L][1]] /\ L' = MAIN

luaC_callGCTM(s) ==
  [makewhite(s, s.tmudata) EXCEPT !.tmudata = {}, !.ran = @ \cup s.tmudata,
                                  !.lost = @ \cup (s.tmudata \cap s.ran)]

\* Every finalizer runs, and everything is freed.
lua_close ==
  /\ L = MAIN
  /\ g' = [Erase(luaC_callGCTM(luaC_separateudata(luaF_close(g, MAIN, 1), TRUE)), Objects)
             EXCEPT !.state = "closed"]

Call ==
  LET levels == Levels(L)
      values == InHand \cup {none}
      of(kinds) == InHand \cap Of(g, kinds)
  IN \/ /\ \/ \E i \in levels : \E v \in values \cup UNION {Readable(o) : o \in InHand} : Assign(i, v)
           \/ "string" \in program.makes /\ \E i \in levels : luaS_newlstr(i)
           \/ \E kind \in program.makes \cap Tables, i \in levels : New(kind, i, none)
           \/ "udata" \in program.makes /\ \E i \in levels : New("udata", i, REGISTRY)
           \/ "thread" \in program.makes /\ L = MAIN /\ \E i \in levels : New("thread", i, none)
           \/ "closure" \in program.makes /\ \E i, level \in levels : NewClosure(i, level)
           \/ \E t \in of({"table"}), v \in values : SetTable(t, Pair(v, none))
           \/ \E t \in of(Weak), k, v \in values :
                SetTable(t, IF v = none THEN Pair(none, none) ELSE Pair(k, v))
           \/ \E c \in of({"closure"}), v \in values : SetUpval(c, v)
           \/ \E u \in of({"udata"}), t \in of(Tables) : SetEnv(u, t)
           \/ \E level \in levels : Close(level)
           \/ lua_close
        /\ UNCHANGED L
     \/ \E co \in of({"thread"}), v \in values : Resume(co, v)
     \/ \E i \in 1 .. 2 : Yield(i)

\* luaC_step, with any pace. luaC_fullgc: what is under way is swept, and everything
\* is marked and swept; the program has no turn.
\* Slip: the collection under way is only finished.
SlipFullStep ==
  IF full = "sweep" /\ g.state = "finalize" THEN g' = g /\ full' = "mark" /\ UNCHANGED kept
  ELSE IF full = "mark" /\ g.state = "pause"
  THEN g' = g /\ full' = "no" /\ kept' = NotAsked
  ELSE g' \in singlestep(g, L) /\ UNCHANGED <<full, kept>>

FullStep ==
  IF full = "sweep" /\ g.state = "finalize"
  THEN g' = markroot(g) /\ full' = "mark" /\ UNCHANGED kept
  ELSE IF full = "mark" /\ g.state = "pause"
  THEN g' = g /\ full' = "no" /\ kept' = NotAsked
  ELSE g' \in singlestep(g, L) /\ UNCHANGED <<full, kept>>

FullGc == g' = Restarted(g) /\ full' = "sweep" /\ kept' = Kept(g)

GcNext ==
  /\ g.state # "closed"
  /\ \/ /\ full = "no" /\ g.state \notin Atomic /\ program.calls > 0
        /\ program' = [program EXCEPT !.calls = @ - 1]
        /\ Call /\ UNCHANGED <<full, kept>>
     \/ full = "no" /\ g' \in singlestep(g, L) /\ UNCHANGED <<L, program, full, kept>>
     \/ full = "no" /\ g.state \notin Atomic /\ program.full /\ FullGc /\ UNCHANGED <<L, program>>
     \/ full # "no" /\ FullStep /\ UNCHANGED <<L, program>>

GcSpec == GcInit /\ [][GcNext]_gcVars

-----------------------------------------------------------------------------
\* Only garbage is freed. No object that a program can get at, or that a finalizer
\* will be given, is freed, nor is it dead, about to be freed (checkliveness of
\* lobject.h), whatever the program does between the steps of a collection; and a
\* udata is freed after its finalizer has run, once.
FreesOnlyGarbage ==
  /\ g.state # "closed" => \A o \in Accessible(g) : g.kind[o] # "free" /\ ~isdead(g, o)
  /\ g.lost = {}

\* While marking goes on no black object refers to a white one; what waits for its
\* finalizer may be black from the cycle before.
NoBlackToWhite ==
  g.state = "propagate" =>
    \A o \in All \ g.tmudata :
      g.marked[o] = BLACK => \A v \in {g.refs[o][1], g.refs[o][2]} \ {none} : ~iswhite(g, v)

\* A full collection, at any moment of another one, frees all that was garbage
\* when it was called, apart from what its finalizers were given.
FullCollects ==
  full = "mark" /\ g.state = "pause" =>
    Used(g) \subseteq kept.from \cup UNION {kept.of[u] : u \in g.ran \ kept.ran}
=============================================================================
