----------------------------- MODULE LuaGcProofs -----------------------------
(***************************************************************************)
(* Proofs about module LuaGc, for any objects, programs and start heaps.   *)
(*                                                                         *)
(* Inv(s, l, exempt) is what holds between two steps of the collector or   *)
(* of a program that runs in thread l: the heap hangs together, colors are *)
(* those that an object of its kind can have, each udata is finalized once *)
(* and before it can die, and, by phase, how far marking or sweeping is.   *)
(* exempt is for what a store has broken and its barrier has yet to mend.  *)
(*                                                                         *)
(* A lemma compares a state with the next one, or with one on the way to   *)
(* it: ...Is says which fields differ, ...Keeps that Inv is kept. The      *)
(* collector's steps come first, then the program's calls.                 *)
(*                                                                         *)
(* FullInv is about a full collection: what it marks, and lets live, was   *)
(* kept when it was called. The last section follows it, ...Collects.      *)
(***************************************************************************)
EXTENDS LuaGc, TLAPS

States == {"pause", "propagate", "sweepstring", "sweep", "finalize", "closed"} \cup Atomic

State ==
  [kind : [All -> Kinds], refs : [All -> [1 .. 2 -> All \cup {none}]],
   owner : [All -> All], level : [All -> 1 .. 2],
   marked : [All -> 0 .. 3], white : {0, 1}, state : States,
   gray : SUBSET All, grayagain : SUBSET All, weak : SUBSET All, unswept : SUBSET All,
   tmudata : SUBSET All, finalized : SUBSET All, ran : SUBSET All, lost : SUBSET All]

Alive(s) == {o \in Used(s) : ~isdead(s, o)}

\* The heap hangs together.
Linkage(s, l) ==
  /\ \A o \in All : Owned(s, o)
  /\ \A o \in Alive(s) : Wired(s, o, Alive(s))
  /\ {MAIN, REGISTRY, l} \cup s.tmudata \subseteq Alive(s)
  /\ s.kind[MAIN] = "thread" /\ s.kind[REGISTRY] = "table" /\ s.kind[l] = "thread"

\* Which objects can have which color.
Colored(s) ==
  \A o \in Used(s) :
    /\ s.marked[o] = BLACK =>
         s.kind[o] \in {"table", "closure", "udata"} \/ (s.kind[o] = "upvalue" /\ s.owner[o] = o)
    /\ s.marked[o] = GRAY =>
         s.kind[o] \in Traversed \cup {"string"} \/ (s.kind[o] = "upvalue" /\ s.owner[o] # o)

\* Each udata is finalized once, and before it can die.
Books(s) ==
  /\ s.lost = {}
  /\ s.finalized \subseteq Of(s, {"udata"})
  /\ s.tmudata \cup s.ran = s.finalized
  /\ s.tmudata \cap s.ran = {}
  /\ \A u \in Of(s, {"udata"}) : isdead(s, u) => u \in s.finalized

MarkStates == {"propagate"} \cup Atomic

Late(s) == s.state \in {"again", "saved"}

Done(s, o) == \A v \in Strong(s, o) : ~iswhite(s, v)

\* An object that was marked: its references are too, or it will be traversed.
Fine(s, o) ==
  /\ s.marked[o] = BLACK => Done(s, o)
  /\ s.marked[o] = GRAY =>
       /\ s.kind[o] \in {"table", "closure"} =>
            o \in s.gray \/ (o \in s.grayagain /\ ~Late(s))
       /\ s.kind[o] = "thread" =>
            o \in s.gray \/ (o \in s.grayagain /\ (Late(s) => Done(s, o)))
       /\ s.kind[o] \in Weak =>
            o \in s.gray \/ (o \in s.weak /\ (s.state \in {"weak again", "again", "saved"} => Done(s, o)))
       /\ s.kind[o] = "upvalue" => (s.state \in Atomic => Done(s, o))

\* What has been marked by then.
Roots(s, l) ==
  {MAIN, REGISTRY} \cup {x \in {l} : s.state \in {"weak again", "again", "saved"}}
  \cup {u \in s.tmudata : s.state = "saved"}

\* The lists of gray objects have none in common.
Apart(s) == s.gray \cap (s.grayagain \cup s.weak) = {} /\ s.grayagain \cap s.weak = {}

Marking(s, l, exempt) ==
  /\ \A o \in Used(s) : ~isdead(s, o)
  /\ \A o \in Used(s) \ exempt : o \notin s.tmudata \/ s.state = "saved" => Fine(s, o)
  /\ \A o \in s.gray \cup s.grayagain \cup s.weak : s.kind[o] \in Traversed /\ s.marked[o] = GRAY
  /\ \A o \in s.weak : s.kind[o] \in Weak
  /\ Apart(s)
  /\ \A o \in Roots(s, l) \ exempt : ~iswhite(s, o)
  /\ s.state = "saved" => \A u \in Of(s, {"udata"}) : iswhite(s, u) => u \in s.finalized

\* What the sweep will still come to.
Pending(s) ==
  s.unswept \cup {o \in All : s.state = "sweepstring" /\ s.kind[o] = "string"}
  \cup {uv \in OpenUpvals(s) : s.owner[uv] \in s.unswept}

Sweeping(s) ==
  /\ \A o \in (Used(s) \ s.tmudata) \ Pending(s) : s.marked[o] = s.white
  /\ s.unswept \subseteq Listed(s)

Resting(s) == \A o \in Used(s) \ s.tmudata : s.marked[o] = s.white

Phase(s, l, exempt) ==
  /\ s.state \in MarkStates => Marking(s, l, exempt)
  /\ s.state \in {"sweepstring", "sweep"} => Sweeping(s)
  /\ s.state \in {"pause", "finalize"} => Resting(s)

Inv(s, l, exempt) ==
  /\ s \in State /\ l \in All
  /\ Linkage(s, l) /\ Colored(s) /\ Books(s) /\ Phase(s, l, exempt)

IInv ==
  /\ full \in {"no", "sweep", "mark"}
  /\ g \in State /\ g.lost = {}
  /\ g.state # "closed" => Inv(g, L, {})
  /\ full = "sweep" => g.state \in {"sweepstring", "sweep", "finalize"}

-----------------------------------------------------------------------------
(* States that differ in a few fields *)

SameHeap(s, t) ==
  t.kind = s.kind /\ t.refs = s.refs /\ t.owner = s.owner /\ t.level = s.level

SameLists(s, t) == t.gray = s.gray /\ t.grayagain = s.grayagain /\ t.weak = s.weak

SameFates(s, t) ==
  t.tmudata = s.tmudata /\ t.finalized = s.finalized /\ t.ran = s.ran /\ t.lost = s.lost

SamePhase(s, t) == t.white = s.white /\ t.state = s.state /\ t.unswept = s.unswept

\* t is s with the colors of some objects changed.
Painted(s, t, S, color) ==
  /\ t \in State /\ SameHeap(s, t) /\ SameLists(s, t) /\ SameFates(s, t) /\ SamePhase(s, t)
  /\ t.marked = [o \in All |-> IF o \in S THEN color ELSE s.marked[o]]

LEMMA PaintIs ==
  ASSUME NEW s \in State, NEW S, NEW color \in 0 .. 3
  PROVE  Painted(s, Paint(s, S, color), S, color)
<1> DEFINE m == [o \in All |-> IF o \in S THEN color ELSE s.marked[o]]
<1>1. m \in [All -> 0 .. 3]
  BY DEF State
<1>2. Paint(s, S, color) = [s EXCEPT !.marked = m]
  BY DEF Paint, State
<1> HIDE DEF m
<1>3. [s EXCEPT !.marked = m] \in State
  BY <1>1 DEF State
<1>4. SameHeap(s, [s EXCEPT !.marked = m]) /\ SameLists(s, [s EXCEPT !.marked = m])
  BY DEF State, SameHeap, SameLists
<1>5. SameFates(s, [s EXCEPT !.marked = m]) /\ SamePhase(s, [s EXCEPT !.marked = m])
  BY DEF State, SameFates, SamePhase
<1>6. [s EXCEPT !.marked = m].marked = m
  BY DEF State
<1> QED
  BY <1>2, <1>3, <1>4, <1>5, <1>6 DEF Painted, m

LEMMA WhiteIs ==
  ASSUME NEW s \in State, NEW S
  PROVE  Painted(s, makewhite(s, S), S, s.white)
BY PaintIs DEF makewhite, State


LEMMA Numbers == none \notin All /\ All \subseteq Nat /\ MAIN # REGISTRY /\ {MAIN, REGISTRY} \subseteq All
BY ProgramsAssumption DEF All, none, MAIN, REGISTRY

LEMMA ColorsDiffer == GRAY = 2 /\ BLACK = 3 /\ GRAY # BLACK
BY DEF GRAY, BLACK

-----------------------------------------------------------------------------
(* Marking *)

\* What is true of an object as soon as it is marked.
JustMarked(t, o) ==
  /\ o \in Used(t)
  /\ t.marked[o] = IF t.kind[o] = "udata" \/ (t.kind[o] = "upvalue" /\ t.owner[o] = o) THEN BLACK ELSE GRAY
  /\ t.kind[o] \in {"udata", "upvalue"} => Done(t, o)
  /\ t.kind[o] \in Traversed => o \in t.gray

\* t is s with more objects marked.
Marked(s, t) ==
  /\ t \in State /\ SameHeap(s, t) /\ SameFates(s, t) /\ SamePhase(s, t)
  /\ t.grayagain = s.grayagain /\ t.weak = s.weak
  /\ \A o \in All : ~iswhite(s, o) => t.marked[o] = s.marked[o]
  /\ \A o \in All : iswhite(t, o) => t.marked[o] = s.marked[o]
  /\ \A o \in All : iswhite(s, o) /\ ~iswhite(t, o) => JustMarked(t, o)
  /\ s.gray \subseteq t.gray
  /\ \A o \in t.gray \ s.gray : iswhite(s, o) /\ ~iswhite(t, o) /\ s.kind[o] \in Traversed

\* The heap hangs together, and nothing in it is dead.
Whole(s) ==
  /\ \A o \in All : Owned(s, o)
  /\ \A o \in Used(s) : Wired(s, o, Used(s))

LEMMA StrongIsSame ==
  ASSUME NEW s, NEW t, SameHeap(s, t), NEW o
  PROVE  Strong(t, o) = Strong(s, o) /\ Value(t, o) = Value(s, o) /\ Leads(t, o) = Leads(s, o)
BY DEF Strong, Value, Leads, SameHeap

LEMMA SameWired ==
  ASSUME NEW s, NEW t, SameHeap(s, t), NEW o, NEW S, Wired(s, o, S)
  PROVE  Wired(t, o, S)
BY StrongIsSame DEF Wired, SameHeap

LEMMA MarkobjectMarks ==
  ASSUME NEW s \in State, NEW S, S \subseteq Used(s) \cup {none}, Whole(s)
  PROVE  /\ Marked(s, markobject(s, S))
         /\ \A o \in S \ {none} : ~iswhite(markobject(s, S), o)
<1> DEFINE found == Whites(s, S)
           values == found \cup Whites(s, {Value(s, uv) : uv \in found \cap Of(s, {"upvalue"})})
           marks == values \cup Whites(s, {s.refs[u][1] : u \in values \cap Of(s, {"udata"})})
           black == (marks \cap Of(s, {"udata", "upvalue"})) \ OpenUpvals(s)
           p == Paint(s, marks, GRAY)
           q == Paint(p, black, BLACK)
           gray == q.gray \cup (marks \cap Of(s, Traversed))
           t == [q EXCEPT !.gray = gray]
<1>1. markobject(s, S) = t
  BY DEF markobject
<1>2. \A o \in found : o \in Used(s) /\ iswhite(s, o)
  BY DEF Whites
<1>3. \A o \in values \ found : o \in Used(s) /\ iswhite(s, o) /\ s.kind[o] # "upvalue"
  BY <1>2 DEF Whites, Whole, Wired, Leads, Of
<1>4. \A o \in marks \ values : o \in Used(s) /\ iswhite(s, o) /\ s.kind[o] \in Tables
  <2> SUFFICES ASSUME NEW u \in values \cap Of(s, {"udata"}), s.refs[u][1] # none, iswhite(s, s.refs[u][1])
               PROVE  s.refs[u][1] \in Used(s) /\ s.kind[s.refs[u][1]] \in Tables
    BY DEF Whites
  <2> QED
    BY <1>2, <1>3 DEF Whole, Wired, Leads, Of
<1>5. \A o \in marks : o \in Used(s) /\ iswhite(s, o)
  BY <1>2, <1>3, <1>4
<1>6. \A uv \in marks : s.kind[uv] = "upvalue" =>
        \A v \in Strong(s, uv) : iswhite(s, v) => v \in marks
  <2> SUFFICES ASSUME NEW uv \in marks, s.kind[uv] = "upvalue",
                      NEW v \in Strong(s, uv), iswhite(s, v)
               PROVE  v \in marks
    OBVIOUS
  <2>1. uv \in found
    BY <1>3, <1>4 DEF Tables, Weak
  <2>2. v = Value(s, uv) /\ v # none
    BY DEF Strong
  <2>3. uv \in found \cap Of(s, {"upvalue"})
    BY <2>1, <1>2 DEF Of, Used
  <2> QED
    BY <2>2, <2>3 DEF Whites
<1>7. \A u \in marks : s.kind[u] = "udata" =>
        \A v \in Strong(s, u) : iswhite(s, v) => v \in marks
  <2> SUFFICES ASSUME NEW u \in marks, s.kind[u] = "udata",
                      NEW v \in Strong(s, u), iswhite(s, v)
               PROVE  v \in marks
    OBVIOUS
  <2>1. u \in values /\ u \in Used(s)
    BY <1>4, <1>5 DEF Tables, Weak
  <2>2. v = s.refs[u][1] /\ v # none
    BY <2>1 DEF Strong, Whole, Wired
  <2>3. u \in values \cap Of(s, {"udata"})
    BY <2>1 DEF Of, Used
  <2> QED
    BY <2>2, <2>3 DEF Whites
<1>8. \A o \in S \ {none} : iswhite(s, o) => o \in marks
  BY DEF Whites
<1> HIDE DEF found, values, marks
<1>9. black \subseteq marks /\ marks \subseteq All
  BY <1>5 DEF Used
<1>10. Painted(s, p, marks, GRAY) /\ Painted(p, q, black, BLACK)
  <2> GRAY \in 0 .. 3 /\ BLACK \in 0 .. 3
    BY ColorsDiffer
  <2>1. Painted(s, p, marks, GRAY)
    BY PaintIs
  <2> HIDE DEF p, black
  <2>2. p \in State
    BY <2>1 DEF Painted
  <2> QED
    BY <2>1, <2>2, PaintIs
<1> HIDE DEF p, q, black
<1>11. q \in State /\ gray \in SUBSET All /\ q.gray = s.gray
  BY <1>9, <1>10 DEF Painted, State, SameLists
<1> HIDE DEF gray
<1>12. /\ t \in State /\ t.gray = gray /\ t.marked = q.marked
       /\ SameHeap(q, t) /\ SameFates(q, t) /\ SamePhase(q, t) /\ t.grayagain = q.grayagain /\ t.weak = q.weak
  BY <1>11 DEF State, SameHeap, SameFates, SamePhase
<1> HIDE DEF t
<1>13. /\ SameHeap(s, t) /\ SameFates(s, t) /\ SamePhase(s, t)
       /\ t.grayagain = s.grayagain /\ t.weak = s.weak
  BY <1>10, <1>12 DEF Painted, SameHeap, SameFates, SamePhase, SameLists
<1>14. \A o \in All : t.marked[o] = IF o \in black THEN BLACK ELSE IF o \in marks THEN GRAY ELSE s.marked[o]
  BY <1>10, <1>12 DEF Painted
<1>15. \A o \in All : iswhite(t, o) <=> iswhite(s, o) /\ o \notin marks
  BY <1>5, <1>9, <1>14, ColorsDiffer DEF iswhite
<1>16. ASSUME NEW o \in All, iswhite(s, o), ~iswhite(t, o)
       PROVE  JustMarked(t, o)
  <2>1. o \in marks
    BY <1>15, <1>16
  <2>2. o \in Used(t)
    BY <2>1, <1>5, <1>13 DEF Used, SameHeap
  <2>3. t.marked[o] = IF t.kind[o] = "udata" \/ (t.kind[o] = "upvalue" /\ t.owner[o] = o) THEN BLACK ELSE GRAY
    <3>1. o \in black <=> (s.kind[o] \in {"udata", "upvalue"} /\ s.owner[o] = o)
      BY <2>1, <1>5 DEF black, Of, OpenUpvals
    <3>2. s.kind[o] = "udata" => s.owner[o] = o
      BY DEF Whole, Owned
    <3> QED
      BY <2>1, <3>1, <3>2, <1>13, <1>14 DEF SameHeap
  <2>4. ASSUME t.kind[o] \in {"udata", "upvalue"}
        PROVE  Done(t, o)
    <3>1. s.kind[o] \in {"udata", "upvalue"} /\ Strong(t, o) = Strong(s, o)
      BY <2>4, <1>13, StrongIsSame DEF SameHeap
    <3>2. \A v \in Strong(s, o) : v \in All
      <4>1. Strong(s, o) \subseteq Leads(s, o)
        BY <3>1 DEF Strong, Leads
      <4>2. o \in Used(s)
        BY <2>1, <1>5
      <4> QED
        BY <4>1, <4>2 DEF Whole, Wired, Used
    <3>3. \A v \in Strong(s, o) : iswhite(s, v) => v \in marks
      BY <2>1, <3>1, <1>6, <1>7
    <3> QED
      BY <3>1, <3>2, <3>3, <1>15 DEF Done
  <2>5. t.kind[o] \in Traversed => o \in t.gray
    BY <2>1, <1>12, <1>13 DEF gray, Of, SameHeap
  <2> QED
    BY <2>2, <2>3, <2>4, <2>5 DEF JustMarked
<1>17. /\ \A o \in All : ~iswhite(s, o) => t.marked[o] = s.marked[o]
       /\ \A o \in All : iswhite(t, o) => t.marked[o] = s.marked[o]
  BY <1>5, <1>9, <1>14, <1>15
<1>18. /\ s.gray \subseteq t.gray
       /\ \A o \in t.gray \ s.gray : iswhite(s, o) /\ ~iswhite(t, o) /\ s.kind[o] \in Traversed
  BY <1>5, <1>9, <1>11, <1>12, <1>15 DEF gray, Of
<1>19. Marked(s, t)
  BY <1>12, <1>13, <1>16, <1>17, <1>18 DEF Marked
<1>20. \A o \in S \ {none} : ~iswhite(t, o)
  BY <1>8, <1>15 DEF Used
<1> QED
  BY <1>1, <1>19, <1>20


LEMMA KeepsFine ==
  ASSUME NEW s, NEW t, Marked(s, t), NEW o \in All, Fine(s, o),
         Strong(s, o) \subseteq All
  PROVE  Fine(t, o)
<1>1. /\ SameHeap(s, t) /\ SamePhase(s, t) /\ t.grayagain = s.grayagain /\ t.weak = s.weak
      /\ s.gray \subseteq t.gray
  BY DEF Marked
<1>2. Done(s, o) => Done(t, o)
  <2>1. \A v \in All : ~iswhite(s, v) => ~iswhite(t, v)
    BY DEF Marked, iswhite
  <2> QED
    BY <1>1, <2>1, StrongIsSame DEF Done
<1>3. CASE iswhite(s, o) /\ ~iswhite(t, o)
  <2>1. JustMarked(t, o)
    BY <1>3 DEF Marked
  <2> QED
    BY <2>1, ColorsDiffer DEF JustMarked, Fine, Traversed, Tables, Weak
<1>4. CASE t.marked[o] = s.marked[o]
  BY <1>1, <1>2, <1>4 DEF Fine, SameHeap, SamePhase, Late
<1> QED
  BY <1>3, <1>4 DEF Marked

LEMMA SameAlive ==
  ASSUME NEW s, NEW t, SameHeap(s, t), t.white = s.white,
         \A o \in Used(s) : isdead(t, o) <=> isdead(s, o)
  PROVE  Alive(t) = Alive(s)
BY DEF Alive, Used, SameHeap

LEMMA SameLinkage ==
  ASSUME NEW s, NEW t, NEW l, Linkage(s, l), SameHeap(s, t), Alive(t) = Alive(s), t.tmudata = s.tmudata
  PROVE  Linkage(t, l)
<1>1. \A o \in All : Owned(t, o)
  BY DEF Linkage, SameHeap, Owned
<1>2. \A o \in Alive(t) : Wired(t, o, Alive(t))
  BY StrongIsSame DEF Linkage, SameHeap, Wired
<1> QED
  BY <1>1, <1>2 DEF Linkage, SameHeap

\* In a marking state nothing is dead.
LEMMA AllAlive ==
  ASSUME NEW s, NEW l, NEW exempt, Inv(s, l, exempt), s.state \in MarkStates
  PROVE  /\ Alive(s) = Used(s) /\ Whole(s)
         /\ \A o \in Used(s) : ~isdead(s, o) /\ Strong(s, o) \subseteq Used(s)
<1>1. \A o \in Used(s) : ~isdead(s, o)
  BY DEF Inv, Phase, Marking
<1>2. Alive(s) = Used(s)
  BY <1>1 DEF Alive
<1>3. Whole(s)
  BY <1>2 DEF Inv, Linkage, Whole
<1>4. ASSUME NEW o \in Used(s)
      PROVE  Strong(s, o) \subseteq Used(s)
  <2>1. {REGISTRY} \cup Leads(s, o) \subseteq Used(s)
    BY <1>2, <1>3 DEF Inv, Linkage, Whole, Wired
  <2> QED
    BY <2>1 DEF Strong, Leads
<1> QED
  BY <1>1, <1>2, <1>3, <1>4

LEMMA MarkedKeeps ==
  ASSUME NEW s, NEW t, NEW l, NEW exempt, Inv(s, l, exempt), s.state \in MarkStates, Marked(s, t)
  PROVE  Inv(t, l, exempt)
<1>1. /\ t \in State /\ s \in State
      /\ SameHeap(s, t) /\ SameFates(s, t) /\ SamePhase(s, t) /\ t.grayagain = s.grayagain /\ t.weak = s.weak
  BY DEF Marked, Inv
<1>2. Used(t) = Used(s) /\ \A kinds : Of(t, kinds) = Of(s, kinds)
  BY <1>1 DEF Used, Of, SameHeap
<1>3. \A o \in Used(s) : ~isdead(t, o)
  <2> SUFFICES ASSUME NEW o \in Used(s) PROVE ~isdead(t, o)
    OBVIOUS
  <2>1. ~isdead(s, o) /\ o \in All
    BY AllAlive DEF Used
  <2>2. isdead(t, o) => iswhite(t, o)
    BY <1>1, <2>1 DEF isdead, iswhite, State
  <2> QED
    BY <1>1, <2>1, <2>2 DEF Marked, isdead, SamePhase
<1>4. Alive(t) = Alive(s)
  BY <1>2, <1>3, AllAlive DEF Alive
<1>5. Linkage(t, l)
  BY <1>1, <1>4, SameLinkage DEF Inv, SameFates
<1>6. \A o \in All : iswhite(s, o) /\ ~iswhite(t, o) => JustMarked(t, o)
  BY DEF Marked
<1>7. Colored(t)
  <2> SUFFICES ASSUME NEW o \in Used(t)
               PROVE  /\ t.marked[o] = BLACK =>
                           t.kind[o] \in {"table", "closure", "udata"} \/ (t.kind[o] = "upvalue" /\ t.owner[o] = o)
                      /\ t.marked[o] = GRAY =>
                           t.kind[o] \in Traversed \cup {"string"} \/ (t.kind[o] = "upvalue" /\ t.owner[o] # o)
    BY DEF Colored
  <2>1. o \in All /\ o \in Used(s)
    BY <1>2 DEF Used
  <2>2. CASE t.marked[o] = s.marked[o]
    BY <1>1, <2>1, <2>2 DEF Inv, Colored, SameHeap
  <2>3. CASE JustMarked(t, o)
    BY <1>1, <2>3, ColorsDiffer DEF JustMarked, Used, State, Kinds
  <2> QED
    BY <1>6, <2>1, <2>2, <2>3 DEF Marked
<1>8. Books(t)
  BY <1>1, <1>2, <1>3 DEF Inv, Books, SameFates, Of, Used
<1>9. \A o \in All : ~iswhite(s, o) => ~iswhite(t, o)
  BY DEF Marked, iswhite
<1>10. Marking(s, l, exempt) /\ l \in All
  BY DEF Inv, Phase
<1>11. Marking(t, l, exempt)
  <2>1. \A o \in Used(t) \ exempt : o \notin t.tmudata \/ t.state = "saved" => Fine(t, o)
    <3> SUFFICES ASSUME NEW o \in Used(t), o \notin exempt, o \notin t.tmudata \/ t.state = "saved"
                 PROVE  Fine(t, o)
      OBVIOUS
    <3>1. Fine(s, o)
      BY <1>1, <1>2, <1>10 DEF Marking, SameFates, SamePhase
    <3>2. o \in All /\ Strong(s, o) \subseteq All
      BY <1>2, AllAlive DEF Used
    <3> QED
      BY <3>1, <3>2, KeepsFine
  <2>2. \A o \in t.gray \cup t.grayagain \cup t.weak : t.kind[o] \in Traversed /\ t.marked[o] = GRAY
    <3> SUFFICES ASSUME NEW o \in t.gray \cup t.grayagain \cup t.weak
                 PROVE  t.kind[o] \in Traversed /\ t.marked[o] = GRAY
      OBVIOUS
    <3>1. o \in All
      BY <1>1 DEF State
    <3>2. CASE o \in s.gray \cup s.grayagain \cup s.weak
      <4>1. s.kind[o] \in Traversed /\ s.marked[o] = GRAY
        BY <1>10, <3>2 DEF Marking
      <4> QED
        BY <1>1, <3>1, <4>1, ColorsDiffer DEF Marked, iswhite, SameHeap
    <3>3. CASE o \in t.gray \ s.gray
      <4>1. iswhite(s, o) /\ ~iswhite(t, o) /\ t.kind[o] \in Traversed
        BY <1>1, <3>3 DEF Marked, SameHeap
      <4>2. JustMarked(t, o)
        BY <1>6, <3>1, <4>1
      <4> QED
        BY <4>1, <4>2 DEF JustMarked, Traversed, Tables, Weak
    <3> QED
      BY <1>1, <3>2, <3>3
  <2>3. (\A o \in t.weak : t.kind[o] \in Weak) /\ Apart(t)
    <3>1. \A o \in s.grayagain \cup s.weak : ~iswhite(s, o)
      BY <1>10, ColorsDiffer DEF Marking, iswhite
    <3> QED
      BY <1>1, <1>10, <3>1 DEF Marking, SameHeap, Marked, Apart
  <2>4. \A o \in Roots(t, l) \ exempt : ~iswhite(t, o)
    <3>1. Roots(t, l) = Roots(s, l) /\ Roots(s, l) \subseteq All
      BY <1>1, <1>10, Numbers DEF Roots, SamePhase, SameFates, State
    <3> QED
      BY <1>9, <1>10, <3>1 DEF Marking
  <2>5. t.state = "saved" => \A u \in Of(t, {"udata"}) : iswhite(t, u) => u \in t.finalized
    BY <1>1, <1>2, <1>9, <1>10 DEF Marking, SamePhase, SameFates, State, Of
  <2> QED
    BY <1>2, <1>3, <2>1, <2>2, <2>3, <2>4, <2>5 DEF Marking
<1>12. t.state \in MarkStates
  BY <1>1 DEF SamePhase
<1>13. Phase(t, l, exempt)
  BY <1>11, <1>12 DEF Phase, MarkStates, Atomic
<1> QED
  BY <1>1, <1>5, <1>7, <1>8, <1>13 DEF Inv


-----------------------------------------------------------------------------
(* What the program changes *)

LEMMA Repaired ==
  ASSUME NEW s, NEW l, NEW exempt, Inv(s, l, exempt),
         \A o \in exempt : s.state \in MarkStates =>
           (o \in Used(s) => Fine(s, o)) /\ (o \in Roots(s, l) => ~iswhite(s, o))
  PROVE  Inv(s, l, {})
BY DEF Inv, Phase, Marking

SameRest(s, t) == t.marked = s.marked /\ SameLists(s, t) /\ SameFates(s, t) /\ SamePhase(s, t)

LEMMA SameFine ==
  ASSUME NEW s, NEW t, SameRest(s, t), NEW o, t.kind[o] = s.kind[o],
         s.state \notin Atomic, s.marked[o] = BLACK => Strong(t, o) = Strong(s, o), Fine(s, o)
  PROVE  Fine(t, o)
<1>1. SameLists(s, t) /\ SamePhase(s, t) /\ \A v : iswhite(t, v) <=> iswhite(s, v)
  BY DEF SameRest, iswhite
<1>2. s.marked[o] = BLACK => (Done(t, o) <=> Done(s, o))
  BY <1>1 DEF Done
<1>3. ~Late(s) /\ ~Late(t) /\ t.state \notin Atomic
      /\ s.state \notin {"weak again", "again", "saved"} /\ t.state \notin {"weak again", "again", "saved"}
  BY <1>1 DEF Late, Atomic, SamePhase
<1> QED
  BY <1>1, <1>2, <1>3 DEF Fine, SameRest, SameLists

\* An object gets other references.
LEMMA StoreKeeps ==
  ASSUME NEW s, NEW t \in State, NEW l, Inv(s, l, {}), s.state \notin Atomic,
         NEW o \in Used(s), NEW r \in [1 .. 2 -> All \cup {none}],
         SameRest(s, t), t.kind = s.kind, t.owner = s.owner, t.level = s.level,
         t.refs = [s.refs EXCEPT ![o] = r],
         s.owner[o] = o, s.kind[o] \in Tables \cup {"thread", "udata", "upvalue"},
         \A i \in 1 .. 2 : \/ r[i] \in {none, s.refs[o][i]}
                           \/ r[i] \in Alive(s) /\ s.kind[r[i]] # "upvalue",
         s.kind[o] = "udata" => r[1] # none /\ s.kind[r[1]] \in Tables,
         s.kind[o] \in {"udata", "upvalue"} => r[2] = none,
         s.kind[o] \in Weak /\ r[2] = none => r[1] = none
  PROVE  /\ Inv(t, l, {o})
         /\ s.marked[o] # BLACK => Inv(t, l, {})
<1>1. s \in State /\ Linkage(s, l) /\ Colored(s) /\ Books(s) /\ Phase(s, l, {}) /\ l \in All
  BY DEF Inv
<1>2. o \in All /\ Used(t) = Used(s) /\ \A kinds : Of(t, kinds) = Of(s, kinds)
  BY DEF Used, Of
<1>3. Alive(t) = Alive(s)
  BY <1>2 DEF Alive, isdead, SameRest, SamePhase
<1>4. \A x \in All : t.refs[x] = IF x = o THEN r ELSE s.refs[x]
  BY <1>1, <1>2 DEF State
<1>5. \A x \in All : Owned(t, x)
  <2>1. s.kind[o] \notin {"free", "string"}
    BY DEF Tables, Weak
  <2> QED
    BY <1>1, <1>4, <2>1 DEF Linkage, Owned, State
<1>6. \A x \in Alive(t) : Wired(t, x, Alive(t))
  <2> SUFFICES ASSUME NEW x \in Alive(s)
               PROVE  Wired(t, x, Alive(s))
    BY <1>3
  <2>1. Wired(s, x, Alive(s)) /\ Owned(s, x) /\ x \in All /\ s.owner[x] \in All /\ s.level[x] \in 1 .. 2
    BY <1>1 DEF Linkage, Alive, Used, State
  <2>2. Value(t, x) = IF s.owner[x] = o THEN r[s.level[x]] ELSE Value(s, x)
    BY <1>4, <2>1 DEF Value
  <2>3. \A v \in Leads(t, x) : v \in Leads(s, x) \/ (v \in Alive(s) /\ s.kind[v] # "upvalue")
    <3>1. o \in All /\ s.level[x] \in 1 .. 2
      BY <1>2, <2>1
    <3>2. s.owner[x] = o =>
            r[s.level[x]] \in {none, Value(s, x)} \/ (r[s.level[x]] \in Alive(s) /\ s.kind[r[s.level[x]]] # "upvalue")
      BY <3>1 DEF Value
    <3> QED
      BY <1>4, <2>1, <2>2, <3>2 DEF Leads
  <2>4. CASE x = o
    <3>1. Leads(t, o) = {r[1], r[2]} \ {none}
      BY <1>4, <2>1, <2>2, <2>4 DEF Leads, Owned
    <3>2. t.refs[o] = r /\ s.kind[o] \notin {"closure", "string"}
      BY <1>4, <2>1, <2>4 DEF Tables, Weak
    <3>3. \A v \in Leads(t, o) : v \in Alive(s) /\ s.kind[v] # "upvalue"
      BY <2>1, <2>3, <2>4, <3>2 DEF Wired
    <3> QED
      BY <2>4, <3>2, <3>3 DEF Wired
  <2>5. CASE x # o
    <3>1. t.refs[x] = s.refs[x]
      BY <1>4, <2>1, <2>5
    <3>2. s.kind[x] # "closure" => \A v \in Leads(t, x) : s.kind[v] # "upvalue"
      BY <2>1, <2>3 DEF Wired
    <3> QED
      BY <2>1, <2>3, <3>1, <3>2 DEF Wired
  <2> QED
    BY <2>4, <2>5
<1>7. Linkage(t, l)
  BY <1>1, <1>3, <1>5, <1>6 DEF Linkage, SameRest, SameFates
<1>8. Colored(t) /\ Books(t)
  BY <1>1, <1>2 DEF Colored, Books, SameRest, SameFates, SamePhase, isdead
<1>9. ASSUME NEW x \in Used(s), x # o \/ s.marked[o] # BLACK, Fine(s, x)
      PROVE  Fine(t, x)
  <2>1. x \in All
    BY DEF Used
  <2>2. s.marked[x] = BLACK => Strong(t, x) = Strong(s, x)
    <3> SUFFICES ASSUME s.marked[x] = BLACK PROVE Strong(t, x) = Strong(s, x)
      OBVIOUS
    <3>1. x # o /\ t.refs[x] = s.refs[x]
      BY <1>4, <1>9, <2>1
    <3>2. s.kind[x] = "upvalue" => s.owner[x] = x
      BY <1>1 DEF Colored
    <3> QED
      BY <3>1, <3>2 DEF Strong, Value
  <2> QED
    BY <1>9, <2>2, SameFine
<1>10. ASSUME NEW exempt \in {{}, {o}}, s.marked[o] # BLACK \/ exempt = {o}
       PROVE  Phase(t, l, exempt)
  <2>1. t.state = s.state
    BY DEF SameRest, SamePhase
  <2>2. CASE s.state \in MarkStates
    <3>1. Marking(s, l, {})
      BY <1>1, <2>2 DEF Phase
    <3>2. \A x \in Used(t) \ exempt : x \notin t.tmudata \/ t.state = "saved" => Fine(t, x)
      BY <1>2, <1>9, <1>10, <3>1 DEF Marking, SameRest, SameFates, SamePhase
    <3>3. Roots(t, l) = Roots(s, l)
      BY DEF Roots, SameRest, SameFates, SamePhase
    <3>4. Marking(t, l, exempt)
      BY <1>2, <3>1, <3>2, <3>3 DEF Marking, SameRest, SameLists, SameFates, SamePhase, isdead, iswhite, Apart
    <3> QED
      BY <2>1, <2>2, <3>4 DEF Phase, MarkStates, Atomic
  <2>3. CASE s.state \in {"sweepstring", "sweep"}
    <3>1. Sweeping(s) => Sweeping(t)
      BY <1>2 DEF Sweeping, SameRest, SameFates, SamePhase, Pending, Listed, OpenUpvals
    <3> QED
      BY <1>1, <2>1, <2>3, <3>1 DEF Phase, MarkStates, Atomic
  <2>4. CASE s.state \notin MarkStates \cup {"sweepstring", "sweep"}
    <3>1. Resting(s) => Resting(t)
      BY <1>2 DEF Resting, SameRest, SameFates, SamePhase
    <3> QED
      BY <1>1, <2>1, <2>4, <3>1 DEF Phase
  <2> QED
    BY <2>2, <2>3, <2>4
<1>11. Phase(t, l, {o})
  BY <1>10
<1>12. s.marked[o] # BLACK => Phase(t, l, {})
  BY <1>10
<1> QED
  BY <1>1, <1>7, <1>8, <1>11, <1>12 DEF Inv

\* o is a new object of t: it is white, and refers to what is alive in s.
IsNew(s, t, l, o, k, r, owner, level) ==
  /\ t \in State /\ o \in All \ Used(s) /\ k \in Kinds \ {"free"} /\ r \in [1 .. 2 -> All \cup {none}]
  /\ owner \in All /\ level \in 1 .. 2
  /\ t.kind = [s.kind EXCEPT ![o] = k] /\ t.refs = [s.refs EXCEPT ![o] = r]
  /\ t.marked = [s.marked EXCEPT ![o] = s.white]
  /\ t.owner = [s.owner EXCEPT ![o] = owner] /\ t.level = [s.level EXCEPT ![o] = level]
  /\ SameLists(s, t) /\ SameFates(s, t) /\ SamePhase(s, t)
  /\ IF owner = o THEN level = 1 ELSE k = "upvalue" /\ owner = l /\ r = Pair(none, none)
  /\ \A i \in 1 .. 2 : r[i] # none => r[i] \in Alive(s) /\ (s.kind[r[i]] = "upvalue" => k = "closure")
  /\ k = "closure" => r[1] # none /\ s.kind[r[1]] = "upvalue"
  /\ k = "udata" => r[1] # none /\ s.kind[r[1]] \in Tables
  /\ k \in {"closure", "udata", "upvalue"} => r[2] = none
  /\ k \in Weak /\ r[2] = none => r[1] = none
  /\ k = "string" => r = Pair(none, none)

LEMMA NewKeeps ==
  ASSUME NEW s, NEW t, NEW l, Inv(s, l, {}), s.state \notin Atomic,
         NEW o, NEW k, NEW r, NEW owner, NEW level, IsNew(s, t, l, o, k, r, owner, level)
  PROVE  Inv(t, l, {}) /\ Alive(t) = Alive(s) \cup {o}
<1> /\ t \in State /\ o \in All \ Used(s) /\ k \in Kinds \ {"free"} /\ r \in [1 .. 2 -> All \cup {none}]
    /\ owner \in All /\ level \in 1 .. 2
  BY DEF IsNew
<1> /\ t.kind = [s.kind EXCEPT ![o] = k] /\ t.refs = [s.refs EXCEPT ![o] = r]
    /\ t.marked = [s.marked EXCEPT ![o] = s.white]
    /\ t.owner = [s.owner EXCEPT ![o] = owner] /\ t.level = [s.level EXCEPT ![o] = level]
    /\ SameLists(s, t) /\ SameFates(s, t) /\ SamePhase(s, t)
  BY DEF IsNew
<1> /\ IF owner = o THEN level = 1 ELSE k = "upvalue" /\ owner = l /\ r = Pair(none, none)
    /\ \A i \in 1 .. 2 : r[i] # none => r[i] \in Alive(s) /\ (s.kind[r[i]] = "upvalue" => k = "closure")
    /\ k = "closure" => r[1] # none /\ s.kind[r[1]] = "upvalue"
    /\ k = "udata" => r[1] # none /\ s.kind[r[1]] \in Tables
    /\ k \in {"closure", "udata", "upvalue"} => r[2] = none
    /\ k \in Weak /\ r[2] = none => r[1] = none
    /\ k = "string" => r = Pair(none, none)
  BY DEF IsNew
<1>1. s \in State /\ Linkage(s, l) /\ Colored(s) /\ Books(s) /\ Phase(s, l, {}) /\ l \in All
  BY DEF Inv
<1>2. o \in All /\ s.kind[o] = "free"
  BY DEF Used
<1>3. /\ \A x \in All : t.kind[x] = IF x = o THEN k ELSE s.kind[x]
      /\ \A x \in All : t.refs[x] = IF x = o THEN r ELSE s.refs[x]
      /\ \A x \in All : t.marked[x] = IF x = o THEN s.white ELSE s.marked[x]
      /\ \A x \in All : t.owner[x] = IF x = o THEN owner ELSE s.owner[x]
      /\ \A x \in All : t.level[x] = IF x = o THEN level ELSE s.level[x]
  BY <1>1, <1>2 DEF State
<1>4. Used(t) = Used(s) \cup {o} /\ o \notin Used(s)
  BY <1>2, <1>3 DEF Used
<1>5. ~isdead(t, o) /\ iswhite(t, o) /\ \A x \in Used(s) : isdead(t, x) <=> isdead(s, x)
  BY <1>1, <1>2, <1>3, <1>4 DEF isdead, iswhite, SamePhase, State, Used
<1>6. Alive(t) = Alive(s) \cup {o}
  BY <1>4, <1>5 DEF Alive
<1>7. \A x \in All : s.owner[x] = x \/ s.kind[s.owner[x]] = "thread"
  BY <1>1 DEF Linkage, Owned
<1>8. \A x \in All \ {o} : s.owner[x] \in All \ {o} /\ s.level[x] \in 1 .. 2
  BY <1>1, <1>2, <1>7 DEF State
<1>9. \A x \in All \ {o} : Value(t, x) = Value(s, x) /\ Leads(t, x) = Leads(s, x) /\ Strong(t, x) = Strong(s, x)
  <2> SUFFICES ASSUME NEW x \in All, x # o
               PROVE  Value(t, x) = Value(s, x) /\ Leads(t, x) = Leads(s, x) /\ Strong(t, x) = Strong(s, x)
    OBVIOUS
  <2>1. t.kind[x] = s.kind[x] /\ t.refs[x] = s.refs[x]
    BY <1>3
  <2>2. Value(t, x) = Value(s, x)
    <3>1. s.owner[x] \in All /\ s.owner[x] # o
      BY <1>8
    <3> QED
      BY <1>3, <3>1 DEF Value
  <2> QED
    BY ZenonT(40), <2>1, <2>2 DEF Leads, Strong
<1>10. s.kind[l] = "thread" /\ l # o /\ l \in Alive(s)
  BY <1>1, <1>2 DEF Linkage
<1>11. Value(t, o) = r[1] \/ Value(t, o) \in Leads(s, l) \cup {none}
  <2>1. CASE owner = o
    BY <1>2, <1>3, <2>1 DEF Value
  <2>2. CASE owner = l
    <3>1. Value(t, o) = s.refs[l][level]
      BY <1>1, <1>2, <1>3, <1>10, <2>2 DEF Value
    <3>2. s.refs[l][level] \in {s.refs[l][1], s.refs[l][2]}
      OBVIOUS
    <3> QED
      BY <3>1, <3>2 DEF Leads
  <2> QED
    BY <2>1, <2>2
<1>12. \A x \in All : Owned(t, x)
  <2> SUFFICES ASSUME NEW x \in All PROVE Owned(t, x)
    OBVIOUS
  <2>1. Owned(s, x)
    BY <1>1 DEF Linkage
  <2>2. CASE x = o
    BY <1>3, <1>10, <2>2 DEF Owned
  <2>3. CASE x # o
    BY <1>3, <1>8, <2>1, <2>3 DEF Owned
  <2> QED
    BY <2>2, <2>3
<1>13. Leads(t, o) \subseteq Alive(s)
  <2>1. Leads(s, l) \subseteq Alive(s)
    BY <1>1, <1>10 DEF Linkage, Wired
  <2> QED
    BY <1>3, <1>11, <2>1 DEF Leads
<1>14. Wired(t, o, Alive(t))
  <2>1. t.refs[o] = r /\ t.kind[o] = k /\ \A v \in Alive(s) : t.kind[v] = s.kind[v]
    BY <1>3, <1>4 DEF Alive, Used
  <2>2. ASSUME k # "closure", NEW v \in Leads(t, o) PROVE t.kind[v] # "upvalue"
    <3>1. v \in Alive(s) /\ t.kind[v] = s.kind[v]
      BY <1>13, <2>1
    <3>2. CASE v \in {r[1], r[2]}
      BY <2>2, <3>1, <3>2, Numbers DEF Alive, Used
    <3>3. CASE v \in Leads(s, l)
      BY <1>1, <1>10, <3>1, <3>3 DEF Linkage, Wired
    <3> QED
      BY <1>11, <2>1, <3>2, <3>3 DEF Leads
  <2>3. r[1] # none => r[1] \in Alive(s) /\ t.kind[r[1]] = s.kind[r[1]]
    BY <2>1
  <2> QED
    BY <1>6, <1>13, <2>1, <2>2, <2>3 DEF Wired
<1>15. \A x \in Alive(s) : Wired(t, x, Alive(t))
  <2> SUFFICES ASSUME NEW x \in Alive(s) PROVE Wired(t, x, Alive(t))
    OBVIOUS
  <2>1. Wired(s, x, Alive(s)) /\ x \in All /\ x # o
    BY <1>1, <1>4 DEF Linkage, Alive, Used
  <2>2. \A v \in Leads(s, x) : t.kind[v] = s.kind[v]
    BY <1>3, <1>4, <2>1 DEF Wired, Alive, Used
  <2>3. s.refs[x][1] # none => s.refs[x][1] \in Leads(s, x)
    BY DEF Leads
  <2> QED
    BY <1>3, <1>6, <1>9, <2>1, <2>2, <2>3 DEF Wired
<1>16. Linkage(t, l)
  BY <1>1, <1>3, <1>4, <1>6, <1>12, <1>14, <1>15, Numbers DEF Linkage, SameFates, Alive, Used
<1>17. Colored(t)
  <2>1. t.marked[o] \notin {GRAY, BLACK}
    BY <1>5, ColorsDiffer DEF iswhite
  <2> QED
    BY <1>1, <1>3, <1>4, <2>1 DEF Colored, Used
<1>18. Books(t)
  <2>1. \A u \in Of(t, {"udata"}) : isdead(t, u) => u \in t.finalized
    BY <1>1, <1>3, <1>4, <1>5 DEF Books, SameFates, Of, Used
  <2>2. t.finalized \subseteq Of(t, {"udata"})
    BY <1>1, <1>2, <1>3 DEF Books, SameFates, Of
  <2> QED
    BY <1>1, <2>1, <2>2 DEF Books, SameFates
<1>19. ASSUME NEW x \in Used(s), s.state \in MarkStates, Fine(s, x) PROVE Fine(t, x)
  <2>1. x \in All \ {o}
    BY <1>4 DEF Used
  <2>2. Strong(s, x) \subseteq Used(s)
    BY <1>19, AllAlive
  <2>3. Done(s, x) <=> Done(t, x)
    BY <1>3, <1>4, <1>9, <2>1, <2>2 DEF Done, iswhite, Used
  <2> QED
    BY <1>3, <1>19, <2>1, <2>3 DEF Fine, SameLists, SamePhase, Late
<1>20. Phase(t, l, {})
  <2>1. t.state = s.state
    BY DEF SamePhase
  <2>2. CASE s.state \in MarkStates
    <3>1. Marking(s, l, {})
      BY <1>1, <2>2 DEF Phase
    <3>2. Fine(t, o)
      <4>1. t.marked[o] # GRAY /\ t.marked[o] # BLACK
        BY <1>5, ColorsDiffer DEF iswhite
      <4> QED
        BY <4>1 DEF Fine
    <3>3. \A x \in Used(t) \ {} : x \notin t.tmudata \/ t.state = "saved" => Fine(t, x)
      BY <1>4, <1>19, <2>2, <3>1, <3>2 DEF Marking, SameFates, SamePhase
    <3>4. \A x \in t.gray \cup t.grayagain \cup t.weak :
            t.kind[x] \in Traversed /\ t.marked[x] = GRAY /\ (x \in t.weak => t.kind[x] \in Weak)
      <4> SUFFICES ASSUME NEW x \in s.gray \cup s.grayagain \cup s.weak
                   PROVE  t.kind[x] \in Traversed /\ t.marked[x] = GRAY /\ (x \in s.weak => t.kind[x] \in Weak)
        BY DEF SameLists
      <4>1. s.kind[x] \in Traversed /\ s.marked[x] = GRAY /\ (x \in s.weak => s.kind[x] \in Weak) /\ x \in All
        BY <1>1, <3>1 DEF Marking, State
      <4>2. x # o
        BY <1>2, <4>1 DEF Traversed, Tables, Weak
      <4> QED
        BY <1>3, <4>1, <4>2
    <3>5. \A x \in Roots(t, l) : ~iswhite(t, x)
      <4>1. Roots(t, l) = {MAIN, REGISTRY} /\ Roots(s, l) = {MAIN, REGISTRY}
        BY <2>1, <2>2 DEF Roots, MarkStates
      <4>2. MAIN # o /\ REGISTRY # o
        BY <1>1, <1>2 DEF Linkage
      <4> QED
        BY <1>3, <3>1, <4>1, <4>2, Numbers DEF Marking, iswhite
    <3>6. t.state = "propagate" /\ Apart(t)
      BY <2>1, <2>2, <3>1 DEF MarkStates, Marking, SameLists, Apart
    <3> QED
      BY <1>4, <1>5, <2>1, <2>2, <3>1, <3>3, <3>4, <3>5, <3>6 DEF Marking, Phase, MarkStates, Atomic
  <2>3. CASE s.state \in {"sweepstring", "sweep"}
    <3>1. Sweeping(s)
      BY <1>1, <2>3 DEF Phase
    <3>2. s.unswept \subseteq Used(s) /\ s.tmudata \subseteq Used(s)
      BY <1>1, <3>1 DEF Sweeping, Listed, Linkage, Alive
    <3>3. Pending(s) \subseteq Pending(t)
      <4>1. s.owner[o] = o
        BY <1>1, <1>2 DEF Linkage, Owned
      <4>2. \A x \in OpenUpvals(s) : x \in OpenUpvals(t) /\ t.owner[x] = s.owner[x]
        BY <1>3, <4>1 DEF OpenUpvals
      <4>3. \A x \in All : s.kind[x] = "string" => t.kind[x] = "string"
        BY <1>2, <1>3
      <4> QED
        BY <4>2, <4>3 DEF Pending, SamePhase
    <3>4. t.unswept \subseteq Listed(t)
      BY <1>3, <1>4, <3>1, <3>2 DEF Sweeping, Listed, SamePhase, SameFates, OpenUpvals, Of, Used
    <3>5. \A x \in (Used(t) \ t.tmudata) \ Pending(t) : t.marked[x] = t.white
      BY <1>3, <1>4, <3>1, <3>3 DEF Sweeping, SamePhase, SameFates, Used
    <3> QED
      BY <2>1, <2>3, <3>4, <3>5 DEF Phase, Sweeping, MarkStates, Atomic
  <2>4. CASE s.state \notin MarkStates \cup {"sweepstring", "sweep"}
    <3>1. Resting(s) => Resting(t)
      BY <1>3, <1>4 DEF Resting, SameFates, SamePhase, Used
    <3> QED
      BY <1>1, <2>1, <2>4, <3>1 DEF Phase
  <2> QED
    BY <2>2, <2>3, <2>4
<1> QED
  BY <1>1, <1>6, <1>16, <1>17, <1>18, <1>20 DEF Inv

-----------------------------------------------------------------------------
(* What a sweep changes *)

LEMMA SameState ==
  ASSUME NEW s \in State, NEW t \in State, SameHeap(s, t), SameRest(s, t)
  PROVE  t = s
BY DEF State, SameHeap, SameRest, SameLists, SameFates, SamePhase

\* Objects become white, dead ones too.
LEMMA WhitenKeeps ==
  ASSUME NEW s, NEW t \in State, NEW l, Inv(s, l, {}), s.state \notin MarkStates,
         NEW S \in SUBSET Used(s),
         SameHeap(s, t), SameLists(s, t), SameFates(s, t), t.white = s.white, t.state = s.state,
         t.marked = [o \in All |-> IF o \in S THEN s.white ELSE s.marked[o]],
         t.unswept \subseteq s.unswept, s.unswept \ t.unswept \subseteq S,
         \A o \in S : Wired(s, o, Alive(s) \cup S),
         \A uv \in OpenUpvals(s) : s.owner[uv] \in s.unswept \ t.unswept => uv \in S \/ s.marked[uv] = s.white
  PROVE  Inv(t, l, {}) /\ Alive(t) = Alive(s) \cup S
<1>1. s \in State /\ Linkage(s, l) /\ Colored(s) /\ Books(s) /\ Phase(s, l, {}) /\ l \in All
  BY DEF Inv
<1>2. Used(t) = Used(s) /\ (\A kinds : Of(t, kinds) = Of(s, kinds)) /\ OpenUpvals(t) = OpenUpvals(s)
  BY DEF SameHeap, Used, Of, OpenUpvals
<1>3. \A o \in All : t.marked[o] = IF o \in S THEN s.white ELSE s.marked[o]
  OBVIOUS
<1>4. /\ \A o \in S : ~isdead(t, o)
      /\ \A o \in All \ S : isdead(t, o) <=> isdead(s, o)
  BY <1>1, <1>3 DEF isdead, State, Used
<1>5. Alive(t) = Alive(s) \cup S
  BY <1>2, <1>4 DEF Alive, Used
<1>6. \A o \in Alive(t) : Wired(t, o, Alive(t))
  <2> SUFFICES ASSUME NEW o \in Alive(s) \cup S
               PROVE  Wired(s, o, Alive(s) \cup S)
    BY <1>5, StrongIsSame DEF Wired, SameHeap
  <2> QED
    BY <1>1 DEF Linkage, Wired
<1>7. \A o \in All : Owned(t, o)
  BY <1>1 DEF Linkage, Owned, SameHeap
<1>8. Linkage(t, l)
  BY <1>1, <1>5, <1>6, <1>7 DEF Linkage, SameHeap, SameFates
<1>9. Colored(t)
  <2>1. s.white # GRAY /\ s.white # BLACK
    BY <1>1, ColorsDiffer DEF State
  <2> QED
    BY <1>1, <1>2, <1>3, <2>1 DEF Colored, SameHeap, Used
<1>10. Books(t)
  BY <1>1, <1>2, <1>4 DEF Books, SameFates, Of
<1>11. CASE s.state \in {"sweepstring", "sweep"}
  <2>1. Sweeping(s)
    BY <1>1, <1>11 DEF Phase
  <2>2. t.unswept \subseteq Listed(t)
    BY <1>2, <2>1 DEF Sweeping, Listed, SameFates
  <2>3. ASSUME NEW o \in (Used(t) \ t.tmudata) \ Pending(t)
        PROVE  t.marked[o] = t.white
    <3>1. o \in All /\ o \in Used(s) \ s.tmudata
      BY <1>2, <2>3 DEF Used, SameFates
    <3>2. CASE o \in S
      BY <1>3, <3>1, <3>2
    <3>3. CASE o \notin S /\ o \in OpenUpvals(s) /\ s.owner[o] \in s.unswept \ t.unswept
      BY <1>3, <3>1, <3>3
    <3>4. CASE o \notin S /\ ~(o \in OpenUpvals(s) /\ s.owner[o] \in s.unswept \ t.unswept)
      <4>1. o \notin Pending(s)
        BY <1>2, <2>3, <3>1, <3>4 DEF Pending, SameHeap
      <4> QED
        BY <1>3, <2>1, <3>1, <3>4, <4>1 DEF Sweeping
    <3> QED
      BY <3>2, <3>3, <3>4
  <2> QED
    BY <1>1, <1>8, <1>9, <1>10, <1>5, <1>11, <2>2, <2>3 DEF Inv, Phase, Sweeping, MarkStates, Atomic
<1>12. CASE s.state \notin MarkStates \cup {"sweepstring", "sweep"}
  <2>1. Resting(s) => Resting(t)
    BY <1>2, <1>3 DEF Resting, SameFates, Used
  <2> QED
    BY <1>1, <1>8, <1>9, <1>10, <1>5, <1>12, <2>1 DEF Inv, Phase
<1> QED
  BY <1>11, <1>12

LEMMA MakewhiteKeeps ==
  ASSUME NEW s, NEW l, Inv(s, l, {}), s.state \notin MarkStates,
         NEW S \in SUBSET Used(s), \A o \in S : Wired(s, o, Alive(s) \cup S)
  PROVE  /\ Inv(makewhite(s, S), l, {}) /\ Alive(makewhite(s, S)) = Alive(s) \cup S
         /\ Painted(s, makewhite(s, S), S, s.white)
<1> DEFINE t == makewhite(s, S)
<1>1. Painted(s, t, S, s.white)
  BY WhiteIs DEF Inv
<1> HIDE DEF t
<1>2. /\ t \in State /\ t.white = s.white /\ t.state = s.state /\ SameHeap(s, t) /\ SameLists(s, t) /\ SameFates(s, t)
      /\ t.marked = [x \in All |-> IF x \in S THEN s.white ELSE s.marked[x]]
      /\ t.unswept = s.unswept
  BY <1>1 DEF Painted, SamePhase
<1>3. /\ t.unswept \subseteq s.unswept /\ s.unswept \ t.unswept \subseteq S
      /\ \A uv \in OpenUpvals(s) : s.owner[uv] \in s.unswept \ t.unswept => uv \in S \/ s.marked[uv] = s.white
  BY <1>2
<1>4. Inv(t, l, {}) /\ Alive(t) = Alive(s) \cup S
  BY <1>2, <1>3, WhitenKeeps
<1> QED
  BY <1>1, <1>4 DEF t

\* Dead objects are freed, threads with their open upvalues.
LEMMA EraseKeeps ==
  ASSUME NEW s, NEW t \in State, NEW l, Inv(s, l, {}), s.state \notin MarkStates,
         NEW S \in SUBSET Used(s), \A o \in S : isdead(s, o),
         \A uv \in OpenUpvals(s) : s.owner[uv] \in S => uv \in S,
         t.kind = [o \in All |-> IF o \in S THEN "free" ELSE s.kind[o]],
         t.refs = [o \in All |-> IF o \in S THEN Pair(none, none) ELSE s.refs[o]],
         t.owner = [o \in All |-> IF o \in S THEN o ELSE s.owner[o]],
         t.level = [o \in All |-> IF o \in S THEN 1 ELSE s.level[o]],
         t.marked = [o \in All |-> IF o \in S THEN 0 ELSE s.marked[o]],
         t.white = s.white, t.state = s.state, SameLists(s, t), t.tmudata = s.tmudata,
         t.unswept = s.unswept \ S, t.finalized = s.finalized \ S, t.ran = s.ran \ S,
         t.lost = s.lost \cup ((S \cap Of(s, {"udata"})) \ s.ran)
  PROVE  Inv(t, l, {}) /\ Alive(t) = Alive(s)
<1>1. s \in State /\ Linkage(s, l) /\ Colored(s) /\ Books(s) /\ Phase(s, l, {}) /\ l \in All
  BY DEF Inv
<1>2. S \subseteq All /\ S \cap Alive(s) = {}
  BY DEF Used, Alive
<1>3. /\ \A o \in All : t.kind[o] = IF o \in S THEN "free" ELSE s.kind[o]
      /\ \A o \in All : t.refs[o] = IF o \in S THEN Pair(none, none) ELSE s.refs[o]
      /\ \A o \in All : t.owner[o] = IF o \in S THEN o ELSE s.owner[o]
      /\ \A o \in All : t.level[o] = IF o \in S THEN 1 ELSE s.level[o]
      /\ \A o \in All : t.marked[o] = IF o \in S THEN 0 ELSE s.marked[o]
  OBVIOUS
<1>4. Used(t) = Used(s) \ S
  BY <1>3 DEF Used
<1>5. \A o \in Used(s) \ S : isdead(t, o) <=> isdead(s, o)
  BY <1>3 DEF isdead, Used
<1>6. Alive(t) = Alive(s)
  BY <1>2, <1>4, <1>5 DEF Alive
<1>7. \A o \in All \ S : s.owner[o] \in All \ S /\ s.level[o] \in 1 .. 2
  BY <1>1 DEF State, OpenUpvals
<1>8. \A o \in All \ S : Value(t, o) = Value(s, o) /\ Leads(t, o) = Leads(s, o)
  <2> SUFFICES ASSUME NEW o \in All \ S
               PROVE  Value(t, o) = Value(s, o) /\ Leads(t, o) = Leads(s, o)
    OBVIOUS
  <2>1. Value(t, o) = Value(s, o)
    BY <1>3, <1>7 DEF Value
  <2> QED
    BY <1>3, <2>1 DEF Leads
<1>9. \A o \in All : Owned(t, o)
  <2> SUFFICES ASSUME NEW o \in All PROVE Owned(t, o)
    OBVIOUS
  <2>1. CASE o \in S
    BY <1>3, <2>1 DEF Owned
  <2>2. CASE o \notin S
    BY <1>1, <1>3, <1>7, <2>2 DEF Owned, Linkage
  <2> QED
    BY <2>1, <2>2
<1>10. \A o \in Alive(t) : Wired(t, o, Alive(t))
  <2> SUFFICES ASSUME NEW o \in Alive(s) PROVE Wired(t, o, Alive(s))
    BY <1>6
  <2>1. Wired(s, o, Alive(s)) /\ o \in All \ S
    BY <1>1, <1>2 DEF Linkage, Alive, Used
  <2>2. \A v \in Leads(s, o) : t.kind[v] = s.kind[v]
    BY <1>2, <1>3, <2>1 DEF Wired, Alive, Used
  <2>3. s.refs[o][1] # none => s.refs[o][1] \in Leads(s, o)
    BY DEF Leads
  <2> QED
    BY SMTT(30), <1>3, <1>8, <2>1, <2>2, <2>3 DEF Wired
<1>11. Linkage(t, l)
  <2>1. MAIN \notin S /\ REGISTRY \notin S /\ l \notin S
    BY <1>1, <1>2 DEF Linkage
  <2> QED
    BY <1>1, <1>3, <1>6, <1>9, <1>10, <2>1, Numbers DEF Linkage
<1>12. Colored(t)
  BY <1>1, <1>3, <1>4 DEF Colored, Used
<1>13. Books(t)
  <2>1. s.tmudata \cap S = {}
    BY <1>1, <1>2 DEF Linkage
  <2>2. \A u \in S : s.kind[u] = "udata" => u \in s.ran
    BY <1>1, <2>1 DEF Books, Of, Used
  <2>3. t.lost = {}
    BY <1>1, <2>2 DEF Books, Of
  <2>4. t.finalized \subseteq Of(t, {"udata"})
    BY <1>1, <1>3 DEF Books, Of
  <2>5. \A u \in Of(t, {"udata"}) : isdead(t, u) => u \in t.finalized
    <3> SUFFICES ASSUME NEW u \in Of(t, {"udata"}), isdead(t, u) PROVE u \in t.finalized
      OBVIOUS
    <3>1. u \notin S /\ u \in Used(s) /\ u \in Of(s, {"udata"})
      BY <1>3 DEF Of, Used
    <3> QED
      BY <1>1, <1>5, <3>1 DEF Books
  <2> QED
    BY <1>1, <2>1, <2>3, <2>4, <2>5 DEF Books
<1>14. CASE s.state \in {"sweepstring", "sweep"}
  <2>1. Sweeping(s)
    BY <1>1, <1>14 DEF Phase
  <2>2. t.unswept \subseteq Listed(t)
    BY <1>3, <1>4, <2>1 DEF Sweeping, Listed, Of, OpenUpvals, Used
  <2>3. \A o \in (Used(t) \ t.tmudata) \ Pending(t) : t.marked[o] = t.white
    <3> SUFFICES ASSUME NEW o \in (Used(t) \ t.tmudata) \ Pending(t)
                 PROVE  o \in (Used(s) \ s.tmudata) \ Pending(s) /\ t.marked[o] = s.marked[o]
      BY <2>1 DEF Sweeping
    <3>1. o \in All \ S
      BY <1>4 DEF Used
    <3>2. t.kind[o] = s.kind[o] /\ t.owner[o] = s.owner[o] /\ s.owner[o] \notin S
      BY <1>3, <1>7, <3>1
    <3>3. o \notin Pending(s)
      BY <3>1, <3>2 DEF Pending, OpenUpvals
    <3> QED
      BY <1>3, <1>4, <3>1, <3>3
  <2> QED
    BY <1>1, <1>6, <1>11, <1>12, <1>13, <1>14, <2>2, <2>3 DEF Inv, Phase, Sweeping, MarkStates, Atomic
<1>15. CASE s.state \notin MarkStates \cup {"sweepstring", "sweep"}
  <2>1. Resting(s) => Resting(t)
    BY <1>3, <1>4 DEF Resting, Used
  <2> QED
    BY <1>1, <1>6, <1>11, <1>12, <1>13, <1>15, <2>1 DEF Inv, Phase
<1> QED
  BY <1>14, <1>15

-----------------------------------------------------------------------------
(* Closing upvalues *)

LEMMA CloseKeeps ==
  ASSUME NEW s, NEW t \in State, NEW l, Inv(s, l, {}), s.state \notin Atomic,
         NEW C \in SUBSET OpenUpvals(s), \A uv \in C : ~isdead(s, uv),
         t.kind = s.kind,
         t.refs = [o \in All |-> IF o \in C THEN Pair(Value(s, o), none) ELSE s.refs[o]],
         t.owner = [o \in All |-> IF o \in C THEN o ELSE s.owner[o]],
         t.level = [o \in All |-> IF o \in C THEN 1 ELSE s.level[o]],
         t.marked = [o \in All |-> IF o \in C /\ s.marked[o] = GRAY
                                   THEN IF s.state = "propagate" THEN BLACK ELSE s.white
                                   ELSE s.marked[o]],
         SameLists(s, t), SameFates(s, t), SamePhase(s, t)
  PROVE  Inv(t, l, C) /\ Alive(t) = Alive(s)
<1>1. s \in State /\ Linkage(s, l) /\ Colored(s) /\ Books(s) /\ Phase(s, l, {}) /\ l \in All
  BY DEF Inv
<1>2. \A uv \in C : uv \in All /\ s.kind[uv] = "upvalue" /\ s.owner[uv] # uv /\ uv \in Alive(s)
  BY <1>1 DEF OpenUpvals, Linkage, Owned, Alive, Used
<1>3. /\ \A o \in All : t.refs[o] = IF o \in C THEN Pair(Value(s, o), none) ELSE s.refs[o]
      /\ \A o \in All : t.owner[o] = IF o \in C THEN o ELSE s.owner[o]
      /\ \A o \in All : t.level[o] = IF o \in C THEN 1 ELSE s.level[o]
  OBVIOUS
<1>4. \A o \in All : t.marked[o] = IF o \in C /\ s.marked[o] = GRAY
                                   THEN IF s.state = "propagate" THEN BLACK ELSE s.white
                                   ELSE s.marked[o]
  OBVIOUS
<1>5. Used(t) = Used(s) /\ (\A kinds : Of(t, kinds) = Of(s, kinds)) /\ OpenUpvals(t) = OpenUpvals(s) \ C
  BY <1>2, <1>3 DEF Used, Of, OpenUpvals
<1>6. \A o \in All : isdead(t, o) <=> isdead(s, o)
  <2> SUFFICES ASSUME NEW o \in All PROVE isdead(t, o) <=> isdead(s, o)
    OBVIOUS
  <2>1. t.white = s.white /\ s.white \in {0, 1}
    BY <1>1 DEF SamePhase, State
  <2> QED
    BY <1>4, <2>1, ColorsDiffer DEF isdead
<1>7. Alive(t) = Alive(s)
  BY <1>5, <1>6 DEF Alive, Used
<1>8. \A o \in All \ C : Value(t, o) = Value(s, o) /\ Leads(t, o) = Leads(s, o) /\ Strong(t, o) = Strong(s, o)
  <2> SUFFICES ASSUME NEW o \in All \ C
               PROVE  Value(t, o) = Value(s, o) /\ Leads(t, o) = Leads(s, o) /\ Strong(t, o) = Strong(s, o)
    OBVIOUS
  <2>1. s.owner[o] \in All \ C
    <3>1. s.owner[o] = o \/ s.kind[s.owner[o]] = "thread"
      BY <1>1 DEF Linkage, Owned
    <3> QED
      BY <1>1, <1>2, <3>1 DEF State
  <2>2. Value(t, o) = Value(s, o)
    BY ZenonT(40), <1>3, <2>1 DEF Value
  <2>3. t.refs[o] = s.refs[o]
    BY <1>3
  <2> QED
    BY <2>2, <2>3 DEF Leads, Strong
<1>9. \A o \in C : t.refs[o] = Pair(Value(s, o), none) /\ Value(t, o) = Value(s, o)
                   /\ Leads(t, o) = {Value(s, o)} \ {none}
  <2> SUFFICES ASSUME NEW o \in C
               PROVE  t.refs[o] = Pair(Value(s, o), none) /\ Value(t, o) = Value(s, o)
                      /\ Leads(t, o) = {Value(s, o)} \ {none}
    OBVIOUS
  <2>1. t.refs[o] = Pair(Value(s, o), none) /\ t.owner[o] = o /\ t.level[o] = 1
    BY <1>2, <1>3
  <2>2. Pair(Value(s, o), none)[1] = Value(s, o) /\ Pair(Value(s, o), none)[2] = none
    BY DEF Pair
  <2>3. Value(t, o) = Value(s, o)
    BY <2>1, <2>2 DEF Value
  <2> QED
    BY <2>1, <2>2, <2>3 DEF Leads
<1>10. \A o \in All : Owned(t, o)
  <2> SUFFICES ASSUME NEW o \in All PROVE Owned(t, o)
    OBVIOUS
  <2>1. CASE o \in C
    <3>1. s.kind[o] = "upvalue"
      BY <1>1, <2>1 DEF Linkage, Owned, OpenUpvals
    <3> QED
      BY <1>3, <2>1, <3>1 DEF Owned
  <2>2. CASE o \notin C
    <3>1. s.owner[o] \in All
      BY <1>1 DEF State
    <3> QED
      BY <1>1, <1>3, <2>2, <3>1 DEF Owned, Linkage
  <2> QED
    BY <2>1, <2>2
<1>11. \A o \in Alive(t) : Wired(t, o, Alive(t))
  <2> SUFFICES ASSUME NEW o \in Alive(s) PROVE Wired(t, o, Alive(s))
    BY <1>7
  <2>1. Wired(s, o, Alive(s)) /\ o \in All
    BY <1>1 DEF Linkage, Alive, Used
  <2>2. CASE o \in C
    <3>1. Leads(t, o) \subseteq Leads(s, o) /\ t.refs[o][2] = none /\ t.kind[o] = "upvalue"
      <4>1. Leads(t, o) = {Value(s, o)} \ {none} /\ t.refs[o] = Pair(Value(s, o), none)
        BY <1>9, <2>2
      <4>2. Leads(t, o) \subseteq Leads(s, o)
        BY <4>1 DEF Leads
      <4>3. t.refs[o][2] = none
        BY <4>1 DEF Pair
      <4> QED
        BY <1>2, <2>2, <4>2, <4>3
    <3> QED
      BY <2>1, <3>1 DEF Wired, Weak
  <2>3. CASE o \notin C
    BY <1>3, <1>8, <2>1, <2>3 DEF Wired
  <2> QED
    BY <2>2, <2>3
<1>12. Linkage(t, l)
  BY <1>1, <1>7, <1>10, <1>11 DEF Linkage, SameFates
<1>13. Colored(t)
  <2> SUFFICES ASSUME NEW o \in Used(s)
               PROVE  /\ t.marked[o] = BLACK =>
                           t.kind[o] \in {"table", "closure", "udata"} \/ (t.kind[o] = "upvalue" /\ t.owner[o] = o)
                      /\ t.marked[o] = GRAY =>
                           t.kind[o] \in Traversed \cup {"string"} \/ (t.kind[o] = "upvalue" /\ t.owner[o] # o)
    BY <1>5 DEF Colored
  <2>1. o \in All /\ s.white # GRAY /\ s.white # BLACK
    BY <1>1, ColorsDiffer DEF Used, State
  <2>2. CASE o \in C
    BY <1>2, <1>3, <1>4, <2>1, <2>2, ColorsDiffer
  <2>3. CASE o \notin C
    BY <1>1, <1>3, <1>4, <2>1, <2>3 DEF Colored
  <2> QED
    BY <2>2, <2>3
<1>14. Books(t)
  BY <1>1, <1>5, <1>6 DEF Books, SameFates, Of
<1>15. t.state = s.state
  BY DEF SamePhase
<1>16. CASE s.state \in MarkStates
  <2>1. Marking(s, l, {}) /\ s.state = "propagate"
    BY <1>1, <1>16 DEF Phase, MarkStates
  <2>2. \A o \in All : iswhite(t, o) <=> iswhite(s, o)
    BY <1>4, <2>1, ColorsDiffer DEF iswhite
  <2>3. ASSUME NEW o \in Used(s) \ C, Fine(s, o) PROVE Fine(t, o)
    <3>1. o \in All \ C
      BY DEF Used
    <3>2. Strong(s, o) \subseteq All
      BY <1>16, AllAlive DEF Used
    <3>3. Done(t, o) <=> Done(s, o)
      BY <1>8, <2>2, <3>1, <3>2 DEF Done
    <3> QED
      BY <1>4, <2>3, <3>1, <3>3 DEF Fine, SameLists, SamePhase, Late
  <2>4. \A o \in Used(t) \ C : o \notin t.tmudata \/ t.state = "saved" => Fine(t, o)
    BY <1>5, <2>1, <2>3 DEF Marking, SameFates, SamePhase
  <2>5. \A o \in t.gray \cup t.grayagain \cup t.weak : t.kind[o] \in Traversed /\ t.marked[o] = GRAY
    <3> SUFFICES ASSUME NEW o \in s.gray \cup s.grayagain \cup s.weak
                 PROVE  t.kind[o] \in Traversed /\ t.marked[o] = GRAY
      BY DEF SameLists
    <3>1. s.kind[o] \in Traversed /\ s.marked[o] = GRAY /\ o \in All
      BY <1>1, <2>1 DEF Marking, State
    <3>2. o \notin C
      BY <1>2, <3>1 DEF Traversed, Tables, Weak
    <3> QED
      BY <1>4, <3>1, <3>2
  <2>6. /\ \A o \in t.weak : t.kind[o] \in Weak
        /\ \A o \in Roots(t, l) : ~iswhite(t, o)
        /\ \A o \in Used(t) : ~isdead(t, o)
    <3>1. Roots(t, l) = {MAIN, REGISTRY} /\ Roots(s, l) = {MAIN, REGISTRY}
      BY <1>15, <2>1 DEF Roots
    <3> QED
      BY <1>5, <1>6, <2>1, <2>2, <3>1, Numbers DEF Marking, SameLists, Used
  <2>7. Marking(t, l, C)
    BY <1>15, <2>1, <2>4, <2>5, <2>6 DEF Marking, SameLists, Apart
  <2> QED
    BY <1>1, <1>7, <1>12, <1>13, <1>14, <1>15, <1>16, <2>7 DEF Inv, Phase, MarkStates, Atomic
<1>17. CASE s.state \notin MarkStates
  <2>1. \A o \in C : t.marked[o] = s.white
    <3> SUFFICES ASSUME NEW o \in C PROVE t.marked[o] = s.white
      OBVIOUS
    <3>1. o \in Used(s) /\ s.marked[o] # 1 - s.white /\ s.marked[o] # BLACK /\ o \in All
      BY <1>1, <1>2 DEF Colored, Alive, isdead, Used
    <3>2. s.marked[o] \in 0 .. 3 /\ s.white \in {0, 1}
      BY <1>1, <3>1 DEF State
    <3> QED
      BY <1>4, <1>17, <3>1, <3>2, ColorsDiffer DEF MarkStates
  <2>2. CASE s.state \in {"sweepstring", "sweep"}
    <3>1. Sweeping(s)
      BY <1>1, <2>2 DEF Phase
    <3>2. t.unswept \subseteq Listed(t)
      BY <1>5, <3>1 DEF Sweeping, Listed, SameFates, SamePhase
    <3>3. \A o \in (Used(t) \ t.tmudata) \ Pending(t) : t.marked[o] = t.white
      <4> SUFFICES ASSUME NEW o \in (Used(s) \ s.tmudata) \ Pending(t), o \notin C
                   PROVE  t.marked[o] = s.white
        BY <1>5, <2>1 DEF SameFates, SamePhase
      <4>1. o \in All /\ t.owner[o] = s.owner[o]
        BY <1>3 DEF Used
      <4>2. o \notin Pending(s)
        BY <1>5, <4>1 DEF Pending, SamePhase
      <4>3. s.marked[o] = s.white
        BY <3>1, <4>2 DEF Sweeping
      <4> QED
        BY <1>4, <4>1, <4>3
    <3> QED
      BY <1>1, <1>7, <1>12, <1>13, <1>14, <1>15, <2>2, <3>2, <3>3 DEF Inv, Phase, Sweeping, MarkStates, Atomic
  <2>3. CASE s.state \notin {"sweepstring", "sweep"}
    <3>1. Resting(s) => Resting(t)
      BY <1>4, <1>5, <2>1 DEF Resting, SameFates, SamePhase, Used
    <3> QED
      BY <1>1, <1>7, <1>12, <1>13, <1>14, <1>15, <1>17, <2>3, <3>1 DEF Inv, Phase
  <2> QED
    BY <2>2, <2>3
<1> QED
  BY <1>16, <1>17

-----------------------------------------------------------------------------
(* The barriers *)

LEMMA BarriertKeeps ==
  ASSUME NEW s, NEW l, NEW o \in Alive(s), NEW values,
         Inv(s, l, {o}), s.marked[o] # BLACK => Inv(s, l, {}), s.state \notin Atomic,
         s.kind[o] \in Tables, values \ {none} = {s.refs[o][1], s.refs[o][2]} \ {none}
  PROVE  Inv(luaC_barriert(s, o, values), l, {})
<1> DEFINE p == Paint(s, {o}, GRAY)
           t == [p EXCEPT !.grayagain = @ \cup {o}]
<1>1. s \in State /\ Linkage(s, l) /\ Colored(s) /\ Books(s) /\ Phase(s, l, {o}) /\ l \in All
  BY DEF Inv
<1>2. o \in Used(s) /\ o \in All /\ o \in Alive(s)
  BY DEF Alive, Used
<1>3. CASE Whites(s, values) # {} /\ s.marked[o] = BLACK
  <2>1. luaC_barriert(s, o, values) = t
    BY <1>3 DEF luaC_barriert
  <2>2. Painted(s, p, {o}, GRAY)
    <3> GRAY \in 0 .. 3
      BY ColorsDiffer
    <3> QED
      BY <1>1, PaintIs
  <2> HIDE DEF p
  <2>3. p.grayagain \cup {o} \in SUBSET All /\ p \in State
    BY <1>2, <2>2 DEF Painted, State
  <2>4. /\ t \in State /\ SameHeap(p, t) /\ SameFates(p, t) /\ SamePhase(p, t)
        /\ t.gray = p.gray /\ t.weak = p.weak /\ t.grayagain = p.grayagain \cup {o} /\ t.marked = p.marked
    BY <2>3 DEF State, SameHeap, SameFates, SamePhase
  <2> HIDE DEF t
  <2>5. /\ t \in State /\ SameHeap(s, t) /\ SameFates(s, t) /\ SamePhase(s, t)
        /\ t.gray = s.gray /\ t.weak = s.weak /\ t.grayagain = s.grayagain \cup {o}
        /\ t.marked = [x \in All |-> IF x \in {o} THEN GRAY ELSE s.marked[x]]
    BY <2>2, <2>4 DEF Painted, SameHeap, SameFates, SamePhase, SameLists
  <2>6. \A x \in All : t.marked[x] = IF x = o THEN GRAY ELSE s.marked[x]
    BY <2>5
  <2>7. Used(t) = Used(s) /\ (\A kinds : Of(t, kinds) = Of(s, kinds)) /\ OpenUpvals(t) = OpenUpvals(s)
    BY <2>5 DEF SameHeap, Used, Of, OpenUpvals
  <2>8. \A x \in All : (isdead(t, x) <=> isdead(s, x)) /\ (iswhite(t, x) <=> iswhite(s, x))
    <3> SUFFICES ASSUME NEW x \in All PROVE (isdead(t, x) <=> isdead(s, x)) /\ (iswhite(t, x) <=> iswhite(s, x))
      OBVIOUS
    <3>1. t.white = s.white /\ s.white \in {0, 1}
      BY <1>1, <2>5 DEF SamePhase, State
    <3> QED
      BY <1>3, <2>6, <3>1, ColorsDiffer DEF isdead, iswhite
  <2>9. Alive(t) = Alive(s)
    BY <2>7, <2>8 DEF Alive, Used
  <2>10. Linkage(t, l)
    BY <1>1, <2>5, <2>9, SameLinkage DEF SameFates
  <2>11. Colored(t)
    BY <1>1, <1>3, <2>5, <2>6, <2>7, ColorsDiffer DEF Colored, SameHeap, Used, Traversed
  <2>12. Books(t)
    BY <1>1, <2>5, <2>7, <2>8 DEF Books, SameFates, Of
  <2>13. s.kind[o] = "table"
    BY <1>1, <1>2, <1>3 DEF Colored, Tables, Weak
  <2>14. t.state = s.state
    BY <2>5 DEF SamePhase
  <2>15. CASE s.state \in MarkStates
    <3>1. Marking(s, l, {o}) /\ s.state = "propagate"
      BY <1>1, <2>15 DEF Phase, MarkStates
    <3>2. Fine(t, o)
      BY <1>2, <2>5, <2>6, <2>13, <2>14, <3>1, ColorsDiffer DEF Fine, SameHeap, Late, Weak, Atomic
    <3>3. ASSUME NEW x \in Used(s) \ {o}, Fine(s, x) PROVE Fine(t, x)
      <4>1. x \in All \ {o} /\ Strong(s, x) \subseteq All
        BY <2>15, AllAlive DEF Used
      <4>2. Done(t, x) <=> Done(s, x)
        <5>1. Strong(t, x) = Strong(s, x)
          BY <2>5, StrongIsSame
        <5> QED
          BY <2>8, <4>1, <5>1 DEF Done
      <4> QED
        BY <2>5, <2>6, <3>3, <4>1, <4>2 DEF Fine, SameHeap, SamePhase, Late
    <3>4. \A x \in Used(t) \ {} : x \notin t.tmudata \/ t.state = "saved" => Fine(t, x)
      BY <2>5, <2>7, <3>1, <3>2, <3>3 DEF Marking, SameFates, SamePhase
    <3>5. \A x \in t.gray \cup t.grayagain \cup t.weak : t.kind[x] \in Traversed /\ t.marked[x] = GRAY
      <4> SUFFICES ASSUME NEW x \in (s.gray \cup s.grayagain \cup s.weak) \cup {o}
                   PROVE  s.kind[x] \in Traversed /\ t.marked[x] = GRAY
        BY <2>5 DEF SameHeap
      <4>1. x \in All
        BY <1>1, <1>2 DEF State
      <4> QED
        BY <2>6, <2>13, <3>1, <4>1 DEF Marking, Traversed, Tables
    <3>6. /\ \A x \in t.weak : t.kind[x] \in Weak
          /\ \A x \in Roots(t, l) : ~iswhite(t, x)
          /\ \A x \in Used(t) : ~isdead(t, x)
      <4>1. Roots(t, l) = {MAIN, REGISTRY} /\ Roots(s, l) = {MAIN, REGISTRY}
        BY <2>14, <3>1 DEF Roots
      <4>2. ~iswhite(t, o)
        BY <1>2, <2>6, ColorsDiffer DEF iswhite
      <4> QED
        BY <2>5, <2>7, <2>8, <3>1, <4>1, <4>2, Numbers DEF Marking, SameHeap, Used
    <3>7. Apart(t)
      <4>1. o \notin s.gray \cup s.weak
        BY <1>3, <3>1, ColorsDiffer DEF Marking
      <4> QED
        BY <2>5, <3>1, <4>1 DEF Marking, Apart
    <3>8. Marking(t, l, {})
      BY <2>14, <3>1, <3>4, <3>5, <3>6, <3>7 DEF Marking
    <3> QED
      BY <1>1, <2>1, <2>5, <2>10, <2>11, <2>12, <2>14, <2>15, <3>8 DEF Inv, Phase, MarkStates, Atomic
  <2>16. CASE s.state \in {"sweepstring", "sweep"}
    <3>1. Sweeping(s)
      BY <1>1, <2>16 DEF Phase
    <3>2. t.unswept = s.unswept /\ t.tmudata = s.tmudata /\ t.white = s.white
      BY <2>5 DEF SamePhase, SameFates
    <3>3. Pending(t) = Pending(s) /\ Listed(t) = Listed(s)
      BY <2>5, <2>7, <3>2 DEF Pending, Listed, SameHeap, SamePhase
    <3>4. o \in Pending(s)
      <4>1. o \notin s.tmudata
        BY <1>1, <2>13 DEF Books, Of
      <4>2. s.white # BLACK
        BY <1>1, ColorsDiffer DEF State
      <4> QED
        BY <1>2, <1>3, <3>1, <4>1, <4>2 DEF Sweeping
    <3>5. Sweeping(t)
      BY <2>6, <2>7, <3>1, <3>2, <3>3, <3>4 DEF Sweeping, Used
    <3> QED
      BY <1>1, <2>1, <2>5, <2>10, <2>11, <2>12, <2>14, <2>16, <3>5 DEF Inv, Phase, MarkStates, Atomic
  <2>17. CASE s.state \notin MarkStates \cup {"sweepstring", "sweep"}
    <3>1. s.state \notin {"pause", "finalize"}
      <4>1. o \notin s.tmudata /\ s.white # BLACK
        BY <1>1, <2>13, ColorsDiffer DEF Books, Of, State
      <4> QED
        BY <1>1, <1>2, <1>3, <4>1 DEF Phase, Resting
    <3> QED
      BY <1>1, <2>1, <2>5, <2>10, <2>11, <2>12, <2>14, <2>17, <3>1 DEF Inv, Phase
  <2> QED
    BY <2>15, <2>16, <2>17
<1>4. CASE Whites(s, values) = {} /\ s.marked[o] = BLACK
  <2>1. luaC_barriert(s, o, values) = s
    BY <1>4 DEF luaC_barriert
  <2>2. s.kind[o] = "table"
    BY <1>1, <1>2, <1>4 DEF Colored, Tables, Weak
  <2>3. Strong(s, o) = values \ {none}
    BY <2>2 DEF Strong, Weak
  <2>4. Fine(s, o)
    BY <1>4, <2>3, ColorsDiffer DEF Fine, Done, Whites
  <2>5. ~iswhite(s, o)
    BY <1>4, ColorsDiffer DEF iswhite
  <2> QED
    BY <2>1, <2>4, <2>5, Repaired
<1>5. CASE s.marked[o] # BLACK
  BY <1>5 DEF luaC_barriert
<1> QED
  BY <1>3, <1>4, <1>5

LEMMA BarrierKeeps ==
  ASSUME NEW s, NEW l, NEW o \in Alive(s), NEW v \in Alive(s) \cup {none},
         Inv(s, l, {o}), s.marked[o] # BLACK => Inv(s, l, {}), s.state \notin Atomic,
         Strong(s, o) \subseteq {v}
  PROVE  Inv(luaC_barrier(s, o, v), l, {})
<1>1. s \in State /\ Linkage(s, l)
  BY DEF Inv
<1>2. o \in Used(s) /\ o \in All
  BY DEF Alive, Used
<1>3. CASE v # none /\ iswhite(s, v) /\ s.marked[o] = BLACK /\ s.state = "propagate"
  <2> DEFINE t == markobject(s, {v})
  <2>1. luaC_barrier(s, o, v) = t
    BY <1>3 DEF luaC_barrier
  <2>2. s.state \in MarkStates
    BY <1>3 DEF MarkStates
  <2>3. Whole(s) /\ {v} \subseteq Used(s) \cup {none}
    BY <2>2, AllAlive DEF Alive
  <2>4. Marked(s, t) /\ ~iswhite(t, v)
    BY <1>1, <1>3, <2>3, MarkobjectMarks
  <2> HIDE DEF t
  <2>5. Inv(t, l, {o})
    BY <2>2, <2>4, MarkedKeeps
  <2>6. ~iswhite(s, o)
    BY <1>3, ColorsDiffer DEF iswhite
  <2>7. t.marked[o] = BLACK
    BY <1>2, <1>3, <2>4, <2>6 DEF Marked
  <2>8. Strong(t, o) = Strong(s, o)
    BY <2>4, StrongIsSame DEF Marked
  <2>9. Fine(t, o)
    BY <2>4, <2>7, <2>8, ColorsDiffer DEF Fine, Done
  <2>10. ~iswhite(t, o)
    BY <2>7, ColorsDiffer DEF iswhite
  <2> QED
    BY <2>1, <2>5, <2>9, <2>10, Repaired
<1>4. CASE v # none /\ iswhite(s, v) /\ s.marked[o] = BLACK /\ s.state # "propagate"
  <2>1. luaC_barrier(s, o, v) = makewhite(s, {o})
    BY <1>4 DEF luaC_barrier
  <2>2. s.state \notin MarkStates
    BY <1>4 DEF MarkStates
  <2>3. Inv(s, l, {})
    BY <2>2, Repaired
  <2>4. {o} \in SUBSET Used(s)
    BY <1>2
  <2>5. \A x \in {o} : Wired(s, x, Alive(s) \cup {o})
    BY <1>1 DEF Linkage, Wired
  <2> DEFINE S == {o}
  <2> HIDE DEF S
  <2>6. S \in SUBSET Used(s) /\ \A x \in S : Wired(s, x, Alive(s) \cup S)
    BY <2>4, <2>5 DEF S
  <2>7. Inv(makewhite(s, S), l, {})
    BY <2>2, <2>3, <2>6, MakewhiteKeeps
  <2> QED
    BY <2>1, <2>7 DEF S
<1>5. CASE ~(v # none /\ iswhite(s, v)) /\ s.marked[o] = BLACK
  <2>1. luaC_barrier(s, o, v) = s
    BY <1>5 DEF luaC_barrier
  <2>2. none \notin Strong(s, o)
    BY DEF Strong
  <2>3. Fine(s, o) /\ ~iswhite(s, o)
    BY <1>5, <2>2, ColorsDiffer DEF Fine, Done, iswhite
  <2> QED
    BY <2>1, <2>3, Repaired
<1>6. CASE s.marked[o] # BLACK
  BY <1>6 DEF luaC_barrier
<1> QED
  BY <1>3, <1>4, <1>5, <1>6

-----------------------------------------------------------------------------
(* Steps of marking *)

\* Where an object that was marked waits.
Waits(s, o) ==
  s.marked[o] = GRAY =>
    /\ s.kind[o] \in {"table", "closure"} => o \in s.gray \/ (o \in s.grayagain /\ ~Late(s))
    /\ s.kind[o] = "thread" => o \in s.gray \cup s.grayagain
    /\ s.kind[o] \in Weak => o \in s.gray \cup s.weak

LEMMA DoneFine ==
  ASSUME NEW s, NEW o, Waits(s, o), Done(s, o)
  PROVE  Fine(s, o)
BY DEF Fine, Waits

LEMMA MarkedRepairs ==
  ASSUME NEW s, NEW t, NEW l, NEW exempt, NEW S, Inv(s, l, exempt), s.state \in MarkStates,
         Marked(s, t), \A o \in S \ {none} : ~iswhite(t, o),
         \A o \in exempt : o \in Used(s) =>
           Fine(s, o) \/ (Waits(s, o) /\ ~iswhite(s, o) /\ Strong(s, o) \subseteq S),
         \A o \in exempt : o \in Roots(s, l) => o \in S \/ ~iswhite(s, o)
  PROVE  Inv(t, l, {})
<1>1. s \in State /\ Roots(s, l) \subseteq All
  BY Numbers DEF Inv, Roots, State
<1>2. Marked(s, t) /\ \A o \in S \ {none} : ~iswhite(t, o)
  OBVIOUS
<1>3. Inv(t, l, exempt)
  BY <1>2, MarkedKeeps
<1>4. SameHeap(s, t) /\ SameFates(s, t) /\ SamePhase(s, t) /\ t.grayagain = s.grayagain /\ t.weak = s.weak
      /\ s.gray \subseteq t.gray
  BY <1>2 DEF Marked
<1>5. \A o \in All : ~iswhite(s, o) => t.marked[o] = s.marked[o] /\ ~iswhite(t, o)
  BY <1>2 DEF Marked, iswhite
<1>6. ASSUME NEW o \in exempt, o \in Used(t)
      PROVE  Fine(t, o)
  <2>1. o \in Used(s) /\ o \in All
    BY <1>4, <1>6 DEF Used, SameHeap
  <2>2. CASE Fine(s, o)
    <3>1. Strong(s, o) \subseteq All
      BY <2>1, AllAlive DEF Used
    <3> QED
      BY <1>2, <2>1, <2>2, <3>1, KeepsFine
  <2>3. CASE Waits(s, o) /\ ~iswhite(s, o) /\ Strong(s, o) \subseteq S
    <3>1. Waits(t, o)
      BY <1>4, <1>5, <2>1, <2>3 DEF Waits, SameHeap, SamePhase, Late
    <3>2. Strong(t, o) = Strong(s, o)
      BY <1>4, StrongIsSame
    <3>3. none \notin Strong(s, o)
      BY DEF Strong
    <3>4. Done(t, o)
      BY <1>2, <2>3, <3>2, <3>3 DEF Done
    <3> QED
      BY <3>1, <3>4, DoneFine
  <2> QED
    BY <2>1, <2>2, <2>3
<1>7. Roots(t, l) = Roots(s, l)
  BY <1>4 DEF Roots, SameFates, SamePhase
<1>8. \A o \in exempt : o \in Roots(t, l) => ~iswhite(t, o)
  BY <1>1, <1>2, <1>5, <1>7, Numbers
<1> QED
  BY <1>3, <1>6, <1>8, Repaired

LEMMA MarkobjectKeeps ==
  ASSUME NEW s, NEW l, NEW exempt, NEW S, Inv(s, l, exempt), s.state \in MarkStates,
         S \subseteq Used(s) \cup {none},
         \A o \in exempt : o \in Used(s) =>
           Fine(s, o) \/ (Waits(s, o) /\ ~iswhite(s, o) /\ Strong(s, o) \subseteq S),
         \A o \in exempt : o \in Roots(s, l) => o \in S \/ ~iswhite(s, o)
  PROVE  Inv(markobject(s, S), l, {}) /\ Marked(s, markobject(s, S))
<1>1. s \in State /\ Whole(s)
  BY AllAlive DEF Inv
<1>2. Marked(s, markobject(s, S)) /\ \A o \in S \ {none} : ~iswhite(markobject(s, S), o)
  BY <1>1, MarkobjectMarks
<1>3. Inv(markobject(s, S), l, {})
  BY <1>2, MarkedRepairs
<1> QED
  BY <1>2, <1>3

\* A step that changes the lists and the phase of the collector only.
SameBut(s, t) == SameHeap(s, t) /\ SameFates(s, t) /\ t.marked = s.marked /\ t.white = s.white

LEMMA SameButKeeps ==
  ASSUME NEW s, NEW t \in State, NEW l, NEW exempt, Inv(s, l, {}), SameBut(s, t), Phase(t, l, exempt)
  PROVE  Inv(t, l, exempt)
<1>1. s \in State /\ Linkage(s, l) /\ Colored(s) /\ Books(s) /\ l \in All
  BY DEF Inv
<1>2. Used(t) = Used(s) /\ \A kinds : Of(t, kinds) = Of(s, kinds)
  BY DEF SameBut, SameHeap, Used, Of
<1>3. \A o : isdead(t, o) <=> isdead(s, o)
  BY DEF SameBut, isdead
<1>4. Alive(t) = Alive(s)
  BY <1>2, <1>3 DEF Alive
<1>5. Linkage(t, l)
  BY <1>1, <1>4, SameLinkage DEF SameBut, SameFates
<1>6. Colored(t) /\ Books(t)
  BY <1>1, <1>2, <1>3 DEF Colored, Books, SameBut, SameHeap, SameFates
<1> QED
  BY <1>1, <1>5, <1>6 DEF Inv

LEMMA SameButDone ==
  ASSUME NEW s, NEW t, SameBut(s, t), NEW o
  PROVE  /\ Done(t, o) <=> Done(s, o)
         /\ iswhite(t, o) <=> iswhite(s, o)
         /\ isdead(t, o) <=> isdead(s, o)
         /\ Used(t) = Used(s) /\ Strong(t, o) = Strong(s, o) /\ Value(t, o) = Value(s, o)
<1>1. Strong(t, o) = Strong(s, o) /\ Value(t, o) = Value(s, o)
  BY StrongIsSame DEF SameBut
<1> QED
  BY <1>1 DEF SameBut, SameHeap, Done, iswhite, isdead, Used

LEMMA MarkrootKeeps ==
  ASSUME NEW s, NEW l, Inv(s, l, {}), s.state \in {"pause", "finalize"}
  PROVE  Inv(markroot(s), l, {})
<1> DEFINE a == [s EXCEPT !.gray = {}, !.grayagain = {}, !.weak = {}, !.state = "propagate"]
           S == {MAIN, REGISTRY}
<1>1. s \in State /\ Linkage(s, l) /\ Resting(s)
  BY DEF Inv, Phase
<1>2. markroot(s) = markobject(a, S)
  BY DEF markroot
<1>3. /\ a \in State /\ SameBut(s, a) /\ a.gray = {} /\ a.grayagain = {} /\ a.weak = {} /\ a.state = "propagate"
  BY <1>1 DEF State, States, SameBut, SameHeap, SameFates
<1> HIDE DEF a
<1>4. /\ \A o : (iswhite(a, o) <=> iswhite(s, o)) /\ (isdead(a, o) <=> isdead(s, o))
      /\ Used(a) = Used(s)
  BY <1>3, SameButDone
<1>5. \A o \in Used(s) : o \in All /\ ~isdead(s, o) /\ (o \notin s.tmudata => iswhite(s, o))
  <2> SUFFICES ASSUME NEW o \in Used(s) PROVE o \in All /\ ~isdead(s, o) /\ (o \notin s.tmudata => iswhite(s, o))
    OBVIOUS
  <2>1. s.white \in {0, 1} /\ s.white # 1 - s.white
    BY <1>1 DEF State
  <2> QED
    BY <1>1, <2>1 DEF Resting, Linkage, Alive, isdead, iswhite, Used
<1>6. \A o \in Used(s) : o \notin s.tmudata => Fine(a, o)
  <2> SUFFICES ASSUME NEW o \in Used(s), o \notin s.tmudata PROVE Fine(a, o)
    OBVIOUS
  <2>1. iswhite(a, o)
    BY <1>4, <1>5
  <2>2. a.marked[o] # GRAY /\ a.marked[o] # BLACK
    BY <2>1, ColorsDiffer DEF iswhite
  <2> QED
    BY <2>2 DEF Fine
<1>7. Roots(a, l) = S
  BY <1>3 DEF Roots
<1>8. a.tmudata = s.tmudata
  BY <1>3 DEF SameBut, SameFates
<1>9. Marking(a, l, S)
  BY <1>3, <1>4, <1>5, <1>6, <1>7, <1>8 DEF Marking, Apart
<1>10. Inv(a, l, S)
  BY <1>3, <1>9, SameButKeeps DEF Phase, MarkStates, Atomic
<1>11. S \subseteq Used(a) \cup {none} /\ \A o \in S : Fine(a, o)
  <2>1. S \subseteq Used(s) /\ S \cap s.tmudata = {}
    BY <1>1 DEF Linkage, Alive, Used, Inv, Books, Of
  <2> QED
    BY <1>4, <1>6, <2>1
<1> HIDE DEF S
<1>12. Inv(markobject(a, S), l, {})
  BY <1>3, <1>10, <1>11, MarkobjectKeeps DEF MarkStates
<1> QED
  BY <1>2, <1>12

\* What propagatemark makes of the state before it marks.
Taken(s, o) ==
  LET taken == [s EXCEPT !.gray = @ \ {o}]
  IN CASE s.kind[o] = "thread" -> [taken EXCEPT !.grayagain = @ \cup {o}]
       [] s.kind[o] \in Weak -> [taken EXCEPT !.weak = @ \cup {o}]
       [] OTHER -> Paint(taken, {o}, BLACK)

LEMMA TakenIs ==
  ASSUME NEW s \in State, NEW o \in All, NEW a, a = Taken(s, o)
  PROVE  /\ a \in State /\ SameHeap(s, a) /\ SameFates(s, a) /\ SamePhase(s, a)
         /\ a.gray = s.gray \ {o}
         /\ a.grayagain = s.grayagain \cup {x \in {o} : s.kind[o] = "thread"}
         /\ a.weak = s.weak \cup {x \in {o} : s.kind[o] \in Weak}
         /\ \A x \in All : a.marked[x] = IF x = o /\ s.kind[o] \notin Weak \cup {"thread"} THEN BLACK ELSE s.marked[x]
<1> DEFINE taken == [s EXCEPT !.gray = @ \ {o}]
<1>1. /\ taken \in State /\ SameHeap(s, taken) /\ SameFates(s, taken) /\ SamePhase(s, taken)
      /\ taken.gray = s.gray \ {o} /\ taken.grayagain = s.grayagain /\ taken.weak = s.weak
      /\ taken.marked = s.marked
  BY DEF State, SameHeap, SameFates, SamePhase
<1>2. a = CASE s.kind[o] = "thread" -> [taken EXCEPT !.grayagain = @ \cup {o}]
            [] s.kind[o] \in Weak -> [taken EXCEPT !.weak = @ \cup {o}]
            [] OTHER -> Paint(taken, {o}, BLACK)
  BY DEF Taken
<1> HIDE DEF taken
<1>3. CASE s.kind[o] = "thread"
  <2> DEFINE b == [taken EXCEPT !.grayagain = @ \cup {o}]
  <2>1. taken.grayagain \cup {o} \in SUBSET All
    BY <1>1 DEF State
  <2>2. /\ b \in State /\ SameHeap(taken, b) /\ SameFates(taken, b) /\ SamePhase(taken, b)
        /\ b.gray = taken.gray /\ b.grayagain = taken.grayagain \cup {o} /\ b.weak = taken.weak
        /\ b.marked = taken.marked
    BY <1>1, <2>1 DEF State, SameHeap, SameFates, SamePhase
  <2>3. a = b
    BY <1>2, <1>3 DEF Weak
  <2> HIDE DEF b
  <2>4. s.kind[o] \notin Weak
    BY <1>3 DEF Weak
  <2> QED
    BY <1>1, <1>3, <2>2, <2>3, <2>4 DEF SameHeap, SameFates, SamePhase
<1>4. CASE s.kind[o] \in Weak
  <2> DEFINE b == [taken EXCEPT !.weak = @ \cup {o}]
  <2>1. taken.weak \cup {o} \in SUBSET All
    BY <1>1 DEF State
  <2>2. /\ b \in State /\ SameHeap(taken, b) /\ SameFates(taken, b) /\ SamePhase(taken, b)
        /\ b.gray = taken.gray /\ b.grayagain = taken.grayagain /\ b.weak = taken.weak \cup {o}
        /\ b.marked = taken.marked
    BY <1>1, <2>1 DEF State, SameHeap, SameFates, SamePhase
  <2>3. a = b
    BY <1>2, <1>4 DEF Weak
  <2> HIDE DEF b
  <2>4. s.kind[o] # "thread"
    BY <1>4 DEF Weak
  <2> QED
    BY <1>1, <1>4, <2>2, <2>3, <2>4 DEF SameHeap, SameFates, SamePhase
<1>5. CASE s.kind[o] \notin Weak \cup {"thread"}
  <2>1. a = Paint(taken, {o}, BLACK)
    BY <1>2, <1>5
  <2>2. Painted(taken, a, {o}, BLACK)
    <3>1. BLACK \in 0 .. 3
      BY ColorsDiffer
    <3> QED
      BY <1>1, <2>1, <3>1, PaintIs
  <2>3. {x \in {o} : s.kind[o] = "thread"} = {} /\ {x \in {o} : s.kind[o] \in Weak} = {}
    BY <1>5
  <2>4. SameHeap(s, a) /\ SameFates(s, a) /\ SamePhase(s, a)
    BY <1>1, <2>2 DEF Painted, SameHeap, SameFates, SamePhase
  <2>5. a.gray = s.gray \ {o} /\ a.grayagain = s.grayagain /\ a.weak = s.weak
    BY <1>1, <2>2 DEF Painted, SameLists
  <2>6. \A x \in All : a.marked[x] = IF x = o THEN BLACK ELSE s.marked[x]
    BY <1>1, <2>2 DEF Painted
  <2> QED
    BY <1>5, <2>2, <2>3, <2>4, <2>5, <2>6 DEF Painted
<1> QED
  BY <1>3, <1>4, <1>5

LEMMA PropagatemarkKeeps ==
  ASSUME NEW s, NEW l, Inv(s, l, {}), s.state \in MarkStates, NEW o \in s.gray
  PROVE  Inv(propagatemark(s, o), l, {})
<1> DEFINE a == Taken(s, o)
           S == Strong(s, o)
<1>1. s \in State /\ Linkage(s, l) /\ Colored(s) /\ Books(s) /\ Marking(s, l, {}) /\ l \in All
  BY DEF Inv, Phase
<1>2. o \in All /\ s.kind[o] \in Traversed /\ s.marked[o] = GRAY /\ o \in Used(s)
  BY <1>1 DEF Marking, State, Used, Traversed, Tables, Weak
<1>3. propagatemark(s, o) = markobject(a, S)
  BY DEF propagatemark, Taken
<1>4. /\ a \in State /\ SameHeap(s, a) /\ SameFates(s, a) /\ SamePhase(s, a)
      /\ a.gray = s.gray \ {o}
      /\ a.grayagain = s.grayagain \cup {x \in {o} : s.kind[o] = "thread"}
      /\ a.weak = s.weak \cup {x \in {o} : s.kind[o] \in Weak}
      /\ \A x \in All : a.marked[x] = IF x = o /\ s.kind[o] \notin Weak \cup {"thread"} THEN BLACK ELSE s.marked[x]
  BY <1>1, <1>2, TakenIs
<1> HIDE DEF a
<1>5. /\ \A x \in All : (isdead(a, x) <=> isdead(s, x)) /\ (iswhite(a, x) <=> iswhite(s, x))
  <2> SUFFICES ASSUME NEW x \in All PROVE (isdead(a, x) <=> isdead(s, x)) /\ (iswhite(a, x) <=> iswhite(s, x))
    OBVIOUS
  <2>1. a.white = s.white /\ s.white \in {0, 1}
    BY <1>1, <1>4 DEF SamePhase, State
  <2>2. a.marked[x] = s.marked[x] \/ (s.marked[x] = GRAY /\ a.marked[x] = BLACK)
    BY <1>2, <1>4
  <2> QED
    BY <2>1, <2>2, ColorsDiffer DEF isdead, iswhite
<1>6. Used(a) = Used(s) /\ (\A kinds : Of(a, kinds) = Of(s, kinds))
  BY <1>4 DEF Used, Of, SameHeap
<1>7. Alive(a) = Alive(s)
  BY <1>5, <1>6 DEF Alive, Used
<1>8. Linkage(a, l)
  BY <1>1, <1>4, <1>7, SameLinkage DEF SameFates
<1>9. Books(a)
  BY <1>1, <1>4, <1>5, <1>6 DEF Books, SameFates, Of
<1>10. Colored(a)
  <2> SUFFICES ASSUME NEW x \in Used(s)
               PROVE  /\ a.marked[x] = BLACK =>
                           s.kind[x] \in {"table", "closure", "udata"} \/ (s.kind[x] = "upvalue" /\ s.owner[x] = x)
                      /\ a.marked[x] = GRAY =>
                           s.kind[x] \in Traversed \cup {"string"} \/ (s.kind[x] = "upvalue" /\ s.owner[x] # x)
    BY <1>4, <1>6 DEF Colored, SameHeap
  <2>1. x \in All
    BY DEF Used
  <2>2. CASE x = o /\ s.kind[o] \notin Weak \cup {"thread"}
    BY <1>2, <1>4, <2>1, <2>2, ColorsDiffer DEF Traversed, Tables
  <2>3. CASE ~(x = o /\ s.kind[o] \notin Weak \cup {"thread"})
    BY <1>1, <1>4, <2>1, <2>3 DEF Colored
  <2> QED
    BY <2>2, <2>3
<1>11. ASSUME NEW x \in Used(s) \ {o}, Fine(s, x) PROVE Fine(a, x)
  <2>1. x \in All /\ a.marked[x] = s.marked[x] /\ a.kind[x] = s.kind[x]
    BY <1>4, <1>11 DEF Used, SameHeap
  <2>2. Strong(a, x) = Strong(s, x) /\ Strong(s, x) \subseteq All
    BY <1>4, <1>11, StrongIsSame, AllAlive DEF Used
  <2>3. Done(a, x) <=> Done(s, x)
    BY <1>5, <2>2 DEF Done
  <2>4. /\ x \in s.gray => x \in a.gray
        /\ x \in s.grayagain => x \in a.grayagain
        /\ x \in s.weak => x \in a.weak
    BY <1>4, <1>11
  <2> QED
    BY <1>4, <1>11, <2>1, <2>3, <2>4 DEF Fine, SamePhase, Late
<1>12. Roots(a, l) = Roots(s, l) /\ Roots(s, l) \subseteq All
  BY ZenonT(60), <1>1, <1>4, Numbers DEF Roots, SameFates, SamePhase, State
<1>13. Marking(a, l, {o})
  <2>1. \A x \in Used(a) : ~isdead(a, x)
    BY <1>1, <1>5, <1>6 DEF Marking, Used
  <2>2. \A x \in Used(a) \ {o} : x \notin a.tmudata \/ a.state = "saved" => Fine(a, x)
    BY <1>1, <1>4, <1>6, <1>11 DEF Marking, SameFates, SamePhase
  <2>3. ASSUME NEW x \in a.gray \cup a.grayagain \cup a.weak
        PROVE  a.kind[x] \in Traversed /\ a.marked[x] = GRAY /\ (x \in a.weak => a.kind[x] \in Weak)
    <3>1. CASE x = o
      <4>1. s.kind[o] \in Weak \cup {"thread"} /\ (x \in a.weak => s.kind[o] \in Weak)
        BY <1>1, <1>4, <2>3, <3>1 DEF Marking, Apart, Weak
      <4> QED
        BY <1>2, <1>4, <3>1, <4>1 DEF SameHeap
    <3>2. CASE x # o
      <4>1. x \in s.gray \cup s.grayagain \cup s.weak /\ (x \in a.weak => x \in s.weak)
        BY <1>4, <2>3, <3>2
      <4>2. x \in All
        BY <1>1, <4>1 DEF State
      <4> QED
        BY <1>1, <1>4, <3>2, <4>1, <4>2 DEF Marking, SameHeap
    <3> QED
      BY <3>1, <3>2
  <2>4. \A x \in Roots(a, l) \ {o} : ~iswhite(a, x)
    BY <1>1, <1>5, <1>12 DEF Marking
  <2>5. a.state = "saved" => \A u \in Of(a, {"udata"}) : iswhite(a, u) => u \in a.finalized
    BY <1>1, <1>4, <1>5, <1>6 DEF Marking, SamePhase, SameFates, Of
  <2>6. Apart(a)
    <3>1. ~(s.kind[o] = "thread" /\ s.kind[o] \in Weak)
      BY DEF Weak
    <3> QED
      BY <1>1, <1>4, <3>1 DEF Marking, Apart
  <2> QED
    BY <2>1, <2>2, <2>3, <2>4, <2>5, <2>6 DEF Marking
<1>14. a.state = s.state
  BY <1>4 DEF SamePhase
<1>15. Inv(a, l, {o})
  BY <1>1, <1>4, <1>8, <1>9, <1>10, <1>13, <1>14 DEF Inv, Phase, MarkStates, Atomic
<1>16. S \subseteq Used(a) \cup {none} /\ Strong(a, o) = S
  BY <1>2, <1>4, <1>6, StrongIsSame, AllAlive
<1> HIDE DEF S
<1>17. ~iswhite(a, o) /\ Waits(a, o)
  <2>1. ~iswhite(a, o)
    BY <1>2, <1>5, ColorsDiffer DEF iswhite
  <2>2. Waits(a, o)
    BY <1>2, <1>4, ColorsDiffer DEF Waits, SameHeap, Traversed, Tables, Weak
  <2> QED
    BY <2>1, <2>2
<1>18. Inv(markobject(a, S), l, {})
  BY <1>14, <1>15, <1>16, <1>17, MarkobjectKeeps
<1> QED
  BY <1>3, <1>18

\* Marking before or after a change of the state is the same.
LEMMA MarkedInState ==
  ASSUME NEW s \in State, NEW t, NEW a \in State, NEW st \in States, Marked(s, t),
         SameBut(s, a), a.gray = s.gray, a.grayagain = s.grayagain, a.weak = s.weak,
         a.unswept = s.unswept, a.state = st
  PROVE  /\ Marked(a, [t EXCEPT !.state = st])
         /\ \A o : iswhite([t EXCEPT !.state = st], o) <=> iswhite(t, o)
<1> DEFINE u == [t EXCEPT !.state = st]
<1>1. t \in State /\ SameHeap(s, t) /\ SameFates(s, t) /\ SamePhase(s, t)
      /\ t.grayagain = s.grayagain /\ t.weak = s.weak
  BY DEF Marked
<1>2. /\ u \in State /\ SameHeap(t, u) /\ SameFates(t, u) /\ u.marked = t.marked /\ u.white = t.white
      /\ u.unswept = t.unswept /\ SameLists(t, u) /\ u.state = st
  BY <1>1 DEF State, SameHeap, SameFates, SameLists
<1> HIDE DEF u
<1>3. \A o : (iswhite(u, o) <=> iswhite(t, o)) /\ (iswhite(a, o) <=> iswhite(s, o))
  BY <1>2 DEF iswhite, SameBut
<1>4. SameHeap(a, u) /\ SameFates(a, u) /\ SamePhase(a, u) /\ u.grayagain = a.grayagain /\ u.weak = a.weak
  BY <1>1, <1>2 DEF SameBut, SameHeap, SameFates, SamePhase, SameLists
<1>5. \A o \in All : JustMarked(t, o) => JustMarked(u, o)
  <2> SUFFICES ASSUME NEW o \in All, JustMarked(t, o) PROVE JustMarked(u, o)
    OBVIOUS
  <2>1. Done(t, o) => Done(u, o)
    BY <1>2, <1>3, StrongIsSame DEF Done
  <2> QED
    BY <1>2, <2>1 DEF JustMarked, SameHeap, SameLists, Used
<1>6. /\ \A o \in All : ~iswhite(a, o) => u.marked[o] = a.marked[o]
      /\ \A o \in All : iswhite(u, o) => u.marked[o] = a.marked[o]
  BY <1>2, <1>3 DEF Marked, SameBut
<1>7. \A o \in All : iswhite(a, o) /\ ~iswhite(u, o) => JustMarked(u, o)
  BY <1>3, <1>5 DEF Marked
<1>8. /\ a.gray \subseteq u.gray
      /\ \A o \in u.gray \ a.gray : iswhite(a, o) /\ ~iswhite(u, o) /\ a.kind[o] \in Traversed
  BY <1>2, <1>3 DEF Marked, SameLists, SameBut, SameHeap
<1>9. Marked(a, u)
  BY <1>2, <1>4, <1>6, <1>7, <1>8 DEF Marked
<1> QED
  BY <1>3, <1>9 DEF u

\* From the marking of the program's turns to that without it.
LEMMA RemarkedKeeps ==
  ASSUME NEW s, NEW l, Inv(s, l, {}), s.state = "propagate", s.gray = {}
  PROVE  Inv([remarkupvals(s) EXCEPT !.state = "remarked"], l, {})
<1> DEFINE uvs == {x \in OpenUpvals(s) : s.marked[x] = GRAY}
           S == {Value(s, uv) : uv \in uvs}
           a == [s EXCEPT !.state = "remarked"]
           t == [markobject(s, S) EXCEPT !.state = "remarked"]
<1>1. s \in State /\ Linkage(s, l) /\ Colored(s) /\ Marking(s, l, {}) /\ Whole(s) /\ Alive(s) = Used(s)
  BY AllAlive DEF Inv, Phase, MarkStates
<1>2. [remarkupvals(s) EXCEPT !.state = "remarked"] = t
  BY DEF remarkupvals
<1>3. \A uv \in uvs : uv \in All /\ s.kind[uv] = "upvalue" /\ uv \in Used(s) /\ s.marked[uv] = GRAY
  BY <1>1 DEF OpenUpvals, Whole, Owned, Used
<1>4. \A uv \in uvs : Value(s, uv) \in Used(s) \cup {none} /\ Strong(s, uv) = {Value(s, uv)} \ {none}
  BY <1>1, <1>3 DEF Whole, Wired, Leads, Strong, Weak
<1>5. S \subseteq Used(s) \cup {none}
  BY <1>4
<1>6. Marked(s, markobject(s, S)) /\ \A o \in S \ {none} : ~iswhite(markobject(s, S), o)
  <2> HIDE DEF S
  <2> QED
    BY <1>1, <1>5, MarkobjectMarks
<1>7. /\ a \in State /\ SameBut(s, a) /\ a.gray = s.gray /\ a.grayagain = s.grayagain /\ a.weak = s.weak
      /\ a.unswept = s.unswept /\ a.state = "remarked" /\ "remarked" \in States
  BY <1>1 DEF State, SameBut, SameHeap, SameFates, States, Atomic
<1> HIDE DEF S, a
<1>8. Marked(a, t) /\ \A o \in S \ {none} : ~iswhite(t, o)
  BY <1>1, <1>6, <1>7, MarkedInState
<1> HIDE DEF t
<1>9. /\ \A o : (iswhite(a, o) <=> iswhite(s, o)) /\ (isdead(a, o) <=> isdead(s, o)) /\ (Done(a, o) <=> Done(s, o))
      /\ \A o : Strong(a, o) = Strong(s, o)
      /\ Used(a) = Used(s)
  BY <1>7, SameButDone
<1>10. \A o \in Used(s) \ uvs : Fine(s, o) => Fine(a, o)
  <2> SUFFICES ASSUME NEW o \in Used(s) \ uvs, Fine(s, o) PROVE Fine(a, o)
    OBVIOUS
  <2>1. s.kind[o] = "upvalue" => s.marked[o] # GRAY
    BY <1>1 DEF Colored, OpenUpvals, Used, Traversed, Tables, Weak
  <2> QED
    BY <1>7, <1>9, <2>1 DEF Fine, SameBut, SameHeap, Late
<1>11. Marking(a, l, uvs)
  <2>1. Roots(a, l) = {MAIN, REGISTRY} /\ Roots(s, l) = {MAIN, REGISTRY}
    BY <1>7 DEF Roots
  <2>2. a.tmudata = s.tmudata /\ a.kind = s.kind /\ a.marked = s.marked
    BY <1>7 DEF SameBut, SameFates, SameHeap
  <2>3. \A o \in Used(a) \ uvs : o \notin a.tmudata => Fine(a, o)
    BY <1>1, <1>9, <1>10, <2>2 DEF Marking
  <2> QED
    BY <1>1, <1>7, <1>9, <2>1, <2>2, <2>3 DEF Marking, Apart
<1>12. Inv(a, l, uvs)
  BY <1>7, <1>11, SameButKeeps DEF Phase, MarkStates, Atomic
<1>13. \A o \in uvs : Waits(a, o) /\ ~iswhite(a, o) /\ Strong(a, o) \subseteq S
  <2> SUFFICES ASSUME NEW o \in uvs PROVE Waits(a, o) /\ ~iswhite(a, o) /\ Strong(a, o) \subseteq S
    OBVIOUS
  <2>1. Waits(a, o)
    BY <1>3, <1>7 DEF Waits, SameBut, SameHeap, Weak
  <2>2. ~iswhite(a, o)
    BY <1>3, <1>9, ColorsDiffer DEF iswhite
  <2>3. Strong(a, o) \subseteq S
    BY <1>4, <1>9 DEF S
  <2> QED
    BY <2>1, <2>2, <2>3
<1> HIDE DEF uvs
<1>14. Inv(t, l, {})
  BY <1>7, <1>8, <1>12, <1>13, MarkedRepairs DEF MarkStates, Atomic
<1> QED
  BY <1>2, <1>14

LEMMA WeakAgainKeeps ==
  ASSUME NEW s, NEW l, Inv(s, l, {}), s.state = "remarked", s.gray = {}
  PROVE  Inv(markobject([s EXCEPT !.gray = s.weak, !.weak = {}, !.state = "weak again"], {l}), l, {})
<1> DEFINE a == [s EXCEPT !.gray = s.weak, !.weak = {}, !.state = "weak again"]
           S == {l}
<1>1. s \in State /\ Linkage(s, l) /\ Colored(s) /\ Marking(s, l, {}) /\ Alive(s) = Used(s)
  BY AllAlive DEF Inv, Phase, MarkStates, Atomic
<1>2. /\ a \in State /\ SameBut(s, a) /\ a.gray = s.weak /\ a.grayagain = s.grayagain /\ a.weak = {}
      /\ a.state = "weak again"
  BY <1>1 DEF State, SameBut, SameHeap, SameFates, States, Atomic
<1> HIDE DEF a
<1>3. /\ \A o : (iswhite(a, o) <=> iswhite(s, o)) /\ (isdead(a, o) <=> isdead(s, o)) /\ (Done(a, o) <=> Done(s, o))
      /\ Used(a) = Used(s)
  BY <1>2, SameButDone
<1>4. a.tmudata = s.tmudata /\ a.kind = s.kind /\ a.marked = s.marked
  BY <1>2 DEF SameBut, SameFates, SameHeap
<1>5. \A o \in Used(s) : Fine(s, o) => Fine(a, o)
  <2> SUFFICES ASSUME NEW o \in Used(s), Fine(s, o) PROVE Fine(a, o)
    OBVIOUS
  <2>1. /\ o \in s.weak => o \in a.gray
        /\ o \in s.grayagain => o \in a.grayagain
        /\ o \notin s.gray /\ ~Late(a) /\ ~Late(s) /\ s.state \in Atomic
    BY <1>2 DEF Late, Atomic
  <2> QED
    BY <1>3, <1>4, <2>1 DEF Fine
<1>6. Roots(a, l) = {MAIN, REGISTRY, l} /\ Roots(s, l) = {MAIN, REGISTRY}
  BY <1>2 DEF Roots
<1>7. Marking(a, l, S)
  <2>1. Apart(a)
    BY <1>1, <1>2 DEF Marking, Apart
  <2> QED
    BY <1>1, <1>2, <1>3, <1>4, <1>5, <1>6, <2>1 DEF Marking
<1>8. Inv(a, l, S)
  BY <1>2, <1>7, SameButKeeps DEF Phase, MarkStates, Atomic
<1>9. l \in Used(a) /\ Fine(a, l)
  <2>1. l \in Used(s) /\ l \notin s.tmudata
    BY <1>1 DEF Linkage, Inv, Books, Of
  <2> QED
    BY <1>1, <1>3, <1>5, <2>1 DEF Marking
<1>10. S \subseteq Used(a) \cup {none} /\ \A o \in S : Fine(a, o)
  BY <1>9
<1> HIDE DEF S
<1>11. Inv(markobject(a, S), l, {})
  BY <1>2, <1>8, <1>10, MarkobjectKeeps DEF MarkStates, Atomic
<1> QED
  BY <1>11 DEF a, S

LEMMA AgainKeeps ==
  ASSUME NEW s, NEW l, Inv(s, l, {}), s.state = "weak again", s.gray = {}
  PROVE  Inv([s EXCEPT !.gray = s.grayagain, !.grayagain = {}, !.state = "again"], l, {})
<1> DEFINE a == [s EXCEPT !.gray = s.grayagain, !.grayagain = {}, !.state = "again"]
<1>1. s \in State /\ Linkage(s, l) /\ Colored(s) /\ Marking(s, l, {})
  BY DEF Inv, Phase, MarkStates, Atomic
<1>2. /\ a \in State /\ SameBut(s, a) /\ a.gray = s.grayagain /\ a.grayagain = {} /\ a.weak = s.weak
      /\ a.state = "again"
  BY <1>1 DEF State, SameBut, SameHeap, SameFates, States, Atomic
<1> HIDE DEF a
<1>3. /\ \A o : (iswhite(a, o) <=> iswhite(s, o)) /\ (isdead(a, o) <=> isdead(s, o)) /\ (Done(a, o) <=> Done(s, o))
      /\ Used(a) = Used(s)
  BY <1>2, SameButDone
<1>4. a.tmudata = s.tmudata /\ a.kind = s.kind /\ a.marked = s.marked
  BY <1>2 DEF SameBut, SameFates, SameHeap
<1>5. \A o \in Used(s) : Fine(s, o) => Fine(a, o)
  <2> SUFFICES ASSUME NEW o \in Used(s), Fine(s, o) PROVE Fine(a, o)
    OBVIOUS
  <2>1. /\ o \in s.grayagain => o \in a.gray
        /\ o \notin s.gray /\ s.state \in Atomic
    BY <1>2 DEF Atomic
  <2> QED
    BY <1>2, <1>3, <1>4, <2>1 DEF Fine
<1>6. Roots(a, l) = Roots(s, l)
  BY <1>2, <1>4 DEF Roots
<1>7. Marking(a, l, {})
  <2>1. Apart(a)
    BY <1>1, <1>2 DEF Marking, Apart
  <2> QED
    BY <1>1, <1>2, <1>3, <1>4, <1>5, <1>6, <2>1 DEF Marking
<1>8. Inv(a, l, {})
  BY <1>2, <1>7, SameButKeeps DEF Phase, MarkStates, Atomic
<1> QED
  BY <1>8 DEF a

\* Udata whose finalizers run are marked, with what they reach.
LEMMA SeparateIs ==
  ASSUME NEW s \in State, NEW all, NEW a, a = luaC_separateudata(s, all)
  PROVE  LET taken == {u \in Of(s, {"udata"}) \ (s.tmudata \cup s.finalized) : all \/ iswhite(s, u)}
         IN /\ a \in State /\ SameHeap(s, a) /\ SameLists(s, a) /\ SamePhase(s, a) /\ a.marked = s.marked
            /\ a.finalized = s.finalized \cup taken /\ a.tmudata = s.tmudata \cup taken
            /\ a.ran = s.ran /\ a.lost = s.lost
<1> DEFINE taken == {u \in Of(s, {"udata"}) \ (s.tmudata \cup s.finalized) : all \/ iswhite(s, u)}
<1>1. a = [s EXCEPT !.finalized = @ \cup taken, !.tmudata = @ \cup taken]
  BY DEF luaC_separateudata
<1>2. taken \in SUBSET All
  BY DEF Of
<1> HIDE DEF taken
<1>3. /\ a \in State /\ SameHeap(s, a) /\ SameLists(s, a) /\ SamePhase(s, a) /\ a.marked = s.marked
      /\ a.finalized = s.finalized \cup taken /\ a.tmudata = s.tmudata \cup taken
      /\ a.ran = s.ran /\ a.lost = s.lost
  BY ZenonT(40), <1>1, <1>2 DEF State, SameHeap, SameLists, SamePhase
<1> QED
  BY <1>3 DEF taken

LEMMA MarktmuMarks ==
  ASSUME NEW s \in State, Whole(s), Colored(s), s.tmudata \subseteq Of(s, {"udata"})
  PROVE  /\ Marked(s, marktmu(s))
         /\ \A u \in s.tmudata : ~iswhite(marktmu(s), u) /\ Fine(marktmu(s), u)
<1> DEFINE S == s.tmudata
           a == makewhite(s, S)
           t == markobject(a, S)
<1>1. marktmu(s) = t
  BY DEF marktmu
<1>2. Painted(s, a, S, s.white)
  BY WhiteIs
<1> HIDE DEF a
<1>3. /\ a \in State /\ SameHeap(s, a) /\ SameLists(s, a) /\ SameFates(s, a) /\ SamePhase(s, a)
      /\ \A o \in All : a.marked[o] = IF o \in S THEN s.white ELSE s.marked[o]
  BY <1>2 DEF Painted
<1>4. Whole(a) /\ Used(a) = Used(s)
  <2>1. Used(a) = Used(s)
    BY <1>3 DEF Used, SameHeap
  <2>2. \A o \in All : Owned(a, o)
    BY <1>3 DEF Whole, Owned, SameHeap
  <2>3. \A o \in Used(s) : Wired(a, o, Used(s))
    BY <1>3, StrongIsSame DEF Whole, Wired, SameHeap
  <2> QED
    BY <2>1, <2>2, <2>3 DEF Whole
<1>5. S \subseteq Used(a) \cup {none} /\ \A u \in S : u \in All /\ s.kind[u] = "udata" /\ u \in Used(s) /\ u # none
  BY <1>4, Numbers DEF Of, Used
<1>6. Marked(a, t) /\ \A o \in S \ {none} : ~iswhite(t, o)
  <2> HIDE DEF S
  <2> QED
    BY <1>3, <1>4, <1>5, MarkobjectMarks
<1> HIDE DEF t
<1>7. \A u \in S : iswhite(a, u) /\ ~iswhite(t, u) /\ JustMarked(t, u)
  <2> SUFFICES ASSUME NEW u \in S PROVE iswhite(a, u) /\ ~iswhite(t, u) /\ JustMarked(t, u)
    OBVIOUS
  <2>1. iswhite(a, u)
    BY <1>3, <1>5 DEF iswhite, State
  <2>2. ~iswhite(t, u)
    BY <1>5, <1>6
  <2> QED
    BY <1>5, <1>6, <2>1, <2>2 DEF Marked
<1>8. \A o \in All \ S : (iswhite(a, o) <=> iswhite(s, o)) /\ a.marked[o] = s.marked[o]
  BY <1>3 DEF iswhite
<1>9. t.kind = s.kind /\ t.owner = s.owner
  BY <1>3, <1>6 DEF Marked, SameHeap
<1>10. \A u \in S : t.marked[u] = BLACK
  BY <1>5, <1>7, <1>9 DEF JustMarked
<1>11. \A u \in S : ~iswhite(s, u) => s.marked[u] = BLACK
  <2> SUFFICES ASSUME NEW u \in S, ~iswhite(s, u) PROVE s.marked[u] = BLACK
    OBVIOUS
  <2>1. s.marked[u] # GRAY
    BY <1>5 DEF Colored, Traversed, Tables, Weak
  <2>2. s.marked[u] \in 0 .. 3
    BY <1>5 DEF State
  <2> QED
    BY <2>1, <2>2, ColorsDiffer DEF iswhite
<1>12. /\ \A o \in All : ~iswhite(s, o) => t.marked[o] = s.marked[o]
       /\ \A o \in All : iswhite(t, o) => t.marked[o] = s.marked[o]
       /\ \A o \in All : iswhite(s, o) /\ ~iswhite(t, o) => JustMarked(t, o)
  <2> SUFFICES ASSUME NEW o \in All
               PROVE  /\ ~iswhite(s, o) => t.marked[o] = s.marked[o]
                      /\ iswhite(t, o) => t.marked[o] = s.marked[o]
                      /\ iswhite(s, o) /\ ~iswhite(t, o) => JustMarked(t, o)
    OBVIOUS
  <2>1. CASE o \in S
    BY <1>7, <1>10, <1>11, <2>1
  <2>2. CASE o \notin S
    BY <1>6, <1>8, <2>2 DEF Marked
  <2> QED
    BY <2>1, <2>2
<1>13. /\ s.gray \subseteq t.gray
       /\ \A o \in t.gray \ s.gray : iswhite(s, o) /\ ~iswhite(t, o) /\ s.kind[o] \in Traversed
  <2>1. a.gray = s.gray /\ t.gray \subseteq All
    BY <1>3, <1>6 DEF SameLists, Marked, State
  <2>2. ASSUME NEW o \in t.gray \ s.gray
        PROVE  iswhite(s, o) /\ ~iswhite(t, o) /\ s.kind[o] \in Traversed
    <3>1. iswhite(a, o) /\ ~iswhite(t, o) /\ s.kind[o] \in Traversed /\ o \in All
      BY <1>3, <1>6, <2>1 DEF Marked, SameHeap
    <3>2. o \notin S
      BY <1>5, <3>1 DEF Traversed, Tables, Weak
    <3> QED
      BY <1>8, <3>1, <3>2
  <2> QED
    BY <1>6, <2>1, <2>2 DEF Marked
<1>14. /\ t \in State /\ SameHeap(s, t) /\ SameFates(s, t) /\ SamePhase(s, t)
       /\ t.grayagain = s.grayagain /\ t.weak = s.weak
  BY <1>3, <1>6 DEF Marked, SameHeap, SameFates, SamePhase, SameLists
<1>15. Marked(s, t)
  BY <1>12, <1>13, <1>14 DEF Marked
<1>16. \A u \in S : Fine(t, u)
  BY <1>5, <1>7, <1>9, <1>10, ColorsDiffer DEF Fine, JustMarked
<1> QED
  BY <1>1, <1>7, <1>15, <1>16

LEMMA SavedKeeps ==
  ASSUME NEW s, NEW l, Inv(s, l, {}), s.state = "again", s.gray = {}
  PROVE  Inv([marktmu(luaC_separateudata(s, FALSE)) EXCEPT !.state = "saved"], l, {})
<1> DEFINE taken == {u \in Of(s, {"udata"}) \ (s.tmudata \cup s.finalized) : FALSE \/ iswhite(s, u)}
           a == luaC_separateudata(s, FALSE)
           b == [a EXCEPT !.state = "saved"]
           t == [marktmu(a) EXCEPT !.state = "saved"]
           S == a.tmudata
<1>1. /\ s \in State /\ Linkage(s, l) /\ Colored(s) /\ Books(s) /\ Marking(s, l, {}) /\ l \in All
      /\ Whole(s) /\ Alive(s) = Used(s)
  BY AllAlive DEF Inv, Phase, MarkStates, Atomic
<1>2. /\ a \in State /\ SameHeap(s, a) /\ SameLists(s, a) /\ SamePhase(s, a) /\ a.marked = s.marked
      /\ a.finalized = s.finalized \cup taken /\ a.tmudata = s.tmudata \cup taken
      /\ a.ran = s.ran /\ a.lost = s.lost
  BY ZenonT(60), <1>1, SeparateIs
<1> HIDE DEF a
<1>3. \A u \in taken : u \in Used(s) /\ s.kind[u] = "udata" /\ u \notin s.finalized
  BY DEF Of, Used
<1>4. /\ \A o : (iswhite(a, o) <=> iswhite(s, o)) /\ (isdead(a, o) <=> isdead(s, o))
      /\ Used(a) = Used(s) /\ \A kinds : Of(a, kinds) = Of(s, kinds)
  BY <1>2 DEF SameHeap, SamePhase, iswhite, isdead, Used, Of
<1>5. Whole(a) /\ Alive(a) = Alive(s)
  <2>1. \A o \in All : Owned(a, o)
    BY <1>1, <1>2 DEF Whole, Owned, SameHeap
  <2>2. \A o \in Used(s) : Wired(a, o, Used(s))
    BY <1>1, <1>2, StrongIsSame DEF Whole, Wired, SameHeap
  <2> QED
    BY <1>4, <2>1, <2>2 DEF Whole, Alive
<1>6. /\ b \in State /\ SameHeap(a, b) /\ SameFates(a, b) /\ b.marked = a.marked /\ b.white = a.white
      /\ b.unswept = a.unswept /\ SameLists(a, b) /\ b.state = "saved" /\ "saved" \in States
  BY <1>2 DEF State, SameHeap, SameFates, SameLists, States, Atomic
<1> HIDE DEF b
<1>7. Colored(a) /\ S \subseteq Of(a, {"udata"})
  <2>1. Colored(a)
    BY <1>1, <1>2, <1>4 DEF Colored, SameHeap
  <2>2. s.tmudata \subseteq Of(s, {"udata"})
    BY <1>1 DEF Books
  <2> QED
    BY <1>2, <1>3, <1>4, <2>1, <2>2 DEF Of, Used
<1>8. Marked(a, marktmu(a)) /\ \A u \in S : ~iswhite(marktmu(a), u) /\ Fine(marktmu(a), u)
  BY <1>2, <1>5, <1>7, MarktmuMarks
<1>9. SameBut(a, b) /\ b.gray = a.gray /\ b.grayagain = a.grayagain /\ b.weak = a.weak
  BY <1>6 DEF SameBut, SameLists
<1>10. Marked(b, t) /\ \A o : iswhite(t, o) <=> iswhite(marktmu(a), o)
  BY <1>2, <1>6, <1>8, <1>9, MarkedInState
<1>11. \A u \in S : ~iswhite(t, u) /\ Fine(t, u)
  <2> SUFFICES ASSUME NEW u \in S PROVE ~iswhite(t, u) /\ Fine(t, u)
    OBVIOUS
  <2>1. marktmu(a) \in State /\ SameHeap(a, marktmu(a)) /\ SamePhase(a, marktmu(a))
    BY <1>8 DEF Marked
  <2>2. /\ SameHeap(marktmu(a), t) /\ t.marked = marktmu(a).marked /\ t.gray = marktmu(a).gray
        /\ t.grayagain = marktmu(a).grayagain /\ t.weak = marktmu(a).weak /\ t.state = "saved"
    BY <1>6, <2>1 DEF State, SameHeap
  <2>3. Done(marktmu(a), u) => Done(t, u)
    BY <1>10, <2>2, StrongIsSame DEF Done
  <2>4. marktmu(a).kind[u] = "udata" /\ marktmu(a).state = "again"
    BY <1>2, <1>7, <2>1 DEF Of, SameHeap, SamePhase
  <2>5. Fine(t, u)
    BY <1>8, <2>2, <2>3, <2>4 DEF Fine, SameHeap, Weak
  <2> QED
    BY <1>8, <1>10, <2>5
<1> HIDE DEF t, S
<1>12. SameHeap(s, b) /\ SameLists(s, b) /\ b.marked = s.marked /\ b.white = s.white /\ b.state = "saved"
       /\ b.tmudata = S /\ b.finalized = a.finalized /\ b.ran = s.ran /\ b.lost = s.lost
  BY <1>2, <1>6 DEF S, SameHeap, SameLists, SameFates, SamePhase
<1>13. /\ \A o : (iswhite(b, o) <=> iswhite(s, o)) /\ (isdead(b, o) <=> isdead(s, o))
       /\ Used(b) = Used(s) /\ (\A kinds : Of(b, kinds) = Of(s, kinds)) /\ Alive(b) = Alive(s)
  <2>1. /\ \A o : (iswhite(b, o) <=> iswhite(s, o)) /\ (isdead(b, o) <=> isdead(s, o))
        /\ Used(b) = Used(s) /\ (\A kinds : Of(b, kinds) = Of(s, kinds))
    BY <1>12 DEF iswhite, isdead, Used, Of, SameHeap
  <2> QED
    BY <2>1 DEF Alive
<1>14. S = s.tmudata \cup taken
  BY <1>2 DEF S
<1>15. Linkage(b, l)
  <2>1. \A o \in All : Owned(b, o)
    BY <1>1, <1>12 DEF Whole, Owned, SameHeap
  <2>2. \A o \in Alive(b) : Wired(b, o, Alive(b))
    BY <1>1, <1>12, <1>13, StrongIsSame DEF Whole, Wired, SameHeap
  <2> QED
    BY <1>1, <1>3, <1>12, <1>13, <1>14, <2>1, <2>2 DEF Linkage, SameHeap
<1>16. Colored(b)
  BY <1>1, <1>12, <1>13 DEF Colored, SameHeap
<1>17. Books(b)
  <2>1. taken \cap s.ran = {} /\ taken \subseteq Of(s, {"udata"})
    BY <1>1, <1>3 DEF Books, Of, Used
  <2> HIDE DEF taken
  <2> QED
    BY <1>1, <1>2, <1>12, <1>13, <1>14, <2>1 DEF Books
<1>18. Marking(b, l, S)
  <2>1. \A o \in Used(b) \ S : Fine(b, o)
    <3> SUFFICES ASSUME NEW o \in Used(s) \ S, Fine(s, o) PROVE Fine(b, o)
      BY <1>1, <1>13, <1>14 DEF Marking
    <3>1. Done(b, o) <=> Done(s, o)
      BY <1>12, <1>13, StrongIsSame DEF Done
    <3> QED
      BY <1>12, <3>1 DEF Fine, SameHeap, SameLists, Late, Atomic
  <2>2. Roots(b, l) \ S \subseteq {MAIN, REGISTRY, l} /\ {MAIN, REGISTRY, l} \subseteq Roots(s, l)
    BY <1>12 DEF Roots
  <2>3. \A u \in Of(b, {"udata"}) : iswhite(b, u) => u \in b.finalized
    <3> SUFFICES ASSUME NEW u \in Of(s, {"udata"}), iswhite(s, u), u \notin s.finalized PROVE u \in taken
      BY <1>2, <1>12, <1>13
    <3> QED
      BY <1>1 DEF Books
  <2> QED
    BY <1>1, <1>12, <1>13, <2>1, <2>2, <2>3 DEF Marking, SameLists, SameHeap, Apart
<1>19. Inv(b, l, S)
  BY <1>1, <1>6, <1>12, <1>15, <1>16, <1>17, <1>18 DEF Inv, Phase, MarkStates, Atomic
<1>20. Inv(t, l, S)
  BY <1>10, <1>12, <1>19, MarkedKeeps DEF MarkStates, Atomic
<1>21. Inv(t, l, {})
  BY <1>11, <1>20, Repaired
<1> QED
  BY <1>21 DEF t, a

\* What a weak table keeps.
Entries(s) == {t \in s.weak : s.refs[t][2] # none}
Cleared(s) == {t \in Entries(s) : iscleared(s, s.refs[t][1], TRUE) \/ iscleared(s, s.refs[t][2], FALSE)}
Held(s) == {s.refs[t][1] : t \in Entries(s)} \cup {s.refs[t][2] : t \in Entries(s) \ Cleared(s)}

LEMMA ClearIs ==
  ASSUME NEW s \in State, NEW t,
         t = [cleartable(s) EXCEPT !.white = 1 - @, !.unswept = Listed(s), !.state = "sweepstring"]
  PROVE  /\ t \in State /\ t.kind = s.kind /\ t.owner = s.owner /\ t.level = s.level /\ SameFates(s, t)
         /\ t.white = 1 - s.white /\ t.state = "sweepstring" /\ t.unswept = Listed(s)
         /\ \A o \in All : t.refs[o] = IF o \in Cleared(s) THEN Pair(none, none) ELSE s.refs[o]
         /\ \A o \in All : t.marked[o] = IF o \in Held(s) \cap Of(s, {"string"}) THEN GRAY ELSE s.marked[o]
<1> DEFINE S == Held(s) \cap Of(s, {"string"})
           p == Paint(s, S, GRAY)
           refs == [o \in All |-> IF o \in Cleared(s) THEN Pair(none, none) ELSE s.refs[o]]
           a == [p EXCEPT !.refs = refs]
           white == 1 - a.white
           unswept == Listed(s)
           b == [a EXCEPT !.white = white, !.unswept = unswept, !.state = "sweepstring"]
<1>1. Painted(s, p, S, GRAY)
  <2> GRAY \in 0 .. 3
    BY ColorsDiffer
  <2> QED
    BY PaintIs
<1>2. cleartable(s) = [p EXCEPT !.refs = [o \in All |-> IF o \in Cleared(s) THEN Pair(none, none) ELSE @[o]]]
  BY DEF cleartable, Cleared, Entries, Held
<1> HIDE DEF p, S
<1>3. p \in State /\ p.refs = s.refs
  BY <1>1 DEF Painted, SameHeap
<1>4. cleartable(s) = a
  <2>1. [p EXCEPT !.refs = [o \in All |-> IF o \in Cleared(s) THEN Pair(none, none) ELSE @[o]]]
        = [p EXCEPT !.refs = [o \in All |-> IF o \in Cleared(s) THEN Pair(none, none) ELSE p.refs[o]]]
    OBVIOUS
  <2> QED
    BY <1>2, <1>3, <2>1
<1>5. refs \in [All -> [1 .. 2 -> All \cup {none}]]
  <2>1. Pair(none, none) \in [1 .. 2 -> All \cup {none}]
    BY DEF Pair
  <2> QED
    BY <2>1 DEF State
<1> HIDE DEF refs
<1>6. /\ a \in State /\ a.kind = p.kind /\ a.owner = p.owner /\ a.level = p.level /\ SameFates(p, a)
      /\ SamePhase(p, a) /\ a.refs = refs /\ a.marked = p.marked
  BY <1>3, <1>5 DEF State, SameFates, SamePhase
<1> HIDE DEF a
<1>7. white \in {0, 1} /\ unswept \in SUBSET All /\ white = 1 - s.white
  BY <1>1, <1>6 DEF State, Listed, Used, Painted, SamePhase
<1>8. t = b
  BY <1>4
<1> HIDE DEF white, unswept
<1>9. /\ b \in State /\ b.kind = a.kind /\ b.owner = a.owner /\ b.level = a.level /\ SameFates(a, b)
      /\ b.refs = a.refs /\ b.marked = a.marked /\ b.white = white /\ b.unswept = unswept /\ b.state = "sweepstring"
  BY <1>6, <1>7 DEF State, SameFates, States
<1> HIDE DEF b
<1>10. /\ b.kind = s.kind /\ b.owner = s.owner /\ b.level = s.level /\ SameFates(s, b)
  BY <1>1, <1>6, <1>9 DEF Painted, SameHeap, SameFates
<1>11. \A o \in All : b.refs[o] = IF o \in Cleared(s) THEN Pair(none, none) ELSE s.refs[o]
  BY <1>6, <1>9 DEF refs
<1>12. \A o \in All : b.marked[o] = IF o \in S THEN GRAY ELSE s.marked[o]
  BY <1>1, <1>6, <1>9 DEF Painted
<1> QED
  BY <1>7, <1>8, <1>9, <1>10, <1>11, <1>12 DEF S, unswept

\* The lists that are swept hold everything, apart from the udata that wait.
LEMMA BeginsSweep ==
  ASSUME NEW s \in State, NEW t \in State, \A o \in All : Owned(s, o), s.tmudata \subseteq Of(s, {"udata"}),
         t.kind = s.kind, t.owner = s.owner, t.tmudata = s.tmudata,
         t.state = "sweepstring", t.unswept = Listed(s)
  PROVE  Sweeping(t)
<1>1. Used(t) = Used(s) /\ (\A kinds : Of(t, kinds) = Of(s, kinds)) /\ OpenUpvals(t) = OpenUpvals(s)
  BY DEF Used, Of, OpenUpvals
<1>2. Listed(t) = Listed(s)
  BY <1>1 DEF Listed
<1>3. \A o \in Used(s) \ s.tmudata : o \in Pending(t)
  <2> SUFFICES ASSUME NEW o \in Used(s) \ s.tmudata PROVE o \in Pending(t)
    OBVIOUS
  <2>1. o \in All
    BY DEF Used
  <2>2. CASE s.kind[o] = "string"
    BY <2>1, <2>2 DEF Pending
  <2>3. CASE s.kind[o] # "string" /\ o \notin OpenUpvals(s)
    BY <2>1, <2>3 DEF Pending, Listed, Of
  <2>4. CASE o \in OpenUpvals(s)
    <3>1. s.owner[o] \in All /\ s.kind[s.owner[o]] = "thread"
      BY <2>1, <2>4 DEF Owned, OpenUpvals, State
    <3>2. s.owner[o] \notin OpenUpvals(s) /\ s.owner[o] \notin s.tmudata
      BY <3>1 DEF Owned, OpenUpvals, Of
    <3>3. s.owner[o] \in Listed(s)
      BY <3>1, <3>2 DEF Listed, Used, Of
    <3> QED
      BY <1>1, <2>4, <3>3 DEF Pending
  <2> QED
    BY <2>2, <2>3, <2>4
<1> QED
  BY <1>1, <1>2, <1>3 DEF Sweeping

\* Everything that was marked refers to what was, when marking ends; what was not is dead.
LEMMA FlipKeeps ==
  ASSUME NEW s, NEW l, Inv(s, l, {}), s.state = "saved", s.gray = {}
  PROVE  Inv([cleartable(s) EXCEPT !.white = 1 - @, !.unswept = Listed(s), !.state = "sweepstring"], l, {})
<1> DEFINE t == [cleartable(s) EXCEPT !.white = 1 - @, !.unswept = Listed(s), !.state = "sweepstring"]
           strings == Held(s) \cap Of(s, {"string"})
<1>1. /\ s \in State /\ Linkage(s, l) /\ Colored(s) /\ Books(s) /\ Marking(s, l, {}) /\ l \in All
      /\ Whole(s) /\ Alive(s) = Used(s)
  BY AllAlive DEF Inv, Phase, MarkStates, Atomic
<1>2. /\ t \in State /\ t.kind = s.kind /\ t.owner = s.owner /\ t.level = s.level /\ SameFates(s, t)
      /\ t.white = 1 - s.white /\ t.state = "sweepstring" /\ t.unswept = Listed(s)
      /\ \A o \in All : t.refs[o] = IF o \in Cleared(s) THEN Pair(none, none) ELSE s.refs[o]
      /\ \A o \in All : t.marked[o] = IF o \in strings THEN GRAY ELSE s.marked[o]
  BY <1>1, ClearIs
<1> HIDE DEF t
<1>3. Used(t) = Used(s) /\ (\A kinds : Of(t, kinds) = Of(s, kinds)) /\ OpenUpvals(t) = OpenUpvals(s)
  BY <1>2 DEF Used, Of, OpenUpvals
<1>4. \A o \in Used(s) : o \in All /\ (iswhite(s, o) <=> s.marked[o] = s.white) /\ s.marked[o] \in 0 .. 3
  <2> SUFFICES ASSUME NEW o \in Used(s)
               PROVE  o \in All /\ (iswhite(s, o) <=> s.marked[o] = s.white) /\ s.marked[o] \in 0 .. 3
    OBVIOUS
  <2>1. ~isdead(s, o) /\ o \in All /\ s.white \in {0, 1}
    BY <1>1, AllAlive DEF Marking, Used, State
  <2> QED
    BY <1>1, <2>1 DEF isdead, iswhite, State
<1>5. \A o \in Used(s) : isdead(t, o) <=> iswhite(s, o) /\ o \notin strings
  <2> SUFFICES ASSUME NEW o \in Used(s) PROVE isdead(t, o) <=> iswhite(s, o) /\ o \notin strings
    OBVIOUS
  <2>1. s.white \in {0, 1} /\ 1 - t.white = s.white
    BY <1>1, <1>2 DEF State
  <2> QED
    BY <1>2, <1>4, <2>1, ColorsDiffer DEF isdead
<1>6. Alive(t) = {o \in Used(s) : ~iswhite(s, o) \/ o \in strings}
  BY <1>3, <1>5 DEF Alive
<1>7. ASSUME NEW o \in Used(s), ~iswhite(s, o), s.kind[o] # "string"
      PROVE  Done(s, o) /\ (s.kind[o] \in Weak => o \in s.weak)
  <2>1. Fine(s, o)
    BY <1>1 DEF Marking
  <2>2. s.marked[o] = GRAY \/ s.marked[o] = BLACK
    BY <1>4, <1>7, ColorsDiffer DEF iswhite
  <2>3. CASE s.marked[o] = BLACK
    <3>1. s.kind[o] \notin Weak
      BY <1>1, <2>3 DEF Colored, Weak
    <3> QED
      BY <2>1, <2>3, <3>1 DEF Fine
  <2>4. CASE s.marked[o] = GRAY
    <3>1. s.kind[o] \in {"table", "closure"} \cup {"thread"} \cup Weak \cup {"upvalue"}
      BY <1>1, <1>7, <2>4 DEF Colored, Traversed, Tables
    <3> QED
      BY <2>1, <2>4, <3>1 DEF Fine, Late, Atomic
  <2> QED
    BY <2>2, <2>3, <2>4
<1>8. \A o \in Cleared(s) : o \in All /\ s.kind[o] \in Weak
  BY <1>1 DEF Cleared, Entries, Marking, State
<1>9. \A o \in All : Owned(t, o)
  <2> SUFFICES ASSUME NEW o \in All PROVE Owned(t, o)
    OBVIOUS
  <2>1. Owned(s, o)
    BY <1>1 DEF Whole
  <2> QED
    BY <1>2, <2>1 DEF Owned
<1>10. \A o \in Used(s) : s.owner[o] \notin Cleared(s) \/ s.owner[o] = o
  BY <1>1, <1>4, <1>8 DEF Whole, Owned, Weak
<1>11. ASSUME NEW o \in Used(s), ~iswhite(s, o) \/ o \in strings
       PROVE  Leads(t, o) \subseteq Leads(s, o) \cap Alive(t)
  <2>1. Wired(s, o, Used(s)) /\ o \in All /\ Owned(s, o) /\ s.owner[o] \in All /\ s.level[o] \in 1 .. 2
    BY <1>1, <1>4 DEF Whole, State
  <2>2. CASE s.kind[o] = "string"
    <3>1. s.refs[o] = Pair(none, none) /\ s.owner[o] = o /\ o \notin Cleared(s)
      BY <1>8, <2>1, <2>2 DEF Wired, Owned, Weak
    <3>2. t.refs[o] = Pair(none, none) /\ t.owner[o] = o
      BY <1>2, <2>1, <3>1
    <3>3. \A i \in 1 .. 2 : Pair(none, none)[i] = none
      BY DEF Pair
    <3>4. Leads(t, o) = {}
      BY <1>2, <2>1, <3>2, <3>3 DEF Leads, Value
    <3> QED
      BY <3>4
  <2>3. CASE o \in Cleared(s)
    <3>1. s.owner[o] = o
      BY <1>8, <2>1, <2>3 DEF Owned, Weak
    <3>2. t.refs[o] = Pair(none, none) /\ t.owner[o] = o
      BY <1>2, <2>1, <2>3, <3>1
    <3>3. \A i \in 1 .. 2 : Pair(none, none)[i] = none
      BY DEF Pair
    <3>4. Leads(t, o) = {}
      BY <1>2, <2>1, <3>2, <3>3 DEF Leads, Value
    <3> QED
      BY <3>4
  <2>4. CASE s.kind[o] # "string" /\ o \notin Cleared(s)
    <3>1. ~iswhite(s, o) /\ Done(s, o) /\ (s.kind[o] \in Weak => o \in s.weak)
      BY <1>7, <1>11, <2>4 DEF Of
    <3>2. t.refs[o] = s.refs[o] /\ Value(t, o) = Value(s, o) /\ Leads(t, o) = Leads(s, o)
      <4>1. t.refs[o] = s.refs[o]
        BY <1>2, <2>1, <2>4
      <4>2. Value(t, o) = Value(s, o)
        BY <1>2, <1>10, <2>1, <2>4 DEF Value
      <4> QED
        BY <4>1, <4>2 DEF Leads
    <3>3. \A v \in Strong(s, o) : v \in Used(s) /\ ~iswhite(s, v)
      BY <3>1, AllAlive, <1>1 DEF Done, MarkStates, Atomic
    <3>4. CASE s.kind[o] \notin Weak
      <4>1. Leads(s, o) \subseteq Strong(s, o)
        <5>1. CASE s.kind[o] = "upvalue"
          <6>1. s.refs[o][2] = none
            BY <2>1, <5>1 DEF Wired
          <6>2. s.refs[o][1] = none \/ s.refs[o][1] = Value(s, o)
            BY <2>1 DEF Owned, Pair, Value
          <6> QED
            BY <5>1, <6>1, <6>2 DEF Leads, Strong, Weak
        <5>2. CASE s.kind[o] # "upvalue"
          <6>1. Value(s, o) = s.refs[o][1]
            BY <2>1, <5>2 DEF Owned, Value
          <6> QED
            BY <3>4, <5>2, <6>1 DEF Leads, Strong, Weak
        <5> QED
          BY <5>1, <5>2
      <4> QED
        BY <1>6, <3>2, <3>3, <4>1
    <3>5. CASE s.kind[o] \in Weak
      <4>1. Value(s, o) = s.refs[o][1]
        BY <2>1, <3>5 DEF Owned, Value, Weak
      <4>2. CASE s.refs[o][2] = none
        <5>1. s.refs[o][1] = none
          BY <2>1, <3>5, <4>2 DEF Wired
        <5> QED
          BY <3>2, <4>1, <4>2, <5>1 DEF Leads
      <4>3. CASE s.refs[o][2] # none
        <5>1. o \in Entries(s) \ Cleared(s)
          BY <2>4, <3>1, <3>5, <4>3 DEF Entries
        <5>2. ~iscleared(s, s.refs[o][1], TRUE) /\ ~iscleared(s, s.refs[o][2], FALSE)
          BY <5>1 DEF Cleared
        <5>3. {s.refs[o][1], s.refs[o][2]} \subseteq Held(s)
          BY <5>1 DEF Held
        <5>4. \A v \in {s.refs[o][1], s.refs[o][2]} \ {none} : v \in Used(s) /\ (~iswhite(s, v) \/ s.kind[v] = "string")
          BY <2>1, <5>2 DEF iscleared, Wired, Leads
        <5>5. \A v \in {s.refs[o][1], s.refs[o][2]} \ {none} : v \in Alive(t)
          BY <1>4, <1>6, <5>3, <5>4 DEF Of
        <5> QED
          BY <3>2, <4>1, <5>5 DEF Leads
      <4> QED
        BY <4>2, <4>3
    <3> QED
      BY <3>4, <3>5
  <2> QED
    BY <2>2, <2>3, <2>4
<1>12. \A o \in Alive(t) : Wired(t, o, Alive(t))
  <2> SUFFICES ASSUME NEW o \in Alive(t) PROVE Wired(t, o, Alive(t))
    OBVIOUS
  <2>1. o \in Used(s) /\ (~iswhite(s, o) \/ o \in strings) /\ Wired(s, o, Used(s)) /\ o \in All
    BY <1>1, <1>4, <1>6 DEF Whole
  <2>2. Leads(t, o) \subseteq Leads(s, o) \cap Alive(t)
    BY <1>11, <2>1
  <2>3. CASE o \in Cleared(s)
    <3>1. t.refs[o] = Pair(none, none) /\ s.kind[o] \in Weak
      BY <1>2, <1>8, <2>1, <2>3
    <3>2. \A i \in 1 .. 2 : Pair(none, none)[i] = none
      BY DEF Pair
    <3> QED
      <4>1. t.kind[o] \in Weak /\ t.refs[o][1] = none /\ t.refs[o][2] = none
        BY <1>2, <3>1, <3>2
      <4>2. t.kind[o] \notin {"closure", "udata", "upvalue", "string"}
        BY <4>1 DEF Weak
      <4>3. Leads(t, o) \subseteq Alive(t) /\ \A v \in Leads(t, o) : t.kind[v] # "upvalue"
        BY <1>2, <2>1, <2>2, <4>2 DEF Wired
      <4> QED
        BY <4>1, <4>2, <4>3 DEF Wired
  <2>4. CASE o \notin Cleared(s)
    <3>1. t.refs[o] = s.refs[o]
      BY <1>2, <2>1, <2>4
    <3> QED
      BY <1>2, <2>1, <2>2, <3>1 DEF Wired
  <2> QED
    BY <2>3, <2>4
<1>13. Linkage(t, l)
  <2>1. {MAIN, REGISTRY, l} \cup s.tmudata \subseteq Used(s)
    BY <1>1 DEF Linkage
  <2>2. \A o \in {MAIN, REGISTRY, l} \cup s.tmudata : ~iswhite(s, o)
    BY <1>1 DEF Marking, Roots
  <2>3. {MAIN, REGISTRY, l} \cup s.tmudata \subseteq Alive(t)
    BY <1>6, <2>1, <2>2
  <2> QED
    BY <1>1, <1>2, <1>9, <1>12, <2>3 DEF Linkage, SameFates
<1>14. Colored(t)
  <2> SUFFICES ASSUME NEW o \in Used(s)
               PROVE  /\ t.marked[o] = BLACK =>
                           t.kind[o] \in {"table", "closure", "udata"} \/ (t.kind[o] = "upvalue" /\ t.owner[o] = o)
                      /\ t.marked[o] = GRAY =>
                           t.kind[o] \in Traversed \cup {"string"} \/ (t.kind[o] = "upvalue" /\ t.owner[o] # o)
    BY <1>3 DEF Colored
  <2>1. CASE o \in strings
    BY <1>2, <1>4, <2>1, ColorsDiffer DEF Of
  <2>2. CASE o \notin strings
    BY <1>1, <1>2, <1>4, <2>2 DEF Colored
  <2> QED
    BY <2>1, <2>2
<1>15. Books(t)
  <2>1. \A u \in Of(s, {"udata"}) : isdead(t, u) => u \in s.finalized
    <3> SUFFICES ASSUME NEW u \in Of(s, {"udata"}), isdead(t, u) PROVE u \in s.finalized
      OBVIOUS
    <3>1. u \in Used(s)
      BY DEF Of, Used
    <3> QED
      BY <1>1, <1>5, <3>1 DEF Marking
  <2> QED
    BY <1>1, <1>2, <1>3, <2>1 DEF Books, SameFates
<1>16. Sweeping(t)
  <2>1. s.tmudata \subseteq Of(s, {"udata"})
    BY <1>1 DEF Books
  <2> QED
    BY <1>1, <1>2, <2>1, BeginsSweep DEF Whole, SameFates
<1>17. Inv(t, l, {})
  BY <1>1, <1>2, <1>13, <1>14, <1>15, <1>16 DEF Inv, Phase, MarkStates, Atomic
<1> QED
  BY <1>17 DEF t

LEMMA AtomicKeeps ==
  ASSUME NEW s, NEW l, Inv(s, l, {}), s.state \in MarkStates, s.gray = {}
  PROVE  Inv(atomic(s, l), l, {})
<1>1. CASE s.state = "propagate"
  <2>1. atomic(s, l) = [remarkupvals(s) EXCEPT !.state = "remarked"]
    BY <1>1 DEF atomic
  <2> QED
    BY <1>1, <2>1, RemarkedKeeps
<1>2. CASE s.state = "remarked"
  <2>1. atomic(s, l) = markobject([s EXCEPT !.gray = s.weak, !.weak = {}, !.state = "weak again"], {l})
    BY <1>2 DEF atomic
  <2> QED
    BY <1>2, <2>1, WeakAgainKeeps
<1>3. CASE s.state = "weak again"
  <2>1. atomic(s, l) = [s EXCEPT !.gray = s.grayagain, !.grayagain = {}, !.state = "again"]
    BY <1>3 DEF atomic
  <2>2. s.gray = {}
    OBVIOUS
  <2>3. Inv([s EXCEPT !.gray = s.grayagain, !.grayagain = {}, !.state = "again"], l, {})
    BY <1>3, <2>2, AgainKeeps, Zenon
  <2> QED
    BY <2>1, <2>3
<1>4. CASE s.state = "again"
  <2>1. atomic(s, l) = [marktmu(luaC_separateudata(s, FALSE)) EXCEPT !.state = "saved"]
    BY <1>4 DEF atomic
  <2> QED
    BY ZenonT(40), <1>4, <2>1, SavedKeeps
<1>5. CASE s.state = "saved"
  <2>1. atomic(s, l) = [cleartable(s) EXCEPT !.white = 1 - @, !.unswept = Listed(s), !.state = "sweepstring"]
    BY <1>5 DEF atomic
  <2>2. s.gray = {}
    OBVIOUS
  <2>3. Inv([cleartable(s) EXCEPT !.white = 1 - @, !.unswept = Listed(s), !.state = "sweepstring"], l, {})
    BY <1>5, <2>2, FlipKeeps, Zenon
  <2> QED
    BY <2>1, <2>3
<1> QED
  BY <1>1, <1>2, <1>3, <1>4, <1>5 DEF MarkStates, Atomic

-----------------------------------------------------------------------------
(* Steps of a sweep *)

\* t is s without some objects.
Erased(s, t, S) ==
  /\ t \in State
  /\ t.kind = [o \in All |-> IF o \in S THEN "free" ELSE s.kind[o]]
  /\ t.refs = [o \in All |-> IF o \in S THEN Pair(none, none) ELSE s.refs[o]]
  /\ t.owner = [o \in All |-> IF o \in S THEN o ELSE s.owner[o]]
  /\ t.level = [o \in All |-> IF o \in S THEN 1 ELSE s.level[o]]
  /\ t.marked = [o \in All |-> IF o \in S THEN 0 ELSE s.marked[o]]
  /\ t.white = s.white /\ t.state = s.state /\ SameLists(s, t) /\ t.tmudata = s.tmudata
  /\ t.unswept = s.unswept \ S /\ t.finalized = s.finalized \ S /\ t.ran = s.ran \ S
  /\ t.lost = s.lost \cup ((S \cap Of(s, {"udata"})) \ s.ran)

LEMMA EraseIs ==
  ASSUME NEW s \in State, NEW S \in SUBSET All
  PROVE  Erased(s, Erase(s, S), S)
<1> DEFINE kind == [o \in All |-> IF o \in S THEN "free" ELSE s.kind[o]]
           refs == [o \in All |-> IF o \in S THEN Pair(none, none) ELSE s.refs[o]]
           owner == [o \in All |-> IF o \in S THEN o ELSE s.owner[o]]
           level == [o \in All |-> IF o \in S THEN 1 ELSE s.level[o]]
           marked == [o \in All |-> IF o \in S THEN 0 ELSE s.marked[o]]
           unswept == s.unswept \ S
           finalized == s.finalized \ S
           ran == s.ran \ S
           lost == s.lost \cup ((S \cap Of(s, {"udata"})) \ s.ran)
           t == [s EXCEPT !.kind = kind, !.refs = refs, !.owner = owner, !.level = level, !.marked = marked,
                          !.unswept = unswept, !.finalized = finalized, !.ran = ran, !.lost = lost]
<1>1. Erase(s, S) = t
  BY DEF Erase
<1>2. /\ kind \in [All -> Kinds] /\ owner \in [All -> All] /\ level \in [All -> 1 .. 2]
      /\ marked \in [All -> 0 .. 3]
  BY DEF State, Kinds
<1>3. refs \in [All -> [1 .. 2 -> All \cup {none}]]
  <2>1. Pair(none, none) \in [1 .. 2 -> All \cup {none}]
    BY DEF Pair
  <2> QED
    BY <2>1 DEF State
<1>4. unswept \in SUBSET All /\ finalized \in SUBSET All /\ ran \in SUBSET All /\ lost \in SUBSET All
  BY DEF State, Of
<1> HIDE DEF kind, refs, owner, level, marked, unswept, finalized, ran, lost
<1>5. t \in State
  BY <1>2, <1>3, <1>4 DEF State
<1>6. /\ t.kind = kind /\ t.refs = refs /\ t.owner = owner /\ t.level = level /\ t.marked = marked
      /\ t.unswept = unswept /\ t.finalized = finalized /\ t.ran = ran /\ t.lost = lost
      /\ t.white = s.white /\ t.state = s.state /\ t.tmudata = s.tmudata /\ SameLists(s, t)
  BY DEF State, SameLists
<1> HIDE DEF t
<1>7. Erased(s, t, S)
  BY <1>5, <1>6 DEF Erased, kind, refs, owner, level, marked, unswept, finalized, ran, lost
<1> QED
  BY <1>1, <1>7

\* t is s with some objects swept, those in dead freed.
IsSwept(s, t, S, dead) ==
  /\ t \in State
  /\ \A o \in All : t.kind[o] = IF o \in dead THEN "free" ELSE s.kind[o]
  /\ \A o \in All : t.refs[o] = IF o \in dead THEN Pair(none, none) ELSE s.refs[o]
  /\ \A o \in All : t.owner[o] = IF o \in dead THEN o ELSE s.owner[o]
  /\ \A o \in All : t.level[o] = IF o \in dead THEN 1 ELSE s.level[o]
  /\ \A o \in All : t.marked[o] = IF o \in dead THEN 0 ELSE IF o \in S THEN s.white ELSE s.marked[o]
  /\ t.white = s.white /\ t.state = s.state /\ SameLists(s, t) /\ t.tmudata = s.tmudata
  /\ t.unswept = s.unswept \ S /\ t.finalized = s.finalized \ dead /\ t.ran = s.ran \ dead
  /\ t.lost = s.lost \cup ((dead \cap Of(s, {"udata"})) \ s.ran)

LEMMA SweptIs ==
  ASSUME NEW s \in State, NEW S \in SUBSET All
  PROVE  IsSwept(s, Swept(s, S), S, {o \in S \ {MAIN} : isdead(s, o)})
<1> DEFINE dead == {o \in S \ {MAIN} : isdead(s, o)}
           p == makewhite(s, S)
           unswept == p.unswept \ S
           a == [p EXCEPT !.unswept = unswept]
           t == Erase(a, dead)
<1>1. Swept(s, S) = t
  BY DEF Swept
<1>2. dead \in SUBSET All /\ dead \subseteq S
  OBVIOUS
<1>3. Painted(s, p, S, s.white)
  BY WhiteIs
<1> HIDE DEF p, dead
<1>4. unswept \in SUBSET All /\ unswept = s.unswept \ S /\ p \in State
  BY <1>3 DEF Painted, SamePhase, State
<1> HIDE DEF unswept
<1>5. /\ a \in State /\ SameHeap(p, a) /\ SameLists(p, a) /\ SameFates(p, a) /\ a.marked = p.marked
      /\ a.white = p.white /\ a.state = p.state /\ a.unswept = unswept
  BY <1>4 DEF State, SameHeap, SameLists, SameFates
<1> HIDE DEF a
<1>6. Erased(a, t, dead)
  BY <1>2, <1>5, EraseIs
<1> HIDE DEF t
<1>7. /\ SameHeap(s, a) /\ SameLists(s, a) /\ SameFates(s, a) /\ a.white = s.white /\ a.state = s.state
      /\ a.unswept = s.unswept \ S
      /\ \A o \in All : a.marked[o] = IF o \in S THEN s.white ELSE s.marked[o]
  BY <1>3, <1>4, <1>5 DEF Painted, SameHeap, SameLists, SameFates, SamePhase
<1>8. /\ \A o \in All : t.kind[o] = IF o \in dead THEN "free" ELSE s.kind[o]
      /\ \A o \in All : t.refs[o] = IF o \in dead THEN Pair(none, none) ELSE s.refs[o]
      /\ \A o \in All : t.owner[o] = IF o \in dead THEN o ELSE s.owner[o]
      /\ \A o \in All : t.level[o] = IF o \in dead THEN 1 ELSE s.level[o]
  BY <1>6, <1>7 DEF Erased, SameHeap
<1>9. \A o \in All : t.marked[o] = IF o \in dead THEN 0 ELSE IF o \in S THEN s.white ELSE s.marked[o]
  BY <1>6, <1>7 DEF Erased
<1>10. Of(a, {"udata"}) = Of(s, {"udata"})
  BY <1>7 DEF Of, SameHeap
<1>11. /\ t.white = s.white /\ t.state = s.state /\ SameLists(s, t) /\ t.tmudata = s.tmudata
       /\ t.unswept = s.unswept \ S /\ t.finalized = s.finalized \ dead /\ t.ran = s.ran \ dead
       /\ t.lost = s.lost \cup ((dead \cap Of(s, {"udata"})) \ s.ran)
  BY <1>2, <1>6, <1>7, <1>10 DEF Erased, SameLists, SameFates
<1>12. IsSwept(s, t, S, dead)
  BY <1>6, <1>8, <1>9, <1>11 DEF IsSwept, Erased
<1> QED
  BY <1>1, <1>12 DEF dead

LEMMA SweptKeeps ==
  ASSUME NEW s, NEW l, Inv(s, l, {}), s.state \notin MarkStates, NEW S \in SUBSET Used(s),
         \A uv \in OpenUpvals(s) : s.owner[uv] \in S =>
           s.marked[uv] = s.white /\ ~isdead(s, s.owner[uv])
  PROVE  /\ Inv(Swept(s, S), l, {}) /\ Alive(Swept(s, S)) = Alive(s)
         /\ IsSwept(s, Swept(s, S), S, {o \in S : isdead(s, o)})
<1> DEFINE dead == {o \in S : isdead(s, o)}
           live == S \ dead
           a == Erase(s, dead)
           t == Swept(s, S)
<1>1. s \in State /\ Linkage(s, l) /\ Colored(s) /\ Books(s) /\ Phase(s, l, {}) /\ l \in All /\ S \subseteq All
  BY DEF Inv, Used
<1>2. IsSwept(s, t, S, dead)
  <2>1. ~isdead(s, MAIN)
    BY <1>1 DEF Linkage, Alive
  <2>2. {o \in S \ {MAIN} : isdead(s, o)} = dead
    BY <2>1
  <2> QED
    BY <1>1, <2>2, SweptIs
<1>3. /\ dead \in SUBSET Used(s) /\ \A o \in dead : isdead(s, o)
      /\ \A uv \in OpenUpvals(s) : s.owner[uv] \in dead => uv \in dead
  OBVIOUS
<1>4. live \subseteq Alive(s) /\ dead \cap live = {} /\ S = dead \cup live
  BY DEF Alive
<1>5. \A uv \in OpenUpvals(s) : s.owner[uv] \in live => s.marked[uv] = s.white
  OBVIOUS
<1> HIDE DEF dead, live, t
<1>6. Erased(s, a, dead)
  <2>1. dead \in SUBSET All
    BY <1>3 DEF Used
  <2> QED
    BY <1>1, <2>1, EraseIs
<1> HIDE DEF a
<1>7. Inv(a, l, {}) /\ Alive(a) = Alive(s)
  BY <1>3, <1>6, EraseKeeps DEF Erased
<1>8. /\ \A o \in All : a.kind[o] = IF o \in dead THEN "free" ELSE s.kind[o]
      /\ \A o \in All : a.refs[o] = IF o \in dead THEN Pair(none, none) ELSE s.refs[o]
      /\ \A o \in All : a.owner[o] = IF o \in dead THEN o ELSE s.owner[o]
      /\ \A o \in All : a.level[o] = IF o \in dead THEN 1 ELSE s.level[o]
      /\ \A o \in All : a.marked[o] = IF o \in dead THEN 0 ELSE s.marked[o]
  BY <1>6 DEF Erased
<1>9. t \in State /\ a \in State
  BY <1>2, <1>6 DEF IsSwept, Erased
<1>10. SameHeap(a, t)
  <2>1. /\ \A o \in All : t.kind[o] = a.kind[o] /\ t.refs[o] = a.refs[o]
        /\ \A o \in All : t.owner[o] = a.owner[o] /\ t.level[o] = a.level[o]
    BY <1>2, <1>8 DEF IsSwept
  <2> QED
    BY <1>9, <2>1 DEF State, SameHeap
<1>11. t.marked = [o \in All |-> IF o \in live THEN a.white ELSE a.marked[o]]
  <2>1. t.marked \in [All -> 0 .. 3]
    BY <1>9 DEF State
  <2>2. \A o \in All : t.marked[o] = IF o \in live THEN a.white ELSE a.marked[o]
    BY <1>2, <1>4, <1>6, <1>8 DEF IsSwept, Erased
  <2> QED
    BY <2>1, <2>2
<1>12. SameLists(a, t) /\ SameFates(a, t) /\ t.white = a.white /\ t.state = a.state
  BY <1>2, <1>6 DEF IsSwept, Erased, SameLists, SameFates
<1>13. t.unswept \subseteq a.unswept /\ a.unswept \ t.unswept \subseteq live
  BY <1>2, <1>4, <1>6 DEF IsSwept, Erased
<1>14. \A uv \in OpenUpvals(a) : a.owner[uv] \in a.unswept \ t.unswept => uv \in live \/ a.marked[uv] = a.white
  <2> SUFFICES ASSUME NEW uv \in OpenUpvals(a), a.owner[uv] \in live
               PROVE  a.marked[uv] = a.white
    BY <1>13
  <2>1. uv \in All /\ uv \notin dead
    BY <1>8 DEF OpenUpvals
  <2>2. uv \in OpenUpvals(s) /\ a.owner[uv] = s.owner[uv] /\ a.marked[uv] = s.marked[uv]
    BY <1>8, <2>1 DEF OpenUpvals
  <2> QED
    BY <1>5, <1>6, <2>2 DEF Erased
<1>15. live \in SUBSET Used(a) /\ \A o \in live : Wired(a, o, Alive(a) \cup live)
  <2>1. live \subseteq Alive(a) /\ Alive(a) \cup live = Alive(a)
    BY <1>4, <1>7
  <2> QED
    BY <1>7, <2>1 DEF Inv, Linkage, Alive
<1>16. a.state \notin MarkStates
  BY <1>6 DEF Erased
<1>17. Inv(t, l, {}) /\ Alive(t) = Alive(a) \cup live
  BY <1>7, <1>9, <1>10, <1>11, <1>12, <1>13, <1>14, <1>15, <1>16, WhitenKeeps
<1> QED
  BY <1>2, <1>4, <1>7, <1>17 DEF dead, t

LEMMA FreeDead ==
  ASSUME NEW s, NEW l, Inv(s, l, {}), NEW S \in SUBSET Used(s), \A o \in S : isdead(s, o),
         \A uv \in OpenUpvals(s) : s.owner[uv] \in S => uv \in S
  PROVE  /\ Inv(Erase(s, S), l, {}) /\ Alive(Erase(s, S)) = Alive(s)
         /\ Erased(s, Erase(s, S), S)
<1> DEFINE t == Erase(s, S)
<1>1. s \in State /\ S \in SUBSET All
  BY DEF Inv, Used
<1>2. Erased(s, t, S)
  BY <1>1, EraseIs
<1> HIDE DEF t
<1>3. CASE s.state \in MarkStates
  <2>1. S = {}
    BY <1>3, AllAlive
  <2>2. t \in State /\ SameLists(s, t) /\ SameFates(s, t) /\ SamePhase(s, t)
    BY <1>2, <2>1 DEF Erased, SameFates, SamePhase
  <2>3. SameHeap(s, t) /\ t.marked = s.marked
    <3>1. /\ \A o \in All : t.kind[o] = s.kind[o] /\ t.refs[o] = s.refs[o] /\ t.owner[o] = s.owner[o]
          /\ \A o \in All : t.level[o] = s.level[o] /\ t.marked[o] = s.marked[o]
      BY <1>2, <2>1 DEF Erased
    <3> QED
      BY <1>1, <2>2, <3>1 DEF State, SameHeap
  <2>4. t = s
    BY <1>1, <2>2, <2>3, SameState DEF SameRest
  <2> QED
    BY <1>2, <2>4 DEF t
<1>4. CASE s.state \notin MarkStates
  <2>1. Inv(t, l, {}) /\ Alive(t) = Alive(s)
    BY <1>2, <1>4, EraseKeeps DEF Erased
  <2> QED
    BY <1>2, <2>1 DEF t
<1> QED
  BY <1>3, <1>4

\* The state of luaF_close before it is linked.
Closed1(s, dead, closed) ==
  [Erase(s, dead) EXCEPT
     !.refs = [o \in All |-> IF o \in closed THEN Pair(Value(s, o), none) ELSE @[o]],
     !.owner = [o \in All |-> IF o \in closed THEN o ELSE @[o]],
     !.level = [o \in All |-> IF o \in closed THEN 1 ELSE @[o]]]

LEMMA Closed1Is ==
  ASSUME NEW s, NEW e \in State, NEW dead, e = Erase(s, dead), NEW closed \in SUBSET All, NEW t,
         t = Closed1(s, dead, closed),
         \A o \in closed : Value(s, o) \in All \cup {none}
  PROVE  /\ t \in State /\ t.kind = e.kind /\ t.marked = e.marked
         /\ SameLists(e, t) /\ SameFates(e, t) /\ SamePhase(e, t)
         /\ t.refs = [o \in All |-> IF o \in closed THEN Pair(Value(s, o), none) ELSE e.refs[o]]
         /\ t.owner = [o \in All |-> IF o \in closed THEN o ELSE e.owner[o]]
         /\ t.level = [o \in All |-> IF o \in closed THEN 1 ELSE e.level[o]]
<1> DEFINE refs == [o \in All |-> IF o \in closed THEN Pair(Value(s, o), none) ELSE e.refs[o]]
           owner == [o \in All |-> IF o \in closed THEN o ELSE e.owner[o]]
           level == [o \in All |-> IF o \in closed THEN 1 ELSE e.level[o]]
<1>1. t = [e EXCEPT !.refs = refs, !.owner = owner, !.level = level]
  BY DEF Closed1
<1>2. refs \in [All -> [1 .. 2 -> All \cup {none}]]
  <2>1. \A o \in closed : Pair(Value(s, o), none) \in [1 .. 2 -> All \cup {none}]
    BY DEF Pair
  <2> QED
    BY <2>1 DEF State
<1>3. owner \in [All -> All] /\ level \in [All -> 1 .. 2]
  BY DEF State
<1> HIDE DEF refs, owner, level
<1>4. t \in State
  <2> DEFINE a == [e EXCEPT !.refs = refs]
             b == [a EXCEPT !.owner = owner]
  <2>1. a \in State
    BY <1>2 DEF State
  <2>2. t = [b EXCEPT !.level = level]
    BY <1>1
  <2> HIDE DEF a
  <2>3. b \in State
    BY <1>3, <2>1 DEF State
  <2> HIDE DEF b
  <2> QED
    BY <1>3, <2>2, <2>3 DEF State
<1>5. SameLists(e, t) /\ SameFates(e, t) /\ SamePhase(e, t)
  BY <1>1 DEF State, SameLists, SameFates, SamePhase
<1>6. /\ t.kind = e.kind /\ t.marked = e.marked
      /\ t.refs = refs /\ t.owner = owner /\ t.level = level
  BY <1>1 DEF State
<1> QED
  BY <1>4, <1>5, <1>6 DEF refs, owner, level

\* The upvalues of a thread from some level on are closed, those that are dead freed.
LEMMA LuaFCloseKeeps ==
  ASSUME NEW s, NEW l, Inv(s, l, {}), s.state \notin Atomic, NEW thread, NEW level
  PROVE  LET t == luaF_close(s, thread, level)
             upvals == UpvalsFrom(s, thread, level)
         IN /\ Inv(t, l, {}) /\ t.state = s.state /\ t.white = s.white
            /\ \A o \in All \ upvals : t.kind[o] = s.kind[o] /\ t.owner[o] = s.owner[o] /\ t.level[o] = s.level[o]
            /\ OpenUpvals(t) = OpenUpvals(s) \ upvals
            /\ s.state \notin MarkStates => \A o \in All \ upvals : t.marked[o] = s.marked[o]
            /\ t.unswept \subseteq s.unswept /\ s.unswept \ t.unswept \subseteq upvals
<1> DEFINE upvals == UpvalsFrom(s, thread, level)
           dead == {uv \in upvals : isdead(s, uv)}
           closed == upvals \ dead
           e == Erase(s, dead)
           c == Closed1(s, dead, closed)
           t == luaC_linkupval(c, closed)
<1>1. luaF_close(s, thread, level) = t
  BY DEF luaF_close, Closed1
<1>2. s \in State /\ Linkage(s, l) /\ Colored(s) /\ l \in All
  BY DEF Inv
<1>3. \A uv \in upvals : uv \in All /\ uv \in OpenUpvals(s) /\ s.kind[uv] = "upvalue" /\ uv \in Used(s)
                         /\ s.kind[s.owner[uv]] = "thread" /\ s.owner[uv] \in All /\ s.level[uv] \in 1 .. 2
  BY <1>2 DEF UpvalsFrom, OpenUpvals, Linkage, Owned, Used, State
<1>4. dead \in SUBSET Used(s) /\ (\A o \in dead : isdead(s, o)) /\ closed \in SUBSET All
      /\ (\A o \in closed : ~isdead(s, o)) /\ dead \cap closed = {} /\ upvals = dead \cup closed
  BY <1>3
<1>5. \A uv \in OpenUpvals(s) : s.owner[uv] \notin upvals
  BY <1>2, <1>3 DEF Linkage, Owned, OpenUpvals
<1>6. \A uv \in closed : Value(s, uv) \in All \cup {none}
  BY <1>2, <1>3 DEF Value, State
<1> HIDE DEF upvals, dead, closed
<1>7. Inv(e, l, {}) /\ Alive(e) = Alive(s) /\ Erased(s, e, dead)
  BY <1>4, <1>5, FreeDead
<1>8. e \in State
  BY <1>7 DEF Erased
<1>9. /\ c \in State /\ c.kind = e.kind /\ c.marked = e.marked
      /\ SameLists(e, c) /\ SameFates(e, c) /\ SamePhase(e, c)
      /\ c.refs = [o \in All |-> IF o \in closed THEN Pair(Value(s, o), none) ELSE e.refs[o]]
      /\ c.owner = [o \in All |-> IF o \in closed THEN o ELSE e.owner[o]]
      /\ c.level = [o \in All |-> IF o \in closed THEN 1 ELSE e.level[o]]
  BY <1>4, <1>6, <1>8, Closed1Is
<1> HIDE DEF e, c
<1>10. /\ \A o \in All : e.kind[o] = IF o \in dead THEN "free" ELSE s.kind[o]
       /\ \A o \in All : e.refs[o] = IF o \in dead THEN Pair(none, none) ELSE s.refs[o]
       /\ \A o \in All : e.owner[o] = IF o \in dead THEN o ELSE s.owner[o]
       /\ \A o \in All : e.level[o] = IF o \in dead THEN 1 ELSE s.level[o]
       /\ \A o \in All : e.marked[o] = IF o \in dead THEN 0 ELSE s.marked[o]
       /\ e.white = s.white /\ e.state = s.state
  BY <1>7 DEF Erased
<1>11. \A uv \in closed : Value(e, uv) = Value(s, uv) /\ uv \in OpenUpvals(e) /\ ~isdead(e, uv) /\ e.kind[uv] = "upvalue"
  <2> SUFFICES ASSUME NEW uv \in closed
               PROVE  Value(e, uv) = Value(s, uv) /\ uv \in OpenUpvals(e) /\ ~isdead(e, uv) /\ e.kind[uv] = "upvalue"
    OBVIOUS
  <2>1. uv \in All \ dead /\ s.owner[uv] \in All \ dead /\ uv \in OpenUpvals(s) /\ ~isdead(s, uv) /\ s.kind[uv] = "upvalue"
    BY <1>3, <1>4, <1>5
  <2> QED
    BY <1>10, <2>1 DEF Value, OpenUpvals, isdead
<1>12. c.refs = [o \in All |-> IF o \in closed THEN Pair(Value(e, o), none) ELSE e.refs[o]]
  BY <1>9, <1>11
<1>13. /\ \A o \in All : c.owner[o] = IF o \in closed THEN o ELSE e.owner[o]
       /\ \A o \in All : c.level[o] = IF o \in closed THEN 1 ELSE e.level[o]
       /\ c.state = s.state /\ c.white = s.white
  BY <1>9, <1>10 DEF SamePhase
<1>14. /\ \A o \in All \ upvals : c.kind[o] = s.kind[o] /\ c.owner[o] = s.owner[o] /\ c.level[o] = s.level[o]
                                 /\ c.marked[o] = s.marked[o]
       /\ OpenUpvals(c) = OpenUpvals(s) \ upvals
       /\ c.unswept \subseteq s.unswept /\ s.unswept \ c.unswept \subseteq upvals
  <2>1. \A o \in All \ upvals : c.kind[o] = s.kind[o] /\ c.owner[o] = s.owner[o] /\ c.level[o] = s.level[o]
                                 /\ c.marked[o] = s.marked[o]
    BY <1>4, <1>9, <1>10, <1>13
  <2>2. \A o \in upvals : o \in All => c.owner[o] = o
    BY <1>4, <1>10, <1>13
  <2>3. OpenUpvals(c) = OpenUpvals(s) \ upvals
    BY <2>1, <2>2 DEF OpenUpvals
  <2> QED
    BY <1>4, <1>7, <1>9, <2>1, <2>3 DEF Erased, SamePhase
<1> DEFINE marked == {uv \in closed : c.marked[uv] = GRAY}
           color == IF s.state = "propagate" THEN BLACK ELSE s.white
           p == Paint(c, marked, color)
<1>15. Painted(c, p, marked, color)
  <2>1. color \in 0 .. 3
    BY <1>2, ColorsDiffer DEF State
  <2> QED
    BY <1>9, <2>1, PaintIs
<1>16. marked = {uv \in closed : e.marked[uv] = GRAY}
  BY <1>9
<1> HIDE DEF p
<1>17. /\ p \in State /\ SameHeap(c, p) /\ SameLists(c, p) /\ SameFates(c, p) /\ SamePhase(c, p)
       /\ \A o \in All : p.marked[o] = IF o \in marked THEN color ELSE c.marked[o]
  BY <1>15 DEF Painted
<1>18. p.marked = [o \in All |-> IF o \in closed /\ e.marked[o] = GRAY
                                 THEN IF e.state = "propagate" THEN BLACK ELSE e.white
                                 ELSE e.marked[o]]
  BY <1>9, <1>10, <1>15, <1>16 DEF Painted
<1> HIDE DEF marked, color
<1>19. Inv(p, l, closed) /\ Alive(p) = Alive(e)
  <2>1. closed \in SUBSET OpenUpvals(e) /\ \A uv \in closed : ~isdead(e, uv)
    BY <1>11
  <2>2. /\ p.kind = e.kind
        /\ p.refs = [o \in All |-> IF o \in closed THEN Pair(Value(e, o), none) ELSE e.refs[o]]
        /\ p.owner = [o \in All |-> IF o \in closed THEN o ELSE e.owner[o]]
        /\ p.level = [o \in All |-> IF o \in closed THEN 1 ELSE e.level[o]]
        /\ SameLists(e, p) /\ SameFates(e, p) /\ SamePhase(e, p)
    BY <1>9, <1>12, <1>17 DEF SameHeap, SameLists, SameFates, SamePhase
  <2>3. e.state \notin Atomic
    BY <1>10
  <2> QED
    BY <1>7, <1>17, <1>18, <2>1, <2>2, <2>3, CloseKeeps
<1>20. /\ \A o \in All \ upvals : p.kind[o] = s.kind[o] /\ p.owner[o] = s.owner[o] /\ p.level[o] = s.level[o]
                                 /\ p.marked[o] = s.marked[o]
       /\ OpenUpvals(p) = OpenUpvals(s) \ upvals
       /\ p.unswept \subseteq s.unswept /\ s.unswept \ p.unswept \subseteq upvals
       /\ p.state = s.state /\ p.white = s.white
  BY <1>4, <1>13, <1>14, <1>17 DEF SameHeap, SamePhase, OpenUpvals, marked
<1>21. CASE s.state = "propagate"
  <2> DEFINE S == {Value(c, uv) : uv \in marked}
             q == markobject(p, S)
  <2>1. t = q
    BY <1>13, <1>21 DEF luaC_linkupval, marked, p, color
  <2>2. \A uv \in closed : uv \in Used(p) /\ Strong(p, uv) = {Value(c, uv)} \ {none} /\ Value(c, uv) \in Used(p) \cup {none}
    <3> SUFFICES ASSUME NEW uv \in closed
                 PROVE  uv \in Used(p) /\ Strong(p, uv) = {Value(c, uv)} \ {none} /\ Value(c, uv) \in Used(p) \cup {none}
      OBVIOUS
    <3>1. p.kind[uv] = "upvalue" /\ uv \in Used(p)
      BY <1>4, <1>9, <1>11, <1>17 DEF SameHeap, Used
    <3>2. Value(p, uv) = Value(c, uv)
      BY <1>17, StrongIsSame
    <3>3. Strong(p, uv) = {Value(c, uv)} \ {none}
      BY <3>1, <3>2 DEF Strong, Weak
    <3>4. p.state \in MarkStates
      BY <1>20, <1>21 DEF MarkStates
    <3>5. Strong(p, uv) \subseteq Used(p)
      BY <1>19, <3>1, <3>4, AllAlive
    <3> QED
      BY <3>1, <3>3, <3>5
  <2>3. S \subseteq Used(p) \cup {none}
    BY <2>2 DEF marked
  <2>4. \A o \in closed : Fine(p, o) \/ (Waits(p, o) /\ ~iswhite(p, o) /\ Strong(p, o) \subseteq S)
    <3> SUFFICES ASSUME NEW o \in closed
                 PROVE  Fine(p, o) \/ (Waits(p, o) /\ ~iswhite(p, o) /\ Strong(p, o) \subseteq S)
      OBVIOUS
    <3>1. CASE o \in marked
      <4>1. p.marked[o] = BLACK
        BY <1>4, <1>17, <1>21, <3>1 DEF color
      <4>2. Waits(p, o) /\ ~iswhite(p, o)
        BY <4>1, ColorsDiffer DEF Waits, iswhite
      <4>3. Strong(p, o) \subseteq S
        BY <2>2, <3>1
      <4> QED
        BY <4>2, <4>3
    <3>2. CASE o \notin marked
      <4>1. p.marked[o] = e.marked[o] /\ e.marked[o] # GRAY /\ o \in All
        BY <1>4, <1>9, <1>16, <1>17, <3>2
      <4>2. e.marked[o] # BLACK
        BY <1>7, <1>11, <4>1 DEF Inv, Colored, OpenUpvals, Used
      <4> QED
        BY <4>1, <4>2 DEF Fine
    <3> QED
      BY <3>1, <3>2
  <2>5. \A o \in closed : o \in Roots(p, l) => o \in S \/ ~iswhite(p, o)
    <3>1. Roots(p, l) = {MAIN, REGISTRY}
      BY <1>20, <1>21 DEF Roots
    <3>2. \A o \in closed : o \notin {MAIN, REGISTRY}
      BY <1>2, <1>3, <1>4 DEF Linkage
    <3> QED
      BY <3>1, <3>2
  <2>6. p.state \in MarkStates
    BY <1>20, <1>21 DEF MarkStates
  <2> HIDE DEF S
  <2>7. Inv(q, l, {}) /\ Marked(p, q)
    BY <1>19, <2>3, <2>4, <2>5, <2>6, MarkobjectKeeps
  <2> HIDE DEF q
  <2>8. SameHeap(p, q) /\ SamePhase(p, q)
    BY <2>7 DEF Marked
  <2>9. /\ \A o \in All \ upvals : q.kind[o] = s.kind[o] /\ q.owner[o] = s.owner[o] /\ q.level[o] = s.level[o]
        /\ OpenUpvals(q) = OpenUpvals(s) \ upvals
        /\ q.unswept \subseteq s.unswept /\ s.unswept \ q.unswept \subseteq upvals
        /\ q.state = s.state /\ q.white = s.white
    BY <1>20, <2>8 DEF SameHeap, SamePhase, OpenUpvals
  <2> QED
    BY <1>1, <1>21, <2>1, <2>7, <2>9 DEF upvals, MarkStates
<1>22. CASE s.state # "propagate"
  <2>1. t = p
    BY <1>13, <1>22 DEF luaC_linkupval, marked, p, color, makewhite
  <2>2. s.state \notin MarkStates
    BY <1>22 DEF MarkStates
  <2>3. Inv(p, l, {})
    BY <1>19, <1>20, <2>2, Repaired
  <2> QED
    BY <1>1, <1>20, <2>1, <2>3 DEF upvals
<1> QED
  BY <1>21, <1>22

LEMMA SweepstringsKeeps ==
  ASSUME NEW s, NEW l, Inv(s, l, {}), s.state = "sweepstring"
  PROVE  Inv(sweepstrings(s), l, {})
<1> DEFINE S == Of(s, {"string"})
           dead == {o \in S : isdead(s, o)}
           a == Swept(s, S)
           t == [a EXCEPT !.state = "sweep"]
<1>1. s \in State /\ Linkage(s, l)
  BY DEF Inv
<1>2. S \in SUBSET Used(s) /\ \A uv \in OpenUpvals(s) : s.owner[uv] \notin S
  BY <1>1 DEF Of, Used, Linkage, Owned, OpenUpvals
<1>3. Inv(a, l, {}) /\ IsSwept(s, a, S, dead)
  <2>1. s.state \notin MarkStates
    BY DEF MarkStates, Atomic
  <2> HIDE DEF S
  <2> QED
    BY <1>2, <2>1, SweptKeeps
<1> HIDE DEF a
<1>4. /\ t \in State /\ SameBut(a, t) /\ t.unswept = a.unswept /\ t.state = "sweep"
  BY <1>3 DEF IsSwept, State, States, SameBut, SameHeap, SameFates
<1> HIDE DEF t
<1>5. Used(t) = Used(a) /\ t.tmudata = a.tmudata /\ Listed(t) = Listed(a) /\ OpenUpvals(t) = OpenUpvals(a)
      /\ t.owner = a.owner /\ t.marked = a.marked /\ t.white = a.white
  BY <1>4 DEF SameBut, SameHeap, SameFates, Used, Listed, OpenUpvals, Of
<1>6. a.state = "sweepstring" /\ Sweeping(a)
  BY <1>3 DEF IsSwept, Inv, Phase
<1>7. \A o \in Used(a) : a.kind[o] = "string" => a.marked[o] = a.white
  <2> SUFFICES ASSUME NEW o \in Used(a), a.kind[o] = "string" PROVE a.marked[o] = a.white
    OBVIOUS
  <2>1. o \in All /\ o \notin dead /\ s.kind[o] = "string"
    BY <1>3 DEF IsSwept, Used
  <2>2. o \in S
    BY <2>1 DEF Of
  <2> QED
    BY <1>3, <2>1, <2>2 DEF IsSwept
<1>8. Sweeping(t)
  <2>1. \A o \in (Used(a) \ a.tmudata) \ Pending(t) : a.marked[o] = a.white
    <3> SUFFICES ASSUME NEW o \in (Used(a) \ a.tmudata) \ Pending(t), a.kind[o] # "string"
                 PROVE  a.marked[o] = a.white
      BY <1>7
    <3>1. o \notin Pending(a)
      BY <1>4, <1>5 DEF Pending
    <3> QED
      BY <1>6, <3>1 DEF Sweeping
  <2> QED
    BY <1>4, <1>5, <1>6, <2>1 DEF Sweeping
<1>9. Inv(t, l, {})
  BY <1>3, <1>4, <1>8, SameButKeeps DEF Phase, MarkStates, Atomic
<1> QED
  BY <1>9 DEF t, a, sweepstrings

LEMMA SweeplistKeeps ==
  ASSUME NEW s, NEW l, Inv(s, l, {}), s.state = "sweep", NEW o \in s.unswept
  PROVE  Inv(sweeplist(s, o), l, {}) /\ sweeplist(s, o).state = "sweep"
<1> DEFINE U == UpvalsFrom(s, o, 1)
           dead == {x \in U : isdead(s, x)}
           a == Swept(s, U)
           b == IF isdead(s, o) /\ o # MAIN THEN luaF_close(a, o, 1) ELSE a
           S == {o}
           t == Swept(b, S)
<1>1. sweeplist(s, o) = t
  BY DEF sweeplist
<1>2. s \in State /\ Linkage(s, l) /\ Sweeping(s) /\ s.state \notin MarkStates
  BY DEF Inv, Phase, MarkStates, Atomic
<1>3. o \in All /\ o \in Used(s) /\ o \notin OpenUpvals(s)
  BY <1>2 DEF Sweeping, Listed, Used
<1>4. U \in SUBSET Used(s) /\ U = {uv \in OpenUpvals(s) : s.owner[uv] = o}
  BY <1>2 DEF UpvalsFrom, OpenUpvals, Used, Linkage, Owned, State
<1>5. \A uv \in OpenUpvals(s) : s.owner[uv] \notin U
  BY <1>2, <1>4 DEF Linkage, Owned, OpenUpvals
<1> HIDE DEF U
<1>6. Inv(a, l, {}) /\ IsSwept(s, a, U, dead)
  BY <1>2, <1>4, <1>5, SweptKeeps
<1> HIDE DEF a, dead
<1>7. /\ a.state = "sweep" /\ a.white = s.white /\ o \in Used(a) /\ a.marked[o] = s.marked[o]
  BY <1>3, <1>4, <1>6 DEF IsSwept, Used, dead
<1>8. \A uv \in OpenUpvals(a) : a.owner[uv] = o => a.marked[uv] = a.white
  <2> SUFFICES ASSUME NEW uv \in OpenUpvals(a), a.owner[uv] = o PROVE a.marked[uv] = a.white
    OBVIOUS
  <2>1. uv \in All /\ uv \notin dead /\ s.owner[uv] = o /\ uv \in OpenUpvals(s)
    BY <1>6 DEF IsSwept, OpenUpvals
  <2>2. uv \in U
    BY <1>4, <2>1
  <2> QED
    BY <1>6, <2>1, <2>2 DEF IsSwept
<1>9. isdead(a, o) <=> isdead(s, o)
  BY <1>7 DEF isdead
<1>10. /\ Inv(b, l, {}) /\ b.state = "sweep" /\ b.white = a.white /\ o \in Used(b)
       /\ \A uv \in OpenUpvals(b) : b.owner[uv] = o => b.marked[uv] = b.white /\ ~isdead(b, o)
  <2>1. CASE isdead(s, o) /\ o # MAIN
    <3> DEFINE upvals == UpvalsFrom(a, o, 1)
    <3>1. a.state \notin Atomic /\ a.state \notin MarkStates
      BY <1>7 DEF Atomic, MarkStates
    <3>2. b = luaF_close(a, o, 1)
      BY <2>1
    <3> HIDE DEF b
    <3>3. /\ Inv(b, l, {}) /\ b.state = a.state /\ b.white = a.white
          /\ \A x \in All \ upvals : b.kind[x] = a.kind[x] /\ b.owner[x] = a.owner[x] /\ b.level[x] = a.level[x]
          /\ OpenUpvals(b) = OpenUpvals(a) \ upvals
      BY <1>6, <3>1, <3>2, LuaFCloseKeeps
    <3>4. a \in State /\ o \notin OpenUpvals(a)
      BY <1>3, <1>6 DEF Inv, IsSwept, OpenUpvals
    <3>5. upvals = {uv \in OpenUpvals(a) : a.owner[uv] = o}
      BY <3>4 DEF UpvalsFrom, State, OpenUpvals
    <3>6. o \in Used(b)
      BY <1>3, <1>7, <3>3, <3>4, <3>5 DEF Used
    <3>7. \A uv \in OpenUpvals(b) : b.owner[uv] # o
      BY <3>3, <3>5 DEF OpenUpvals
    <3> QED
      BY <1>7, <3>3, <3>6, <3>7
  <2>2. CASE ~(isdead(s, o) /\ o # MAIN)
    <3>1. b = a
      BY <2>2
    <3>2. ~isdead(a, o)
      BY <1>2, <1>9, <2>2 DEF Linkage, Alive
    <3> QED
      BY <1>6, <1>7, <1>8, <3>1, <3>2
  <2> QED
    BY <2>1, <2>2
<1> HIDE DEF b
<1>11. S \in SUBSET Used(b) /\ b.state \notin MarkStates
       /\ \A uv \in OpenUpvals(b) : b.owner[uv] \in S => b.marked[uv] = b.white /\ ~isdead(b, b.owner[uv])
  BY <1>10 DEF MarkStates, Atomic
<1> HIDE DEF S
<1>12. Inv(t, l, {}) /\ IsSwept(b, t, S, {x \in S : isdead(b, x)})
  BY <1>10, <1>11, SweptKeeps
<1>13. t.state = "sweep"
  BY <1>10, <1>12 DEF IsSwept
<1> QED
  BY <1>1, <1>12, <1>13

LEMMA SweptAllKeeps ==
  ASSUME NEW s, NEW l, Inv(s, l, {}), s.state = "sweep", s.unswept = {}
  PROVE  Inv([s EXCEPT !.state = "finalize"], l, {})
<1> DEFINE t == [s EXCEPT !.state = "finalize"]
<1>1. s \in State /\ Sweeping(s)
  BY DEF Inv, Phase
<1>2. /\ t \in State /\ SameBut(s, t) /\ t.state = "finalize"
  BY <1>1 DEF State, States, SameBut, SameHeap, SameFates
<1> HIDE DEF t
<1>3. Pending(s) = {}
  BY DEF Pending
<1>4. Resting(t)
  BY <1>1, <1>2, <1>3 DEF Sweeping, Resting, SameBut, SameHeap, SameFates, Used
<1>5. Inv(t, l, {})
  BY <1>2, <1>4, SameButKeeps DEF Phase, MarkStates, Atomic
<1> QED
  BY <1>5 DEF t

LEMMA PauseKeeps ==
  ASSUME NEW s, NEW l, Inv(s, l, {}), s.state = "finalize"
  PROVE  Inv([s EXCEPT !.state = "pause"], l, {})
<1> DEFINE t == [s EXCEPT !.state = "pause"]
<1>1. s \in State /\ Resting(s)
  BY DEF Inv, Phase
<1>2. /\ t \in State /\ SameBut(s, t) /\ t.state = "pause"
  BY <1>1 DEF State, States, SameBut, SameHeap, SameFates
<1> HIDE DEF t
<1>3. Resting(t)
  BY <1>1, <1>2 DEF Resting, SameBut, SameHeap, SameFates, Used
<1>4. Inv(t, l, {})
  BY <1>2, <1>3, SameButKeeps DEF Phase, MarkStates, Atomic
<1> QED
  BY <1>4 DEF t

-----------------------------------------------------------------------------
(* Stores with their barriers *)

Store(s, o, r) == [s EXCEPT !.refs[o] = r]

LEMMA StoreIs ==
  ASSUME NEW s \in State, NEW o \in All, NEW r \in [1 .. 2 -> All \cup {none}], NEW t,
         t = Store(s, o, r)
  PROVE  /\ t \in State /\ SameRest(s, t) /\ t.kind = s.kind /\ t.owner = s.owner /\ t.level = s.level
         /\ t.refs = [s.refs EXCEPT ![o] = r] /\ t.refs[o] = r
<1> DEFINE refs == [s.refs EXCEPT ![o] = r]
<1>1. t = [s EXCEPT !.refs = refs]
  BY DEF State, Store
<1>2. refs \in [All -> [1 .. 2 -> All \cup {none}]] /\ refs[o] = r
  BY DEF State
<1> HIDE DEF refs
<1>3. /\ t \in State /\ SameRest(s, t) /\ t.kind = s.kind /\ t.owner = s.owner /\ t.level = s.level
      /\ t.refs = refs
  BY <1>1, <1>2 DEF State, SameRest, SameLists, SameFates, SamePhase
<1> QED
  BY <1>2, <1>3 DEF refs

LEMMA AliveIs ==
  ASSUME NEW s, NEW t, t.kind = s.kind, t.marked = s.marked, t.white = s.white
  PROVE  Alive(t) = Alive(s) /\ Used(t) = Used(s)
BY DEF Alive, Used, isdead

LEMMA TableStoreKeeps ==
  ASSUME NEW s, NEW l, Inv(s, l, {}), s.state \notin Atomic,
         NEW o \in Alive(s), s.kind[o] \in Tables,
         NEW r \in [1 .. 2 -> All \cup {none}],
         \A i \in 1 .. 2 : r[i] # none => r[i] \in Alive(s) /\ s.kind[r[i]] # "upvalue",
         s.kind[o] \in Weak /\ r[2] = none => r[1] = none,
         NEW values, values \ {none} = {r[1], r[2]} \ {none}
  PROVE  Inv(luaC_barriert(Store(s, o, r), o, values), l, {})
<1> DEFINE t == Store(s, o, r)
<1>1. s \in State /\ o \in Used(s) /\ o \in All /\ \A x \in All : Owned(s, x)
  BY DEF Inv, Alive, Used, Linkage
<1>2. /\ t \in State /\ SameRest(s, t) /\ t.kind = s.kind /\ t.owner = s.owner /\ t.level = s.level
      /\ t.refs = [s.refs EXCEPT ![o] = r] /\ t.refs[o] = r
  BY <1>1, StoreIs
<1> HIDE DEF t
<1>3. s.owner[o] = o /\ s.kind[o] # "udata" /\ s.kind[o] # "upvalue"
  BY <1>1 DEF Owned, Tables, Weak
<1>4. Inv(t, l, {o}) /\ (s.marked[o] # BLACK => Inv(t, l, {}))
  BY <1>1, <1>2, <1>3, StoreKeeps
<1>5. t.state = s.state /\ t.marked = s.marked /\ t.white = s.white
  BY <1>2 DEF SameRest, SamePhase
<1>6. o \in Alive(t)
  BY <1>2, <1>5, AliveIs
<1>7. Inv(luaC_barriert(t, o, values), l, {})
  BY <1>2, <1>4, <1>5, <1>6, BarriertKeeps
<1> QED
  BY <1>7 DEF t

\* A finalizer is about to run.
LEMMA FinalizedKeeps ==
  ASSUME NEW s, NEW l, Inv(s, l, {}), s.state = "finalize", NEW u \in s.tmudata, NEW t,
         t = [makewhite(s, {u}) EXCEPT !.tmudata = @ \ {u}, !.ran = @ \cup {u},
                                       !.lost = @ \cup ({u} \cap s.ran)]
  PROVE  /\ Inv(t, l, {}) /\ t.state = s.state /\ u \in Alive(t) /\ t.kind[u] = "udata"
<1> DEFINE S == {u}
           p == makewhite(s, S)
<1>1. s \in State /\ Linkage(s, l) /\ Books(s) /\ s.state \notin MarkStates
  BY DEF Inv, MarkStates, Atomic
<1>2. u \in Alive(s) /\ u \in All /\ u \in Used(s) /\ s.kind[u] = "udata" /\ u \notin s.ran /\ u \in s.finalized
  BY <1>1 DEF Linkage, Alive, Used, Books, Of
<1>3. S \in SUBSET Used(s) /\ \A o \in S : Wired(s, o, Alive(s) \cup S)
  BY <1>1, <1>2 DEF Linkage, Wired
<1>4. Inv(p, l, {}) /\ Alive(p) = Alive(s) \cup S /\ Painted(s, p, S, s.white)
  <2> HIDE DEF S
  <2> QED
    BY <1>1, <1>3, MakewhiteKeeps
<1> HIDE DEF p
<1> DEFINE tmudata == p.tmudata \ {u}
           ran == p.ran \cup {u}
           lost == p.lost \cup ({u} \cap s.ran)
<1>5. t = [p EXCEPT !.tmudata = tmudata, !.ran = ran, !.lost = lost]
  BY DEF p
<1>6. /\ p \in State /\ SameHeap(s, p) /\ SameFates(s, p) /\ p.state = s.state /\ p.white = s.white
      /\ \A o \in All : p.marked[o] = IF o \in S THEN s.white ELSE s.marked[o]
  BY <1>4 DEF Painted, SamePhase
<1>7. tmudata \in SUBSET All /\ ran \in SUBSET All /\ lost \in SUBSET All
      /\ tmudata = s.tmudata \ {u} /\ ran = s.ran \cup {u} /\ lost = {}
  BY <1>1, <1>2, <1>6 DEF State, SameFates, Books
<1> HIDE DEF tmudata, ran, lost
<1>8. /\ t \in State /\ SameHeap(p, t) /\ t.marked = p.marked /\ t.white = p.white /\ t.state = p.state
      /\ t.tmudata = tmudata /\ t.ran = ran /\ t.lost = lost /\ t.finalized = p.finalized
  <2> DEFINE q == [p EXCEPT !.tmudata = tmudata, !.ran = ran, !.lost = lost]
  <2>1. q \in State
    BY <1>6, <1>7 DEF State
  <2>2. /\ SameHeap(p, q) /\ q.marked = p.marked /\ q.white = p.white /\ q.state = p.state
        /\ q.finalized = p.finalized
    BY <1>6 DEF State, SameHeap
  <2>3. q.tmudata = tmudata /\ q.ran = ran /\ q.lost = lost
    BY <1>6 DEF State
  <2> QED
    BY <1>5, <2>1, <2>2, <2>3
<1>9. Used(t) = Used(p) /\ Alive(t) = Alive(p) /\ \A kinds : Of(t, kinds) = Of(p, kinds)
  BY <1>8 DEF Used, Alive, isdead, SameHeap, Of
<1>10. Linkage(t, l)
  <2>1. \A o \in All : Owned(t, o)
    BY <1>4, <1>8 DEF Inv, Linkage, Owned, SameHeap
  <2>2. \A o \in Alive(t) : Wired(t, o, Alive(t))
    <3>1. \A o \in Alive(p) : Wired(p, o, Alive(p))
      BY <1>4 DEF Inv, Linkage
    <3> QED
      BY <1>8, <1>9, <3>1, SameWired
  <2> QED
    BY <1>4, <1>6, <1>7, <1>8, <1>9, <2>1, <2>2 DEF Inv, Linkage, SameHeap, SameFates
<1>11. Colored(t)
  BY <1>4, <1>8, <1>9 DEF Inv, Colored, SameHeap
<1>12. Books(t)
  <2>1. \A x \in Of(t, {"udata"}) : isdead(t, x) => x \in t.finalized
    BY <1>4, <1>8, <1>9 DEF Inv, Books, isdead
  <2> QED
    <3>1. t.finalized \subseteq Of(t, {"udata"})
      BY <1>4, <1>8, <1>9 DEF Inv, Books
    <3>2. t.tmudata \cup t.ran = t.finalized /\ t.tmudata \cap t.ran = {}
      <4>1. t.tmudata = s.tmudata \ {u} /\ t.ran = s.ran \cup {u} /\ t.finalized = s.finalized
        BY <1>6, <1>7, <1>8 DEF SameFates
      <4>2. s.tmudata \cup s.ran = s.finalized /\ s.tmudata \cap s.ran = {}
        BY <1>1 DEF Books
      <4> QED
        BY <4>1, <4>2
    <3> QED
      BY <1>7, <1>8, <2>1, <3>1, <3>2 DEF Books
<1>13. Resting(t)
  <2>1. Resting(p)
    BY <1>4, <1>6 DEF Inv, Phase
  <2>2. p.marked[u] = p.white
    BY <1>2, <1>6
  <2> QED
    BY <1>6, <1>7, <1>8, <1>9, <2>1, <2>2 DEF Resting, SameFates
<1>14. Inv(t, l, {})
  BY <1>4, <1>6, <1>8, <1>10, <1>11, <1>12, <1>13 DEF Inv, Phase, MarkStates, Atomic
<1>15. t.kind[u] = "udata" /\ u \in Alive(t)
  BY <1>2, <1>4, <1>6, <1>8, <1>9 DEF SameHeap
<1> QED
  BY <1>6, <1>8, <1>14, <1>15

LEMMA GCTMKeeps ==
  ASSUME NEW s, NEW l, Inv(s, l, {}), s.state = "finalize", NEW u \in s.tmudata, NEW stores \in BOOLEAN
  PROVE  Inv(GCTM(s, u, stores), l, {})
<1> DEFINE t == [makewhite(s, {u}) EXCEPT !.tmudata = @ \ {u}, !.ran = @ \cup {u},
                                       !.lost = @ \cup ({u} \cap s.ran)]
           r == Pair(u, none)
           values == {u}
<1>1. /\ Inv(t, l, {}) /\ t.state = s.state /\ u \in Alive(t) /\ t.kind[u] = "udata"
  BY FinalizedKeeps
<1>2. GCTM(s, u, stores) = IF stores THEN luaC_barriert(Store(t, REGISTRY, r), REGISTRY, values) ELSE t
  BY DEF GCTM, Store
<1> HIDE DEF t
<1>3. r \in [1 .. 2 -> All \cup {none}] /\ r[1] = u /\ r[2] = none
  BY <1>1 DEF Pair, Alive, Used
<1>4. REGISTRY \in Alive(t) /\ t.kind[REGISTRY] \in Tables /\ t.kind[REGISTRY] \notin Weak
  BY <1>1 DEF Inv, Linkage, Tables, Weak
<1>5. t.state \notin Atomic
  BY <1>1 DEF Atomic
<1>6. values \ {none} = {r[1], r[2]} \ {none}
  BY <1>3
<1>7. \A i \in 1 .. 2 : r[i] # none => r[i] \in Alive(t) /\ t.kind[r[i]] # "upvalue"
  BY <1>1, <1>3
<1> HIDE DEF r, values
<1>8. Inv(luaC_barriert(Store(t, REGISTRY, r), REGISTRY, values), l, {})
  BY <1>1, <1>3, <1>4, <1>5, <1>6, <1>7, TableStoreKeeps
<1> QED
  BY <1>1, <1>2, <1>8

-----------------------------------------------------------------------------
(* What the collector does *)

LEMMA RestartedKeeps ==
  ASSUME NEW s, NEW l, Inv(s, l, {}), s.state \notin Atomic \cup {"closed"}
  PROVE  Inv(Restarted(s), l, {}) /\ Restarted(s).state \in {"sweepstring", "sweep", "finalize"}
<1> DEFINE unswept == Listed(s)
           t == [s EXCEPT !.gray = {}, !.grayagain = {}, !.weak = {}, !.unswept = unswept,
                          !.state = "sweepstring"]
<1>1. s \in State /\ Linkage(s, l) /\ Books(s)
  BY DEF Inv
<1>2. CASE s.state \in {"pause", "propagate"}
  <2>1. Restarted(s) = t
    BY <1>2 DEF Restarted
  <2>2. unswept \in SUBSET All
    BY DEF Listed, Used
  <2> HIDE DEF unswept
  <2>3. /\ t \in State /\ SameBut(s, t) /\ t.state = "sweepstring" /\ t.unswept = unswept
    BY <1>1, <2>2 DEF State, States, SameBut, SameHeap, SameFates
  <2> HIDE DEF t
  <2>4. Sweeping(t)
    <3>1. s.tmudata \subseteq Of(s, {"udata"})
      BY <1>1 DEF Books
    <3> QED
      BY <1>1, <2>3, <3>1, BeginsSweep DEF Linkage, SameBut, SameHeap, SameFates, unswept
  <2>5. Inv(t, l, {})
    BY <2>3, <2>4, SameButKeeps DEF Phase, MarkStates, Atomic
  <2> QED
    BY <2>1, <2>3, <2>5
<1>3. CASE s.state \notin {"pause", "propagate"}
  <2>1. Restarted(s) = s
    BY <1>3 DEF Restarted
  <2> QED
    BY <1>1, <1>3, <2>1 DEF State, States
<1> QED
  BY <1>2, <1>3

LEMMA SinglestepKeeps ==
  ASSUME NEW s, NEW l, Inv(s, l, {}), NEW t \in singlestep(s, l), s.state # "closed"
  PROVE  Inv(t, l, {})
<1>1. s \in State
  BY DEF Inv
<1>2. CASE s.state = "pause"
  <2>1. t = markroot(s)
    BY <1>2 DEF singlestep, Atomic
  <2> QED
    BY <1>2, <2>1, MarkrootKeeps
<1>3. CASE s.state \in MarkStates
  <2>1. /\ s.state # "pause" /\ s.state # "sweepstring" /\ s.state # "sweep" /\ s.state # "finalize"
        /\ s.state \in {"propagate"} \cup Atomic
    BY <1>3 DEF MarkStates, Atomic
  <2>2. t \in IF s.gray = {} THEN {atomic(s, l)} ELSE {propagatemark(s, o) : o \in s.gray}
    BY <2>1 DEF singlestep
  <2>3. CASE s.gray = {}
    BY <1>3, <2>2, <2>3, AtomicKeeps
  <2>4. CASE s.gray # {}
    <3>1. PICK o \in s.gray : t = propagatemark(s, o)
      BY <2>2, <2>4
    <3> QED
      BY <1>3, <3>1, PropagatemarkKeeps
  <2> QED
    BY <2>3, <2>4
<1>4. CASE s.state = "sweepstring"
  <2>1. t = sweepstrings(s)
    BY <1>4 DEF singlestep, Atomic
  <2> QED
    BY <1>4, <2>1, SweepstringsKeeps
<1>5. CASE s.state = "sweep"
  <2>1. t \in {IF x.unswept = {} THEN [x EXCEPT !.state = "finalize"] ELSE x :
                 x \in {sweeplist(s, o) : o \in s.unswept}}
    BY <1>5 DEF singlestep, Atomic
  <2>2. PICK x \in {sweeplist(s, o) : o \in s.unswept} :
          t = IF x.unswept = {} THEN [x EXCEPT !.state = "finalize"] ELSE x
    BY <2>1
  <2>3. PICK o \in s.unswept : x = sweeplist(s, o)
    OBVIOUS
  <2>4. Inv(x, l, {}) /\ x.state = "sweep"
    BY <1>5, <2>3, SweeplistKeeps
  <2>5. CASE x.unswept = {}
    <3>1. Inv([x EXCEPT !.state = "finalize"], l, {})
      BY <2>4, <2>5, SweptAllKeeps
    <3> QED
      BY <2>2, <2>5, <3>1
  <2>6. CASE x.unswept # {}
    BY <2>2, <2>4, <2>6
  <2> QED
    BY <2>5, <2>6
<1>6. CASE s.state = "finalize"
  <2>1. t \in IF s.tmudata = {} THEN {[s EXCEPT !.state = "pause"]}
              ELSE {GCTM(s, u, stores) : u \in s.tmudata, stores \in BOOLEAN}
    BY <1>6 DEF singlestep, Atomic
  <2>2. CASE s.tmudata = {}
    <3>1. Inv([s EXCEPT !.state = "pause"], l, {})
      BY <1>6, PauseKeeps
    <3> QED
      BY <2>1, <2>2, <3>1
  <2>3. CASE s.tmudata # {}
    <3>1. \E u \in s.tmudata : \E stores \in BOOLEAN : t = GCTM(s, u, stores)
      BY <2>1, <2>3
    <3>2. PICK u \in s.tmudata : \E stores \in BOOLEAN : t = GCTM(s, u, stores)
      BY <3>1
    <3>3. PICK stores \in BOOLEAN : t = GCTM(s, u, stores)
      BY <3>2
    <3>4. Inv(GCTM(s, u, stores), l, {})
      BY <1>6, GCTMKeeps
    <3> QED
      BY <3>3, <3>4
  <2> QED
    BY <2>2, <2>3
<1> QED
  BY <1>1, <1>2, <1>3, <1>4, <1>5, <1>6 DEF State, States, MarkStates

-----------------------------------------------------------------------------
(* What the program does *)

\* A value that the program may have: none, or what it can get at.
Sound(s, v) == v = none \/ (v \in Alive(s) /\ s.kind[v] # "upvalue")

\* What a thread has on its stack, and what an object that is alive holds.
LEMMA HeldIsSound ==
  ASSUME NEW s, NEW l, Inv(s, l, {}), NEW o \in Alive(s)
  PROVE  /\ s.kind[o] # "closure" => \A i \in 1 .. 2 : Sound(s, s.refs[o][i])
         /\ s.kind[o] = "closure" =>
              /\ s.refs[o][1] \in Alive(s) /\ s.kind[s.refs[o][1]] = "upvalue" /\ s.refs[o][2] = none
              /\ Sound(s, Value(s, s.refs[o][1]))
<1>1. s \in State /\ Wired(s, o, Alive(s)) /\ \A x \in Alive(s) : Wired(s, x, Alive(s)) /\ x \in All
  BY DEF Inv, Linkage, Alive, Used
<1>2. ASSUME s.kind[o] # "closure", NEW i \in 1 .. 2
      PROVE  Sound(s, s.refs[o][i])
  <2>1. s.refs[o][i] # none => s.refs[o][i] \in Leads(s, o)
    BY DEF Leads
  <2> QED
    BY <1>1, <1>2, <2>1 DEF Wired, Sound
<1>3. ASSUME s.kind[o] = "closure"
      PROVE  /\ s.refs[o][1] \in Alive(s) /\ s.kind[s.refs[o][1]] = "upvalue" /\ s.refs[o][2] = none
             /\ Sound(s, Value(s, s.refs[o][1]))
  <2>1. s.refs[o][1] \in Alive(s) /\ s.kind[s.refs[o][1]] = "upvalue" /\ s.refs[o][2] = none
    BY <1>1, <1>3 DEF Wired, Leads
  <2>2. Wired(s, s.refs[o][1], Alive(s))
    BY <1>1, <2>1
  <2>3. Value(s, s.refs[o][1]) # none => Value(s, s.refs[o][1]) \in Leads(s, s.refs[o][1])
    BY DEF Leads
  <2> QED
    BY <2>1, <2>2, <2>3 DEF Wired, Sound
<1> QED
  BY <1>2, <1>3

\* A value on the stack of a thread, which has no barrier.
LEMMA HoldKeeps ==
  ASSUME NEW s, NEW l, Inv(s, l, {}), s.state \notin Atomic,
         NEW o \in Alive(s), s.kind[o] = "thread", NEW i \in 1 .. 2, NEW v, Sound(s, v)
  PROVE  /\ Inv([s EXCEPT !.refs[o][i] = v], l, {})
         /\ Inv([s EXCEPT !.refs[o][i] = v], o, {})
<1>1. s \in State /\ l \in All /\ o \in Used(s) /\ o \in All /\ Owned(s, o)
  BY DEF Inv, Linkage, Alive, Used
<1> DEFINE r == [s.refs[o] EXCEPT ![i] = v]
<1>2. r \in [1 .. 2 -> All \cup {none}]
  BY <1>1 DEF State, Sound, Alive, Used
<1>3. \A j \in 1 .. 2 : r[j] = IF j = i THEN v ELSE s.refs[o][j]
  BY <1>1 DEF State
<1>4. [s EXCEPT !.refs[o][i] = v] = Store(s, o, r)
  BY <1>1 DEF State, Store
<1> HIDE DEF r
<1> DEFINE t == Store(s, o, r)
<1>5. /\ t \in State /\ SameRest(s, t) /\ t.kind = s.kind /\ t.owner = s.owner /\ t.level = s.level
      /\ t.refs = [s.refs EXCEPT ![o] = r]
  BY <1>1, <1>2, StoreIs
<1> HIDE DEF t
<1>6. s.owner[o] = o
  BY <1>1 DEF Owned
<1>7. s.marked[o] # BLACK
  BY <1>1 DEF Inv, Colored, Tables, Weak
<1>8. \A j \in 1 .. 2 : r[j] \in {none, s.refs[o][j]} \/ (r[j] \in Alive(s) /\ s.kind[r[j]] # "upvalue")
  BY <1>3 DEF Sound
<1>9. Inv(t, l, {})
  <2>1. s.kind[o] \in Tables \cup {"thread", "udata", "upvalue"} /\ s.kind[o] \notin Weak
    BY DEF Weak
  <2>2. s.kind[o] # "udata" /\ s.kind[o] # "upvalue"
    OBVIOUS
  <2>3. Inv(t, l, {o}) /\ (s.marked[o] # BLACK => Inv(t, l, {}))
    BY <1>1, <1>2, <1>5, <1>6, <1>8, <2>1, <2>2, StoreKeeps
  <2> QED
    BY <1>7, <2>3
<1>10. Inv(t, o, {})
  <2>1. o \in Alive(t) /\ t.kind[o] = "thread"
    BY <1>5, AliveIs DEF SameRest, SamePhase
  <2>2. t.state \notin Atomic
    BY <1>5 DEF SameRest, SamePhase
  <2>3. Linkage(t, o)
    BY <1>9, <2>1 DEF Inv, Linkage
  <2>4. t.state \in MarkStates => Marking(t, o, {})
    BY <1>9, <2>2 DEF Inv, Phase, Marking, Roots, Atomic
  <2> QED
    BY <1>1, <1>9, <2>3, <2>4 DEF Inv, Phase
<1> QED
  BY <1>4, <1>9, <1>10 DEF t

\* A dead object that is found again is brought back.
LEMMA RevivedKeeps ==
  ASSUME NEW s, NEW l, Inv(s, l, {}), s.state \notin Atomic, NEW x \in Used(s),
         Wired(s, x, Alive(s) \cup {x}), NEW S, S = {y \in {x} : isdead(s, y)}
  PROVE  /\ Inv(makewhite(s, S), l, {}) /\ Alive(makewhite(s, S)) = Alive(s) \cup {x}
         /\ Painted(s, makewhite(s, S), S, s.white)
<1>1. s \in State /\ S \subseteq Used(s)
  BY DEF Inv
<1>2. Painted(s, makewhite(s, S), S, s.white)
  BY <1>1, WhiteIs
<1> DEFINE t == makewhite(s, S)
<1> HIDE DEF t
<1>3. CASE isdead(s, x)
  <2>1. s.state \notin MarkStates
    BY <1>3 DEF Inv, Phase, Marking
  <2>2. S = {x}
    BY <1>3
  <2>3. \A y \in S : Wired(s, y, Alive(s) \cup S)
    BY <2>2
  <2> QED
    BY <1>1, <1>2, <2>1, <2>2, <2>3, MakewhiteKeeps
<1>4. CASE ~isdead(s, x)
  <2>1. S = {}
    BY <1>4
  <2>2. SameHeap(s, t) /\ t \in State /\ SameRest(s, t)
    <3>1. t.marked = s.marked
      BY <1>1, <1>2, <2>1 DEF Painted, State, t
    <3> QED
      BY <1>2, <3>1 DEF Painted, SameRest, t
  <2>3. t = s
    BY <1>1, <2>2, SameState
  <2> QED
    BY <1>2, <1>4, <2>3 DEF t, Alive
<1> QED
  BY <1>3, <1>4

LEMMA LinkedIs ==
  ASSUME NEW s \in State, NEW o \in All, NEW k \in Kinds, NEW r \in [1 .. 2 -> All \cup {none}], NEW t,
         t = Linked(s, o, k, r)
  PROVE  /\ t \in State
         /\ t.kind = [s.kind EXCEPT ![o] = k] /\ t.refs = [s.refs EXCEPT ![o] = r]
         /\ t.marked = [s.marked EXCEPT ![o] = s.white]
         /\ t.owner = s.owner /\ t.level = s.level
         /\ SameLists(s, t) /\ SameFates(s, t) /\ SamePhase(s, t)
<1> DEFINE kind == [s.kind EXCEPT ![o] = k]
           refs == [s.refs EXCEPT ![o] = r]
           marked == [s.marked EXCEPT ![o] = s.white]
<1>1. t = [s EXCEPT !.kind = kind, !.refs = refs, !.marked = marked]
  BY DEF State, Linked
<1>2. kind \in [All -> Kinds] /\ refs \in [All -> [1 .. 2 -> All \cup {none}]] /\ marked \in [All -> 0 .. 3]
  BY DEF State
<1> HIDE DEF kind, refs, marked
<1>3. t \in State
  BY <1>1, <1>2 DEF State
<1>4. SameLists(s, t) /\ SameFates(s, t) /\ SamePhase(s, t)
  BY <1>1 DEF State, SameLists, SameFates, SamePhase
<1>5. /\ t.kind = kind /\ t.refs = refs /\ t.marked = marked
      /\ t.owner = s.owner /\ t.level = s.level
  BY <1>1 DEF State
<1> QED
  BY <1>3, <1>4, <1>5 DEF kind, refs, marked

LEMMA PairIs ==
  ASSUME NEW a \in All \cup {none}, NEW b \in All \cup {none}
  PROVE  Pair(a, b) \in [1 .. 2 -> All \cup {none}] /\ Pair(a, b)[1] = a /\ Pair(a, b)[2] = b
BY DEF Pair

\* A new object with at most one value.
LEMMA LinkedKeeps ==
  ASSUME NEW s, NEW l, Inv(s, l, {}), s.state \notin Atomic, NEW o \in All \ Used(s),
         NEW k \in {"string", "udata", "thread"} \cup Tables, NEW v, Sound(s, v),
         k = "udata" => v # none /\ s.kind[v] \in Tables,
         k \in {"string"} \cup Weak => v = none,
         NEW t, t = Linked(s, o, k, Pair(v, none))
  PROVE  /\ Inv(t, l, {}) /\ t.state = s.state /\ Alive(t) = Alive(s) \cup {o}
         /\ t.kind = [s.kind EXCEPT ![o] = k]
<1>1. s \in State /\ Owned(s, o) /\ s.kind[o] = "free"
  BY DEF Inv, Linkage, Used
<1> DEFINE r == Pair(v, none)
<1>2. r \in [1 .. 2 -> All \cup {none}] /\ r[1] = v /\ r[2] = none
  BY PairIs DEF Sound, Alive, Used
<1>3. k \in Kinds \ {"free"} /\ k # "closure" /\ k # "upvalue"
  BY DEF Kinds, Traversed, Tables, Weak
<1>4. k = "string" => r = Pair(none, none)
  OBVIOUS
<1> HIDE DEF r
<1>5. t = Linked(s, o, k, r)
  BY DEF r
<1>6. /\ t \in State
      /\ t.kind = [s.kind EXCEPT ![o] = k] /\ t.refs = [s.refs EXCEPT ![o] = r]
      /\ t.marked = [s.marked EXCEPT ![o] = s.white]
      /\ t.owner = s.owner /\ t.level = s.level
      /\ SameLists(s, t) /\ SameFates(s, t) /\ SamePhase(s, t)
  BY <1>1, <1>2, <1>3, <1>5, LinkedIs
<1>7. s.owner[o] = o /\ s.level[o] = 1
  BY <1>1 DEF Owned
<1>8. t.owner = [s.owner EXCEPT ![o] = o] /\ t.level = [s.level EXCEPT ![o] = 1]
  BY <1>1, <1>6, <1>7 DEF State
<1>9. \A i \in 1 .. 2 : r[i] # none => r[i] \in Alive(s) /\ (s.kind[r[i]] = "upvalue" => k = "closure")
  BY <1>2 DEF Sound
<1>10. k \in Weak /\ r[2] = none => r[1] = none
  BY <1>2
<1>11. k = "udata" => r[1] # none /\ s.kind[r[1]] \in Tables
  BY <1>2
<1>12. Inv(t, l, {}) /\ Alive(t) = Alive(s) \cup {o}
  <2>1. /\ t.kind = [s.kind EXCEPT ![o] = k] /\ t.refs = [s.refs EXCEPT ![o] = r]
        /\ t.marked = [s.marked EXCEPT ![o] = s.white]
        /\ t.owner = [s.owner EXCEPT ![o] = o] /\ t.level = [s.level EXCEPT ![o] = 1]
    BY <1>6, <1>8
  <2>2. IsNew(s, t, l, o, k, r, o, 1)
    BY <1>2, <1>3, <1>4, <1>6, <1>9, <1>10, <1>11, <2>1 DEF IsNew
  <2> QED
    BY <2>2, NewKeeps
<1> QED
  BY <1>6, <1>12 DEF SamePhase

\* The running program.
Ready == Inv(g, L, {}) /\ g.state \notin Atomic \cup {"closed"}


LEMMA Running ==
  ASSUME Ready
  PROVE  /\ g \in State /\ L \in Alive(g) /\ g.kind[L] = "thread" /\ L \in All /\ g.state \notin Atomic
         /\ MAIN \in Alive(g) /\ REGISTRY \in Alive(g)
         /\ g.kind[MAIN] = "thread" /\ g.kind[REGISTRY] = "table"
BY DEF Ready, Inv, Linkage

LEMMA AssignKeeps ==
  ASSUME Ready, NEW i \in 1 .. 2, NEW v, Sound(g, v), Assign(i, v), L' = L
  PROVE  Inv(g', L', {})
<1>1. g' = [g EXCEPT !.refs[L][i] = v]
  BY DEF Assign, Hold
<1>2. Inv([g EXCEPT !.refs[L][i] = v], L, {})
  BY Running, HoldKeeps DEF Ready
<1> QED
  BY <1>1, <1>2

LEMMA NextUnusedIs ==
  ASSUME NEW s, NEW o \in NextUnused(s)
  PROVE  o \in All \ Used(s) /\ o \in Objects
BY DEF NextUnused, Unused, Used, All

LEMMA NewStringKeeps ==
  ASSUME Ready, NEW i \in 1 .. 2, luaS_newlstr(i), L' = L
  PROVE  Inv(g', L', {})
<1>1. CASE \E o \in Of(g, {"string"}) : g' = Hold(makewhite(g, {x \in {o} : isdead(g, x)}), i, o)
  <2>1. PICK o \in Of(g, {"string"}) : g' = Hold(makewhite(g, {x \in {o} : isdead(g, x)}), i, o)
    BY <1>1
  <2> DEFINE S == {x \in {o} : isdead(g, x)}
             s == makewhite(g, S)
  <2>2. o \in Used(g) /\ g.kind[o] = "string" /\ Owned(g, o)
    BY DEF Of, Used, Ready, Inv, Linkage
  <2>3. Wired(g, o, Alive(g) \cup {o})
    <3>1. g.refs[o] = Pair(none, none) /\ g.owner[o] = o /\ g.level[o] = 1
      BY <2>2 DEF Owned
    <3>2. Leads(g, o) = {}
      BY <3>1 DEF Leads, Value, Pair
    <3> QED
      BY <2>2, <3>1, <3>2 DEF Wired, Weak
  <2> HIDE DEF S
  <2>4. Inv(s, L, {}) /\ Alive(s) = Alive(g) \cup {o} /\ Painted(g, s, S, g.white)
    BY <2>2, <2>3, Running, RevivedKeeps DEF Ready, S
  <2> HIDE DEF s
  <2>5. L \in Alive(s) /\ s.kind[L] = "thread" /\ s.state \notin Atomic /\ Sound(s, o)
    BY <2>2, <2>4, Running DEF Painted, SameHeap, SamePhase, Sound
  <2>6. g' = [s EXCEPT !.refs[L][i] = o]
    BY <2>1 DEF Hold, s, S
  <2> QED
    BY <2>4, <2>5, <2>6, HoldKeeps
<1>2. CASE \E o \in NextUnused(g) : g' = Hold(Linked(g, o, "string", Pair(none, none)), i, o)
  <2>1. PICK o \in NextUnused(g) : g' = Hold(Linked(g, o, "string", Pair(none, none)), i, o)
    BY <1>2
  <2> DEFINE s == Linked(g, o, "string", Pair(none, none))
  <2>2. o \in All \ Used(g)
    BY NextUnusedIs
  <2>3. /\ Inv(s, L, {}) /\ s.state = g.state /\ Alive(s) = Alive(g) \cup {o}
        /\ s.kind = [g.kind EXCEPT ![o] = "string"]
    BY <2>2, Running, LinkedKeeps DEF Ready, Sound
  <2>4. g' = [s EXCEPT !.refs[L][i] = o]
    BY <2>1 DEF Hold
  <2> HIDE DEF s
  <2>5. L \in Alive(s) /\ s.kind[L] = "thread" /\ s.state \notin Atomic /\ Sound(s, o)
    BY <2>2, <2>3, Running DEF Sound, Alive, Used, State
  <2> QED
    BY <2>3, <2>4, <2>5, HoldKeeps
<1> QED
  BY <1>1, <1>2 DEF luaS_newlstr

LEMMA NewObjectKeeps ==
  ASSUME Ready, NEW i \in 1 .. 2, NEW k \in {"udata", "thread"} \cup Tables, NEW v, Sound(g, v),
         k = "udata" => v # none /\ g.kind[v] \in Tables, k \in Weak => v = none,
         New(k, i, v), L' = L
  PROVE  Inv(g', L', {})
<1>1. PICK o \in NextUnused(g) : g' = Hold(Linked(g, o, k, Pair(v, none)), i, o)
  BY DEF New
<1> DEFINE s == Linked(g, o, k, Pair(v, none))
<1>2. o \in All \ Used(g) /\ k \in {"string", "udata", "thread"} \cup Tables /\ k # "string" /\ k # "upvalue"
  BY NextUnusedIs DEF Tables, Weak
<1>3. /\ Inv(s, L, {}) /\ s.state = g.state /\ Alive(s) = Alive(g) \cup {o}
      /\ s.kind = [g.kind EXCEPT ![o] = k]
  BY <1>2, Running, LinkedKeeps DEF Ready
<1>4. g' = [s EXCEPT !.refs[L][i] = o]
  BY <1>1 DEF Hold
<1> HIDE DEF s
<1>5. L \in Alive(s) /\ s.kind[L] = "thread" /\ s.state \notin Atomic /\ Sound(s, o)
  BY <1>2, <1>3, Running DEF Sound, Alive, Used, State
<1> QED
  BY <1>3, <1>4, <1>5, HoldKeeps

\* A new open upvalue of thread l.
LEMMA OpenedIs ==
  ASSUME NEW s \in State, NEW uv \in All, NEW l \in All, NEW level \in 1 .. 2, NEW t,
         t = [Linked(s, uv, "upvalue", Pair(none, none)) EXCEPT !.owner[uv] = l, !.level[uv] = level]
  PROVE  /\ t \in State
         /\ t.kind = [s.kind EXCEPT ![uv] = "upvalue"] /\ t.refs = [s.refs EXCEPT ![uv] = Pair(none, none)]
         /\ t.marked = [s.marked EXCEPT ![uv] = s.white]
         /\ t.owner = [s.owner EXCEPT ![uv] = l] /\ t.level = [s.level EXCEPT ![uv] = level]
         /\ SameLists(s, t) /\ SameFates(s, t) /\ SamePhase(s, t)
<1> DEFINE x == Linked(s, uv, "upvalue", Pair(none, none))
           owner == [s.owner EXCEPT ![uv] = l]
           lev == [s.level EXCEPT ![uv] = level]
<1>1. Pair(none, none) \in [1 .. 2 -> All \cup {none}] /\ "upvalue" \in Kinds
  BY PairIs DEF Kinds
<1>2. /\ x \in State
      /\ x.kind = [s.kind EXCEPT ![uv] = "upvalue"] /\ x.refs = [s.refs EXCEPT ![uv] = Pair(none, none)]
      /\ x.marked = [s.marked EXCEPT ![uv] = s.white]
      /\ x.owner = s.owner /\ x.level = s.level
      /\ SameLists(s, x) /\ SameFates(s, x) /\ SamePhase(s, x)
  BY <1>1, LinkedIs
<1> HIDE DEF x
<1>3. t = [x EXCEPT !.owner = owner, !.level = lev]
  BY <1>2 DEF State, x
<1>4. owner \in [All -> All] /\ lev \in [All -> 1 .. 2]
  BY DEF State
<1> HIDE DEF owner, lev
<1>5. x \in State
  BY <1>2
<1>6. t \in State
  BY <1>3, <1>4, <1>5 DEF State
<1>7. t.kind = x.kind /\ t.refs = x.refs /\ t.marked = x.marked /\ t.owner = owner /\ t.level = lev
  BY <1>3, <1>5 DEF State
<1>8. SameLists(x, t) /\ SameFates(x, t) /\ SamePhase(x, t)
  BY <1>3, <1>5 DEF State, SameLists, SameFates, SamePhase
<1> QED
  BY <1>2, <1>6, <1>7, <1>8 DEF owner, lev, SameLists, SameFates, SamePhase

\* A new closure with an upvalue that is alive: what else the state s gets meanwhile
\* does not matter.
LEMMA ClosureKeeps ==
  ASSUME NEW s, NEW t \in State, NEW l, Inv(s, l, {}), s.state \notin Atomic,
         NEW o \in All \ Used(s), NEW uv \in Alive(s), s.kind[uv] = "upvalue", NEW i \in 1 .. 2,
         t.kind = [s.kind EXCEPT ![o] = "closure"], t.refs = [s.refs EXCEPT ![o] = Pair(uv, none)],
         t.marked = [s.marked EXCEPT ![o] = s.white], t.owner = s.owner, t.level = s.level,
         SameLists(s, t), SameFates(s, t), SamePhase(s, t)
  PROVE  Inv([t EXCEPT !.refs[l][i] = o], l, {})
<1>1. /\ s \in State /\ Owned(s, o) /\ s.kind[o] = "free" /\ uv \in All
      /\ l \in Alive(s) /\ l \in All /\ s.kind[l] = "thread" /\ l # o
  BY DEF Inv, Linkage, Used, Alive
<1> DEFINE r == Pair(uv, none)
<1>2. r \in [1 .. 2 -> All \cup {none}] /\ r[1] = uv /\ r[2] = none
  BY <1>1, PairIs
<1> HIDE DEF r
<1>3. t.owner = [s.owner EXCEPT ![o] = o] /\ t.level = [s.level EXCEPT ![o] = 1]
  BY <1>1 DEF State, Owned
<1>4. IsNew(s, t, l, o, "closure", r, o, 1)
  <2>1. t.refs = [s.refs EXCEPT ![o] = r]
    BY DEF r
  <2>2. "closure" \in Kinds \ {"free"} /\ "closure" \notin Weak
    BY DEF Kinds, Traversed, Weak
  <2>3. uv # none
    BY <1>1, Numbers
  <2> QED
    BY <1>2, <1>3, <2>1, <2>2, <2>3 DEF IsNew
<1>5. Inv(t, l, {}) /\ Alive(t) = Alive(s) \cup {o}
  BY <1>4, NewKeeps
<1>6. l \in Alive(t) /\ t.kind[l] = "thread" /\ t.state \notin Atomic /\ Sound(t, o)
  BY <1>1, <1>5 DEF Sound, State, SamePhase
<1> QED
  BY <1>5, <1>6, HoldKeeps

LEMMA NewClosureKeeps ==
  ASSUME Ready, NEW i \in 1 .. 2, NEW level \in 1 .. 2, NewClosure(i, level), L' = L
  PROVE  Inv(g', L', {})
<1>1. PICK o \in NextUnused(g) :
        \E found \in luaF_findupval(Linked(g, o, "closure", Pair(none, none)), level) :
          g' = Hold([found.s EXCEPT !.refs[o] = Pair(found.uv, none)], i, o)
  BY DEF NewClosure
<1> DEFINE c == Linked(g, o, "closure", Pair(none, none))
           Open(s) == {uv \in OpenUpvals(s) : s.owner[uv] = L /\ s.level[uv] = level}
<1>2. PICK found \in luaF_findupval(c, level) :
        g' = Hold([found.s EXCEPT !.refs[o] = Pair(found.uv, none)], i, o)
  BY <1>1
<1>3. /\ o \in All \ Used(g) /\ g \in State /\ L \in All /\ L \in Alive(g) /\ g.kind[L] = "thread"
      /\ L \in Used(g) /\ Inv(g, L, {}) /\ g.state \notin Atomic /\ \A x \in All : Owned(g, x)
  BY NextUnusedIs, Running DEF Ready, Inv, Linkage, Alive
<1>4. /\ c \in State
      /\ c.kind = [g.kind EXCEPT ![o] = "closure"] /\ c.refs = [g.refs EXCEPT ![o] = Pair(none, none)]
      /\ c.marked = [g.marked EXCEPT ![o] = g.white]
      /\ c.owner = g.owner /\ c.level = g.level
      /\ SameLists(g, c) /\ SameFates(g, c) /\ SamePhase(g, c)
  <2>1. Pair(none, none) \in [1 .. 2 -> All \cup {none}] /\ "closure" \in Kinds
    BY PairIs DEF Kinds, Traversed
  <2> QED
    BY <1>3, <2>1, LinkedIs
<1>5. Open(c) = Open(g)
  BY <1>4 DEF OpenUpvals
<1>6. found \in IF Open(c) = {}
                THEN {[uv |-> uv, s |-> [Linked(c, uv, "upvalue", Pair(none, none))
                                           EXCEPT !.owner[uv] = L, !.level[uv] = level]] : uv \in NextUnused(c)}
                ELSE {[uv |-> uv, s |-> makewhite(c, {x \in {uv} : isdead(c, x)})] : uv \in Open(c)}
  BY <1>2 DEF luaF_findupval
<1> DEFINE f == found.s
           uv == found.uv
           r == Pair(uv, none)
           t == Store(f, o, r)
<1>7. g' = [t EXCEPT !.refs[L][i] = o]
  BY <1>2 DEF Hold, Store
<1> HIDE DEF c
<1>8. CASE Open(c) = {}
  <2>1. PICK x \in NextUnused(c) :
          found = [uv |-> x, s |-> [Linked(c, x, "upvalue", Pair(none, none))
                                      EXCEPT !.owner[x] = L, !.level[x] = level]]
    BY <1>6, <1>8
  <2>2. uv = x /\ f = [Linked(c, x, "upvalue", Pair(none, none)) EXCEPT !.owner[x] = L, !.level[x] = level]
    BY <2>1
  <2> DEFINE s == [Linked(g, x, "upvalue", Pair(none, none)) EXCEPT !.owner[x] = L, !.level[x] = level]
  <2>3. x \in All \ Used(g) /\ x # o /\ x # L /\ o # L
    <3>1. x \in All \ Used(c)
      BY NextUnusedIs
    <3> QED
      BY <1>3, <1>4, <3>1 DEF Used, State
  <2> HIDE DEF f, uv
  <2>4. /\ f \in State
        /\ f.kind = [c.kind EXCEPT ![x] = "upvalue"] /\ f.refs = [c.refs EXCEPT ![x] = Pair(none, none)]
        /\ f.marked = [c.marked EXCEPT ![x] = c.white]
        /\ f.owner = [c.owner EXCEPT ![x] = L] /\ f.level = [c.level EXCEPT ![x] = level]
        /\ SameLists(c, f) /\ SameFates(c, f) /\ SamePhase(c, f)
    <3> DEFINE n == [Linked(c, x, "upvalue", Pair(none, none)) EXCEPT !.owner[x] = L, !.level[x] = level]
    <3>1. /\ n \in State
          /\ n.kind = [c.kind EXCEPT ![x] = "upvalue"] /\ n.refs = [c.refs EXCEPT ![x] = Pair(none, none)]
          /\ n.marked = [c.marked EXCEPT ![x] = c.white]
          /\ n.owner = [c.owner EXCEPT ![x] = L] /\ n.level = [c.level EXCEPT ![x] = level]
          /\ SameLists(c, n) /\ SameFates(c, n) /\ SamePhase(c, n)
      BY <1>3, <1>4, <2>3, OpenedIs
    <3>2. f = n
      BY <2>2
    <3> HIDE DEF n
    <3> QED
      BY <3>1, <3>2
  <2>5. /\ s \in State
        /\ s.kind = [g.kind EXCEPT ![x] = "upvalue"] /\ s.refs = [g.refs EXCEPT ![x] = Pair(none, none)]
        /\ s.marked = [g.marked EXCEPT ![x] = g.white]
        /\ s.owner = [g.owner EXCEPT ![x] = L] /\ s.level = [g.level EXCEPT ![x] = level]
        /\ SameLists(g, s) /\ SameFates(g, s) /\ SamePhase(g, s)
    BY <1>3, <2>3, OpenedIs
  <2> HIDE DEF s
  <2>6. Inv(s, L, {}) /\ Alive(s) = Alive(g) \cup {x}
    <3> DEFINE n == Pair(none, none)
    <3>1. n \in [1 .. 2 -> All \cup {none}] /\ n[1] = none /\ n[2] = none
      BY PairIs
    <3>2. "upvalue" \in Kinds \ {"free"} /\ "upvalue" \notin Weak
      BY DEF Kinds, Weak
    <3>3. s.refs = [g.refs EXCEPT ![x] = n]
      BY <2>5
    <3>4. n = Pair(none, none)
      OBVIOUS
    <3> HIDE DEF n
    <3>5. \A j \in 1 .. 2 : n[j] = none
      BY <3>1
    <3>6. IsNew(g, s, L, x, "upvalue", n, L, level)
      BY <1>3, <2>3, <2>5, <3>1, <3>2, <3>3, <3>4, <3>5 DEF IsNew
    <3> QED
      BY <1>3, <3>6, NewKeeps
  <2>7. o \in All \ Used(s) /\ x \in Alive(s) /\ s.kind[x] = "upvalue" /\ s.state \notin Atomic
    BY <1>3, <2>3, <2>5, <2>6 DEF Used, State, SamePhase
  <2>8. r \in [1 .. 2 -> All \cup {none}] /\ r = Pair(x, none)
    BY <2>2, <2>3, PairIs
  <2> HIDE DEF r
  <2>9. /\ t \in State /\ SameRest(f, t) /\ t.kind = f.kind /\ t.owner = f.owner /\ t.level = f.level
        /\ t.refs = [f.refs EXCEPT ![o] = r]
    BY SMTT(30), <1>3, <2>4, <2>8, StoreIs
  <2> HIDE DEF t
  <2>10. /\ t.kind = [s.kind EXCEPT ![o] = "closure"] /\ t.marked = [s.marked EXCEPT ![o] = s.white]
         /\ t.owner = s.owner /\ t.level = s.level
    <3>1. t.kind \in [All -> Kinds] /\ s.kind \in [All -> Kinds] /\ g.kind \in [All -> Kinds]
      BY <1>3, <2>5, <2>9 DEF State
    <3>2. \A y \in All : t.kind[y] = [s.kind EXCEPT ![o] = "closure"][y]
      BY <1>3, <1>4, <2>3, <2>4, <2>5, <2>9, <3>1
    <3>3. t.kind = [s.kind EXCEPT ![o] = "closure"]
      BY <3>1, <3>2
    <3>4. t.marked \in [All -> 0 .. 3] /\ s.marked \in [All -> 0 .. 3] /\ g.marked \in [All -> 0 .. 3]
      BY <1>3, <2>5, <2>9 DEF State
    <3>5. t.marked = f.marked /\ c.white = g.white /\ s.white = g.white
      BY <1>4, <2>5, <2>9 DEF SameRest, SamePhase
    <3>6. \A y \in All : t.marked[y] = [s.marked EXCEPT ![o] = s.white][y]
      BY <1>3, <1>4, <2>3, <2>4, <2>5, <3>4, <3>5
    <3>7. t.marked = [s.marked EXCEPT ![o] = s.white]
      BY <3>4, <3>6
    <3> QED
      BY <1>4, <2>4, <2>5, <2>9, <3>3, <3>7
  <2>11. t.refs = [s.refs EXCEPT ![o] = Pair(x, none)]
    <3>1. /\ t.refs \in [All -> [1 .. 2 -> All \cup {none}]] /\ s.refs \in [All -> [1 .. 2 -> All \cup {none}]]
          /\ g.refs \in [All -> [1 .. 2 -> All \cup {none}]]
      BY <1>3, <2>5, <2>9 DEF State
    <3>2. \A y \in All : t.refs[y] = [s.refs EXCEPT ![o] = r][y]
      BY <1>3, <1>4, <2>3, <2>4, <2>5, <2>9, <3>1
    <3> QED
      BY <2>8, <3>1, <3>2
  <2>12. SameLists(s, t) /\ SameFates(s, t) /\ SamePhase(s, t)
    BY <1>4, <2>4, <2>5, <2>9 DEF SameRest, SameLists, SameFates, SamePhase
  <2>13. Inv([t EXCEPT !.refs[L][i] = o], L, {})
    BY <2>6, <2>7, <2>9, <2>10, <2>11, <2>12, ClosureKeeps
  <2> QED
    BY <1>7, <2>13
<1>9. CASE Open(c) # {}
  <2>1. PICK x \in Open(c) : found = [uv |-> x, s |-> makewhite(c, {y \in {x} : isdead(c, y)})]
    BY <1>6, <1>9
  <2> DEFINE S == {y \in {x} : isdead(c, y)}
             s == makewhite(g, S)
  <2>2. uv = x /\ f = makewhite(c, S)
    BY <2>1
  <2>3. /\ x \in All /\ g.owner[x] = L /\ x # L /\ g.level[x] = level /\ Owned(g, x)
        /\ g.kind[x] = "upvalue" /\ x \in Used(g) /\ x # o
    BY <1>3, <1>5 DEF OpenUpvals, Owned, Used
  <2>4. S = {y \in {x} : isdead(g, y)}
    BY <1>3, <1>4, <2>3 DEF isdead, State, SamePhase
  <2>5. Wired(g, x, Alive(g) \cup {x})
    <3>1. g.refs[x] = Pair(none, none)
      BY <2>3 DEF Owned
    <3>2. Sound(g, g.refs[L][level])
      BY <1>3, HeldIsSound
    <3>3. Leads(g, x) = {g.refs[L][level]} \ {none}
      BY <2>3, <3>1 DEF Leads, Value, Pair
    <3> QED
      BY <2>3, <3>1, <3>2, <3>3 DEF Wired, Sound, Weak, Pair
  <2> HIDE DEF f, uv, S
  <2>6. Inv(s, L, {}) /\ Alive(s) = Alive(g) \cup {x} /\ Painted(g, s, S, g.white)
    BY <1>3, <2>3, <2>4, <2>5, RevivedKeeps
  <2> HIDE DEF s
  <2>7. Painted(c, f, S, c.white)
    BY <1>4, <2>2, WhiteIs
  <2>8. o \in All \ Used(s) /\ x \in Alive(s) /\ s.kind[x] = "upvalue" /\ s.state \notin Atomic
    BY <1>3, <2>3, <2>6 DEF Used, Painted, SameHeap, SamePhase
  <2>9. r \in [1 .. 2 -> All \cup {none}] /\ r = Pair(x, none)
    BY <2>2, <2>3, PairIs
  <2> HIDE DEF r
  <2>10. /\ t \in State /\ SameRest(f, t) /\ t.kind = f.kind /\ t.owner = f.owner /\ t.level = f.level
         /\ t.refs = [f.refs EXCEPT ![o] = r]
    BY <1>3, <2>7, <2>9, StoreIs DEF Painted
  <2> HIDE DEF t
  <2>11. /\ t.kind = [s.kind EXCEPT ![o] = "closure"] /\ t.owner = s.owner /\ t.level = s.level
         /\ s.white = g.white /\ c.white = g.white
    BY <1>4, <2>6, <2>7, <2>10 DEF SameHeap, Painted, SamePhase
  <2>12. t.refs = [s.refs EXCEPT ![o] = Pair(x, none)]
    BY <1>3, <1>4, <2>6, <2>7, <2>9, <2>10 DEF SameHeap, Painted, State
  <2>13. t.marked = [s.marked EXCEPT ![o] = s.white]
    <3>1. o \notin S
      BY <2>3, <2>4
    <3>2. t.marked = [y \in All |-> IF y \in S THEN g.white ELSE c.marked[y]]
      BY <2>7, <2>10, <2>11 DEF Painted, SameRest
    <3>3. s.marked = [y \in All |-> IF y \in S THEN g.white ELSE g.marked[y]]
      BY <2>6 DEF Painted
    <3>4. \A y \in All : c.marked[y] = IF y = o THEN g.white ELSE g.marked[y]
      BY <1>3, <1>4 DEF State
    <3> QED
      BY <2>11, <3>1, <3>2, <3>3, <3>4
  <2>14. SameLists(s, t) /\ SameFates(s, t) /\ SamePhase(s, t)
    BY <1>4, <2>6, <2>7, <2>10 DEF Painted, SameRest, SameLists, SameFates, SamePhase
  <2>15. Inv([t EXCEPT !.refs[L][i] = o], L, {})
    BY <2>6, <2>8, <2>10, <2>11, <2>12, <2>13, <2>14, ClosureKeeps
  <2> QED
    BY <1>7, <2>15
<1> QED
  BY <1>8, <1>9

LEMMA SetTableKeeps ==
  ASSUME Ready, NEW t \in Alive(g), g.kind[t] \in Tables, NEW a, NEW b, Sound(g, a), Sound(g, b),
         g.kind[t] \in Weak /\ b = none => a = none, SetTable(t, Pair(a, b)), L' = L
  PROVE  Inv(g', L', {})
<1> DEFINE r == Pair(a, b)
<1>1. r \in [1 .. 2 -> All \cup {none}] /\ r[1] = a /\ r[2] = b
  BY PairIs DEF Sound, Alive, Used
<1>2. g' = luaC_barriert(Store(g, t, r), t, {r[1], r[2]})
  BY DEF SetTable, Store
<1> HIDE DEF r
<1>3. \A i \in 1 .. 2 : r[i] # none => r[i] \in Alive(g) /\ g.kind[r[i]] # "upvalue"
  BY <1>1 DEF Sound
<1>4. Inv(luaC_barriert(Store(g, t, r), t, {r[1], r[2]}), L, {})
  BY <1>1, <1>3, Running, TableStoreKeeps DEF Ready
<1> QED
  BY <1>2, <1>4

LEMMA SetEnvKeeps ==
  ASSUME Ready, NEW u \in Alive(g), g.kind[u] = "udata", NEW v \in Alive(g), g.kind[v] \in Tables,
         SetEnv(u, v), L' = L
  PROVE  Inv(g', L', {})
<1> DEFINE r == Pair(v, none)
           t == Store(g, u, r)
<1>1. r \in [1 .. 2 -> All \cup {none}] /\ r[1] = v /\ r[2] = none /\ v # none
  BY PairIs, Numbers DEF Alive, Used
<1>2. g' = luaC_barrier(t, u, v)
  BY DEF SetEnv, Store
<1>3. g \in State /\ u \in All /\ u \in Used(g) /\ g.owner[u] = u /\ Inv(g, L, {}) /\ g.state \notin Atomic
  BY Running DEF Ready, Inv, Linkage, Owned, Alive, Used
<1> HIDE DEF r
<1>4. /\ t \in State /\ SameRest(g, t) /\ t.kind = g.kind /\ t.owner = g.owner /\ t.level = g.level
      /\ t.refs = [g.refs EXCEPT ![u] = r] /\ t.refs[u] = r
  BY <1>1, <1>3, StoreIs
<1> HIDE DEF t
<1>5. Inv(t, L, {u}) /\ (g.marked[u] # BLACK => Inv(t, L, {}))
  <2>1. \A i \in 1 .. 2 : r[i] \in {none, g.refs[u][i]} \/ (r[i] \in Alive(g) /\ g.kind[r[i]] # "upvalue")
    <3>1. g.kind[v] # "upvalue"
      BY DEF Tables, Weak
    <3> QED
      BY <1>1, <3>1
  <2>2. /\ g.kind[u] \in Tables \cup {"thread", "udata", "upvalue"} /\ g.kind[u] \notin Weak
        /\ r[1] # none /\ g.kind[r[1]] \in Tables /\ r[2] = none
    BY <1>1 DEF Weak
  <2> QED
    BY <1>1, <1>3, <1>4, <2>1, <2>2, StoreKeeps
<1>6. t.marked = g.marked /\ t.state = g.state /\ t.white = g.white
  BY <1>4 DEF SameRest, SamePhase
<1>7. u \in Alive(t) /\ v \in Alive(t)
  BY <1>4, <1>6, AliveIs
<1>8. Strong(t, u) \subseteq {v}
  BY <1>1, <1>4 DEF Strong
<1>9. Inv(luaC_barrier(t, u, v), L, {})
  BY <1>3, <1>5, <1>6, <1>7, <1>8, BarrierKeeps
<1> QED
  BY <1>2, <1>9

LEMMA SetUpvalKeeps ==
  ASSUME Ready, NEW c \in Alive(g), g.kind[c] = "closure", NEW v, Sound(g, v), SetUpval(c, v), L' = L
  PROVE  Inv(g', L', {})
<1> DEFINE uv == g.refs[c][1]
           o == g.owner[uv]
           n == g.level[uv]
           r == [g.refs[o] EXCEPT ![n] = v]
           t == Store(g, o, r)
<1>1. /\ g \in State /\ uv \in All /\ uv \in Used(g) /\ uv \in Alive(g) /\ g.kind[uv] = "upvalue"
      /\ Wired(g, uv, Alive(g)) /\ Owned(g, uv) /\ Inv(g, L, {}) /\ g.state \notin Atomic
  BY Running, HeldIsSound DEF Ready, Inv, Linkage, Alive, Used
<1>2. o \in All /\ n \in 1 .. 2 /\ Owned(g, o) /\ o \in Used(g) /\ g.owner[o] = o
      /\ IF o = uv THEN n = 1 ELSE g.kind[o] = "thread"
  BY <1>1 DEF State, Owned, Ready, Inv, Linkage, Used
<1>3. v \in All \cup {none} /\ r \in [1 .. 2 -> All \cup {none}]
      /\ \A i \in 1 .. 2 : r[i] = IF i = n THEN v ELSE g.refs[o][i]
  BY <1>1, <1>2 DEF State, Sound, Alive, Used
<1>4. g' = luaC_barrier(t, uv, v)
  <2>1. [g EXCEPT !.refs[o][n] = v] = t
    BY <1>1, <1>2 DEF State, Store
  <2> QED
    BY <2>1 DEF SetUpval
<1> HIDE DEF r, uv, o, n
<1>5. /\ t \in State /\ SameRest(g, t) /\ t.kind = g.kind /\ t.owner = g.owner /\ t.level = g.level
      /\ t.refs = [g.refs EXCEPT ![o] = r] /\ t.refs[o] = r
  BY <1>1, <1>2, <1>3, StoreIs
<1> HIDE DEF t
<1>6. g.kind[o] = "upvalue" \/ g.kind[o] = "thread"
  BY <1>1, <1>2
<1>7. r[2] = none \/ g.kind[o] = "thread"
  BY <1>1, <1>2, <1>3 DEF Wired
<1>8. Inv(t, L, {o}) /\ (g.marked[o] # BLACK => Inv(t, L, {}))
  <2>1. \A i \in 1 .. 2 : r[i] \in {none, g.refs[o][i]} \/ (r[i] \in Alive(g) /\ g.kind[r[i]] # "upvalue")
    BY <1>3 DEF Sound
  <2>2. /\ g.kind[o] \in Tables \cup {"thread", "udata", "upvalue"} /\ g.kind[o] \notin Weak
        /\ g.kind[o] # "udata"
    BY <1>6 DEF Weak
  <2>3. g.kind[o] \in {"udata", "upvalue"} => r[2] = none
    BY <1>7
  <2> QED
    BY <1>1, <1>2, <1>3, <1>5, <2>1, <2>2, <2>3, StoreKeeps
<1>9. t.marked = g.marked /\ t.state = g.state /\ t.white = g.white
  BY <1>5 DEF SameRest, SamePhase
<1>10. CASE o = uv
  <2>1. uv \in Alive(t) /\ v \in Alive(t) \cup {none}
    BY <1>1, <1>5, <1>9, AliveIs DEF Sound
  <2>2. t.owner[uv] = uv /\ t.level[uv] = 1 /\ t.refs[uv][1] = v /\ t.kind[uv] = "upvalue"
    BY <1>1, <1>2, <1>3, <1>5, <1>10 DEF o, n
  <2>3. Strong(t, uv) \subseteq {v}
    BY <2>2 DEF Strong, Value
  <2>4. Inv(luaC_barrier(t, uv, v), L, {})
    BY <1>1, <1>8, <1>9, <1>10, <2>1, <2>3, BarrierKeeps
  <2> QED
    BY <1>4, <2>4
<1>11. CASE o # uv
  <2>1. g.kind[o] = "thread" /\ g.owner[uv] # uv
    BY <1>2, <1>11 DEF o
  <2>2. g.marked[o] # BLACK /\ g.marked[uv] # BLACK
    BY <1>1, <1>2, <2>1 DEF Inv, Colored, Tables, Weak
  <2>3. luaC_barrier(t, uv, v) = t
    BY <1>9, <2>2 DEF luaC_barrier
  <2> QED
    BY <1>4, <1>8, <2>2, <2>3
<1> QED
  BY <1>10, <1>11

LEMMA CloseActionKeeps ==
  ASSUME Ready, NEW level, Close(level), L' = L
  PROVE  Inv(g', L', {})
<1>1. Inv(luaF_close(g, L, level), L, {})
  BY Running, LuaFCloseKeeps DEF Ready
<1> QED
  BY <1>1 DEF Close

LEMMA ResumeKeeps ==
  ASSUME Ready, NEW co \in Alive(g), g.kind[co] = "thread", NEW v, Sound(g, v), Resume(co, v)
  PROVE  Inv(g', L', {})
<1>1. Inv([g EXCEPT !.refs[co][1] = v], co, {})
  BY Running, HoldKeeps DEF Ready
<1> QED
  BY <1>1 DEF Resume

LEMMA YieldKeeps ==
  ASSUME Ready, NEW i \in 1 .. 2, Yield(i)
  PROVE  Inv(g', L', {})
<1>1. Sound(g, g.refs[L][1])
  BY Running, HeldIsSound DEF Ready
<1>2. Inv([g EXCEPT !.refs[MAIN][i] = g.refs[L][1]], MAIN, {})
  BY <1>1, Running, HoldKeeps DEF Ready
<1> QED
  BY <1>2 DEF Yield

\* When the state is closed every udata has been finalized before it is freed.
LEMMA LuaCloseKeeps ==
  ASSUME Ready, lua_close
  PROVE  g' \in State /\ g'.lost = {} /\ g'.state = "closed"
<1> DEFINE a == luaF_close(g, MAIN, 1)
           b == luaC_separateudata(a, TRUE)
           w == makewhite(b, b.tmudata)
           c == [w EXCEPT !.tmudata = {}, !.ran = @ \cup b.tmudata, !.lost = @ \cup (b.tmudata \cap b.ran)]
           d == Erase(c, Objects)
<1>1. g' = [d EXCEPT !.state = "closed"]
  <2>1. luaC_callGCTM(b) = [w EXCEPT !.tmudata = {}, !.ran = @ \cup b.tmudata,
                                     !.lost = @ \cup (b.tmudata \cap b.ran)]
    BY DEF luaC_callGCTM
  <2> HIDE DEF w
  <2> QED
    BY <2>1 DEF lua_close
<1>2. a \in State /\ Books(a)
  BY Running, LuaFCloseKeeps DEF Ready, Inv
<1> HIDE DEF a
<1> DEFINE udata == Of(a, {"udata"})
           taken == {u \in udata \ (a.tmudata \cup a.finalized) : TRUE \/ iswhite(a, u)}
<1>3. /\ b \in State /\ SameHeap(a, b) /\ b.tmudata = a.tmudata \cup taken
      /\ b.ran = a.ran /\ b.lost = a.lost
  <2>1. PICK all \in BOOLEAN : all
    OBVIOUS
  <2> DEFINE x == luaC_separateudata(a, all)
             some == {u \in udata \ (a.tmudata \cup a.finalized) : all \/ iswhite(a, u)}
  <2>2. /\ x \in State /\ SameHeap(a, x) /\ x.tmudata = a.tmudata \cup some
        /\ x.ran = a.ran /\ x.lost = a.lost
    BY <1>2, SeparateIs
  <2>3. some = taken
    BY <2>1
  <2>4. b = x
    BY <2>1
  <2> HIDE DEF x, some, b, taken
  <2> QED
    BY <2>2, <2>3, <2>4
<1>4. taken = udata \ (a.tmudata \cup a.finalized)
  OBVIOUS
<1> HIDE DEF b, taken, udata
<1>5. b.tmudata \cap b.ran = {} /\ b.lost = {} /\ udata \subseteq b.tmudata \cup b.ran
  BY <1>2, <1>3, <1>4 DEF Books
<1>6. Painted(b, w, b.tmudata, b.white)
  BY <1>3, WhiteIs
<1> HIDE DEF w
<1>7. w \in State /\ w.kind = a.kind /\ w.ran = b.ran /\ w.lost = {} /\ b.tmudata \in SUBSET All /\ b.ran \in SUBSET All
  BY <1>3, <1>5, <1>6 DEF Painted, SameHeap, SameFates, State
<1> DEFINE ran == w.ran \cup b.tmudata
           lost == w.lost \cup (b.tmudata \cap b.ran)
<1>8. c = [w EXCEPT !.tmudata = {}, !.ran = ran, !.lost = lost]
  BY <1>7 DEF State
<1>9. ran \in SUBSET All /\ lost = {} /\ udata \subseteq ran
  BY <1>5, <1>7
<1> HIDE DEF c, ran, lost
<1>10. c \in State /\ c.kind = a.kind /\ c.ran = ran /\ c.lost = {}
  BY <1>7, <1>8, <1>9 DEF State
<1>11. Erased(c, d, Objects)
  <2>1. Objects \in SUBSET All
    BY DEF All
  <2> QED
    BY <1>10, <2>1, EraseIs
<1> HIDE DEF d
<1>12. d \in State /\ d.lost = {}
  <2>1. Of(c, {"udata"}) = udata
    BY <1>10 DEF Of, udata
  <2> QED
    BY <1>9, <1>10, <1>11, <2>1 DEF Erased
<1>13. "closed" \in States
  BY DEF States
<1> QED
  BY <1>1, <1>12, <1>13 DEF State

LEMMA HandIsSound ==
  ASSUME Ready
  PROVE  /\ \A v \in InHand : v \in Alive(g) /\ Sound(g, v)
         /\ \A o \in InHand : \A v \in Readable(o) : Sound(g, v)
<1>1. ASSUME NEW v \in InHand
      PROVE  v \in Alive(g) /\ Sound(g, v)
  <2>1. CASE v = REGISTRY
    BY <2>1, Running DEF Sound
  <2>2. CASE v # REGISTRY
    <3>1. PICK i \in 1 .. 2 : v = g.refs[L][i]
      BY <2>2 DEF InHand
    <3>2. Sound(g, v)
      BY <3>1, Running, HeldIsSound DEF Ready
    <3> QED
      BY <3>2 DEF InHand, Sound
  <2> QED
    BY <2>1, <2>2
<1>2. ASSUME NEW o \in InHand, NEW v \in Readable(o)
      PROVE  Sound(g, v)
  <2>1. o \in Alive(g)
    BY <1>1
  <2>2. /\ g.kind[o] # "closure" => Sound(g, g.refs[o][1]) /\ Sound(g, g.refs[o][2])
        /\ g.kind[o] = "closure" => Sound(g, Value(g, g.refs[o][1]))
    BY <2>1, HeldIsSound DEF Ready
  <2>3. CASE g.kind[o] = "closure"
    <3>1. v = Value(g, g.refs[o][1])
      BY <2>3 DEF Readable
    <3> QED
      BY <2>2, <2>3, <3>1
  <2>4. CASE g.kind[o] # "closure"
    <3>1. v \in {g.refs[o][1], g.refs[o][2]}
      BY <2>4 DEF Readable
    <3> QED
      BY <2>2, <2>4, <3>1
  <2> QED
    BY <2>3, <2>4
<1> QED
  BY <1>1, <1>2

LEMMA CallKeeps ==
  ASSUME Ready, Call
  PROVE  g' \in State /\ g'.lost = {} /\ (g'.state # "closed" => Inv(g', L', {}))
<1> DEFINE levels == Levels(L)
           values == InHand \cup {none}
           of(kinds) == InHand \cap Of(g, kinds)
           Here ==
             \/ \E i \in levels : \E v \in values \cup UNION {Readable(o) : o \in InHand} : Assign(i, v)
             \/ "string" \in program.makes /\ \E i \in levels : luaS_newlstr(i)
             \/ \E kind \in program.makes \cap Tables, i \in levels : New(kind, i, none)
             \/ "udata" \in program.makes /\ \E i \in levels : New("udata", i, REGISTRY)
             \/ "thread" \in program.makes /\ L = MAIN /\ \E i \in levels : New("thread", i, none)
             \/ "closure" \in program.makes /\ \E i, level \in levels : NewClosure(i, level)
             \/ \E t \in of({"table"}), v \in values : SetTable(t, Pair(v, none))
             \/ \E t \in of(Weak), k, v \in values :
                  SetTable(t, IF v = none THEN Pair(none, none) ELSE Pair(k, v))
             \/ \E c \in of({"closure"}), v \in values : SetUpval(c, v)
             \/ \E u \in of({"udata"}), t \in of(Tables) : SetEnv(u, t)
             \/ \E level \in levels : Close(level)
             \/ lua_close
<1>1. \/ Here /\ UNCHANGED L
      \/ \E co \in of({"thread"}), v \in values : Resume(co, v)
      \/ \E i \in 1 .. 2 : Yield(i)
  BY DEF Call
<1>2. levels \subseteq 1 .. 2
  BY DEF Levels
<1>3. /\ \A v \in values : Sound(g, v)
      /\ \A kinds : \A o \in of(kinds) : o \in Alive(g) /\ g.kind[o] \in kinds
      /\ \A o \in InHand : \A v \in Readable(o) : Sound(g, v)
  BY HandIsSound DEF Sound, Of
<1>4. Sound(g, none) /\ Sound(g, REGISTRY) /\ REGISTRY # none /\ g.kind[REGISTRY] \in Tables
  BY Running, HandIsSound, Numbers DEF Sound, Tables
<1>5. Inv(g', L', {}) => g' \in State /\ g'.lost = {}
  BY DEF Inv, Books
<1> HIDE DEF levels, values, of
<1>6. CASE Here /\ UNCHANGED L
  <2>1. CASE \E i \in levels : \E v \in values \cup UNION {Readable(o) : o \in InHand} : Assign(i, v)
    <3>1. PICK i \in levels : \E v \in values \cup UNION {Readable(o) : o \in InHand} : Assign(i, v)
      BY <2>1
    <3>2. PICK v \in values \cup UNION {Readable(o) : o \in InHand} : Assign(i, v)
      BY <3>1
    <3>3. Sound(g, v)
      BY <1>3
    <3> QED
      BY <1>2, <1>5, <1>6, <3>2, <3>3, AssignKeeps
  <2>2. CASE \E i \in levels : luaS_newlstr(i)
    BY <1>2, <1>5, <1>6, <2>2, NewStringKeeps
  <2>3. CASE \E kind \in program.makes \cap Tables, i \in levels : New(kind, i, none)
    <3>1. PICK kind \in program.makes \cap Tables : \E i \in levels : New(kind, i, none)
      BY <2>3
    <3>2. kind # "udata"
      BY DEF Tables, Weak
    <3> QED
      BY <1>2, <1>4, <1>5, <1>6, <3>1, <3>2, NewObjectKeeps
  <2>4. CASE \E i \in levels : New("udata", i, REGISTRY)
    <3>1. "udata" \notin Weak
      BY DEF Weak
    <3> QED
      BY <1>2, <1>4, <1>5, <1>6, <2>4, <3>1, NewObjectKeeps
  <2>5. CASE \E i \in levels : New("thread", i, none)
    <3>1. "thread" \notin Weak
      BY DEF Weak
    <3> QED
      BY <1>2, <1>4, <1>5, <1>6, <2>5, <3>1, NewObjectKeeps
  <2>6. CASE \E i, level \in levels : NewClosure(i, level)
    BY <1>2, <1>5, <1>6, <2>6, NewClosureKeeps
  <2>7. CASE \E t \in of({"table"}), v \in values : SetTable(t, Pair(v, none))
    <3>1. PICK t \in of({"table"}) : \E v \in values : SetTable(t, Pair(v, none))
      BY <2>7
    <3>2. PICK v \in values : SetTable(t, Pair(v, none))
      BY <3>1
    <3>3. t \in Alive(g) /\ g.kind[t] \in Tables /\ g.kind[t] \notin Weak /\ Sound(g, v)
      <4>1. t \in Alive(g) /\ g.kind[t] \in {"table"}
        BY <1>3
      <4> QED
        BY <1>3, <4>1 DEF Tables, Weak
    <3> QED
      BY <1>4, <1>5, <1>6, <3>2, <3>3, SetTableKeeps
  <2>8. CASE \E t \in of(Weak), k, v \in values :
               SetTable(t, IF v = none THEN Pair(none, none) ELSE Pair(k, v))
    <3>1. PICK t \in of(Weak) :
            \E k, v \in values : SetTable(t, IF v = none THEN Pair(none, none) ELSE Pair(k, v))
      BY <2>8
    <3>2. PICK k \in values, v \in values : SetTable(t, IF v = none THEN Pair(none, none) ELSE Pair(k, v))
      BY <3>1
    <3>3. t \in Alive(g) /\ g.kind[t] \in Tables /\ Sound(g, k) /\ Sound(g, v)
      BY <1>3 DEF Tables
    <3>4. CASE v = none
      BY <1>4, <1>5, <1>6, <3>2, <3>3, <3>4, SetTableKeeps
    <3>5. CASE v # none
      BY <1>5, <1>6, <3>2, <3>3, <3>5, SetTableKeeps
    <3> QED
      BY <3>4, <3>5
  <2>9. CASE \E c \in of({"closure"}), v \in values : SetUpval(c, v)
    <3>1. PICK c \in of({"closure"}) : \E v \in values : SetUpval(c, v)
      BY <2>9
    <3>2. c \in Alive(g) /\ g.kind[c] = "closure"
      BY <1>3
    <3> QED
      BY <1>3, <1>5, <1>6, <3>1, <3>2, SetUpvalKeeps
  <2>10. CASE \E u \in of({"udata"}), t \in of(Tables) : SetEnv(u, t)
    <3>1. PICK u \in of({"udata"}) : \E t \in of(Tables) : SetEnv(u, t)
      BY <2>10
    <3>2. u \in Alive(g) /\ g.kind[u] = "udata"
      BY <1>3
    <3> QED
      BY <1>3, <1>5, <1>6, <3>1, <3>2, SetEnvKeeps
  <2>11. CASE \E level \in levels : Close(level)
    BY <1>5, <1>6, <2>11, CloseActionKeeps
  <2>12. CASE lua_close
    BY <2>12, LuaCloseKeeps
  <2> QED
    BY <1>6, <2>1, <2>2, <2>3, <2>4, <2>5, <2>6, <2>7, <2>8, <2>9, <2>10, <2>11, <2>12
<1>7. CASE \E co \in of({"thread"}), v \in values : Resume(co, v)
  <2>1. PICK co \in of({"thread"}) : \E v \in values : Resume(co, v)
    BY <1>7
  <2>2. co \in Alive(g) /\ g.kind[co] = "thread"
    BY <1>3
  <2> QED
    BY <1>3, <1>5, <2>1, <2>2, ResumeKeeps
<1>8. CASE \E i \in 1 .. 2 : Yield(i)
  BY <1>5, <1>8, YieldKeeps
<1> QED
  BY <1>1, <1>6, <1>7, <1>8

-----------------------------------------------------------------------------
(* The invariant *)

LEMMA NewStateKeeps ==
  ASSUME NEW h, IsHeap(h)
  PROVE  Inv(NewState(h), MAIN, {}) /\ NewState(h).state = "pause"
<1> DEFINE s == NewState(h)
<1>1. /\ s.kind = h.kind /\ s.refs = h.refs /\ s.owner = h.owner /\ s.level = h.level
      /\ s.marked = [o \in All |-> 0] /\ s.white = 0 /\ s.state = "pause"
      /\ s.tmudata = {} /\ s.finalized = {} /\ s.ran = {} /\ s.lost = {}
      /\ s.gray = {} /\ s.grayagain = {} /\ s.weak = {} /\ s.unswept = {}
  BY DEF NewState
<1>2. s \in State
  <2>1. "pause" \in States
    BY DEF States
  <2> QED
    BY <2>1 DEF NewState, State, IsHeap
<1> HIDE DEF s
<1>3. /\ \A o \in All : s.marked[o] = 0 /\ ~isdead(s, o)
      /\ Used(s) = Used(h) /\ Alive(s) = Used(h)
  BY <1>1 DEF isdead, Used, Alive
<1>4. \A o \in All : Owned(s, o)
  BY <1>1 DEF IsHeap, Owned
<1>5. \A o \in Alive(s) : Wired(s, o, Alive(s))
  <2>1. SameHeap(h, s)
    BY <1>1 DEF SameHeap
  <2> QED
    BY <1>3, <2>1, SameWired DEF IsHeap
<1>6. {MAIN, REGISTRY} \subseteq Alive(s) /\ s.kind[MAIN] = "thread" /\ s.kind[REGISTRY] = "table"
  BY <1>1, <1>3, Numbers DEF IsHeap, Used
<1>7. Linkage(s, MAIN) /\ Colored(s) /\ Books(s)
  BY <1>1, <1>3, <1>4, <1>5, <1>6, ColorsDiffer DEF Linkage, Colored, Books, Used, Of
<1>8. Phase(s, MAIN, {})
  BY <1>1, <1>3 DEF Phase, MarkStates, Atomic, Resting, Used
<1> QED
  BY <1>1, <1>2, <1>6, <1>7, <1>8, Numbers DEF Inv, s

\* A sweep goes on until finalizers may run.
LEMMA SweepsOn ==
  ASSUME NEW s, NEW l, Inv(s, l, {}), s.state \in {"sweepstring", "sweep"}, NEW t \in singlestep(s, l)
  PROVE  t.state \in {"sweep", "finalize"}
<1>1. CASE s.state = "sweepstring"
  <2>1. t = sweepstrings(s)
    BY <1>1 DEF singlestep, Atomic
  <2>2. IsSwept(s, Swept(s, Of(s, {"string"})), Of(s, {"string"}),
                {o \in Of(s, {"string"}) \ {MAIN} : isdead(s, o)})
    BY SweptIs DEF Inv, Of
  <2>3. Swept(s, Of(s, {"string"})) \in State
    BY <2>2 DEF IsSwept
  <2> QED
    BY <2>1, <2>3 DEF sweepstrings, State
<1>2. CASE s.state = "sweep"
  <2>1. t \in {IF x.unswept = {} THEN [x EXCEPT !.state = "finalize"] ELSE x :
                 x \in {sweeplist(s, o) : o \in s.unswept}}
    BY <1>2 DEF singlestep, Atomic
  <2>2. PICK x \in {sweeplist(s, o) : o \in s.unswept} :
          t = IF x.unswept = {} THEN [x EXCEPT !.state = "finalize"] ELSE x
    BY <2>1
  <2>3. PICK o \in s.unswept : x = sweeplist(s, o)
    OBVIOUS
  <2>4. x \in State /\ x.state = "sweep"
    BY <1>2, <2>3, SweeplistKeeps DEF Inv
  <2> QED
    BY <2>2, <2>4 DEF State
<1> QED
  BY <1>1, <1>2

LEMMA InitHolds == GcInit => IInv
<1> SUFFICES ASSUME GcInit PROVE IInv
  OBVIOUS
<1>1. PICK p \in Programs : g = NewState(p.heap)
  BY DEF GcInit
<1>2. IsHeap(p.heap)
  BY ProgramsAssumption
<1>3. Inv(g, MAIN, {}) /\ g.state = "pause"
  BY <1>1, <1>2, NewStateKeeps
<1> QED
  BY <1>3 DEF GcInit, IInv, Inv, Books

LEMMA NextKeeps == IInv /\ [GcNext]_gcVars => IInv'
<1> SUFFICES ASSUME IInv, [GcNext]_gcVars PROVE IInv'
  OBVIOUS
<1>1. CASE UNCHANGED gcVars
  <2>1. g' = g /\ L' = L /\ full' = full
    BY <1>1 DEF gcVars
  <2> QED
    BY <2>1 DEF IInv
<1>2. CASE GcNext
  <2>1. Inv(g, L, {}) /\ g.state # "closed" /\ full \in {"no", "sweep", "mark"}
    BY <1>2 DEF GcNext, IInv
  <2>2. Inv(g', L', {}) => g' \in State /\ g'.lost = {}
    BY DEF Inv, Books
  <2>3. CASE full = "no" /\ g.state \notin Atomic /\ Call /\ UNCHANGED <<full, kept>>
    <3>1. g' \in State /\ g'.lost = {} /\ (g'.state # "closed" => Inv(g', L', {}))
      BY <2>1, <2>3, CallKeeps DEF Ready
    <3> QED
      BY <2>3, <3>1 DEF IInv
  <2>4. CASE full = "no" /\ g' \in singlestep(g, L) /\ UNCHANGED <<L, program, full, kept>>
    <3>1. Inv(g', L', {})
      BY <2>1, <2>4, SinglestepKeeps
    <3> QED
      BY <2>2, <2>4, <3>1 DEF IInv
  <2>5. CASE full = "no" /\ g.state \notin Atomic /\ FullGc /\ UNCHANGED <<L, program>>
    <3>1. Inv(g', L', {}) /\ g'.state \in {"sweepstring", "sweep", "finalize"}
      BY <2>1, <2>5, RestartedKeeps DEF FullGc
    <3> QED
      BY <2>2, <2>5, <3>1 DEF IInv, FullGc
  <2>6. CASE full # "no" /\ FullStep /\ UNCHANGED <<L, program>>
    <3>1. CASE full = "sweep" /\ g.state = "finalize"
      <4>1. g' = markroot(g) /\ full' = "mark"
        BY <3>1, <2>6 DEF FullStep
      <4>2. Inv(g', L', {})
        BY <2>1, <2>6, <3>1, <4>1, MarkrootKeeps
      <4> QED
        BY <2>2, <4>1, <4>2 DEF IInv
    <3>2. CASE full = "mark" /\ g.state = "pause"
      <4>1. g' = g /\ full' = "no"
        BY <3>2, <2>6 DEF FullStep
      <4> QED
        BY <2>1, <2>2, <2>6, <4>1 DEF IInv
    <3>3. CASE ~(full = "sweep" /\ g.state = "finalize") /\ ~(full = "mark" /\ g.state = "pause")
      <4>1. g' \in singlestep(g, L) /\ full' = full
        BY <3>3, <2>6 DEF FullStep
      <4>2. Inv(g', L', {})
        BY <2>1, <2>6, <4>1, SinglestepKeeps
      <4>3. full = "sweep" => g'.state \in {"sweep", "finalize"}
        BY <2>1, <3>3, <4>1, SweepsOn DEF IInv
      <4> QED
        BY <2>1, <2>2, <4>1, <4>2, <4>3 DEF IInv
    <3> QED
      BY <3>1, <3>2, <3>3
  <2> QED
    BY <1>2, <2>3, <2>4, <2>5, <2>6 DEF GcNext
<1> QED
  BY <1>1, <1>2

\* Between any two steps of the collector or of the program the heap hangs together
\* and marking and sweeping are where the invariant says.
THEOREM Invariance == GcSpec => []IInv
BY InitHolds, NextKeeps, PTL DEF GcSpec

LEMMA GarbageOnly == IInv => FreesOnlyGarbage
<1> SUFFICES ASSUME IInv PROVE FreesOnlyGarbage
  OBVIOUS
<1>1. g.lost = {}
  BY DEF IInv
<1>2. ASSUME g.state # "closed", NEW o \in Accessible(g)
      PROVE  g.kind[o] # "free" /\ ~isdead(g, o)
  <2> DEFINE next == [x \in All |-> Leads(g, x)]
             from == {MAIN, REGISTRY, L} \cup g.tmudata
             T == Alive(g) \ from
  <2>1. Linkage(g, L)
    BY <1>2 DEF IInv, Inv
  <2>2. Alive(g) \subseteq All /\ from \subseteq Alive(g)
    BY <2>1 DEF Linkage, Alive, Used
  <2>3. Closed(Alive(g), next)
    BY <2>1, <2>2 DEF Closed, Linkage, Wired
  <2>4. \A S \in {S1 \in {from \cup T1 : T1 \in SUBSET (All \ from)} : Closed(S1, next)} : o \in S
    BY <1>2 DEF Accessible, Reach
  <2> HIDE DEF next, from
  <2>5. Alive(g) = from \cup T /\ T \in SUBSET (All \ from)
    BY <2>2
  <2>6. Alive(g) \in {S1 \in {from \cup T1 : T1 \in SUBSET (All \ from)} : Closed(S1, next)}
    BY <2>3, <2>5
  <2>7. o \in Alive(g)
    BY <2>4, <2>6
  <2> QED
    BY <2>7 DEF Alive, Used
<1> QED
  BY <1>1, <1>2 DEF FreesOnlyGarbage

\* Whatever the program does between the steps of a collection, what it can get at,
\* or a finalizer will be given, is neither freed nor about to be, and each udata is
\* finalized once before it is freed.
THEOREM OnlyGarbageIsFreed == GcSpec => []FreesOnlyGarbage
BY Invariance, GarbageOnly, PTL

LEMMA BlackIsDone == IInv => NoBlackToWhite
<1> SUFFICES ASSUME IInv, g.state = "propagate",
                    NEW o \in All \ g.tmudata, g.marked[o] = BLACK,
                    NEW v \in {g.refs[o][1], g.refs[o][2]} \ {none}
             PROVE  ~iswhite(g, v)
  BY DEF NoBlackToWhite
<1>1. Inv(g, L, {}) /\ g.state \in MarkStates
  BY DEF IInv, MarkStates
<1>2. /\ Alive(g) = Used(g) /\ Linkage(g, L) /\ Colored(g) /\ Marking(g, L, {}) /\ Owned(g, o)
  BY <1>1, AllAlive DEF Inv, Phase, Linkage
<1>3. o \in Used(g)
  <2>1. g.kind[o] # "free"
    BY <1>2 DEF Owned, Pair
  <2> QED
    BY <2>1 DEF Used
<1>4. Done(g, o)
  BY <1>2, <1>3 DEF Marking, Fine
<1>5. Wired(g, o, Alive(g))
  BY <1>2, <1>3 DEF Linkage
<1>6. v \in Strong(g, o)
  <2>1. CASE g.kind[o] \in {"table", "closure", "udata"}
    BY <2>1 DEF Strong, Weak
  <2>2. CASE g.kind[o] = "upvalue" /\ g.owner[o] = o
    <3>1. v = g.refs[o][1] /\ Value(g, o) = g.refs[o][1]
      BY <1>2, <1>5, <2>2 DEF Wired, Owned, Value
    <3> QED
      BY <2>2, <3>1 DEF Strong, Weak
  <2> QED
    BY <1>2, <1>3, <2>1, <2>2 DEF Colored
<1> QED
  BY <1>4, <1>6 DEF Done

\* The barriers of stores keep every black object from referring to a white one while
\* marking goes on.
THEOREM BlackStaysDone == GcSpec => []NoBlackToWhite
BY Invariance, BlackIsDone, PTL

-----------------------------------------------------------------------------
(* A full collection *)

\* Whatever a used object of a set keeps is in the set.
Sealed(s, S) == \A o \in S \cap Used(s) : Keeps(s, o) \subseteq S

\* What was kept when the collection was called, with what its finalizers are given.
KeptBy(s, k) == k.from \cup UNION {k.of[u] : u \in (s.ran \cup s.tmudata) \ k.ran}

\* The sets that were kept then are still sealed, and hold where they started.
Snapshot(s, l, k) ==
  /\ {MAIN, REGISTRY, l} \subseteq k.from
  /\ \A u \in Of(s, {"udata"}) : u \in k.of[u]
  /\ Sealed(s, k.from) /\ \A u \in All : Sealed(s, k.of[u])
  /\ k.ran \cap Used(s) = s.ran

\* How far a full collection is: while it marks, what is marked was kept; after
\* that, what is alive was. Marking and the sweep before it leave the snapshot alone,
\* finalizers do not, and so they run when the sweep after it is done.
Collecting(s, l, f, k) ==
  /\ s.tmudata \cap k.ran = {}
  /\ f = "sweep" \/ s.state \in MarkStates => Snapshot(s, l, k)
  /\ f = "mark" =>
       /\ s.state \in MarkStates => \A o \in Used(s) : iswhite(s, o) \/ o \in KeptBy(s, k)
       /\ s.state \notin MarkStates => Alive(s) \subseteq KeptBy(s, k)
       /\ s.state \in {"sweepstring", "sweep"} => s.ran \subseteq k.ran
       /\ s.state = "pause" => s.tmudata = {}

FullInv == full # "no" => Collecting(g, L, full, kept)

LEMMA KeptByIs ==
  ASSUME NEW s, NEW k, NEW o
  PROVE  o \in KeptBy(s, k) <=>
           o \in k.from \/ \E u \in (s.ran \cup s.tmudata) \ k.ran : o \in k.of[u]
BY DEF KeptBy

LEMMA SameKeeps ==
  ASSUME NEW s, NEW t, SameHeap(s, t)
  PROVE  /\ Used(t) = Used(s) /\ \A kinds : Of(t, kinds) = Of(s, kinds)
         /\ \A o : Keeps(t, o) = Keeps(s, o)
<1>1. Used(t) = Used(s) /\ \A kinds : Of(t, kinds) = Of(s, kinds)
  BY DEF Used, Of, SameHeap
<1> QED
  BY <1>1, StrongIsSame DEF Keeps

LEMMA SameSnapshot ==
  ASSUME NEW s, NEW t, NEW l, NEW k, SameHeap(s, t), t.ran = s.ran, Snapshot(s, l, k)
  PROVE  Snapshot(t, l, k)
BY SameKeeps DEF Snapshot, Sealed

LEMMA KeptBySealed ==
  ASSUME NEW s \in State, NEW l, NEW k, Snapshot(s, l, k)
  PROVE  Sealed(s, KeptBy(s, k))
<1> SUFFICES ASSUME NEW o \in KeptBy(s, k), o \in Used(s), NEW v \in Keeps(s, o)
             PROVE  v \in KeptBy(s, k)
  BY DEF Sealed
<1>1. CASE o \in k.from
  BY <1>1, KeptByIs DEF Snapshot, Sealed
<1>2. ASSUME NEW u \in (s.ran \cup s.tmudata) \ k.ran, o \in k.of[u]
      PROVE  v \in KeptBy(s, k)
  <2>1. u \in All
    BY DEF State
  <2>2. v \in k.of[u]
    BY <1>2, <2>1 DEF Snapshot, Sealed
  <2> QED
    BY <2>2, KeptByIs
<1> QED
  BY <1>1, <1>2, KeptByIs

LEMMA StrongIsKept ==
  ASSUME NEW s, NEW o, NEW C, Sealed(s, C), o \in C, o \in Used(s)
  PROVE  Strong(s, o) \subseteq C
<1>1. none \notin Strong(s, o)
  BY DEF Strong
<1> QED
  BY <1>1 DEF Sealed, Keeps

\* Marking from inside a sealed set does not leave it.
LEMMA MarkobjectWithin ==
  ASSUME NEW s \in State, NEW S, S \subseteq Used(s) \cup {none}, Whole(s),
         NEW C, S \ {none} \subseteq C, Sealed(s, C)
  PROVE  \A o \in All : iswhite(markobject(s, S), o) \/ ~iswhite(s, o) \/ o \in C
<1> DEFINE found == Whites(s, S)
           values == found \cup Whites(s, {Value(s, uv) : uv \in found \cap Of(s, {"upvalue"})})
           marks == values \cup Whites(s, {s.refs[u][1] : u \in values \cap Of(s, {"udata"})})
           black == (marks \cap Of(s, {"udata", "upvalue"})) \ OpenUpvals(s)
           p == Paint(s, marks, GRAY)
           q == Paint(p, black, BLACK)
           t == [q EXCEPT !.gray = @ \cup (marks \cap Of(s, Traversed))]
<1>1. markobject(s, S) = t
  BY DEF markobject
<1>2. found \subseteq C \cap Used(s)
  BY DEF Whites
<1>3. values \subseteq C \cap Used(s)
  <2> SUFFICES ASSUME NEW uv \in found \cap Of(s, {"upvalue"}), Value(s, uv) # none
               PROVE  Value(s, uv) \in C \cap Used(s)
    BY <1>2 DEF Whites
  <2>1. uv \in C /\ uv \in Used(s) /\ s.kind[uv] = "upvalue"
    BY <1>2 DEF Of
  <2>2. Value(s, uv) \in Strong(s, uv)
    BY <2>1 DEF Strong, Weak
  <2>3. Value(s, uv) \in Leads(s, uv)
    BY DEF Leads
  <2> QED
    BY <2>1, <2>2, <2>3, StrongIsKept DEF Whole, Wired
<1>4. marks \subseteq C \cap Used(s)
  <2> SUFFICES ASSUME NEW u \in values \cap Of(s, {"udata"}), s.refs[u][1] # none
               PROVE  s.refs[u][1] \in C \cap Used(s)
    BY <1>3 DEF Whites
  <2>1. u \in C /\ u \in Used(s) /\ s.kind[u] = "udata"
    BY <1>3 DEF Of
  <2>2. s.refs[u][1] \in Strong(s, u)
    BY <2>1 DEF Strong, Weak
  <2>3. s.refs[u][1] \in Leads(s, u)
    BY DEF Leads
  <2> QED
    BY <2>1, <2>2, <2>3, StrongIsKept DEF Whole, Wired
<1> HIDE DEF found, values, marks
<1>5. Painted(s, p, marks, GRAY)
  BY PaintIs, ColorsDiffer
<1> HIDE DEF p
<1>6. Painted(p, q, black, BLACK)
  <2>1. p \in State
    BY <1>5 DEF Painted
  <2> HIDE DEF black
  <2> QED
    BY <2>1, PaintIs, ColorsDiffer
<1> HIDE DEF q
<1>7. t.marked = q.marked
  BY <1>6 DEF Painted, State
<1> HIDE DEF t
<1>8. \A o \in All : o \notin marks => t.marked[o] = s.marked[o]
  BY <1>5, <1>6, <1>7 DEF Painted, black
<1> QED
  BY <1>1, <1>4, <1>8 DEF iswhite

\* No more is marked, apart from what was kept.
LEMMA StillMarking ==
  ASSUME NEW s, NEW t, NEW l, NEW k, Collecting(s, l, "mark", k),
         s.state \in MarkStates, t.state \in MarkStates, SameHeap(s, t), SameFates(s, t),
         \A o \in Used(s) : iswhite(t, o) \/ ~iswhite(s, o) \/ o \in KeptBy(s, k)
  PROVE  Collecting(t, l, "mark", k)
<1>1. Snapshot(t, l, k) /\ t.tmudata = s.tmudata /\ t.ran = s.ran
  BY SameSnapshot DEF Collecting, SameFates
<1>2. KeptBy(t, k) = KeptBy(s, k) /\ Used(t) = Used(s)
  BY <1>1, SameKeeps DEF KeptBy
<1>3. t.state \notin {"sweepstring", "sweep"} /\ t.state # "pause"
  BY DEF MarkStates, Atomic
<1> QED
  BY <1>1, <1>2, <1>3 DEF Collecting

\* Marking what was kept.
LEMMA MarkobjectCollects ==
  ASSUME NEW s \in State, NEW l, NEW k, Collecting(s, l, "mark", k), s.state \in MarkStates, Whole(s),
         NEW S, S \subseteq Used(s) \cup {none}, S \ {none} \subseteq KeptBy(s, k)
  PROVE  Collecting(markobject(s, S), l, "mark", k)
<1> DEFINE t == markobject(s, S)
<1>1. Marked(s, t)
  BY MarkobjectMarks
<1>2. \A o \in All : iswhite(t, o) \/ ~iswhite(s, o) \/ o \in KeptBy(s, k)
  <2>1. Sealed(s, KeptBy(s, k))
    BY KeptBySealed DEF Collecting
  <2> QED
    BY <2>1, MarkobjectWithin
<1> HIDE DEF t
<1>3. Collecting(t, l, "mark", k)
  BY <1>1, <1>2, StillMarking DEF Marked, SamePhase, Used
<1> QED
  BY <1>3 DEF t

\* A state and the same in another phase of marking.
LEMMA InState ==
  ASSUME NEW s \in State, NEW st \in States, NEW t, t = [s EXCEPT !.state = st]
  PROVE  t \in State /\ SameBut(s, t) /\ SameLists(s, t) /\ t.state = st
BY DEF State, SameBut, SameHeap, SameFates, SameLists

\* A step of marking that marks nothing.
LEMMA MarksOn ==
  ASSUME NEW s \in State, NEW t, NEW l, NEW k, Collecting(s, l, "mark", k),
         s.state \in MarkStates, t.state \in MarkStates, SameBut(s, t)
  PROVE  Collecting(t, l, "mark", k)
BY StillMarking, SameButDone DEF SameBut

LEMMA SameWhole ==
  ASSUME NEW s, NEW t, Whole(s), SameHeap(s, t)
  PROVE  Whole(t)
<1>1. Used(t) = Used(s)
  BY SameKeeps
<1>2. \A o \in All : Owned(t, o)
  BY DEF Whole, Owned, SameHeap
<1>3. \A o \in Used(t) : Wired(t, o, Used(t))
  BY <1>1, SameWired DEF Whole
<1> QED
  BY <1>2, <1>3 DEF Whole

LEMMA PropagatemarkCollects ==
  ASSUME NEW s, NEW l, NEW k, Inv(s, l, {}), Collecting(s, l, "mark", k),
         s.state \in MarkStates, NEW o \in s.gray
  PROVE  Collecting(propagatemark(s, o), l, "mark", k)
<1> DEFINE a == Taken(s, o)
           S == Strong(s, o)
<1>1. s \in State /\ Marking(s, l, {}) /\ Whole(s)
  BY AllAlive DEF Inv, Phase
<1>2. o \in All /\ s.kind[o] \in Traversed /\ s.marked[o] = GRAY /\ o \in Used(s) /\ ~iswhite(s, o)
  <2>1. o \in All /\ s.kind[o] \in Traversed /\ s.marked[o] = GRAY
    BY <1>1 DEF Marking, State
  <2>2. ~iswhite(s, o)
    BY <2>1, ColorsDiffer DEF iswhite
  <2> QED
    BY <2>1, <2>2 DEF Used, Traversed, Tables, Weak
<1>3. propagatemark(s, o) = markobject(a, S)
  BY DEF propagatemark, Taken
<1>4. /\ a \in State /\ SameHeap(s, a) /\ SameFates(s, a) /\ SamePhase(s, a)
      /\ \A x \in All : a.marked[x] = IF x = o /\ s.kind[o] \notin Weak \cup {"thread"} THEN BLACK ELSE s.marked[x]
  BY <1>1, <1>2, TakenIs
<1> HIDE DEF a
<1>5. \A x \in All : iswhite(a, x) <=> iswhite(s, x)
  BY <1>2, <1>4, ColorsDiffer DEF iswhite
<1>6. Collecting(a, l, "mark", k) /\ a.state \in MarkStates
  BY <1>4, <1>5, StillMarking DEF SamePhase, Used
<1>7. Whole(a) /\ Used(a) = Used(s) /\ KeptBy(a, k) = KeptBy(s, k)
  BY <1>1, <1>4, SameWhole, SameKeeps DEF SameFates, KeptBy
<1>8. o \in KeptBy(s, k)
  BY <1>2 DEF Collecting
<1>9. S \subseteq Used(s) /\ S \subseteq KeptBy(s, k)
  <2>1. Sealed(s, KeptBy(s, k))
    BY <1>1, KeptBySealed DEF Collecting
  <2> QED
    BY <1>2, <1>8, <2>1, StrongIsKept, AllAlive
<1> HIDE DEF S
<1>10. Collecting(markobject(a, S), l, "mark", k)
  BY <1>4, <1>6, <1>7, <1>9, MarkobjectCollects
<1> QED
  BY <1>3, <1>10

LEMMA RemarkedCollects ==
  ASSUME NEW s, NEW l, NEW k, Inv(s, l, {}), Collecting(s, l, "mark", k), s.state = "propagate"
  PROVE  Collecting([remarkupvals(s) EXCEPT !.state = "remarked"], l, "mark", k)
<1> DEFINE uvs == {x \in OpenUpvals(s) : s.marked[x] = GRAY}
           S == {Value(s, uv) : uv \in uvs}
           a == markobject(s, S)
           t == [a EXCEPT !.state = "remarked"]
<1>1. s \in State /\ Whole(s) /\ s.state \in MarkStates
  BY AllAlive DEF Inv, MarkStates
<1>2. [remarkupvals(s) EXCEPT !.state = "remarked"] = t
  BY DEF remarkupvals
<1>3. S \subseteq Used(s) \cup {none} /\ S \ {none} \subseteq KeptBy(s, k)
  <2> SUFFICES ASSUME NEW uv \in uvs, Value(s, uv) # none
               PROVE  Value(s, uv) \in Used(s) /\ Value(s, uv) \in KeptBy(s, k)
    OBVIOUS
  <2>1. uv \in All /\ s.kind[uv] = "upvalue" /\ uv \in Used(s)
    BY <1>1 DEF OpenUpvals, Whole, Owned, Used
  <2>2. uv \in KeptBy(s, k)
    BY <1>1, <2>1, ColorsDiffer DEF Collecting, iswhite
  <2>3. Value(s, uv) \in Strong(s, uv)
    BY <2>1 DEF Strong, Weak
  <2>4. Sealed(s, KeptBy(s, k))
    BY <1>1, KeptBySealed DEF Collecting
  <2> QED
    BY <1>1, <2>1, <2>2, <2>3, <2>4, StrongIsKept, AllAlive
<1> HIDE DEF S
<1>4. Collecting(a, l, "mark", k) /\ Marked(s, a)
  BY <1>1, <1>3, MarkobjectCollects, MarkobjectMarks
<1> HIDE DEF a
<1>5. a \in State /\ a.state \in MarkStates
  BY <1>1, <1>4 DEF Marked, SamePhase
<1>6. SameBut(a, t) /\ t.state \in MarkStates
  BY <1>5, InState DEF States, MarkStates, Atomic
<1> HIDE DEF t
<1>7. Collecting(t, l, "mark", k)
  BY <1>4, <1>5, <1>6, MarksOn
<1> QED
  BY <1>2, <1>7

LEMMA WeakAgainCollects ==
  ASSUME NEW s, NEW l, NEW k, Inv(s, l, {}), Collecting(s, l, "mark", k), s.state = "remarked"
  PROVE  Collecting(markobject([s EXCEPT !.gray = s.weak, !.weak = {}, !.state = "weak again"], {l}),
                    l, "mark", k)
<1> DEFINE a == [s EXCEPT !.gray = s.weak, !.weak = {}, !.state = "weak again"]
           S == {l}
<1>1. s \in State /\ Whole(s) /\ s.state \in MarkStates /\ l \in Used(s)
  BY AllAlive DEF Inv, MarkStates, Atomic, Linkage
<1>2. a \in State /\ SameBut(s, a) /\ a.state \in MarkStates
  BY <1>1 DEF State, SameBut, SameHeap, SameFates, States, MarkStates, Atomic
<1> HIDE DEF a
<1>3. Collecting(a, l, "mark", k)
  BY <1>1, <1>2, MarksOn
<1>4. Whole(a) /\ Used(a) = Used(s)
  BY <1>1, <1>2, SameWhole, SameKeeps DEF SameBut
<1>5. l \in KeptBy(a, k)
  BY <1>2, <1>3, KeptByIs DEF Collecting, Snapshot
<1>6. S \subseteq Used(a) \cup {none} /\ S \ {none} \subseteq KeptBy(a, k)
  BY <1>1, <1>4, <1>5
<1> HIDE DEF S
<1>7. Collecting(markobject(a, S), l, "mark", k)
  BY <1>2, <1>3, <1>4, <1>6, MarkobjectCollects
<1> QED
  BY <1>7 DEF a, S

LEMMA AgainCollects ==
  ASSUME NEW s, NEW l, NEW k, Inv(s, l, {}), Collecting(s, l, "mark", k), s.state = "weak again"
  PROVE  Collecting([s EXCEPT !.gray = s.grayagain, !.grayagain = {}, !.state = "again"], l, "mark", k)
<1> DEFINE a == [s EXCEPT !.gray = s.grayagain, !.grayagain = {}, !.state = "again"]
<1>1. s \in State /\ s.state \in MarkStates
  BY DEF Inv, MarkStates, Atomic
<1>2. SameBut(s, a) /\ a.state \in MarkStates
  BY <1>1 DEF State, SameBut, SameHeap, SameFates, States, MarkStates, Atomic
<1> HIDE DEF a
<1>3. Collecting(a, l, "mark", k)
  BY <1>1, <1>2, MarksOn
<1> QED
  BY <1>3 DEF a

\* A udata that is to be finalized keeps what it kept when the collection was called.
LEMMA SavedCollects ==
  ASSUME NEW s, NEW l, NEW k, Inv(s, l, {}), Collecting(s, l, "mark", k), s.state = "again"
  PROVE  Collecting([marktmu(luaC_separateudata(s, FALSE)) EXCEPT !.state = "saved"], l, "mark", k)
<1> DEFINE taken == {u \in Of(s, {"udata"}) \ (s.tmudata \cup s.finalized) : FALSE \/ iswhite(s, u)}
           a == luaC_separateudata(s, FALSE)
           S == a.tmudata
           b == makewhite(a, S)
           c == markobject(b, S)
           t == [c EXCEPT !.state = "saved"]
<1>1. s \in State /\ Whole(s) /\ Books(s) /\ Linkage(s, l) /\ s.state \in MarkStates /\ Alive(s) = Used(s)
  BY AllAlive DEF Inv, MarkStates, Atomic
<1>2. [marktmu(luaC_separateudata(s, FALSE)) EXCEPT !.state = "saved"] = t
  BY DEF marktmu
<1>3. /\ a \in State /\ SameHeap(s, a) /\ SamePhase(s, a) /\ a.marked = s.marked
      /\ S = s.tmudata \cup taken /\ a.ran = s.ran
  <2>1. PICK all \in BOOLEAN : ~all
    OBVIOUS
  <2> DEFINE x == luaC_separateudata(s, all)
             some == {u \in Of(s, {"udata"}) \ (s.tmudata \cup s.finalized) : all \/ iswhite(s, u)}
  <2>2. /\ x \in State /\ SameHeap(s, x) /\ SamePhase(s, x) /\ x.marked = s.marked
        /\ x.tmudata = s.tmudata \cup some /\ x.ran = s.ran
    BY <1>1, SeparateIs
  <2>3. some = taken
    BY <2>1
  <2>4. a = x
    BY <2>1
  <2> HIDE DEF x, some, a, taken
  <2> QED
    BY <2>2, <2>3, <2>4
<1> HIDE DEF a, S
<1>4. S \subseteq Used(s) /\ S \subseteq Of(s, {"udata"}) /\ S \cap k.ran = {}
  <2>1. s.tmudata \subseteq Used(s) /\ s.tmudata \subseteq Of(s, {"udata"})
    BY <1>1 DEF Linkage, Books
  <2>2. taken \subseteq Of(s, {"udata"}) /\ taken \subseteq Used(s) /\ taken \cap s.ran = {}
    BY <1>1 DEF Of, Used, Books
  <2>3. k.ran \cap Used(s) = s.ran /\ s.tmudata \cap k.ran = {}
    BY <1>1 DEF Collecting, Snapshot
  <2> HIDE DEF taken
  <2> QED
    BY <1>3, <2>1, <2>2, <2>3
<1>5. Snapshot(a, l, k)
  BY <1>1, <1>3, SameSnapshot DEF Collecting
<1>6. \A o \in KeptBy(s, k) : o \in KeptBy(a, k)
  BY <1>3, KeptByIs DEF S
<1>7. Collecting(a, l, "mark", k)
  <2>1. a.state \in MarkStates /\ a.tmudata \cap k.ran = {}
    BY <1>1, <1>3, <1>4 DEF SamePhase, S
  <2>2. \A o \in Used(a) : iswhite(a, o) \/ o \in KeptBy(a, k)
    BY <1>1, <1>3, <1>6, SameKeeps DEF Collecting, iswhite
  <2> QED
    BY <1>5, <2>1, <2>2 DEF Collecting, MarkStates, Atomic
<1>8. Painted(a, b, S, a.white)
  BY <1>3, WhiteIs
<1> HIDE DEF b
<1>9. /\ b \in State /\ SameHeap(a, b) /\ SameFates(a, b) /\ SamePhase(a, b)
      /\ \A o \in All : iswhite(b, o) \/ ~iswhite(a, o)
  <2>1. a.white \in {0, 1}
    BY <1>3 DEF State
  <2> QED
    BY <1>8, <2>1 DEF Painted, iswhite
<1>10. Collecting(b, l, "mark", k) /\ b.state \in MarkStates
  BY <1>1, <1>3, <1>7, <1>9, StillMarking DEF SamePhase, Used
<1>11. Whole(b) /\ Used(b) = Used(s)
  BY <1>1, <1>3, <1>9, SameWhole, SameKeeps
<1>12. S \subseteq KeptBy(b, k)
  <2>1. b.tmudata = S
    BY <1>9 DEF SameFates, S
  <2>2. \A u \in S : u \in k.of[u]
    BY <1>3, <1>4, <1>5, SameKeeps DEF Snapshot
  <2> QED
    BY <1>4, <2>1, <2>2, KeptByIs
<1>13. Collecting(c, l, "mark", k) /\ Marked(b, c)
  BY <1>4, <1>9, <1>10, <1>11, <1>12, MarkobjectCollects, MarkobjectMarks
<1> HIDE DEF c
<1>14. c \in State /\ c.state \in MarkStates
  BY <1>10, <1>13 DEF Marked, SamePhase
<1>15. SameBut(c, t) /\ t.state \in MarkStates
  BY <1>14, InState DEF States, MarkStates, Atomic
<1> HIDE DEF t
<1>16. Collecting(t, l, "mark", k)
  BY <1>13, <1>14, <1>15, MarksOn
<1> QED
  BY <1>2, <1>16

\* Only what was kept is alive when marking ends.
LEMMA FlipCollects ==
  ASSUME NEW s, NEW l, NEW k, Inv(s, l, {}), Collecting(s, l, "mark", k), s.state = "saved", s.gray = {}
  PROVE  Collecting([cleartable(s) EXCEPT !.white = 1 - @, !.unswept = Listed(s), !.state = "sweepstring"],
                    l, "mark", k)
<1> DEFINE t == [cleartable(s) EXCEPT !.white = 1 - @, !.unswept = Listed(s), !.state = "sweepstring"]
<1>1. /\ s \in State /\ Marking(s, l, {}) /\ s.state \in MarkStates
      /\ \A o \in Used(s) : ~isdead(s, o)
  BY AllAlive DEF Inv, Phase, MarkStates, Atomic
<1>2. /\ t.kind = s.kind /\ SameFates(s, t) /\ t.white = 1 - s.white /\ t.state = "sweepstring"
      /\ \A o \in All : t.marked[o] = IF o \in Held(s) \cap Of(s, {"string"}) THEN GRAY ELSE s.marked[o]
  BY <1>1, ClearIs
<1> HIDE DEF t
<1>3. Snapshot(s, l, k) /\ Sealed(s, KeptBy(s, k)) /\ \A o \in Used(s) : iswhite(s, o) \/ o \in KeptBy(s, k)
  BY <1>1, KeptBySealed DEF Collecting
<1>4. Held(s) \cap Of(s, {"string"}) \subseteq KeptBy(s, k)
  <2> SUFFICES ASSUME NEW v \in Held(s), v \in Of(s, {"string"})
               PROVE  v \in KeptBy(s, k)
    OBVIOUS
  <2>1. PICK o \in s.weak : v \in {s.refs[o][1], s.refs[o][2]}
    BY DEF Held, Entries
  <2>2. s.kind[o] \in Weak /\ s.marked[o] = GRAY /\ o \in All
    BY <1>1 DEF Marking, State
  <2>3. o \in Used(s) /\ ~iswhite(s, o)
    <3>1. ~iswhite(s, o)
      BY <2>2, ColorsDiffer DEF iswhite
    <3> QED
      BY <2>2, <3>1 DEF Weak, Used
  <2>4. v \in Keeps(s, o)
    <3>1. v # none
      BY Numbers DEF Of
    <3> QED
      BY <2>1, <3>1 DEF Keeps, Leads
  <2> QED
    BY <1>3, <2>3, <2>4 DEF Sealed
<1>5. Alive(t) \subseteq KeptBy(s, k)
  <2> SUFFICES ASSUME NEW o \in Alive(t), o \notin Held(s) \cap Of(s, {"string"})
               PROVE  o \in KeptBy(s, k)
    BY <1>4
  <2>1. o \in All /\ o \in Used(s) /\ t.marked[o] = s.marked[o] /\ t.marked[o] # 1 - t.white
    BY <1>2 DEF Alive, isdead, Used
  <2>2. s.white \in {0, 1} /\ s.marked[o] # 1 - s.white
    BY <1>1, <2>1 DEF isdead, State
  <2>3. ~iswhite(s, o)
    BY <1>2, <2>1, <2>2 DEF iswhite
  <2> QED
    BY <1>3, <2>1, <2>3
<1>6. KeptBy(t, k) = KeptBy(s, k)
  BY <1>2 DEF SameFates, KeptBy
<1>7. t.tmudata \cap k.ran = {} /\ t.ran \subseteq k.ran
  BY <1>2, <1>3 DEF Collecting, SameFates, Snapshot
<1>8. Collecting(t, l, "mark", k)
  BY <1>2, <1>5, <1>6, <1>7 DEF Collecting, MarkStates, Atomic
<1> QED
  BY <1>8 DEF t

LEMMA AtomicCollects ==
  ASSUME NEW s, NEW l, NEW k, Inv(s, l, {}), Collecting(s, l, "mark", k),
         s.state \in MarkStates, s.gray = {}
  PROVE  Collecting(atomic(s, l), l, "mark", k)
<1>1. CASE s.state = "propagate"
  BY <1>1, RemarkedCollects DEF atomic
<1>2. CASE s.state = "remarked"
  BY <1>2, WeakAgainCollects DEF atomic
<1>3. CASE s.state = "weak again"
  BY <1>3, AgainCollects DEF atomic
<1>4. CASE s.state = "again"
  BY <1>4, SavedCollects DEF atomic
<1>5. CASE s.state = "saved"
  BY <1>5, FlipCollects DEF atomic
<1> QED
  BY <1>1, <1>2, <1>3, <1>4, <1>5 DEF MarkStates, Atomic

\* The collection that was under way has been swept: only what finalizers wait for
\* may be marked, and that is kept.
LEMMA MarkrootCollects ==
  ASSUME NEW s, NEW l, NEW k, Inv(s, l, {}), Collecting(s, l, "sweep", k), s.state = "finalize"
  PROVE  Collecting(markroot(s), l, "mark", k)
<1> DEFINE a == [s EXCEPT !.gray = {}, !.grayagain = {}, !.weak = {}, !.state = "propagate"]
           S == {MAIN, REGISTRY}
<1>1. s \in State /\ Linkage(s, l) /\ Resting(s) /\ Books(s) /\ Snapshot(s, l, k) /\ s.tmudata \cap k.ran = {}
  BY DEF Inv, Phase, Collecting
<1>2. markroot(s) = markobject(a, S)
  BY DEF markroot
<1>3. a \in State /\ SameBut(s, a) /\ a.state = "propagate"
  BY <1>1 DEF State, States, SameBut, SameHeap, SameFates
<1> HIDE DEF a
<1>4. Snapshot(a, l, k) /\ a.tmudata = s.tmudata
  BY <1>1, <1>3, SameSnapshot DEF SameBut, SameFates
<1>5. \A u \in s.tmudata : u \in KeptBy(a, k)
  BY <1>1, <1>4, KeptByIs DEF Snapshot, Books
<1>6. \A o \in Used(a) : iswhite(a, o) \/ o \in KeptBy(a, k)
  <2> SUFFICES ASSUME NEW o \in Used(s), o \notin s.tmudata PROVE iswhite(a, o)
    BY <1>3, <1>5, SameButDone
  <2>1. s.marked[o] = s.white /\ s.white \in {0, 1}
    BY <1>1 DEF Resting, State
  <2> QED
    BY <1>3, <2>1 DEF SameBut, iswhite
<1>7. Collecting(a, l, "mark", k) /\ a.state \in MarkStates
  BY <1>1, <1>3, <1>4, <1>6 DEF Collecting, MarkStates, Atomic
<1>8. /\ Inv(markroot(s), l, {})
  BY MarkrootKeeps
<1>9. Whole(a)
  <2>1. \A o \in Used(s) : ~isdead(s, o)
    <3> SUFFICES ASSUME NEW o \in Used(s) PROVE ~isdead(s, o)
      OBVIOUS
    <3>1. s.white \in {0, 1}
      BY <1>1 DEF State
    <3> QED
      BY <1>1, <3>1 DEF Resting, Linkage, Alive, isdead
  <2>2. Alive(s) = Used(s)
    BY <2>1 DEF Alive
  <2>3. Whole(s)
    BY <1>1, <2>2 DEF Whole, Linkage
  <2> QED
    BY <1>3, <2>3, SameWhole DEF SameBut
<1>10. S \subseteq Used(a) \cup {none} /\ S \ {none} \subseteq KeptBy(a, k)
  <2>1. S \subseteq Used(a)
    BY <1>1, <1>3, SameKeeps DEF Linkage, Alive, SameBut
  <2> QED
    BY <1>4, <2>1, KeptByIs DEF Snapshot
<1> HIDE DEF S
<1>11. Collecting(markobject(a, S), l, "mark", k)
  BY <1>3, <1>7, <1>9, <1>10, MarkobjectCollects
<1> QED
  BY <1>2, <1>11

\* t is s without some dead objects: no object keeps more than before.
Dwindles(s, t) ==
  /\ t \in State /\ Used(t) \subseteq Used(s) /\ Alive(t) = Alive(s)
  /\ \A o \in Used(t) : t.kind[o] = s.kind[o] /\ Keeps(t, o) \subseteq Keeps(s, o)
  /\ t.ran = s.ran \cap Used(t) /\ t.tmudata = s.tmudata

LEMMA DwindlesOn ==
  ASSUME NEW s, NEW t, NEW u, Dwindles(s, t), Dwindles(t, u)
  PROVE  Dwindles(s, u)
<1>1. \A o \in Used(u) : u.kind[o] = s.kind[o] /\ Keeps(u, o) \subseteq Keeps(s, o)
  BY DEF Dwindles
<1> QED
  BY <1>1 DEF Dwindles

LEMMA SameDwindles ==
  ASSUME NEW s, NEW t \in State, SameBut(s, t), s.ran \subseteq Used(s)
  PROVE  Dwindles(s, t)
<1>1. SameHeap(s, t) /\ SameFates(s, t)
  BY DEF SameBut
<1>2. Alive(t) = Alive(s)
  BY AliveIs DEF SameBut, SameHeap
<1>3. Used(t) = Used(s) /\ \A o : Keeps(t, o) = Keeps(s, o)
  BY <1>1, SameKeeps
<1> QED
  BY <1>1, <1>2, <1>3 DEF Dwindles, SameHeap, SameFates

LEMMA DwindlesSnapshot ==
  ASSUME NEW s, NEW t, NEW l, NEW k, Snapshot(s, l, k), Dwindles(s, t)
  PROVE  Snapshot(t, l, k)
<1>1. \A u \in Of(t, {"udata"}) : u \in Of(s, {"udata"})
  BY DEF Of, Dwindles, Used
<1>2. ASSUME NEW S, Sealed(s, S)
      PROVE  Sealed(t, S)
  BY <1>2 DEF Sealed, Dwindles
<1>3. k.ran \cap Used(t) = t.ran
  BY DEF Snapshot, Dwindles
<1> QED
  BY <1>1, <1>2, <1>3 DEF Snapshot

LEMMA SweptDwindles ==
  ASSUME NEW s \in State, NEW t, NEW S, NEW dead, IsSwept(s, t, S, dead),
         s.ran \subseteq Used(s), Alive(t) = Alive(s)
  PROVE  Dwindles(s, t)
<1>1. \A o \in Used(t) : o \in All /\ o \notin dead /\ o \in Used(s) /\ t.kind[o] = s.kind[o]
  BY DEF IsSwept, Used
<1>2. ASSUME NEW o \in Used(t)
      PROVE  Keeps(t, o) \subseteq Keeps(s, o)
  <2>1. t.refs[o] = s.refs[o] /\ t.owner[o] = s.owner[o] /\ t.level[o] = s.level[o] /\ t.kind[o] = s.kind[o]
    BY <1>1 DEF IsSwept
  <2>2. s.owner[o] \in All /\ s.level[o] \in 1 .. 2
    BY <1>1 DEF State
  <2>3. Value(t, o) \in {none, Value(s, o)}
    <3>1. CASE s.owner[o] \in dead
      <4>1. t.refs[s.owner[o]] = Pair(none, none)
        BY <2>2, <3>1 DEF IsSwept
      <4>2. \A i \in 1 .. 2 : Pair(none, none)[i] = none
        BY DEF Pair
      <4> QED
        BY <2>1, <2>2, <4>1, <4>2 DEF Value
    <3>2. CASE s.owner[o] \notin dead
      <4>1. t.refs[s.owner[o]] = s.refs[s.owner[o]]
        BY <2>2, <3>2 DEF IsSwept
      <4> QED
        BY <2>1, <4>1 DEF Value
    <3> QED
      BY <3>1, <3>2
  <2>4. Strong(t, o) \subseteq Strong(s, o)
    <3>1. CASE s.kind[o] = "upvalue"
      <4>1. Strong(t, o) = {Value(t, o)} \ {none} /\ Strong(s, o) = {Value(s, o)} \ {none}
        BY <2>1, <3>1 DEF Strong, Weak
      <4> QED
        BY <2>3, <4>1
    <3>2. CASE s.kind[o] # "upvalue"
      BY <2>1, <3>2 DEF Strong
    <3> QED
      BY <3>1, <3>2
  <2>5. Leads(t, o) \subseteq Leads(s, o)
    BY <2>1, <2>3 DEF Leads
  <2>6. Of(t, {"string"}) \subseteq Of(s, {"string"})
    BY <1>1 DEF Of, Used
  <2> QED
    BY <2>4, <2>5, <2>6 DEF Keeps
<1>3. t.ran = s.ran \cap Used(t)
  <2>1. \A o \in s.ran : o \in Used(t) <=> o \notin dead
    BY DEF IsSwept, Used
  <2> QED
    BY <2>1 DEF IsSwept
<1> QED
  BY <1>1, <1>2, <1>3 DEF Dwindles, IsSwept

\* A closed upvalue keeps its value.
LEMMA ClosedKeeps ==
  ASSUME NEW s \in State, NEW t \in State, NEW closed \in SUBSET All,
         \A uv \in closed : s.kind[uv] = "upvalue",
         \A o \in All : s.owner[o] \notin closed \/ s.owner[o] = o,
         t.kind = s.kind, t.white = s.white, SameFates(s, t), s.ran \subseteq Used(s),
         t.refs = [o \in All |-> IF o \in closed THEN Pair(Value(s, o), none) ELSE s.refs[o]],
         t.owner = [o \in All |-> IF o \in closed THEN o ELSE s.owner[o]],
         t.level = [o \in All |-> IF o \in closed THEN 1 ELSE s.level[o]],
         \A o \in All : isdead(t, o) <=> isdead(s, o)
  PROVE  Dwindles(s, t)
<1>1. Used(t) = Used(s) /\ Alive(t) = Alive(s) /\ \A kinds : Of(t, kinds) = Of(s, kinds)
  BY DEF Used, Alive, Of
<1>2. ASSUME NEW o \in Used(s)
      PROVE  Keeps(t, o) \subseteq Keeps(s, o)
  <2>1. o \in All /\ s.owner[o] \in All /\ s.level[o] \in 1 .. 2 /\ t.kind[o] = s.kind[o]
    BY DEF Used, State
  <2>2. CASE o \in closed
    <3>1. t.refs[o] = Pair(Value(s, o), none) /\ t.owner[o] = o /\ t.level[o] = 1
      BY <2>1, <2>2
    <3>2. t.refs[o][1] = Value(s, o) /\ t.refs[o][2] = none /\ Value(t, o) = Value(s, o)
      <4>1. \A v : Pair(v, none)[1] = v /\ Pair(v, none)[2] = none
        BY DEF Pair
      <4>2. t.refs[o][1] = Value(s, o) /\ t.refs[o][2] = none
        BY <3>1, <4>1
      <4> QED
        BY <3>1, <4>2 DEF Value
    <3>3. s.kind[o] = "upvalue"
      BY <2>2
    <3>4. Strong(t, o) = {Value(s, o)} \ {none} /\ Strong(s, o) = {Value(s, o)} \ {none}
      BY <2>1, <3>2, <3>3 DEF Strong, Weak
    <3>5. Leads(t, o) \subseteq Leads(s, o)
      BY <3>2 DEF Leads
    <3> QED
      BY <1>1, <3>4, <3>5 DEF Keeps
  <2>3. CASE o \notin closed
    <3>1. t.refs[o] = s.refs[o] /\ t.owner[o] = s.owner[o] /\ t.level[o] = s.level[o]
      BY <2>1, <2>3
    <3>2. t.refs[s.owner[o]] = s.refs[s.owner[o]]
      BY <2>1, <2>3
    <3>3. Value(t, o) = Value(s, o)
      BY <3>1, <3>2 DEF Value
    <3>4. Strong(t, o) = Strong(s, o) /\ Leads(t, o) = Leads(s, o)
      BY <2>1, <3>1, <3>3 DEF Strong, Leads
    <3> QED
      BY <1>1, <3>4 DEF Keeps
  <2> QED
    BY <2>2, <2>3
<1> QED
  BY <1>1, <1>2 DEF Dwindles, SameFates

LEMMA RanIsUsed ==
  ASSUME NEW s, NEW l, Inv(s, l, {})
  PROVE  s.ran \subseteq Used(s)
BY DEF Inv, Books, Of, Used

LEMMA LuaFCloseDwindles ==
  ASSUME NEW s, NEW l, Inv(s, l, {}), s.state \notin MarkStates, NEW thread, NEW level
  PROVE  Dwindles(s, luaF_close(s, thread, level))
<1> DEFINE upvals == UpvalsFrom(s, thread, level)
           dead == {uv \in upvals : isdead(s, uv)}
           closed == upvals \ dead
           e == Erase(s, dead)
           c == Closed1(s, dead, closed)
           marked == {uv \in closed : c.marked[uv] = GRAY}
           p == makewhite(c, marked)
<1>1. s \in State /\ Linkage(s, l) /\ s.ran \subseteq Used(s)
  BY RanIsUsed DEF Inv
<1>2. \A uv \in upvals : uv \in All /\ uv \in OpenUpvals(s) /\ s.kind[uv] = "upvalue" /\ uv \in Used(s)
                         /\ s.kind[s.owner[uv]] = "thread" /\ s.owner[uv] \in All /\ s.level[uv] \in 1 .. 2
  BY <1>1 DEF UpvalsFrom, OpenUpvals, Linkage, Owned, Used, State
<1>3. \A uv \in OpenUpvals(s) : s.owner[uv] \notin upvals
  BY <1>1, <1>2 DEF Linkage, Owned, OpenUpvals
<1>4. /\ dead \in SUBSET Used(s) /\ dead \in SUBSET All /\ (\A o \in dead : isdead(s, o)) /\ closed \in SUBSET All
      /\ dead \cap closed = {} /\ closed \subseteq upvals /\ dead \subseteq upvals
  BY <1>2
<1>5. \A uv \in closed : Value(s, uv) \in All \cup {none}
  BY <1>1, <1>2 DEF Value, State
<1> HIDE DEF upvals, dead, closed
<1>6. Inv(e, l, {}) /\ Alive(e) = Alive(s) /\ Erased(s, e, dead) /\ e = Erase(s, dead)
  BY <1>3, <1>4, FreeDead
<1> HIDE DEF e
<1>7. IsSwept(s, e, dead, dead)
  BY <1>6 DEF Erased, IsSwept
<1>8. Dwindles(s, e) /\ e \in State /\ e.ran \subseteq Used(e)
  <2>1. e \in State /\ e.ran \subseteq Used(e)
    BY <1>6, <1>7, RanIsUsed DEF IsSwept
  <2> QED
    BY <1>1, <1>6, <1>7, <2>1, SweptDwindles
<1>9. /\ c \in State /\ c.kind = e.kind /\ c.marked = e.marked
      /\ SameFates(e, c) /\ SamePhase(e, c)
      /\ c.refs = [o \in All |-> IF o \in closed THEN Pair(Value(s, o), none) ELSE e.refs[o]]
      /\ c.owner = [o \in All |-> IF o \in closed THEN o ELSE e.owner[o]]
      /\ c.level = [o \in All |-> IF o \in closed THEN 1 ELSE e.level[o]]
  BY <1>4, <1>5, <1>6, <1>8, Closed1Is
<1>10. luaF_close(s, thread, level) = p
  <2>1. luaF_close(s, thread, level) = luaC_linkupval(c, closed)
    BY DEF luaF_close, Closed1, upvals, dead, closed
  <2>2. c.state # "propagate"
    BY <1>6, <1>9 DEF Erased, SamePhase, MarkStates
  <2> QED
    BY <2>1, <2>2 DEF luaC_linkupval
<1> HIDE DEF c
<1>11. \A uv \in closed : Value(e, uv) = Value(s, uv) /\ e.kind[uv] = "upvalue"
  <2> SUFFICES ASSUME NEW uv \in closed
               PROVE  Value(e, uv) = Value(s, uv) /\ e.kind[uv] = "upvalue"
    OBVIOUS
  <2>1. uv \in All \ dead /\ s.owner[uv] \in All \ dead /\ s.kind[uv] = "upvalue"
    BY <1>2, <1>3, <1>4
  <2> QED
    BY <1>7, <2>1 DEF IsSwept, Value
<1>12. \A o \in All : e.owner[o] \notin closed \/ e.owner[o] = o
  <2> SUFFICES ASSUME NEW o \in All, e.owner[o] # o
               PROVE  e.owner[o] \notin upvals
    BY <1>4
  <2>1. e.owner[o] = s.owner[o]
    BY <1>7 DEF IsSwept
  <2> QED
    BY <1>3, <2>1 DEF OpenUpvals
<1>13. Painted(c, p, marked, c.white)
  BY <1>9, WhiteIs
<1>14. marked \subseteq closed /\ \A uv \in marked : c.marked[uv] = GRAY
  OBVIOUS
<1> HIDE DEF p, marked
<1>15. \A o \in All : isdead(p, o) <=> isdead(e, o)
  <2> SUFFICES ASSUME NEW o \in All PROVE isdead(p, o) <=> isdead(e, o)
    OBVIOUS
  <2>1. p.white = c.white /\ c.white = e.white /\ e.white \in {0, 1}
    BY <1>8, <1>9, <1>13 DEF Painted, SamePhase, State
  <2>2. CASE o \in marked
    <3>1. p.marked[o] = p.white /\ e.marked[o] = GRAY
      BY <1>9, <1>13, <1>14, <2>1, <2>2 DEF Painted
    <3> QED
      BY <2>1, <3>1, ColorsDiffer DEF isdead
  <2>3. CASE o \notin marked
    BY <1>9, <1>13, <2>1, <2>3 DEF Painted, isdead
  <2> QED
    BY <2>2, <2>3
<1>16. /\ p \in State /\ p.kind = e.kind /\ p.white = e.white /\ SameFates(e, p)
       /\ p.refs = [o \in All |-> IF o \in closed THEN Pair(Value(e, o), none) ELSE e.refs[o]]
       /\ p.owner = [o \in All |-> IF o \in closed THEN o ELSE e.owner[o]]
       /\ p.level = [o \in All |-> IF o \in closed THEN 1 ELSE e.level[o]]
  BY <1>9, <1>11, <1>13 DEF Painted, SameHeap, SameFates, SamePhase
<1>17. Dwindles(e, p)
  BY <1>4, <1>8, <1>11, <1>12, <1>15, <1>16, ClosedKeeps
<1> QED
  BY <1>8, <1>10, <1>17, DwindlesOn

LEMMA SweepstringsDwindles ==
  ASSUME NEW s, NEW l, Inv(s, l, {}), s.state = "sweepstring"
  PROVE  Dwindles(s, sweepstrings(s)) /\ sweepstrings(s).state = "sweep"
<1> DEFINE S == Of(s, {"string"})
           a == Swept(s, S)
           t == [a EXCEPT !.state = "sweep"]
<1>1. s \in State /\ Linkage(s, l) /\ s.ran \subseteq Used(s) /\ s.state \notin MarkStates
  BY RanIsUsed DEF Inv, MarkStates, Atomic
<1>2. S \in SUBSET Used(s) /\ \A uv \in OpenUpvals(s) : s.owner[uv] \notin S
  BY <1>1 DEF Of, Used, Linkage, Owned, OpenUpvals
<1> HIDE DEF S
<1>3. Inv(a, l, {}) /\ Alive(a) = Alive(s) /\ IsSwept(s, a, S, {o \in S : isdead(s, o)})
  BY <1>1, <1>2, SweptKeeps
<1> HIDE DEF a
<1>4. Dwindles(s, a) /\ a \in State /\ a.ran \subseteq Used(a)
  BY <1>1, <1>3, SweptDwindles, RanIsUsed DEF Inv
<1>5. t \in State /\ SameBut(a, t) /\ t.state = "sweep"
  BY <1>4, InState DEF States
<1> HIDE DEF t
<1>6. Dwindles(s, t)
  BY <1>4, <1>5, SameDwindles, DwindlesOn
<1> QED
  BY <1>5, <1>6 DEF sweepstrings, t, a, S

LEMMA SweptAlive ==
  ASSUME NEW s \in State, NEW t, NEW S, MAIN \in Alive(s),
         IsSwept(s, t, S, {o \in S \ {MAIN} : isdead(s, o)})
  PROVE  Alive(t) = Alive(s)
<1> DEFINE dead == {o \in S \ {MAIN} : isdead(s, o)}
<1>1. t.white = s.white /\ s.white \in {0, 1}
  BY DEF IsSwept, State
<1>2. \A o \in All : o \in Used(t) <=> o \in Used(s) /\ o \notin dead
  BY DEF IsSwept, Used
<1>3. ASSUME NEW o \in Used(t)
      PROVE  isdead(t, o) <=> isdead(s, o)
  <2>1. o \in All /\ o \notin dead
    BY <1>2 DEF Used
  <2>2. t.marked[o] = IF o \in S THEN s.white ELSE s.marked[o]
    BY <2>1 DEF IsSwept
  <2>3. o \in S => ~isdead(s, o)
    BY <2>1 DEF Alive
  <2> QED
    BY <1>1, <2>2, <2>3 DEF isdead
<1>4. \A o \in Alive(s) : o \notin dead
  BY DEF Alive
<1> HIDE DEF dead
<1> QED
  BY <1>2, <1>3, <1>4 DEF Alive, Used

LEMMA SweeplistDwindles ==
  ASSUME NEW s, NEW l, Inv(s, l, {}), s.state = "sweep", NEW o \in s.unswept
  PROVE  Dwindles(s, sweeplist(s, o))
<1> DEFINE U == UpvalsFrom(s, o, 1)
           a == Swept(s, U)
           b == IF isdead(s, o) /\ o # MAIN THEN luaF_close(a, o, 1) ELSE a
           S == {o}
           t == Swept(b, S)
<1>1. sweeplist(s, o) = t
  BY DEF sweeplist
<1>2. s \in State /\ Linkage(s, l) /\ Sweeping(s) /\ s.state \notin MarkStates /\ s.ran \subseteq Used(s)
  BY RanIsUsed DEF Inv, Phase, MarkStates, Atomic
<1>3. U \in SUBSET Used(s) /\ \A uv \in OpenUpvals(s) : s.owner[uv] \notin U
  BY <1>2 DEF UpvalsFrom, OpenUpvals, Used, Linkage, Owned
<1> HIDE DEF U
<1>4. Inv(a, l, {}) /\ Alive(a) = Alive(s) /\ IsSwept(s, a, U, {x \in U : isdead(s, x)})
  BY <1>2, <1>3, SweptKeeps
<1> HIDE DEF a
<1>5. Dwindles(s, a) /\ a.state = "sweep"
  BY <1>2, <1>4, SweptDwindles DEF IsSwept
<1>6. Inv(b, l, {}) /\ Dwindles(s, b)
  <2>1. CASE isdead(s, o) /\ o # MAIN
    <3>1. a.state \notin MarkStates /\ a.state \notin Atomic
      BY <1>5 DEF MarkStates, Atomic
    <3>2. Inv(luaF_close(a, o, 1), l, {}) /\ Dwindles(a, luaF_close(a, o, 1))
      BY <1>4, <3>1, LuaFCloseKeeps, LuaFCloseDwindles
    <3> QED
      BY <1>5, <2>1, <3>2, DwindlesOn
  <2>2. CASE ~(isdead(s, o) /\ o # MAIN)
    BY <1>4, <1>5, <2>2
  <2> QED
    BY <2>1, <2>2
<1> HIDE DEF b
<1>7. b \in State /\ MAIN \in Alive(b) /\ b.ran \subseteq Used(b) /\ S \in SUBSET All
  <2>1. o \in All
    BY <1>2 DEF State
  <2> QED
    BY <1>6, <2>1, RanIsUsed DEF Inv, Linkage
<1> HIDE DEF S
<1>8. IsSwept(b, t, S, {x \in S \ {MAIN} : isdead(b, x)})
  BY <1>7, SweptIs
<1> HIDE DEF t
<1>9. Dwindles(b, t)
  BY <1>7, <1>8, SweptAlive, SweptDwindles
<1> QED
  BY <1>1, <1>6, <1>9, DwindlesOn

\* A full collection goes on while the heap dwindles.
LEMMA SweepCollects ==
  ASSUME NEW s, NEW t, NEW l, NEW f \in {"sweep", "mark"}, NEW k, Collecting(s, l, f, k),
         s.state \in {"sweepstring", "sweep"}, t.state \in {"sweep", "finalize"}, Dwindles(s, t)
  PROVE  Collecting(t, l, f, k)
<1>1. t.state \notin MarkStates /\ t.state # "pause" /\ s.state \notin MarkStates
  BY DEF MarkStates, Atomic
<1>2. t.tmudata = s.tmudata /\ t.ran \subseteq s.ran /\ Alive(t) = Alive(s)
  BY DEF Dwindles
<1>3. f = "sweep" => Snapshot(t, l, k)
  BY DwindlesSnapshot DEF Collecting
<1>4. ASSUME f = "mark"
      PROVE  Alive(t) \subseteq KeptBy(t, k) /\ t.ran \subseteq k.ran
  <2>1. s.ran \subseteq k.ran /\ Alive(s) \subseteq KeptBy(s, k)
    BY <1>1, <1>4 DEF Collecting
  <2>2. KeptBy(t, k) = KeptBy(s, k)
    <3>1. (t.ran \cup t.tmudata) \ k.ran = (s.ran \cup s.tmudata) \ k.ran
      BY <1>2, <2>1
    <3> QED
      BY <3>1 DEF KeptBy
  <2> QED
    BY <1>2, <2>1, <2>2
<1> QED
  BY <1>1, <1>2, <1>3, <1>4 DEF Collecting

\* A finalizer that runs is still among those that the collection has found, and
\* nothing comes alive.
LEMMA GCTMCollects ==
  ASSUME NEW s, NEW l, NEW k, Inv(s, l, {}), Collecting(s, l, "mark", k), s.state = "finalize",
         NEW u \in s.tmudata, NEW stores \in BOOLEAN
  PROVE  Collecting(GCTM(s, u, stores), l, "mark", k)
<1> DEFINE p == makewhite(s, {u})
           t == [p EXCEPT !.tmudata = @ \ {u}, !.ran = @ \cup {u}, !.lost = @ \cup ({u} \cap s.ran)]
           r == Pair(u, none)
           x == Store(t, REGISTRY, r)
           q == luaC_barriert(x, REGISTRY, {u})
<1>1. s \in State /\ u \in Alive(s) /\ u \in All /\ s.state \notin MarkStates
  BY DEF Inv, Linkage, State, MarkStates, Atomic
<1>2. Painted(s, p, {u}, s.white)
  BY <1>1, WhiteIs
<1> HIDE DEF p
<1>3. /\ t.kind = s.kind /\ t.marked = p.marked /\ t.white = s.white /\ t.state = s.state
      /\ t.tmudata = s.tmudata \ {u} /\ t.ran = s.ran \cup {u}
  BY <1>2 DEF Painted, SameHeap, SameFates, SamePhase, State
<1>4. Inv(t, l, {})
  BY FinalizedKeeps DEF p
<1> HIDE DEF t
<1>5. Alive(t) \subseteq Alive(s)
  <2> SUFFICES ASSUME NEW o \in Alive(t), o # u PROVE o \in Alive(s)
    BY <1>1
  <2>1. o \in All /\ t.marked[o] = s.marked[o]
    BY <1>2, <1>3 DEF Painted, Alive, Used
  <2> QED
    BY <1>3, <2>1 DEF Alive, Used, isdead
<1>6. (t.ran \cup t.tmudata) \ k.ran = (s.ran \cup s.tmudata) \ k.ran
  BY <1>3
<1>7. \A y : Alive(y) \subseteq Alive(t) /\ y.state = t.state /\ y.tmudata = t.tmudata /\ y.ran = t.ran
               => Collecting(y, l, "mark", k)
  <2> SUFFICES ASSUME NEW y, Alive(y) \subseteq Alive(t),
                      y.state = t.state, y.tmudata = t.tmudata, y.ran = t.ran
               PROVE  Collecting(y, l, "mark", k)
    OBVIOUS
  <2>1. KeptBy(y, k) = KeptBy(s, k)
    BY <1>6 DEF KeptBy
  <2>2. Alive(y) \subseteq KeptBy(s, k) /\ y.tmudata \cap k.ran = {}
    BY <1>1, <1>3, <1>5 DEF Collecting
  <2>3. y.state = "finalize"
    BY <1>3
  <2> QED
    BY <2>1, <2>2, <2>3 DEF Collecting, MarkStates, Atomic
<1>8. CASE ~stores
  <2>1. GCTM(s, u, stores) = t
    BY <1>8 DEF GCTM, t, p
  <2> QED
    BY <1>7, <2>1
<1>9. CASE stores
  <2>1. GCTM(s, u, stores) = q
    BY <1>9 DEF GCTM, t, p, Store
  <2>2. t \in State /\ r \in [1 .. 2 -> All \cup {none}] /\ REGISTRY \in All
    BY <1>1, <1>4, PairIs, Numbers DEF Inv
  <2> HIDE DEF r
  <2>3. x \in State /\ SameRest(t, x) /\ x.kind = t.kind /\ x.refs = [t.refs EXCEPT ![REGISTRY] = r]
    BY <2>2, StoreIs
  <2> HIDE DEF x
  <2>4. Alive(x) = Alive(t)
    BY <2>3, AliveIs DEF SameRest, SamePhase
  <2>5. x.state = t.state /\ x.tmudata = t.tmudata /\ x.ran = t.ran
    BY <2>3 DEF SameRest, SamePhase, SameFates
  <2>6. CASE q = x
    BY <1>7, <2>1, <2>4, <2>5, <2>6
  <2>7. CASE q # x
    <3> DEFINE b == Paint(x, {REGISTRY}, GRAY)
    <3>1. q = [b EXCEPT !.grayagain = @ \cup {REGISTRY}]
      BY <2>7 DEF luaC_barriert
    <3>2. Painted(x, b, {REGISTRY}, GRAY)
      BY <2>3, PaintIs, ColorsDiffer
    <3> HIDE DEF b, q
    <3>3. /\ q.kind = x.kind /\ q.marked = b.marked /\ q.white = x.white /\ q.state = x.state
          /\ q.tmudata = x.tmudata /\ q.ran = x.ran
      BY <3>1, <3>2 DEF Painted, SameHeap, SameFates, SamePhase, State
    <3>4. Alive(q) \subseteq Alive(t)
      <4> SUFFICES ASSUME NEW o \in Alive(q), o # REGISTRY PROVE o \in Alive(x)
        BY <1>4, <2>4 DEF Inv, Linkage
      <4>1. o \in All /\ q.marked[o] = x.marked[o]
        BY <3>2, <3>3 DEF Painted, Alive, Used
      <4> QED
        BY <3>3, <4>1 DEF Alive, Used, isdead
    <3> QED
      BY <1>7, <2>1, <2>5, <3>3, <3>4
  <2> QED
    BY <2>6, <2>7
<1> QED
  BY <1>8, <1>9

LEMMA SinglestepCollects ==
  ASSUME NEW s, NEW l, NEW f \in {"sweep", "mark"}, NEW k, Inv(s, l, {}), Collecting(s, l, f, k),
         f = "sweep" => s.state \in {"sweepstring", "sweep"},
         s.state \notin {"pause", "closed"}, NEW t \in singlestep(s, l)
  PROVE  Collecting(t, l, f, k)
<1>1. s \in State /\ s.ran \subseteq Used(s)
  BY RanIsUsed DEF Inv
<1>2. CASE s.state \in MarkStates
  <2>1. /\ f = "mark"
        /\ s.state # "pause" /\ s.state # "sweepstring" /\ s.state # "sweep" /\ s.state # "finalize"
        /\ s.state \in {"propagate"} \cup Atomic
    BY <1>2 DEF MarkStates, Atomic
  <2>2. t \in IF s.gray = {} THEN {atomic(s, l)} ELSE {propagatemark(s, o) : o \in s.gray}
    BY <2>1 DEF singlestep
  <2>3. CASE s.gray = {}
    BY <1>2, <2>1, <2>2, <2>3, AtomicCollects
  <2>4. CASE s.gray # {}
    <3>1. PICK o \in s.gray : t = propagatemark(s, o)
      BY <2>2, <2>4
    <3> QED
      BY <1>2, <2>1, <3>1, PropagatemarkCollects
  <2> QED
    BY <2>3, <2>4
<1>3. CASE s.state = "sweepstring"
  <2>1. t = sweepstrings(s)
    BY <1>3 DEF singlestep, Atomic
  <2>2. Dwindles(s, t) /\ t.state = "sweep"
    BY <1>3, <2>1, SweepstringsDwindles
  <2> QED
    BY <1>3, <2>2, SweepCollects
<1>4. CASE s.state = "sweep"
  <2>1. t \in {IF x.unswept = {} THEN [x EXCEPT !.state = "finalize"] ELSE x :
                 x \in {sweeplist(s, o) : o \in s.unswept}}
    BY <1>4 DEF singlestep, Atomic
  <2>2. PICK x \in {sweeplist(s, o) : o \in s.unswept} :
          t = IF x.unswept = {} THEN [x EXCEPT !.state = "finalize"] ELSE x
    BY <2>1
  <2>3. PICK o \in s.unswept : x = sweeplist(s, o)
    OBVIOUS
  <2>4. Dwindles(s, x) /\ x.state = "sweep" /\ x \in State /\ x.ran \subseteq Used(x)
    BY <1>4, <2>3, SweeplistKeeps, SweeplistDwindles, RanIsUsed DEF Inv
  <2>5. Dwindles(s, t) /\ t.state \in {"sweep", "finalize"}
    <3>1. CASE x.unswept = {}
      <4>1. t = [x EXCEPT !.state = "finalize"] /\ "finalize" \in States
        BY <2>2, <3>1 DEF States
      <4>2. t \in State /\ SameBut(x, t) /\ t.state = "finalize"
        BY <2>4, <4>1, InState
      <4> QED
        BY <2>4, <4>2, SameDwindles, DwindlesOn
    <3>2. CASE x.unswept # {}
      BY <2>2, <2>4, <3>2
    <3> QED
      BY <3>1, <3>2
  <2> QED
    BY <1>4, <2>5, SweepCollects
<1>5. CASE s.state = "finalize"
  <2>1. t \in IF s.tmudata = {} THEN {[s EXCEPT !.state = "pause"]}
              ELSE {GCTM(s, u, stores) : u \in s.tmudata, stores \in BOOLEAN}
    BY <1>5 DEF singlestep, Atomic
  <2>2. f = "mark"
    BY <1>5
  <2>3. CASE s.tmudata = {}
    <3>1. t = [s EXCEPT !.state = "pause"] /\ "pause" \in States
      BY <2>1, <2>3 DEF States
    <3>2. SameBut(s, t) /\ t.state = "pause"
      BY <1>1, <3>1, InState
    <3>3. Alive(t) = Alive(s) /\ t.tmudata = s.tmudata /\ KeptBy(t, k) = KeptBy(s, k)
      BY <3>2, AliveIs DEF SameBut, SameHeap, SameFates, KeptBy
    <3>4. Alive(s) \subseteq KeptBy(s, k)
      BY <1>5, <2>2 DEF Collecting, MarkStates, Atomic
    <3> QED
      BY <2>2, <2>3, <3>2, <3>3, <3>4 DEF Collecting, MarkStates, Atomic
  <2>4. CASE s.tmudata # {}
    <3>1. \E u \in s.tmudata : \E stores \in BOOLEAN : t = GCTM(s, u, stores)
      BY <2>1, <2>4
    <3>2. PICK u \in s.tmudata : \E stores \in BOOLEAN : t = GCTM(s, u, stores)
      BY <3>1
    <3>3. PICK stores \in BOOLEAN : t = GCTM(s, u, stores)
      BY <3>2
    <3> QED
      BY <1>5, <2>2, <3>3, GCTMCollects
  <2> QED
    BY <2>3, <2>4
<1> QED
  BY <1>1, <1>2, <1>3, <1>4, <1>5 DEF State, States, MarkStates

\* What can be reached from some objects holds them, and what is referred to from it.
LEMMA ReachIs ==
  ASSUME NEW from \in SUBSET All, NEW next \in [All -> SUBSET All]
  PROVE  /\ from \subseteq Reach(from, next)
         /\ \A o \in Reach(from, next) : next[o] \subseteq Reach(from, next)
<1> DEFINE closed == {S \in {from \cup T : T \in SUBSET (All \ from)} : Closed(S, next)}
<1>1. Reach(from, next) = {o \in All : \A S \in closed : o \in S}
  BY DEF Reach
<1>2. \A S \in closed : from \subseteq S /\ Closed(S, next)
  OBVIOUS
<1> HIDE DEF closed
<1>3. ASSUME NEW o \in Reach(from, next), NEW v \in next[o]
      PROVE  v \in Reach(from, next)
  <2>1. o \in All /\ v \in All
    BY <1>1
  <2>2. \A S \in closed : v \in S
    BY <1>1, <1>2 DEF Closed
  <2> QED
    BY <1>1, <2>1, <2>2
<1> QED
  BY <1>1, <1>2, <1>3

\* Kept takes the snapshot.
LEMMA KeptIs ==
  ASSUME Inv(g, L, {})
  PROVE  Snapshot(g, L, Kept(g))
<1> DEFINE next == [o \in All |-> Keeps(g, o)]
           roots == {MAIN, REGISTRY, L}
           k == Kept(g)
<1>1. g \in State /\ L \in All /\ g.ran \subseteq Used(g)
  BY RanIsUsed DEF Inv
<1>2. next \in [All -> SUBSET All]
  <2> SUFFICES ASSUME NEW o \in All PROVE Keeps(g, o) \subseteq All
    OBVIOUS
  <2>1. g.refs[o][1] \in All \cup {none} /\ g.refs[o][2] \in All \cup {none}
    BY <1>1 DEF State
  <2>2. Value(g, o) \in All \cup {none}
    BY <1>1 DEF Value, State
  <2>3. Strong(g, o) \subseteq All
    BY <2>1, <2>2, Numbers DEF Strong
  <2> QED
    BY <2>3 DEF Keeps, Of
<1>3. \A S \in SUBSET All : S \subseteq Reach(S, next) /\ Sealed(g, Reach(S, next))
  <2> SUFFICES ASSUME NEW S \in SUBSET All
               PROVE  S \subseteq Reach(S, next) /\ Sealed(g, Reach(S, next))
    OBVIOUS
  <2>1. /\ S \subseteq Reach(S, next)
        /\ \A o \in Reach(S, next) : next[o] \subseteq Reach(S, next)
    <3> HIDE DEF next
    <3> QED
      BY <1>2, ReachIs
  <2>2. \A o \in All : next[o] = Keeps(g, o)
    OBVIOUS
  <2> QED
    BY <2>1, <2>2 DEF Sealed, Used
<1>4. /\ k.from = Reach(roots, next) /\ k.ran = g.ran
      /\ \A u \in All : k.of[u] = IF g.kind[u] = "udata" THEN Reach({u}, next) ELSE {}
  BY DEF Kept
<1>5. roots \in SUBSET All /\ \A u \in All : {u} \in SUBSET All
  BY <1>1, Numbers
<1> HIDE DEF next, k
<1>6. roots \subseteq k.from /\ Sealed(g, k.from)
  BY <1>3, <1>4, <1>5
<1>7. ASSUME NEW u \in All
      PROVE  Sealed(g, k.of[u]) /\ (g.kind[u] = "udata" => u \in k.of[u])
  <2>1. CASE g.kind[u] = "udata"
    BY <1>3, <1>4, <1>5, <2>1
  <2>2. CASE g.kind[u] # "udata"
    BY <1>4, <2>2 DEF Sealed
  <2> QED
    BY <2>1, <2>2
<1>8. \A u \in Of(g, {"udata"}) : u \in k.of[u]
  BY <1>7 DEF Of
<1>9. Snapshot(g, L, k)
  BY <1>1, <1>4, <1>6, <1>7, <1>8 DEF Snapshot
<1> QED
  BY <1>9 DEF k

\* Where a full collection begins.
LEMMA FullGcCollects ==
  ASSUME Inv(g, L, {})
  PROVE  Collecting(Restarted(g), L, "sweep", Kept(g))
<1>1. Snapshot(g, L, Kept(g))
  BY KeptIs
<1>2. Kept(g).ran = g.ran
  BY DEF Kept
<1>3. g.tmudata \cap g.ran = {} /\ g \in State
  BY DEF Inv, Books
<1>4. SameHeap(g, Restarted(g)) /\ SameFates(g, Restarted(g))
  BY <1>3 DEF Restarted, State, SameHeap, SameFates
<1>5. Snapshot(Restarted(g), L, Kept(g))
  BY <1>1, <1>4, SameSnapshot DEF SameFates
<1> QED
  BY <1>2, <1>3, <1>4, <1>5 DEF Collecting, SameFates

LEMMA FullNext == IInv /\ FullInv /\ [GcNext]_gcVars => FullInv'
<1> SUFFICES ASSUME IInv, FullInv, [GcNext]_gcVars, full' # "no"
             PROVE  Collecting(g', L', full', kept')
  BY DEF FullInv
<1>1. CASE UNCHANGED gcVars
  BY <1>1 DEF gcVars, FullInv
<1>2. CASE GcNext
  <2>1. Inv(g, L, {}) /\ g.state # "closed" /\ full \in {"no", "sweep", "mark"}
    BY <1>2 DEF GcNext, IInv
  <2>2. CASE full = "no"
    <3>1. FullGc /\ L' = L
      BY <1>2, <2>2 DEF GcNext
    <3> QED
      BY <2>1, <3>1, FullGcCollects DEF FullGc
  <2>3. CASE full # "no"
    <3>1. FullStep /\ L' = L /\ Collecting(g, L, full, kept)
      BY <1>2, <2>3 DEF GcNext, FullInv
    <3>2. CASE full = "sweep" /\ g.state = "finalize"
      <4>1. g' = markroot(g) /\ full' = "mark" /\ kept' = kept
        BY <3>1, <3>2 DEF FullStep
      <4> QED
        BY <2>1, <3>1, <3>2, <4>1, MarkrootCollects
    <3>3. CASE full = "mark" /\ g.state = "pause"
      BY <3>1, <3>3 DEF FullStep
    <3>4. CASE ~(full = "sweep" /\ g.state = "finalize") /\ ~(full = "mark" /\ g.state = "pause")
      <4>1. g' \in singlestep(g, L) /\ full' = full /\ kept' = kept
        BY <3>1, <3>4 DEF FullStep
      <4>2. full \in {"sweep", "mark"} /\ (full = "sweep" => g.state \in {"sweepstring", "sweep"})
        BY <2>1, <2>3, <3>4 DEF IInv
      <4>3. g.state \notin {"pause", "closed"}
        BY <2>1, <3>4, <4>2
      <4> QED
        BY <2>1, <3>1, <4>1, <4>2, <4>3, SinglestepCollects
    <3> QED
      BY <3>2, <3>3, <3>4
  <2> QED
    BY <2>2, <2>3
<1> QED
  BY <1>1, <1>2

LEMMA OnlyKept == IInv /\ FullInv => FullCollects
<1> SUFFICES ASSUME IInv, FullInv, full = "mark", g.state = "pause"
             PROVE  Used(g) \subseteq kept.from \cup UNION {kept.of[u] : u \in g.ran \ kept.ran}
  BY DEF FullCollects
<1>1. g \in State /\ Resting(g)
  BY DEF IInv, Inv, Phase
<1>2. Collecting(g, L, "mark", kept) /\ g.state \notin MarkStates
  BY DEF FullInv, MarkStates, Atomic
<1>3. g.tmudata = {} /\ Alive(g) \subseteq KeptBy(g, kept)
  BY <1>2 DEF Collecting
<1>4. Used(g) = Alive(g)
  <2>1. g.white \in {0, 1}
    BY <1>1 DEF State
  <2> QED
    BY <1>1, <1>3, <2>1 DEF Resting, Alive, isdead
<1> QED
  BY <1>3, <1>4 DEF KeptBy

\* When a full collection ends, whatever was under way when it was called, it has
\* freed all that neither the roots kept then nor the udata that it has finalized.
THEOREM GarbageIsFreed == GcSpec => []FullCollects
<1>1. GcInit => FullInv
  BY DEF GcInit, FullInv
<1>2. IInv /\ FullInv /\ [GcNext]_gcVars => FullInv'
  BY FullNext
<1>3. GcSpec => []FullInv
  BY <1>1, <1>2, Invariance, PTL DEF GcSpec
<1> QED
  BY <1>3, Invariance, OnlyKept, PTL

=============================================================================
