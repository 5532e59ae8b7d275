---------------------------- MODULE EventIterator ----------------------------
(***************************************************************************)
(* FileSystemState.eventIterator beside the log it reads: one iterator,    *)
(* opened by a thread of its own while operations, failures and restarts   *)
(* of StateLog go on.  It looks at nextSequenceNumber without the monitor, *)
(* takes the monitor to read the index entry, and reads the data file      *)
(* through a file object of its own, again without the monitor.            *)
(***************************************************************************)
EXTENDS StateLog

CONSTANT Limits   \* values of maxCount callers pass; negative means no limit

ASSUME LimitsAssumption == Limits \subseteq Int

VARIABLES
  it,    \* the iterator: its step, next number, events left, offset, event
  goal,  \* history: nextSequenceNumber when it was opened
  seen   \* history: the events iterators have handed to their callers

itVars == <<it, goal, seen>>

NoIterator == [st |-> "none", i |-> 0, left |-> 0, pos |-> 0, ev |-> Blank]

IteratorInit == Init /\ it = NoIterator /\ goal = 0 /\ seen = {}

\* eventIterator(seq, maxCount) and the first hasNext; a caller that asks for
\* the event before number 0 gets number 0.
Open(seq, max) ==
  /\ it.st = "none" /\ Serving
  /\ it' = [NoIterator EXCEPT !.st = "check", !.i = IF seq < 0 THEN 0 ELSE seq, !.left = max]
  /\ goal' = next
  /\ UNCHANGED seen /\ UNCHANGED vars

\* getNext: idx < nextSequenceNumber && (max < 0 || count < max)
CheckBounds ==
  /\ it.st = "check"
  /\ it' = [it EXCEPT !.st = IF it.i < next /\ it.left # 0 THEN "index" ELSE "end"]
  /\ UNCHANGED <<goal, seen>> /\ UNCHANGED vars

\* Slip: the index entry is read without the monitor.
SlipReadIndexEntry ==
  /\ it.st = "index"
  /\ it' = IF it.i < ilen /\ idx[it.i].pos >= 0
              THEN [it EXCEPT !.st = "data", !.pos = idx[it.i].pos]
              ELSE [it EXCEPT !.st = "end"]
  /\ UNCHANGED <<goal, seen>> /\ UNCHANGED vars

\* getNext: readIndexEntry needs the monitor; the end of the file and a
\* negative offset raise IOException, which ends the iteration.
ReadIndexEntry ==
  /\ it.st = "index" /\ pc = "idle"
  /\ it' = IF it.i < ilen /\ idx[it.i].pos >= 0
              THEN [it EXCEPT !.st = "data", !.pos = idx[it.i].pos]
              ELSE [it EXCEPT !.st = "end"]
  /\ UNCHANGED <<goal, seen>> /\ UNCHANGED vars

\* getNext: readEventEntry on the iterator's own file object.
ReadEventEntry ==
  /\ it.st = "data"
  /\ it' = IF Readable(it.i, it.pos)
              THEN [it EXCEPT !.st = "ready", !.i = it.i + 1, !.left = it.left - 1,
                              !.ev = IF Intact(it.pos) THEN dat[it.pos].ev ELSE Blank]
              ELSE [it EXCEPT !.st = "end"]
  /\ UNCHANGED <<goal, seen>> /\ UNCHANGED vars

\* next: hand out the event that was read ahead and read the following one.
HandOut ==
  /\ it.st = "ready"
  /\ seen' = seen \cup {[seq |-> it.i - 1, ev |-> it.ev]}
  /\ it' = [it EXCEPT !.st = "check", !.ev = Blank]
  /\ UNCHANGED goal /\ UNCHANGED vars

\* The caller drops the iterator.
Drop ==
  /\ it.st \in {"ready", "end"}
  /\ it' = NoIterator /\ goal' = 0
  /\ UNCHANGED seen /\ UNCHANGED vars

IteratorStep ==
  \/ \E seq \in -1 .. MaxSeq, max \in Limits : Open(seq, max)
  \/ CheckBounds \/ ReadIndexEntry \/ ReadEventEntry \/ HandOut \/ Drop

\* The log moves on; an iterator ends with the process.
LogStep ==
  /\ Next
  /\ IF pc' = "down" THEN it' = NoIterator /\ goal' = 0 ELSE UNCHANGED <<it, goal>>
  /\ UNCHANGED seen

IteratorNext == IteratorStep \/ LogStep

\* The log is as fair to its own steps as without a reader.
IteratorSpec ==
  /\ IteratorInit /\ [][IteratorNext]_<<vars, itVars>>
  /\ Fairness

-----------------------------------------------------------------------------
(* Properties *)

\* What a reader was once shown stays true: the event keeps its number and its
\* record through every later operation, failure and restart, although the
\* reader looked at the counter and at the data file without the monitor.
SeenSurvive ==
  \A e \in seen : Recorded(e.seq) /\ dat[idx[e.seq].pos] = e

\* An iterator without a limit ends only behind every event that had been
\* counted when it was opened: no entry makes it give up early (getNext,
\* FileSystemState 164-176, turns every exception into the end).
ReachesGoal ==
  it.st = "end" /\ it.left < 0 => it.i >= goal

=============================================================================
