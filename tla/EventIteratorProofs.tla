------------------------- MODULE EventIteratorProofs -------------------------
(***************************************************************************)
(* Proofs about EventIterator: reading beside the writers, half of it      *)
(* without the monitor, is sound for every set of limits and every bound   *)
(* of the log.                                                             *)
(***************************************************************************)
EXTENDS EventIterator, StateLogProofs

-----------------------------------------------------------------------------
(* The inductive invariant *)

ItTypeOK ==
  /\ it \in [st : {"none", "check", "index", "data", "ready", "end"}, i : Nat,
             left : Int, pos : Int, ev : Event \cup {Blank}]
  /\ goal \in Nat

\* The index leads from number s to the record r.
Leads(s, r) == s \in Nat /\ Recorded(s) /\ dat[idx[s].pos] = r

\* An iterator lives while its process serves, and the counter never falls back
\* behind what it has seen of it.
AliveOK == it.st # "none" => Serving /\ goal <= next

\* What the iterator has found out stays true while it goes on without the
\* monitor: its number was counted, its offset is that of its number, the event
\* it holds is the one before its number.
FoundOK ==
  /\ it.st = "index" => it.i < next
  /\ it.st = "data" => Recorded(it.i) /\ it.pos = idx[it.i].pos
  /\ it.st = "ready" => Leads(it.i - 1, [seq |-> it.i - 1, ev |-> it.ev])

\* Nothing was shown before there was a log.
ShownOK ==
  /\ pc = "filling" => seen = {}
  /\ \A e \in seen : Leads(e.seq, e)

ReaderInv == ItTypeOK /\ AliveOK /\ FoundOK /\ ShownOK /\ ReachesGoal

-----------------------------------------------------------------------------
(* What a step of the log leaves a reader *)

\* Nothing is recorded behind the end of the log.
LEMMA RecordedBelow ==
  ASSUME TypeOK, NEW n, LogOK(n), NEW s \in Nat, Recorded(s)
  PROVE  s \in 0 .. (n - 1)
<1>1. n \in Nat /\ s < ilen /\ ilen \in Nat /\ idx[s].seq = s
  BY DEF LogOK, Recorded, TypeOK
<1>2. ASSUME s >= n PROVE FALSE
  <2>1. s \in n .. (ilen - 1)
    BY <1>1, <1>2
  <2> QED
    BY <1>1, <2>1 DEF LogOK, None
<1> QED
  BY <1>1, <1>2

\* A step of the log changes neither the index entry nor the record of a number
\* that is recorded: in particular not a write that goes on while a reader is
\* between the two.
LEMMA RecordStays ==
  ASSUME IInv, Next, NEW s \in Nat, Recorded(s), pc # "filling"
  PROVE  /\ pc' # "filling"
         /\ idx'[s] = idx[s] /\ dat'[idx[s].pos] = dat[idx[s].pos]
         /\ Recorded(s)'
<1>0. TypeOK /\ s < ilen /\ ilen \in Nat
  BY DEF IInv, Recorded, TypeOK
<1>1. /\ pc' # "filling" /\ s < ilen' /\ idx'[s] = idx[s]
      /\ dat'[idx[s].pos] = dat[idx[s].pos]
  <2>1. CASE OpenFiles \/ SeekIndexEnd \/ IndexWriteFails \/ Return \/ Halt \/ Abort
    BY <1>0, <2>1 DEF OpenFiles, SeekIndexEnd, IndexWriteFails, Return, Halt, Abort
  <2>2. CASE FillChunk
    BY <2>2 DEF FillChunk
  <2>3. ASSUME NEW k \in Keys,
               UpdateDocument(k) \/ DeleteDocument(k) \/ AddDatabase(k) \/ DeleteDatabase(k)
        PROVE  /\ pc' # "filling" /\ s < ilen' /\ idx'[s] = idx[s]
               /\ dat'[idx[s].pos] = dat[idx[s].pos]
    <3>1. PICK ev \in Event : WriteRecord(ev, Ahead(ev))
      BY <2>3, OperationIsWriteRecord DEF Ahead
    <3>2. LogOK(next)
      BY <3>1 DEF IInv, WriteRecord
    <3>3. s \in 0 .. (next - 1)
      BY <1>0, <3>2, RecordedBelow
    <3>4. dat'[idx[s].pos] = dat[idx[s].pos]
      BY <3>1, <3>3, WriteRecordSpares
    <3> QED
      BY <1>0, <3>1, <3>4 DEF WriteRecord
  <2>4. CASE DataWriteFails
    <3>1. LogOK(next) /\ Behind(next, dptr) /\ dptr \in Nat
      BY <1>0, <2>4 DEF IInv, DataWriteFails, TypeOK
    <3>2. PICK n \in 0 .. 1 : dat' = Overwritten(dptr, n)
      BY <2>4 DEF DataWriteFails
    <3>3. s \in 0 .. (next - 1)
      BY <1>0, <3>1, RecordedBelow
    <3>4. dat'[idx[s].pos] = dat[idx[s].pos]
      BY <1>0, <3>1, <3>2, <3>3, OverwrittenSpares
    <3> QED
      BY <1>0, <2>4, <3>4 DEF DataWriteFails
  <2>5. CASE WriteIndexEntry
    <3>1. LogOK(cur.seq) /\ cur.seq \in Nat
      BY <1>0, <2>5 DEF IInv, IndexOK, WriteIndexEntry, TypeOK
    <3>2. s \in 0 .. (cur.seq - 1)
      BY <1>0, <3>1, RecordedBelow
    <3>3. s # cur.seq /\ s < ilen'
      BY <1>0, <2>5, <3>1, <3>2 DEF WriteIndexEntry
    <3>4. idx'[s] = idx[s]
      BY <1>0, <2>5, <3>1, <3>3 DEF WriteIndexEntry, IndexWith
    <3> QED
      BY <2>5, <3>3, <3>4 DEF WriteIndexEntry
  <2> QED
    BY <2>1, <2>2, <2>3, <2>4, <2>5 DEF Next
<1> QED
  BY <1>1 DEF Recorded, Intact

\* While the process serves, the counter only grows.
LEMMA CounterGrows ==
  ASSUME IInv, Next, Serving, pc' # "down"
  PROVE  Serving' /\ next <= next' /\ next' \in Nat
<1>1. next \in Nat
  BY DEF IInv, TypeOK
<1>2. CASE OpenFiles \/ FillChunk \/ SeekIndexEnd \/ Halt \/ Abort
  BY <1>2 DEF Serving, OpenFiles, FillChunk, SeekIndexEnd, Halt, Abort
<1>3. CASE DataWriteFails \/ WriteIndexEntry \/ IndexWriteFails \/ Return
  BY <1>1, <1>3 DEF Serving, DataWriteFails, WriteIndexEntry, IndexWriteFails, Return
<1>4. ASSUME NEW k \in Keys,
             UpdateDocument(k) \/ DeleteDocument(k) \/ AddDatabase(k) \/ DeleteDatabase(k)
      PROVE  Serving' /\ next <= next' /\ next' \in Nat
  <2>1. PICK ev \in Event : WriteRecord(ev, Ahead(ev))
    BY <1>4, OperationIsWriteRecord DEF Ahead
  <2> QED
    BY <1>1, <2>1 DEF WriteRecord, Serving, Ahead
<1> QED
  BY <1>2, <1>3, <1>4 DEF Next

\* What the index leads to, it leads to after a step of the log.
LEMMA LeadsStays ==
  ASSUME IInv, Next, NEW s, NEW r, Leads(s, r), pc # "filling"
  PROVE  Leads(s, r)'
BY RecordStays DEF Leads

LEMMA LogStepKeepsReader ==
  ASSUME IInv, ReaderInv, LogStep
  PROVE  ReaderInv'
<1>0. Next /\ seen' = seen
  BY DEF LogStep
<1>1. ShownOK'
  <2>1. CASE pc = "filling"
    BY <1>0, <2>1 DEF ReaderInv, ShownOK
  <2>2. CASE pc # "filling"
    <3>1. \A e \in seen : Leads(e.seq, e) /\ Leads(e.seq, e)'
      BY <1>0, <2>2, LeadsStays DEF ReaderInv, ShownOK
    <3>2. \A e \in seen : pc' # "filling"
      BY <1>0, <2>2, <3>1, RecordStays DEF Leads
    <3> QED
      BY <1>0, <3>1, <3>2 DEF ShownOK
  <2> QED
    BY <2>1, <2>2
<1>2. CASE pc' = "down" \/ it.st = "none"
  <2>1. it'.st = "none" /\ ItTypeOK'
    BY <1>2 DEF LogStep, NoIterator, ReaderInv, ItTypeOK
  <2> QED
    BY <1>1, <2>1 DEF ReaderInv, AliveOK, FoundOK, ReachesGoal
<1>3. CASE pc' # "down" /\ it.st # "none"
  <2>1. /\ it' = it /\ goal' = goal /\ goal <= next
        /\ Serving /\ Serving' /\ next <= next' /\ pc # "filling"
    BY <1>0, <1>3, CounterGrows DEF LogStep, ReaderInv, AliveOK, Serving
  <2>2. next \in Nat /\ next' \in Nat /\ goal \in Nat /\ it.i \in Nat
    BY <1>0, <1>3, CounterGrows DEF ReaderInv, ItTypeOK, AliveOK, IInv, TypeOK
  <2>3. AliveOK' /\ (it.st = "index" => it.i < next')
    BY <2>1, <2>2 DEF AliveOK, ReaderInv, FoundOK
  <2>4. it.st = "data" => Recorded(it.i)' /\ it.pos = idx'[it.i].pos
    BY <1>0, <2>1, <2>2, RecordStays DEF ReaderInv, FoundOK
  <2>5. it.st = "ready" => Leads(it.i - 1, [seq |-> it.i - 1, ev |-> it.ev])'
    <3>1. it.st = "ready" => \E s, r : /\ s = it.i - 1 /\ r = [seq |-> it.i - 1, ev |-> it.ev]
                                       /\ Leads(s, r)
      BY DEF ReaderInv, FoundOK
    <3> QED
      BY <1>0, <2>1, <3>1, LeadsStays DEF Leads
  <2> QED
    BY <1>1, <2>1, <2>3, <2>4, <2>5 DEF ReaderInv, ItTypeOK, FoundOK, ReachesGoal
<1> QED
  BY <1>2, <1>3

-----------------------------------------------------------------------------
(* The steps of a reader *)

\* A reader leaves the log alone.
LEMMA ReaderLeavesLog ==
  ASSUME UNCHANGED vars
  PROVE  /\ \A s, r : Leads(s, r)' = Leads(s, r)
         /\ \A s : Recorded(s)' = Recorded(s)
         /\ Serving' = Serving
BY DEF vars, Leads, Recorded, Intact, Serving

\* A number that was counted leads to its event as soon as the monitor is free.
LEMMA CountedLeads ==
  ASSUME IInv, pc = "idle", NEW s \in Nat, s < next
  PROVE  Recorded(s) /\ s < ilen /\ idx[s].pos \in Positions
<1>1. TypeOK /\ LogOK(next) /\ s \in 0 .. (next - 1)
  BY DEF IInv, TypeOK
<1> QED
  BY <1>1, RecordedTypes DEF Recorded, TypeOK

\* The offset of a recorded number leads to a record that says its number.
LEMMA RecordedIsReadable ==
  ASSUME IInv, NEW s \in Nat, Recorded(s)
  PROVE  /\ Readable(s, idx[s].pos) /\ Intact(idx[s].pos)
         /\ dat[idx[s].pos].ev \in Event
         /\ Leads(s, [seq |-> s, ev |-> dat[idx[s].pos].ev])
<1>1. Intact(idx[s].pos) /\ dat[idx[s].pos].seq = s
  BY DEF Recorded
<1>2. dat[idx[s].pos] \in Record
  BY <1>1 DEF IInv, TypeOK, Intact
<1>3. dat[idx[s].pos] = [seq |-> s, ev |-> dat[idx[s].pos].ev] /\ dat[idx[s].pos].ev \in Event
  BY <1>1, <1>2 DEF Record
<1> QED
  BY <1>1, <1>3 DEF Readable, Leads

LEMMA ReaderStepKeepsReader ==
  ASSUME IInv, ReaderInv, IteratorStep
  PROVE  ReaderInv'
<1>0. /\ ItTypeOK /\ AliveOK /\ FoundOK /\ ShownOK /\ ReachesGoal /\ next \in Nat
      /\ UNCHANGED vars /\ next' = next /\ pc' = pc
  BY DEF ReaderInv, IInv, TypeOK, IteratorStep, Open, CheckBounds, ReadIndexEntry,
         ReadEventEntry, HandOut, Drop, vars
<1>1. /\ \A s, r : Leads(s, r)' = Leads(s, r)
      /\ \A s : Recorded(s)' = Recorded(s)
      /\ Serving' = Serving /\ idx' = idx
  BY <1>0, ReaderLeavesLog DEF vars
<1>2. ASSUME seen' = seen PROVE ShownOK'
  BY <1>0, <1>1, <1>2 DEF ShownOK
<1>3. ASSUME NEW seq \in -1 .. MaxSeq, NEW max \in Limits, Open(seq, max)
      PROVE  ReaderInv'
  <2>1. /\ seen' = seen /\ Serving /\ goal' = next
        /\ it' = [st |-> "check", i |-> IF seq < 0 THEN 0 ELSE seq, left |-> max,
                  pos |-> 0, ev |-> Blank]
    BY <1>3 DEF Open, NoIterator
  <2>2. (IF seq < 0 THEN 0 ELSE seq) \in Nat /\ max \in Int
    BY LimitsAssumption
  <2>3. ItTypeOK' /\ it'.st = "check"
    BY <1>0, <2>1, <2>2 DEF ItTypeOK
  <2> QED
    BY <1>0, <1>1, <1>2, <2>1, <2>3 DEF ReaderInv, AliveOK, FoundOK, ReachesGoal
<1>4. CASE CheckBounds
  <2>1. /\ it.st = "check" /\ UNCHANGED <<seen, goal>>
        /\ it' = [it EXCEPT !.st = IF it.i < next /\ it.left # 0 THEN "index" ELSE "end"]
    BY <1>4 DEF CheckBounds
  <2>2. ItTypeOK' /\ it'.i = it.i /\ it'.left = it.left
    BY <1>0, <2>1 DEF ItTypeOK
  <2>3. CASE it.i < next /\ it.left # 0
    <3>1. it'.st = "index"
      BY <1>0, <2>1, <2>3 DEF ItTypeOK
    <3> QED
      BY <1>0, <1>1, <1>2, <2>1, <2>2, <2>3, <3>1 DEF ReaderInv, AliveOK, FoundOK, ReachesGoal
  <2>4. CASE ~(it.i < next /\ it.left # 0)
    <3>1. it'.st = "end"
      BY <1>0, <2>1, <2>4 DEF ItTypeOK
    <3>2. it.left < 0 => it.i >= goal
      BY <1>0, <2>1, <2>4 DEF ItTypeOK, AliveOK
    <3> QED
      BY <1>0, <1>1, <1>2, <2>1, <2>2, <3>1, <3>2 DEF ReaderInv, AliveOK, FoundOK, ReachesGoal
  <2> QED
    BY <2>3, <2>4
<1>5. CASE ReadIndexEntry
  <2>1. it.st = "index" /\ pc = "idle" /\ UNCHANGED <<seen, goal>>
    BY <1>5 DEF ReadIndexEntry
  <2>2. Recorded(it.i) /\ it.i < ilen /\ idx[it.i].pos \in Positions
    BY <1>0, <2>1, CountedLeads DEF ItTypeOK, FoundOK
  <2>3. it' = [it EXCEPT !.st = "data", !.pos = idx[it.i].pos] /\ idx[it.i].pos \in Int
    BY <1>5, <2>2 DEF ReadIndexEntry, Positions
  <2>4. ItTypeOK' /\ it'.st = "data" /\ it'.i = it.i /\ it'.pos = idx[it.i].pos
    BY <1>0, <2>1, <2>3 DEF ItTypeOK
  <2> QED
    BY <1>0, <1>1, <1>2, <2>1, <2>2, <2>4 DEF ReaderInv, AliveOK, FoundOK, ReachesGoal
<1>6. CASE ReadEventEntry
  <2>0. PICK found, i : found = dat[it.pos].ev /\ i = it.i
    OBVIOUS
  <2>1. it.st = "data" /\ Recorded(it.i) /\ it.pos = idx[it.i].pos /\ it.i \in Nat
        /\ UNCHANGED <<seen, goal>>
    BY <1>0, <1>6 DEF ReadEventEntry, FoundOK, ItTypeOK
  <2>2. /\ Readable(it.i, it.pos) /\ Intact(it.pos) /\ found \in Event
        /\ Leads(i, [seq |-> i, ev |-> found])
    BY <2>0, <2>1, RecordedIsReadable
  <2>3. it' = [it EXCEPT !.st = "ready", !.i = it.i + 1, !.left = it.left - 1, !.ev = found]
    BY <1>6, <2>0, <2>2 DEF ReadEventEntry
  <2>4. ItTypeOK' /\ it'.st = "ready" /\ it'.i = i + 1 /\ it'.ev = found /\ i \in Nat
    <3>1. it.left - 1 \in Int /\ it.i + 1 \in Nat
      BY <1>0, <2>1 DEF ItTypeOK
    <3> QED
      BY <1>0, <2>0, <2>1, <2>2, <2>3, <3>1 DEF ItTypeOK
  <2>5. Leads(i, [seq |-> i, ev |-> found])'
    BY <1>1, <2>0, <2>2
  <2>6. it'.i - 1 = i
    BY <2>4
  <2>7. FoundOK'
    BY <2>4, <2>5, <2>6 DEF FoundOK
  <2> QED
    BY <1>0, <1>1, <1>2, <2>1, <2>4, <2>7 DEF ReaderInv, AliveOK, ReachesGoal
<1>7. CASE HandOut
  <2> DEFINE shown == [seq |-> it.i - 1, ev |-> it.ev]
  <2>1. /\ it.st = "ready" /\ seen' = seen \cup {shown} /\ goal' = goal
        /\ it' = [it EXCEPT !.st = "check", !.ev = Blank]
    BY <1>7 DEF HandOut
  <2>2. Leads(it.i - 1, shown) /\ shown.seq = it.i - 1 /\ Serving
    BY <1>0, <2>1 DEF FoundOK, AliveOK
  <2> HIDE DEF shown
  <2>3. ShownOK'
    BY <1>0, <1>1, <2>1, <2>2 DEF ShownOK, Serving
  <2>4. ItTypeOK' /\ it'.st = "check"
    BY <1>0, <2>1 DEF ItTypeOK
  <2> QED
    BY <1>0, <1>1, <2>1, <2>3, <2>4 DEF ReaderInv, AliveOK, FoundOK, ReachesGoal
<1>8. CASE Drop
  <2>1. it' = NoIterator /\ goal' = 0 /\ seen' = seen
    BY <1>8 DEF Drop
  <2>2. ItTypeOK' /\ it'.st = "none"
    BY <2>1 DEF ItTypeOK, NoIterator
  <2> QED
    BY <1>2, <2>1, <2>2 DEF ReaderInv, AliveOK, FoundOK, ReachesGoal
<1> QED
  BY <1>3, <1>4, <1>5, <1>6, <1>7, <1>8 DEF IteratorStep

-----------------------------------------------------------------------------
(* The results *)

\* A reader moves nothing of the log, so what holds of the log alone holds of
\* the log with a reader.
LEMMA LogIsUndisturbed == IteratorSpec => Spec
<1>1. IteratorInit => Init
  BY DEF IteratorInit
<1>2. [IteratorNext]_<<vars, itVars>> => [Next]_vars
  BY DEF IteratorNext, IteratorStep, LogStep, Open, CheckBounds, ReadIndexEntry,
         ReadEventEntry, HandOut, Drop
<1> QED
  BY <1>1, <1>2, PTL DEF IteratorSpec, Spec

\* What a reader knows without the monitor stays true under every step of the
\* writers, every failure and every restart.
THEOREM ReaderInvariant ==
  ASSUME Orderly
  PROVE  IteratorSpec => [](IInv /\ ReaderInv)
<1>1. IteratorInit => ReaderInv
  BY DEF IteratorInit, Init, NoIterator, ReaderInv, ItTypeOK, AliveOK, FoundOK, ShownOK,
         ReachesGoal
<1>2. IInv /\ ReaderInv /\ [IteratorNext]_<<vars, itVars>> => ReaderInv'
  <2> SUFFICES ASSUME IInv, ReaderInv, [IteratorNext]_<<vars, itVars>> PROVE ReaderInv'
    OBVIOUS
  <2>1. CASE IteratorStep
    BY <2>1, ReaderStepKeepsReader
  <2>2. CASE LogStep
    BY <2>2, LogStepKeepsReader
  <2>3. CASE UNCHANGED <<vars, itVars>>
    <3>1. UNCHANGED <<it, goal, seen, next, pc, idx>> /\ UNCHANGED vars
      BY <2>3 DEF itVars, vars
    <3> QED
      BY <3>1, ReaderLeavesLog
      DEF ReaderInv, ItTypeOK, AliveOK, FoundOK, ShownOK, ReachesGoal
  <2> QED
    BY <2>1, <2>2, <2>3 DEF IteratorNext
<1>3. IteratorSpec => []IInv
  BY LogIsUndisturbed, InductiveInvariant, PTL
<1> QED
  BY <1>1, <1>2, <1>3, PTL DEF IteratorSpec

\* Every event a reader was shown keeps its number and its record
\* (FileSystemState.eventIterator, which reads the data file without the monitor).
THEOREM SeenSurviveHolds ==
  ASSUME Orderly
  PROVE  IteratorSpec => []SeenSurvive
<1>1. ReaderInv => SeenSurvive
  BY DEF ReaderInv, ShownOK, Leads, SeenSurvive
<1> QED
  BY <1>1, ReaderInvariant, PTL

\* No entry makes a reader give up early: one without a limit ends behind every
\* event that was counted when it was opened.
THEOREM ReachesGoalHolds ==
  ASSUME Orderly
  PROVE  IteratorSpec => []ReachesGoal
<1>1. ReaderInv => ReachesGoal
  BY DEF ReaderInv
<1> QED
  BY <1>1, ReaderInvariant, PTL

=============================================================================
