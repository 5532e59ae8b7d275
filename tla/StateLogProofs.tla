--------------------------- MODULE StateLogProofs ---------------------------
(***************************************************************************)
(* Proofs about StateLog, for every set of keys, capacity, chunk size and  *)
(* bound.  Type correctness needs no further assumption; the other results *)
(* assume Orderly; the run StateLogHole shows that they fail without its   *)
(* first half, and a killed first start that they do without the second.   *)
(***************************************************************************)
EXTENDS StateLog, WellFoundedInduction, TLAPS

USE StateLogAssumption

-----------------------------------------------------------------------------
(* The scan of the index *)

\* seekIndexEnd always stops: at the first negative entry or at the end.
LEMMA IndexEndExists ==
  ASSUME TypeOK
  PROVE  /\ IndexEnd \in 0 .. ilen
         /\ IndexEnd < ilen => idx[IndexEnd].seq < 0
         /\ \A i \in 0 .. (IndexEnd - 1) : idx[i].seq >= 0
<1> DEFINE T == {n \in 0 .. ilen : n < ilen => idx[n].seq < 0}
           Less == OpToRel(<, Nat)
<1>1. ilen \in T /\ T \subseteq Nat
  BY DEF TypeOK
<1>2. IsWellFoundedOn(Less, Nat)
  BY NatLessThanWellFounded
<1>3. PICK n \in T : \A m \in T : ~(<<m, n>> \in Less)
  BY <1>1, <1>2, WFMin
<1>4. \A m \in T : ~(m < n)
  BY <1>1, <1>3 DEF OpToRel
<1>5. \A i \in 0 .. (n - 1) : idx[i].seq >= 0
  <2> SUFFICES ASSUME NEW i \in 0 .. (n - 1) PROVE idx[i].seq >= 0
    OBVIOUS
  <2>0. n \in 0 .. ilen /\ ilen \in Nat
    BY <1>3 DEF TypeOK
  <2>1. i < n /\ i \in 0 .. ilen /\ i < ilen
    BY <2>0
  <2>2. i \notin T
    BY <1>4, <2>1
  <2>3. idx[i].seq \in Int
    BY <2>1 DEF TypeOK, Entry
  <2> QED
    BY <2>1, <2>2, <2>3
<1> QED
  BY <1>3, <1>5 DEF IndexEnd

\* Where the recorded entries end, the scan ends.
LEMMA IndexEndIs ==
  ASSUME TypeOK, NEW n \in 0 .. ilen,
         n < ilen => idx[n].seq < 0,
         \A i \in 0 .. (n - 1) : idx[i].seq >= 0
  PROVE  IndexEnd = n
<1> DEFINE e == IndexEnd
<1>1. /\ e \in 0 .. ilen
      /\ e < ilen => idx[e].seq < 0
      /\ \A i \in 0 .. (e - 1) : idx[i].seq >= 0
  BY IndexEndExists
<1> HIDE DEF e
<1>2. \A i \in 0 .. (ilen - 1) : idx[i].seq \in Int
  BY DEF TypeOK, Entry
<1>3. ASSUME e < n PROVE FALSE
  <2>1. e \in 0 .. (n - 1) /\ e < ilen
    BY <1>1, <1>3 DEF TypeOK
  <2>2. idx[e].seq >= 0 /\ idx[e].seq < 0 /\ idx[e].seq \in Int
    BY <1>1, <1>2, <2>1 DEF TypeOK
  <2> QED BY <2>2
<1>4. ASSUME n < e PROVE FALSE
  <2>1. n \in 0 .. (e - 1) /\ n < ilen
    BY <1>1, <1>4 DEF TypeOK
  <2>2. idx[n].seq >= 0 /\ idx[n].seq < 0 /\ idx[n].seq \in Int
    BY <1>1, <1>2, <2>1 DEF TypeOK
  <2> QED BY <2>2
<1> QED
  BY <1>1, <1>3, <1>4 DEF TypeOK, e

-----------------------------------------------------------------------------
(* Type correctness *)

\* The sizes the file pointer moves by.
LEMMA SizeType ==
  ASSUME NEW ev \in Event
  PROVE  Size(ev) \in 1 .. 2
BY DEF Size

\* A write leaves at every offset the record that was there, or none.
LEMMA OverwrittenType ==
  ASSUME TypeOK, NEW p, NEW n
  PROVE  Overwritten(p, n) \in [Positions -> Record \cup {Blank}]
BY DEF TypeOK, Overwritten

\* Writing a record keeps the types.
LEMMA WriteRecordType ==
  ASSUME TypeOK, NEW ev \in Event, NEW bump \in 0 .. 1, WriteRecord(ev, bump)
  PROVE  TypeOK'
<1>1. dptr \in Positions /\ next \in Nat
  BY DEF TypeOK, WriteRecord, Positions
<1>2. dat' \in [Positions -> Record \cup {Blank}]
  BY <1>1, OverwrittenType DEF WriteRecord, Record
<1>3. dptr' \in Nat /\ next' \in Nat
  BY <1>1, SizeType DEF WriteRecord, Positions
<1>4. cur' \in [seq : Nat, ev : Event, pos : Nat] /\ cur' # Idle
  <2>1. cur' = [seq |-> next, ev |-> ev, pos |-> dptr]
    BY DEF WriteRecord
  <2>2. next \in Nat /\ dptr \in Nat
    BY DEF TypeOK
  <2>3. cur'.seq = next /\ Idle.seq = -1
    BY <2>1 DEF Idle
  <2> QED
    BY <2>1, <2>2, <2>3
<1> QED
  BY <1>2, <1>3, <1>4 DEF TypeOK, WriteRecord

\* The four operations differ in the kind of event and in when they count.
LEMMA OperationIsWriteRecord ==
  ASSUME NEW k \in Keys,
         UpdateDocument(k) \/ DeleteDocument(k) \/ AddDatabase(k) \/ DeleteDatabase(k)
  PROVE  \E ev \in Event :
           WriteRecord(ev, IF ev.kind = "delete" THEN 1 ELSE 0)
<1> DEFINE ev(kd) == [kind |-> kd, key |-> k]
<1>1. \A kd \in Kinds : ev(kd) \in Event /\ ev(kd).kind = kd
  BY DEF Event
<1> QED
  BY <1>1 DEF UpdateDocument, DeleteDocument, AddDatabase, DeleteDatabase, Kinds

\* seekIndexEnd sets the counter and the pointer to natural numbers.
LEMMA SeekIndexEndType ==
  ASSUME TypeOK, SeekIndexEnd
  PROVE  TypeOK'
<1>1. next' \in Nat /\ dptr' \in Nat /\ pc' \in {"idle", "failed"}
  <2>1. CASE IndexEnd = 0
    BY <2>1 DEF SeekIndexEnd
  <2>2. CASE IndexEnd # 0
    <3> DEFINE last == idx[IndexEnd - 1]
    <3>1. IndexEnd - 1 \in 0 .. (ilen - 1) /\ IndexEnd - 1 \in 0 .. (IndexEnd - 1)
      BY <2>2, IndexEndExists DEF TypeOK
    <3>2. last \in Entry /\ last.seq >= 0
      BY <3>1, IndexEndExists DEF TypeOK
    <3>3. last.seq \in Nat
      BY <3>2 DEF Entry
    <3>4. ASSUME Readable(last.seq, last.pos) PROVE After(last.pos) \in Nat
      <4>1. last.pos \in Nat
        BY <3>4 DEF Readable, Intact, Positions
      <4>2. Intact(last.pos) => dat[last.pos].ev \in Event
        BY DEF TypeOK, Intact, Record
      <4> QED
        BY <4>1, <4>2, SizeType DEF After
    <3> QED
      BY <2>2, <3>3, <3>4 DEF SeekIndexEnd, TypeOK
  <2> QED
    BY <2>1, <2>2
<1> QED
  BY <1>1 DEF TypeOK, SeekIndexEnd

\* The variables keep their types in every reachable state.
THEOREM TypeCorrect == Spec => []TypeOK
<1>1. Init => TypeOK
  BY DEF Init, TypeOK, Idle
<1>2. TypeOK /\ [Next]_vars => TypeOK'
  <2> SUFFICES ASSUME TypeOK, [Next]_vars PROVE TypeOK'
    OBVIOUS
  <2>1. CASE OpenFiles
    BY <2>1 DEF TypeOK, OpenFiles, Entry, Zero
  <2>2. CASE FillChunk
    BY <2>2 DEF TypeOK, FillChunk, Entry, None
  <2>3. CASE SeekIndexEnd
    BY <2>3, SeekIndexEndType
  <2>4. ASSUME NEW k \in Keys,
               UpdateDocument(k) \/ DeleteDocument(k) \/ AddDatabase(k) \/ DeleteDatabase(k)
        PROVE  TypeOK'
    BY <2>4, OperationIsWriteRecord, WriteRecordType
  <2>5. CASE DataWriteFails
    <3>1. PICK n \in 0 .. 1 : dat' = Overwritten(dptr, n) /\ dptr' = dptr + n
      BY <2>5 DEF DataWriteFails
    <3> QED
      BY <2>5, <3>1, OverwrittenType DEF TypeOK, DataWriteFails
  <2>6. CASE WriteIndexEntry
    <3>1. cur \in [seq : Nat, ev : Event, pos : Nat]
      BY <2>6 DEF TypeOK, WriteIndexEntry
    <3>2. ilen' \in Nat /\ idx' \in [0 .. (ilen' - 1) -> Entry]
      BY <2>6, <3>1 DEF TypeOK, WriteIndexEntry, IndexWith, Entry, Zero
    <3> QED
      BY <2>6, <3>2 DEF TypeOK, WriteIndexEntry
  <2>7. CASE IndexWriteFails
    BY <2>7 DEF TypeOK, IndexWriteFails
  <2>8. CASE Return
    <3>1. cur \in [seq : Nat, ev : Event, pos : Nat]
      BY <2>8 DEF TypeOK, Return
    <3>2. [seq |-> cur.seq, ev |-> cur.ev] \in Record
      BY <3>1 DEF Record
    <3> QED
      BY <2>8, <3>2 DEF TypeOK, Return
  <2>9. CASE Halt
    BY <2>9 DEF TypeOK, Halt
  <2>10. CASE Abort
    BY <2>10 DEF TypeOK, Abort
  <2>11. CASE UNCHANGED vars
    BY <2>11 DEF TypeOK, vars
  <2> QED
    BY <2>1, <2>2, <2>3, <2>4, <2>5, <2>6, <2>7, <2>8, <2>9, <2>10, <2>11 DEF Next
<1> QED
  BY <1>1, <1>2, PTL DEF Spec

-----------------------------------------------------------------------------
(* The inductive invariant *)

Ahead(ev) == IF ev.kind = "delete" THEN 1 ELSE 0

\* The files hold exactly the sequence numbers below n: their records are
\* intact and lie in the order of their numbers, the rest of the index is
\* empty, and every returned event is among them.
LogOK(n) ==
  /\ n \in Nat /\ n <= ilen
  /\ \A s \in 0 .. (n - 1) : Recorded(s)
  /\ \A s, t \in 0 .. (n - 1) : s < t => After(idx[s].pos) <= idx[t].pos
  /\ \A i \in n .. (ilen - 1) : idx[i] = None
  /\ \A a \in acked : a.seq < n /\ dat[idx[a.seq].pos] = a

\* Offset p is behind the records of the numbers below n.
Behind(n, p) == \A s \in 0 .. (n - 1) : After(idx[s].pos) <= p

FillingOK ==
  /\ ilen = Capacity /\ acked = {}
  /\ \A i \in 0 .. (ilen - 1) : i < fill => idx[i] = None

IndexOK ==
  /\ LogOK(cur.seq) /\ Behind(cur.seq, cur.pos)
  /\ Intact(cur.pos) /\ dat[cur.pos] = [seq |-> cur.seq, ev |-> cur.ev]
  /\ dptr = cur.pos + Size(cur.ev)
  /\ next = cur.seq + Ahead(cur.ev)

WrittenOK ==
  /\ LogOK(cur.seq + 1) /\ Behind(cur.seq + 1, dptr)
  /\ dat[idx[cur.seq].pos] = [seq |-> cur.seq, ev |-> cur.ev]
  /\ \A a \in acked : a.seq < cur.seq
  /\ next = cur.seq + Ahead(cur.ev)

IInv ==
  /\ TypeOK
  /\ pc # "failed"
  /\ pc \in {"down", "scanning"} => \E n \in 0 .. ilen : LogOK(n)
  /\ pc = "filling" => FillingOK
  /\ pc = "idle" => LogOK(next) /\ Behind(next, dptr)
  /\ pc = "index" => IndexOK
  /\ pc = "written" => WrittenOK

-----------------------------------------------------------------------------
(* What leaves the recorded events alone *)

\* Every recorded record starts before the end of the ones behind it.
LEMMA RecordedTypes ==
  ASSUME TypeOK, NEW n, LogOK(n), NEW s \in 0 .. (n - 1)
  PROVE  /\ s \in 0 .. (ilen - 1) /\ Recorded(s)
         /\ idx[s].pos \in Positions
         /\ dat[idx[s].pos] \in Record
         /\ After(idx[s].pos) = idx[s].pos + Size(dat[idx[s].pos].ev)
         /\ Size(dat[idx[s].pos].ev) \in 1 .. 2
<1>1. s \in 0 .. (ilen - 1) /\ Recorded(s)
  BY DEF LogOK, TypeOK
<1>2. idx[s].pos \in Positions /\ dat[idx[s].pos] # Blank
  BY <1>1 DEF Recorded, Intact
<1>3. dat[idx[s].pos] \in Record
  BY <1>2 DEF TypeOK
<1>4. dat[idx[s].pos].ev \in Event
  BY <1>3 DEF Record
<1> QED
  BY <1>1, <1>2, <1>3, <1>4, SizeType DEF After, Intact

\* A step that keeps the index, the returned events and the recorded records
\* keeps the log.
LEMMA LogKept ==
  ASSUME TypeOK, NEW n, LogOK(n),
         idx' = idx, ilen' = ilen, acked' = acked,
         \A s \in 0 .. (n - 1) : dat'[idx[s].pos] = dat[idx[s].pos]
  PROVE  /\ LogOK(n)'
         /\ \A s \in 0 .. (n - 1) : After(idx[s].pos)' = After(idx[s].pos)
<1>1. \A s \in 0 .. (n - 1) : Recorded(s) => Recorded(s)'
  BY DEF Recorded, Intact
<1>2. \A s \in 0 .. (n - 1) : After(idx[s].pos)' = After(idx[s].pos)
  BY DEF After, Intact
<1>3. \A a \in acked : a.seq < n /\ dat'[idx[a.seq].pos] = a
  <2> SUFFICES ASSUME NEW a \in acked PROVE a.seq < n /\ dat'[idx[a.seq].pos] = a
    OBVIOUS
  <2>1. a.seq \in Nat /\ n \in Nat /\ a.seq < n /\ dat[idx[a.seq].pos] = a
    BY DEF TypeOK, Record, LogOK
  <2>2. a.seq \in 0 .. (n - 1)
    BY <2>1
  <2> QED
    BY <2>1, <2>2
<1> QED
  BY <1>1, <1>2, <1>3 DEF LogOK

\* A write at or behind p spares the records that end before p.
LEMMA OverwrittenSpares ==
  ASSUME TypeOK, NEW n, LogOK(n), NEW p \in Nat, Behind(n, p), NEW m \in Nat
  PROVE  \A s \in 0 .. (n - 1) :
           /\ Overwritten(p, m)[idx[s].pos] = dat[idx[s].pos]
           /\ idx[s].pos < p
<1> SUFFICES ASSUME NEW s \in 0 .. (n - 1)
             PROVE  /\ Overwritten(p, m)[idx[s].pos] = dat[idx[s].pos]
                    /\ idx[s].pos < p
  OBVIOUS
<1> DEFINE q == idx[s].pos
           sz == Size(dat[q].ev)
<1>1. q \in Positions /\ After(q) = q + sz /\ sz \in 1 .. 2
  BY RecordedTypes
<1>2. After(q) <= p
  BY DEF Behind
<1> HIDE DEF sz
<1>3. ~(p < q + sz) /\ q < p
  BY <1>1, <1>2 DEF Positions
<1> QED
  BY <1>1, <1>3 DEF Overwritten, sz

\* Two states with the same log and the same files.
LEMMA LogSame ==
  ASSUME TypeOK, NEW n, LogOK(n), UNCHANGED <<idx, ilen, dat, acked>>
  PROVE  LogOK(n)' /\ \A p : Behind(n, p) => Behind(n, p)'
BY DEF LogOK, Behind, Recorded, After, Intact

-----------------------------------------------------------------------------
(* Each action preserves the invariant *)

\* The scan finds the end of the log, and the pointer behind its last record.
LEMMA SeekFindsEnd ==
  ASSUME TypeOK, NEW n, LogOK(n), SeekIndexEnd
  PROVE  /\ pc' = "idle" /\ next' = n
         /\ Behind(n, dptr')
<1>1. n \in 0 .. ilen /\ ilen \in Nat
  BY DEF LogOK, TypeOK
<1>2. n < ilen => idx[n].seq < 0
  BY <1>1 DEF LogOK, None
<1>3. \A i \in 0 .. (n - 1) : idx[i].seq >= 0
  BY DEF LogOK, Recorded
<1>4. IndexEnd = n
  BY <1>1, <1>2, <1>3, IndexEndIs
<1>5. CASE n = 0
  BY <1>4, <1>5 DEF SeekIndexEnd, Behind
<1>6. CASE n # 0
  <2> DEFINE last == idx[n - 1]
  <2>1. n - 1 \in 0 .. (n - 1) /\ Recorded(n - 1)
    BY <1>1, <1>6 DEF LogOK
  <2>2. last.seq = n - 1 /\ Readable(last.seq, last.pos)
    BY <2>1 DEF Recorded, Readable
  <2>3. pc' = "idle" /\ next' = (n - 1) + 1 /\ dptr' = After(last.pos)
    BY <1>4, <1>6, <2>2 DEF SeekIndexEnd
  <2>4. ASSUME NEW s \in 0 .. (n - 1) PROVE After(idx[s].pos) <= After(last.pos)
    <3>1. CASE s = n - 1
      BY <2>1, <3>1, RecordedTypes DEF Positions
    <3>2. CASE s # n - 1
      <4>1. After(idx[s].pos) <= last.pos
        BY <1>1, <2>1, <3>2 DEF LogOK
      <4>2. After(last.pos) = last.pos + Size(dat[last.pos].ev)
            /\ Size(dat[last.pos].ev) \in 1 .. 2 /\ last.pos \in Positions
        BY <2>1, RecordedTypes
      <4>3. After(idx[s].pos) \in Nat
        BY RecordedTypes DEF Positions
      <4> QED
        BY <4>1, <4>2, <4>3 DEF Positions
    <3> QED
      BY <3>1, <3>2
  <2> QED
    BY <1>1, <2>3, <2>4 DEF Behind
<1> QED
  BY <1>5, <1>6

\* Opening, filling and scanning keep the log and end with the counter at its end.
LEMMA StartKeepsInv ==
  ASSUME IInv, OpenFiles \/ FillChunk \/ SeekIndexEnd, TypeOK'
  PROVE  IInv'
<1>1. CASE OpenFiles
  <2>1. PICK n \in 0 .. ilen : LogOK(n)
    BY <1>1 DEF IInv, OpenFiles
  <2>2. CASE ilen = 0
    <3>1. n = 0
      BY <2>1, <2>2
    <3>2. acked = {}
      BY <2>1, <3>1 DEF LogOK, IInv, TypeOK, Record
    <3> QED
      BY <1>1, <2>2, <3>2 DEF IInv, OpenFiles, FillingOK
  <2>3. CASE ilen # 0
    <3>1. pc' = "scanning" /\ UNCHANGED <<idx, ilen, dat, acked>>
      BY <1>1, <2>3 DEF OpenFiles
    <3>2. LogOK(n)'
      BY <2>1, <3>1, LogSame DEF IInv
    <3> QED
      BY <3>1, <3>2 DEF IInv
  <2> QED
    BY <2>2, <2>3
<1>2. CASE FillChunk
  <2>1. FillingOK /\ fill \in Nat
    BY <1>2 DEF IInv, FillChunk, TypeOK
  <2>2. \A i \in 0 .. (ilen' - 1) : i < fill' => idx'[i] = None
    BY <1>2, <2>1 DEF FillChunk, FillingOK
  <2>3. CASE pc' = "filling"
    BY <1>2, <2>1, <2>2, <2>3 DEF IInv, FillChunk, FillingOK
  <2>4. CASE pc' = "scanning"
    <3>1. fill' >= Capacity /\ ilen' = Capacity
      BY <1>2, <2>1, <2>4 DEF FillChunk, FillingOK
    <3>2. \A i \in 0 .. (ilen' - 1) : idx'[i] = None
      <4>1. \A i \in 0 .. (Capacity - 1) : i < fill'
        BY <3>1 DEF TypeOK
      <4> QED
        BY <2>2, <3>1, <4>1
    <3>3. LogOK(0)'
      BY <1>2, <2>1, <3>1, <3>2 DEF LogOK, FillChunk, FillingOK
    <3> QED
      BY <2>4, <3>1, <3>3 DEF IInv
  <2> QED
    BY <1>2, <2>3, <2>4 DEF FillChunk
<1>3. CASE SeekIndexEnd
  <2>1. PICK n \in 0 .. ilen : LogOK(n)
    BY <1>3 DEF IInv, SeekIndexEnd
  <2>2. pc' = "idle" /\ next' = n /\ Behind(n, dptr')
    BY <1>3, <2>1, SeekFindsEnd DEF IInv
  <2>3. UNCHANGED <<idx, ilen, dat, acked>>
    BY <1>3 DEF SeekIndexEnd
  <2>4. LogOK(n)' /\ \A s \in 0 .. (n - 1) : After(idx[s].pos)' = After(idx[s].pos)
    BY <2>1, <2>3, LogKept DEF IInv
  <2>5. LogOK(next)' /\ Behind(next, dptr)'
    BY <2>2, <2>4 DEF LogOK, Behind
  <2> QED
    BY <2>2, <2>5 DEF IInv
<1> QED
  BY <1>1, <1>2, <1>3

\* The record that is written spares every recorded one.
LEMMA WriteRecordSpares ==
  ASSUME IInv, NEW ev \in Event, WriteRecord(ev, Ahead(ev))
  PROVE  \A s \in 0 .. (next - 1) : dat'[idx[s].pos] = dat[idx[s].pos]
<1> DEFINE r == [seq |-> next, ev |-> ev]
           o == Overwritten(dptr, Size(ev))
<1>1. TypeOK /\ LogOK(next) /\ Behind(next, dptr) /\ dptr \in Positions
  BY DEF IInv, WriteRecord, TypeOK, Positions
<1>2. Size(ev) \in Nat /\ dptr \in Nat
  BY <1>1, SizeType DEF Positions
<1>3. o \in [Positions -> Record \cup {Blank}]
  BY <1>1, OverwrittenType
<1>4. /\ dat' = [o EXCEPT ![dptr] = r]
      /\ \A s \in 0 .. (next - 1) :
           o[idx[s].pos] = dat[idx[s].pos] /\ idx[s].pos < dptr /\ idx[s].pos \in Positions
  BY <1>1, <1>2, OverwrittenSpares, RecordedTypes DEF WriteRecord
<1> HIDE DEF o
<1> QED
  BY <1>2, <1>3, <1>4 DEF Positions

\* A record written behind the log is not part of it yet.
LEMMA WriteRecordKeepsInv ==
  ASSUME IInv, NEW ev \in Event, WriteRecord(ev, Ahead(ev)), TypeOK'
  PROVE  IInv'
<1> DEFINE r == [seq |-> next, ev |-> ev]
<1>1. TypeOK /\ LogOK(next) /\ Behind(next, dptr) /\ next \in Nat /\ dptr \in Positions
  BY DEF IInv, WriteRecord, TypeOK, Positions
<1>2. /\ dat' = [Overwritten(dptr, Size(ev)) EXCEPT ![dptr] = r]
      /\ dptr' = dptr + Size(ev)
      /\ cur'.seq = next /\ cur'.ev = ev /\ cur'.pos = dptr
      /\ next' = next + Ahead(ev) /\ pc' = "index"
      /\ UNCHANGED <<idx, ilen, acked>>
  BY DEF WriteRecord
<1>5. \A s \in 0 .. (next - 1) : dat'[idx[s].pos] = dat[idx[s].pos]
  BY WriteRecordSpares
<1>6. \A n : n = next =>
        LogOK(n)' /\ \A s \in 0 .. (n - 1) : After(idx[s].pos)' = After(idx[s].pos)
  BY <1>1, <1>2, <1>5, LogKept
<1>7. LogOK(cur.seq)' /\ Behind(cur.seq, cur.pos)'
  BY <1>1, <1>2, <1>6 DEF LogOK, Behind
<1>8. Intact(cur.pos)' /\ dat'[cur'.pos] = r
  <2>1. dat'[dptr] = r
    BY <1>1, <1>2 DEF Overwritten
  <2>2. r # Blank
    BY <1>1 DEF Blank
  <2> QED
    BY <1>1, <1>2, <2>1, <2>2 DEF Intact
<1> QED
  BY <1>2, <1>7, <1>8 DEF IInv, IndexOK, Ahead

\* A data write that fails part way damages nothing recorded.
LEMMA DataWriteFailsKeepsInv ==
  ASSUME IInv, DataWriteFails, TypeOK'
  PROVE  IInv'
<1>1. TypeOK /\ LogOK(next) /\ Behind(next, dptr) /\ dptr \in Nat
  BY DEF IInv, DataWriteFails, TypeOK
<1>2. PICK n \in 0 .. 1 : dat' = Overwritten(dptr, n) /\ dptr' = dptr + n
  BY DEF DataWriteFails
<1>3. \A s \in 0 .. (next - 1) : dat'[idx[s].pos] = dat[idx[s].pos]
  BY <1>1, <1>2, OverwrittenSpares
<1>4. pc' = "idle" /\ next' = next /\ UNCHANGED <<idx, ilen, acked>>
  BY DEF DataWriteFails
<1>5. \A m : m = next =>
        LogOK(m)' /\ \A s \in 0 .. (m - 1) : After(idx[s].pos)' = After(idx[s].pos)
  BY <1>1, <1>3, <1>4, LogKept
<1>6. \A s \in 0 .. (next - 1) : After(idx[s].pos) \in Nat
  BY <1>1, RecordedTypes DEF Positions
<1>7. LogOK(next)' /\ Behind(next, dptr)'
  <2>1. \A s \in 0 .. (next - 1) : After(idx[s].pos) <= dptr'
    BY <1>1, <1>2, <1>6 DEF Behind
  <2> QED
    BY <1>4, <1>5, <2>1 DEF LogOK, Behind
<1> QED
  BY <1>4, <1>7 DEF IInv

\* The index write makes the record the last one of the log, and leaves no gap.
LEMMA WriteIndexEntryKeepsInv ==
  ASSUME IInv, WriteIndexEntry, TypeOK'
  PROVE  IInv'
<1>0. PICK c : c = cur.seq
  OBVIOUS
<1>1. TypeOK /\ IndexOK /\ cur \in [seq : Nat, ev : Event, pos : Nat]
  BY DEF IInv, WriteIndexEntry, TypeOK
<1>2. /\ c \in Nat /\ ilen \in Nat /\ c <= ilen
      /\ LogOK(c) /\ Behind(c, cur.pos)
      /\ cur.pos \in Positions
      /\ dat[cur.pos] = [seq |-> c, ev |-> cur.ev] /\ dat[cur.pos] # Blank
      /\ dptr = cur.pos + Size(cur.ev)
  BY <1>0, <1>1 DEF IndexOK, LogOK, TypeOK, Intact
<1>3. /\ ilen' \in Nat /\ c < ilen' /\ ilen <= ilen'
      /\ \A i \in 0 .. (ilen' - 1) : i >= ilen => i = c
  BY <1>0, <1>2 DEF WriteIndexEntry
<1>4. /\ idx'[c] = [seq |-> c, pos |-> cur.pos]
      /\ \A i \in 0 .. (ilen' - 1) : i # c => idx'[i] = idx[i] /\ i < ilen
  BY <1>0, <1>2, <1>3 DEF WriteIndexEntry, IndexWith
<1>5. UNCHANGED <<dat, dptr, next, cur, acked>> /\ pc' = "written"
  BY DEF WriteIndexEntry
<1>6. \A s \in 0 .. (c - 1) : idx'[s] = idx[s] /\ s < ilen'
  <2> SUFFICES ASSUME NEW s \in 0 .. (c - 1) PROVE idx'[s] = idx[s] /\ s < ilen'
    OBVIOUS
  <2>1. PICK l : l = ilen'
    OBVIOUS
  <2>2. c \in Nat /\ l \in Nat /\ c < l
    BY <1>2, <1>3, <2>1
  <2>3. s \in 0 .. (l - 1) /\ s # c /\ s < l
    BY <2>2
  <2> QED
    BY <1>4, <2>1, <2>3
<1>7. \A s \in 0 .. c : Recorded(s)'
  <2>1. ASSUME NEW s \in 0 .. (c - 1) PROVE Recorded(s)'
    BY <1>2, <1>5, <1>6 DEF LogOK, Recorded, Intact
  <2>2. Recorded(c)'
    BY <1>2, <1>3, <1>4, <1>5 DEF Recorded, Intact
  <2> QED
    BY <1>2, <2>1, <2>2
<1>8. \A s \in 0 .. (c - 1) : After(idx[s].pos)' = After(idx[s].pos) /\ After(idx[s].pos) \in Nat
  BY <1>1, <1>2, <1>5, <1>6, RecordedTypes DEF After, Intact, Positions
<1>9. After(idx[c].pos)' = dptr
  BY <1>2, <1>4, <1>5 DEF After, Intact
<1>10. \A s, t \in 0 .. c : s < t => After(idx[s].pos)' <= idx'[t].pos
  <2> SUFFICES ASSUME NEW s \in 0 .. c, NEW t \in 0 .. c, s < t
               PROVE  After(idx[s].pos)' <= idx'[t].pos
    OBVIOUS
  <2>1. s \in 0 .. (c - 1) /\ After(idx[s].pos)' = After(idx[s].pos)
    BY <1>2, <1>8
  <2>2. CASE t = c
    BY <1>2, <1>4, <2>1, <2>2 DEF Behind
  <2>3. CASE t # c
    <3>1. t \in 0 .. (c - 1)
      BY <1>2, <2>3
    <3> QED
      BY <1>2, <1>6, <2>1, <3>1 DEF LogOK
  <2> QED
    BY <2>2, <2>3
<1>11. \A i \in (c + 1) .. (ilen' - 1) : idx'[i] = None
  <2> SUFFICES ASSUME NEW i \in (c + 1) .. (ilen' - 1) PROVE idx'[i] = None
    OBVIOUS
  <2>1. i \in 0 .. (ilen' - 1) /\ i # c /\ i >= c
    BY <1>2, <1>3
  <2>2. i \in c .. (ilen - 1) /\ idx'[i] = idx[i]
    BY <1>2, <1>4, <2>1
  <2> QED
    BY <1>2, <2>2 DEF LogOK
<1>12. \A a \in acked' : a.seq < c + 1 /\ dat'[idx'[a.seq].pos] = a
  <2> SUFFICES ASSUME NEW a \in acked PROVE a.seq < c + 1 /\ dat'[idx'[a.seq].pos] = a
    BY <1>5
  <2>1. a.seq \in Nat /\ a.seq < c /\ dat[idx[a.seq].pos] = a
    BY <1>1, <1>2 DEF LogOK, TypeOK, Record
  <2>2. a.seq \in 0 .. (c - 1)
    BY <1>2, <2>1
  <2> QED
    BY <1>2, <1>5, <1>6, <2>1, <2>2
<1>13. LogOK(c + 1)'
  <2>1. c + 1 \in Nat /\ c + 1 <= ilen' /\ (c + 1) - 1 = c
    BY <1>2, <1>3
  <2> QED
    BY <1>5, <1>7, <1>10, <1>11, <1>12, <2>1 DEF LogOK
<1>14. Behind(c + 1, dptr)'
  <2>1. \A s \in 0 .. (c - 1) : After(idx[s].pos) <= dptr
    <3>1. Size(cur.ev) \in 1 .. 2
      BY <1>1, SizeType
    <3> QED
      BY <1>2, <1>8, <3>1 DEF Behind, Positions
  <2>2. \A s \in 0 .. c : After(idx[s].pos)' <= dptr'
    <3>1. \A s \in 0 .. c : s \in 0 .. (c - 1) \/ s = c
      BY <1>2
    <3>2. dptr' = dptr /\ dptr \in Nat
      BY <1>1, <1>5 DEF TypeOK
    <3> QED
      BY <1>8, <1>9, <2>1, <3>1, <3>2
  <2> QED
    BY <1>2, <1>5, <2>2 DEF Behind
<1> QED
  <2>1. dat'[idx'[c].pos] = [seq |-> c, ev |-> cur.ev]
    BY <1>2, <1>4, <1>5
  <2>2. cur'.seq = c /\ next' = c + Ahead(cur.ev)
    BY <1>0, <1>1, <1>5 DEF IndexOK
  <2>3. \A a \in acked' : a.seq < cur'.seq
    BY <1>2, <1>5, <2>2 DEF LogOK
  <2>4. WrittenOK'
    BY <1>5, <1>13, <1>14, <2>1, <2>2, <2>3 DEF WrittenOK, Ahead
  <2> QED
    BY <1>5, <2>4 DEF IInv

\* The operation returns when its event is in the log and counted.
LEMMA ReturnKeepsInv ==
  ASSUME IInv, Return, TypeOK'
  PROVE  IInv'
<1>0. PICK c : c = cur.seq
  OBVIOUS
<1>1. /\ TypeOK /\ LogOK(c + 1) /\ Behind(c + 1, dptr) /\ c \in Nat
      /\ dat[idx[c].pos] = [seq |-> c, ev |-> cur.ev]
      /\ next = c + Ahead(cur.ev)
  BY <1>0 DEF IInv, Return, WrittenOK, TypeOK
<1>2. /\ pc' = "idle" /\ UNCHANGED <<idx, ilen, dat, dptr>>
      /\ next' = c + 1
      /\ acked' = acked \cup {[seq |-> c, ev |-> cur.ev]}
  BY <1>0, <1>1 DEF Return, Ahead
<1>3. \A a \in acked' : a.seq < c + 1 /\ dat'[idx'[a.seq].pos] = a
  BY <1>1, <1>2 DEF LogOK
<1>4. LogOK(next)' /\ Behind(next, dptr)'
  BY <1>1, <1>2, <1>3 DEF LogOK, Behind, Recorded, After, Intact
<1> QED
  BY <1>2, <1>4 DEF IInv

\* An index write that fails after the counting takes nothing back: only the
\* operations that count last are allowed to.
LEMMA IndexWriteFailsKeepsInv ==
  ASSUME Orderly, IInv, IndexWriteFails, TypeOK'
  PROVE  IInv'
<1>0. PICK c : c = cur.seq
  OBVIOUS
<1>1. /\ cur.ev.kind # "delete" /\ pc' = "idle"
      /\ UNCHANGED <<idx, ilen, dat, dptr, next, acked>>
  BY DEF Orderly, IndexWriteFails
<1>2. /\ TypeOK /\ LogOK(c) /\ Behind(c, cur.pos) /\ next = c + 0
      /\ dptr = cur.pos + Size(cur.ev) /\ cur.pos \in Nat /\ Size(cur.ev) \in 1 .. 2
      /\ c \in Nat
  BY <1>0, <1>1, SizeType DEF IInv, IndexWriteFails, IndexOK, Ahead, TypeOK
<1>3. \A s \in 0 .. (c - 1) : After(idx[s].pos) <= dptr
  <2> SUFFICES ASSUME NEW s \in 0 .. (c - 1) PROVE After(idx[s].pos) <= dptr
    OBVIOUS
  <2>1. After(idx[s].pos) \in Nat
    BY <1>2, RecordedTypes DEF Positions
  <2>2. After(idx[s].pos) <= cur.pos
    BY <1>2 DEF Behind
  <2> QED
    BY <1>2, <2>1, <2>2
<1>4. LogOK(c)' /\ Behind(c, dptr)'
  BY <1>1, <1>2, <1>3 DEF LogOK, Behind, Recorded, After, Intact
<1>5. next' = c
  BY <1>1, <1>2
<1> QED
  BY <1>1, <1>4, <1>5 DEF IInv, LogOK, Behind

\* Whenever the process stops, the files hold a log.
LEMMA HaltKeepsInv ==
  ASSUME Orderly, IInv, Halt, TypeOK'
  PROVE  IInv'
<1>1. pc # "filling" /\ pc' = "down" /\ UNCHANGED <<idx, ilen, dat, acked>>
  BY DEF Orderly, Halt
<1>2. \E n \in 0 .. ilen : LogOK(n)
  <2>1. pc \in {"scanning", "idle", "index", "written"}
    BY <1>1 DEF IInv, TypeOK, Halt
  <2>2. CASE pc = "scanning"
    BY <2>2 DEF IInv
  <2>3. CASE pc = "idle"
    BY <2>3, SMTT(30) DEF IInv, LogOK, TypeOK
  <2>4. CASE pc = "index"
    <3>1. LogOK(cur.seq)
      BY <2>4 DEF IInv, IndexOK
    <3> QED
      BY <3>1 DEF LogOK
  <2>5. CASE pc = "written"
    <3>1. LogOK(cur.seq + 1)
      BY <2>5 DEF IInv, WrittenOK
    <3> QED
      BY <3>1 DEF LogOK
  <2> QED
    BY <2>1, <2>2, <2>3, <2>4, <2>5
<1>3. PICK n \in 0 .. ilen : LogOK(n)
  BY <1>2
<1>4. LogOK(n)'
  BY <1>1, <1>3, LogSame DEF IInv
<1> QED
  BY <1>1, <1>4 DEF IInv

\* The files lead to every recorded event in every reachable state.
THEOREM InductiveInvariant ==
  ASSUME Orderly
  PROVE  Spec => []IInv
<1>1. Init => IInv
  <2> SUFFICES ASSUME Init PROVE IInv
    OBVIOUS
  <2>1. TypeOK
    BY DEF Init, TypeOK, Idle
  <2>2. LogOK(0)
    BY DEF Init, LogOK
  <2> QED
    BY <2>1, <2>2 DEF Init, IInv
<1>2. TypeOK' /\ IInv /\ [Next]_vars => IInv'
  <2> SUFFICES ASSUME TypeOK', IInv, [Next]_vars PROVE IInv'
    OBVIOUS
  <2>1. CASE OpenFiles \/ FillChunk \/ SeekIndexEnd
    BY <2>1, StartKeepsInv
  <2>2. ASSUME NEW k \in Keys,
               UpdateDocument(k) \/ DeleteDocument(k) \/ AddDatabase(k) \/ DeleteDatabase(k)
        PROVE  IInv'
    <3>1. PICK ev \in Event : WriteRecord(ev, Ahead(ev))
      BY <2>2, OperationIsWriteRecord DEF Ahead
    <3> QED
      BY <3>1, WriteRecordKeepsInv
  <2>3. CASE DataWriteFails
    BY <2>3, DataWriteFailsKeepsInv
  <2>4. CASE WriteIndexEntry
    BY <2>4, WriteIndexEntryKeepsInv
  <2>5. CASE IndexWriteFails
    BY <2>5, IndexWriteFailsKeepsInv
  <2>6. CASE Return
    BY <2>6, ReturnKeepsInv
  <2>7. CASE Halt
    BY <2>7, HaltKeepsInv
  <2>8. CASE Abort
    BY <2>8 DEF Abort, IInv
  <2>9. CASE UNCHANGED vars
    <3>1. UNCHANGED <<idx, ilen, dat, dptr, next, pc, fill, cur, acked>>
      BY <2>9 DEF vars
    <3>2. \A n : LogOK(n)' = LogOK(n)
      BY <3>1 DEF LogOK, Recorded, After, Intact
    <3>3. \A n, p : Behind(n, p)' = Behind(n, p)
      BY <3>1 DEF Behind, After, Intact
    <3>4. CASE pc \in {"down", "scanning"}
      BY <3>1, <3>2, <3>4 DEF IInv
    <3>5. CASE pc = "filling"
      BY <3>1, <3>5 DEF IInv, FillingOK
    <3>6. CASE pc = "idle"
      <4>1. LogOK(next)' /\ Behind(next, dptr)'
        BY <3>1, <3>6 DEF IInv, LogOK, Behind, Recorded, After, Intact
      <4> QED
        BY <3>1, <3>6, <4>1 DEF IInv
    <3>7. CASE pc = "index"
      BY <3>1, <3>7 DEF IInv, IndexOK, LogOK, Behind, Recorded, After, Intact
    <3>8. CASE pc = "written"
      BY <3>1, <3>8 DEF IInv, WrittenOK, LogOK, Behind, Recorded, After, Intact
    <3> QED
      BY <3>4, <3>5, <3>6, <3>7, <3>8 DEF IInv, TypeOK
  <2> QED
    BY <2>1, <2>2, <2>3, <2>4, <2>5, <2>6, <2>7, <2>8, <2>9 DEF Next
<1> QED
  BY <1>1, <1>2, TypeCorrect, PTL DEF Spec

-----------------------------------------------------------------------------
(* The safety properties *)

\* No sequence number below the next one is a hole, so neither the iterator nor
\* the start ever meets a missing or foreign record.
THEOREM NoHolesHolds ==
  ASSUME Orderly
  PROVE  Spec => []NoHoles
<1>1. IInv => NoHoles
  <2> SUFFICES ASSUME IInv, Serving, NEW s \in 0 .. (next - 1)
               PROVE  Recorded(s) \/ (cur # Idle /\ cur.seq = s)
    BY DEF NoHoles
  <2>1. CASE pc = "idle"
    BY <2>1 DEF IInv, LogOK
  <2>2. CASE pc = "index"
    <3>1. LogOK(cur.seq) /\ next = cur.seq + Ahead(cur.ev) /\ cur.seq \in Nat /\ cur # Idle
      BY <2>2 DEF IInv, IndexOK, TypeOK
    <3>2. s \in 0 .. (cur.seq - 1) \/ s = cur.seq
      BY <3>1 DEF Ahead
    <3> QED
      BY <3>1, <3>2 DEF LogOK
  <2>3. CASE pc = "written"
    <3>1. LogOK(cur.seq + 1) /\ next = cur.seq + Ahead(cur.ev) /\ cur.seq \in Nat
      BY <2>3 DEF IInv, WrittenOK, TypeOK
    <3>2. s \in 0 .. ((cur.seq + 1) - 1)
      BY <3>1 DEF Ahead
    <3> QED
      BY <3>1, <3>2 DEF LogOK
  <2> QED
    BY <2>1, <2>2, <2>3 DEF Serving
<1> QED
  BY <1>1, InductiveInvariant, PTL

\* An event whose operation returned stays readable under its number, through
\* every later write, failure and restart.
THEOREM AckedSurviveHolds ==
  ASSUME Orderly
  PROVE  Spec => []AckedSurvive
<1>1. IInv /\ pc # "filling" => AckedSurvive
  <2> SUFFICES ASSUME IInv, pc # "filling" PROVE AckedSurvive
    OBVIOUS
  <2>1. \E n : LogOK(n)
    BY DEF IInv, TypeOK, IndexOK, WrittenOK
  <2>2. PICK n : LogOK(n)
    BY <2>1
  <2> SUFFICES ASSUME NEW a \in acked PROVE Recorded(a.seq) /\ dat[idx[a.seq].pos] = a
    BY DEF AckedSurvive
  <2>3. a.seq \in 0 .. (n - 1) /\ dat[idx[a.seq].pos] = a
    BY <2>2 DEF LogOK, IInv, TypeOK, Record
  <2> QED
    BY <2>2, <2>3 DEF LogOK
<1>2. IInv /\ pc = "filling" => AckedSurvive
  BY DEF IInv, FillingOK, AckedSurvive
<1>3. IInv => AckedSurvive
  BY <1>1, <1>2
<1> QED
  BY <1>3, InductiveInvariant, PTL

\* No start gives a number out again: the numbering goes on behind every event
\* that was ever returned.
THEOREM NumberingResumesHolds ==
  ASSUME Orderly
  PROVE  Spec => []NumberingResumes
<1>1. IInv => NumberingResumes
  <2> SUFFICES ASSUME IInv, Serving, NEW a \in acked PROVE a.seq < next
    BY DEF NumberingResumes
  <2>0. a.seq \in Nat /\ next \in Nat
    BY DEF IInv, TypeOK, Record
  <2>1. CASE pc = "idle"
    BY <2>1 DEF IInv, LogOK
  <2>2. CASE pc = "index"
    BY <2>0, <2>2 DEF IInv, IndexOK, LogOK, Ahead, TypeOK
  <2>3. CASE pc = "written"
    BY <2>0, <2>3 DEF IInv, WrittenOK, LogOK, Ahead, TypeOK
  <2> QED
    BY <2>1, <2>2, <2>3 DEF Serving
<1> QED
  BY <1>1, InductiveInvariant, PTL

-----------------------------------------------------------------------------
(* Refinement *)

\* The events the first n sequence numbers lead to.
Events(n) == [s \in 0 .. (n - 1) |-> dat[idx[s].pos].ev]

\* While the files hold the numbers below n, that is what a reader sees.
LEMMA AbsLogIs ==
  \A n : TypeOK /\ LogOK(n) /\ pc # "filling" => AbsLog = Events(n)
<1> SUFFICES ASSUME NEW n, TypeOK, LogOK(n), pc # "filling"
             PROVE  AbsLog = Events(n)
  OBVIOUS
<1>1. n \in Nat /\ ilen \in Nat /\ n <= ilen
  BY DEF LogOK, TypeOK
<1>2. \A s \in 0 .. (n - 1) : idx[s] # None
  BY DEF LogOK, Recorded, None
<1>3. \A s \in n .. (ilen - 1) : idx[s] = None
  BY DEF LogOK
<1>4. {s \in 0 .. (ilen - 1) : idx[s] # None} = 0 .. (n - 1)
  BY <1>1, <1>2, <1>3
<1> QED
  BY <1>4 DEF AbsLog, Events

\* While a new index is filled there is nothing to see.
LEMMA AbsLogFilling ==
  pc = "filling" => AbsLog = Events(0)
<1>1. 0 .. (0 - 1) = {}
  OBVIOUS
<1> QED
  BY <1>1 DEF AbsLog, Events

\* The same after a step.
LEMMA AbsLogIsNext ==
  /\ \A n : TypeOK' /\ LogOK(n)' /\ pc' # "filling" => AbsLog' = Events(n)'
  /\ pc' = "filling" => AbsLog' = Events(0)'
<1>1. (\A n : TypeOK /\ LogOK(n) /\ pc # "filling" => AbsLog = Events(n))'
  BY AbsLogIs, PTL
<1>2. (pc = "filling" => AbsLog = Events(0))'
  BY AbsLogFilling, PTL
<1> QED
  BY <1>1, <1>2

\* A start exposes what the files hold, and nothing before.
LEMMA StartRefines ==
  ASSUME IInv, IInv', OpenFiles \/ FillChunk \/ SeekIndexEnd
  PROVE  [Abstract!Next]_(Abstract!vars)
<1>0. TypeOK /\ TypeOK'
  BY DEF IInv
<1>1. CASE OpenFiles
  <2>1. PICK n \in 0 .. ilen : LogOK(n)
    BY <1>1 DEF IInv, OpenFiles
  <2>2. AbsLog = Events(n)
    BY <1>0, <1>1, <2>1, AbsLogIs DEF OpenFiles
  <2>3. CASE ilen = 0
    <3>1. n = 0 /\ 0 .. (0 - 1) = {}
      BY <2>1, <2>3
    <3>2. AbsLog' = Events(0)'
      BY <1>1, <2>3, AbsLogIsNext DEF OpenFiles
    <3>3. AbsLog' = AbsLog
      BY <2>2, <3>1, <3>2 DEF Events
    <3> QED
      BY <1>1, <2>3, <3>3 DEF OpenFiles, AbsPublished, Abstract!vars
  <2>4. CASE ilen # 0
    <3>1. AbsLog' = AbsLog
      BY <1>1, <2>4 DEF OpenFiles, AbsLog
    <3> QED
      BY <1>1, <2>4, <3>1 DEF OpenFiles, AbsPublished, Abstract!vars
  <2> QED
    BY <2>3, <2>4
<1>2. CASE FillChunk
  <2>1. AbsLog = Events(0) /\ 0 .. (0 - 1) = {}
    BY <1>2, AbsLogFilling DEF FillChunk
  <2>2. AbsLog' = Events(0)'
    <3>1. CASE pc' = "filling"
      BY <3>1, AbsLogIsNext
    <3>2. CASE pc' = "scanning"
      <4>1. \A i \in 0 .. (ilen' - 1) : idx'[i] = None
        <5>1. FillingOK /\ fill \in Nat
          BY <1>2 DEF IInv, TypeOK, FillChunk
        <5>2. fill + Chunk >= Capacity /\ ilen' = Capacity /\ ilen = Capacity
          BY <1>2, <3>2, <5>1 DEF FillChunk, FillingOK
        <5> QED
          BY <1>2, <5>1, <5>2 DEF FillChunk, FillingOK
      <4>2. {s \in 0 .. (ilen' - 1) : idx'[s] # None} = {}
        BY <4>1
      <4> QED
        BY <2>1, <3>2, <4>2 DEF AbsLog, Events
    <3> QED
      BY <1>2, <3>1, <3>2 DEF FillChunk
  <2>3. AbsLog' = AbsLog
    BY <2>1, <2>2 DEF Events
  <2> QED
    BY <1>2, <2>3 DEF FillChunk, AbsPublished, Abstract!vars
<1>3. CASE SeekIndexEnd
  <2>1. PICK n \in 0 .. ilen : LogOK(n)
    BY <1>3 DEF IInv, SeekIndexEnd
  <2>2. pc' = "idle" /\ next' = n /\ pc = "scanning" /\ n \in Nat
    BY <1>0, <1>3, <2>1, SeekFindsEnd DEF SeekIndexEnd, LogOK
  <2>3. AbsLog = Events(n)
    BY <1>0, <2>1, <2>2, AbsLogIs
  <2>4. AbsLog' = AbsLog
    BY <1>3, <2>2 DEF AbsLog, SeekIndexEnd
  <2>5. AbsPublished = -1 /\ AbsPublished' = n
    BY <2>2 DEF AbsPublished
  <2>6. DOMAIN AbsLog' = 0 .. (n - 1)
    BY <2>3, <2>4 DEF Events
  <2>7. Abstract!Recover
    BY <2>2, <2>4, <2>5, <2>6 DEF Abstract!Recover, Abstract!Stopped, Abstract!Holds
  <2> QED
    BY <2>7 DEF Abstract!Next
<1> QED
  BY <1>1, <1>2, <1>3

\* A record that no index entry names is invisible.
LEMMA WriteRecordRefines ==
  ASSUME IInv, IInv', NEW ev \in Event, WriteRecord(ev, Ahead(ev))
  PROVE  UNCHANGED Abstract!vars
<1>0. PICK n : n = next
  OBVIOUS
<1>1. /\ TypeOK /\ TypeOK' /\ LogOK(n) /\ pc = "idle" /\ pc' = "index"
      /\ cur'.seq = n /\ LogOK(cur.seq)' /\ idx' = idx
  BY <1>0 DEF IInv, WriteRecord, IndexOK
<1>2. LogOK(n)'
  BY <1>1 DEF LogOK
<1>3. AbsLog = Events(n) /\ AbsLog' = Events(n)'
  BY <1>1, <1>2, AbsLogIs, AbsLogIsNext
<1>4. \A s \in 0 .. (n - 1) : dat'[idx[s].pos] = dat[idx[s].pos]
  BY <1>0, WriteRecordSpares
<1>5. AbsLog' = AbsLog
  BY <1>1, <1>3, <1>4 DEF Events
<1>6. AbsPublished' = AbsPublished
  BY <1>0, <1>1 DEF AbsPublished
<1> QED
  BY <1>5, <1>6 DEF Abstract!vars

\* A failed data write is invisible.
LEMMA DataWriteFailsRefines ==
  ASSUME IInv, IInv', DataWriteFails
  PROVE  UNCHANGED Abstract!vars
<1>0. PICK n : n = next
  OBVIOUS
<1>1. /\ TypeOK /\ TypeOK' /\ LogOK(n) /\ Behind(n, dptr) /\ dptr \in Nat
      /\ pc = "idle" /\ pc' = "idle" /\ next' = n /\ LogOK(next)' /\ idx' = idx
  BY <1>0 DEF IInv, DataWriteFails, TypeOK
<1>2. LogOK(n)'
  BY <1>1 DEF LogOK
<1>3. AbsLog = Events(n) /\ AbsLog' = Events(n)'
  BY <1>1, <1>2, AbsLogIs, AbsLogIsNext
<1>4. \A s \in 0 .. (n - 1) : dat'[idx[s].pos] = dat[idx[s].pos]
  BY <1>1, OverwrittenSpares DEF DataWriteFails
<1>5. AbsLog' = AbsLog
  BY <1>1, <1>3, <1>4 DEF Events
<1> QED
  BY <1>0, <1>1, <1>5 DEF AbsPublished, Abstract!vars

\* The index write appends the event.
LEMMA WriteIndexEntryRefines ==
  ASSUME IInv, IInv', WriteIndexEntry
  PROVE  Abstract!Append(cur.ev)
<1>0. PICK c : c = cur.seq
  OBVIOUS
<1>1. /\ TypeOK /\ TypeOK' /\ LogOK(c) /\ c \in Nat
      /\ pc = "index" /\ pc' = "written" /\ cur' = cur /\ dat' = dat
      /\ LogOK(cur.seq + 1)' /\ dat'[idx'[cur'.seq].pos].ev = cur.ev
  BY <1>0 DEF IInv, WriteIndexEntry, IndexOK, WrittenOK, LogOK
<1>2. LogOK(c + 1)'
  BY <1>0, <1>1 DEF LogOK
<1>3. AbsLog = Events(c) /\ AbsLog' = Events(c + 1)'
  BY <1>1, <1>2, AbsLogIs, AbsLogIsNext
<1>4. \A s \in 0 .. (c - 1) : idx'[s] = idx[s]
  <2>1. \A s \in 0 .. (c - 1) : s \in 0 .. (ilen - 1) /\ s # c /\ ilen \in Nat
    BY <1>1, RecordedTypes, SMTT(30) DEF TypeOK
  <2> QED
    BY <1>0, <1>1, <2>1, SMTT(30) DEF WriteIndexEntry, IndexWith
<1>5. (c + 1) - 1 = c
  BY <1>1
<1>6. AbsLog' = [s \in 0 .. c |-> IF s < c THEN AbsLog[s] ELSE cur.ev]
  <2>1. AbsLog' = [s \in 0 .. c |-> dat'[idx'[s].pos].ev]
    BY <1>3, <1>5 DEF Events
  <2>2. \A s \in 0 .. c : dat'[idx'[s].pos].ev = IF s < c THEN AbsLog[s] ELSE cur.ev
    <3> SUFFICES ASSUME NEW s \in 0 .. c
                 PROVE  dat'[idx'[s].pos].ev = IF s < c THEN AbsLog[s] ELSE cur.ev
      OBVIOUS
    <3>1. CASE s < c
      <4>1. s \in 0 .. (c - 1)
        BY <1>1, <3>1
      <4> QED
        BY <1>1, <1>3, <1>4, <3>1, <4>1 DEF Events
    <3>2. CASE s = c
      BY <1>0, <1>1, <3>2
    <3> QED
      BY <1>1, <3>1, <3>2
  <2> QED
    BY <2>1, <2>2
<1>7. AbsPublished = c /\ AbsPublished' = c /\ DOMAIN AbsLog = 0 .. (c - 1)
  BY <1>0, <1>1, <1>3 DEF AbsPublished, Events
<1> QED
  BY <1>1, <1>6, <1>7 DEF Abstract!Append, Abstract!Stopped, Abstract!Holds

\* The return publishes it.
LEMMA ReturnRefines ==
  ASSUME IInv, Return
  PROVE  Abstract!Publish
<1>0. PICK c : c = cur.seq
  OBVIOUS
<1>1. /\ TypeOK /\ LogOK(c + 1) /\ c \in Nat /\ (c + 1) - 1 = c
      /\ pc = "written" /\ pc' = "idle" /\ next' = c + 1
      /\ UNCHANGED <<idx, ilen, dat>>
  BY <1>0 DEF IInv, Return, WrittenOK, TypeOK, Ahead
<1>2. AbsLog = Events(c + 1)
  BY <1>1, AbsLogIs
<1>3. DOMAIN AbsLog = 0 .. ((c + 1) - 1)
  BY <1>2 DEF Events
<1>4. AbsLog' = AbsLog
  BY <1>1 DEF AbsLog
<1>5. AbsPublished = c /\ AbsPublished' = c + 1
  BY <1>0, <1>1 DEF AbsPublished
<1> QED
  BY <1>1, <1>3, <1>4, <1>5 DEF Abstract!Publish, Abstract!Stopped, Abstract!Holds

\* A failed index write, and a stop, change nothing a reader sees.
LEMMA QuietRefines ==
  ASSUME Orderly, IInv, IndexWriteFails \/ Halt \/ Abort \/ UNCHANGED vars
  PROVE  [Abstract!Next]_(Abstract!vars)
<1>1. CASE IndexWriteFails
  <2>1. AbsLog' = AbsLog
    BY <1>1 DEF IndexWriteFails, AbsLog
  <2>2. AbsPublished' = AbsPublished
    BY <1>1 DEF IndexWriteFails, AbsPublished, IInv, TypeOK, IndexOK, Orderly, Ahead
  <2> QED
    BY <2>1, <2>2 DEF Abstract!vars
<1>2. CASE Halt
  <2>1. AbsLog' = AbsLog
    BY <1>2 DEF Halt, AbsLog, Orderly
  <2>2. AbsPublished' = -1
    BY <1>2 DEF Halt, AbsPublished
  <2>3. CASE AbsPublished = -1
    BY <2>1, <2>2, <2>3 DEF Abstract!vars
  <2>4. CASE AbsPublished # -1
    BY <2>1, <2>2, <2>4 DEF Abstract!Next, Abstract!Stop, Abstract!Stopped
  <2> QED
    BY <2>3, <2>4
<1>3. CASE Abort
  BY <1>3 DEF Abort, IInv
<1>4. CASE UNCHANGED vars
  BY <1>4 DEF vars, AbsLog, AbsPublished, Abstract!vars
<1> QED
  BY <1>1, <1>2, <1>3, <1>4

\* The files and the counter implement the append-only log of DBState: whatever
\* fails or stops, what was recorded is never changed and never lost.
THEOREM Refinement ==
  ASSUME Orderly
  PROVE  Spec => ImplementsEventLog
<1>1. Init => Abstract!Init
  <2> SUFFICES ASSUME Init PROVE Abstract!Init
    OBVIOUS
  <2>1. {s \in 0 .. (ilen - 1) : idx[s] # None} = {}
    BY DEF Init
  <2>2. AbsLog = [s \in {} |-> s] /\ AbsPublished = -1
    BY <2>1 DEF Init, AbsLog, AbsPublished
  <2> QED
    BY <2>2 DEF Abstract!Init, Abstract!Stopped
<1>2. IInv /\ IInv' /\ [Next]_vars => [Abstract!Next]_(Abstract!vars)
  <2> SUFFICES ASSUME IInv, IInv', [Next]_vars
               PROVE  [Abstract!Next]_(Abstract!vars)
    OBVIOUS
  <2>1. CASE OpenFiles \/ FillChunk \/ SeekIndexEnd
    BY <2>1, StartRefines
  <2>2. ASSUME NEW k \in Keys,
               UpdateDocument(k) \/ DeleteDocument(k) \/ AddDatabase(k) \/ DeleteDatabase(k)
        PROVE  UNCHANGED Abstract!vars
    <3>1. PICK ev \in Event : WriteRecord(ev, Ahead(ev))
      BY <2>2, OperationIsWriteRecord DEF Ahead
    <3> QED
      BY <3>1, WriteRecordRefines
  <2>3. CASE DataWriteFails
    BY <2>3, DataWriteFailsRefines
  <2>4. CASE WriteIndexEntry
    <3>1. cur.ev \in Event
      BY <2>4 DEF IInv, TypeOK, WriteIndexEntry
    <3> QED
      BY <2>4, <3>1, WriteIndexEntryRefines DEF Abstract!Next
  <2>5. CASE Return
    BY <2>5, ReturnRefines DEF Abstract!Next
  <2>6. CASE IndexWriteFails \/ Halt \/ Abort \/ UNCHANGED vars
    BY <2>6, QuietRefines
  <2> QED
    BY <2>1, <2>2, <2>3, <2>4, <2>5, <2>6 DEF Next
<1> QED
  BY <1>1, <1>2, InductiveInvariant, PTL DEF Spec, ImplementsEventLog, Abstract!Spec

=============================================================================
