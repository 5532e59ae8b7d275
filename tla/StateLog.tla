------------------------------ MODULE StateLog ------------------------------
(***************************************************************************)
(* memedb/state/FileSystemState.java: the sequenced event log of MemeDB.   *)
(*                                                                         *)
(* Two files, both opened "rws" (a write is on disk when it returns):      *)
(*   - the index, 16-byte entries [seq, pos], preallocated with -1 entries *)
(*     on the first start, entry number s at offset 16*s;                  *)
(*   - the data file, records of variable length written at the file       *)
(*     pointer, each carrying its own sequence number.                     *)
(* In memory: nextSequenceNumber and the data file pointer.  Every         *)
(* operation holds the monitor of the state object, so at most one is      *)
(* under way; the process can stop between any two of its writes.          *)
(*                                                                         *)
(* A record is abstracted to its event and a length; an index entry is     *)
(* written in one piece (16 aligned bytes).                                *)
(*                                                                         *)
(* A definition named Slip... is a wrong variant of the one that follows   *)
(* it: replaced by it, the specification violates a property.              *)
(***************************************************************************)
EXTENDS Integers

CONSTANTS
  Keys,         \* the databases and documents events are about
  Capacity,     \* INITIAL_CAPACITY: entries the index is preallocated with
  Chunk,        \* entries one write of the preallocation fills (1024)
  IndexFaults,  \* kinds of operation whose index write may raise IOException
  FillStops,    \* may the process stop while it fills a new index?
  MaxSeq,       \* bound: largest sequence number written
  MaxPos,       \* bound: largest offset a record starts at
  MaxStops      \* bound: how often the process stops

Kinds == {"update", "delete", "create", "drop"}

ASSUME StateLogAssumption ==
  /\ Capacity \in Nat \ {0}
  /\ Chunk \in Nat \ {0}
  /\ IndexFaults \subseteq Kinds
  /\ FillStops \in BOOLEAN
  /\ MaxSeq \in Nat
  /\ MaxPos \in Nat
  /\ MaxStops \in Nat

VARIABLES
  idx,    \* index file: entry number -> [seq, pos]
  ilen,   \* index file: number of entries
  dat,    \* data file: offset -> the intact record that starts there, or Blank
  dptr,   \* data file pointer
  next,   \* nextSequenceNumber
  pc,     \* what the process is doing
  fill,   \* entries of a new index filled so far
  cur,    \* the operation under way
  acked,  \* history: the events whose operation returned normally
  stops   \* how often the process has stopped

vars == <<idx, ilen, dat, dptr, next, pc, fill, cur, acked, stops>>

Event == [kind : Kinds, key : Keys]
Positions == 0 .. MaxPos

\* A document record carries the document's id besides the database name.
Size(ev) == IF ev.kind \in {"update", "delete"} THEN 2 ELSE 1

Entry == [seq : Int, pos : Int]
None == [seq |-> -1, pos |-> -1]   \* a preallocated entry
Zero == [seq |-> 0, pos |-> 0]     \* what setLength and gaps leave

Record == [seq : Nat, ev : Event]
Blank == [seq |-> -1]
Intact(p) == p \in Positions /\ dat[p] # Blank

Idle == [seq |-> -1]

TypeOK ==
  /\ ilen \in Nat
  /\ idx \in [0 .. (ilen - 1) -> Entry]
  /\ dat \in [Positions -> Record \cup {Blank}]
  /\ dptr \in Nat
  /\ next \in Nat
  /\ pc \in {"down", "filling", "scanning", "idle", "index", "written", "failed"}
  /\ fill \in Nat
  /\ cur \in [seq : Nat, ev : Event, pos : Nat] \cup {Idle}
  /\ pc \in {"index", "written"} <=> cur # Idle
  /\ acked \subseteq Record
  /\ stops \in Nat

Init ==
  /\ idx = [i \in {} |-> None] /\ ilen = 0
  /\ dat = [p \in Positions |-> Blank]
  /\ dptr = 0 /\ next = 0 /\ fill = 0
  /\ pc = "down" /\ cur = Idle
  /\ acked = {} /\ stops = 0

-----------------------------------------------------------------------------
(* The files *)

\* The data file after n units are written at p: a record they touch is lost.
Overwritten(p, n) ==
  [q \in Positions |->
     IF dat[q] # Blank /\ q < p + n /\ p < q + Size(dat[q].ev) THEN Blank ELSE dat[q]]

\* writeIndexEntry: an entry past the end of the file leaves a gap of zeros.
IndexWith(s, p) ==
  [i \in 0 .. ((IF s < ilen THEN ilen ELSE s + 1) - 1) |->
     IF i = s THEN [seq |-> s, pos |-> p]
     ELSE IF i < ilen THEN idx[i] ELSE Zero]

\* readEventEntry(s) at offset p finds the number it expects.  The data file is
\* preallocated with zeros, and zeros read as a record of sequence number 0.
Readable(s, p) ==
  \/ Intact(p) /\ dat[p].seq = s
  \/ s = 0 /\ p = 0

\* Slip: the last entry is not read, so the pointer stays in front of it.
SlipAfter(p) == p

\* Where the file pointer is after the record at p has been read.
After(p) == p + (IF Intact(p) THEN Size(dat[p].ev) ELSE 1)

-----------------------------------------------------------------------------
(* Start *)

\* init: open the files.  checkCapacities finds the pointer at 0, so it only
\* ever grows a file of length 0.
OpenFiles ==
  /\ pc = "down"
  /\ IF ilen = 0
       THEN /\ ilen' = Capacity
            /\ idx' = [i \in 0 .. (Capacity - 1) |-> Zero]
            /\ pc' = "filling"
       ELSE /\ pc' = "scanning"
            /\ UNCHANGED <<idx, ilen>>
  /\ fill' = 0
  /\ UNCHANGED <<dat, dptr, next, cur, acked, stops>>

FillChunk ==
  /\ pc = "filling"
  /\ idx' = [i \in 0 .. (ilen - 1) |-> IF fill <= i /\ i < fill + Chunk THEN None ELSE idx[i]]
  /\ fill' = fill + Chunk
  /\ pc' = IF fill + Chunk < Capacity THEN "filling" ELSE "scanning"
  /\ UNCHANGED <<ilen, dat, dptr, next, cur, acked, stops>>

\* Slip: an entry of number 0 counts as unused.
SlipIndexEnd ==
  CHOOSE n \in 0 .. ilen :
    /\ n < ilen => idx[n].seq <= 0
    /\ \A i \in 0 .. (n - 1) : idx[i].seq > 0

\* The first entry with a negative number, or the end of the file.
IndexEnd ==
  CHOOSE n \in 0 .. ilen :
    /\ n < ilen => idx[n].seq < 0
    /\ \A i \in 0 .. (n - 1) : idx[i].seq >= 0

\* seekIndexEnd, and the read of the last entry init makes after it.
SeekIndexEnd ==
  /\ pc = "scanning"
  /\ IF IndexEnd = 0
       THEN next' = 0 /\ dptr' = 0 /\ pc' = "idle"
       ELSE LET last == idx[IndexEnd - 1] IN
            IF /\ Readable(last.seq, last.pos)
               /\ Readable(last.seq, idx[last.seq].pos)
              THEN /\ next' = last.seq + 1
                   /\ dptr' = After(last.pos)
                   /\ pc' = "idle"
              ELSE pc' = "failed" /\ UNCHANGED <<next, dptr>>
  /\ UNCHANGED <<idx, ilen, dat, fill, cur, acked, stops>>

-----------------------------------------------------------------------------
(* Operations, each under the monitor of the state object *)

\* The data record is written; bump is what the operation adds to
\* nextSequenceNumber before its index entry is written.
WriteRecord(ev, bump) ==
  /\ pc = "idle"
  /\ next <= MaxSeq /\ dptr <= MaxPos
  /\ dat' = [Overwritten(dptr, Size(ev)) EXCEPT ![dptr] = [seq |-> next, ev |-> ev]]
  /\ dptr' = dptr + Size(ev)
  /\ cur' = [seq |-> next, ev |-> ev, pos |-> dptr]
  /\ next' = next + bump
  /\ pc' = "index"
  /\ UNCHANGED <<idx, ilen, fill, acked, stops>>

\* Slip: updateDocument counts before its index entry is written.
SlipUpdateDocument(k) == WriteRecord([kind |-> "update", key |-> k], 1)

UpdateDocument(k) == WriteRecord([kind |-> "update", key |-> k], 0)
DeleteDocument(k) == WriteRecord([kind |-> "delete", key |-> k], 1)
AddDatabase(k)    == WriteRecord([kind |-> "create", key |-> k], 0)
DeleteDatabase(k) == WriteRecord([kind |-> "drop", key |-> k], 0)

\* The data write raises IOException after n units; the caller sees an
\* exception and nothing else has changed.
DataWriteFails ==
  /\ pc = "idle"
  /\ \E n \in 0 .. 1 :
       /\ n > 0 => dptr <= MaxPos
       /\ dat' = Overwritten(dptr, n)
       /\ dptr' = dptr + n
  /\ UNCHANGED <<idx, ilen, next, pc, fill, cur, acked, stops>>

WriteIndexEntry ==
  /\ pc = "index"
  /\ idx' = IndexWith(cur.seq, cur.pos)
  /\ ilen' = IF cur.seq < ilen THEN ilen ELSE cur.seq + 1
  /\ pc' = "written"
  /\ UNCHANGED <<dat, dptr, next, fill, cur, acked, stops>>

\* Slip: a failed index write counts all the same.
SlipIndexWriteFails ==
  /\ pc = "index"
  /\ cur.ev.kind \in IndexFaults
  /\ pc' = "idle" /\ cur' = Idle
  /\ next' = next + 1
  /\ UNCHANGED <<idx, ilen, dat, dptr, fill, acked, stops>>

\* The index write raises IOException: the operation throws, and what it did
\* to nextSequenceNumber stays.
IndexWriteFails ==
  /\ pc = "index"
  /\ cur.ev.kind \in IndexFaults
  /\ pc' = "idle" /\ cur' = Idle
  /\ UNCHANGED <<idx, ilen, dat, dptr, next, fill, acked, stops>>

\* Slip: the operation under way is not forgotten.
SlipReturn ==
  /\ pc = "written"
  /\ next' = IF cur.ev.kind = "delete" THEN next ELSE next + 1
  /\ acked' = acked \cup {[seq |-> cur.seq, ev |-> cur.ev]}
  /\ pc' = "idle"
  /\ UNCHANGED <<idx, ilen, dat, dptr, fill, cur, stops>>

\* The operation returns; deleteDocument counted already.
Return ==
  /\ pc = "written"
  /\ next' = IF cur.ev.kind = "delete" THEN next ELSE next + 1
  /\ acked' = acked \cup {[seq |-> cur.seq, ev |-> cur.ev]}
  /\ pc' = "idle" /\ cur' = Idle
  /\ UNCHANGED <<idx, ilen, dat, dptr, fill, stops>>

-----------------------------------------------------------------------------
(* Stop *)

\* The process is killed, or shutdown closes the files between two operations:
\* what is in memory is gone, what has been written stays.
Halt ==
  /\ pc \notin {"down", "failed"}
  /\ pc = "filling" => FillStops
  /\ stops < MaxStops
  /\ stops' = stops + 1
  /\ pc' = "down" /\ cur' = Idle
  /\ next' = 0 /\ dptr' = 0 /\ fill' = 0
  /\ UNCHANGED <<idx, ilen, dat, acked>>

\* init threw, so the process ends; it can only be started again.
Abort ==
  /\ pc = "failed"
  /\ pc' = "down"
  /\ UNCHANGED <<idx, ilen, dat, dptr, next, fill, cur, acked, stops>>

Next ==
  \/ OpenFiles \/ FillChunk \/ SeekIndexEnd
  \/ \E k \in Keys :
       UpdateDocument(k) \/ DeleteDocument(k) \/ AddDatabase(k) \/ DeleteDatabase(k)
  \/ DataWriteFails
  \/ WriteIndexEntry \/ IndexWriteFails \/ Return
  \/ Halt \/ Abort

Spec == Init /\ [][Next]_vars

\* A process that is down is started again, and what it has begun goes on: the
\* operations run to their end once they hold the monitor.  Nothing is assumed
\* of the requests, the faults and the stops.
Fairness ==
  /\ WF_vars(OpenFiles) /\ WF_vars(FillChunk) /\ WF_vars(SeekIndexEnd)
  /\ WF_vars(WriteIndexEntry) /\ WF_vars(Return)
  /\ WF_vars(Abort)

FairSpec == Spec /\ Fairness

-----------------------------------------------------------------------------
(* Properties *)

Serving == pc \in {"idle", "index", "written"}

\* The index names, for sequence number s, an intact record of that number.
Recorded(s) ==
  /\ s < ilen
  /\ idx[s].seq = s
  /\ Intact(idx[s].pos)
  /\ dat[idx[s].pos].seq = s

\* While the database serves requests, every sequence number below the next
\* one leads through the index to its own record: eventIterator and
\* readEventEntry never meet a hole or a foreign record (FileSystemState
\* 154-202, 322-346).
NoHoles ==
  Serving => \A s \in 0 .. (next - 1) :
    Recorded(s) \/ (cur # Idle /\ cur.seq = s)

\* An event whose operation returned stays readable, unchanged, under the
\* number it was given, whatever fails or stops afterwards: no later record
\* and no restart overwrites it.
AckedSurvive ==
  \A a \in acked : Recorded(a.seq) /\ dat[idx[a.seq].pos] = a

\* After a restart the numbering goes on behind every event that was ever
\* returned: seekIndexEnd finds the "last valid sequence number recorded"
\* (FileSystemState 486-489), so no number is given out twice.
NumberingResumes ==
  Serving => \A a \in acked : a.seq < next

\* A process that is started comes up, whatever state the files were left in
\* (init, FileSystemState 74-139, throws when it cannot read the last entry).
StartsUp == pc = "down" ~> pc = "idle"

\* The faults the design copes with: a new index is filled without a stop, and
\* the index write of deleteDocument, which counts first, does not fail.
Orderly == "delete" \notin IndexFaults /\ ~FillStops

\* The log as its readers know it: what the index leads to.
AbsLog ==
  LET recorded == IF pc = "filling" THEN {} ELSE {s \in 0 .. (ilen - 1) : idx[s] # None}
  IN  [s \in recorded |-> dat[idx[s].pos].ev]

AbsPublished ==
  IF pc = "idle" THEN next
  ELSE IF pc \in {"index", "written"} THEN cur.seq
  ELSE -1

Abstract == INSTANCE EventLog WITH log <- AbsLog, published <- AbsPublished

\* The two files and the counter implement the append-only log of DBState: an
\* operation appends one event with its index write and publishes it with its
\* return, and nothing else, a failed write and a restart included, changes
\* what has been recorded.
ImplementsEventLog == Abstract!Spec

=============================================================================
