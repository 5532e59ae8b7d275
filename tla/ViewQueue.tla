------------------------------ MODULE ViewQueue ------------------------------
(***************************************************************************)
(* How the events of the state log reach the views: BaseViewManager and    *)
(* AdvancedViewManager, with the parts of MemeDB and FileSystemBackend     *)
(* that call them.                                                         *)
(*                                                                         *)
(* An operation gets its sequence number from the state log (here the      *)
(* abstract log of module EventLog, number s at log[s + 1]) and reaches    *)
(* the view manager later, on its own thread:                              *)
(*   - a saved document after its files are written, outside every lock;   *)
(*   - a deleted document at once, with the monitor of the state log held, *)
(*     and before its files are removed;                                   *)
(*   - a created or dropped database after the backend call returns.       *)
(* The view manager applies an event only when its number is the next one; *)
(* any other waits in eventCache.  A monitor thread walks the cache, and   *)
(* for an event that has waited five seconds it asks the state log for the *)
(* event before it.                                                        *)
(***************************************************************************)
EXTENDS Integers, Sequences

CONSTANTS
  Docs,        \* document ids
  SaveFaults,  \* may writing the files of a document fail?
  Deletes,     \* are documents deleted?
  Databases,   \* are databases created and dropped?
  MaxEvents    \* bound: number of operations

ASSUME ViewQueueAssumption ==
  /\ {SaveFaults, Deletes, Databases} \subseteq BOOLEAN
  /\ MaxEvents \in Nat

VARIABLES
  log,      \* the state log: [kind, doc] of every sequence number
  st,       \* progress of the operation behind every number
  holder,   \* number whose deleteDocument holds the monitor of the state log
  dirs,     \* documents whose directory exists
  disk,     \* numbers whose document revision can be read back
  extra,    \* does the database that is created and dropped exist?
  next,     \* nextSequenceNumber of the view manager
  cache,    \* eventCache: at most one event per number
  mon,      \* the monitor thread: its step, its event, the one after it
  applied   \* history: the numbers the views were brought up to date with

opVars == <<log, st, holder, dirs, disk, extra>>
viewVars == <<next, cache, applied>>
vars == <<opVars, viewVars, mon>>

None == -1
Free == holder = None

Kinds == {"update", "delete", "create", "drop"}
Progress == {"writing", "written", "notified", "failed", "done"}
Steps == {"sleep", "walk", "apply", "remove", "repost"}

Numbers == 0 .. (Len(log) - 1)

\* null is the nullEvent posted for a document that could not be read; old
\* means that the five seconds are over.
Event == [seq : Nat, null : BOOLEAN, old : BOOLEAN]

TypeOK ==
  /\ log \in Seq([kind : Kinds, doc : Docs])
  /\ st \in Seq(Progress) /\ Len(st) = Len(log)
  /\ holder \in Nat \cup {None}
  /\ dirs \subseteq Docs /\ disk \subseteq Nat
  /\ extra \in BOOLEAN
  /\ next \in Nat
  /\ cache \subseteq Event
  /\ \A e, f \in cache : e.seq = f.seq => e = f
  /\ mon \in [pc : Steps, ev : Nat \cup {None}, ahead : Nat \cup {None}]
  /\ applied \in Seq(Nat)

Init ==
  /\ log = <<>> /\ st = <<>> /\ holder = None
  /\ dirs = {} /\ disk = {} /\ extra = FALSE
  /\ next = 0 /\ cache = {} /\ applied = <<>>
  /\ mon = [pc |-> "sleep", ev |-> None, ahead |-> None]

-----------------------------------------------------------------------------
(* The view manager *)

Cached(s) == \E e \in cache : e.seq = s

\* Slip: the cache takes a second event of the same number.
SlipWithEvent(s, null) == cache \cup {[seq |-> s, null |-> null, old |-> FALSE]}

\* postEvent: the cache is a set ordered by number, so a second event of the
\* same number is ignored.
WithEvent(s, null) ==
  IF Cached(s) THEN cache ELSE cache \cup {[seq |-> s, null |-> null, old |-> FALSE]}

\* Slip: an event that arrives out of order is not kept.
SlipHandle(s) ==
  IF s = next
    THEN next' = next + 1 /\ applied' = Append(applied, s) /\ UNCHANGED cache
    ELSE UNCHANGED <<cache, next, applied>>

\* deletingDocument, onDatabaseCreated, onDatabaseDeleted, recalculateDocument:
\* each holds the monitor of the view manager and begins with inOrder.
Handle(s) ==
  IF s = next
    THEN next' = next + 1 /\ applied' = Append(applied, s) /\ UNCHANGED cache
    ELSE cache' = WithEvent(s, FALSE) /\ UNCHANGED <<next, applied>>

-----------------------------------------------------------------------------
(* Operations *)

\* The operation gets its number; it needs the monitor of the state log.
Sequence(kind, d) ==
  /\ Free /\ Len(log) < MaxEvents
  /\ log' = Append(log, [kind |-> kind, doc |-> d])
  /\ st' = Append(st, "writing")

Advance(s, p) == st' = [st EXCEPT ![s + 1] = p]
At(s, kind, p) == s \in Numbers /\ log[s + 1].kind = kind /\ st[s + 1] = p

\* lockForUpdate makes the directory, saveDocument asks for the number.
UpdateDocument(d) ==
  /\ Sequence("update", d)
  /\ dirs' = dirs \cup {d}
  /\ UNCHANGED <<holder, disk, extra, viewVars, mon>>

\* saveDocument writes revision, meta and common file into the directory.
WriteFiles(s) ==
  /\ At(s, "update", "writing")
  /\ log[s + 1].doc \in dirs
  /\ disk' = disk \cup {s}
  /\ Advance(s, "written")
  /\ UNCHANGED <<log, holder, dirs, extra, viewVars, mon>>

\* A write fails, before or after the meta file is there: saveDocument throws
\* and finalizeDocument is not called.
SaveFails(s) ==
  /\ At(s, "update", "writing")
  /\ SaveFaults \/ log[s + 1].doc \notin dirs
  /\ \/ log[s + 1].doc \in dirs /\ disk' = disk \cup {s}
     \/ UNCHANGED disk
  /\ Advance(s, "failed")
  /\ UNCHANGED <<log, holder, dirs, extra, viewVars, mon>>

\* finalizeDocument: onDocumentUpdate only posts the event.
FinalizeDocument(s) ==
  /\ At(s, "update", "written")
  /\ cache' = WithEvent(s, FALSE)
  /\ Advance(s, "done")
  /\ UNCHANGED <<log, holder, dirs, disk, extra, next, applied, mon>>

\* deleteDocument records the event and keeps the monitor of the state log.
DeleteDocument(d) ==
  /\ Deletes /\ d \in dirs
  /\ Sequence("delete", d)
  /\ holder' = Len(log)
  /\ UNCHANGED <<dirs, disk, extra, viewVars, mon>>

\* onDocumentDeleting, still under that monitor.
NotifyDeleting(s) ==
  /\ holder = s /\ At(s, "delete", "writing")
  /\ Handle(s)
  /\ holder' = None
  /\ Advance(s, "notified")
  /\ UNCHANGED <<log, dirs, disk, extra, mon>>

\* deleteRecursive, after the state log is free again.
RemoveFiles(s) ==
  /\ At(s, "delete", "notified")
  /\ dirs' = dirs \ {log[s + 1].doc}
  /\ disk' = {r \in disk : log[r + 1].doc # log[s + 1].doc}
  /\ Advance(s, "done")
  /\ UNCHANGED <<log, holder, extra, viewVars, mon>>

\* backend.addDatabase and backend.deleteDatabase record the event; the
\* database is one without documents, d only fills the field.
AddDatabase(d) ==
  /\ Databases /\ ~extra
  /\ Sequence("create", d)
  /\ extra' = TRUE
  /\ UNCHANGED <<holder, dirs, disk, viewVars, mon>>

DeleteDatabase(d) ==
  /\ Databases /\ extra
  /\ Sequence("drop", d)
  /\ extra' = FALSE
  /\ UNCHANGED <<holder, dirs, disk, viewVars, mon>>

\* MemeDB then tells the view manager, with no lock held in between.
NotifyDatabase(s) ==
  /\ At(s, "create", "writing") \/ At(s, "drop", "writing")
  /\ Handle(s)
  /\ Advance(s, "done")
  /\ UNCHANGED <<log, holder, dirs, disk, extra, mon>>

-----------------------------------------------------------------------------
(* The monitor thread *)

\* The first cached number above s, for the iterator over the cache.
Following(s) ==
  IF \E e \in cache : e.seq > s
    THEN (CHOOSE e \in cache : e.seq > s /\ \A f \in cache : f.seq > s => e.seq <= f.seq).seq
    ELSE None

Current == CHOOSE e \in cache : e.seq = mon.ev

\* An event has waited five seconds.
Age(s) ==
  /\ \E e \in cache : e.seq = s /\ ~e.old
  /\ cache' = {[e EXCEPT !.old = e.old \/ e.seq = s] : e \in cache}
  /\ UNCHANGED <<opVars, next, applied, mon>>

StartPass ==
  /\ mon.pc = "sleep"
  /\ mon' = [pc |-> "walk", ev |-> None, ahead |-> Following(None)]
  /\ UNCHANGED <<opVars, viewVars>>

\* The iterator hands out the event it looked up ahead, and looks up the next.
\* An event that is neither the next one nor old ends the pass.
TakeEvent ==
  /\ mon.pc = "walk"
  /\ mon' =
       LET s == mon.ahead
           old == \E e \in cache : e.seq = s /\ e.old
           pc == IF s = None THEN "sleep"
                 ELSE IF s = next THEN "apply"
                 ELSE IF old THEN "repost" ELSE "sleep"
       IN  IF pc = "sleep" THEN [pc |-> pc, ev |-> None, ahead |-> None]
           ELSE [pc |-> pc, ev |-> s, ahead |-> Following(s)]
  /\ UNCHANGED <<opVars, viewVars>>

\* Slip: a nullEvent moves the view manager on.
SlipApplyEvent ==
  /\ mon.pc = "apply"
  /\ IF Current.null THEN next' = next + 1 /\ UNCHANGED <<cache, applied>> ELSE Handle(mon.ev)
  /\ mon' = [mon EXCEPT !.pc = "remove"]
  /\ UNCHANGED opVars

\* event.apply(): a nullEvent does nothing.
ApplyEvent ==
  /\ mon.pc = "apply"
  /\ IF Current.null THEN UNCHANGED viewVars ELSE Handle(mon.ev)
  /\ mon' = [mon EXCEPT !.pc = "remove"]
  /\ UNCHANGED opVars

\* eventCache.remove(event): the event of that number, whichever it is.
RemoveEvent ==
  /\ mon.pc = "remove"
  /\ cache' = {e \in cache : e.seq # mon.ev}
  /\ mon' = [mon EXCEPT !.pc = "walk", !.ev = None]
  /\ UNCHANGED <<opVars, next, applied>>

\* Can getDocument read the revision number s saved?  While a save of the same
\* document rewrites the common file, it may find it or not.
Found(s) ==
  IF s \in disk
    THEN IF \E r \in Numbers : st[r + 1] = "writing" /\ log[r + 1] = [kind |-> "update", doc |-> log[s + 1].doc]
           THEN BOOLEAN ELSE {TRUE}
    ELSE IF st[s + 1] = "writing" /\ log[s + 1].doc \in dirs THEN BOOLEAN ELSE {FALSE}

\* eventsFromSequence(seq - 1, 1) gives event 0 when asked for the one before.
Before(s) == IF s = 0 THEN 0 ELSE s - 1

\* The event before the one that has waited is read from the state log, which
\* takes the log's monitor, and posted again.
RepostEvent ==
  /\ mon.pc = "repost" /\ Free
  /\ LET s == Before(mon.ev) IN
     \E found \in IF log[s + 1].kind = "update" THEN Found(s) ELSE {TRUE} :
       cache' = WithEvent(s, ~found)
  /\ mon' = [mon EXCEPT !.pc = "walk", !.ev = None]
  /\ UNCHANGED <<opVars, next, applied>>

MonitorStep == StartPass \/ TakeEvent \/ ApplyEvent \/ RemoveEvent \/ RepostEvent

OperationStep(s) ==
  WriteFiles(s) \/ FinalizeDocument(s) \/ NotifyDeleting(s) \/ RemoveFiles(s) \/ NotifyDatabase(s)

Next ==
  \/ \E d \in Docs : UpdateDocument(d) \/ DeleteDocument(d) \/ AddDatabase(d) \/ DeleteDatabase(d)
  \/ \E s \in Numbers : OperationStep(s) \/ SaveFails(s) \/ Age(s)
  \/ MonitorStep

Spec == Init /\ [][Next]_vars

\* An operation that has its number goes on to its end, time passes, and the
\* monitor thread runs.  Nothing is assumed of requests and of failures.
Fairness ==
  /\ \A s \in 0 .. (MaxEvents - 1) : WF_vars(OperationStep(s)) /\ WF_vars(Age(s))
  /\ WF_vars(MonitorStep)

FairSpec == Spec /\ Fairness

-----------------------------------------------------------------------------
(* Properties *)

\* The views follow the log: they have seen every event below the next number
\* once, in order, and none that the log does not hold, although events arrive
\* out of order, twice, from several threads and from the log itself (inOrder,
\* AdvancedViewManager 331-334).
ViewsFollowLog ==
  /\ applied = [i \in 1 .. next |-> i - 1]
  /\ next <= Len(log)

\* An event that was handed to the view manager and is not applied is in the
\* cache, or a later one is that makes the monitor ask for it.
NothingForgotten ==
  \A s \in Numbers : st[s + 1] \in {"notified", "done"} /\ s >= next =>
    \E e \in cache : e.seq >= s

\* Every event of the log reaches the views as long as no save fails and nothing
\* is deleted, also when saves overtake each other and the monitor replaces one
\* that is late (startMonitor, BaseViewManager 133-187).
EveryEventIndexed ==
  \A s \in 0 .. (MaxEvents - 1) :
    Len(log) > s ~>
      next > s \/ \E t \in Numbers : log[t + 1].kind = "delete" \/ st[t + 1] = "failed"

\* A document whose save completed reaches the views: finalizeDocument "must
\* start any view recalculation for the newly saved document" (DBState 56-61).
SavedDocumentIndexed ==
  \A s \in 0 .. (MaxEvents - 1) : At(s, "update", "done") ~> next > s

=============================================================================
