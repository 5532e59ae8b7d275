------------------------------ MODULE NamedLock ------------------------------
(***************************************************************************)
(* memedb.utils.Lock: locks by name, which UpdateDocument takes around the *)
(* update of a document, as a file lock (FileSystemBackend) or by name     *)
(* alone (InMemoryBackend).                                                *)
(*                                                                         *)
(* The whole protocol runs in the constructor of a lock.  The lock is put  *)
(* into the queue of its name; the thread then processes the queues of all *)
(* names until they are empty, unless another thread does; it waits for    *)
(* its turn; and only then the field timeout is assigned, the lock file    *)
(* made and the watchdog run.  The maps are plain HashMaps: a step is one  *)
(* call on a map or a queue, in the order in which the threads make them;  *)
(* only the calls in the condition of waitForLock, which ends its loop     *)
(* whatever they return, are one step together.  Thread.run and not start  *)
(* is called, so that the processing and the watchdog belong to the thread *)
(* that takes the lock.                                                    *)
(*                                                                         *)
(* A definition named Slip... is a wrong variant of the one that follows   *)
(* it: replaced by it, the specification violates a property.              *)
(***************************************************************************)
EXTENDS Integers, Sequences, Functions, TLC

CONSTANTS
  Threads,
  Keys,       \* names
  NamesOf,    \* the names a thread asks for
  FileLocks,  \* are they file locks?
  TimeLimits, \* may a lock have a time limit?
  LongHeld,   \* may a lock file be there for more than five seconds?
  Throws,     \* may an iterator notice that its map was changed?
  MaxLocks    \* bound: number of locks that are made

ASSUME NamedLockAssumption ==
  /\ NamesOf \in [Threads -> SUBSET Keys]
  /\ {FileLocks, TimeLimits, LongHeld, Throws} \subseteq BOOLEAN
  /\ MaxLocks \in Nat

VARIABLES
  locks,       \* the queue of each name that has one, by its number
  queues,      \* every queue that was made, a sequence of locks
  currentLock, \* the lock that is current, for the names that have one
  processing,
  made,        \* every lock: its name, has it a time limit, is timeout assigned?
  released,    \* locks whose field released is set
  files,       \* names whose lock file exists
  pc,          \* what a thread does next
  own,         \* the lock it has asked for
  queue,       \* the queue it has looked up
  scan         \* its pass over the names while it processes the queues

maps == <<locks, queues, currentLock, processing>>
data == <<maps, made, released, files, own, queue, scan>>
lockVars == <<data, pc>>

NoLock == 0
Key(t) == made[own[t]].key

\* The steps inside synchronized(processing).
Inside ==
  {"claim", "pass", "scan", "head", "poll", "current", "size", "empty", "remove", "end"}

\* In a pass, monitor is the Boolean object the thread synchronizes on; stale means
\* that another thread has changed the map since the iterator was made; name has
\* the name the pass is at, and lock what was polled of its queue.
NoPass ==
  [monitor |-> FALSE, todo |-> {}, name |-> {}, lock |-> NoLock, empty |-> {}, found |-> FALSE,
   stale |-> FALSE]

LockInit ==
  /\ locks = <<>> /\ queues = <<>> /\ currentLock = <<>> /\ processing = FALSE
  /\ made = <<>> /\ released = {} /\ files = {}
  /\ pc = [t \in Threads |-> "idle"]
  /\ own = [t \in Threads |-> NoLock]
  /\ queue = [t \in Threads |-> NoLock]
  /\ scan = [t \in Threads |-> NoPass]

\* currentLock.remove: the current lock of the name, whichever it is.
Vacate(t) ==
  /\ released' = released \cup {own[t]}
  /\ currentLock' = Restrict(currentLock, DOMAIN currentLock \ {Key(t)})

Go(t, from, to) == pc[t] = from /\ pc' = [pc EXCEPT ![t] = to]

\* An exception leaves the constructor and every block; the caller has no lock.
Fail(t) == pc' = [pc EXCEPT ![t] = "idle"]

\* The passes when a thread changes the keys of the map: the iterators of others
\* have become stale.
NamesChanged(t) ==
  [u \in Threads |->
    IF u # t /\ pc[u] \in Inside THEN [scan[u] EXCEPT !.stale = TRUE] ELSE scan[u]]

-----------------------------------------------------------------------------
(* addLock *)

Ask(t) ==
  /\ Go(t, "idle", "check") /\ Len(made) < MaxLocks
  /\ \E k \in NamesOf[t], limit \in {FALSE, TimeLimits} :
       made' = Append(made, [key |-> k, limit |-> limit, assigned |-> FALSE])
  /\ own' = [own EXCEPT ![t] = Len(made')]
  /\ UNCHANGED <<maps, released, files, queue, scan>>

CheckQueue(t) ==
  Go(t, "check", IF Key(t) \in DOMAIN locks THEN "get" ELSE "put") /\ UNCHANGED data

\* The name may have got a queue since it was checked: that one is replaced.
PutQueue(t) ==
  /\ Go(t, "put", "get")
  /\ queues' = Append(queues, <<>>)
  /\ locks' = (Key(t) :> Len(queues')) @@ locks
  /\ scan' = IF Key(t) \in DOMAIN locks THEN scan ELSE NamesChanged(t)
  /\ UNCHANGED <<currentLock, processing, made, released, files, own, queue>>

\* locks.get, here and twice for each name of a pass. The queue may have been
\* removed, and the null throws.
GetQueue(t) ==
  /\ \E step \in {<<"get", "add">>, <<"head", "poll">>, <<"size", "empty">>} :
       /\ pc[t] = step[1]
       /\ \E k \in IF pc[t] = "get" THEN {Key(t)} ELSE scan[t].name :
            \/ k \in DOMAIN locks /\ Go(t, step[1], step[2])
               /\ queue' = [queue EXCEPT ![t] = locks[k]]
            \/ k \notin DOMAIN locks /\ Fail(t) /\ UNCHANGED queue
  /\ UNCHANGED <<maps, made, released, files, own, scan>>

\* By now the queue may be one that no name has any more.
AddLock(t) ==
  /\ Go(t, "add", "ask")
  /\ queues' = [queues EXCEPT ![queue[t]] = Append(@, own[t])]
  /\ queue' = [queue EXCEPT ![t] = NoLock]
  /\ UNCHANGED <<locks, currentLock, processing, made, released, files, own, scan>>

-----------------------------------------------------------------------------
(* processQueue *)

AskProcessing(t) ==
  Go(t, "ask", IF processing THEN "wait" ELSE "enter") /\ UNCHANGED data

\* synchronized(processing) reads the variable again: the monitor is that of
\* Boolean.FALSE, or that of Boolean.TRUE when a thread has begun meanwhile.
ReadMonitor(t) ==
  /\ Go(t, "enter", "acquire")
  /\ scan' = [scan EXCEPT ![t].monitor = processing]
  /\ UNCHANGED <<maps, made, released, files, own, queue>>

Acquire(t) ==
  /\ \A u \in Threads : pc[u] \in Inside => scan[u].monitor # scan[t].monitor
  /\ Go(t, "acquire", IF processing THEN "wait" ELSE "claim")
  /\ UNCHANGED data

Claim(t) ==
  /\ Go(t, "claim", "pass")
  /\ processing' = TRUE
  /\ UNCHANGED <<locks, queues, currentLock, made, released, files, own, queue, scan>>

\* The loop over the names begins (again).
BeginPass(t) ==
  /\ Go(t, "pass", "scan")
  /\ scan' = [scan EXCEPT ![t] = [NoPass EXCEPT !.monitor = scan[t].monitor, !.todo = DOMAIN locks]]
  /\ UNCHANGED <<maps, made, released, files, own, queue>>

\* The next name of the loop: its queue is polled when no lock is current.
NextName(t) ==
  /\ pc[t] = "scan"
  /\ \E k \in scan[t].todo :
       /\ Go(t, "scan", IF k \in DOMAIN currentLock THEN "size" ELSE "head")
       /\ scan' = [scan EXCEPT ![t].todo = @ \ {k}, ![t].name = {k}]
  /\ UNCHANGED <<maps, made, released, files, own, queue>>

\* An empty queue gives null, which does not become current.
Poll(t) ==
  /\ pc[t] = "poll"
  /\ LET waiting == queues[queue[t]]
     IN \/ /\ waiting = <<>> /\ Go(t, "poll", "size")
           /\ UNCHANGED <<queues, scan>>
        \/ /\ waiting # <<>> /\ Go(t, "poll", "current")
           /\ queues' = [queues EXCEPT ![queue[t]] = Tail(@)]
           /\ scan' = [scan EXCEPT ![t].lock = Head(waiting)]
  /\ queue' = [queue EXCEPT ![t] = NoLock]
  /\ UNCHANGED <<locks, currentLock, processing, made, released, files, own>>

\* timeout is 0 until the constructor has assigned it, and -1 for a lock
\* without a time limit.  A time limit may be over.
InTime(l) ==
  IF ~made[l].assigned THEN {FALSE} ELSE IF made[l].limit THEN BOOLEAN ELSE {TRUE}

\* What was polled becomes current unless its time is over.
MakeCurrent(t) ==
  /\ Go(t, "current", "size")
  /\ \E k \in scan[t].name, current \in InTime(scan[t].lock) :
       currentLock' = IF current THEN (k :> scan[t].lock) @@ currentLock ELSE currentLock
  /\ scan' = [scan EXCEPT ![t].lock = NoLock]
  /\ UNCHANGED <<locks, queues, processing, made, released, files, own, queue>>

\* A name whose queue is empty is noted for removal.
CheckEmpty(t) ==
  /\ Go(t, "empty", "scan")
  /\ scan' = [scan EXCEPT ![t] =
       IF queues[queue[t]] = <<>> THEN [@ EXCEPT !.empty = @ \cup scan[t].name, !.name = {}]
       ELSE [@ EXCEPT !.found = TRUE, !.name = {}]]
  /\ queue' = [queue EXCEPT ![t] = NoLock]
  /\ UNCHANGED <<maps, made, released, files, own>>

\* Another thread has added or removed a name, and the iterator throws.
\* processing stays TRUE.
ScanFails(t) ==
  /\ pc[t] = "scan" /\ scan[t].todo # {}
  /\ Throws /\ scan[t].stale
  /\ Fail(t)
  /\ UNCHANGED data

\* The loop begins again while a queue was not empty.
Again(t) == IF scan[t].found THEN "pass" ELSE "end"

\* The iterator has no more names.
EndPass(t) ==
  /\ scan[t].todo = {}
  /\ Go(t, "scan", IF scan[t].empty = {} THEN Again(t) ELSE "remove")
  /\ UNCHANGED data

RemoveName(t) ==
  /\ \E k \in scan[t].empty :
       /\ Go(t, "remove", IF scan[t].empty = {k} THEN Again(t) ELSE "remove")
       /\ locks' = Restrict(locks, DOMAIN locks \ {k})
       /\ scan' = [(IF k \in DOMAIN locks THEN NamesChanged(t) ELSE scan)
                     EXCEPT ![t].empty = @ \ {k}]
  /\ UNCHANGED <<queues, currentLock, processing, made, released, files, own, queue>>

EndProcessing(t) ==
  /\ Go(t, "end", "wait")
  /\ processing' = FALSE
  /\ UNCHANGED <<locks, queues, currentLock, made, released, files, own, queue, scan>>

-----------------------------------------------------------------------------
(* waitForLock, and the rest of the constructor *)

\* The wait ends when no other lock is current, or when the time is over.
WaitForLock(t) ==
  /\ Go(t, "wait", "assign")
  /\ Key(t) \in DOMAIN currentLock /\ currentLock[Key(t)] # own[t] => FALSE \in InTime(own[t])
  /\ UNCHANGED data

AssignTimeout(t) ==
  /\ Go(t, "assign", IF FileLocks THEN "exists" ELSE IF made[own[t]].limit THEN "watch" ELSE "use")
  /\ made' = [made EXCEPT ![own[t]].assigned = TRUE]
  /\ UNCHANGED <<maps, released, files, own, queue, scan>>

\* createLockFile waits five seconds for the lock file of another to go.
AwaitLockFile(t) ==
  Go(t, "exists", "create") /\ (Key(t) \notin files \/ LongHeld) /\ UNCHANGED data

\* createNewFile leaves a file alone that is there, and nobody looks at what it
\* returns.
CreateLockFile(t) ==
  /\ Go(t, "create", IF made[own[t]].limit THEN "watch" ELSE "use")
  /\ files' = files \cup {Key(t)}
  /\ UNCHANGED <<maps, made, released, own, queue, scan>>

\* The loop of the watchdog goes on while the time is over, and is not entered
\* before that.
Watchdog(t) ==
  /\ pc[t] = "watch"
  /\ \/ Go(t, "watch", IF FileLocks THEN "unlink" ELSE "use") /\ Vacate(t)
     \/ Go(t, "watch", "stuck") /\ UNCHANGED <<released, currentLock>>
  /\ UNCHANGED <<locks, queues, processing, made, files, own, queue, scan>>

-----------------------------------------------------------------------------
(* release *)

\* Slip: the file is left to the lock that is current, if that is another one.
SlipRelease(t) ==
  /\ pc[t] = "use"
  /\ \/ own[t] \in released /\ Go(t, "use", "idle") /\ UNCHANGED <<released, currentLock>>
     \/ /\ own[t] \notin released /\ Vacate(t)
        /\ Go(t, "use", IF FileLocks /\ Key(t) \in DOMAIN currentLock /\ currentLock[Key(t)] = own[t]
                        THEN "delete" ELSE "idle")
  /\ UNCHANGED <<locks, queues, processing, made, files, own, queue, scan>>

Release(t) ==
  /\ pc[t] = "use"
  /\ \/ own[t] \in released /\ Go(t, "use", "idle") /\ UNCHANGED <<released, currentLock>>
     \/ own[t] \notin released /\ Go(t, "use", IF FileLocks THEN "delete" ELSE "idle") /\ Vacate(t)
  /\ UNCHANGED <<locks, queues, processing, made, files, own, queue, scan>>

DeleteLockFile(t) ==
  /\ Go(t, "delete", "idle") \/ Go(t, "unlink", "use")
  /\ files' = files \ {Key(t)}
  /\ UNCHANGED <<maps, made, released, own, queue, scan>>

Step(t) ==
  \/ CheckQueue(t) \/ PutQueue(t) \/ GetQueue(t) \/ AddLock(t)
  \/ AskProcessing(t) \/ ReadMonitor(t) \/ Acquire(t) \/ Claim(t) \/ BeginPass(t)
  \/ NextName(t) \/ Poll(t) \/ MakeCurrent(t) \/ CheckEmpty(t) \/ ScanFails(t)
  \/ EndPass(t) \/ RemoveName(t) \/ EndProcessing(t)
  \/ WaitForLock(t) \/ AssignTimeout(t) \/ AwaitLockFile(t) \/ CreateLockFile(t) \/ Watchdog(t)
  \/ Release(t) \/ DeleteLockFile(t)

LockNext == \E t \in Threads : Ask(t) \/ Step(t)

LockSpec == LockInit /\ [][LockNext]_lockVars

-----------------------------------------------------------------------------
(* Properties *)

Holds(t) == pc[t] = "use" /\ own[t] \notin released

\* The thread goes on to remove the lock file of its name, or has its watchdog to do it.
Removes(t) == Holds(t) \/ pc[t] \in {"watch", "unlink", "delete"}

\* Every lock file has a thread that will remove it: a lock with a time limit "will
\* expire and release itself" (Lock 34), and its file "is removed upon release"
\* (Lock 37).  A thread whose watchdog waits while the time is over (111) does not.
NoFileLeft ==
  \A k \in files : \E t \in Threads : Removes(t) /\ Key(t) = k

\* The file of a name that is locked without a time limit, as the two backends lock
\* theirs, has a thread that will remove it: they are "removed upon release" (Lock
\* 37), whoever else has made or removed one of that name meanwhile, so that none
\* is left for later threads to wait five seconds for.
RemovedUponRelease ==
  \A k \in files :
    (\A l \in DOMAIN made : made[l].key = k => ~made[l].limit) =>
      \E t \in Threads : Removes(t) /\ Key(t) = k
=============================================================================
