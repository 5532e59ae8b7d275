--------------------------- MODULE NamedLockProofs ---------------------------
(***************************************************************************)
(* Proofs about NamedLock, for every set of threads and names, with every  *)
(* fault of the model allowed: although locks do not exclude each other,   *)
(* the file of a name that is locked without a time limit has a thread     *)
(* that will remove it, and only a watchdog that waits for ever leaves one *)
(* to nobody.                                                              *)
(***************************************************************************)
EXTENDS NamedLock, SequenceTheorems, TLAPS

USE NamedLockAssumption DEF NoLock

-----------------------------------------------------------------------------
(* The inductive invariant *)

\* What a thread does before it assigns timeout: none of it touches a lock file.
Early ==
  {"check", "put", "get", "add", "ask", "enter", "acquire", "wait", "assign"} \cup Inside
Places == Early \cup {"idle", "exists", "create", "watch", "stuck", "use", "unlink", "delete"}

LockObject == [key : Keys, limit : BOOLEAN, assigned : BOOLEAN]

LockTypeOK ==
  /\ pc \in [Threads -> Places]
  /\ own \in [Threads -> Nat]
  /\ made \in Seq(LockObject)
  /\ released \subseteq 1 .. Len(made)

\* No two threads have the same lock, and one that is in a constructor has one.
OwnOK ==
  /\ \A t \in Threads : own[t] <= Len(made) /\ (pc[t] # "idle" => own[t] # NoLock)
  /\ \A t, u \in Threads : t # u /\ own[t] = own[u] => own[t] = NoLock

\* A lock is released by its own thread, and by nothing before its watchdog.
FreshOK ==
  \A t \in Threads : pc[t] \notin {"idle", "use", "unlink", "delete"} => own[t] \notin released

\* Locks by name alone have no files.
PlainOK ==
  ~FileLocks =>
    files = {} /\ \A t \in Threads : pc[t] \notin {"exists", "create", "unlink", "delete"}

\* Only a lock with a time limit has a watchdog.
LimitOK ==
  \A t \in Threads : pc[t] \in {"watch", "stuck"} => made[own[t]].limit

\* The thread should remove the lock file of its name: it will, or its watchdog
\* waits for ever.
Responsible(t) == Holds(t) \/ pc[t] \in {"watch", "unlink", "delete", "stuck"}

\* Every lock file has a thread that should remove it.
FilesOK ==
  \A k \in files : \E t \in Threads : Responsible(t) /\ Key(t) = k

LockInv == LockTypeOK /\ OwnOK /\ FreshOK /\ PlainOK /\ LimitOK /\ FilesOK

-----------------------------------------------------------------------------
(* The steps *)

\* A thread that has its lock knows its name.
LEMMA OwnIsMade ==
  ASSUME LockInv, NEW t \in Threads, pc[t] # "idle"
  PROVE  own[t] \in 1 .. Len(made) /\ made[own[t]] \in LockObject /\ Len(made) \in Nat
BY DEF LockInv, LockTypeOK, OwnOK

\* Up to the assignment of timeout a step touches queues and maps only.
LEMMA EarlySteps ==
  ASSUME LockInv, NEW t \in Threads,
         \/ CheckQueue(t) \/ PutQueue(t) \/ GetQueue(t) \/ AddLock(t)
         \/ AskProcessing(t) \/ ReadMonitor(t) \/ Acquire(t) \/ Claim(t) \/ BeginPass(t)
         \/ NextName(t) \/ Poll(t) \/ MakeCurrent(t) \/ CheckEmpty(t) \/ ScanFails(t)
         \/ EndPass(t) \/ RemoveName(t) \/ EndProcessing(t) \/ WaitForLock(t)
  PROVE  /\ pc[t] \in Early /\ UNCHANGED <<made, released, files, own>>
         /\ \E p \in Early \cup {"idle"} : pc' = [pc EXCEPT ![t] = p]
<1>1. CASE CheckQueue(t) \/ PutQueue(t) \/ AddLock(t) \/ AskProcessing(t) \/ ReadMonitor(t)
           \/ Acquire(t) \/ Claim(t) \/ BeginPass(t) \/ EndProcessing(t) \/ WaitForLock(t)
  BY <1>1 DEF CheckQueue, PutQueue, AddLock, AskProcessing, ReadMonitor, Acquire, Claim,
              BeginPass, EndProcessing, WaitForLock, Go, Early, Inside, data, maps
<1>2. CASE NextName(t) \/ Poll(t) \/ MakeCurrent(t) \/ CheckEmpty(t)
  BY <1>2 DEF NextName, Poll, MakeCurrent, CheckEmpty, Go, Early, Inside, maps
<1>3. CASE EndPass(t) \/ RemoveName(t)
  BY <1>3 DEF EndPass, RemoveName, Again, Go, Early, Inside, data, maps
<1>4. CASE GetQueue(t)
  <2>1. UNCHANGED <<made, released, files, own>>
    BY <1>4 DEF GetQueue
  <2>2. PICK step \in {<<"get", "add">>, <<"head", "poll">>, <<"size", "empty">>} :
          pc[t] = step[1] /\ (pc' = [pc EXCEPT ![t] = step[2]] \/ pc' = [pc EXCEPT ![t] = "idle"])
    BY <1>4 DEF GetQueue, Go, Fail
  <2> QED
    BY <2>1, <2>2 DEF Early, Inside
<1>5. CASE ScanFails(t)
  BY <1>5 DEF ScanFails, Fail, Early, Inside, data
<1> QED
  BY <1>1, <1>2, <1>3, <1>4, <1>5

\* Whoever is responsible for a file stays so while another thread moves.
LEMMA OthersStay ==
  ASSUME LockInv, NEW t \in Threads, own' = own,
         \A u \in Threads : u # t => pc'[u] = pc[u],
         released' = released \/ (released' = released \cup {own[t]} /\ pc[t] # "idle"),
         \A l \in 1 .. Len(made) : made'[l].key = made[l].key
  PROVE  \A u \in Threads :
           /\ pc[u] # "idle" => Key(u)' = Key(u)
           /\ u # t /\ pc[u] # "idle" /\ own[u] \notin released => own[u] \notin released'
           /\ u # t /\ Responsible(u) => Responsible(u)' /\ Key(u)' = Key(u)
<1> SUFFICES ASSUME NEW u \in Threads
             PROVE  /\ pc[u] # "idle" => Key(u)' = Key(u)
                    /\ u # t /\ pc[u] # "idle" /\ own[u] \notin released => own[u] \notin released'
                    /\ u # t /\ Responsible(u) => Responsible(u)' /\ Key(u)' = Key(u)
  OBVIOUS
<1>1. pc[u] # "idle" => Key(u)' = Key(u)
  BY OwnIsMade DEF Key
<1>2. u # t /\ pc[u] # "idle" /\ own[u] \notin released => own[u] \notin released'
  <2>1. u # t /\ pc[u] # "idle" => own[u] # own[t]
    BY DEF LockInv, OwnOK
  <2> QED
    BY <2>1
<1>3. u # t /\ Responsible(u) => Responsible(u)'
  BY <1>2 DEF Responsible, Holds
<1>4. Responsible(u) => pc[u] # "idle"
  BY DEF Responsible, Holds
<1> QED
  BY <1>1, <1>2, <1>3, <1>4

\* The parts of the invariant that are not about files.
LEMMA MoveKeepsOwners ==
  ASSUME LockInv, NEW t \in Threads, NEW p \in Places, pc[t] # "idle",
         own' = own, pc' = [pc EXCEPT ![t] = p],
         made' \in Seq(LockObject), Len(made') = Len(made),
         \/ released' = released /\ (pc[t] \in {"use", "unlink", "delete"} =>
                                       p \in {"idle", "use", "unlink", "delete"})
         \/ released' = released \cup {own[t]} /\ p \in {"idle", "use", "unlink", "delete"}
  PROVE  LockTypeOK' /\ OwnOK' /\ FreshOK'
<1>1. own[t] \in 1 .. Len(made)
  BY OwnIsMade
<1>2. LockTypeOK'
  BY <1>1 DEF LockInv, LockTypeOK
<1>3. OwnOK'
  BY DEF LockInv, LockTypeOK, OwnOK
<1>4. FreshOK'
  <2> SUFFICES ASSUME NEW u \in Threads, pc'[u] \notin {"idle", "use", "unlink", "delete"}
               PROVE  own[u] \notin released'
    BY DEF FreshOK
  <2>1. CASE u = t
    <3>1. pc'[u] = p
      BY <2>1 DEF LockInv, LockTypeOK
    <3> QED
      BY <2>1, <3>1 DEF LockInv, FreshOK
  <2>2. CASE u # t
    <3>1. pc'[u] = pc[u] /\ own[u] \notin released /\ own[u] # own[t]
      BY <2>2 DEF LockInv, LockTypeOK, FreshOK, OwnOK
    <3> QED
      BY <3>1
  <2> QED
    BY <2>1, <2>2
<1> QED
  BY <1>2, <1>3, <1>4

\* A step of a thread that does not come to its watchdog keeps what is known of
\* those that have.
LEMMA LimitStays ==
  ASSUME LockInv, NEW t \in Threads, own' = own,
         \A u \in Threads : u # t => pc'[u] = pc[u],
         \A l \in 1 .. Len(made) : made'[l].limit = made[l].limit,
         pc'[t] \in {"watch", "stuck"} => pc[t] # "idle" /\ made[own[t]].limit
  PROVE  LimitOK'
<1> SUFFICES ASSUME NEW u \in Threads, pc'[u] \in {"watch", "stuck"}
             PROVE  made'[own[u]].limit
  BY DEF LimitOK
<1>1. pc[u] # "idle" /\ made[own[u]].limit
  BY DEF LockInv, LimitOK
<1>2. own[u] \in 1 .. Len(made)
  BY <1>1, OwnIsMade
<1> QED
  BY <1>1, <1>2

-----------------------------------------------------------------------------
(* Each action preserves the invariant *)

\* A new lock is nobody else's and has not been released.
LEMMA AskKeepsInv ==
  ASSUME LockInv, NEW t \in Threads, Ask(t)
  PROVE  LockInv'
<1>0. PICK n : n = Len(made)
  OBVIOUS
<1>1. LockTypeOK /\ OwnOK /\ FreshOK /\ PlainOK /\ LimitOK /\ FilesOK /\ n \in Nat
  BY <1>0 DEF LockInv, LockTypeOK
<1>2. PICK k \in NamesOf[t], limit \in {FALSE, TimeLimits} :
        made' = Append(made, [key |-> k, limit |-> limit, assigned |-> FALSE])
  BY DEF Ask
<1>3. /\ made' \in Seq(LockObject) /\ Len(made') = n + 1
      /\ \A l \in 1 .. n : made'[l] = made[l]
  <2>1. [key |-> k, limit |-> limit, assigned |-> FALSE] \in LockObject
    BY DEF LockObject
  <2> QED
    BY <1>0, <1>1, <1>2, <2>1 DEF LockTypeOK
<1>4. /\ pc[t] = "idle" /\ pc' = [pc EXCEPT ![t] = "check"] /\ UNCHANGED <<released, files>>
      /\ own' = [own EXCEPT ![t] = n + 1]
  BY <1>3 DEF Ask, Go
<1>5. \A u \in Threads : u # t => pc'[u] = pc[u] /\ own'[u] = own[u]
  BY <1>1, <1>4 DEF LockTypeOK
<1>6. pc'[t] = "check" /\ own'[t] = n + 1
  BY <1>1, <1>4 DEF LockTypeOK
<1>7. LockTypeOK'
  <2>1. pc' \in [Threads -> Places] /\ own' \in [Threads -> Nat]
    BY <1>1, <1>4 DEF LockTypeOK, Places, Early
  <2>2. released' \subseteq 1 .. Len(made')
    BY <1>0, <1>1, <1>3, <1>4 DEF LockTypeOK
  <2> QED
    BY <1>3, <2>1, <2>2 DEF LockTypeOK
<1>8. OwnOK'
  <2>1. \A u \in Threads : own[u] \in Nat /\ own[u] <= n
    BY <1>0, <1>1 DEF LockTypeOK, OwnOK
  <2> QED
    BY <1>1, <1>3, <1>5, <1>6, <2>1 DEF OwnOK
<1>9. FreshOK'
  BY <1>0, <1>1, <1>4, <1>5, <1>6 DEF FreshOK, LockTypeOK
<1>10. PlainOK'
  BY <1>1, <1>4, <1>5, <1>6 DEF PlainOK
<1>11. FilesOK'
  <2> SUFFICES ASSUME NEW k1 \in files
               PROVE  \E u \in Threads : Responsible(u)' /\ Key(u)' = k1
    BY <1>4 DEF FilesOK
  <2>1. PICK u \in Threads : Responsible(u) /\ Key(u) = k1
    BY <1>1 DEF FilesOK
  <2>2. u # t /\ pc[u] # "idle"
    BY <1>4, <2>1 DEF Responsible, Holds
  <2>3. own[u] \in 1 .. n
    BY <1>0, <2>2, OwnIsMade
  <2>4. Responsible(u)' /\ Key(u)' = Key(u)
    BY <1>3, <1>4, <1>5, <2>1, <2>2, <2>3 DEF Responsible, Holds, Key
  <2> QED
    BY <2>1, <2>4
<1>12. LimitOK'
  <2> SUFFICES ASSUME NEW u \in Threads, pc'[u] \in {"watch", "stuck"}
               PROVE  made'[own'[u]].limit
    BY DEF LimitOK
  <2>1. u # t /\ pc[u] \in {"watch", "stuck"} /\ own'[u] = own[u]
    BY <1>5, <1>6
  <2>2. made[own[u]].limit
    BY <1>1, <2>1 DEF LimitOK
  <2>3. own[u] \in 1 .. n
    BY <1>0, <2>1, OwnIsMade
  <2> QED
    BY <1>3, <2>1, <2>2, <2>3
<1> QED
  BY <1>7, <1>8, <1>9, <1>10, <1>11, <1>12 DEF LockInv

\* A step that removes no file, and after which its thread is responsible for as
\* much as before, leaves no file without one.
LEMMA FilesStay ==
  ASSUME LockInv, NEW t \in Threads, own' = own, files' = files, pc[t] # "idle",
         \A u \in Threads : u # t => pc'[u] = pc[u],
         released' = released \/ released' = released \cup {own[t]},
         \A l \in 1 .. Len(made) : made'[l].key = made[l].key,
         Responsible(t) => Responsible(t)'
  PROVE  FilesOK'
<1> SUFFICES ASSUME NEW k \in files
             PROVE  \E u \in Threads : Responsible(u)' /\ Key(u)' = k
  BY DEF FilesOK
<1>1. PICK u \in Threads : Responsible(u) /\ Key(u) = k
  BY DEF LockInv, FilesOK
<1>2. pc[u] # "idle"
  BY <1>1 DEF Responsible, Holds
<1>3. Responsible(u)' /\ Key(u)' = Key(u)
  BY <1>1, <1>2, OthersStay
<1> QED
  BY <1>1, <1>3

\* A step up to the assignment of timeout.
LEMMA EarlyKeepsInv ==
  ASSUME LockInv, NEW t \in Threads, pc[t] \in Early,
         UNCHANGED <<made, released, files, own>>,
         NEW p \in Early \cup {"idle"}, pc' = [pc EXCEPT ![t] = p]
  PROVE  LockInv'
<1>1. LockTypeOK /\ PlainOK /\ p \in Places /\ pc'[t] = p /\ pc[t] # "idle"
  BY DEF LockInv, LockTypeOK, Places, Early, Inside
<1>2. \A u \in Threads : u # t => pc'[u] = pc[u]
  BY <1>1 DEF LockTypeOK
<1>3. pc[t] \notin {"use", "unlink", "delete", "watch", "stuck"}
  BY DEF Early, Inside
<1>4. LockTypeOK' /\ OwnOK' /\ FreshOK'
  BY <1>1, <1>3, MoveKeepsOwners DEF LockTypeOK
<1>5. PlainOK'
  <2>1. p \notin {"exists", "create", "unlink", "delete"}
    BY DEF Early, Inside
  <2> QED
    BY <1>1, <1>2, <2>1 DEF PlainOK
<1>6. FilesOK'
  <2>1. ~Responsible(t)
    BY <1>3 DEF Responsible, Holds
  <2> QED
    BY <1>1, <1>2, <2>1, FilesStay
<1>7. LimitOK'
  <2>1. p \notin {"watch", "stuck"}
    BY DEF Early, Inside
  <2> QED
    BY <1>1, <1>2, <2>1, LimitStays
<1> QED
  BY <1>4, <1>5, <1>6, <1>7 DEF LockInv

\* The assignment of timeout, and the wait for the lock file of another.
LEMMA ConstructorKeepsInv ==
  ASSUME LockInv, NEW t \in Threads, AssignTimeout(t) \/ AwaitLockFile(t)
  PROVE  LockInv'
<1>0. LockTypeOK /\ PlainOK /\ FreshOK
  BY DEF LockInv
<1>1. PICK p \in {"exists", "create", "watch", "use"} :
        /\ pc' = [pc EXCEPT ![t] = p]
        /\ ~FileLocks => p \notin {"exists", "create"}
        /\ p = "watch" => made[own[t]].limit
  BY <1>0 DEF AssignTimeout, AwaitLockFile, Go, PlainOK
<1>2. /\ pc[t] \in {"assign", "exists"} /\ UNCHANGED <<released, files, own>>
      /\ made' = made \/ made' = [made EXCEPT ![own[t]].assigned = TRUE]
  BY DEF AssignTimeout, AwaitLockFile, Go, data
<1>3. /\ made' \in Seq(LockObject) /\ Len(made') = Len(made)
      /\ \A l \in 1 .. Len(made) : made'[l].key = made[l].key /\ made'[l].limit = made[l].limit
  <2>1. CASE made' = made
    BY <1>0, <2>1 DEF LockTypeOK
  <2>2. CASE made' = [made EXCEPT ![own[t]].assigned = TRUE]
    <3>1. own[t] \in 1 .. Len(made) /\ made[own[t]] \in LockObject
      BY <1>2, OwnIsMade
    <3> DEFINE new == [made[own[t]] EXCEPT !.assigned = TRUE]
    <3>2. new \in LockObject /\ new.key = made[own[t]].key /\ new.limit = made[own[t]].limit
      BY <3>1 DEF LockObject
    <3>3. made' = [made EXCEPT ![own[t]] = new] /\ made \in Seq(LockObject)
      BY <1>0, <2>2 DEF LockTypeOK
    <3> HIDE DEF new
    <3>4. made' \in Seq(LockObject) /\ Len(made') = Len(made)
      BY <3>1, <3>2, <3>3, ExceptSeq
    <3> QED
      BY <3>1, <3>2, <3>3, <3>4, ExceptSeq
  <2> QED
    BY <1>2, <2>1, <2>2
<1>4. \A u \in Threads : u # t => pc'[u] = pc[u]
  BY <1>0, <1>1 DEF LockTypeOK
<1>5. LockTypeOK' /\ OwnOK' /\ FreshOK'
  <2>1. p \in Places
    BY DEF Places
  <2> QED
    BY <1>1, <1>2, <1>3, <2>1, MoveKeepsOwners
<1>6. PlainOK'
  <2>1. pc'[t] = p
    BY <1>0, <1>1 DEF LockTypeOK
  <2> QED
    BY <1>0, <1>1, <1>2, <1>4, <2>1 DEF PlainOK
<1>7. FilesOK'
  <2>1. ~Responsible(t) /\ pc[t] # "idle"
    BY <1>2 DEF Responsible, Holds
  <2> QED
    BY <1>2, <1>3, <1>4, <2>1, FilesStay
<1>8. LimitOK'
  <2>1. pc'[t] = p
    BY <1>0, <1>1 DEF LockTypeOK
  <2> QED
    BY <1>1, <1>2, <1>3, <1>4, <2>1, LimitStays
<1> QED
  BY <1>5, <1>6, <1>7, <1>8 DEF LockInv

\* Whoever creates a lock file is responsible for it.
LEMMA CreateKeepsInv ==
  ASSUME LockInv, NEW t \in Threads, CreateLockFile(t)
  PROVE  LockInv'
<1>0. LockTypeOK /\ PlainOK /\ FreshOK
  BY DEF LockInv
<1>1. PICK p \in {"watch", "use"} :
        pc' = [pc EXCEPT ![t] = p] /\ (p = "watch" => made[own[t]].limit)
  BY DEF CreateLockFile, Go
<1>2. /\ pc[t] = "create" /\ files' = files \cup {Key(t)} /\ UNCHANGED <<made, released, own>>
  BY DEF CreateLockFile, Go, maps
<1>3. \A u \in Threads : u # t => pc'[u] = pc[u]
  BY <1>0, <1>1 DEF LockTypeOK
<1>4. pc'[t] = p /\ own[t] \notin released
  BY <1>0, <1>1, <1>2 DEF LockTypeOK, FreshOK
<1>5. LockTypeOK' /\ OwnOK' /\ FreshOK'
  <2>1. p \in Places /\ made' \in Seq(LockObject) /\ Len(made') = Len(made)
    BY <1>0, <1>2 DEF Places, LockTypeOK
  <2> QED
    BY <1>1, <1>2, <2>1, MoveKeepsOwners
<1>6. PlainOK'
  BY <1>0, <1>2 DEF PlainOK
<1>7. FilesOK'
  <2> SUFFICES ASSUME NEW k \in files'
               PROVE  \E u \in Threads : Responsible(u)' /\ Key(u)' = k
    BY DEF FilesOK
  <2>1. CASE k = Key(t)
    <3>1. Responsible(t)' /\ Key(t)' = k
      BY <1>2, <1>4, <2>1 DEF Responsible, Holds, Key
    <3> QED
      BY <3>1
  <2>2. CASE k # Key(t)
    <3>1. PICK u \in Threads : Responsible(u) /\ Key(u) = k
      BY <1>2, <2>2 DEF LockInv, FilesOK
    <3>2. u # t
      BY <2>2, <3>1
    <3>3. Responsible(u)' /\ Key(u)' = Key(u)
      BY <1>2, <1>3, <3>1, <3>2, OthersStay
    <3> QED
      BY <3>1, <3>3
  <2> QED
    BY <2>1, <2>2
<1>8. LimitOK'
  BY <1>1, <1>2, <1>3, <1>4, LimitStays
<1> QED
  BY <1>5, <1>6, <1>7, <1>8 DEF LockInv

\* A thread that gives its lock up goes on to remove the file.
LEMMA VacateKeepsInv ==
  ASSUME LockInv, NEW t \in Threads, Watchdog(t) \/ Release(t)
  PROVE  LockInv'
<1>0. LockTypeOK /\ PlainOK /\ FreshOK
  BY DEF LockInv
<1>1. /\ pc[t] \in {"watch", "use"} /\ UNCHANGED <<made, files, own>>
      /\ \A u \in Threads : u # t => pc'[u] = pc[u]
  BY <1>0 DEF Watchdog, Release, Go, LockTypeOK
<1>2. \E p \in {"unlink", "use", "stuck", "idle", "delete"} :
        /\ pc' = [pc EXCEPT ![t] = p]
        /\ \/ released' = released /\ p = "stuck" /\ pc[t] = "watch"
           \/ released' = released /\ p = "idle" /\ pc[t] = "use" /\ own[t] \in released
           \/ released' = released \cup {own[t]} /\ p \in {"unlink", "delete"} /\ FileLocks
           \/ released' = released \cup {own[t]} /\ p \in {"use", "idle"} /\ ~FileLocks
  <2>1. CASE Watchdog(t)
    BY <2>1 DEF Watchdog, Go, Vacate
  <2>2. CASE Release(t)
    BY <2>2 DEF Release, Go, Vacate
  <2> QED
    BY <2>1, <2>2
<1>3. PICK p \in {"unlink", "use", "stuck", "idle", "delete"} :
        /\ pc' = [pc EXCEPT ![t] = p]
        /\ \/ released' = released /\ p = "stuck" /\ pc[t] = "watch"
           \/ released' = released /\ p = "idle" /\ pc[t] = "use" /\ own[t] \in released
           \/ released' = released \cup {own[t]} /\ p \in {"unlink", "delete"} /\ FileLocks
           \/ released' = released \cup {own[t]} /\ p \in {"use", "idle"} /\ ~FileLocks
  BY <1>2
<1>4. pc'[t] = p
  BY <1>0, <1>3 DEF LockTypeOK
<1>5. LockTypeOK' /\ OwnOK' /\ FreshOK'
  <2>1. p \in Places /\ made' \in Seq(LockObject) /\ Len(made') = Len(made)
    BY <1>0, <1>1 DEF Places, LockTypeOK
  <2>2. \/ released' = released /\ (pc[t] \in {"use", "unlink", "delete"} =>
                                      p \in {"idle", "use", "unlink", "delete"})
        \/ released' = released \cup {own[t]} /\ p \in {"idle", "use", "unlink", "delete"}
    BY <1>3
  <2> QED
    BY <1>1, <1>3, <2>1, <2>2, MoveKeepsOwners
<1>6. PlainOK'
  BY <1>0, <1>1, <1>3, <1>4 DEF PlainOK
<1>7. FilesOK'
  <2>1. CASE FileLocks
    <3>1. Responsible(t) => Responsible(t)'
      BY <1>1, <1>3, <1>4, <2>1 DEF Responsible, Holds
    <3> QED
      BY <1>1, <1>3, <3>1, FilesStay
  <2>2. CASE ~FileLocks
    BY <1>0, <1>1, <2>2 DEF PlainOK, FilesOK
  <2> QED
    BY <2>1, <2>2
<1>8. LimitOK'
  <2>1. p = "stuck" => made[own[t]].limit
    BY <1>3 DEF LockInv, LimitOK
  <2> QED
    BY <1>1, <1>3, <1>4, <2>1, LimitStays
<1> QED
  BY <1>5, <1>6, <1>7, <1>8 DEF LockInv

\* The file of a name goes, those of other names have their own threads.
LEMMA DeleteKeepsInv ==
  ASSUME LockInv, NEW t \in Threads, DeleteLockFile(t)
  PROVE  LockInv'
<1>0. LockTypeOK /\ PlainOK /\ FreshOK
  BY DEF LockInv
<1>1. PICK p \in {"idle", "use"} : pc' = [pc EXCEPT ![t] = p]
  BY DEF DeleteLockFile, Go
<1>2. /\ pc[t] \in {"delete", "unlink"} /\ files' = files \ {Key(t)}
      /\ UNCHANGED <<made, released, own>>
  BY DEF DeleteLockFile, Go, maps
<1>3. \A u \in Threads : u # t => pc'[u] = pc[u]
  BY <1>0, <1>1 DEF LockTypeOK
<1>4. LockTypeOK' /\ OwnOK' /\ FreshOK'
  <2>1. p \in Places /\ made' \in Seq(LockObject) /\ Len(made') = Len(made)
    BY <1>0, <1>2 DEF Places, LockTypeOK
  <2> QED
    BY <1>1, <1>2, <2>1, MoveKeepsOwners
<1>5. PlainOK'
  BY <1>0, <1>2 DEF PlainOK
<1>6. FilesOK'
  <2> SUFFICES ASSUME NEW k \in files, k # Key(t)
               PROVE  \E u \in Threads : Responsible(u)' /\ Key(u)' = k
    BY <1>2 DEF FilesOK
  <2>1. PICK u \in Threads : Responsible(u) /\ Key(u) = k
    BY DEF LockInv, FilesOK
  <2>2. u # t
    BY <2>1
  <2>3. Responsible(u)' /\ Key(u)' = Key(u)
    BY <1>2, <1>3, <2>1, <2>2, OthersStay
  <2> QED
    BY <2>1, <2>3
<1>7. LimitOK'
  <2>1. pc'[t] = p
    BY <1>0, <1>1 DEF LockTypeOK
  <2> QED
    BY <1>2, <1>3, <2>1, LimitStays
<1> QED
  BY <1>4, <1>5, <1>6, <1>7 DEF LockInv

-----------------------------------------------------------------------------
(* The results *)

\* Locks keep their owners, and every lock file has a thread that removes it or
\* waits for ever in its watchdog, which only a lock with a time limit has.
THEOREM LockInvariant == LockSpec => []LockInv
<1>1. LockInit => LockInv
  BY DEF LockInit, LockInv, LockTypeOK, OwnOK, FreshOK, PlainOK, LimitOK, FilesOK, Places, LockObject
<1>2. LockInv /\ [LockNext]_lockVars => LockInv'
  <2> SUFFICES ASSUME LockInv, [LockNext]_lockVars PROVE LockInv'
    OBVIOUS
  <2>1. ASSUME NEW t \in Threads, Ask(t) PROVE LockInv'
    BY <2>1, AskKeepsInv
  <2>2. ASSUME NEW t \in Threads, Step(t) PROVE LockInv'
    <3>1. CASE \/ CheckQueue(t) \/ PutQueue(t) \/ GetQueue(t) \/ AddLock(t)
               \/ AskProcessing(t) \/ ReadMonitor(t) \/ Acquire(t) \/ Claim(t) \/ BeginPass(t)
               \/ NextName(t) \/ Poll(t) \/ MakeCurrent(t) \/ CheckEmpty(t) \/ ScanFails(t)
               \/ EndPass(t) \/ RemoveName(t) \/ EndProcessing(t) \/ WaitForLock(t)
      BY <3>1, EarlySteps, EarlyKeepsInv
    <3>2. CASE AssignTimeout(t) \/ AwaitLockFile(t)
      BY <3>2, ConstructorKeepsInv
    <3>3. CASE CreateLockFile(t)
      BY <3>3, CreateKeepsInv
    <3>4. CASE Watchdog(t) \/ Release(t)
      BY <3>4, VacateKeepsInv
    <3>5. CASE DeleteLockFile(t)
      BY <3>5, DeleteKeepsInv
    <3> QED
      BY <2>2, <3>1, <3>2, <3>3, <3>4, <3>5 DEF Step
  <2>3. CASE UNCHANGED lockVars
    <3>1. UNCHANGED <<made, released, files, own, pc>>
      BY <2>3 DEF lockVars, data
    <3> QED
      BY <3>1 DEF LockInv, LockTypeOK, OwnOK, FreshOK, PlainOK, LimitOK, FilesOK, Responsible, Holds, Key
  <2> QED
    BY <2>1, <2>2, <2>3 DEF LockNext
<1> QED
  BY <1>1, <1>2, PTL DEF LockSpec

\* The file of a name that is locked without a time limit has a thread that will
\* remove it, although two locks of one name can be held at once (Lock 37: it is
\* "removed upon release").
THEOREM RemovedUponReleaseHolds == LockSpec => []RemovedUponRelease
<1>1. ASSUME LockInv, NEW k \in files, \A l \in DOMAIN made : made[l].key = k => ~made[l].limit
      PROVE  \E t \in Threads : Removes(t) /\ Key(t) = k
  <2>1. PICK t \in Threads : Responsible(t) /\ Key(t) = k
    BY <1>1 DEF LockInv, FilesOK
  <2>2. own[t] \in DOMAIN made
    BY <1>1, <2>1, OwnIsMade DEF LockInv, LockTypeOK, Responsible, Holds
  <2>3. ~made[own[t]].limit
    BY <1>1, <2>1, <2>2 DEF Key
  <2>4. pc[t] # "stuck"
    BY <1>1, <2>3 DEF LockInv, LimitOK
  <2> QED
    BY <2>1, <2>4 DEF Responsible, Removes
<1>2. LockInv => RemovedUponRelease
  BY <1>1 DEF RemovedUponRelease
<1> QED
  BY <1>2, LockInvariant, PTL

=============================================================================
