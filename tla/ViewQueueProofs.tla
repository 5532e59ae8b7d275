--------------------------- MODULE ViewQueueProofs ---------------------------
(***************************************************************************)
(* Proofs about ViewQueue, for every set of documents and every bound,     *)
(* with every fault allowed.                                               *)
(***************************************************************************)
EXTENDS ViewQueue, WellFoundedInduction, TLAPS

USE ViewQueueAssumption

-----------------------------------------------------------------------------
(* The inductive invariant *)

\* Cached events are in the log, and a nullEvent that may still be reached is
\* followed by the event that made the monitor ask.
CacheOK ==
  \A e \in cache :
    /\ e.seq < Len(log)
    /\ e.null => e.seq < next \/ Cached(e.seq + 1)

\* What the monitor thread holds in its hands is still in the cache, and an
\* event about to be removed has been applied or is a nullEvent.
WalkOK ==
  /\ mon.pc \in {"apply", "remove", "repost"} => Cached(mon.ev)
  /\ mon.ahead # None => Cached(mon.ahead) /\ mon.ahead > mon.ev
  /\ mon.pc = "apply" => mon.ev <= next
  /\ mon.pc = "remove" =>
       \/ mon.ev < next
       \/ mon.ev = next /\ \E e \in cache : e.seq = mon.ev /\ e.null
  /\ mon.pc = "repost" /\ mon.ev = 0 => next > 0

IInv == TypeOK /\ ViewsFollowLog /\ NothingForgotten /\ CacheOK /\ WalkOK

-----------------------------------------------------------------------------
(* The cache *)

\* The iterator looks up a cached event behind the one it is at.
LEMMA FollowingCached ==
  ASSUME cache \subseteq Event, NEW s \in Int
  PROVE  /\ Following(s) \in Nat \cup {None}
         /\ Following(s) # None => Cached(Following(s)) /\ Following(s) > s
<1>1. CASE ~\E e \in cache : e.seq > s
  BY <1>1 DEF Following, None
<1>2. CASE \E e \in cache : e.seq > s
  <2> DEFINE T == {n \in Nat : n > s /\ \E e \in cache : e.seq = n}
             Less == OpToRel(<, Nat)
             First(e) == e.seq > s /\ \A f \in cache : f.seq > s => e.seq <= f.seq
  <2>1. PICK e \in cache : e.seq > s
    BY <1>2
  <2>2. e.seq \in T
    BY <2>1 DEF Event
  <2>3. PICK n \in T : \A m \in T : ~(<<m, n>> \in Less)
    <3>1. T \subseteq Nat
      OBVIOUS
    <3> HIDE DEF T
    <3> QED BY <2>2, <3>1, NatLessThanWellFounded, WFMin
  <2>4. \A m \in T : ~(m < n)
    BY <2>3 DEF OpToRel
  <2>5. PICK g \in cache : g.seq = n
    BY <2>3
  <2>6. First(g)
    <3> SUFFICES ASSUME NEW f \in cache, f.seq > s PROVE g.seq <= f.seq
      BY <2>3, <2>5
    <3>1. f.seq \in T /\ n \in Nat /\ f.seq \in Nat
      BY <2>3 DEF Event
    <3> QED BY <2>4, <2>5, <3>1
  <2> DEFINE h == CHOOSE x \in cache : First(x)
  <2>7. h \in cache /\ First(h)
    <3> HIDE DEF First
    <3> QED BY <2>6
  <2>8. Following(s) = h.seq
    BY <1>2 DEF Following
  <2> HIDE DEF h
  <2> QED
    BY <2>7, <2>8 DEF Cached, Event
<1> QED
  BY <1>1, <1>2

\* postEvent adds at most the event it is given.
LEMMA WithEventAdds ==
  ASSUME TypeOK, NEW s \in Nat, NEW null \in BOOLEAN, NEW c, c = WithEvent(s, null)
  PROVE  /\ c \subseteq Event /\ cache \subseteq c
         /\ \A e, f \in c : e.seq = f.seq => e = f
         /\ \A f \in c : f \in cache \/ (f.seq = s /\ (f.null => null))
         /\ \E e \in c : e.seq = s
<1>1. PICK x : x = [seq |-> s, null |-> null, old |-> FALSE]
  OBVIOUS
<1>2. x \in Event /\ x.seq = s /\ x.null = null
  BY <1>1 DEF Event
<1>3. cache \subseteq Event /\ \A e, f \in cache : e.seq = f.seq => e = f
  BY DEF TypeOK
<1>4. CASE Cached(s)
  <2>1. c = cache
    BY <1>4 DEF WithEvent
  <2> QED
    BY <1>3, <1>4, <2>1 DEF Cached
<1>5. CASE ~Cached(s)
  <2>1. c = cache \cup {x}
    BY <1>1, <1>5 DEF WithEvent
  <2>2. \A e \in cache : e.seq # x.seq
    BY <1>2, <1>5 DEF Cached
  <2>3. \A e, f \in c : e.seq = f.seq => e = f
    BY <1>3, <2>1, <2>2
  <2> QED
    BY <1>1, <1>2, <1>3, <2>1, <2>3
<1> QED
  BY <1>4, <1>5

\* The same for a step that posts a real event.
LEMMA PostEffect ==
  ASSUME TypeOK, NEW s \in Nat, cache' = WithEvent(s, FALSE)
  PROVE  /\ cache' \subseteq Event /\ cache \subseteq cache'
         /\ \A e, f \in cache' : e.seq = f.seq => e = f
         /\ \A f \in cache' : f \in cache \/ (f.seq = s /\ ~f.null)
         /\ Cached(s)'
<1>1. PICK c : c = WithEvent(s, FALSE)
  OBVIOUS
<1>2. \A b \in BOOLEAN : c = WithEvent(s, b) =>
        /\ c \subseteq Event /\ cache \subseteq c
        /\ \A e, f \in c : e.seq = f.seq => e = f
        /\ \A f \in c : f \in cache \/ (f.seq = s /\ (f.null => b))
        /\ \E e \in c : e.seq = s
  BY WithEventAdds
<1>3. /\ c \subseteq Event /\ cache \subseteq c
      /\ \A e, f \in c : e.seq = f.seq => e = f
      /\ \A f \in c : f \in cache \/ (f.seq = s /\ ~f.null)
      /\ \E e \in c : e.seq = s
  BY <1>1, <1>2
<1>4. cache' = c
  BY <1>1
<1> QED
  BY <1>3, <1>4 DEF Cached

\* inOrder applies the event that is next and keeps any other.
LEMMA HandleEffect ==
  ASSUME TypeOK, ViewsFollowLog, NEW s \in Numbers, Handle(s)
  PROVE  /\ next' \in Nat /\ next <= next' /\ next' <= Len(log)
         /\ s <= next => s < next'
         /\ applied' = [i \in 1 .. next' |-> i - 1] /\ applied' \in Seq(Nat)
         /\ cache' \subseteq Event /\ cache \subseteq cache'
         /\ \A e, f \in cache' : e.seq = f.seq => e = f
         /\ \A f \in cache' : f \in cache \/ (f.seq = s /\ ~f.null)
         /\ s < next' \/ Cached(s)'
<1>1. s \in Nat /\ s < Len(log) /\ next \in Nat /\ next <= Len(log) /\ Len(log) \in Nat
  BY DEF TypeOK, ViewsFollowLog, Numbers
<1>2. CASE s = next
  <2>1. next' = next + 1 /\ cache' = cache /\ applied' = Append(applied, next)
    BY <1>2 DEF Handle
  <2>2. applied = [i \in 1 .. next |-> i - 1] /\ applied \in Seq(Nat)
    BY DEF TypeOK, ViewsFollowLog
  <2>3. Len(applied) = next
    BY <1>1, <2>2
  <2>4. applied' \in Seq(Nat) /\ Len(applied') = next + 1
    BY <1>1, <2>1, <2>2, <2>3
  <2>5. ASSUME NEW i \in 1 .. (next + 1) PROVE applied'[i] = i - 1
    <3>1. CASE i = next + 1
      BY <1>1, <2>1, <2>2, <2>3, <3>1
    <3>2. CASE i # next + 1
      <4>1. i \in 1 .. next
        BY <1>1, <3>2
      <4> QED
        BY <1>1, <2>1, <2>2, <2>3, <4>1
    <3> QED
      BY <3>1, <3>2
  <2>6. applied' = [i \in 1 .. (next + 1) |-> i - 1]
    <3>1. DOMAIN applied' = 1 .. (next + 1)
      BY <2>4
    <3>2. applied' = [i \in DOMAIN applied' |-> applied'[i]]
      BY <2>4
    <3> QED
      BY <2>5, <3>1, <3>2
  <2>7. cache \subseteq Event /\ \A e, f \in cache : e.seq = f.seq => e = f
    BY DEF TypeOK
  <2>8. next' \in Nat /\ next <= next' /\ next' <= Len(log) /\ s < next'
    BY <1>1, <1>2, <2>1
  <2> QED
    BY <2>1, <2>4, <2>6, <2>7, <2>8
<1>3. CASE s # next
  <2>1. cache' = WithEvent(s, FALSE) /\ next' = next /\ applied' = applied
    BY <1>3 DEF Handle
  <2>2. /\ cache' \subseteq Event /\ cache \subseteq cache'
        /\ \A e, f \in cache' : e.seq = f.seq => e = f
        /\ \A f \in cache' : f \in cache \/ (f.seq = s /\ ~f.null)
        /\ Cached(s)'
    BY <1>1, <2>1, PostEffect
  <2>3. s <= next => s < next'
    BY <1>1, <1>3, <2>1
  <2>4. applied' = [i \in 1 .. next' |-> i - 1] /\ applied' \in Seq(Nat)
    BY <2>1 DEF TypeOK, ViewsFollowLog
  <2>5. next' \in Nat /\ next <= next' /\ next' <= Len(log)
    BY <1>1, <2>1
  <2> QED
    BY <2>2, <2>3, <2>4, <2>5
<1> QED
  BY <1>2, <1>3

-----------------------------------------------------------------------------
(* What operations leave alone *)

\* A number that is cached stays cached when every event keeps a successor.
LEMMA CachedStays ==
  ASSUME \A e \in cache : \E f \in cache' : f.seq = e.seq
  PROVE  \A s \in Int : Cached(s) => Cached(s)'
BY DEF Cached

\* Adding events, and moving the view manager on, disturbs no cached event.
LEMMA CacheUndisturbed ==
  ASSUME TypeOK, CacheOK,
         next' \in Nat, next <= next', Len(log') \in Nat, Len(log) <= Len(log'),
         \A e \in cache : \E f \in cache' : f.seq = e.seq,
         \A f \in cache' : \/ \E e \in cache : e.seq = f.seq /\ (f.null => e.null)
                           \/ f.seq < Len(log') /\ ~f.null
  PROVE  CacheOK'
<1> SUFFICES ASSUME NEW f \in cache'
             PROVE  /\ f.seq < Len(log')
                    /\ f.null => f.seq < next' \/ Cached(f.seq + 1)'
  BY DEF CacheOK, Cached
<1>1. CASE f.seq < Len(log') /\ ~f.null
  BY <1>1
<1>2. CASE \E e \in cache : e.seq = f.seq /\ (f.null => e.null)
  <2>1. PICK e \in cache : e.seq = f.seq /\ (f.null => e.null)
    BY <1>2
  <2>2. e.seq \in Nat /\ Len(log) \in Nat /\ next \in Nat /\ e.seq < Len(log)
    BY DEF TypeOK, CacheOK, Event
  <2>3. ASSUME f.null PROVE f.seq < next' \/ Cached(f.seq + 1)'
    <3>1. e.seq < next \/ Cached(e.seq + 1)
      BY <2>1, <2>3 DEF CacheOK
    <3> QED
      BY <2>1, <2>2, <3>1, CachedStays
  <2> QED
    BY <2>1, <2>2, <2>3
<1> QED
  BY <1>1, <1>2

\* Nor does it take anything from the monitor thread.
LEMMA MonitorUndisturbed ==
  ASSUME TypeOK, WalkOK, next' \in Nat, next <= next', mon' = mon,
         \A e \in cache : \E f \in cache' : f.seq = e.seq /\ (e.null => f.null)
  PROVE  WalkOK'
<1>1. \A s \in Int : Cached(s) => Cached(s)'
  BY CachedStays
<1>2. mon.ev \in Int /\ mon.ahead \in Int /\ next \in Nat
  BY DEF TypeOK, None
<1>3. mon.pc = "remove" =>
        \/ mon.ev < next'
        \/ mon.ev = next' /\ \E f \in cache' : f.seq = mon.ev /\ f.null
  <2> SUFFICES ASSUME mon.pc = "remove", mon.ev = next, next' = next
               PROVE  \E f \in cache' : f.seq = mon.ev /\ f.null
    BY <1>2 DEF WalkOK
  <2>1. PICK e \in cache : e.seq = mon.ev /\ e.null
    BY <1>2 DEF WalkOK
  <2>2. PICK f \in cache' : f.seq = e.seq /\ (e.null => f.null)
    OBVIOUS
  <2> QED
    BY <2>1, <2>2
<1> QED
  BY <1>1, <1>2, <1>3 DEF WalkOK

\* In particular when events are only added to the cache.
LEMMA MonitorUndisturbedByPost ==
  ASSUME TypeOK, CacheOK, WalkOK,
         next' \in Nat, next <= next', Len(log') \in Nat, Len(log) <= Len(log'),
         cache' \subseteq Event, mon' = mon, cache \subseteq cache',
         \A f \in cache' : f \in cache \/ (f.seq < Len(log') /\ ~f.null)
  PROVE  CacheOK' /\ WalkOK'
<1>1. \A e \in cache : \E f \in cache' : f.seq = e.seq /\ (e.null => f.null)
  OBVIOUS
<1>2. \A f \in cache' : \/ \E e \in cache : e.seq = f.seq /\ (f.null => e.null)
                        \/ f.seq < Len(log') /\ ~f.null
  OBVIOUS
<1> QED
  BY <1>1, <1>2, CacheUndisturbed, MonitorUndisturbed

\* What was handed to the view manager stays within reach of the monitor.
LEMMA StillRemembered ==
  ASSUME TypeOK, NothingForgotten,
         next' \in Nat, next <= next', cache' \subseteq Event,
         \A e \in cache : \E f \in cache' : f.seq = e.seq,
         \A s \in Numbers' : st'[s + 1] \in {"notified", "done"} =>
           \/ s \in Numbers /\ st[s + 1] \in {"notified", "done"}
           \/ s < next' \/ Cached(s)'
  PROVE  NothingForgotten'
<1> SUFFICES ASSUME NEW s \in Numbers', st'[s + 1] \in {"notified", "done"}, s >= next'
             PROVE  \E f \in cache' : f.seq >= s
  BY DEF NothingForgotten
<1>1. s \in Int /\ next \in Nat
  BY DEF Numbers, TypeOK
<1>2. CASE Cached(s)'
  BY <1>1, <1>2 DEF Cached
<1>3. CASE s \in Numbers /\ st[s + 1] \in {"notified", "done"}
  <2>1. s >= next
    BY <1>1
  <2>2. PICK e \in cache : e.seq >= s
    BY <1>3, <2>1 DEF NothingForgotten
  <2> QED
    BY <2>2
<1> QED
  BY <1>1, <1>2, <1>3

\* A step of an operation concerns that operation only.
LEMMA AdvanceEffect ==
  ASSUME TypeOK, NEW s \in Numbers, NEW p \in Progress, Advance(s, p)
  PROVE  /\ st' \in Seq(Progress) /\ Len(st') = Len(st)
         /\ \A r \in Numbers : st'[r + 1] = IF r = s THEN p ELSE st[r + 1]
<1>1. s \in Nat /\ Len(log) \in Nat /\ Len(st) = Len(log) /\ s < Len(log) /\ st \in Seq(Progress)
  BY DEF TypeOK, Numbers
<1>2. st' = [st EXCEPT ![s + 1] = p]
  BY DEF Advance
<1>3. st' \in Seq(Progress) /\ Len(st') = Len(st)
  BY <1>1, <1>2
<1>4. ASSUME NEW r \in Numbers PROVE st'[r + 1] = IF r = s THEN p ELSE st[r + 1]
  <2>1. r \in Nat /\ r + 1 \in 1 .. Len(st) /\ (r + 1 = s + 1 <=> r = s)
    BY <1>1 DEF Numbers
  <2> QED
    BY <1>1, <1>2, <2>1
<1> QED
  BY <1>3, <1>4

\* A new operation gets the number behind all others.
LEMMA SequenceEffect ==
  ASSUME TypeOK, NEW kind \in Kinds, NEW d \in Docs, Sequence(kind, d)
  PROVE  /\ log' \in Seq([kind : Kinds, doc : Docs]) /\ Len(log') = Len(log) + 1
         /\ st' \in Seq(Progress) /\ Len(st') = Len(log')
         /\ \A r \in Numbers : st'[r + 1] = st[r + 1]
         /\ st'[Len(log) + 1] = "writing"
<1>1. Len(log) \in Nat /\ Len(st) = Len(log) /\ st \in Seq(Progress)
      /\ log \in Seq([kind : Kinds, doc : Docs])
  BY DEF TypeOK
<1>2. log' = Append(log, [kind |-> kind, doc |-> d]) /\ st' = Append(st, "writing")
  BY DEF Sequence
<1>3. "writing" \in Progress /\ [kind |-> kind, doc |-> d] \in [kind : Kinds, doc : Docs]
  BY DEF Progress
<1>4. log' \in Seq([kind : Kinds, doc : Docs]) /\ Len(log') = Len(log) + 1
  BY <1>1, <1>2, <1>3
<1>5. st' \in Seq(Progress) /\ Len(st') = Len(st) + 1
  BY <1>1, <1>2, <1>3
<1>6. \A i \in 1 .. Len(st) : st'[i] = st[i]
  BY <1>1, <1>2
<1>7. st'[Len(st) + 1] = "writing"
  BY <1>1, <1>2
<1>8. \A r \in Numbers : r + 1 \in 1 .. Len(st)
  BY <1>1 DEF Numbers
<1> QED
  BY <1>1, <1>4, <1>5, <1>6, <1>7, <1>8

-----------------------------------------------------------------------------
(* Operations *)

\* An operation that begins changes nothing the views know of.
LEMMA BeginKeepsInv ==
  ASSUME IInv, NEW kind \in Kinds, NEW d \in Docs, Sequence(kind, d),
         UNCHANGED <<viewVars, mon>>, TypeOK'
  PROVE  IInv'
<1>1. TypeOK /\ ViewsFollowLog /\ NothingForgotten /\ CacheOK /\ WalkOK
  BY DEF IInv
<1>2. /\ Len(log') = Len(log) + 1 /\ Len(log) \in Nat /\ Len(st) = Len(log)
      /\ \A r \in Numbers : st'[r + 1] = st[r + 1]
      /\ st'[Len(log) + 1] = "writing"
  BY <1>1, SequenceEffect DEF TypeOK
<1>3. next' = next /\ cache' = cache /\ applied' = applied /\ mon' = mon
  BY DEF viewVars
<1>4. next \in Nat /\ cache \subseteq Event
  BY <1>1 DEF TypeOK
<1>5. CacheOK' /\ WalkOK'
  BY <1>1, <1>2, <1>3, <1>4, MonitorUndisturbedByPost
<1>6. \A s \in Numbers' : s \in Numbers \/ s = Len(log)
  BY <1>2 DEF Numbers
<1>7. \A s \in Numbers' : st'[s + 1] \in {"notified", "done"} =>
        s \in Numbers /\ st[s + 1] \in {"notified", "done"}
  BY <1>2, <1>6
<1>8. NothingForgotten'
  BY <1>1, <1>3, <1>4, <1>7, StillRemembered
<1>9. ViewsFollowLog'
  BY <1>1, <1>2, <1>3, <1>4 DEF ViewsFollowLog
<1> QED
  BY <1>5, <1>8, <1>9 DEF IInv

\* Nor does one that only gets on with its files.
LEMMA ProgressKeepsInv ==
  ASSUME IInv, NEW s \in Numbers, NEW p \in Progress, Advance(s, p),
         p \in {"notified", "done"} => st[s + 1] \in {"notified", "done"},
         UNCHANGED <<log, viewVars, mon>>, TypeOK'
  PROVE  IInv'
<1>1. TypeOK /\ ViewsFollowLog /\ NothingForgotten /\ CacheOK /\ WalkOK
  BY DEF IInv
<1>2. log' = log /\ next' = next /\ cache' = cache /\ applied' = applied /\ mon' = mon
  BY DEF viewVars
<1>3. next \in Nat /\ cache \subseteq Event /\ Len(log) \in Nat
  BY <1>1 DEF TypeOK
<1>4. CacheOK' /\ WalkOK'
  BY <1>1, <1>2, <1>3, MonitorUndisturbedByPost
<1>5. \A r \in Numbers : st'[r + 1] = IF r = s THEN p ELSE st[r + 1]
  BY <1>1, AdvanceEffect
<1>6. Numbers' = Numbers
  BY <1>2 DEF Numbers
<1>7. \A r \in Numbers' : st'[r + 1] \in {"notified", "done"} =>
        r \in Numbers /\ st[r + 1] \in {"notified", "done"}
  BY <1>5, <1>6
<1>8. NothingForgotten'
  BY <1>1, <1>2, <1>3, <1>7, StillRemembered
<1>9. ViewsFollowLog'
  BY <1>1, <1>2 DEF ViewsFollowLog
<1> QED
  BY <1>4, <1>8, <1>9 DEF IInv

\* A saved document is put into the cache.
LEMMA FinalizeDocumentKeepsInv ==
  ASSUME IInv, NEW s \in Numbers, FinalizeDocument(s)
  PROVE  IInv'
<1>1. TypeOK /\ ViewsFollowLog /\ NothingForgotten /\ CacheOK /\ WalkOK
  BY DEF IInv
<1>2. /\ log' = log /\ next' = next /\ mon' = mon /\ applied' = applied
      /\ UNCHANGED <<holder, dirs, disk, extra>>
      /\ cache' = WithEvent(s, FALSE) /\ Advance(s, "done")
  BY DEF FinalizeDocument
<1>3. next \in Nat /\ cache \subseteq Event /\ Len(log) \in Nat /\ s \in Nat /\ s < Len(log)
  BY <1>1 DEF TypeOK, Numbers
<1>4. /\ cache' \subseteq Event /\ cache \subseteq cache'
      /\ \A e, f \in cache' : e.seq = f.seq => e = f
      /\ \A f \in cache' : f \in cache \/ (f.seq = s /\ ~f.null)
      /\ Cached(s)'
  BY <1>1, <1>2, <1>3, PostEffect
<1>5. /\ st' \in Seq(Progress) /\ Len(st') = Len(st)
      /\ \A r \in Numbers : st'[r + 1] = IF r = s THEN "done" ELSE st[r + 1]
  BY <1>1, <1>2, AdvanceEffect DEF Progress
<1>6. TypeOK'
  BY <1>1, <1>2, <1>4, <1>5 DEF TypeOK
<1>7. next' \in Nat /\ next <= next' /\ Len(log') \in Nat /\ Len(log) <= Len(log')
  BY <1>2, <1>3
<1>8. \A f \in cache' : f \in cache \/ (f.seq < Len(log') /\ ~f.null)
  BY <1>2, <1>3, <1>4
<1>9. CacheOK' /\ WalkOK'
  BY <1>1, <1>2, <1>4, <1>8, <1>7, MonitorUndisturbedByPost
<1>10. \A r \in Numbers' : st'[r + 1] \in {"notified", "done"} =>
        \/ r \in Numbers /\ st[r + 1] \in {"notified", "done"}
        \/ r < next' \/ Cached(r)'
  BY <1>2, <1>4, <1>5 DEF Numbers
<1>11. NothingForgotten'
  BY <1>1, <1>4, <1>10, <1>7, StillRemembered
<1> QED
  BY <1>1, <1>2, <1>6, <1>9, <1>11 DEF IInv, ViewsFollowLog

\* A delete or a database event goes through inOrder.
LEMMA NotifyKeepsInv ==
  ASSUME IInv, NEW s \in Numbers, Handle(s), NEW p \in Progress, Advance(s, p),
         UNCHANGED <<log, dirs, disk, extra, mon>>, holder' \in Nat \cup {None}
  PROVE  IInv'
<1>1. TypeOK /\ ViewsFollowLog /\ NothingForgotten /\ CacheOK /\ WalkOK
  BY DEF IInv
<1>2. /\ next' \in Nat /\ next <= next' /\ next' <= Len(log)
      /\ applied' = [i \in 1 .. next' |-> i - 1] /\ applied' \in Seq(Nat)
      /\ cache' \subseteq Event /\ cache \subseteq cache'
      /\ \A e, f \in cache' : e.seq = f.seq => e = f
      /\ \A f \in cache' : f \in cache \/ (f.seq = s /\ ~f.null)
      /\ s < next' \/ Cached(s)'
  BY <1>1, HandleEffect
<1>3. Len(log) \in Nat /\ s \in Nat /\ s < Len(log) /\ log' = log /\ mon' = mon
  BY <1>1 DEF TypeOK, Numbers
<1>4. /\ st' \in Seq(Progress) /\ Len(st') = Len(st)
      /\ \A r \in Numbers : st'[r + 1] = IF r = s THEN p ELSE st[r + 1]
  BY <1>1, AdvanceEffect
<1>5. TypeOK'
  BY <1>1, <1>2, <1>4 DEF TypeOK
<1>6. \A f \in cache' : f \in cache \/ (f.seq < Len(log') /\ ~f.null)
  BY <1>2, <1>3
<1>7. CacheOK' /\ WalkOK'
  BY <1>1, <1>2, <1>3, <1>6, MonitorUndisturbedByPost
<1>8. \A r \in Numbers' : st'[r + 1] \in {"notified", "done"} =>
        \/ r \in Numbers /\ st[r + 1] \in {"notified", "done"}
        \/ r < next' \/ Cached(r)'
  BY <1>2, <1>3, <1>4 DEF Numbers
<1>9. NothingForgotten'
  BY <1>1, <1>2, <1>8, StillRemembered
<1> QED
  BY <1>2, <1>3, <1>5, <1>7, <1>9 DEF IInv, ViewsFollowLog

-----------------------------------------------------------------------------
(* The monitor thread *)

\* A pass begins at the first cached event.
LEMMA StartPassKeepsInv ==
  ASSUME IInv, StartPass
  PROVE  IInv'
<1>1. TypeOK /\ ViewsFollowLog /\ NothingForgotten /\ CacheOK /\ WalkOK
  BY DEF IInv
<1>2. UNCHANGED <<log, st, holder, dirs, disk, extra, next, cache, applied>>
  BY DEF StartPass, opVars, viewVars
<1>3. PICK a : a = Following(None)
  OBVIOUS
<1>4. a \in Nat \cup {None} /\ (a # None => Cached(a) /\ a > None)
  BY <1>1, <1>3, FollowingCached DEF TypeOK, None
<1>5. mon' = [pc |-> "walk", ev |-> None, ahead |-> a]
  BY <1>3 DEF StartPass
<1>6. TypeOK'
  BY <1>1, <1>2, <1>4, <1>5 DEF TypeOK, Steps
<1>7. WalkOK'
  <2>1. a # None => Cached(a)'
    BY <1>2, <1>4 DEF Cached
  <2> QED
    BY <1>4, <1>5, <2>1 DEF WalkOK
<1>8. ViewsFollowLog' /\ NothingForgotten' /\ CacheOK'
  BY <1>1, <1>2 DEF ViewsFollowLog, NothingForgotten, CacheOK, Numbers, Cached
<1> QED
  BY <1>6, <1>7, <1>8 DEF IInv

\* The thread takes the event it looked up ahead, which nobody else removes.
LEMMA TakeEventKeepsInv ==
  ASSUME IInv, TakeEvent
  PROVE  IInv'
<1>1. TypeOK /\ ViewsFollowLog /\ NothingForgotten /\ CacheOK /\ WalkOK
  BY DEF IInv
<1>2. /\ UNCHANGED <<log, st, holder, dirs, disk, extra, next, cache, applied>>
      /\ next' = next /\ cache' = cache
  BY DEF TakeEvent, opVars, viewVars
<1>3. PICK s : s = mon.ahead
  OBVIOUS
<1>4. PICK a : a = Following(s)
  OBVIOUS
<1>5. s \in Nat \cup {None} /\ next \in Nat /\ (s # None => Cached(s))
  BY <1>1, <1>3 DEF TypeOK, WalkOK
<1>6. a \in Nat \cup {None} /\ (a # None => Cached(a) /\ a > s)
  BY <1>1, <1>4, <1>5, FollowingCached DEF TypeOK, None
<1>7. \/ mon' = [pc |-> "sleep", ev |-> None, ahead |-> None]
      \/ s # None /\ s = next /\ mon' = [pc |-> "apply", ev |-> s, ahead |-> a]
      \/ s # None /\ s # next /\ mon' = [pc |-> "repost", ev |-> s, ahead |-> a]
  BY <1>3, <1>4 DEF TakeEvent
<1>8. TypeOK'
  <2>1. mon' \in [pc : Steps, ev : Nat \cup {None}, ahead : Nat \cup {None}]
    BY <1>5, <1>6, <1>7 DEF Steps
  <2> QED
    BY <1>1, <1>2, <2>1 DEF TypeOK
<1>9. WalkOK'
  <2>1. (s # None => Cached(s)') /\ (a # None => Cached(a)')
    BY <1>2, <1>5, <1>6 DEF Cached
  <2> QED
    BY <1>2, <1>5, <1>6, <1>7, <2>1 DEF WalkOK, None
<1>10. ViewsFollowLog' /\ NothingForgotten' /\ CacheOK'
  BY <1>1, <1>2 DEF ViewsFollowLog, NothingForgotten, CacheOK, Numbers, Cached
<1> QED
  BY <1>8, <1>9, <1>10 DEF IInv

\* Time changes the age of an event only.
LEMMA AgeKeepsInv ==
  ASSUME IInv, NEW s \in Numbers, Age(s)
  PROVE  IInv'
<1>1. TypeOK /\ ViewsFollowLog /\ NothingForgotten /\ CacheOK /\ WalkOK
  BY DEF IInv
<1>2. /\ log' = log /\ st' = st /\ next' = next /\ applied' = applied /\ mon' = mon
      /\ UNCHANGED <<holder, dirs, disk, extra>>
  BY DEF Age, opVars
<1>3. cache \subseteq Event /\ next \in Nat /\ Len(log) \in Nat
  BY <1>1 DEF TypeOK
<1> DEFINE Aged(e) == [e EXCEPT !.old = e.old \/ e.seq = s]
<1>4. cache' = {Aged(e) : e \in cache}
  BY DEF Age
<1>5. \A e \in cache : Aged(e) \in Event /\ Aged(e).seq = e.seq /\ Aged(e).null = e.null
  <2> TAKE e \in cache
  <2>1. (e.old \/ e.seq = s) \in BOOLEAN
    OBVIOUS
  <2>2. e \in [seq : Nat, null : BOOLEAN, old : BOOLEAN]
    BY <1>3 DEF Event
  <2> QED
    BY <2>1, <2>2 DEF Event
<1> HIDE DEF Aged
<1>6. cache' \subseteq Event
  BY <1>4, <1>5
<1>7. \A e \in cache : \E f \in cache' : f.seq = e.seq /\ (e.null => f.null)
  BY <1>4, <1>5
<1>8. \A f \in cache' : \E e \in cache : e.seq = f.seq /\ (f.null => e.null) /\ f = Aged(e)
  BY <1>4, <1>5
<1>9. \A f, g \in cache' : f.seq = g.seq => f = g
  BY <1>1, <1>8 DEF TypeOK
<1>10. TypeOK'
  BY <1>1, <1>2, <1>6, <1>9 DEF TypeOK
<1>11. next' \in Nat /\ next <= next' /\ Len(log') \in Nat /\ Len(log) <= Len(log')
  BY <1>2, <1>3
<1>12. CacheOK'
  BY <1>1, <1>7, <1>8, <1>11, CacheUndisturbed
<1>13. WalkOK'
  BY <1>1, <1>2, <1>7, <1>11, MonitorUndisturbed
<1>14. \A r \in Numbers' : st'[r + 1] \in {"notified", "done"} =>
        r \in Numbers /\ st[r + 1] \in {"notified", "done"}
  BY <1>2 DEF Numbers
<1>15. NothingForgotten'
  BY <1>1, <1>6, <1>7, <1>11, <1>14, StillRemembered
<1> QED
  BY <1>1, <1>2, <1>10, <1>12, <1>13, <1>15 DEF IInv, ViewsFollowLog

\* The next event is applied, and any other goes into the cache; a nullEvent
\* does neither.
LEMMA ApplyEventKeepsInv ==
  ASSUME IInv, ApplyEvent
  PROVE  IInv'
<1>1. TypeOK /\ ViewsFollowLog /\ NothingForgotten /\ CacheOK /\ WalkOK
  BY DEF IInv
<1>2. /\ mon.pc = "apply" /\ mon' = [mon EXCEPT !.pc = "remove"]
      /\ log' = log /\ st' = st /\ UNCHANGED <<holder, dirs, disk, extra>>
  BY DEF ApplyEvent, opVars
<1>3. /\ mon'.pc = "remove" /\ mon'.ev = mon.ev /\ mon'.ahead = mon.ahead
      /\ mon' \in [pc : Steps, ev : Nat \cup {None}, ahead : Nat \cup {None}]
  BY <1>1, <1>2 DEF TypeOK, Steps
<1>4. PICK e \in cache : e = Current /\ e.seq = mon.ev
  BY <1>1, <1>2 DEF WalkOK, Cached, Current
<1>5. /\ next \in Nat /\ mon.ev \in Nat /\ mon.ev \in Numbers /\ mon.ev <= next
      /\ Len(log) \in Nat /\ cache \subseteq Event /\ mon.ahead \in Int
  BY <1>1, <1>2, <1>4 DEF TypeOK, WalkOK, CacheOK, Event, Numbers, None
<1>6. CASE Current.null
  <2>1. next' = next /\ cache' = cache /\ applied' = applied
    BY <1>6 DEF ApplyEvent, viewVars
  <2>2. TypeOK'
    BY <1>1, <1>2, <1>3, <2>1 DEF TypeOK
  <2>3. \/ mon.ev < next'
        \/ mon.ev = next' /\ \E f \in cache' : f.seq = mon.ev /\ f.null
    BY <1>4, <1>5, <1>6, <2>1
  <2>4. \A s : Cached(s)' <=> Cached(s)
    BY <2>1 DEF Cached
  <2>5. WalkOK'
    <3>1. Cached(mon.ev)' /\ (mon.ahead # None => Cached(mon.ahead)' /\ mon.ahead > mon.ev)
      BY <1>1, <1>2, <1>5, <2>4 DEF WalkOK
    <3> QED
      BY <1>3, <2>3, <3>1 DEF WalkOK
  <2>6. ViewsFollowLog' /\ NothingForgotten' /\ CacheOK'
    BY <1>1, <1>2, <2>1, <2>4 DEF ViewsFollowLog, NothingForgotten, CacheOK, Numbers, Cached
  <2> QED
    BY <2>2, <2>5, <2>6 DEF IInv
<1>7. CASE ~Current.null
  <2>1. /\ next' \in Nat /\ next <= next' /\ next' <= Len(log) /\ mon.ev < next'
        /\ applied' = [i \in 1 .. next' |-> i - 1] /\ applied' \in Seq(Nat)
        /\ cache' \subseteq Event /\ cache \subseteq cache'
        /\ \A f, g \in cache' : f.seq = g.seq => f = g
        /\ \A f \in cache' : f \in cache \/ (f.seq = mon.ev /\ ~f.null)
    <3>1. Handle(mon.ev)
      BY <1>7 DEF ApplyEvent
    <3> QED
      BY <1>1, <1>5, <3>1, HandleEffect
  <2>2. TypeOK'
    BY <1>1, <1>2, <1>3, <2>1 DEF TypeOK
  <2>3. \A f \in cache' : \/ \E g \in cache : g.seq = f.seq /\ (f.null => g.null)
                          \/ f.seq < Len(log') /\ ~f.null
    BY <1>2, <1>5, <2>1 DEF Numbers
  <2>4. \A f \in cache : \E g \in cache' : g.seq = f.seq
    BY <2>1
  <2>5. Len(log') \in Nat /\ Len(log) <= Len(log')
    BY <1>2, <1>5
  <2>6. CacheOK'
    BY <1>1, <2>1, <2>3, <2>4, <2>5, CacheUndisturbed
  <2>7. WalkOK'
    <3>1. Cached(mon.ev)' /\ (mon.ahead # None => Cached(mon.ahead)' /\ mon.ahead > mon.ev)
      BY <1>1, <1>2, <1>5, <2>4, CachedStays DEF WalkOK
    <3> QED
      BY <1>3, <2>1, <3>1 DEF WalkOK
  <2>8. \A s \in Numbers' : st'[s + 1] \in {"notified", "done"} =>
          s \in Numbers /\ st[s + 1] \in {"notified", "done"}
    BY <1>2 DEF Numbers
  <2>9. NothingForgotten'
    BY <1>1, <2>1, <2>4, <2>8, StillRemembered
  <2> QED
    BY <1>2, <2>1, <2>2, <2>6, <2>7, <2>9 DEF IInv, ViewsFollowLog
<1> QED
  BY <1>6, <1>7

\* The event that is removed was applied, or the event before it is the reason
\* that a later one is there.
LEMMA RemoveEventKeepsInv ==
  ASSUME IInv, RemoveEvent
  PROVE  IInv'
<1>1. TypeOK /\ ViewsFollowLog /\ NothingForgotten /\ CacheOK /\ WalkOK
  BY DEF IInv
<1>2. /\ mon.pc = "remove" /\ mon' = [mon EXCEPT !.pc = "walk", !.ev = None]
      /\ log' = log /\ st' = st /\ next' = next /\ applied' = applied
      /\ UNCHANGED <<holder, dirs, disk, extra>>
      /\ cache' = {e \in cache : e.seq # mon.ev}
  BY DEF RemoveEvent, opVars
<1>3. /\ mon'.pc = "walk" /\ mon'.ev = None /\ mon'.ahead = mon.ahead
      /\ mon' \in [pc : Steps, ev : Nat \cup {None}, ahead : Nat \cup {None}]
  BY <1>1, <1>2 DEF TypeOK, Steps
<1>4. /\ cache \subseteq Event /\ next \in Nat
      /\ mon.ahead \in Nat \cup {None} /\ mon.ev \in Nat
  BY <1>1, <1>2 DEF TypeOK, WalkOK, Cached, Event
<1>5. PICK e \in cache : e.seq = mon.ev
  BY <1>1, <1>2 DEF WalkOK, Cached
<1>6. mon.ev < next \/ (mon.ev = next /\ e.null)
  BY <1>1, <1>2, <1>5 DEF WalkOK, TypeOK
<1>7. TypeOK'
  BY <1>1, <1>2, <1>3 DEF TypeOK
<1>8. CacheOK'
  <2> SUFFICES ASSUME NEW f \in cache'
               PROVE  f.seq < Len(log) /\ (f.null => f.seq < next \/ Cached(f.seq + 1)')
    BY <1>2 DEF CacheOK, Cached
  <2>1. f \in cache /\ f.seq < Len(log) /\ f.seq \in Nat
    BY <1>1, <1>2, <1>4 DEF CacheOK, Event
  <2>2. ASSUME f.null, ~(f.seq < next) PROVE Cached(f.seq + 1)'
    <3>1. PICK g \in cache : g.seq = f.seq + 1
      BY <1>1, <2>1, <2>2 DEF CacheOK, Cached
    <3>2. g.seq # mon.ev
      BY <1>4, <1>6, <2>1, <2>2, <3>1
    <3> QED
      BY <1>2, <3>1, <3>2 DEF Cached
  <2> QED
    BY <2>1, <2>2
<1>9. WalkOK'
  <2>1. mon.ahead # None => Cached(mon.ahead)'
    BY <1>1, <1>2, <1>4 DEF WalkOK, Cached
  <2> QED
    BY <1>3, <1>4, <2>1 DEF WalkOK, None
<1>10. NothingForgotten'
  <2> SUFFICES ASSUME NEW s \in Numbers, st[s + 1] \in {"notified", "done"}, s >= next
               PROVE  \E f \in cache' : f.seq >= s
    BY <1>2 DEF NothingForgotten, Numbers
  <2>1. PICK g \in cache : g.seq >= s
    BY <1>1 DEF NothingForgotten
  <2>2. s \in Int /\ g.seq \in Nat
    BY <1>4 DEF Numbers, Event
  <2>3. CASE g.seq # mon.ev
    BY <1>2, <2>1, <2>3
  <2>4. CASE g.seq = mon.ev
    <3>1. mon.ev = next /\ e.null /\ s = next
      BY <1>4, <1>6, <2>1, <2>2, <2>4
    <3>2. PICK f \in cache : f.seq = next + 1
      BY <1>1, <1>4, <1>5, <3>1 DEF CacheOK, Cached
    <3>3. f \in cache' /\ f.seq >= s
      BY <1>2, <1>4, <3>1, <3>2
    <3> QED
      BY <3>3
  <2> QED
    BY <2>3, <2>4
<1>11. ViewsFollowLog'
  BY <1>1, <1>2 DEF ViewsFollowLog
<1> QED
  BY <1>7, <1>8, <1>9, <1>10, <1>11 DEF IInv

\* The event before one that is cached is posted, real or as a nullEvent.
LEMMA RepostEventKeepsInv ==
  ASSUME IInv, RepostEvent
  PROVE  IInv'
<1>1. TypeOK /\ ViewsFollowLog /\ NothingForgotten /\ CacheOK /\ WalkOK
  BY DEF IInv
<1>2. /\ mon.pc = "repost" /\ mon' = [mon EXCEPT !.pc = "walk", !.ev = None]
      /\ log' = log /\ st' = st /\ next' = next /\ applied' = applied
      /\ UNCHANGED <<holder, dirs, disk, extra>>
  BY DEF RepostEvent, opVars
<1>3. /\ mon'.pc = "walk" /\ mon'.ev = None /\ mon'.ahead = mon.ahead
      /\ mon' \in [pc : Steps, ev : Nat \cup {None}, ahead : Nat \cup {None}]
  BY <1>1, <1>2 DEF TypeOK, Steps
<1>4. PICK e \in cache : e.seq = mon.ev
  BY <1>1, <1>2 DEF WalkOK, Cached
<1>5. /\ cache \subseteq Event /\ next \in Nat /\ Len(log) \in Nat
      /\ mon.ahead \in Nat \cup {None} /\ mon.ev \in Nat /\ mon.ev < Len(log)
      /\ mon.ev = 0 => 0 < next
  BY <1>1, <1>2, <1>4 DEF TypeOK, WalkOK, CacheOK, Event
<1>6. PICK s \in Nat : s = Before(mon.ev) /\ s < Len(log) /\ (s + 1 = mon.ev \/ s < next)
  <2>1. Before(mon.ev) = IF mon.ev = 0 THEN 0 ELSE mon.ev - 1
    BY DEF Before
  <2> QED
    BY <1>5, <2>1
<1>7. PICK b \in BOOLEAN : cache' = WithEvent(s, b)
  <2>1. \A found \in Found(s) : found \in BOOLEAN
    BY DEF Found
  <2> QED
    BY <1>6, <2>1 DEF RepostEvent
<1>8. PICK c : c = WithEvent(s, b)
  OBVIOUS
<1>9. /\ c \subseteq Event /\ cache \subseteq c
      /\ \A f, g \in c : f.seq = g.seq => f = g
      /\ \A f \in c : f \in cache \/ f.seq = s
  BY <1>1, <1>8, WithEventAdds
<1>10. /\ cache' \subseteq Event /\ cache \subseteq cache'
       /\ \A f, g \in cache' : f.seq = g.seq => f = g
       /\ \A f \in cache' : f \in cache \/ f.seq = s
  BY <1>7, <1>8, <1>9
<1>11. TypeOK'
  BY <1>1, <1>2, <1>3, <1>10 DEF TypeOK
<1>12. \A r \in Int : Cached(r) => Cached(r)'
  BY <1>10 DEF Cached
<1>13. CacheOK'
  <2> SUFFICES ASSUME NEW f \in cache'
               PROVE  f.seq < Len(log) /\ (f.null => f.seq < next \/ Cached(f.seq + 1)')
    BY <1>2 DEF CacheOK, Cached
  <2>1. CASE f \in cache
    BY <1>1, <1>5, <1>12, <2>1 DEF CacheOK, Event
  <2>2. CASE f.seq = s
    BY <1>4, <1>5, <1>6, <1>12, <2>2 DEF Cached
  <2> QED
    BY <1>10, <2>1, <2>2
<1>14. WalkOK'
  <2>1. mon.ahead # None => Cached(mon.ahead)'
    BY <1>1, <1>3, <1>5, <1>12 DEF WalkOK
  <2> QED
    BY <1>3, <1>5, <2>1 DEF WalkOK, None
<1>15. NothingForgotten'
  BY <1>1, <1>2, <1>10 DEF NothingForgotten, Numbers
<1>16. ViewsFollowLog'
  BY <1>1, <1>2 DEF ViewsFollowLog
<1> QED
  BY <1>11, <1>13, <1>14, <1>15, <1>16 DEF IInv

-----------------------------------------------------------------------------
(* The theorems *)

LEMMA InitInv ==
  Init => IInv
<1> SUFFICES ASSUME Init PROVE IInv
  OBVIOUS
<1>1. TypeOK
  <2>1. log \in Seq([kind : Kinds, doc : Docs]) /\ st \in Seq(Progress) /\ Len(st) = Len(log)
    BY DEF Init
  <2>2. mon \in [pc : Steps, ev : Nat \cup {None}, ahead : Nat \cup {None}]
    BY DEF Init, Steps
  <2>3. applied \in Seq(Nat) /\ next \in Nat
    BY DEF Init
  <2>4. extra \in BOOLEAN
    BY Zenon DEF Init
  <2>5. holder \in Nat \cup {None} /\ dirs \subseteq Docs /\ disk \subseteq Nat
    BY DEF Init
  <2>6. cache \subseteq Event /\ \A e, f \in cache : e.seq = f.seq => e = f
    BY DEF Init
  <2> QED
    BY <2>1, <2>2, <2>3, <2>4, <2>5, <2>6 DEF TypeOK
<1>2. ViewsFollowLog
  <2>1. <<>> = [i \in 1 .. 0 |-> i - 1]
    OBVIOUS
  <2> QED
    BY <2>1 DEF Init, ViewsFollowLog
<1>3. NothingForgotten /\ CacheOK /\ WalkOK
  BY DEF Init, NothingForgotten, CacheOK, WalkOK, Numbers
<1> QED
  BY <1>1, <1>2, <1>3 DEF IInv

LEMMA UpdateDocumentKeepsInv ==
  ASSUME IInv, NEW d \in Docs, UpdateDocument(d)
  PROVE  IInv'
<1>1. "update" \in Kinds /\ Sequence("update", d)
  BY DEF UpdateDocument, Kinds
<1>2. TypeOK /\ UNCHANGED <<viewVars, mon>>
  BY DEF UpdateDocument, IInv
<1>3. TypeOK'
  BY <1>1, <1>2, SequenceEffect DEF TypeOK, UpdateDocument, viewVars
<1> QED
  BY <1>1, <1>2, <1>3, BeginKeepsInv

LEMMA DeleteDocumentKeepsInv ==
  ASSUME IInv, NEW d \in Docs, DeleteDocument(d)
  PROVE  IInv'
<1>1. "delete" \in Kinds /\ Sequence("delete", d)
  BY DEF DeleteDocument, Kinds
<1>2. TypeOK /\ UNCHANGED <<viewVars, mon>>
  BY DEF DeleteDocument, IInv
<1>3. holder' \in Nat
  BY <1>2 DEF DeleteDocument, TypeOK
<1>4. TypeOK'
  BY <1>1, <1>2, <1>3, SequenceEffect DEF TypeOK, DeleteDocument, viewVars
<1> QED
  BY <1>1, <1>2, <1>4, BeginKeepsInv

LEMMA AddDatabaseKeepsInv ==
  ASSUME IInv, NEW d \in Docs, AddDatabase(d)
  PROVE  IInv'
<1>1. "create" \in Kinds /\ Sequence("create", d)
  BY DEF AddDatabase, Kinds
<1>2. TypeOK /\ UNCHANGED <<viewVars, mon>>
  BY DEF AddDatabase, IInv
<1>3. TypeOK'
  BY <1>1, <1>2, SequenceEffect DEF TypeOK, AddDatabase, viewVars
<1> QED
  BY <1>1, <1>2, <1>3, BeginKeepsInv

LEMMA DeleteDatabaseKeepsInv ==
  ASSUME IInv, NEW d \in Docs, DeleteDatabase(d)
  PROVE  IInv'
<1>1. "drop" \in Kinds /\ Sequence("drop", d)
  BY DEF DeleteDatabase, Kinds
<1>2. TypeOK /\ UNCHANGED <<viewVars, mon>>
  BY DEF DeleteDatabase, IInv
<1>3. TypeOK'
  BY <1>1, <1>2, SequenceEffect DEF TypeOK, DeleteDatabase, viewVars
<1> QED
  BY <1>1, <1>2, <1>3, BeginKeepsInv

LEMMA WriteFilesKeepsInv ==
  ASSUME IInv, NEW s \in Numbers, WriteFiles(s)
  PROVE  IInv'
<1>1. /\ TypeOK /\ "written" \in Progress /\ Advance(s, "written")
      /\ UNCHANGED <<log, viewVars, mon>>
  BY DEF WriteFiles, IInv, Progress
<1>2. TypeOK'
  BY <1>1, AdvanceEffect DEF TypeOK, WriteFiles, viewVars, Numbers
<1> QED
  BY <1>1, <1>2, ProgressKeepsInv

LEMMA SaveFailsKeepsInv ==
  ASSUME IInv, NEW s \in Numbers, SaveFails(s)
  PROVE  IInv'
<1>1. /\ TypeOK /\ "failed" \in Progress /\ Advance(s, "failed")
      /\ UNCHANGED <<log, viewVars, mon>>
  BY DEF SaveFails, IInv, Progress
<1>2. disk' \subseteq Nat
  <2>1. s \in Nat /\ disk \subseteq Nat
    BY <1>1 DEF TypeOK, Numbers
  <2>2. disk' = disk \cup {s} \/ disk' = disk
    BY Zenon DEF SaveFails
  <2> QED
    BY <2>1, <2>2
<1>3. UNCHANGED <<log, holder, dirs, extra, next, cache, applied, mon>>
  BY DEF SaveFails, viewVars
<1>4. st' \in Seq(Progress) /\ Len(st') = Len(st)
  BY <1>1, AdvanceEffect
<1>5. TypeOK'
  BY <1>1, <1>2, <1>3, <1>4 DEF TypeOK
<1> QED
  BY <1>1, <1>5, ProgressKeepsInv

LEMMA RemoveFilesKeepsInv ==
  ASSUME IInv, NEW s \in Numbers, RemoveFiles(s)
  PROVE  IInv'
<1>1. /\ TypeOK /\ "done" \in Progress /\ Advance(s, "done")
      /\ UNCHANGED <<log, viewVars, mon>> /\ st[s + 1] = "notified"
  BY DEF RemoveFiles, IInv, Progress, At
<1>2. TypeOK'
  BY <1>1, AdvanceEffect DEF TypeOK, RemoveFiles, viewVars
<1> QED
  BY <1>1, <1>2, ProgressKeepsInv

\* Every step keeps the invariant.
LEMMA NextInv ==
  IInv /\ [Next]_vars => IInv'
<1> SUFFICES ASSUME IInv, [Next]_vars PROVE IInv'
  OBVIOUS
<1>1. ASSUME NEW d \in Docs,
             UpdateDocument(d) \/ DeleteDocument(d) \/ AddDatabase(d) \/ DeleteDatabase(d)
      PROVE  IInv'
  BY <1>1, UpdateDocumentKeepsInv, DeleteDocumentKeepsInv, AddDatabaseKeepsInv,
     DeleteDatabaseKeepsInv
<1>2. ASSUME NEW s \in Numbers, NotifyDeleting(s) PROVE IInv'
  <2>1. Handle(s) /\ Advance(s, "notified") /\ "notified" \in Progress
    BY <1>2 DEF NotifyDeleting, Progress
  <2> QED
    BY <1>2, <2>1, NotifyKeepsInv DEF NotifyDeleting
<1>3. ASSUME NEW s \in Numbers, NotifyDatabase(s) PROVE IInv'
  <2>1. Handle(s) /\ Advance(s, "done") /\ "done" \in Progress
    BY <1>3 DEF NotifyDatabase, Progress
  <2>2. holder' \in Nat \cup {None}
    BY <1>3 DEF NotifyDatabase, IInv, TypeOK
  <2> QED
    BY <1>3, <2>1, <2>2, NotifyKeepsInv DEF NotifyDatabase
<1>4. ASSUME NEW s \in Numbers, OperationStep(s) \/ SaveFails(s) \/ Age(s) PROVE IInv'
  BY <1>2, <1>3, <1>4, WriteFilesKeepsInv, FinalizeDocumentKeepsInv, RemoveFilesKeepsInv,
     SaveFailsKeepsInv, AgeKeepsInv DEF OperationStep
<1>5. CASE MonitorStep
  BY <1>5, StartPassKeepsInv, TakeEventKeepsInv, ApplyEventKeepsInv, RemoveEventKeepsInv,
     RepostEventKeepsInv DEF MonitorStep
<1>6. CASE UNCHANGED vars
  <2>1. UNCHANGED <<log, st, holder, dirs, disk, extra, next, cache, applied, mon>>
    BY <1>6 DEF vars, opVars, viewVars
  <2> QED
    BY <2>1 DEF IInv, TypeOK, ViewsFollowLog, NothingForgotten, CacheOK, WalkOK, Cached, Numbers
<1> QED
  BY <1>1, <1>4, <1>5, <1>6 DEF Next

\* Every reachable state satisfies the inductive invariant.
THEOREM InductiveInvariant ==
  Spec => []IInv
<1>1. Init => IInv
  BY InitInv
<1>2. IInv /\ [Next]_vars => IInv'
  BY NextInv
<1> QED
  BY <1>1, <1>2, PTL DEF Spec

\* The cache of the view manager holds at most one event per number, and its
\* state keeps its type.
THEOREM TypeCorrect ==
  Spec => []TypeOK
<1>1. IInv => TypeOK
  BY DEF IInv
<1> QED
  BY <1>1, InductiveInvariant, PTL

\* Whatever the interleaving of requests, monitor and clock, and whatever fails,
\* the views have seen a prefix of the log, every event once and in order
\* (inOrder, AdvancedViewManager 331-334).
THEOREM ViewsFollowLogHolds ==
  Spec => []ViewsFollowLog
<1>1. IInv => ViewsFollowLog
  BY DEF IInv
<1> QED
  BY <1>1, InductiveInvariant, PTL

\* An event the view manager was told of and has not applied is never lost from
\* sight: it or a later one is in eventCache (postEvent, run of the monitor
\* thread, BaseViewManager 131-187).
THEOREM NothingForgottenHolds ==
  Spec => []NothingForgotten
<1>1. IInv => NothingForgotten
  BY DEF IInv
<1> QED
  BY <1>1, InductiveInvariant, PTL

=============================================================================
