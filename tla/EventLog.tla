------------------------------ MODULE EventLog ------------------------------
(***************************************************************************)
(* What DBState promises its callers: an append-only log of database       *)
(* events, numbered from 0 without a gap, that survives a stop of the      *)
(* process.  While the database runs, "published" is the first number a    *)
(* reader may not yet ask for; nothing is published before it is in the    *)
(* log, and a restart publishes everything the log holds.                  *)
(***************************************************************************)
EXTENDS Integers

CONSTANT Event   \* the events that can be logged

VARIABLES log,        \* function from 0..n-1 to Event
          published   \* the next sequence number, or Stopped

vars == <<log, published>>

Stopped == -1

\* The log holds exactly the sequence numbers below n.
Holds(n) == DOMAIN log = 0 .. (n - 1)

Init ==
  /\ log = [s \in {} |-> s]
  /\ published = Stopped

\* One event is recorded under the next number; no entry is ever changed.
Append(e) ==
  /\ published # Stopped
  /\ Holds(published)
  /\ log' = [s \in 0 .. published |-> IF s < published THEN log[s] ELSE e]
  /\ UNCHANGED published

\* The caller is told the number of the event it recorded.
Publish ==
  /\ published # Stopped
  /\ Holds(published + 1)
  /\ published' = published + 1
  /\ UNCHANGED log

\* The process stops, by itself or not.
Stop ==
  /\ published # Stopped
  /\ published' = Stopped
  /\ UNCHANGED log

\* A restart continues right after the last recorded event.
Recover ==
  /\ published = Stopped
  /\ published' \in Nat
  /\ Holds(published')
  /\ UNCHANGED log

Next ==
  \/ \E e \in Event : Append(e)
  \/ Publish
  \/ Stop
  \/ Recover

Spec == Init /\ [][Next]_vars

=============================================================================
