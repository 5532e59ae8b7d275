------------------------------ MODULE MCUdpr ------------------------------
(* Small instances of module Udpr. *)
EXTENDS Udpr

TwoSlots == [h \in Hosts |-> 1 .. IF h = 1 THEN 2 ELSE 1]

Nothing ==
  [connects |-> 0, RELIABLE |-> 0, UNRELIABLE |-> 0, UNSEQUENCED |-> 0, FRAGMENT |-> 0,
   casts |-> 0, closes |-> 0, latercloses |-> 0, nowcloses |-> 0, resets |-> 0,
   pings |-> 0, configures |-> 0, limits |-> 0, destroys |-> 0,
   timeouts |-> 0, gone |-> 0, drops |-> 0, plain |-> 0, mute |-> 0,
   losses |-> 0, copies |-> 0]

Fresh(budget) == [joined |-> FALSE, base |-> 0, left |-> budget]
Joined(base, budget) == [joined |-> TRUE, base |-> base, left |-> budget]

\* Data between two connected hosts: loss, repetition, retransmission, fragments,
\* the window, and counters that start again from 0.
DataScenarios ==
  {Joined(0, [Nothing EXCEPT !.RELIABLE = 2, !.timeouts = 2, !.losses = 1]),
   Joined(7, [Nothing EXCEPT !.RELIABLE = 2, !.timeouts = 1, !.copies = 1]),
   Joined(0, [Nothing EXCEPT !.FRAGMENT = 1, !.RELIABLE = 1, !.timeouts = 1]),
   Joined(0, [Nothing EXCEPT !.UNRELIABLE = 2, !.RELIABLE = 1, !.copies = 1]),
   Joined(7, [Nothing EXCEPT !.UNRELIABLE = 2, !.UNSEQUENCED = 2, !.drops = 1]),
   Joined(0, [Nothing EXCEPT !.UNSEQUENCED = 3, !.copies = 1]),
   Joined(1, [Nothing EXCEPT !.casts = 1, !.pings = 2, !.plain = 1]),
   Joined(0, [Nothing EXCEPT !.latercloses = 1, !.RELIABLE = 1, !.UNRELIABLE = 1]),
   Joined(0, [Nothing EXCEPT !.latercloses = 1, !.RELIABLE = 1, !.FRAGMENT = 1])}

\* Connections that come and go.
ConnectionScenarios ==
  {Fresh([Nothing EXCEPT !.connects = 2, !.closes = 1]),
   Fresh([Nothing EXCEPT !.connects = 1, !.closes = 2]),
   Fresh([Nothing EXCEPT !.connects = 1, !.closes = 1, !.copies = 1]),
   Fresh([Nothing EXCEPT !.connects = 1, !.nowcloses = 1, !.resets = 1, !.timeouts = 1,
                         !.gone = 1]),
   Fresh([Nothing EXCEPT !.connects = 1, !.configures = 1, !.mute = 1]),
   Fresh([Nothing EXCEPT !.connects = 1, !.limits = 1, !.destroys = 1, !.timeouts = 1,
                         !.gone = 1]),
   Fresh([Nothing EXCEPT !.connects = 1, !.RELIABLE = 1, !.nowcloses = 1])}

\* A host takes back its first call and makes another, while datagrams without a
\* checksum of the first are on the way.
SessionScenario == {Fresh([Nothing EXCEPT !.connects = 2, !.resets = 1, !.plain = 2])}
PlainScenarios ==
  SessionScenario \cup
  {Fresh([Nothing EXCEPT !.connects = 1, !.closes = 1, !.plain = 2]),
   Fresh([Nothing EXCEPT !.connects = 2, !.closes = 1, !.plain = 1])}

AllScenarios == DataScenarios \cup ConnectionScenarios \cup PlainScenarios

\* The numbers 7 and 0 are the next two: the second is below Low, the first is
\* above High.
WrapScenario == {Joined(6, [Nothing EXCEPT !.RELIABLE = 2])}
=============================================================================
