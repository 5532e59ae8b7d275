----------------------------- MODULE UdprQueue -----------------------------
(***************************************************************************)
(* The queues of one peer of the reliable UDP library (reliableudp, a copy *)
(* of ENet): commands, the sequence numbers given to outgoing commands,    *)
(* the place an incoming command takes in its channel, the window of the   *)
(* unsequenced packets, and what the application receives next.            *)
(*                                                                         *)
(* Everything here is a pure operator on a command, a channel or a peer    *)
(* record; the handlers that call them are in module Udpr.                 *)
(*                                                                         *)
(* Sequence numbers are 16 bits wide in the code. Here they are taken      *)
(* modulo Mod, and the code's limits 0xF000 and 0x1000, between which it   *)
(* recognises that a number has wrapped, are High and Low.                 *)
(*                                                                         *)
(* A definition named Slip... is a wrong variant of the one that follows   *)
(* it: replaced by it, the specification of module Udpr violates a         *)
(* property.                                                               *)
(***************************************************************************)
EXTENDS Integers, Sequences, FiniteSets, SequencesExt, FiniteSetsExt

CONSTANTS
  Mod,         \* 0x10000
  High,        \* 0xF000
  Low,         \* 0x1000
  Span,        \* ENET_PEER_UNSEQUENCED_WINDOW_SIZE
  WindowSize,  \* windowSize of every peer, in packets
  Room         \* what fits in one datagram, in packets; a fragment fills it

ASSUME UdprConstants ==
  /\ {Mod, High, Low, Span, WindowSize, Room} \subseteq Nat \ {0}
  /\ Low < High /\ High < Mod
  /\ Room <= WindowSize

----------------------------------------------------------------------------
\* Commands

\* The channel of the commands that belong to no channel.
Control == 255

\* A command of kind cmd on channel ch, ack when the receiver must acknowledge
\* it, uns when its unsequenced flag is set, with the fields of its kind.
Command(cmd, ch, ack, uns, fields) ==
  fields @@ [cmd |-> cmd, ch |-> ch, ack |-> ack, uns |-> uns, n |-> 0, u |-> 0]

HasPacket(c) ==
  c.cmd \in {"RELIABLE", "UNRELIABLE", "FRAGMENT", "UNSEQUENCED"}

\* Packets are all one unit long, and a fragment is as long as a datagram.
Length(c) == IF c.cmd = "FRAGMENT" THEN Room ELSE IF HasPacket(c) THEN 1 ELSE 0

Data(commands) == FoldLeft(LAMBDA sum, c : sum + Length(c), 0, commands)

----------------------------------------------------------------------------
\* Channels and peers

NewChannel == [outR |-> 0, outU |-> 0, inR |-> 0, inU |-> 0,
               inRel |-> <<>>, inUnrel |-> <<>>]

NewChannels(count) == [c \in 0 .. count - 1 |-> NewChannel]

NoPeer == 32767   \* ENET_PROTOCOL_MAXIMUM_PEER_ID

\* A peer after enet_peer_reset. The fields of the throttle and of the round
\* trip times are in module UdprThrottle; par stands for the three packet
\* throttle parameters that both ends of a connection agree on.
ResetPeer ==
  [state |-> "DISCONNECTED", to |-> 0, pid |-> NoPeer, session |-> 0, par |-> 0,
   seq |-> 0, acks |-> <<>>, sent |-> <<>>, rel |-> <<>>, unrel |-> <<>>,
   chans |-> NewChannels(0), groupOut |-> 0, groupIn |-> 0, window |-> {},
   inTransit |-> 0]

\* enet_peer_reset leaves the address alone.
Reset(p) == [ResetPeer EXCEPT !.to = p.to]

\* The queues are emptied and the channels freed; inTransit is left alone.
ResetQueues(p) ==
  [p EXCEPT !.acks = <<>>, !.sent = <<>>, !.rel = <<>>, !.unrel = <<>>,
            !.chans = NewChannels(0)]

Idle(p) == p.rel = <<>> /\ p.unrel = <<>> /\ p.sent = <<>>

----------------------------------------------------------------------------
\* Outgoing commands

\* The command takes its number and joins one of the two outgoing queues.
QueueOutgoing(p, c) ==
  LET next(i) == (i + 1) % Mod
      ch  == p.chans[c.ch]
      out == IF c.ch = Control
             THEN [peer |-> [p EXCEPT !.seq = next(@)],
                   cmd  |-> [c EXCEPT !.n = next(p.seq)]]
             ELSE IF c.ack
             THEN [peer |-> [p EXCEPT !.chans[c.ch].outR = next(@)],
                   cmd  |-> [c EXCEPT !.n = next(ch.outR)]]
             ELSE IF c.uns
             THEN [peer |-> [p EXCEPT !.groupOut = next(@)], cmd |-> c]
             ELSE [peer |-> [p EXCEPT !.chans[c.ch].outU = next(@)],
                   cmd  |-> [c EXCEPT !.n = ch.outR]]
  IN IF c.ack THEN [out.peer EXCEPT !.rel = Append(@, out.cmd)]
              ELSE [out.peer EXCEPT !.unrel = Append(@, out.cmd)]

\* Packet pkt of `count' fragments; one fragment means it needs none.
SendPacket(p, ch, kind, pkt, count) ==
  LET fragment(i) ==
        Command("FRAGMENT", ch, TRUE, FALSE,
                [start |-> (p.chans[ch].outR + 1) % Mod, number |-> i,
                 count |-> count, pkt |-> pkt])
      whole ==
        CASE kind = "RELIABLE" ->
               Command("RELIABLE", ch, TRUE, FALSE, [pkt |-> pkt])
          [] kind = "UNSEQUENCED" ->
               Command("UNSEQUENCED", ch, FALSE, TRUE,
                       [u |-> (p.groupOut + 1) % Mod, pkt |-> pkt])
          [] kind = "UNRELIABLE" ->
               Command("UNRELIABLE", ch, FALSE, FALSE,
                       [u |-> (p.chans[ch].outU + 1) % Mod, pkt |-> pkt])
  IN IF count > 1
     THEN FoldLeft(LAMBDA q, i : QueueOutgoing(q, fragment(i)), p,
                   [i \in 1 .. count |-> i - 1])
     ELSE QueueOutgoing(p, whole)

\* Slip: the channel of the acknowledged command is not compared.
SlipRemoveSent(p, n, ch) ==
  LET i == SelectInSeq(p.sent, LAMBDA c : c.n = n)
  IN IF i = 0 THEN p
     ELSE [p EXCEPT !.sent = RemoveAt(@, i), !.inTransit = @ - Length(p.sent[i])]

\* An acknowledgement removes the first sent command with its number.
RemoveSent(p, n, ch) ==
  LET i == SelectInSeq(p.sent, LAMBDA c : c.n = n /\ c.ch = ch)
  IN IF i = 0 THEN p
     ELSE [p EXCEPT !.sent = RemoveAt(@, i), !.inTransit = @ - Length(p.sent[i])]

\* The kind of the command that RemoveSent removes.
RemovedKind(p, n, ch) ==
  LET i == SelectInSeq(p.sent, LAMBDA c : c.n = n /\ c.ch = ch)
  IN IF i = 0 THEN "NONE" ELSE p.sent[i].cmd

----------------------------------------------------------------------------
\* Incoming commands

\* A number below Low that arrives while the counter is above High has wrapped.
Widen(n, counter) == IF counter >= High /\ n < Low THEN n + Mod ELSE n

\* The number is one the counter left behind before it wrapped.
LeftBehind(n, counter) == counter < Low /\ n % Mod >= High

\* The search for the place of number n among those of a queue, from its end
\* towards its front, over the elements in `eligible': the index after which it
\* goes, and whether it is there already. A widened number loses its extra bit as
\* soon as the search meets an element below High.
Search(numbers, eligible, n) ==
  LET at(i) == IF n >= Mod /\ \E j \in eligible : j >= i /\ numbers[j] < High
               THEN n - Mod ELSE n
      stops == {i \in eligible : numbers[i] <= at(i)}
      place == Max(stops \cup {0})
  IN [after |-> place,
      found |-> place # 0 /\ numbers[place] = at(place)]

\* Slip: a command is queued behind all others.
SlipSearchReliable(ch, n) ==
  [Search([i \in DOMAIN ch.inRel |-> ch.inRel[i].n], DOMAIN ch.inRel, n) EXCEPT !.after = Len(ch.inRel)]

SearchReliable(ch, n) ==
  Search([i \in DOMAIN ch.inRel |-> ch.inRel[i].n], DOMAIN ch.inRel, n)

SearchUnreliable(ch, u) ==
  Search([i \in DOMAIN ch.inUnrel |-> ch.inUnrel[i].u],
         {i \in DOMAIN ch.inUnrel : ch.inUnrel[i].cmd = "UNRELIABLE"}, u)

\* Slip: the unreliable number that was received last is not too late.
SlipStale(ch, c) ==
  LET n == Widen(c.n, ch.inR)
      u == Widen(c.u, ch.inU)
  IN CASE c.cmd \in {"RELIABLE", "FRAGMENT"} -> n <= ch.inR \/ LeftBehind(n, ch.inR)
       [] c.cmd = "UNRELIABLE" -> n < ch.inR \/ LeftBehind(n, ch.inR)
                                    \/ u < ch.inU \/ LeftBehind(u, ch.inU)
       [] OTHER -> FALSE

\* The command arrives too late for its channel.
Stale(ch, c) ==
  LET n == Widen(c.n, ch.inR)
      u == Widen(c.u, ch.inU)
  IN CASE c.cmd \in {"RELIABLE", "FRAGMENT"} ->
            n < ch.inR \/ LeftBehind(n, ch.inR) \/ n = ch.inR
       [] c.cmd = "UNRELIABLE" ->
            n < ch.inR \/ LeftBehind(n, ch.inR)
              \/ u <= ch.inU \/ LeftBehind(u, ch.inU)
       [] c.cmd = "UNSEQUENCED" -> FALSE

Duplicate(ch, c) ==
  CASE c.cmd \in {"RELIABLE", "FRAGMENT"} ->
         SearchReliable(ch, Widen(c.n, ch.inR)).found
    [] c.cmd = "UNRELIABLE" -> SearchUnreliable(ch, Widen(c.u, ch.inU)).found
    [] c.cmd = "UNSEQUENCED" -> FALSE

\* The packet is freed and nothing is queued.
Refused(p, c) ==
  \/ p.state = "DISCONNECT_LATER"
  \/ Stale(p.chans[c.ch], c)
  \/ Duplicate(p.chans[c.ch], c)

QueueIncoming(p, c) ==
  LET ch == p.chans[c.ch]
      queued ==
        CASE c.cmd \in {"RELIABLE", "FRAGMENT"} ->
               [ch EXCEPT !.inRel =
                  InsertAt(@, SearchReliable(ch, Widen(c.n, ch.inR)).after + 1, c)]
          [] c.cmd = "UNRELIABLE" ->
               [ch EXCEPT !.inUnrel =
                  InsertAt(@, SearchUnreliable(ch, Widen(c.u, ch.inU)).after + 1, c)]
          [] c.cmd = "UNSEQUENCED" -> [ch EXCEPT !.inUnrel = <<c>> \o @]
  IN IF Refused(p, c) THEN p ELSE [p EXCEPT !.chans[c.ch] = queued]

\* The group opens a new span: the window moves to it and is emptied.
OpensSpan(p, g) == g >= p.groupIn + Span \/ (p.groupIn >= High /\ g < Low)

SeenBefore(p, g) ==
  ~OpensSpan(p, g) /\ (g < p.groupIn \/ g % Span \in p.window)

\* enet_protocol_handle_send_unsequenced, for a peer that takes packets.
ReceiveUnsequenced(p, c) ==
  LET index == c.u % Span
      moved == IF OpensSpan(p, c.u)
               THEN [p EXCEPT !.groupIn = c.u - index, !.window = {index}]
               ELSE [p EXCEPT !.window = @ \cup {index}]
  IN IF SeenBefore(p, c.u) THEN p ELSE QueueIncoming(moved, c)

\* enet_protocol_handle_send_fragment, for a peer that takes packets. The
\* first fragment to arrive makes the entry of its packet, whichever it is;
\* the entry holds the fragments still missing. crash says that the entry the
\* code goes on to write to is the null pointer QueueIncoming returned.
ReceiveFragment(p, c) ==
  LET ch    == p.chans[c.ch]
      start == Widen(c.start, ch.inR)
      entry(i) == ch.inRel[i].cmd = "FRAGMENT" /\ ch.inRel[i].start = start % Mod
      known == {i \in DOMAIN ch.inRel : entry(i)}
      first == [c EXCEPT !.n = start % Mod, !.start = start % Mod]
               @@ [missing |-> 0 .. c.count - 1]
      q     == IF known = {} THEN QueueIncoming(p, first) ELSE p
      at    == Max({i \in DOMAIN q.chans[c.ch].inRel :
                      /\ q.chans[c.ch].inRel[i].cmd = "FRAGMENT"
                      /\ q.chans[c.ch].inRel[i].start = start % Mod})
      late  == start < ch.inR \/ LeftBehind(start, ch.inR)
  IN IF late THEN [peer |-> p, crash |-> FALSE]
     ELSE IF known = {} /\ Refused(p, first) THEN [peer |-> p, crash |-> TRUE]
     ELSE [peer |-> [q EXCEPT !.chans[c.ch].inRel[at].missing = @ \ {c.number}],
           crash |-> FALSE]

----------------------------------------------------------------------------
\* What the application receives: enet_peer_receive

UnreliableReady(ch) ==
  /\ ch.inUnrel # <<>>
  /\ Head(ch.inUnrel).cmd = "UNRELIABLE" => Head(ch.inUnrel).n = ch.inR

\* Slip: the front of the queue is received whatever its number.
SlipReliableReady(ch) ==
  /\ ch.inRel # <<>>
  /\ Head(ch.inRel).cmd = "FRAGMENT" => Head(ch.inRel).missing = {}

ReliableReady(ch) ==
  /\ ch.inRel # <<>>
  /\ Head(ch.inRel).cmd = "FRAGMENT" => Head(ch.inRel).missing = {}
  /\ Head(ch.inRel).n = (ch.inR + 1) % Mod

Ready(ch) == UnreliableReady(ch) \/ ReliableReady(ch)

\* The command whose packet is received next, for a channel that is ready.
NextReceived(ch) ==
  IF UnreliableReady(ch) THEN Head(ch.inUnrel) ELSE Head(ch.inRel)

Received(ch) ==
  LET c == NextReceived(ch)
  IN IF UnreliableReady(ch)
     THEN [ch EXCEPT !.inUnrel = Tail(@),
                     !.inU = IF c.cmd = "UNRELIABLE" THEN c.u ELSE @]
     ELSE [ch EXCEPT !.inRel = Tail(@),
                     !.inR = IF c.cmd = "FRAGMENT" THEN (c.n + c.count - 1) % Mod
                             ELSE c.n]
=============================================================================
