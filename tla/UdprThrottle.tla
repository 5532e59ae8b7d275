---------------------------- MODULE UdprThrottle ----------------------------
(***************************************************************************)
(* How a host of the reliable UDP library keeps to its bandwidth (host.c,  *)
(* peer.c, protocol.c). Once a second enet_host_bandwidth_throttle divides *)
(* the outgoing bandwidth among the peers as a limit of their throttle,    *)
(* and, when a limit or a connection changed, tells them how much of the   *)
(* incoming bandwidth they may use. Between those calls the round trip     *)
(* times of the acknowledgements move the throttle below its limit, and    *)
(* the throttle decides which unreliable packets are sent.                 *)
(*                                                                         *)
(* Every peer is established. A rate is in units per second, 0 when it is  *)
(* not limited, and a time in milliseconds.                                *)
(***************************************************************************)
EXTENDS Integers, Sequences, SequencesExt, FiniteSetsExt

CONSTANTS
  Word,        \* 2^32: enet_uint32 counts modulo Word
  HostRates,   \* the bandwidths of a host
  Lines,       \* the bandwidths that a peer told of itself
  Amounts,     \* the data queued for a peer between two divisions
  Trips,       \* the round trip times measured
  Steps        \* bound: calls and acknowledgements

VARIABLES
  host,    \* incomingBandwidth, outgoingBandwidth, recalculateBandwidthLimits
  peers,   \* the fields of ENetPeer that matter here
  announced, \* the BANDWIDTH_LIMIT last queued for each peer
  last,    \* the data and the time of the last division
  steps

throttleVars == <<host, peers, announced, last, steps>>

SCALE == 32        \* ENET_PEER_PACKET_THROTTLE_SCALE
COUNTER == 7       \* ENET_PEER_PACKET_THROTTLE_COUNTER
ACCELERATION == 2
DECELERATION == 2

NewPeer(line) ==
  [incoming |-> line[1], outgoing |-> line[2], limit |-> SCALE, throttle |-> SCALE,
   rtt |-> 500, variance |-> 0, lowest |-> 500, highest |-> 0, lastRtt |-> 500,
   lastVariance |-> 0]

NoDivision == [elapsed |-> 0, data |-> <<>>, outgoing |-> 0]

ThrottleInit ==
  /\ \E in, out \in HostRates : host = [incoming |-> in, outgoing |-> out, recalculate |-> TRUE]
  /\ \E lines \in Lines : peers = [i \in DOMAIN lines |-> NewPeer(lines[i])]
  /\ announced = <<>> /\ last = NoDivision /\ steps = 0

\* No host is served.
NoThrottle ==
  /\ host = [incoming |-> 0, outgoing |-> 0, recalculate |-> FALSE] /\ peers = <<>>
  /\ announced = <<>> /\ last = NoDivision /\ steps = Steps

-----------------------------------------------------------------------------
\* What a rate makes of a time, in the arithmetic of enet_uint32.
During(rate, elapsed) == ((rate * elapsed) % Word) \div 1000

Bandwidth(outgoing, elapsed) ==
  IF outgoing = 0 THEN Word - 1 ELSE During(outgoing, elapsed)


Clamped(p, limit) ==
  [p EXCEPT !.limit = limit, !.throttle = IF @ > limit THEN limit ELSE @]

Total(amounts, indices) == MapThenSumSet(LAMBDA i : amounts[i], indices)

\* One division: what is left of the bandwidth and of the data, and the peers
\* whose own line is the limit, with that limit.
Division(bandwidth, data) ==
  [bandwidth |-> bandwidth, dataTotal |-> Total(data, DOMAIN data), own |-> <<>>, again |-> TRUE]

Throttle(d) ==
  IF d.dataTotal < d.bandwidth THEN SCALE
  ELSE ((d.bandwidth * SCALE) % Word) \div d.dataTotal

\* The pass over the peers with one value of the throttle: a peer whose share is
\* more than its line takes gets what the line takes, and the others get the rest.
Pass(division, throttle, data, elapsed) ==
  LET visit(d, i) ==
        LET line == During(peers[i].incoming, elapsed)
            limit == ((line * SCALE) % Word) \div data[i]
        IN IF \/ peers[i].incoming = 0 \/ \E o \in ToSet(d.own) : o.peer = i
              \/ ((throttle * data[i]) % Word) \div SCALE <= line
           THEN d
           ELSE [bandwidth |-> (d.bandwidth - line) % Word,
                 dataTotal |-> (d.dataTotal - line) % Word,
                 own |-> Append(d.own, [peer |-> i, limit |-> IF limit = 0 THEN 1 ELSE limit]),
                 again |-> TRUE]
  IN FoldLeftDomain(visit, [division EXCEPT !.again = FALSE], peers)

\* The passes are repeated until one changes nothing, and the throttle of the
\* last one is the limit of the peers that have none of their own.
RECURSIVE Divide(_, _, _)
Divide(d, data, elapsed) ==
  LET throttle == Throttle(d)
      next == Pass(d, throttle, data, elapsed)
      own(i) == SelectInSeq(next.own, LAMBDA o : o.peer = i)
  IN IF next.again /\ Len(next.own) < Len(peers) THEN Divide(next, data, elapsed)
     ELSE [i \in DOMAIN peers |->
             Clamped(peers[i], IF own(i) # 0 THEN next.own[own(i)].limit ELSE throttle)]

-----------------------------------------------------------------------------
\* The incoming bandwidth: the peers that send less than an equal part of it keep
\* what they send, and the others divide the rest.
RECURSIVE Parts(_, _)
Parts(bandwidth, kept) ==
  LET remaining == DOMAIN peers \ kept
      part == bandwidth \div Cardinality(remaining)
      less == {i \in remaining : peers[i].outgoing = 0 \/ peers[i].outgoing < part}
      rest == bandwidth - MapThenSumSet(LAMBDA i : peers[i].outgoing, less)
  IN IF less # {} /\ less # remaining THEN Parts(rest, kept \cup less)
     ELSE [i \in DOMAIN peers |-> IF i \in kept \cup less THEN peers[i].outgoing ELSE part]

BandwidthLimits ==
  IF host.incoming = 0 THEN [i \in DOMAIN peers |-> 0] ELSE Parts(host.incoming, {})

\* enet_host_bandwidth_throttle, elapsed since it last did something.
DivideBandwidth(data, elapsed) ==
  /\ peers' = Divide(Division(Bandwidth(host.outgoing, elapsed), data), data, elapsed)
  /\ announced' = IF host.recalculate THEN BandwidthLimits ELSE announced
  /\ host' = [host EXCEPT !.recalculate = FALSE]
  /\ last' = [elapsed |-> elapsed, data |-> data, outgoing |-> host.outgoing]

\* enet_host_bandwidth_limit: the peers hear of it at the next division.
SetBandwidthLimit(in, out) ==
  /\ host' = [incoming |-> in, outgoing |-> out, recalculate |-> TRUE]
  /\ UNCHANGED <<peers, announced, last>>

-----------------------------------------------------------------------------
\* enet_peer_throttle: the throttle of a peer after a round trip time.
Throttled(p, rtt) ==
  IF p.lastRtt <= p.lastVariance THEN [p EXCEPT !.throttle = p.limit]
  ELSE IF rtt < p.lastRtt
    THEN [p EXCEPT !.throttle = Min({@ + ACCELERATION, p.limit})]
  ELSE IF rtt > p.lastRtt + 2 * p.lastVariance
    THEN [p EXCEPT !.throttle = IF @ > DECELERATION THEN @ - DECELERATION ELSE 0]
  ELSE p

\* The mean round trip time and its variance follow what is measured.
Measured(p, rtt) ==
  LET variance == p.variance - p.variance \div 4
      apart == IF rtt >= p.rtt THEN rtt - p.rtt ELSE p.rtt - rtt
      up == p.rtt + apart \div 8
  IN [p EXCEPT
        !.rtt = IF rtt >= @ THEN up ELSE @ - apart \div 8,
        \* in the first branch the mean has already moved
        !.variance = IF rtt >= p.rtt THEN variance + (rtt - up) \div 4
                     ELSE variance + (p.rtt - apart \div 8 - rtt) \div 4]

\* enet_protocol_handle_acknowledge, as far as it times; due: the throttle
\* interval is over, and the best of it is what later times are held against.
HandleAcknowledge(i, rtt, due) ==
  LET m == Measured(Throttled(peers[i], rtt), rtt)
      n == [m EXCEPT !.lowest = Min({@, m.rtt}), !.highest = Max({@, m.variance})]
  IN /\ peers' = [peers EXCEPT ![i] =
          IF due THEN [n EXCEPT !.lastRtt = n.lowest, !.lastVariance = n.highest,
                                !.lowest = n.rtt, !.highest = n.variance]
          ELSE n]
     /\ UNCHANGED <<host, announced, last>>

\* Whether the next unreliable packet of a peer is sent: the counter goes round.
NextCounter(counter) == (counter + COUNTER) % SCALE

Sends(p, counter) == NextCounter(counter) <= p.throttle

\* How many of the next n packets are sent.
RECURSIVE Sent(_, _, _)
Sent(p, counter, n) ==
  IF n = 0 THEN 0
  ELSE (IF Sends(p, counter) THEN 1 ELSE 0) + Sent(p, NextCounter(counter), n - 1)

ThrottleNext ==
  /\ steps < Steps /\ steps' = steps + 1
  /\ \/ \E data \in [DOMAIN peers -> Amounts], elapsed \in {1000, 1500} :
          DivideBandwidth(data, elapsed)
     \/ \E in, out \in HostRates : SetBandwidthLimit(in, out)
     \/ \E rtt \in Trips, due \in BOOLEAN : HandleAcknowledge(1, rtt, due)

-----------------------------------------------------------------------------
Share(i) == (peers[i].limit * last.data[i]) \div SCALE

\* The products of the last division are below 2^32, as they are for hosts of
\* less than 4 MB/s.
NoWrap ==
  /\ last.outgoing * last.elapsed < Word
  /\ During(last.outgoing, last.elapsed) * SCALE < Word
  /\ \A i \in DOMAIN peers : peers[i].incoming * last.elapsed < Word

=============================================================================
