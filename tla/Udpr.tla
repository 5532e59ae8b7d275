------------------------------- MODULE Udpr -------------------------------
(***************************************************************************)
(* The reliable UDP library (reliableudp, a copy of ENet): hosts with      *)
(* their peers, the handlers of the commands that arrive, the sending of   *)
(* what is queued with its timeouts, and the calls of the application.     *)
(* The network loses, duplicates and reorders datagrams.                   *)
(*                                                                         *)
(* A host runs in the thread of its application. enet_host_service is cut  *)
(* where the other host can matter: ServiceBegin (dispatch, throttle,      *)
(* send), one Receive per datagram, ServiceEnd (send, dispatch). Handlers  *)
(* are operators on a work record w: the host, the event found so far and  *)
(* the datagrams sent in this step.                                        *)
(*                                                                         *)
(* A definition named Slip... is a wrong variant of the one that follows   *)
(* it: replaced by it, the specification violates a property.              *)
(***************************************************************************)
EXTENDS UdprQueue

CONSTANTS
  Hosts,      \* addresses
  Slots,      \* Slots[h]: peerCount of host h
  Channels,   \* channels of a connection
  Scenarios   \* where the system starts and what may happen: see Scenario

VARIABLES
  host,   \* host[h]: [peers, last, recalc, status]
  net,    \* datagrams under way
  log,    \* log[h]: the events the application of h was given, in order
  posted, \* posted[h]: the packets the application of h sent, in order
  drawn,  \* drawn[s]: the host that drew session s from enet_rand, taken as fresh
  left    \* what is still allowed to happen

vars == <<host, net, log, posted, drawn, left>>

\* Where it can start: [joined, base, left]. The hosts are joined, with every
\* counter at `base', or have no connection yet. left bounds, by name, what the
\* applications, the clock and the network may still do.
Allowed(what) == left[what] > 0
Use(what) == left' = [left EXCEPT ![what] = @ - 1]

NoEvent == [type |-> "NONE"]    \* the caller passed an event to fill
NoPointer == [type |-> "NULL"]  \* the caller passed none

Work(h, event) ==
  [host |-> host[h], self |-> h, ev |-> event, out |-> {},
   slot |-> 0, ok |-> TRUE, more |-> FALSE, ret |-> FALSE]

Peer(w, i) == w.host.peers[i]
WithPeer(w, i, p) == [w EXCEPT !.host.peers[i] = p]
SlotsOf(w) == DOMAIN w.host.peers
Happened(w) == w.ev.type \notin {"NONE", "NULL"}
WithEvent(w, type, i) ==
  [w EXCEPT !.ev = [type |-> type, slot |-> i, session |-> Peer(w, i).session]]
Recalculate(w) == [w EXCEPT !.host.recalc = TRUE]
Ignore(w) == [w EXCEPT !.ok = FALSE]

----------------------------------------------------------------------------
\* The end of a connection

NotifyConnect(w, i) ==
  LET p == Peer(w, i)
      v == Recalculate(w)
  IN IF w.ev = NoPointer
     THEN WithPeer(v, i, [p EXCEPT !.state = IF @ = "CONNECTING"
                          THEN "CONNECTION_SUCCEEDED" ELSE "CONNECTION_PENDING"])
     ELSE WithEvent(WithPeer(v, i, [p EXCEPT !.state = "CONNECTED"]), "CONNECT", i)

\* Slip: the peer is kept for the next dispatch although the event is there.
SlipNotifyDisconnect(w, i) ==
  LET p == Peer(w, i)
      v == Recalculate(w)
  IN IF p.state \in {"DISCONNECTED", "ACKNOWLEDGING_CONNECT", "CONNECTION_PENDING"}
     THEN WithPeer(v, i, Reset(p))
     ELSE WithPeer(IF w.ev = NoPointer THEN v ELSE WithEvent(v, "DISCONNECT", i), i,
                   [p EXCEPT !.state = "ZOMBIE"])

NotifyDisconnect(w, i) ==
  LET p == Peer(w, i)
      early == {"DISCONNECTED", "CONNECTING", "ACKNOWLEDGING_CONNECT"}
      v == IF p.state \in early THEN w ELSE Recalculate(w)
  IN IF p.state \in {"DISCONNECTED", "ACKNOWLEDGING_CONNECT", "CONNECTION_PENDING"}
     THEN WithPeer(v, i, Reset(p))
     ELSE IF w.ev = NoPointer
     THEN WithPeer(v, i, [p EXCEPT !.state = "ZOMBIE"])
     ELSE WithPeer(WithEvent(v, "DISCONNECT", i), i, Reset(p))

\* enet_peer_disconnect for a peer whose connection is established: the other
\* end is asked, and its acknowledgement awaited.
AskToDisconnect(p) ==
  [QueueOutgoing(ResetQueues(p), Command("DISCONNECT", Control, TRUE, FALSE, <<>>))
     EXCEPT !.state = "DISCONNECTING"]

Established(p) == p.state \in {"CONNECTED", "DISCONNECT_LATER"}

----------------------------------------------------------------------------
\* Commands that arrive. Every handler leaves ok FALSE where the code returns
\* an error, which ends the datagram.

\* The connection asked for is one the host has accepted already.
Known(w, d, c) ==
  \E i \in SlotsOf(w) : /\ Peer(w, i).state # "DISCONNECTED"
                        /\ Peer(w, i).to = d.from
                        /\ Peer(w, i).session = c.session

HandleConnect(w, d, c) ==
  LET free == {i \in SlotsOf(w) : Peer(w, i).state = "DISCONNECTED"}
      i == Min(free)
      p == [Peer(w, i) EXCEPT !.state = "ACKNOWLEDGING_CONNECT",
                              !.session = c.session, !.to = d.from, !.pid = c.pid,
                              !.par = c.par, !.chans = NewChannels(c.count)]
      verify == Command("VERIFY_CONNECT", Control, TRUE, FALSE,
                        [pid |-> i, count |-> c.count, par |-> c.par])
  IN IF Known(w, d, c) \/ free = {} THEN [Ignore(w) EXCEPT !.slot = 0]
     ELSE [WithPeer(w, i, QueueOutgoing(p, verify)) EXCEPT !.slot = i]

HandleVerifyConnect(w, i, c) ==
  LET p == Peer(w, i)
      agreed == c.count = Cardinality(DOMAIN p.chans) /\ c.par = p.par
  IN IF p.state # "CONNECTING" THEN Ignore(w)
     ELSE IF ~agreed THEN Ignore(WithPeer(w, i, [p EXCEPT !.state = "ZOMBIE"]))
     ELSE NotifyConnect(
            WithPeer(w, i, [RemoveSent(p, 1, Control) EXCEPT !.pid = c.pid]), i)

HandleAcknowledge(w, i, c) ==
  LET p == Peer(w, i)
      kind == RemovedKind(p, c.of, c.ch)
      q == RemoveSent(p, c.of, c.ch)
      v == WithPeer(w, i, q)
  IN CASE p.state = "ACKNOWLEDGING_CONNECT" ->
            IF kind # "VERIFY_CONNECT" THEN Ignore(v) ELSE NotifyConnect(v, i)
       [] p.state = "DISCONNECTING" ->
            IF kind # "DISCONNECT" THEN Ignore(v) ELSE NotifyDisconnect(v, i)
       [] p.state = "DISCONNECT_LATER" /\ Idle(q) ->
            WithPeer(w, i, AskToDisconnect(q))
       [] OTHER -> v

HandleDisconnect(w, i, c) ==
  LET p == ResetQueues(Peer(w, i))
      state(s) == WithPeer(w, i, [p EXCEPT !.state = s])
  IN CASE p.state = "CONNECTION_SUCCEEDED" -> state("ZOMBIE")
       [] Established(p) ->
            IF c.ack THEN state("ACKNOWLEDGING_DISCONNECT") ELSE state("ZOMBIE")
       [] p.state = "CONNECTION_PENDING" -> Recalculate(WithPeer(w, i, Reset(p)))
       [] OTHER -> WithPeer(w, i, Reset(p))

\* The four commands that carry a packet.
HandlePacket(w, i, c) ==
  LET p == Peer(w, i)
      f == ReceiveFragment(p, c)
  IN IF c.ch \notin DOMAIN p.chans \/ ~Established(p) THEN Ignore(w)
     ELSE CASE c.cmd = "UNSEQUENCED" -> WithPeer(w, i, ReceiveUnsequenced(p, c))
            [] c.cmd = "FRAGMENT" /\ f.crash -> [Ignore(w) EXCEPT !.host.status = "crashed"]
            [] c.cmd = "FRAGMENT" -> WithPeer(w, i, f.peer)
            [] OTHER -> WithPeer(w, i, QueueIncoming(p, c))

\* The throttle parameters of the other end become those of the peer. A ping
\* and a bandwidth limit change nothing that this module keeps.
HandleCommand(w, d, c) ==
  LET i == w.slot
  IN CASE c.cmd = "CONNECT" -> HandleConnect(w, d, c)
       [] c.cmd = "VERIFY_CONNECT" -> HandleVerifyConnect(w, i, c)
       [] c.cmd = "ACK" -> HandleAcknowledge(w, i, c)
       [] c.cmd = "DISCONNECT" -> HandleDisconnect(w, i, c)
       [] HasPacket(c) -> HandlePacket(w, i, c)
       [] c.cmd = "THROTTLE" -> WithPeer(w, i, [Peer(w, i) EXCEPT !.par = c.par])
       [] OTHER -> w

\* After a command that must be acknowledged. Without the sent time there is
\* nothing to acknowledge with, and the rest of the datagram is left.
Acknowledge(w, d, c) ==
  LET i == w.slot
      p == Peer(w, i)
      queued == WithPeer(w, i, [p EXCEPT !.acks = Append(@, [ch |-> c.ch, n |-> c.n,
                                          bye |-> c.cmd = "DISCONNECT"])])
  IN IF ~d.timed THEN Ignore(w)
     ELSE CASE p.state \in {"DISCONNECTING", "ACKNOWLEDGING_CONNECT"} -> w
            [] p.state = "ACKNOWLEDGING_DISCONNECT" ->
                 IF c.cmd = "DISCONNECT" THEN queued ELSE w
            [] OTHER -> queued

HandleCommands(w, d) ==
  LET finish(v, c) == IF v.ok /\ c.ack THEN Acknowledge(v, d, c) ELSE v
      step(v, c) == IF ~v.ok THEN v
                    ELSE IF v.slot = 0 /\ c.cmd # "CONNECT" THEN Ignore(v)
                    ELSE finish(HandleCommand(v, d, c), c)
  IN FoldLeft(step, w, d.cmds)

\* A datagram for an established slot must come from its address; its session
\* is compared only when it carries a checksum.
Addressed(w, d) ==
  /\ d.pid \in SlotsOf(w)
  /\ Peer(w, d.pid).state \notin {"DISCONNECTED", "ZOMBIE"}
  /\ Peer(w, d.pid).to = d.from
  /\ d.crc => d.session = Peer(w, d.pid).session

HandleDatagram(w, d) ==
  IF d.pid = NoPeer THEN HandleCommands([w EXCEPT !.slot = 0], d)
  ELSE IF Addressed(w, d) THEN HandleCommands([w EXCEPT !.slot = d.pid], d)
  ELSE w
----------------------------------------------------------------------------
\* Sending. A choice c holds what the clock and the throttle decide in one call:
\* late: the slots whose sent commands c.rto have timed out; gone: those that
\* are given up; ping: those that are pinged; crc: those that add a checksum;
\* drop: the throttle drops the unreliable packets.

\* Slip: what has timed out still counts as under way.
SlipRetransmit(p, late) ==
  LET old == [i \in 1 .. Len(p.sent) |-> IF i \in late THEN <<p.sent[i]>> ELSE <<>>]
      kept == [i \in 1 .. Len(p.sent) |-> IF i \in late THEN <<>> ELSE <<p.sent[i]>>]
  IN [p EXCEPT !.rel = Reverse(FlattenSeq(old)) \o @, !.sent = FlattenSeq(kept)]

\* The commands that have timed out go to the front of the queue, one by one.
Retransmit(p, late) ==
  LET old == [i \in 1 .. Len(p.sent) |-> IF i \in late THEN <<p.sent[i]>> ELSE <<>>]
      kept == [i \in 1 .. Len(p.sent) |-> IF i \in late THEN <<>> ELSE <<p.sent[i]>>]
  IN [p EXCEPT !.rel = Reverse(FlattenSeq(old)) \o @, !.sent = FlattenSeq(kept),
               !.inTransit = @ - Data(FlattenSeq(old))]

\* How many commands of a queue fit in a datagram that holds `used' already.
FitRoom(queue, used) ==
  Max({k \in 0 .. Len(queue) : used + Data(SubSeq(queue, 1, k)) <= Room})

FitWindow(p) ==
  Max({k \in 0 .. Len(p.rel) : p.inTransit + Data(SubSeq(p.rel, 1, k)) <= WindowSize
         \/ Data(SubSeq(p.rel, 1, k)) = 0})

\* A datagram in the making for slot i: g.work, g.cmds and whether the time at
\* which it is sent goes with it.
SendAcknowledgements(w, i) ==
  LET p == Peer(w, i)
      acks == [j \in 1 .. Len(p.acks) |->
                 Command("ACK", p.acks[j].ch, FALSE, FALSE, [of |-> p.acks[j].n])]
      bye == \E j \in 1 .. Len(p.acks) : p.acks[j].bye
  IN [work |-> WithPeer(w, i, [p EXCEPT !.acks = <<>>,
                                        !.state = IF bye THEN "ZOMBIE" ELSE @]),
      cmds |-> acks, timed |-> FALSE]

\* The commands that both the window and the datagram have room for.
SendReliable(g, i, window, room) ==
  LET p == Peer(g.work, i)
      k == Min({window, room})
      go == SubSeq(p.rel, 1, k)
  IN [work |-> [WithPeer(g.work, i, [p EXCEPT !.rel = SubSeq(@, k + 1, Len(@)),
                                             !.sent = @ \o go,
                                             !.inTransit = @ + Data(go)])
                  EXCEPT !.more = @ \/ room < window],
      cmds |-> g.cmds \o go, timed |-> g.timed \/ k > 0]

SendUnreliable(g, i, kept) ==
  LET k == FitRoom(kept, Data(g.cmds))
      waiting(p) == [p EXCEPT !.unrel = SubSeq(kept, k + 1, Len(kept))]
      closing(p) == IF p.state = "DISCONNECT_LATER" /\ Idle(p) THEN AskToDisconnect(p) ELSE p
  IN [work |-> [WithPeer(g.work, i, closing(waiting(Peer(g.work, i))))
                  EXCEPT !.more = @ \/ k < Len(kept)],
      cmds |-> g.cmds \o SubSeq(kept, 1, k), timed |-> g.timed]

Ping(p) ==
  IF p.state # "CONNECTED" THEN p
  ELSE QueueOutgoing(p, Command("PING", Control, TRUE, FALSE, <<>>))

AddTimedOut(g, i, late) ==
  [g EXCEPT !.work = WithPeer(@, i, Retransmit(Peer(@, i), late))]

AddPing(g, i, c) ==
  LET p == Peer(g.work, i)
  IN IF p.rel = <<>> /\ p.sent = <<>> /\ i \in c.ping
     THEN [g EXCEPT !.work = WithPeer(@, i, Ping(p))] ELSE g

AddReliable(g, i) ==
  LET p == Peer(g.work, i)
  IN IF p.rel = <<>> THEN g
     ELSE SendReliable(g, i, FitWindow(p), FitRoom(p.rel, Data(g.cmds)))

AddUnreliable(g, i, c) ==
  LET p == Peer(g.work, i)
  IN IF p.unrel = <<>> THEN g
     ELSE SendUnreliable(g, i, IF c.drop THEN SelectSeq(p.unrel, LAMBDA x : ~HasPacket(x))
                               ELSE p.unrel)

\* It goes to the peer as the peer was when its turn came: a disconnection that
\* the last unreliable command completes changes none of these fields.
Post(g, i, c) ==
  LET p == Peer(g.work, i)
      datagram == [from |-> g.work.self, to |-> p.to, pid |-> p.pid,
                   session |-> p.session, crc |-> i \in c.crc, timed |-> g.timed,
                   cmds |-> g.cmds]
  IN IF g.cmds = <<>> THEN g.work ELSE [g.work EXCEPT !.out = @ \cup {datagram}]

\* One peer's turn in enet_protocol_send_outgoing_commands: at most one datagram.
\* A peer that is given up ends the call, and the acknowledgements that were
\* already taken from its queue are not sent.
SendTo(w, i, late, c) ==
  IF Peer(w, i).state \in {"DISCONNECTED", "ZOMBIE"} \/ w.ret THEN w
  ELSE IF late # {} /\ i \in c.gone
  THEN [NotifyDisconnect(SendAcknowledgements(w, i).work, i) EXCEPT !.ret = TRUE]
  ELSE Post(AddUnreliable(AddReliable(AddPing(
              AddTimedOut(SendAcknowledgements(w, i), i, late), i, c), i), i, c), i, c)

\* Passes over all peers, as long as one was left with more to send than fits.
\* What times out does so in the first.
SendOutgoing(w, c) ==
  LET pass(v, k) ==
        IF k > 1 /\ (v.ret \/ ~v.more) THEN v
        ELSE FoldLeft(LAMBDA u, i : SendTo(u, i, IF k = 1 THEN c.late[i] ELSE {}, c),
                      [v EXCEPT !.more = FALSE], [i \in SlotsOf(w) |-> i])
      queued == {Len(Peer(w, i).rel) + Len(Peer(w, i).unrel) + Len(Peer(w, i).sent) :
                   i \in SlotsOf(w)}
  IN FoldLeft(pass, w, [k \in 1 .. 1 + Max(queued) * Len(w.host.peers) |-> k])

----------------------------------------------------------------------------
\* Events

ReadyChannels(p) == {ch \in DOMAIN p.chans : Ready(p.chans[ch])}

\* The slots in the order in which the next dispatch looks at them.
RoundRobin(w) ==
  LET n == Len(w.host.peers)
  IN [k \in 1 .. n |-> ((w.host.last + k - 1) % n) + 1]

Dispatch(w) ==
  LET due(i) == \/ Peer(w, i).state \in
                      {"CONNECTION_PENDING", "CONNECTION_SUCCEEDED", "ZOMBIE"}
                \/ Peer(w, i).state = "CONNECTED" /\ ReadyChannels(Peer(w, i)) # {}
      at == SelectInSeq(RoundRobin(w), due)
      i == RoundRobin(w)[at]
      p == Peer(w, i)
      ch == Min(ReadyChannels(p))
      served(v) == [v EXCEPT !.host.last = i]
  IN IF at = 0 THEN w
     ELSE CASE p.state = "ZOMBIE" ->
                 served(WithPeer(Recalculate(WithEvent(w, "DISCONNECT", i)), i, Reset(p)))
            [] p.state = "CONNECTED" ->
                 served([WithPeer(WithEvent(w, "RECEIVE", i), i,
                                  [p EXCEPT !.chans[ch] = Received(@)])
                           EXCEPT !.ev = @ @@ [pkt |-> NextReceived(p.chans[ch]).pkt]])
            [] OTHER -> WithPeer(WithEvent(w, "CONNECT", i), i,
                                 [p EXCEPT !.state = "CONNECTED"])

\* enet_host_bandwidth_throttle: the limits of a host are told to its peers once
\* a connection has come or gone. With no peer established it does nothing.
BandwidthThrottle(w) ==
  LET told == {i \in SlotsOf(w) : Established(Peer(w, i))}
      limit == Command("BANDWIDTH_LIMIT", Control, TRUE, FALSE, <<>>)
  IN IF told = {} \/ ~w.host.recalc THEN w
     ELSE [w EXCEPT !.host.recalc = FALSE,
                    !.host.peers = [i \in DOMAIN @ |-> IF i \in told
                                    THEN QueueOutgoing(@[i], limit) ELSE @[i]]]

----------------------------------------------------------------------------
\* Steps

\* The step of host h ends with work w.
Commit(h, w) ==
  /\ host' = [host EXCEPT ![h] = w.host]
  /\ log' = IF Happened(w) THEN [log EXCEPT ![h] = Append(@, w.ev)] ELSE log

Status(w, status) ==
  [w EXCEPT !.host.status = IF @ = "crashed" THEN @ ELSE status]

Slot(h) == DOMAIN host[h].peers

\* What may time out: of each slot a set of sent commands, the front among them
\* because it is always the first whose time comes. Nothing without the check.
LateSets(h, check) ==
  LET sets(i) == {x \in SUBSET DOMAIN host[h].peers[i].sent :
                    x # {} => check /\ 1 \in x /\ Cardinality(x) <= left.timeouts}
  IN {late \in [Slot(h) -> UNION {sets(i) : i \in Slot(h)}] :
        \A i \in Slot(h) : late[i] \in sets(i)}

Pingable(h) ==
  {i \in Slot(h) : LET p == host[h].peers[i]
                   IN p.state = "CONNECTED" /\ p.rel = <<>> /\ p.sent = <<>>}

Decisions(h, check) ==
  UNION {[late : {late},
          gone : IF Allowed("gone") THEN SUBSET {i \in Slot(h) : late[i] # {}} ELSE {{}},
          ping : IF Allowed("pings") THEN {{}, Pingable(h)} ELSE {{}},
          crc : IF Allowed("plain") THEN {{}, Slot(h)} ELSE {Slot(h)},
          drop : IF Allowed("drops") THEN BOOLEAN ELSE {FALSE}] :
         late \in LateSets(h, check)}

Spent(before, c, v) ==
  LET one(b) == IF b THEN 1 ELSE 0
      late == FoldLeft(LAMBDA sum, x : sum + Cardinality(x), 0, c.late)
  IN [before EXCEPT !.timeouts = @ - late, !.gone = @ - Cardinality(c.gone),
                  !.pings = @ - one(c.ping # {}), !.drops = @ - one(c.drop),
                  !.plain = @ - one(c.crc = {} /\ v.out # {})]

EventOf(h) == IF host[h].status = "mute" THEN NoPointer ELSE NoEvent

\* enet_host_service: an event that is already there is returned at once.
ServeEvent(h) ==
  /\ host[h].status = "idle"
  /\ LET w == Dispatch(Work(h, NoEvent)) IN Happened(w) /\ Commit(h, w)
  /\ UNCHANGED <<net, posted, drawn, left>>

\* Otherwise, or when the caller passes no event, what is queued is sent, and the
\* host starts to receive unless a connection is given up. limits: the limits are
\* told before.
ServiceBegin(h, mute, limits) ==
  LET before == [left EXCEPT !.limits = IF limits THEN @ - 1 ELSE @,
                             !.mute = IF mute THEN @ - 1 ELSE @]
      start(w) == IF limits THEN BandwidthThrottle(w) ELSE w
      begin(v, c) == /\ Commit(h, Status(v, CASE v.ret -> "idle" [] mute -> "mute"
                                             [] OTHER -> "receiving"))
                     /\ net' = net \cup v.out
                     /\ left' = Spent(before, c, v)
  IN /\ host[h].status = "idle"
     /\ mute => Allowed("mute")
     /\ limits => Allowed("limits") /\ host[h].recalc
     /\ mute \/ Dispatch(Work(h, NoEvent)).ev = NoEvent
     /\ \E c \in Decisions(h, TRUE) :
          begin(SendOutgoing(start(Work(h, IF mute THEN NoPointer ELSE NoEvent)), c), c)
     /\ UNCHANGED <<posted, drawn>>

\* One datagram; the network may keep a copy of it.
Receive(h, copied) ==
  LET receive(w) == Commit(h, IF Happened(w) THEN Status(w, "idle") ELSE w)
  IN /\ host[h].status \in {"receiving", "mute"}
     /\ copied => Allowed("copies")
     /\ \E d \in {e \in net : e.to = h} :
          /\ receive(HandleDatagram(Work(h, EventOf(h)), d))
          /\ net' = IF copied THEN net ELSE net \ {d}
     /\ left' = [left EXCEPT !.copies = IF copied THEN @ - 1 ELSE @]
     /\ UNCHANGED <<posted, drawn>>

ServiceEnd(h) ==
  LET end(v, c) == /\ Commit(h, Status(IF v.ret \/ v.ev = NoPointer THEN v ELSE Dispatch(v),
                                       "idle"))
                   /\ net' = net \cup v.out
                   /\ left' = Spent(left, c, v)
  IN /\ host[h].status \in {"receiving", "mute"}
     /\ \E c \in Decisions(h, TRUE) : end(SendOutgoing(Work(h, EventOf(h)), c), c)
     /\ UNCHANGED <<posted, drawn>>

Lose ==
  /\ Allowed("losses")
  /\ \E d \in net : net' = net \ {d}
  /\ Use("losses")
  /\ UNCHANGED <<host, log, posted, drawn>>

----------------------------------------------------------------------------
\* Calls of the application, made while its host is not in enet_host_service

Connect(h, to) ==
  /\ host[h].status = "idle" /\ Allowed("connects")
  /\ LET w == Work(h, NoPointer)
         free == {i \in Slot(h) : host[h].peers[i].state = "DISCONNECTED"}
         i == Min(free)
         connect == Command("CONNECT", Control, TRUE, FALSE,
                            [pid |-> i, count |-> Channels, par |-> host[h].peers[i].par,
                             session |-> Len(drawn) + 1])
         p == [host[h].peers[i] EXCEPT !.state = "CONNECTING", !.to = to,
                                       !.session = Len(drawn) + 1,
                                       !.chans = NewChannels(Channels)]
     IN /\ free # {}
        /\ Commit(h, WithPeer(w, i, QueueOutgoing(p, connect)))
  /\ drawn' = Append(drawn, h)
  /\ Use("connects")
  /\ UNCHANGED <<net, posted>>

\* enet_peer_send: the packet may be one of several fragments.
Send(h, i, ch, kind) ==
  /\ host[h].status = "idle" /\ Allowed(kind)
  /\ LET p == host[h].peers[i]
         sent == SendPacket(p, ch, kind, Len(posted[h]) + 1,
                            IF kind = "FRAGMENT" THEN 2 ELSE 1)
     IN /\ p.state = "CONNECTED" /\ ch \in DOMAIN p.chans
        /\ Commit(h, WithPeer(Work(h, NoPointer), i, sent))
        /\ posted' = [posted EXCEPT ![h] = Append(@, [ch |-> ch, kind |-> kind,
                                                 sessions |-> {p.session}])]
  /\ Use(kind)
  /\ UNCHANGED <<net, drawn>>

Broadcast(h, ch) ==
  /\ host[h].status = "idle" /\ Allowed("casts")
  /\ LET to == {i \in Slot(h) : host[h].peers[i].state = "CONNECTED"}
         w == Work(h, NoPointer)
         cast(v, i) == IF i \notin to THEN v
                       ELSE WithPeer(v, i, SendPacket(Peer(v, i), ch, "RELIABLE",
                                                      Len(posted[h]) + 1, 1))
     IN /\ ch \in 0 .. Channels - 1
        /\ Commit(h, FoldLeft(cast, w, [i \in Slot(h) |-> i]))
        /\ posted' = [posted EXCEPT ![h] = Append(@, [ch |-> ch, kind |-> "RELIABLE",
                          sessions |-> {host[h].peers[i].session : i \in to}])]
  /\ Use("casts")
  /\ UNCHANGED <<net, drawn>>

\* The calls below change one peer and send nothing.
Change(h, i, what, p) ==
  /\ host[h].status = "idle" /\ Allowed(what)
  /\ Commit(h, WithPeer(Work(h, NoPointer), i, p))
  /\ Use(what)
  /\ UNCHANGED <<net, posted, drawn>>

\* The other end is told in a command that it need not acknowledge, sent at
\* once, and the peer is reset.
TellAndReset(h, i, what) ==
  LET bye == Command("DISCONNECT", Control, FALSE, TRUE, <<>>)
      told == WithPeer(Work(h, NoPointer), i, QueueOutgoing(ResetQueues(host[h].peers[i]), bye))
      flushed(v, c) == /\ Commit(h, WithPeer(v, i, Reset(Peer(v, i))))
                       /\ net' = net \cup v.out
                       /\ left' = Spent([left EXCEPT ![what] = @ - 1], c, v)
  IN /\ host[h].status = "idle" /\ Allowed(what)
     /\ \E c \in Decisions(h, FALSE) : flushed(SendOutgoing(told, c), c)
     /\ UNCHANGED <<posted, drawn>>

Disconnect(h, i) ==
  LET p == host[h].peers[i]
  IN IF Established(p) THEN Change(h, i, "closes", AskToDisconnect(p))
     ELSE /\ p.state \notin {"DISCONNECTING", "DISCONNECTED", "ZOMBIE"}
          /\ TellAndReset(h, i, "closes")

DisconnectLater(h, i) ==
  LET p == host[h].peers[i]
  IN IF Established(p) /\ ~Idle(p)
     THEN Change(h, i, "latercloses", [p EXCEPT !.state = "DISCONNECT_LATER"])
     ELSE Allowed("latercloses") /\ Disconnect(h, i)

DisconnectNow(h, i) ==
  LET p == host[h].peers[i]
  IN IF p.state \in {"ZOMBIE", "DISCONNECTING"}
     THEN Change(h, i, "nowcloses", Reset(p))
     ELSE p.state # "DISCONNECTED" /\ TellAndReset(h, i, "nowcloses")

ResetCall(h, i) ==
  /\ host[h].peers[i].state # "DISCONNECTED"
  /\ Change(h, i, "resets", Reset(host[h].peers[i]))

PingCall(h, i) ==
  /\ host[h].peers[i].state = "CONNECTED"
  /\ Change(h, i, "pings", Ping(host[h].peers[i]))

\* enet_peer_throttle_configure: both ends take the new parameters.
ThrottleConfigure(h, i) ==
  LET p == host[h].peers[i]
      configure == Command("THROTTLE", Control, TRUE, FALSE, [par |-> p.par + 1])
  IN /\ p.state \notin {"DISCONNECTED", "ZOMBIE"}
     /\ Change(h, i, "configures", QueueOutgoing([p EXCEPT !.par = @ + 1], configure))

BandwidthLimit(h) ==
  /\ host[h].status = "idle" /\ Allowed("limits") /\ ~host[h].recalc
  /\ Commit(h, Recalculate(Work(h, NoPointer)))
  /\ Use("limits")
  /\ UNCHANGED <<net, posted, drawn>>

\* The application ends: the host is destroyed and tells nobody.
Destroy(h) ==
  /\ host[h].status = "idle" /\ Allowed("destroys")
  /\ host' = [host EXCEPT ![h] = [@ EXCEPT !.status = "destroyed",
                                          !.peers = [i \in DOMAIN @ |-> Reset(@[i])]]]
  /\ Use("destroys")
  /\ UNCHANGED <<net, log, posted, drawn>>

Application(h) ==
  \/ \E to \in Hosts \ {h} : Connect(h, to)
  \/ \E i \in Slot(h), ch \in 0 .. Channels - 1,
        kind \in {"RELIABLE", "UNRELIABLE", "UNSEQUENCED", "FRAGMENT"} : Send(h, i, ch, kind)
  \/ \E ch \in 0 .. Channels - 1 : Broadcast(h, ch)
  \/ \E i \in Slot(h) :
       \/ Disconnect(h, i) \/ DisconnectLater(h, i) \/ DisconnectNow(h, i)
       \/ ResetCall(h, i) \/ PingCall(h, i) \/ ThrottleConfigure(h, i)
  \/ BandwidthLimit(h)
  \/ Destroy(h)

Service(h) ==
  \/ ServeEvent(h)
  \/ \E mute, limits \in BOOLEAN : ServiceBegin(h, mute, limits)
  \/ \E copied \in BOOLEAN : Receive(h, copied)
  \/ ServiceEnd(h)

Next == Lose \/ \E h \in Hosts : Service(h) \/ Application(h)

----------------------------------------------------------------------------
\* Where it starts

NewHost(h) == [peers |-> [i \in Slots[h] |-> ResetPeer], last |-> 1,
               recalc |-> FALSE, status |-> "idle"]

\* Slot 1 of h is connected to slot 1 of the other host; all counters of their
\* channels have reached `base'.
JoinedHost(h, base) ==
  LET other == CHOOSE k \in Hosts : k # h
      channel == [NewChannel EXCEPT !.outR = base, !.outU = base, !.inR = base, !.inU = base]
  IN [NewHost(h) EXCEPT !.peers[1] =
        [ResetPeer EXCEPT !.state = "CONNECTED", !.to = other, !.pid = 1, !.session = 1,
                          !.seq = 1, !.groupOut = base, !.groupIn = base - (base % Span),
                          !.window = IF base = 0 THEN {} ELSE 0 .. base % Span,
                          !.chans = [c \in 0 .. Channels - 1 |-> channel]]]

Init ==
  \E s \in Scenarios :
    /\ host = [h \in Hosts |-> IF s.joined THEN JoinedHost(h, s.base) ELSE NewHost(h)]
    /\ net = {}
    /\ log = [h \in Hosts |->
               IF s.joined THEN <<[type |-> "CONNECT", slot |-> 1, session |-> 1]>> ELSE <<>>]
    /\ posted = [h \in Hosts |-> <<>>]
    /\ drawn = IF s.joined THEN <<CHOOSE h \in Hosts : TRUE>> ELSE <<>>
    /\ left = s.left

Spec == Init /\ [][Next]_vars

----------------------------------------------------------------------------
\* What the applications see

Other(h) == CHOOSE k \in Hosts : k # h
Sessions == DOMAIN drawn
AllChannels == 0 .. Channels - 1

\* The numbers of the packets of these kinds that h sent on a channel of a
\* session, and of those that its application received, in order.
SentOn(h, s, ch, kinds) ==
  SelectSeq([k \in 1 .. Len(posted[h]) |-> k],
            LAMBDA k : /\ s \in posted[h][k].sessions
                       /\ posted[h][k].ch = ch /\ posted[h][k].kind \in kinds)

ReceivedOn(h, s, ch, kinds) ==
  LET mine == SelectSeq(log[h], LAMBDA e :
                /\ e.type = "RECEIVE" /\ e.session = s
                /\ posted[Other(h)][e.pkt].ch = ch /\ posted[Other(h)][e.pkt].kind \in kinds)
  IN [k \in 1 .. Len(mine) |-> mine[k].pkt]

Reliable == {"RELIABLE", "FRAGMENT"}

States == {"DISCONNECTED", "CONNECTING", "ACKNOWLEDGING_CONNECT", "CONNECTION_PENDING",
           "CONNECTION_SUCCEEDED", "CONNECTED", "DISCONNECT_LATER", "DISCONNECTING",
           "ACKNOWLEDGING_DISCONNECT", "ZOMBIE"}

\* Every counter is a 16-bit number, every queue holds commands of its kind, and
\* a peer that is not in use has neither a session nor channels. What is counted
\* as in transit is what was sent and not acknowledged, and stays in the window.
TypeOK ==
  \A h \in Hosts :
    /\ host[h].status \in {"idle", "receiving", "mute", "destroyed", "crashed"}
    /\ host[h].last \in Slot(h)
    /\ \A i \in Slot(h) :
         LET p == host[h].peers[i]
         IN /\ p.state \in States
            /\ {p.seq, p.groupOut, p.groupIn} \subseteq 0 .. Mod - 1
            /\ p.window \subseteq 0 .. Span - 1
            /\ p.inTransit \in Nat
            /\ Established(p) => p.inTransit = Data(p.sent) /\ p.inTransit <= WindowSize
            /\ \A c \in Range(p.rel \o p.sent) : c.ack
            /\ \A c \in Range(p.unrel) : ~c.ack
            /\ p.state = "DISCONNECTED" => p.session = 0 /\ p.chans = NewChannels(0)
            /\ \A ch \in DOMAIN p.chans :
                 LET k == p.chans[ch]
                 IN /\ {k.outR, k.outU, k.inR, k.inU} \subseteq 0 .. Mod - 1
                    /\ \A c \in Range(k.inRel) : c.cmd \in Reliable
                    /\ \A c \in Range(k.inUnrel) : c.cmd \notin Reliable

\* Reliable packets arrive as they were sent on their channel: each once, in
\* order, none left out, whatever the network repeats, reorders or loses.
ReliableInOrder ==
  \A h \in Hosts, s \in Sessions, ch \in AllChannels :
    IsPrefix(ReceivedOn(h, s, ch, Reliable), SentOn(Other(h), s, ch, Reliable))

\* Unreliable packets may be lost, but those that arrive do so in the order in
\* which they were sent, and none twice. An unsequenced packet arrives at most once.
UnreliableInOrder ==
  \A h \in Hosts, s \in Sessions, ch \in AllChannels :
    LET got == ReceivedOn(h, s, ch, {"UNRELIABLE"})
    IN /\ \A j, k \in DOMAIN got : j < k => got[j] < got[k]
       /\ IsInjective(ReceivedOn(h, s, ch, {"UNSEQUENCED"}))

\* Peer i of h and peer j of the other host are the two ends of a connection.
Ends(h, i, j) ==
  LET p == host[h].peers[i]
      q == host[Other(h)].peers[j]
  IN p.state = "CONNECTED" /\ q.state = "CONNECTED" /\ p.session = q.session

\* What one end of a connection sent reliably and no longer keeps for sending
\* again is at the other end.
AcknowledgedIsThere ==
  \A h \in Hosts : \A i \in Slot(h), j \in Slot(Other(h)) : Ends(h, i, j) =>
    LET p == host[h].peers[i]
        q == host[Other(h)].peers[j]
        kept == {<<c.pkt, c.n>> : c \in {c \in Range(p.rel \o p.sent) : HasPacket(c)}}
    IN \A ch \in AllChannels :
         \A k \in Range(SentOn(h, p.session, ch, Reliable)) :
           \/ \E x \in kept : x[1] = k
           \/ k \in Range(ReceivedOn(Other(h), p.session, ch, Reliable))
           \/ \E c \in Range(q.chans[ch].inRel) :
                c.pkt = k /\ (c.cmd = "FRAGMENT" => c.missing = {})

\* When one end keeps nothing for sending again, no packet is kept back at the
\* other for want of a predecessor.
NothingKeptBack ==
  \A h \in Hosts : \A i \in Slot(h), j \in Slot(Other(h)) : Ends(h, i, j) =>
    LET p == host[h].peers[i]
        q == host[Other(h)].peers[j]
    IN p.rel = <<>> /\ p.sent = <<>> =>
         \A ch \in AllChannels :
           q.chans[ch].inRel # <<>> => ReliableReady(q.chans[ch])

\* A host is told of the beginning of a session, then of its packets, then of
\* its end, each at most once; only a session that never began may just end. The
\* host remembers no session that has ended: the network has to repeat both the
\* CONNECT of one and the acknowledgement that completed it to begin it again.
\* The scenarios, where at most one datagram is repeated, leave that out.
EventsInOrder ==
  \A h \in Hosts, s \in Sessions :
    LET told == SelectSeq(log[h], LAMBDA e : e.session = s)
    IN \A k \in DOMAIN told :
         /\ told[k].type = "CONNECT" => k = 1
         /\ told[k].type = "RECEIVE" => told[1].type = "CONNECT"
         /\ told[k].type = "DISCONNECT" => k = Len(told)

Told(h, s, type) == \E k \in DOMAIN log[h] : log[h][k].type = type /\ log[h][k].session = s

\* A host that accepted a connection is told of it only when the host that asked
\* for it was, or will be by the next call that takes an event: a connection "has
\* completed" when its CONNECT event comes (enet.h 311-313), and a new client "has
\* connected" (tutorial.dox 128-130). Sessions are told apart by the checksum
\* alone, which the library as built (USE_CRC32 in every Makefile) adds to a
\* datagram when lastSendTime is odd (protocol.c 1348) and does not ask for (775).
ConnectionsAgree ==
  \A h \in Hosts, s \in Sessions : Told(h, s, "CONNECT") =>
    \/ Told(drawn[s], s, "CONNECT")
    \/ \E i \in Slot(drawn[s]) : LET p == host[drawn[s]].peers[i]
                                IN p.session = s /\ p.state = "CONNECTION_SUCCEEDED"
=============================================================================
