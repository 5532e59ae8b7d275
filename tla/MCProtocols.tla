---------------------------- MODULE MCProtocols ----------------------------
(***************************************************************************)
(* Two protocols for TLC that share no state: the hosts of Udpr and the    *)
(* threads of NamedLock. A behaviour is one of either, and the other keeps *)
(* its initial state.                                                      *)
(***************************************************************************)
EXTENDS MCUdpr, MCNamedLock

VARIABLE part

\* No host is used: nothing is left for them to do.
NoHosts ==
  /\ host = [h \in Hosts |-> NewHost(h)] /\ net = {} /\ log = [h \in Hosts |-> <<>>]
  /\ posted = [h \in Hosts |-> <<>>] /\ drawn = <<>> /\ left = Nothing

ProtocolsInit ==
  /\ LockInit
  /\ (part = "hosts" /\ Init) \/ (part = "locks" /\ NoHosts)

ProtocolsNext ==
  \/ part = "hosts" /\ Next /\ UNCHANGED <<lockVars, part>>
  \/ part = "locks" /\ LockNext /\ UNCHANGED <<vars, part>>

ProtocolsSpec == ProtocolsInit /\ [][ProtocolsNext]_<<vars, lockVars, part>>
=============================================================================
