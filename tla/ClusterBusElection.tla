------------------------- MODULE ClusterBusElection -------------------------
(***************************************************************************)
(* The election of ClusterFailover, alone: the epochs, the requests and    *)
(* the votes on the cluster bus as a state of ClusterElection.             *)
(***************************************************************************)
EXTENDS ClusterFailover

\* The packets of elections, as ClusterElection sees them.
Requests(packets) ==
  {[from |-> m.from, to |-> m.to, epoch |-> m.currentEpoch] :
     m \in {p \in packets : p.type = "AUTH_REQUEST" /\ p.to \in Master}}
Acks(packets) ==
  {[from |-> m.from, to |-> m.to, epoch |-> m.currentEpoch] :
     m \in {p \in packets : p.type = "AUTH_ACK"}}

\* The election alone: ClusterElection, with the masters as voters.
Election == INSTANCE ClusterElection WITH
  Candidate <- Slave,
  currentEpoch <- [n \in Node |-> st[n].currentEpoch],
  lastVoteEpoch <- [n \in Master |-> st[n].lastVoteEpoch],
  authEpoch <- [n \in Slave |-> st[n].authEpoch],
  authSent <- [n \in Slave |-> st[n].authSent],
  authCount <- [n \in Slave |-> st[n].authCount],
  requests <- Requests(net),
  acks <- Acks(net)

\* The cluster bus implements the voting protocol of ClusterElection.
ElectionSpec == Election!Spec

\* Two slaves never win the election of the same epoch.
OneWinnerPerEpoch == Election!OneWinnerPerEpoch
=============================================================================
