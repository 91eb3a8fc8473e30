--------------------------- MODULE ClusterElection --------------------------
(***************************************************************************)
(* The vote that promotes a slave of a failing master of Redis Cluster     *)
(* (src/redis-4.0.0/src/cluster.c): who asks, who votes, how the votes are *)
(* counted.  What a packet says of slots, roles and failures is left out:  *)
(* a master may always refuse its vote, and any packet may raise the epoch *)
(* of the node that receives it.  ClusterFailover implements this module.  *)
(*                                                                         *)
(* A request and the vote that answers it travel for less than the retry   *)
(* time of the election (auth_retry_time, at least 4 seconds): none is     *)
(* still under way when the slave schedules its next attempt or restarts.  *)
(***************************************************************************)
EXTENDS Integers, FiniteSets

CONSTANTS
  Master,     \* the masters that serve slots, a finite set: the ones that vote
  Candidate   \* the slaves that may ask for votes

VARIABLES
  currentEpoch,   \* server.cluster->currentEpoch of every node
  lastVoteEpoch,  \* server.cluster->lastVoteEpoch of every master
  authEpoch,      \* failover_auth_epoch of every candidate
  authSent,       \* failover_auth_sent
  authCount,      \* failover_auth_count
  requests,       \* FAILOVER_AUTH_REQUEST packets under way
  acks,           \* FAILOVER_AUTH_ACK packets under way
  votes,          \* history: the votes cast
  won             \* history: the elections won

vars == <<currentEpoch, lastVoteEpoch, authEpoch, authSent, authCount, requests, acks, votes, won>>

Request == [from : Candidate, to : Master, epoch : Nat]
Ack     == [from : Master, to : Candidate, epoch : Nat]
Vote    == [voter : Master, epoch : Nat, for : Candidate]
Victory == [node : Candidate, epoch : Nat]

\* needed_quorum = (server.cluster->size / 2) + 1
NeededQuorum == (Cardinality(Master) \div 2) + 1

VotesFor(k, e) == {v \in Master : [voter |-> v, epoch |-> e, for |-> k] \in votes}

UnderWay(k) == {r \in requests : r.from = k} \cup {a \in acks : a.to = k}

Init ==
  /\ currentEpoch \in [Master \cup Candidate -> Nat]
  /\ lastVoteEpoch \in [Master -> Nat]
  /\ \A v \in Master : lastVoteEpoch[v] <= currentEpoch[v]
  /\ authEpoch = [k \in Candidate |-> 0]
  /\ authSent = [k \in Candidate |-> FALSE]
  /\ authCount = [k \in Candidate |-> 0]
  /\ requests = {} /\ acks = {} /\ votes = {} /\ won = {}

\* Any packet of the bus, a takeover or a collision of epochs: the epoch of a node grows.
RaiseEpoch(n) ==
  /\ currentEpoch'[n] \in Nat
  /\ currentEpoch'[n] >= currentEpoch[n]
  /\ currentEpoch' = [currentEpoch EXCEPT ![n] = currentEpoch'[n]]
  /\ UNCHANGED <<lastVoteEpoch, authEpoch, authSent, authCount, requests, acks, votes, won>>

\* clusterHandleSlaveFailover: the retry time has elapsed, set up a new attempt.
Schedule(k) ==
  /\ UnderWay(k) = {}
  /\ authCount' = [authCount EXCEPT ![k] = 0]
  /\ authSent' = [authSent EXCEPT ![k] = FALSE]
  /\ UNCHANGED <<currentEpoch, lastVoteEpoch, authEpoch, requests, acks, votes, won>>

\* clusterHandleSlaveFailover: ask for votes.  The packet reaches the masters in `to`.
RequestAuth(k) ==
  /\ ~ authSent[k]
  /\ UnderWay(k) = {}
  /\ currentEpoch' = [currentEpoch EXCEPT ![k] = @ + 1]
  /\ authEpoch' = [authEpoch EXCEPT ![k] = currentEpoch[k] + 1]
  /\ authSent' = [authSent EXCEPT ![k] = TRUE]
  /\ \E to \in SUBSET Master :
        requests' = requests \cup [from : {k}, to : to, epoch : {currentEpoch[k] + 1}]
  /\ UNCHANGED <<lastVoteEpoch, authCount, acks, votes, won>>

\* clusterSendFailoverAuthIfNeeded: the epoch of the voter follows the request, which is
\* granted only if the voter's epoch is not greater and it has not voted in it.  The vote
\* may be lost on its way.
Consider(r) ==
  LET v == r.to
      e == IF r.epoch > currentEpoch[v] THEN r.epoch ELSE currentEpoch[v]
      granted == r.epoch >= e /\ lastVoteEpoch[v] # e
      ack == [from |-> v, to |-> r.from, epoch |-> e]
  IN /\ r \in requests
     /\ requests' = requests \ {r}
     /\ currentEpoch' = [currentEpoch EXCEPT ![v] = e]
     /\ \/ UNCHANGED <<lastVoteEpoch, acks, votes>>
        \/ /\ granted
           /\ lastVoteEpoch' = [lastVoteEpoch EXCEPT ![v] = e]
           /\ votes' = votes \cup {[voter |-> v, epoch |-> e, for |-> r.from]}
           /\ acks' = acks \cup {ack} \/ acks' = acks
     /\ UNCHANGED <<authEpoch, authSent, authCount, won>>

\* clusterHandleSlaveFailover with `count` votes: the slave replaces its master.
Elected(k, count) ==
  /\ authSent[k]
  /\ count >= NeededQuorum
  /\ won' = won \cup {[node |-> k, epoch |-> authEpoch[k]]}

\* clusterProcessPacket, FAILOVER_AUTH_ACK: the vote counts if its epoch is not older than
\* the election's; the quorum is looked at at once (CLUSTER_TODO_HANDLE_FAILOVER).
CountVote(a) ==
  LET k == a.to
      counted == a.epoch >= authEpoch[k]
      count == IF counted THEN authCount[k] + 1 ELSE authCount[k]
  IN /\ a \in acks
     /\ acks' = acks \ {a}
     /\ currentEpoch' = [currentEpoch EXCEPT ![k] = IF a.epoch > @ THEN a.epoch ELSE @]
     /\ authCount' = [authCount EXCEPT ![k] = count]
     /\ Elected(k, count) \/ won' = won
     /\ UNCHANGED <<lastVoteEpoch, authEpoch, authSent, requests, votes>>

\* clusterCron, clusterHandleSlaveFailover: the quorum was reached.
Win(k) ==
  /\ Elected(k, authCount[k])
  /\ UNCHANGED <<currentEpoch, lastVoteEpoch, authEpoch, authSent, authCount, requests, acks, votes>>

\* A candidate restarts from its cluster config file: the state of the election is lost.
Restart(k) ==
  /\ UnderWay(k) = {}
  /\ currentEpoch'[k] \in Nat
  /\ currentEpoch' = [currentEpoch EXCEPT ![k] = currentEpoch'[k]]
  /\ authEpoch' = [authEpoch EXCEPT ![k] = 0]
  /\ authSent' = [authSent EXCEPT ![k] = FALSE]
  /\ authCount' = [authCount EXCEPT ![k] = 0]
  /\ UNCHANGED <<lastVoteEpoch, requests, acks, votes, won>>

Next ==
  \/ \E n \in Master \cup Candidate : RaiseEpoch(n)
  \/ \E k \in Candidate : Schedule(k) \/ RequestAuth(k) \/ Win(k) \/ Restart(k)
  \/ \E r \in requests : Consider(r)
  \/ \E a \in acks : CountVote(a)

Spec == Init /\ [][Next]_vars

\* Two slaves never win the election of the same epoch, so the config epoch a failover
\* produces is unique (clusterHandleConfigEpochCollision relies on it).
OneWinnerPerEpoch ==
  \A w1, w2 \in won : w1.epoch = w2.epoch => w1.node = w2.node
=============================================================================
