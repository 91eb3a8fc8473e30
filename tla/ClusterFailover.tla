--------------------------- MODULE ClusterFailover --------------------------
(***************************************************************************)
(* The failover of one master of Redis Cluster                             *)
(* (src/redis-4.0.0/src/cluster.c): the election of one of its slaves, the *)
(* packets that tell the other nodes, and the cluster config file.  The    *)
(* slots of the failing master move together; the other masters keep       *)
(* theirs.  Every node has its own table of nodes and slots, changed only  *)
(* by what it does and by the packets it receives.                         *)
(*                                                                         *)
(* The failure detector (PFAIL, gossiped reports, the FAIL packet) is      *)
(* replaced by what it may conclude: any node may flag the failing master  *)
(* at any time, whether or not it is really down.                          *)
(***************************************************************************)
EXTENDS Integers, FiniteSets

CONSTANTS
  Master,        \* the masters that serve slots
  Failing,       \* the master whose failover is modelled
  Slave,         \* its slaves
  NodeId,        \* the order of the node names (memcmp)
  NULL,
  MaxEpoch,      \* bound: no election or takeover beyond this epoch
  MaxInFlight,   \* bound: packets under way; more are lost
  MaxDelayed,    \* bound: heartbeats among them
  MayTakeOver,   \* the nodes that receive CLUSTER FAILOVER TAKEOVER
  MayRestart,    \* the nodes that crash and restart
  MayDetect,     \* the nodes that come to flag the failing master as failing
  Reach,         \* the nodes that broadcasts reach; elsewhere they are lost
  Links          \* the pairs <<from, to>> of nodes whose heartbeats arrive

Node == Master \cup Slave
Contender == {Failing} \cup Slave

ASSUME FailoverAssumption ==
  /\ IsFiniteSet(Node) /\ Failing \in Master /\ Master \cap Slave = {}
  /\ NodeId \in [Contender -> Nat]
  /\ \A k, l \in Contender : NodeId[k] = NodeId[l] => k = l
  /\ NULL \notin Node
  /\ MaxEpoch \in Nat /\ MaxInFlight \in Nat /\ MaxDelayed \in Nat
  /\ MayTakeOver \subseteq Contender /\ MayRestart \subseteq Node /\ Reach \subseteq Node
  /\ MayDetect \subseteq Node \ {Failing}
  /\ Links \subseteq {l \in Node \X Node : l[1] # l[2]}

VARIABLES
  st,      \* the cluster state of every node (struct clusterState and its nodes)
  disk,    \* the cluster config file of every node that may restart
  net,     \* the packets under way
  votes,   \* history: the votes cast
  won      \* history: the elections won

vars == <<st, disk, net, votes, won>>

\* The age of the last election attempt of a slave: it may be set up again, it waits its
\* delay (mstime() < failover_auth_time), it is open (auth_age <= auth_timeout), or it is
\* expired but may not be set up again yet.
Phase == {"retry", "delay", "open", "expired"}

-----------------------------------------------------------------------------
(* The table of a node `x`: what it knows of the contenders.               *)

NodeIsMaster(x, k) == k \notin Contender \/ x.slaveof[k] = NULL
MasterOf(x, k) == IF NodeIsMaster(x, k) THEN k ELSE x.slaveof[k]
ServesSlots(x, k) == k \notin Contender \/ x.owner = k

\* clusterBuildMessageHdr: a slave publishes the epoch and the slots of its master.
Packet(n, x, type, to) ==
  LET master == MasterOf(x, n)
  IN [type |-> type, from |-> n, to |-> to,
      currentEpoch |-> x.currentEpoch,
      configEpoch |-> IF n \in Contender THEN x.configEpoch[master] ELSE 0,
      slots |-> x.owner = master,
      slaveof |-> IF n \in Contender THEN x.slaveof[n] ELSE NULL]

Broadcast(n, x, type) == {Packet(n, x, type, k) : k \in Reach \ {n}}

\* clusterSendUpdate
UpdatePacket(n, x, to, about) ==
  [type |-> "UPDATE", from |-> n, to |-> to,
   currentEpoch |-> x.currentEpoch,
   configEpoch |-> Packet(n, x, "UPDATE", to).configEpoch,
   about |-> about, aboutEpoch |-> x.configEpoch[about], aboutSlots |-> x.owner = about]

\* clusterProcessPacket: the epochs in the header of any packet.
SeeHeader(x, m) ==
  LET y == [x EXCEPT !.currentEpoch = IF m.currentEpoch > @ THEN m.currentEpoch ELSE @]
  IN IF m.from \in Contender /\ m.configEpoch > x.configEpoch[m.from]
     THEN [y EXCEPT !.configEpoch[m.from] = m.configEpoch, !.todo = TRUE]
     ELSE y

\* clusterSetNodeAsMaster
SetNodeAsMaster(x, k) ==
  IF NodeIsMaster(x, k) THEN x ELSE [x EXCEPT !.slaveof[k] = NULL, !.todo = TRUE]

\* clusterSetMaster
SetMaster(n, x, k) == [x EXCEPT !.slaveof[n] = k, !.todo = TRUE]

\* Mistake: the slots of a master turned into a slave stay bound to it.
DelNodeSlotsKeeps(x, k) == x

\* clusterDelNodeSlots
DelNodeSlots(x, k) == [x EXCEPT !.owner = IF @ = k THEN NULL ELSE @]

\* clusterProcessPacket: "Check for role switch: slave -> master or master -> slave."
UpdateRole(x, m) ==
  LET k == m.from
      demoted == IF NodeIsMaster(x, k) THEN DelNodeSlots(x, k) ELSE x
  IN IF k \notin Contender THEN x
     ELSE IF m.slaveof = NULL THEN SetNodeAsMaster(x, k)
     ELSE IF x.slaveof[k] = m.slaveof THEN x
     ELSE [demoted EXCEPT !.slaveof[k] = m.slaveof, !.todo = TRUE]

\* clusterUpdateSlotsConfigWith: rebind the slots to a claim with a greater epoch, and
\* follow the new owner if they were taken from this node or from its master.
UpdateSlotsConfigWith(n, x, k, epoch, slots) ==
  LET curmaster == MasterOf(x, n)
      rebound == [x EXCEPT !.owner = k, !.todo = TRUE]
  IN IF k = n \/ ~ slots \/ x.owner = k
        \/ (x.owner # NULL /\ x.configEpoch[x.owner] >= epoch)
     THEN x
     ELSE IF x.owner = curmaster THEN SetMaster(n, rebound, k)
     ELSE rebound

\* Mistake: equal config epochs are left alone.
IgnoreConfigEpochCollision(n, x, m) == x

\* clusterHandleConfigEpochCollision
HandleConfigEpochCollision(n, x, m) ==
  IF /\ n \in Contender /\ m.from \in Contender
     /\ NodeIsMaster(x, n) /\ NodeIsMaster(x, m.from)
     /\ m.configEpoch = x.configEpoch[n]
     /\ x.configEpoch[m.from] = x.configEpoch[n]
     /\ NodeId[m.from] > NodeId[n]
  THEN [x EXCEPT !.currentEpoch = @ + 1, !.configEpoch[n] = x.currentEpoch + 1, !.todo = TRUE]
  ELSE x

\* clearNodeFailureIfNeeded, when the failing master answers a PING: a slave and a master
\* without slots are fine again at once, a master with slots if its FAIL flag is old.
ClearNodeFailure(x, m) ==
  LET cleared == [x EXCEPT !.failed = FALSE, !.todo = TRUE]
  IN IF ~ (m.type = "PONG" /\ m.from = Failing /\ x.failed) THEN {x}
     ELSE IF NodeIsMaster(x, Failing) /\ x.owner = Failing THEN {x, cleared}
     ELSE {cleared}

\* The sender, or its master, claims slots this node has bound otherwise, or the reverse.
DirtySlots(x, m) ==
  m.from \in Contender /\ (x.owner = MasterOf(x, m.from)) # m.slots

BindSlots(n, x, m) ==
  IF DirtySlots(x, m) /\ NodeIsMaster(x, m.from)
  THEN UpdateSlotsConfigWith(n, x, m.from, m.configEpoch, m.slots)
  ELSE x

\* The sender claims slots of a node with a greater config epoch: tell it.
Correction(n, x, m) ==
  IF /\ DirtySlots(x, m) /\ m.slots
     /\ x.owner \notin {m.from, NULL}
     /\ x.configEpoch[x.owner] > m.configEpoch
  THEN {UpdatePacket(n, x, m.from, x.owner)}
  ELSE {}

\* clusterProcessPacket, PING and PONG: the outcomes, each with the packet it sends.
ProcessHeartbeat(n, x, m) ==
  LET known == {UpdateRole(y, m) : y \in ClearNodeFailure(SeeHeader(x, m), m)}
      bound == {BindSlots(n, y, m) : y \in known}
  IN {[x |-> HandleConfigEpochCollision(n, y, m), out |-> Correction(n, y, m)] : y \in bound}

\* clusterProcessPacket, UPDATE
ProcessUpdate(n, x, m) ==
  LET y == SeeHeader(x, m)
      known == [SetNodeAsMaster(y, m.about) EXCEPT !.configEpoch[m.about] = m.aboutEpoch,
                                                   !.todo = TRUE]
  IN IF y.configEpoch[m.about] >= m.aboutEpoch THEN y
     ELSE UpdateSlotsConfigWith(n, known, m.about, m.aboutEpoch, m.aboutSlots)

\* Mistake: a master does not look at the epoch it last voted in.
GrantsAgain(n, x, m) ==
  /\ NodeIsMaster(x, n) /\ ServesSlots(x, n)
  /\ m.currentEpoch >= x.currentEpoch
  /\ ~ NodeIsMaster(x, m.from)
  /\ x.slaveof[m.from] = Failing /\ x.failed
  /\ ~ x.voted
  /\ m.slots => x.owner = NULL \/ x.configEpoch[x.owner] <= m.configEpoch

\* clusterSendFailoverAuthIfNeeded: the conditions of a vote, the epochs of the request
\* already seen.
Grants(n, x, m) ==
  /\ NodeIsMaster(x, n) /\ ServesSlots(x, n)
  /\ m.currentEpoch >= x.currentEpoch
  /\ x.lastVoteEpoch # x.currentEpoch
  /\ ~ NodeIsMaster(x, m.from)
  /\ x.slaveof[m.from] = Failing /\ x.failed
  /\ ~ x.voted
  /\ m.slots => x.owner = NULL \/ x.configEpoch[x.owner] <= m.configEpoch

\* Mistake: the vote is not recorded.
CastVoteUnrecorded(x) == [x EXCEPT !.voted = TRUE]

\* The vote itself; nothing asks for the config file to be saved.
CastVote(x) == [x EXCEPT !.lastVoteEpoch = x.currentEpoch, !.voted = TRUE]

\* Mistake: the promotion is announced without being saved.
FailoverReplaceYourMasterUnsaved(n, x) ==
  [x EXCEPT !.slaveof[n] = NULL, !.owner = IF @ = x.slaveof[n] THEN n ELSE @]

\* clusterFailoverReplaceYourMaster: the slots that are still bound to its master become its
\* own, and it saves the config file before it tells the others.
FailoverReplaceYourMaster(n, x) ==
  [x EXCEPT !.slaveof[n] = NULL, !.owner = IF @ = x.slaveof[n] THEN n ELSE @, !.todo = TRUE]

\* needed_quorum of a slave whose master serves slots
NeededQuorum == (Cardinality(Master) \div 2) + 1

\* clusterHandleSlaveFailover, from the age of the election attempt on: schedule it, wait,
\* ask for votes, or replace the master.
HandleSlaveFailover(n, x) ==
  LET master == MasterOf(x, n)
      asks == [x EXCEPT !.currentEpoch = @ + 1, !.authEpoch = x.currentEpoch + 1,
                        !.authSent = TRUE, !.todo = TRUE]
      epoch == IF x.configEpoch[n] < x.authEpoch THEN x.authEpoch ELSE x.configEpoch[n]
      promoted == FailoverReplaceYourMaster(n, [x EXCEPT !.configEpoch[n] = epoch])
      nothing == [x |-> x, out |-> {}, wins |-> FALSE]
  IN IF \/ NodeIsMaster(x, n)
        \/ ~ (master = Failing /\ x.failed)
        \/ ~ ServesSlots(x, master)
     THEN nothing
     ELSE CASE x.phase = "retry" ->
                 [nothing EXCEPT !.x = [x EXCEPT !.phase = "delay", !.authCount = 0,
                                                 !.authSent = FALSE]]
            [] x.phase = "open" /\ ~ x.authSent /\ x.currentEpoch < MaxEpoch ->
                 [nothing EXCEPT !.x = asks, !.out = Broadcast(n, asks, "AUTH_REQUEST")]
            [] x.phase = "open" /\ x.authSent /\ x.authCount >= NeededQuorum ->
                 [x |-> promoted, out |-> Broadcast(n, promoted, "PING"), wins |-> TRUE]
            [] OTHER -> nothing

-----------------------------------------------------------------------------
(* The steps of a node.  A handler ends with clusterBeforeSleep: the       *)
(* config file is saved if something asked for it, and only then are the   *)
(* packets in the output buffers written.                                  *)

Persistent(x) ==
  [currentEpoch |-> x.currentEpoch, lastVoteEpoch |-> x.lastVoteEpoch,
   configEpoch |-> x.configEpoch, slaveof |-> x.slaveof, owner |-> x.owner, failed |-> x.failed]

PersistentState ==
  [currentEpoch : Nat, lastVoteEpoch : Nat, configEpoch : [Contender -> Nat],
   slaveof : [Contender -> Contender \cup {NULL}], owner : Contender \cup {NULL},
   failed : BOOLEAN]

\* Mistake: the flags of what is to be done are not cleared.
BeforeSleepAgain(n, x) ==
  /\ st' = [st EXCEPT ![n] = x]
  /\ disk' = IF x.todo /\ n \in MayRestart THEN [disk EXCEPT ![n] = Persistent(x)] ELSE disk

\* clusterBeforeSleep
BeforeSleep(n, x) ==
  /\ st' = [st EXCEPT ![n] = [x EXCEPT !.todo = FALSE]]
  /\ disk' = IF x.todo /\ n \in MayRestart THEN [disk EXCEPT ![n] = Persistent(x)] ELSE disk

Heartbeats(packets) == {m \in packets : m.type \in {"PING", "PONG"}}

\* clusterSendMessage: the packets with a connected link, within the bounds.
Send(consumed, out) ==
  \E sent \in SUBSET out :
    /\ net' = (net \ consumed) \cup sent
    /\ Cardinality(net') <= MaxInFlight
    /\ Cardinality(Heartbeats(net')) <= MaxDelayed

\* clusterCron of k sends a PING, or k answers one; n processes it at once.
Heartbeat(k, n) ==
  /\ \E type \in {"PING", "PONG"} :
       \E r \in ProcessHeartbeat(n, st[n], Packet(k, st[k], type, n)) :
         BeforeSleep(n, r.x) /\ Send({}, r.out)
  /\ UNCHANGED <<votes, won>>

ReceiveHeartbeat(m) ==
  /\ m \in Heartbeats(net)
  /\ \E r \in ProcessHeartbeat(m.to, st[m.to], m) :
       BeforeSleep(m.to, r.x) /\ Send({m}, r.out)
  /\ UNCHANGED <<votes, won>>

ReceiveUpdate(m) ==
  /\ m.type = "UPDATE"
  /\ BeforeSleep(m.to, ProcessUpdate(m.to, st[m.to], m))
  /\ Send({m}, {})
  /\ UNCHANGED <<votes, won>>

\* FAILOVER_AUTH_REQUEST: vote for the sender, or ignore it.
ReceiveAuthRequest(m) ==
  LET n == m.to
      x == SeeHeader(st[n], m)
      voter == CastVote(x)
  IN /\ m.type = "AUTH_REQUEST"
     /\ IF Grants(n, x, m)
        THEN /\ BeforeSleep(n, voter)
             /\ Send({m}, {Packet(n, voter, "AUTH_ACK", m.from)})
             /\ votes' = votes \cup {[voter |-> n, epoch |-> x.currentEpoch, for |-> m.from]}
        ELSE BeforeSleep(n, x) /\ Send({m}, {}) /\ UNCHANGED votes
     /\ UNCHANGED won

\* FAILOVER_AUTH_ACK: does the vote count?
VoteCounts(x, m) ==
  /\ NodeIsMaster(x, m.from) /\ ServesSlots(x, m.from)
  /\ m.currentEpoch >= x.authEpoch

FailoverStep(n, x, consumed) ==
  LET r == HandleSlaveFailover(n, x)
  IN /\ BeforeSleep(n, r.x)
     /\ Send(consumed, r.out)
     /\ won' = IF r.wins THEN won \cup {[node |-> n, epoch |-> x.authEpoch]} ELSE won
     /\ UNCHANGED votes

\* The vote is counted and clusterBeforeSleep looks at the quorum.
ReceiveAuthAck(m) ==
  LET n == m.to
      x == SeeHeader(st[n], m)
  IN /\ m.type = "AUTH_ACK"
     /\ IF VoteCounts(x, m)
        THEN FailoverStep(n, [x EXCEPT !.authCount = @ + 1], {m})
        ELSE BeforeSleep(n, x) /\ Send({m}, {}) /\ UNCHANGED <<votes, won>>

\* clusterCron of a slave
Cron(n) ==
  /\ ~ NodeIsMaster(st[n], n)
  /\ FailoverStep(n, st[n], {})

AuthUnderWay(n) ==
  {m \in net : \/ m.type = "AUTH_REQUEST" /\ m.from = n
               \/ m.type = "AUTH_ACK" /\ m.to = n}

\* Time passes for the election attempt of n.
AuthTimePasses(n) ==
  /\ \/ /\ st[n].phase = "delay"
        /\ st' = [st EXCEPT ![n].phase = "open"]
     \/ /\ st[n].phase = "open"
        /\ st' = [st EXCEPT ![n].phase = "expired"]
     \/ /\ st[n].phase = "expired"
        /\ AuthUnderWay(n) = {}
        /\ st' = [st EXCEPT ![n].phase = "retry"]
  /\ UNCHANGED <<disk, net, votes, won>>

\* Two node timeouts pass since n voted about the failing master (voted_time).
VoteTimePasses(n) ==
  /\ st[n].voted
  /\ st' = [st EXCEPT ![n].voted = FALSE]
  /\ UNCHANGED <<disk, net, votes, won>>

\* markNodeAsFailingIfNeeded with enough reports, or a FAIL packet
MarkNodeAsFailing(n) ==
  /\ ~ st[n].failed
  /\ BeforeSleep(n, [st[n] EXCEPT !.failed = TRUE, !.todo = TRUE])
  /\ UNCHANGED <<net, votes, won>>

GetMaxEpoch(x) ==
  CHOOSE e \in {x.currentEpoch} \cup {x.configEpoch[k] : k \in Contender} :
    \A k \in Contender : e >= x.configEpoch[k] /\ e >= x.currentEpoch

\* clusterBumpConfigEpochWithoutConsensus
BumpConfigEpoch(n, x) ==
  IF x.configEpoch[n] = 0 \/ x.configEpoch[n] # GetMaxEpoch(x)
  THEN [x EXCEPT !.currentEpoch = @ + 1, !.configEpoch[n] = x.currentEpoch + 1, !.todo = TRUE]
  ELSE x

\* CLUSTER FAILOVER TAKEOVER
Takeover(n) ==
  LET x == FailoverReplaceYourMaster(n, BumpConfigEpoch(n, st[n]))
  IN /\ ~ NodeIsMaster(st[n], n)
     /\ st[n].currentEpoch < MaxEpoch
     /\ BeforeSleep(n, x)
     /\ Send({}, Broadcast(n, x, "PING"))
     /\ UNCHANGED <<votes, won>>

\* The process dies and clusterLoadConfig reads the config file; the state of the election
\* and the packets to the node are lost.
Restart(n) ==
  LET d == disk[n]
      loaded == [currentEpoch |-> d.currentEpoch, lastVoteEpoch |-> d.lastVoteEpoch,
                 configEpoch |-> d.configEpoch, slaveof |-> d.slaveof, owner |-> d.owner,
                 failed |-> d.failed, voted |-> FALSE, phase |-> "retry", authSent |-> FALSE,
                 authCount |-> 0, authEpoch |-> 0, todo |-> FALSE]
  IN /\ AuthUnderWay(n) = {}
     /\ st' = [st EXCEPT ![n] = [loaded EXCEPT !.currentEpoch = GetMaxEpoch(loaded)]]
     /\ net' = {m \in net : m.to # n}
     /\ UNCHANGED <<disk, votes, won>>

\* The cluster is formed: everybody knows the failing master and its slaves, epoch 1.
InitNode ==
  [currentEpoch |-> 1, lastVoteEpoch |-> 0,
   configEpoch |-> [k \in Contender |-> IF k = Failing THEN 1 ELSE 0],
   slaveof |-> [k \in Contender |-> IF k = Failing THEN NULL ELSE Failing],
   owner |-> Failing, failed |-> FALSE, voted |-> FALSE, phase |-> "retry",
   authSent |-> FALSE, authCount |-> 0, authEpoch |-> 0, todo |-> FALSE]

Init ==
  /\ st = [n \in Node |-> InitNode]
  /\ disk = [n \in MayRestart |-> Persistent(InitNode)]
  /\ net = {} /\ votes = {} /\ won = {}

Next ==
  \/ \E l \in Links : Heartbeat(l[1], l[2])
  \/ \E m \in net : \/ ReceiveHeartbeat(m) \/ ReceiveUpdate(m)
                    \/ ReceiveAuthRequest(m) \/ ReceiveAuthAck(m)
  \/ \E n \in Slave : Cron(n) \/ AuthTimePasses(n)
  \/ \E n \in Node : VoteTimePasses(n)
  \/ \E n \in MayDetect : MarkNodeAsFailing(n)
  \/ \E n \in MayTakeOver : Takeover(n)
  \/ \E n \in MayRestart : Restart(n)

Spec == Init /\ [][Next]_vars

\* clusterCron pings every node again and again.
FairSpec == Spec /\ \A l \in Links : WF_vars(Heartbeat(l[1], l[2]))

-----------------------------------------------------------------------------
(* Properties                                                              *)

AnyPacket ==
  [type : {"PING", "PONG", "AUTH_REQUEST", "AUTH_ACK"}, from : Node, to : Node,
   currentEpoch : Nat, configEpoch : Nat, slots : BOOLEAN, slaveof : Contender \cup {NULL}]
  \cup
  [type : {"UPDATE"}, from : Node, to : Node, currentEpoch : Nat, configEpoch : Nat,
   about : Contender, aboutEpoch : Nat, aboutSlots : BOOLEAN]

\* The tables, the config files and the packets have their types.
TypeOK ==
  /\ DOMAIN st = Node /\ disk \in [MayRestart -> PersistentState]
  /\ \A n \in Node :
       /\ Persistent(st[n]) \in PersistentState
       /\ st[n].phase \in Phase /\ st[n].authCount \in Nat /\ st[n].authEpoch \in Nat
       /\ {st[n].voted, st[n].authSent} \subseteq BOOLEAN /\ st[n].todo = FALSE
  /\ net \subseteq AnyPacket
  /\ votes \subseteq [voter : Node, epoch : Nat, for : Slave]
  /\ won \subseteq [node : Slave, epoch : Nat]

\* No table binds the slots to a node it holds for a slave (a slave has no slots of its
\* own: clusterSetMaster asserts it).
SlotsOwnedByMasters ==
  \A n \in Node : st[n].owner # NULL => NodeIsMaster(st[n], st[n].owner)

\* The claim a node makes in its packets, to own the slots at its config epoch, is in its
\* config file: a restart takes back neither the claim nor the epoch.
DurableClaim ==
  \A n \in Contender \cap MayRestart :
    st[n].owner = n => /\ disk[n].owner = n /\ disk[n].slaveof[n] = NULL
                       /\ disk[n].configEpoch[n] = st[n].configEpoch[n]

\* All nodes come to agree on the owner of the slots, and the owner holds itself for a
\* master, whatever was lost, late or repeated before.
SlotsConverge ==
  <>[] \E k \in Contender : NodeIsMaster(st[k], k) /\ \A n \in Node : st[n].owner = k

\* "We are a slave and our master is left without slots.  We need to replicate to the
\* new slots owner": every slave comes to replicate from the owner of the slots.
SlavesFollowSlots ==
  <>[] \A n \in Slave : MasterOf(st[n], n) = st[n].owner
=============================================================================
