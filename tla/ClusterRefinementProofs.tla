---------------------- MODULE ClusterRefinementProofs -----------------------
(* When the failing master is cut off from the others, the cluster bus implements the   *)
(* voting protocol of ClusterElection, and two slaves never win the same epoch.         *)
EXTENDS ClusterBusElection, ClusterFailoverProofs

-----------------------------------------------------------------------------
(* The steps *)

\* A step of n that changes nothing of an election but the epoch of n.
LEMMA RaiseStep ==
  ASSUME Tables, Tables', NEW n \in Node, \A k \in Node \ {n} : st'[k] = st[k],
         st'[n].currentEpoch >= st[n].currentEpoch, st'[n].lastVoteEpoch = st[n].lastVoteEpoch,
         st'[n].authSent = st[n].authSent, st'[n].authCount = st[n].authCount,
         st'[n].authEpoch = st[n].authEpoch,
         Requests(net') = Requests(net), Acks(net') = Acks(net), UNCHANGED <<votes, won>>
  PROVE  Election!RaiseEpoch(n)
<1>1. Master \subseteq Node /\ Slave \subseteq Node BY DEF Node
<1>2. st' \in [Node -> NodeState] BY DEF Tables
<1>3. st'[n].currentEpoch \in Nat BY <1>2 DEF NodeState
<1>4. [k \in Node |-> st[k].currentEpoch]'
        = [[k \in Node |-> st[k].currentEpoch] EXCEPT ![n] = st'[n].currentEpoch]
  BY Zenon
<1>5. [k \in Master |-> st[k].lastVoteEpoch]' = [k \in Master |-> st[k].lastVoteEpoch] BY <1>1
<1>6. [k \in Slave |-> st[k].authEpoch]' = [k \in Slave |-> st[k].authEpoch] BY <1>1
<1>7. [k \in Slave |-> st[k].authSent]' = [k \in Slave |-> st[k].authSent] BY <1>1
<1>8. [k \in Slave |-> st[k].authCount]' = [k \in Slave |-> st[k].authCount] BY <1>1
<1> QED
  BY <1>3, <1>4, <1>5, <1>6, <1>7, <1>8 DEF Election!RaiseEpoch, Requests, Acks

\* Packets that belong to no election.
LEMMA SamePackets ==
  ASSUME NEW consumed, NEW sent, net' = (net \ consumed) \cup sent,
         \A u \in sent : u.type \notin {"AUTH_REQUEST", "AUTH_ACK"},
         \A m \in consumed : m.type # "AUTH_ACK" /\ ~ (m.type = "AUTH_REQUEST" /\ m.to \in Master)
  PROVE  Requests(net') = Requests(net) /\ Acks(net') = Acks(net)
<1>1. {p \in net' : p.type = "AUTH_REQUEST" /\ p.to \in Master}
        = {p \in net : p.type = "AUTH_REQUEST" /\ p.to \in Master}
  OBVIOUS
<1>2. {p \in net' : p.type = "AUTH_ACK"} = {p \in net : p.type = "AUTH_ACK"} OBVIOUS
<1> QED BY <1>1, <1>2 DEF Requests, Acks

\* A handler of n that holds no election.
LEMMA QuietStep ==
  ASSUME ElectionInv, TableInv', NEW n \in Node, NEW y, Table(y), Moves(st[n], y), Outdone(n, y),
         BeforeSleep(n, y), NEW consumed, NEW out, Send(consumed, out),
         \A u \in out : OutdonePacket(u) /\ u.type \in {"PING", "UPDATE"},
         \A m \in consumed : m.type # "AUTH_ACK" /\ ~ (m.type = "AUTH_REQUEST" /\ m.to \in Master),
         UNCHANGED <<votes, won>>
  PROVE  ElectionInv' /\ Election!RaiseEpoch(n)
<1>1. TableInv /\ Tables /\ OneAttempt /\ OutdoneTables BY DEF ElectionInv, TableInv
<1>2. y.todo = FALSE => Saved(st[n], y) BY DEF Moves
<1>3. /\ Tables' /\ st' = [st EXCEPT ![n] = [y EXCEPT !.todo = FALSE]]
      /\ \A k \in MayRestart : disk'[k] = disk[k] \/ (k = n /\ disk'[k] = Persistent(y))
  BY <1>1, <1>2, BeforeSleepTables, Zenon
<1>4. OutdoneTables' BY <1>1, <1>3, OutdoneStep, Zenon
<1>5. PICK sent \in SUBSET out : net' = (net \ consumed) \cup sent BY DEF Send
<1>6. \A m \in net' : OutdonePacket(m) BY <1>5 DEF ElectionInv
<1>7. /\ \A k \in Node \ {n} : st'[k] = st[k]
      /\ st'[n].currentEpoch = y.currentEpoch /\ st'[n].lastVoteEpoch = y.lastVoteEpoch
      /\ st'[n].authSent = y.authSent /\ st'[n].authCount = y.authCount
      /\ st'[n].authEpoch = y.authEpoch /\ st'[n].phase = y.phase
  BY <1>1, <1>3 DEF Tables, Table, NodeState
<1>8. /\ st'[n].currentEpoch >= st[n].currentEpoch /\ st'[n].lastVoteEpoch = st[n].lastVoteEpoch
      /\ st'[n].authSent = st[n].authSent /\ st'[n].authCount = st[n].authCount
      /\ st'[n].authEpoch = st[n].authEpoch /\ st'[n].phase = st[n].phase
  BY <1>7 DEF Moves
<1>9. OneAttempt' BY <1>1, <1>5, <1>7, <1>8, SameAttempts
<1>10. Requests(net') = Requests(net) /\ Acks(net') = Acks(net) BY <1>5, SamePackets, Zenon
<1>11. Election!RaiseEpoch(n) BY <1>1, <1>3, <1>7, <1>8, <1>10, RaiseStep
<1> QED BY <1>4, <1>6, <1>9, <1>11 DEF ElectionInv

\* A node whose epoch grows takes a step of ClusterElection.
LEMMA RaiseIsNext ==
  ASSUME NEW n \in Node, Election!RaiseEpoch(n)
  PROVE  Election!Next
BY DEF Election!Next, Node

\* A heartbeat that arrives at once at most raises the epoch of its receiver.
LEMMA HeartbeatImplements ==
  ASSUME CutOff, ElectionInv, TableInv', NEW l \in Links, Heartbeat(l[1], l[2])
  PROVE  ElectionInv' /\ Election!Next
<1> DEFINE k == l[1]
           n == l[2]
<1>1. k \in Node /\ n \in Node /\ k # n /\ k # Failing /\ n # Failing
  BY FailoverAssumption DEF CutOff
<1>2. PICK type \in {"PING", "PONG"} :
        \E r \in ProcessHeartbeat(n, st[n], Packet(k, st[k], type, n)) :
          BeforeSleep(n, r.x) /\ Send({}, r.out)
  BY DEF Heartbeat
<1> DEFINE m == Packet(k, st[k], type, n)
<1>3. PICK r \in ProcessHeartbeat(n, st[n], m) : BeforeSleep(n, r.x) /\ Send({}, r.out)
  BY <1>2
<1>4. UNCHANGED <<votes, won>> BY DEF Heartbeat
<1> HIDE DEF k, n
<1>5. /\ st[k] \in NodeState /\ Table(st[n]) /\ Outdone(k, st[k]) /\ Outdone(n, st[n])
      /\ type # "UPDATE"
  BY <1>1, TableOf, ZenonT(30) DEF ElectionInv, TableInv, OutdoneTables
<1>6. m \in AnyPacket /\ m.type \in {"PING", "PONG"} /\ m.to = n BY <1>1, <1>5, PacketType
<1>7. OutdonePacket(m) BY <1>1, <1>5, HeartbeatPacket
<1> HIDE DEF m
<1>8. /\ Table(r.x) /\ Moves(st[n], r.x) /\ Outdone(n, r.x)
      /\ \A u \in r.out : OutdonePacket(u) /\ u.type = "UPDATE"
  BY <1>1, <1>3, <1>5, <1>6, <1>7, HeartbeatOutdone
<1>9. ElectionInv' /\ Election!RaiseEpoch(n) BY <1>1, <1>3, <1>4, <1>8, QuietStep
<1> QED BY <1>1, <1>9, RaiseIsNext

\* So does one that was delayed.
LEMMA ReceiveHeartbeatImplements ==
  ASSUME CutOff, ElectionInv, TableInv', NEW m \in net, ReceiveHeartbeat(m)
  PROVE  ElectionInv' /\ Election!Next
<1> DEFINE n == m.to
<1>1. m \in AnyPacket /\ n \in Node /\ m.type \in {"PING", "PONG"} /\ OutdonePacket(m)
  BY PacketFields DEF ElectionInv, TableInv, ReceiveHeartbeat, Heartbeats
<1>2. n # Failing BY <1>1 DEF OutdonePacket
<1>3. PICK r \in ProcessHeartbeat(n, st[n], m) : BeforeSleep(n, r.x) /\ Send({m}, r.out)
  BY DEF ReceiveHeartbeat
<1>4. UNCHANGED <<votes, won>> BY DEF ReceiveHeartbeat
<1>5. Table(st[n]) /\ Outdone(n, st[n])
  BY <1>1, TableOf, Zenon DEF ElectionInv, TableInv, OutdoneTables
<1>6. /\ Table(r.x) /\ Moves(st[n], r.x) /\ Outdone(n, r.x)
      /\ \A u \in r.out : OutdonePacket(u) /\ u.type = "UPDATE"
  BY <1>1, <1>2, <1>3, <1>5, HeartbeatOutdone
<1> HIDE DEF n
<1>7. ElectionInv' /\ Election!RaiseEpoch(n) BY <1>1, <1>3, <1>4, <1>6, QuietStep
<1> QED BY <1>1, <1>7, RaiseIsNext

\* An UPDATE at most raises the epoch of its receiver.
LEMMA ReceiveUpdateImplements ==
  ASSUME CutOff, ElectionInv, TableInv', NEW m \in net, ReceiveUpdate(m)
  PROVE  ElectionInv' /\ Election!Next
<1> DEFINE n == m.to
           y == ProcessUpdate(n, st[n], m)
<1>1. m \in AnyPacket /\ n \in Node /\ m.type = "UPDATE" /\ OutdonePacket(m)
  BY PacketFields DEF ElectionInv, TableInv, ReceiveUpdate
<1>2. BeforeSleep(n, y) /\ Send({m}, {}) /\ UNCHANGED <<votes, won>> BY DEF ReceiveUpdate
<1>3. Table(st[n]) /\ Outdone(n, st[n])
  BY <1>1, TableOf, Zenon DEF ElectionInv, TableInv, OutdoneTables
<1>4. Table(y) /\ Moves(st[n], y) BY <1>1, <1>3, ProcessUpdateMoves, Zenon
<1>5. Outdone(n, y) BY <1>1, <1>3, ProcessUpdateOutdone
<1> HIDE DEF n, y
<1>6. ElectionInv' /\ Election!RaiseEpoch(n) BY <1>1, <1>2, <1>4, <1>5, QuietStep
<1> QED BY <1>1, <1>6, RaiseIsNext

\* A node marked as failing is no step of the vote.
LEMMA MarkNodeAsFailingImplements ==
  ASSUME CutOff, ElectionInv, TableInv', NEW n \in MayDetect, MarkNodeAsFailing(n)
  PROVE  ElectionInv' /\ Election!Next
<1> DEFINE y == [st[n] EXCEPT !.failed = TRUE, !.todo = TRUE]
<1>1. n \in Node BY FailoverAssumption
<1>2. TableInv /\ Tables /\ OneAttempt /\ OutdoneTables BY DEF ElectionInv, TableInv
<1>3. BeforeSleep(n, y) /\ UNCHANGED <<net, votes, won>> BY DEF MarkNodeAsFailing
<1>4. /\ Table(y) /\ Moves(st[n], y) /\ y.currentEpoch = st[n].currentEpoch
      /\ y.owner = st[n].owner /\ y.configEpoch = st[n].configEpoch
  <2>1. Table(st[n]) BY <1>1, <1>2, TableOf, Zenon
  <2> QED BY <2>1, MarkedTable, Zenon
<1> HIDE DEF y
<1>5. Outdone(n, y) BY <1>1, <1>2, <1>4 DEF Outdone, OutdoneTables
<1>6. y.todo = FALSE => Saved(st[n], y) BY <1>4 DEF Moves
<1>7. /\ Tables' /\ st' = [st EXCEPT ![n] = [y EXCEPT !.todo = FALSE]]
      /\ \A k \in MayRestart : disk'[k] = disk[k] \/ (k = n /\ disk'[k] = Persistent(y))
  BY <1>1, <1>2, <1>3, <1>4, <1>6, BeforeSleepTables, Zenon
<1>8. OutdoneTables' BY <1>1, <1>2, <1>4, <1>5, <1>7, OutdoneStep, Zenon
<1>9. /\ \A k \in Node \ {n} : st'[k] = st[k]
      /\ st'[n].currentEpoch = y.currentEpoch /\ st'[n].lastVoteEpoch = y.lastVoteEpoch
      /\ st'[n].authSent = y.authSent /\ st'[n].authCount = y.authCount
      /\ st'[n].authEpoch = y.authEpoch /\ st'[n].phase = y.phase
  BY <1>1, <1>2, <1>4, <1>7 DEF Tables, Table, NodeState
<1>10. /\ st'[n].currentEpoch >= st[n].currentEpoch /\ st'[n].lastVoteEpoch = st[n].lastVoteEpoch
       /\ st'[n].authSent = st[n].authSent /\ st'[n].authCount = st[n].authCount
       /\ st'[n].authEpoch = st[n].authEpoch /\ st'[n].phase = st[n].phase
  BY <1>4, <1>9 DEF Moves
<1>11. OneAttempt' BY <1>1, <1>2, <1>3, <1>9, <1>10, SameAttempts
<1>12. Requests(net') = Requests(net) /\ Acks(net') = Acks(net) BY <1>3
<1>13. Election!RaiseEpoch(n) BY <1>1, <1>2, <1>3, <1>7, <1>9, <1>10, <1>12, RaiseStep
<1>14. \A m \in net' : OutdonePacket(m) BY <1>3 DEF ElectionInv
<1> QED BY <1>1, <1>8, <1>11, <1>13, <1>14, RaiseIsNext DEF ElectionInv

\* CLUSTER FAILOVER TAKEOVER raises an epoch; nobody votes.
LEMMA TakeoverImplements ==
  ASSUME CutOff, ElectionInv, TableInv', NEW n \in MayTakeOver, Takeover(n)
  PROVE  ElectionInv' /\ Election!Next
<1> DEFINE x == st[n]
           y == FailoverReplaceYourMaster(n, BumpConfigEpoch(n, x))
<1>1. n \in Node /\ n \in Contender /\ n \in Slave /\ n # Failing
  BY FailoverAssumption, Contenders DEF CutOff, Contender
<1>2. BeforeSleep(n, y) /\ Send({}, Broadcast(n, y, "PING")) /\ UNCHANGED <<votes, won>>
  BY DEF Takeover
<1>3. Table(x) /\ Outdone(n, x) /\ x.currentEpoch \in Nat /\ x.configEpoch \in [Contender -> Nat]
  BY <1>1, TableOf, Zenon DEF ElectionInv, TableInv, OutdoneTables, NodeState
<1>4. /\ Table(y) /\ Moves(x, y) /\ y.owner \in {n, x.owner}
      /\ y.configEpoch[n] = x.currentEpoch + 1 \/
           (y.configEpoch[n] = x.configEpoch[n] /\ x.configEpoch[n] # 0)
      /\ \A k \in Contender \ {n} : y.configEpoch[k] = x.configEpoch[k]
  <2>1. TookOver(n, x, y) BY <1>1, <1>3, TakeoverTable
  <2> QED BY <2>1 DEF TookOver
<1> HIDE DEF y
<1>5. y.configEpoch[n] >= 2 BY <1>1, <1>3, <1>4 DEF Outdone
<1>6. Outdone(n, y)
  <2>1. y.configEpoch[Failing] = 1 BY <1>1, <1>3, <1>4, Contenders DEF Outdone
  <2>2. y.currentEpoch >= 1 BY <1>3, <1>4 DEF Moves, Outdone, Table, NodeState
  <2>3. y.configEpoch[n] # 1 BY <1>5
  <2>4. y.owner \in Slave => y.configEpoch[y.owner] >= 2
    BY <1>1, <1>3, <1>4, <1>5 DEF Outdone, Contender
  <2> QED BY <2>1, <2>2, <2>3, <2>4 DEF Outdone
<1>7. \A u \in Broadcast(n, y, "PING") : OutdonePacket(u) /\ u.type \in {"PING", "UPDATE"}
  <2> TAKE u \in Broadcast(n, y, "PING")
  <2>1. y \in NodeState BY <1>4 DEF Table
  <2>2. u.type = "PING" /\ u.to \in Reach \ {n} /\ u = Packet(n, y, "PING", u.to)
    BY <1>1, <2>1, BroadcastType
  <2>3. u.to \in Node /\ u.to # Failing BY <2>2, FailoverAssumption DEF CutOff
  <2>4. OutdonePacket(Packet(n, y, "PING", u.to)) BY <1>1, <1>6, <2>1, <2>2, <2>3, HeartbeatPacket
  <2> QED BY <2>2, <2>4
<1>8. ElectionInv' /\ Election!RaiseEpoch(n) BY <1>1, <1>2, <1>4, <1>6, <1>7, QuietStep
<1> QED BY <1>1, <1>8, RaiseIsNext

\* Time passes at n.
LEMMA ClockImplements ==
  ASSUME ElectionInv, TableInv', NEW n \in Node, NEW y \in NodeState, st' = [st EXCEPT ![n] = y],
         y.currentEpoch = st[n].currentEpoch, y.lastVoteEpoch = st[n].lastVoteEpoch,
         y.configEpoch = st[n].configEpoch, y.owner = st[n].owner,
         y.authSent = st[n].authSent, y.authCount = st[n].authCount,
         y.authEpoch = st[n].authEpoch, UNCHANGED <<disk, net, votes, won>>, OneAttempt'
  PROVE  ElectionInv' /\ Election!Next
<1>1. Tables /\ Tables' /\ st \in [Node -> NodeState] /\ st[n] \in NodeState
  BY DEF ElectionInv, TableInv, Tables
<1>2. st'[n] = y /\ \A k \in Node \ {n} : st'[k] = st[k] BY <1>1
<1>3. Outdone(n, y) BY DEF ElectionInv, OutdoneTables, Outdone
<1>4. OutdoneTables' BY <1>2, <1>3 DEF ElectionInv, OutdoneTables
<1>5. st'[n].currentEpoch >= st[n].currentEpoch BY <1>1, <1>2 DEF NodeState
<1>6. Requests(net') = Requests(net) /\ Acks(net') = Acks(net) OBVIOUS
<1>7. Election!RaiseEpoch(n) BY <1>1, <1>2, <1>5, <1>6, RaiseStep
<1>8. \A m \in net' : OutdonePacket(m) BY DEF ElectionInv
<1> QED BY <1>4, <1>7, <1>8, RaiseIsNext DEF ElectionInv

\* The clock of the last vote is no step of the vote.
LEMMA VoteTimePassesImplements ==
  ASSUME ElectionInv, TableInv', NEW n \in Node, VoteTimePasses(n)
  PROVE  ElectionInv' /\ Election!Next
<1> DEFINE y == [st[n] EXCEPT !.voted = FALSE]
<1>1. st \in [Node -> NodeState] /\ st[n] \in NodeState BY DEF ElectionInv, TableInv, Tables
<1>2. st' = [st EXCEPT ![n] = y] BY <1>1 DEF VoteTimePasses
<1>3. /\ y \in NodeState /\ y.currentEpoch = st[n].currentEpoch
      /\ y.lastVoteEpoch = st[n].lastVoteEpoch /\ y.configEpoch = st[n].configEpoch
      /\ y.owner = st[n].owner /\ y.authSent = st[n].authSent /\ y.authCount = st[n].authCount
      /\ y.authEpoch = st[n].authEpoch /\ y.phase = st[n].phase
  BY <1>1, Zenon DEF NodeState
<1> HIDE DEF y
<1>4. UNCHANGED <<disk, net, votes, won>> BY DEF VoteTimePasses
<1>5. st'[n] = y /\ \A k \in Node \ {n} : st'[k] = st[k] BY <1>1, <1>2
<1>6. OneAttempt' BY <1>3, <1>4, <1>5, SameAttempts DEF ElectionInv
<1> QED BY <1>2, <1>3, <1>4, <1>6, ClockImplements, Zenon

\* The clock of an attempt: it is set up again only when nothing of it is under way.
LEMMA AuthTimePassesImplements ==
  ASSUME ElectionInv, TableInv', NEW n \in Slave, AuthTimePasses(n)
  PROVE  ElectionInv' /\ Election!Next
<1>1. n \in Node /\ st \in [Node -> NodeState] /\ st[n] \in NodeState
  BY Contenders DEF ElectionInv, TableInv, Tables
<1>2. PICK ph \in Phase :
        /\ st' = [st EXCEPT ![n].phase = ph]
        /\ \/ st[n].phase = "delay" /\ ph = "open"
           \/ st[n].phase = "open" /\ ph = "expired"
           \/ st[n].phase = "expired" /\ ph = "retry" /\ AuthUnderWay(n) = {}
  BY DEF AuthTimePasses, Phase
<1> DEFINE y == [st[n] EXCEPT !.phase = ph]
<1>3. st' = [st EXCEPT ![n] = y] BY <1>1, <1>2
<1>4. /\ y \in NodeState /\ y.currentEpoch = st[n].currentEpoch
      /\ y.lastVoteEpoch = st[n].lastVoteEpoch /\ y.configEpoch = st[n].configEpoch
      /\ y.owner = st[n].owner /\ y.authSent = st[n].authSent /\ y.authCount = st[n].authCount
      /\ y.authEpoch = st[n].authEpoch /\ y.phase = ph
  BY <1>1, Zenon DEF NodeState
<1> HIDE DEF y
<1>5. UNCHANGED <<disk, net, votes, won>> BY DEF AuthTimePasses
<1>6. st'[n] = y /\ \A k \in Node \ {n} : st'[k] = st[k] BY <1>1, <1>3
<1>7. OneAttempt'
  <2> SUFFICES ASSUME NEW k \in Slave
               PROVE  /\ st'[k].phase \in {"retry", "delay"} \/ ~ st'[k].authSent => AuthUnderWay(k)' = {}
                      /\ st'[k].authSent => st'[k].authEpoch >= 2
    BY DEF OneAttempt
  <2>1. AuthUnderWay(k)' = AuthUnderWay(k) BY <1>5 DEF AuthUnderWay
  <2>2. /\ st[k].phase \in {"retry", "delay"} \/ ~ st[k].authSent => AuthUnderWay(k) = {}
        /\ st[k].authSent => st[k].authEpoch >= 2
    BY DEF ElectionInv, OneAttempt
  <2>3. CASE k # n
    <3>1. st'[k] = st[k] BY <1>6, <2>3, Contenders
    <3> QED BY <2>1, <2>2, <3>1
  <2>4. CASE k = n
    <3>1. st'[k].phase = ph /\ st'[k].authSent = st[k].authSent /\ st'[k].authEpoch = st[k].authEpoch
      BY <1>4, <1>6, <2>4
    <3> QED BY <1>2, <2>1, <2>2, <2>4, <3>1
  <2> QED BY <2>3, <2>4
<1> QED BY <1>1, <1>3, <1>4, <1>5, <1>7, ClockImplements, Zenon

-----------------------------------------------------------------------------
(* The vote *)

\* A request, and a vote, is one packet.
LEMMA OnePacket ==
  ASSUME ElectionInv, NEW m1 \in net, NEW m2 \in net, m1.type = m2.type,
         m1.type \in {"AUTH_REQUEST", "AUTH_ACK"}, m1.from = m2.from, m1.to = m2.to,
         m1.currentEpoch = m2.currentEpoch
  PROVE  m1 = m2
<1> DEFINE P == [type : {"PING", "PONG", "AUTH_REQUEST", "AUTH_ACK"}, from : Node, to : Node,
                 currentEpoch : Nat, configEpoch : Nat, slots : BOOLEAN,
                 slaveof : Contender \cup {NULL}]
<1>1. m1 \in P /\ m2 \in P BY DEF ElectionInv, TableInv, AnyPacket
<1>2. OutdonePacket(m1) /\ OutdonePacket(m2) BY DEF ElectionInv
<1>3. m1.slots \in BOOLEAN /\ m2.slots \in BOOLEAN BY <1>1
<1>4. m1.slots = m2.slots /\ m1.configEpoch = m2.configEpoch /\ m1.slaveof = m2.slaveof
  <2>1. CASE m1.type = "AUTH_REQUEST" BY <1>2, <1>3, <2>1 DEF OutdonePacket
  <2>2. CASE m1.type = "AUTH_ACK" BY <1>2, <1>3, <2>2 DEF OutdonePacket
  <2> QED BY <2>1, <2>2
<1> QED BY <1>1, <1>4

\* A request leaves the network, and the vote that answers it may enter it.
LEMMA RequestConsumed ==
  ASSUME ElectionInv, NEW m \in net, m.type = "AUTH_REQUEST", m.to \in Master,
         NEW sent, net' = (net \ {m}) \cup sent, \A u \in sent : u.type = "AUTH_ACK"
  PROVE  /\ [from |-> m.from, to |-> m.to, epoch |-> m.currentEpoch] \in Requests(net)
         /\ Requests(net') = Requests(net) \ {[from |-> m.from, to |-> m.to, epoch |-> m.currentEpoch]}
         /\ Acks(net') = Acks(net) \cup Acks(sent)
<1> DEFINE R(S) == {p \in S : p.type = "AUTH_REQUEST" /\ p.to \in Master}
           b(p) == [from |-> p.from, to |-> p.to, epoch |-> p.currentEpoch]
<1>1. R(net') = R(net) \ {m} /\ m \in R(net) OBVIOUS
<1>2. \A p \in R(net) : b(p) = b(m) => p = m
  <2> TAKE p \in R(net)
  <2> HAVE b(p) = b(m)
  <2>1. p.from = m.from /\ p.to = m.to /\ p.currentEpoch = m.currentEpoch OBVIOUS
  <2> QED BY <2>1, OnePacket
<1>3. Requests(net') = {b(p) : p \in R(net')} /\ Requests(net) = {b(p) : p \in R(net)}
  BY DEF Requests
<1>4. {b(p) : p \in R(net')} = {b(p) : p \in R(net)} \ {b(m)}
  <2> HIDE DEF R, b
  <2> QED BY <1>1, <1>2
<1>5. b(m) \in {b(p) : p \in R(net)} BY <1>1
<1>6. Acks(net') = Acks(net) \cup Acks(sent) BY DEF Acks
<1> QED BY <1>3, <1>4, <1>5, <1>6, Zenon

\* The variables of ClusterElection after a step of a master.
LEMMA MasterStep ==
  ASSUME NEW n \in Master, \A k \in Node \ {n} : st'[k] = st[k]
  PROVE  /\ [k \in Node |-> st[k].currentEpoch]'
              = [[k \in Node |-> st[k].currentEpoch] EXCEPT ![n] = st'[n].currentEpoch]
         /\ [k \in Master |-> st[k].lastVoteEpoch]'
              = [[k \in Master |-> st[k].lastVoteEpoch] EXCEPT ![n] = st'[n].lastVoteEpoch]
         /\ [k \in Slave |-> st[k].authEpoch]' = [k \in Slave |-> st[k].authEpoch]
         /\ [k \in Slave |-> st[k].authSent]' = [k \in Slave |-> st[k].authSent]
         /\ [k \in Slave |-> st[k].authCount]' = [k \in Slave |-> st[k].authCount]
<1>1. Master \subseteq Node /\ Slave \subseteq Node /\ n \notin Slave BY FailoverAssumption DEF Node
<1> QED BY <1>1, Zenon

\* The variables of ClusterElection after a step of a slave.
LEMMA SlaveStep ==
  ASSUME NEW n \in Slave, \A k \in Node \ {n} : st'[k] = st[k]
  PROVE  /\ [k \in Node |-> st[k].currentEpoch]'
              = [[k \in Node |-> st[k].currentEpoch] EXCEPT ![n] = st'[n].currentEpoch]
         /\ [k \in Master |-> st[k].lastVoteEpoch]' = [k \in Master |-> st[k].lastVoteEpoch]
         /\ [k \in Slave |-> st[k].authEpoch]'
              = [[k \in Slave |-> st[k].authEpoch] EXCEPT ![n] = st'[n].authEpoch]
         /\ [k \in Slave |-> st[k].authSent]'
              = [[k \in Slave |-> st[k].authSent] EXCEPT ![n] = st'[n].authSent]
         /\ [k \in Slave |-> st[k].authCount]'
              = [[k \in Slave |-> st[k].authCount] EXCEPT ![n] = st'[n].authCount]
<1>1. Master \subseteq Node /\ Slave \subseteq Node /\ n \notin Master BY FailoverAssumption DEF Node
<1> QED BY <1>1, ZenonT(30)

\* A master considers the request of k with epoch q; its own epoch becomes e.
LEMMA ConsiderStep ==
  ASSUME NEW n \in Master, NEW k, NEW q, NEW e, \A j \in Node \ {n} : st'[j] = st[j],
         e = IF q > st[n].currentEpoch THEN q ELSE st[n].currentEpoch,
         [from |-> k, to |-> n, epoch |-> q] \in Requests(net),
         Requests(net') = Requests(net) \ {[from |-> k, to |-> n, epoch |-> q]},
         st'[n].currentEpoch = e, won' = won,
         \/ /\ st'[n].lastVoteEpoch = st[n].lastVoteEpoch /\ Acks(net') = Acks(net)
            /\ votes' = votes
         \/ /\ q >= e /\ st[n].lastVoteEpoch # e /\ st'[n].lastVoteEpoch = e
            /\ votes' = votes \cup {[voter |-> n, epoch |-> e, for |-> k]}
            /\ \/ Acks(net') = Acks(net) \cup {[from |-> n, to |-> k, epoch |-> e]}
               \/ Acks(net') = Acks(net)
  PROVE  Election!Next
<1> DEFINE r == [from |-> k, to |-> n, epoch |-> q]
<1>1. n \in Node /\ n \in Master BY ZenonT(30) DEF Node
<1>2. /\ [j \in Node |-> st[j].currentEpoch]'
           = [[j \in Node |-> st[j].currentEpoch] EXCEPT ![n] = e]
      /\ [j \in Master |-> st[j].lastVoteEpoch]'
           = [[j \in Master |-> st[j].lastVoteEpoch] EXCEPT ![n] = st'[n].lastVoteEpoch]
      /\ [j \in Slave |-> st[j].authEpoch]' = [j \in Slave |-> st[j].authEpoch]
      /\ [j \in Slave |-> st[j].authSent]' = [j \in Slave |-> st[j].authSent]
      /\ [j \in Slave |-> st[j].authCount]' = [j \in Slave |-> st[j].authCount]
  BY MasterStep, Zenon
<1>3. /\ r.from = k /\ r.to = n /\ r.epoch = q
      /\ [j \in Node |-> st[j].currentEpoch][n] = st[n].currentEpoch
      /\ [j \in Master |-> st[j].lastVoteEpoch][n] = st[n].lastVoteEpoch
  BY <1>1
<1>4. r \in Requests(net) /\ Requests(net') = Requests(net) \ {r} OBVIOUS
<1> HIDE DEF r
<1>5. Election!Consider(r)
  <2>1. CASE /\ st'[n].lastVoteEpoch = st[n].lastVoteEpoch /\ Acks(net') = Acks(net)
             /\ votes' = votes
    <3>1. [j \in Master |-> st[j].lastVoteEpoch]' = [j \in Master |-> st[j].lastVoteEpoch]
      BY <1>2, <2>1, ZenonT(30)
    <3> QED BY <1>2, <1>3, <1>4, <2>1, <3>1, ZenonT(30) DEF Election!Consider, Requests, Acks
  <2>2. CASE /\ q >= e /\ st[n].lastVoteEpoch # e /\ st'[n].lastVoteEpoch = e
             /\ votes' = votes \cup {[voter |-> n, epoch |-> e, for |-> k]}
             /\ \/ Acks(net') = Acks(net) \cup {[from |-> n, to |-> k, epoch |-> e]}
                \/ Acks(net') = Acks(net)
    BY <1>2, <1>3, <1>4, <2>2, ZenonT(30) DEF Election!Consider, Requests, Acks
  <2> QED BY <2>1, <2>2
<1> QED BY <1>4, <1>5, Zenon DEF Election!Next, Requests

\* clusterSendFailoverAuthIfNeeded is Consider of ClusterElection.
LEMMA ReceiveAuthRequestImplements ==
  ASSUME CutOff, ElectionInv, TableInv', NEW m \in net, ReceiveAuthRequest(m)
  PROVE  ElectionInv' /\ Election!Next
<1> DEFINE n == m.to
           x == SeeHeader(st[n], m)
           y == CastVote(x)
           ack == Packet(n, y, "AUTH_ACK", m.from)
           granted == /\ BeforeSleep(n, y) /\ Send({m}, {ack})
                      /\ votes' = votes \cup {[voter |-> n, epoch |-> x.currentEpoch, for |-> m.from]}
           ignored == BeforeSleep(n, x) /\ Send({m}, {}) /\ votes' = votes
<1>1. /\ m \in AnyPacket /\ n \in Node /\ m.type = "AUTH_REQUEST" /\ OutdonePacket(m)
      /\ m.from \in Slave /\ m.from \in Node
  BY PacketFields, Zenon DEF ElectionInv, TableInv, ReceiveAuthRequest, SlavesAsk
<1>2. n # Failing /\ m.from # n /\ m.from # Failing BY <1>1 DEF OutdonePacket
<1>3. IF Grants(n, x, m) THEN granted ELSE ignored BY Zenon DEF ReceiveAuthRequest
<1>4. won' = won BY DEF ReceiveAuthRequest
<1>5. Table(st[n]) /\ Outdone(n, st[n])
  BY <1>1, TableOf, Zenon DEF ElectionInv, TableInv, OutdoneTables
<1>6. /\ Table(x) /\ Moves(st[n], x)
      /\ x.currentEpoch = IF m.currentEpoch > st[n].currentEpoch THEN m.currentEpoch
                                                                  ELSE st[n].currentEpoch
  BY <1>1, <1>5, SeeHeaderMoves, ZenonT(30)
<1>7. Outdone(n, x) BY <1>1, <1>2, <1>5, SeeHeaderOutdone
<1> HIDE DEF n, x, y
<1>8. ASSUME n \in Slave PROVE ElectionInv' /\ Election!Next
  <2>1. ignored BY <1>1, <1>3, <1>6, <1>7, <1>8, SlaveVotesNot, Zenon
  <2>2. n \notin Master BY <1>8, FailoverAssumption
  <2>3. \A u \in {m} : u.type # "AUTH_ACK" /\ ~ (u.type = "AUTH_REQUEST" /\ u.to \in Master)
    BY <1>1, <2>2 DEF n
  <2>4. ElectionInv' /\ Election!RaiseEpoch(n)
    BY <1>1, <1>4, <1>6, <1>7, <2>1, <2>3, QuietStep
  <2> QED BY <1>1, <2>4, RaiseIsNext
<1>9. ASSUME n \in Master PROVE ElectionInv' /\ Election!Next
  <2>1. ASSUME ignored PROVE ElectionInv' /\ Election!Next
    <3>1. /\ x.todo = FALSE => Saved(st[n], x)
          /\ x.phase = st[n].phase /\ x.authSent = st[n].authSent /\ x.authEpoch = st[n].authEpoch
          /\ x.lastVoteEpoch = st[n].lastVoteEpoch
      BY <1>6 DEF Moves
    <3>2. /\ ElectionInv' /\ \A k \in Node \ {n} : st'[k] = st[k]
          /\ st'[n].currentEpoch = x.currentEpoch /\ st'[n].lastVoteEpoch = x.lastVoteEpoch
          /\ \E sent \in SUBSET {} : net' = (net \ {m}) \cup sent
      BY <1>1, <1>6, <1>7, <1>9, <2>1, <3>1, AnswerStep, Zenon DEF n
    <3>3. net' = (net \ {m}) \cup {} BY <3>2
    <3>4. /\ [from |-> m.from, to |-> n, epoch |-> m.currentEpoch] \in Requests(net)
          /\ Requests(net') = Requests(net) \ {[from |-> m.from, to |-> n, epoch |-> m.currentEpoch]}
          /\ Acks(net') = Acks(net) \cup Acks({})
      BY <1>1, <1>9, <3>3, RequestConsumed, Zenon DEF n
    <3>5. Acks(net') = Acks(net) BY <3>4 DEF Acks
    <3> QED BY <1>4, <1>6, <1>9, <2>1, <3>1, <3>2, <3>4, <3>5, ConsiderStep, Zenon
  <2>2. ASSUME granted, Grants(n, x, m) PROVE ElectionInv' /\ Election!Next
    <3>1. /\ Table(y) /\ y.todo = x.todo /\ y.currentEpoch = x.currentEpoch
          /\ y.lastVoteEpoch = x.currentEpoch
          /\ y.owner = x.owner /\ y.slaveof = x.slaveof /\ y.configEpoch = x.configEpoch
          /\ y.authSent = x.authSent /\ y.authEpoch = x.authEpoch /\ y.phase = x.phase
      BY <1>6, CastVoteTable DEF y
    <3>2. /\ y.todo = FALSE => Saved(st[n], y)
          /\ y.phase = st[n].phase /\ y.authSent = st[n].authSent /\ y.authEpoch = st[n].authEpoch
          /\ x.lastVoteEpoch = st[n].lastVoteEpoch
      BY <1>6, <3>1 DEF Moves, Saved
    <3>3. Outdone(n, y) BY <1>7, <3>1 DEF Outdone
    <3>4. y \in NodeState BY <3>1 DEF Table
    <3>5. OutdonePacket(ack) BY <1>1, <1>2, <1>9, <3>4, AckPacket
    <3>6. ack.type = "AUTH_ACK" /\ ack.from = n /\ ack.to = m.from /\ ack.currentEpoch = y.currentEpoch
      BY Zenon DEF Packet
    <3> HIDE DEF ack
    <3>7. BeforeSleep(n, y) /\ Send({m}, {ack}) BY <2>2
    <3>8. \A u \in {ack} : OutdonePacket(u) /\ u.type = "AUTH_ACK" /\ u.to = m.from
      BY <3>5, <3>6
    <3>9. /\ ElectionInv' /\ \A k \in Node \ {n} : st'[k] = st[k]
          /\ st'[n].currentEpoch = y.currentEpoch /\ st'[n].lastVoteEpoch = y.lastVoteEpoch
          /\ \E sent \in SUBSET {ack} : net' = (net \ {m}) \cup sent
      BY <1>1, <1>9, <3>1, <3>2, <3>3, <3>7, <3>8, AnswerStep, Zenon DEF n
    <3>10. PICK sent \in SUBSET {ack} : net' = (net \ {m}) \cup sent BY <3>9
    <3>11. /\ [from |-> m.from, to |-> n, epoch |-> m.currentEpoch] \in Requests(net)
          /\ Requests(net') = Requests(net) \ {[from |-> m.from, to |-> n, epoch |-> m.currentEpoch]}
          /\ Acks(net') = Acks(net) \cup Acks(sent)
      BY <1>1, <1>9, <3>6, <3>10, RequestConsumed, Zenon DEF n
    <3>12. Acks(sent) = {} \/ Acks(sent) = {[from |-> n, to |-> m.from, epoch |-> x.currentEpoch]}
      <4>1. CASE sent = {} BY <4>1 DEF Acks
      <4>2. CASE sent = {ack} BY <3>1, <3>6, <4>2 DEF Acks
      <4> QED BY <3>10, <4>1, <4>2
    <3>13. m.currentEpoch >= x.currentEpoch /\ st[n].lastVoteEpoch # x.currentEpoch
      BY <2>2, <3>2 DEF Grants
    <3>14. \/ Acks(net') = Acks(net) \cup {[from |-> n, to |-> m.from, epoch |-> x.currentEpoch]}
           \/ Acks(net') = Acks(net)
      BY <3>11, <3>12
    <3> QED BY <1>4, <1>6, <1>9, <2>2, <3>1, <3>9, <3>11, <3>13, <3>14, ConsiderStep, ZenonT(30)
  <2> QED BY <1>3, <2>1, <2>2
<1> QED BY <1>1, <1>8, <1>9 DEF Node

-----------------------------------------------------------------------------
(* The votes are counted *)

\* The two modules ask for the same quorum.
LEMMA SameQuorum == Election!NeededQuorum = NeededQuorum
<1>1. \A S : Election!Cardinality(S) = Cardinality(S) BY DEF Election!Cardinality, Cardinality
<1> QED BY <1>1 DEF Election!NeededQuorum, NeededQuorum

\* The vote of k to n in epoch q is received, and no other packet of an election is.
Took(k, n, q) ==
  /\ [from |-> k, to |-> n, epoch |-> q] \in Acks(net)
  /\ Acks(net') = Acks(net) \ {[from |-> k, to |-> n, epoch |-> q]}
  /\ Requests(net') = Requests(net)

\* A vote leaves the network.
LEMMA AckConsumed ==
  ASSUME ElectionInv, NEW m \in net, m.type = "AUTH_ACK",
         NEW sent, net' = (net \ {m}) \cup sent, \A u \in sent : u.type = "PING"
  PROVE  Took(m.from, m.to, m.currentEpoch)
<1> DEFINE R(S) == {p \in S : p.type = "AUTH_ACK"}
           b(p) == [from |-> p.from, to |-> p.to, epoch |-> p.currentEpoch]
<1>1. R(net') = R(net) \ {m} /\ m \in R(net) OBVIOUS
<1>2. \A p \in R(net) : b(p) = b(m) => p = m
  <2> TAKE p \in R(net)
  <2> HAVE b(p) = b(m)
  <2>1. p.from = m.from /\ p.to = m.to /\ p.currentEpoch = m.currentEpoch OBVIOUS
  <2> QED BY <2>1, OnePacket
<1>3. Acks(net') = {b(p) : p \in R(net')} /\ Acks(net) = {b(p) : p \in R(net)} BY DEF Acks
<1>4. {b(p) : p \in R(net')} = {b(p) : p \in R(net)} \ {b(m)}
  <2> HIDE DEF R, b
  <2> QED BY <1>1, <1>2
<1>5. b(m) \in {b(p) : p \in R(net)} BY <1>1
<1>6. {p \in net' : p.type = "AUTH_REQUEST" /\ p.to \in Master}
        = {p \in net : p.type = "AUTH_REQUEST" /\ p.to \in Master}
  OBVIOUS
<1>7. Requests(net') = Requests(net) BY <1>6 DEF Requests
<1> QED BY <1>3, <1>4, <1>5, <1>7, Zenon DEF Took

\* A slave counts the vote of k in epoch q, and may win.
LEMMA CountVoteStep ==
  ASSUME NEW n \in Slave, NEW k, NEW q, \A j \in Node \ {n} : st'[j] = st[j],
         Took(k, n, q), votes' = votes,
         st'[n].currentEpoch = IF q > st[n].currentEpoch THEN q ELSE st[n].currentEpoch,
         st'[n].authCount = IF q >= st[n].authEpoch THEN st[n].authCount + 1 ELSE st[n].authCount,
         st'[n].authSent = st[n].authSent, st'[n].authEpoch = st[n].authEpoch,
         \/ won' = won
         \/ /\ st[n].authSent /\ st'[n].authCount >= NeededQuorum
            /\ won' = won \cup {[node |-> n, epoch |-> st[n].authEpoch]}
  PROVE  Election!Next
<1> DEFINE a == [from |-> k, to |-> n, epoch |-> q]
           count == IF q >= st[n].authEpoch THEN st[n].authCount + 1 ELSE st[n].authCount
<1>1. n \in Node /\ n \in Slave BY DEF Node
<1>2. /\ [j \in Node |-> st[j].currentEpoch]'
           = [[j \in Node |-> st[j].currentEpoch] EXCEPT ![n] = st'[n].currentEpoch]
      /\ [j \in Master |-> st[j].lastVoteEpoch]' = [j \in Master |-> st[j].lastVoteEpoch]
      /\ [j \in Slave |-> st[j].authEpoch]'
           = [[j \in Slave |-> st[j].authEpoch] EXCEPT ![n] = st'[n].authEpoch]
      /\ [j \in Slave |-> st[j].authSent]'
           = [[j \in Slave |-> st[j].authSent] EXCEPT ![n] = st'[n].authSent]
      /\ [j \in Slave |-> st[j].authCount]'
           = [[j \in Slave |-> st[j].authCount] EXCEPT ![n] = count]
  BY SlaveStep, ZenonT(30)
<1>3. /\ [j \in Slave |-> st[j].authEpoch]' = [j \in Slave |-> st[j].authEpoch]
      /\ [j \in Slave |-> st[j].authSent]' = [j \in Slave |-> st[j].authSent]
  BY <1>2, ZenonT(30)
<1>4. /\ a.from = k /\ a.to = n /\ a.epoch = q
      /\ [j \in Node |-> st[j].currentEpoch][n] = st[n].currentEpoch
      /\ [j \in Slave |-> st[j].authEpoch][n] = st[n].authEpoch
      /\ [j \in Slave |-> st[j].authSent][n] = st[n].authSent
      /\ [j \in Slave |-> st[j].authCount][n] = st[n].authCount
  BY <1>1
<1>5. a \in Acks(net) /\ Acks(net') = Acks(net) \ {a} /\ Requests(net') = Requests(net) BY DEF Took
<1>6. count = IF a.epoch >= [j \in Slave |-> st[j].authEpoch][a.to]
              THEN [j \in Slave |-> st[j].authCount][a.to] + 1
              ELSE [j \in Slave |-> st[j].authCount][a.to]
  BY <1>4, ZenonT(30)
<1> HIDE DEF a
<1>7. st'[n].authCount = count BY ZenonT(30)
<1> HIDE DEF count
<1>8. Election!Elected(a.to, count) \/ won' = won
  BY <1>4, <1>7, SameQuorum DEF Election!Elected
<1>9. a \in Acks(net) /\ Acks(net') = Acks(net) \ {a} BY <1>5
<1>10. Requests(net') = Requests(net) /\ votes' = votes BY <1>5
<1>11. [j \in Node |-> st[j].currentEpoch]'
         = [[j \in Node |-> st[j].currentEpoch] EXCEPT ![a.to] = IF a.epoch > @ THEN a.epoch ELSE @]
  BY <1>1, <1>2, <1>4, ZenonT(30)
<1>12. [j \in Slave |-> st[j].authCount]' = [[j \in Slave |-> st[j].authCount] EXCEPT ![a.to] = count]
  BY <1>2, <1>4, ZenonT(30)
<1>13. [j \in Master |-> st[j].lastVoteEpoch]' = [j \in Master |-> st[j].lastVoteEpoch]
  BY <1>2, ZenonT(30)
<1>14. Election!CountVote(a)
  BY <1>3, <1>6, <1>8, <1>9, <1>10, <1>11, <1>12, <1>13, Zenon DEF Election!CountVote, Requests, Acks
<1> QED BY <1>5, <1>14, ZenonT(30) DEF Election!Next, Acks

\* A vote received is CountVote of ClusterElection, the promotion included.
LEMMA ReceiveAuthAckImplements ==
  ASSUME CutOff, ElectionInv, TableInv', NEW m \in net, ReceiveAuthAck(m)
  PROVE  ElectionInv' /\ Election!Next
<1> DEFINE n == m.to
           x == SeeHeader(st[n], m)
           c == x.authCount + 1
           y == [x EXCEPT !.authCount = @ + 1]
           r == HandleSlaveFailover(n, y)
<1>1. /\ m \in AnyPacket /\ n \in Node /\ n \in Slave /\ m.type = "AUTH_ACK" /\ OutdonePacket(m)
      /\ m.currentEpoch \in Nat
  BY PacketFields DEF ElectionInv, TableInv, ReceiveAuthAck, SlavesAsk
<1>2. m.from \in Master /\ m.from # n /\ m.from # Failing BY <1>1 DEF OutdonePacket
<1>3. m.from \notin Contender BY <1>2, FailoverAssumption DEF Contender
<1>4. Table(st[n]) /\ Outdone(n, st[n])
  BY <1>1, TableOf, ZenonT(30) DEF ElectionInv, TableInv, OutdoneTables
<1>5. /\ Table(x) /\ Moves(st[n], x)
      /\ x.currentEpoch = IF m.currentEpoch > st[n].currentEpoch THEN m.currentEpoch
                                                                  ELSE st[n].currentEpoch
  BY <1>1, <1>4, SeeHeaderMoves
<1>6. Outdone(n, x) BY <1>1, <1>2, <1>4, SeeHeaderOutdone
<1>7. VoteCounts(x, m) <=> m.currentEpoch >= x.authEpoch
  BY <1>3 DEF VoteCounts, NodeIsMaster, ServesSlots
<1>8. IF VoteCounts(x, m) THEN FailoverStep(n, y, {m})
      ELSE BeforeSleep(n, x) /\ Send({m}, {}) /\ votes' = votes /\ won' = won
  BY DEF ReceiveAuthAck
<1>9. st[n].phase \notin {"retry", "delay"} /\ st[n].authSent /\ st[n].authEpoch >= 2
  <2>1. m \in AuthUnderWay(n) BY <1>1 DEF AuthUnderWay
  <2> QED BY <1>1, <2>1 DEF ElectionInv, OneAttempt
<1> HIDE DEF n, x
<1>10. /\ x.authSent = st[n].authSent /\ x.authCount = st[n].authCount
       /\ x.authEpoch = st[n].authEpoch /\ x.phase = st[n].phase
       /\ x.todo = FALSE => Saved(st[n], x)
  BY <1>5 DEF Moves
<1>11. ASSUME ~ VoteCounts(x, m) PROVE ElectionInv' /\ Election!Next
  <2>1. BeforeSleep(n, x) /\ Send({m}, {}) /\ votes' = votes /\ won' = won BY <1>8, <1>11
  <2>2. /\ ElectionInv' /\ \A k \in Node \ {n} : st'[k] = st[k]
        /\ st'[n].currentEpoch = x.currentEpoch /\ st'[n].authCount = x.authCount
        /\ st'[n].authSent = st[n].authSent /\ st'[n].authEpoch = st[n].authEpoch
        /\ \E sent \in SUBSET {} : net' = (net \ {m}) \cup sent
    <3>1. Stood(n, x, {m}, {}) BY <1>1, <1>5, <1>6, <1>10, <2>1, StandingStep, Zenon
    <3> QED BY <3>1 DEF Stood
  <2>3. PICK sent \in SUBSET {} : net' = (net \ {m}) \cup sent BY <2>2
  <2>4. Took(m.from, n, m.currentEpoch)
    <3>1. \A u \in sent : u.type = "PING" BY <2>3
    <3> QED BY <1>1, <2>3, <3>1, AckConsumed DEF n
  <2>5. st'[n].authCount = IF m.currentEpoch >= st[n].authEpoch THEN st[n].authCount + 1
                                                                 ELSE st[n].authCount
    BY <1>7, <1>10, <1>11, <2>2
  <2> QED BY <1>1, <1>5, <2>1, <2>2, <2>4, <2>5, CountVoteStep, Zenon
<1>12. ASSUME VoteCounts(x, m) PROVE ElectionInv' /\ Election!Next
  <2>1. x \in NodeState /\ Bound(x) /\ c \in Nat BY <1>5 DEF Table, NodeState
  <2>2. y = [x EXCEPT !.authCount = c] BY <2>1 DEF NodeState
  <2> HIDE DEF c, y
  <2>3. /\ y \in NodeState /\ y.todo = x.todo /\ y.owner = x.owner /\ y.slaveof = x.slaveof
        /\ y.configEpoch = x.configEpoch /\ y.currentEpoch = x.currentEpoch /\ y.phase = x.phase
        /\ y.authSent = x.authSent /\ y.authEpoch = x.authEpoch /\ y.authCount = c
    BY <2>1, <2>2 DEF NodeState
  <2>4. Table(y) BY <2>1, <2>3 DEF Table, Bound
  <2>5. Outdone(n, y) BY <1>6, <2>3 DEF Outdone
  <2>6. y.todo = FALSE => Saved(st[n], y) BY <1>10, <2>3 DEF Saved
  <2>7. /\ BeforeSleep(n, r.x) /\ Send({m}, r.out) /\ votes' = votes
        /\ won' = IF r.wins THEN won \cup {[node |-> n, epoch |-> y.authEpoch]} ELSE won
    BY <1>8, <1>12 DEF FailoverStep
  <2>8. \/ r.x = y /\ r.out = {} /\ r.wins = FALSE
        \/ /\ y.authSent = TRUE /\ y.authCount >= NeededQuorum /\ r.x = Promoted(n, y)
           /\ r.out = Broadcast(n, Promoted(n, y), "PING") /\ r.wins = TRUE
    <3>1. y.phase # "retry" /\ y.authSent # FALSE BY <1>9, <1>10, <2>3
    <3> QED BY <1>1, <2>4, <3>1, SlaveFailoverCases, ZenonT(30)
  <2>9. /\ Table(r.x) /\ Outdone(n, r.x) /\ (r.x.todo = FALSE => Saved(st[n], r.x))
        /\ r.x.phase = st[n].phase /\ r.x.authSent = st[n].authSent
        /\ r.x.authEpoch = st[n].authEpoch /\ r.x.authCount = c
        /\ r.x.currentEpoch = x.currentEpoch
        /\ \A u \in r.out : OutdonePacket(u) /\ u.type = "PING"
    <3>1. CASE r.x = y /\ r.out = {} BY <1>10, <2>3, <2>4, <2>5, <2>6, <3>1, Zenon
    <3>2. CASE r.x = Promoted(n, y) /\ r.out = Broadcast(n, Promoted(n, y), "PING")
      <4>1. /\ Table(Promoted(n, y)) /\ Moves(y, Promoted(n, y)) /\ Promoted(n, y).todo = TRUE
            /\ Promoted(n, y).currentEpoch = y.currentEpoch
        <5>1. IsPromoted(n, y, Promoted(n, y)) BY <1>1, <2>4, PromotedTable
        <5> QED BY <5>1, Zenon DEF IsPromoted
      <4>2. y.authEpoch >= 2 BY <1>9, <1>10, <2>3
      <4>3. /\ Outdone(n, Promoted(n, y))
            /\ \A u \in Broadcast(n, Promoted(n, y), "PING") : OutdonePacket(u) /\ u.type = "PING"
        BY <1>1, <2>4, <2>5, <4>2, PromotedOutdone
      <4> QED BY <1>10, <2>3, <3>2, <4>1, <4>3, Zenon DEF Moves
    <3> QED BY <2>8, <3>1, <3>2, ZenonT(30)
  <2> HIDE DEF r
  <2>10. /\ ElectionInv' /\ \A k \in Node \ {n} : st'[k] = st[k]
         /\ st'[n].currentEpoch = r.x.currentEpoch /\ st'[n].authCount = r.x.authCount
         /\ st'[n].authSent = st[n].authSent /\ st'[n].authEpoch = st[n].authEpoch
         /\ \E sent \in SUBSET r.out : net' = (net \ {m}) \cup sent
    <3>1. Stood(n, r.x, {m}, r.out) BY <1>1, <2>7, <2>9, StandingStep, Zenon
    <3> QED BY <3>1 DEF Stood
  <2>11. PICK sent \in SUBSET r.out : net' = (net \ {m}) \cup sent BY <2>10
  <2>12. Took(m.from, n, m.currentEpoch)
    <3>1. \A u \in sent : u.type = "PING" BY <2>9, <2>11
    <3> QED BY <1>1, <2>11, <3>1, AckConsumed DEF n
  <2>13. st'[n].authCount = IF m.currentEpoch >= st[n].authEpoch THEN st[n].authCount + 1
                                                                  ELSE st[n].authCount
    BY <1>7, <1>10, <1>12, <2>9, <2>10, Zenon DEF c
  <2>14. \/ won' = won
         \/ /\ st[n].authSent /\ st'[n].authCount >= NeededQuorum
            /\ won' = won \cup {[node |-> n, epoch |-> st[n].authEpoch]}
    BY <1>9, <1>10, <2>3, <2>7, <2>8, <2>9, <2>10, Zenon
  <2>15. st'[n].currentEpoch = IF m.currentEpoch > st[n].currentEpoch THEN m.currentEpoch
                                                                       ELSE st[n].currentEpoch
    BY <1>5, <2>9, <2>10, ZenonT(30)
  <2> QED BY <1>1, <2>7, <2>10, <2>12, <2>13, <2>14, <2>15, CountVoteStep, Zenon
<1> QED BY <1>11, <1>12

-----------------------------------------------------------------------------
(* The attempts of a slave *)

\* What is under way for a slave, as ClusterElection sees it.
LEMMA NothingUnderWay ==
  ASSUME NEW n \in Slave, AuthUnderWay(n) = {}
  PROVE  Election!UnderWay(n) = {}
<1>1. \A r \in Requests(net) : r.from # n BY DEF Requests, AuthUnderWay
<1>2. \A a \in Acks(net) : a.to # n BY DEF Acks, AuthUnderWay
<1> QED BY <1>1, <1>2, Zenon DEF Election!UnderWay, Requests, Acks

\* A new attempt.
LEMMA ScheduleStep ==
  ASSUME NEW n \in Slave, AuthUnderWay(n) = {}, \A k \in Node \ {n} : st'[k] = st[k],
         st'[n].currentEpoch = st[n].currentEpoch, st'[n].authEpoch = st[n].authEpoch,
         st'[n].authSent = FALSE, st'[n].authCount = 0, UNCHANGED <<net, votes, won>>
  PROVE  Election!Next
<1>1. Election!UnderWay(n) = {} BY NothingUnderWay
<1>2. /\ [j \in Node |-> st[j].currentEpoch]'
           = [[j \in Node |-> st[j].currentEpoch] EXCEPT ![n] = st'[n].currentEpoch]
      /\ [j \in Master |-> st[j].lastVoteEpoch]' = [j \in Master |-> st[j].lastVoteEpoch]
      /\ [j \in Slave |-> st[j].authEpoch]'
           = [[j \in Slave |-> st[j].authEpoch] EXCEPT ![n] = st'[n].authEpoch]
      /\ [j \in Slave |-> st[j].authSent]' = [[j \in Slave |-> st[j].authSent] EXCEPT ![n] = FALSE]
      /\ [j \in Slave |-> st[j].authCount]' = [[j \in Slave |-> st[j].authCount] EXCEPT ![n] = 0]
  BY SlaveStep, Zenon
<1>3. [j \in Node |-> st[j].currentEpoch]' = [j \in Node |-> st[j].currentEpoch] BY <1>2
<1>4. [j \in Slave |-> st[j].authEpoch]' = [j \in Slave |-> st[j].authEpoch] BY <1>2, ZenonT(30)
<1>5. Election!Schedule(n) BY <1>1, <1>2, <1>3, <1>4, Zenon DEF Election!Schedule
<1> QED BY <1>5 DEF Election!Next

\* The votes are there.
LEMMA WinStep ==
  ASSUME NEW n \in Slave, \A k \in Node \ {n} : st'[k] = st[k],
         st'[n].currentEpoch = st[n].currentEpoch, st'[n].authEpoch = st[n].authEpoch,
         st'[n].authSent = st[n].authSent, st'[n].authCount = st[n].authCount,
         Requests(net') = Requests(net), Acks(net') = Acks(net), votes' = votes,
         st[n].authSent, st[n].authCount >= NeededQuorum,
         won' = won \cup {[node |-> n, epoch |-> st[n].authEpoch]}
  PROVE  Election!Next
<1>1. /\ [j \in Slave |-> st[j].authEpoch][n] = st[n].authEpoch
      /\ [j \in Slave |-> st[j].authSent][n] = st[n].authSent
      /\ [j \in Slave |-> st[j].authCount][n] = st[n].authCount
  BY Zenon
<1>2. Election!Elected(n, [j \in Slave |-> st[j].authCount][n])
  BY <1>1, SameQuorum DEF Election!Elected
<1>3. Slave \subseteq Node /\ Master \subseteq Node /\ n \notin Master BY FailoverAssumption DEF Node
<1>4. [j \in Node |-> st[j].currentEpoch]' = [j \in Node |-> st[j].currentEpoch] BY Zenon
<1>5. [j \in Master |-> st[j].lastVoteEpoch]' = [j \in Master |-> st[j].lastVoteEpoch] BY <1>3
<1>6. [j \in Slave |-> st[j].authEpoch]' = [j \in Slave |-> st[j].authEpoch] BY <1>3
<1>7. [j \in Slave |-> st[j].authSent]' = [j \in Slave |-> st[j].authSent] BY <1>3, Zenon
<1>8. [j \in Slave |-> st[j].authCount]' = [j \in Slave |-> st[j].authCount] BY <1>3
<1>9. Election!Win(n)
  BY <1>2, <1>4, <1>5, <1>6, <1>7, <1>8, Zenon DEF Election!Win, Requests, Acks
<1> QED BY <1>9, ZenonT(30) DEF Election!Next

\* A slave asks the masters in `to` for votes.
LEMMA RequestAuthStep ==
  ASSUME NEW n \in Slave, AuthUnderWay(n) = {}, \A k \in Node \ {n} : st'[k] = st[k],
         st[n].authSent = FALSE, st'[n].currentEpoch = st[n].currentEpoch + 1,
         st'[n].authEpoch = st[n].currentEpoch + 1, st'[n].authSent = TRUE,
         st'[n].authCount = st[n].authCount, NEW to \in SUBSET Master,
         Requests(net') = Requests(net) \cup [from : {n}, to : to, epoch : {st[n].currentEpoch + 1}],
         Acks(net') = Acks(net), UNCHANGED <<votes, won>>
  PROVE  Election!Next
<1>1. Election!UnderWay(n) = {} BY NothingUnderWay
<1>2. /\ [j \in Node |-> st[j].currentEpoch]'
           = [[j \in Node |-> st[j].currentEpoch] EXCEPT ![n] = st[n].currentEpoch + 1]
      /\ [j \in Master |-> st[j].lastVoteEpoch]' = [j \in Master |-> st[j].lastVoteEpoch]
      /\ [j \in Slave |-> st[j].authEpoch]'
           = [[j \in Slave |-> st[j].authEpoch] EXCEPT ![n] = st[n].currentEpoch + 1]
      /\ [j \in Slave |-> st[j].authSent]' = [[j \in Slave |-> st[j].authSent] EXCEPT ![n] = TRUE]
      /\ [j \in Slave |-> st[j].authCount]'
           = [[j \in Slave |-> st[j].authCount] EXCEPT ![n] = st'[n].authCount]
  BY SlaveStep, Zenon
<1>3. n \in Node BY DEF Node
<1>4. /\ [j \in Node |-> st[j].currentEpoch][n] = st[n].currentEpoch
      /\ [j \in Slave |-> st[j].authSent][n] = FALSE
  BY <1>3
<1>5. [j \in Slave |-> st[j].authCount]' = [j \in Slave |-> st[j].authCount] BY <1>2, ZenonT(30)
<1>6. [j \in Node |-> st[j].currentEpoch]'
        = [[j \in Node |-> st[j].currentEpoch] EXCEPT ![n] = @ + 1]
  BY <1>2, <1>3, ZenonT(30)
<1>7. \E s \in SUBSET Master :
        Requests(net') = Requests(net)
          \cup [from : {n}, to : s, epoch : {[j \in Node |-> st[j].currentEpoch][n] + 1}]
  BY <1>4, ZenonT(30)
<1>8. [j \in Slave |-> st[j].authEpoch]'
        = [[j \in Slave |-> st[j].authEpoch] EXCEPT ![n] = [j \in Node |-> st[j].currentEpoch][n] + 1]
  BY <1>2, <1>4, ZenonT(30)
<1>9. Election!RequestAuth(n)
  BY <1>1, <1>2, <1>4, <1>5, <1>6, <1>7, <1>8, Zenon DEF Election!RequestAuth, Requests, Acks
<1> QED BY <1>9, ZenonT(30) DEF Election!Next

\* The packets of a request for votes, and the masters they reach.
LEMMA RequestsSent ==
  ASSUME CutOff, NEW n \in Slave, NEW y, Table(y), y.configEpoch[Failing] = 1, InElection(n, y),
         NEW sent \in SUBSET Broadcast(n, y, "AUTH_REQUEST"), net' = (net \ {}) \cup sent
  PROVE  /\ \A u \in sent : OutdonePacket(u) /\ u.type = "AUTH_REQUEST" /\ u.from = n
         /\ Acks(net') = Acks(net)
         /\ Requests(net') = Requests(net) \cup
              [from : {n}, to : {u.to : u \in sent} \cap Master, epoch : {y.currentEpoch}]
<1>1. n \in Node /\ y \in NodeState BY Contenders, ZenonT(30) DEF Table
<1>2. ASSUME NEW u \in sent
      PROVE  /\ OutdonePacket(u) /\ u.type = "AUTH_REQUEST" /\ u.from = n
             /\ u.currentEpoch = y.currentEpoch
  <2>1. /\ u.type = "AUTH_REQUEST" /\ u.to \in Reach \ {n}
        /\ u = Packet(n, y, "AUTH_REQUEST", u.to)
    BY <1>1, BroadcastType
  <2>2. u.to \in Node /\ u.to # Failing /\ n # u.to BY <2>1, FailoverAssumption DEF CutOff
  <2>3. OutdonePacket(Packet(n, y, "AUTH_REQUEST", u.to)) BY <1>1, <2>2, RequestPacket
  <2>4. /\ Packet(n, y, "AUTH_REQUEST", u.to).from = n
        /\ Packet(n, y, "AUTH_REQUEST", u.to).currentEpoch = y.currentEpoch
    BY DEF Packet
  <2> QED BY <2>1, <2>3, <2>4, Zenon
<1>3. {p \in net' : p.type = "AUTH_ACK"} = {p \in net : p.type = "AUTH_ACK"} BY <1>2
<1>4. Acks(net') = Acks(net) BY <1>3 DEF Acks
<1> DEFINE R(S) == {p \in S : p.type = "AUTH_REQUEST" /\ p.to \in Master}
           b(p) == [from |-> p.from, to |-> p.to, epoch |-> p.currentEpoch]
           T == [from : {n}, to : {u.to : u \in sent} \cap Master, epoch : {y.currentEpoch}]
<1>5. R(net') = R(net) \cup R(sent) OBVIOUS
<1>6. Requests(net') = {b(p) : p \in R(net')} /\ Requests(net) = {b(p) : p \in R(net)}
  BY DEF Requests
<1>7. {b(p) : p \in R(sent)} = T
  <2>1. \A p \in R(sent) : b(p) \in T BY <1>2
  <2>2. ASSUME NEW t \in T PROVE \E p \in R(sent) : b(p) = t
    <3>1. PICK u \in sent : u.to = t.to BY <2>2
    <3>2. t = [from |-> n, to |-> u.to, epoch |-> y.currentEpoch] /\ u.to \in Master BY <2>2, <3>1
    <3>3. u \in R(sent) /\ b(u) = t BY <1>2, <3>2
    <3> QED BY <3>3
  <2> HIDE DEF R, b, T
  <2> QED BY <2>1, <2>2
<1>8. {b(p) : p \in R(net')} = {b(p) : p \in R(net)} \cup {b(p) : p \in R(sent)}
  <2> HIDE DEF R, b
  <2> QED BY <1>5
<1> QED BY <1>2, <1>4, <1>6, <1>7, <1>8, Zenon

\* clusterCron of a slave: nothing happens, or a new attempt is set up.
LEMMA CronIdles ==
  ASSUME CutOff, ElectionInv, TableInv', NEW n \in Slave, NEW r, BeforeSleep(n, r.x),
         Send({}, r.out), r.out = {}, UNCHANGED <<votes, won>>,
         \/ r.x = st[n]
         \/ /\ st[n].phase = "retry"
            /\ r.x = [st[n] EXCEPT !.phase = "delay", !.authCount = 0, !.authSent = FALSE]
  PROVE  ElectionInv' /\ Election!Next
<1> DEFINE x == st[n]
           y == [x EXCEPT !.phase = "delay", !.authCount = 0, !.authSent = FALSE]
<1>1. /\ TableInv /\ Tables /\ OneAttempt /\ OutdoneTables /\ n \in Node /\ Table(x) /\ Outdone(n, x)
      /\ x \in NodeState /\ Bound(x) /\ x.todo = FALSE
  BY Contenders, TableOf, Zenon DEF ElectionInv, TableInv, OutdoneTables, Table
<1>2. ASSUME r.x = x PROVE ElectionInv' /\ Election!Next
  <2>1. BeforeSleep(n, x) /\ Send({}, {}) BY <1>2
  <2>2. Moves(x, x) BY <1>1, MovesNot
  <2> HIDE DEF x
  <2>3. Moves(st[n], x) BY <2>2 DEF x
  <2>4. ElectionInv' /\ Election!RaiseEpoch(n) BY <1>1, <2>1, <2>3, QuietStep
  <2> QED BY <1>1, <2>4, RaiseIsNext
<1>3. ASSUME x.phase = "retry", r.x = y PROVE ElectionInv' /\ Election!Next
  <2>1. BeforeSleep(n, y) /\ Send({}, {}) BY <1>3
  <2>2. /\ y \in NodeState /\ y.todo = x.todo /\ y.owner = x.owner /\ y.slaveof = x.slaveof
        /\ y.configEpoch = x.configEpoch /\ y.currentEpoch = x.currentEpoch
        /\ y.authEpoch = x.authEpoch /\ y.authCount = 0 /\ y.authSent = FALSE /\ y.phase = "delay"
    BY <1>1, Zenon DEF NodeState, Phase
  <2> HIDE DEF y
  <2>3. Table(y) /\ Outdone(n, y) /\ (y.todo = FALSE => Saved(st[n], y))
    BY <1>1, <2>2 DEF Table, Bound, Outdone, Saved
  <2>4. /\ Tables' /\ st' = [st EXCEPT ![n] = [y EXCEPT !.todo = FALSE]]
        /\ \A k \in MayRestart : disk'[k] = disk[k] \/ (k = n /\ disk'[k] = Persistent(y))
    BY <1>1, <2>1, <2>3, BeforeSleepTables, Zenon
  <2>5. OutdoneTables' BY <1>1, <2>3, <2>4, OutdoneStep, Zenon
  <2>6. net' = net BY <2>1 DEF Send
  <2>7. /\ \A k \in Node \ {n} : st'[k] = st[k]
        /\ st'[n].currentEpoch = y.currentEpoch /\ st'[n].authCount = y.authCount
        /\ st'[n].authSent = y.authSent /\ st'[n].authEpoch = y.authEpoch
    BY <1>1, <2>2, <2>4 DEF Tables, NodeState
  <2>8. AuthUnderWay(n) = {} BY <1>1, <1>3 DEF OneAttempt
  <2>9. OneAttempt'
    <3> SUFFICES ASSUME NEW k \in Slave
                 PROVE  /\ st'[k].phase \in {"retry", "delay"} \/ ~ st'[k].authSent => AuthUnderWay(k)' = {}
                        /\ st'[k].authSent => st'[k].authEpoch >= 2
      BY DEF OneAttempt
    <3>1. AuthUnderWay(k)' = AuthUnderWay(k) BY <2>6 DEF AuthUnderWay
    <3>2. CASE k = n BY <2>2, <2>7, <2>8, <3>1, <3>2
    <3>3. CASE k # n
      <4>1. st'[k] = st[k] BY <2>7, <3>3, Contenders
      <4> QED BY <1>1, <3>1, <4>1 DEF OneAttempt
    <3> QED BY <3>2, <3>3
  <2>10. \A m \in net' : OutdonePacket(m) BY <2>6 DEF ElectionInv
  <2>11. ElectionInv' BY <2>5, <2>9, <2>10 DEF ElectionInv
  <2>12. Election!Next BY <2>2, <2>6, <2>7, <2>8, ScheduleStep, ZenonT(30)
  <2> QED BY <2>11, <2>12
<1> QED BY <1>2, <1>3

\* clusterCron of a slave: it asks for votes.
LEMMA CronAsks ==
  ASSUME CutOff, ElectionInv, TableInv', NEW n \in Slave, st[n].phase = "open",
         st[n].authSent = FALSE, InElection(n, st[n]), BeforeSleep(n, Asks(st[n])),
         Send({}, Broadcast(n, Asks(st[n]), "AUTH_REQUEST")), UNCHANGED <<votes, won>>
  PROVE  ElectionInv' /\ Election!Next
<1> DEFINE x == st[n]
           y == Asks(x)
<1>1. /\ TableInv /\ Tables /\ OneAttempt /\ OutdoneTables /\ n \in Node /\ Table(x) /\ Outdone(n, x)
      /\ x \in NodeState /\ x.currentEpoch \in Nat
  BY Contenders, TableOf, ZenonT(30) DEF ElectionInv, TableInv, OutdoneTables, Table, NodeState
<1>2. /\ Table(y) /\ y.todo = TRUE /\ y.currentEpoch = x.currentEpoch + 1
      /\ y.authEpoch = x.currentEpoch + 1 /\ y.authSent = TRUE
      /\ y.authCount = x.authCount /\ y.phase = x.phase
      /\ y.owner = x.owner /\ y.slaveof = x.slaveof /\ y.configEpoch = x.configEpoch
  BY <1>1, AsksTable, Zenon
<1>3. BeforeSleep(n, y) /\ Send({}, Broadcast(n, y, "AUTH_REQUEST")) OBVIOUS
<1> HIDE DEF y
<1>4. Outdone(n, y) /\ InElection(n, y) /\ y.configEpoch[Failing] = 1
  <2>1. x.currentEpoch >= 1 /\ x.configEpoch[Failing] = 1 BY <1>1, ZenonT(30) DEF Outdone
  <2>2. y.currentEpoch >= 1
    <3>1. x.currentEpoch \in Nat /\ y.currentEpoch = x.currentEpoch + 1 BY <1>1, <1>2, Zenon
    <3> QED BY <2>1, <3>1
  <2>3. Outdone(n, y) BY <1>1, <1>2, <2>2, ZenonT(30) DEF Outdone
  <2>4. InElection(n, y) BY <1>2, Zenon DEF InElection, NodeIsMaster
  <2> QED BY <1>2, <2>1, <2>3, <2>4, ZenonT(30)
<1>5. /\ Tables' /\ st' = [st EXCEPT ![n] = [y EXCEPT !.todo = FALSE]]
      /\ \A k \in MayRestart : disk'[k] = disk[k] \/ (k = n /\ disk'[k] = Persistent(y))
  BY <1>1, <1>2, <1>3, BeforeSleepTables, Zenon
<1>6. OutdoneTables' BY <1>1, <1>2, <1>4, <1>5, OutdoneStep, Zenon
<1>7. /\ \A k \in Node \ {n} : st'[k] = st[k]
      /\ st'[n].currentEpoch = y.currentEpoch /\ st'[n].authCount = y.authCount
      /\ st'[n].authSent = y.authSent /\ st'[n].authEpoch = y.authEpoch /\ st'[n].phase = y.phase
  BY <1>1, <1>2, <1>5 DEF Tables, Table, NodeState
<1>8. PICK sent \in SUBSET Broadcast(n, y, "AUTH_REQUEST") : net' = (net \ {}) \cup sent
  BY <1>3 DEF Send
<1>9. /\ \A u \in sent : OutdonePacket(u) /\ u.type = "AUTH_REQUEST" /\ u.from = n
      /\ Acks(net') = Acks(net)
      /\ Requests(net') = Requests(net) \cup
           [from : {n}, to : {u.to : u \in sent} \cap Master, epoch : {y.currentEpoch}]
  BY <1>2, <1>4, <1>8, RequestsSent, ZenonT(30)
<1>10. AuthUnderWay(n) = {} BY <1>1, ZenonT(30) DEF OneAttempt
<1>11. OneAttempt'
  <2> SUFFICES ASSUME NEW k \in Slave
               PROVE  /\ st'[k].phase \in {"retry", "delay"} \/ ~ st'[k].authSent => AuthUnderWay(k)' = {}
                      /\ st'[k].authSent => st'[k].authEpoch >= 2
    BY DEF OneAttempt
  <2>1. CASE k = n
    <3>1. x.currentEpoch >= 1 BY <1>1, ZenonT(30) DEF Outdone
    <3>2. x.currentEpoch + 1 >= 2 BY <1>1, <3>1
    <3>3. st'[k].authEpoch = x.currentEpoch + 1 BY <1>2, <1>7, <2>1, Zenon
    <3>4. st'[k].phase = "open" /\ st'[k].authSent BY <1>2, <1>7, <2>1, ZenonT(30)
    <3> QED BY <3>2, <3>3, <3>4
  <2>2. CASE k # n
    <3>1. st'[k] = st[k] BY <1>7, <2>2, Contenders, ZenonT(30)
    <3>2. ASSUME NEW u \in AuthUnderWay(k)' PROVE u \in AuthUnderWay(k)
      <4>1. u \in net' /\ ((u.type = "AUTH_REQUEST" /\ u.from = k) \/ (u.type = "AUTH_ACK" /\ u.to = k))
        BY DEF AuthUnderWay
      <4>2. u \notin sent BY <1>9, <2>2, <4>1
      <4>3. u \in net BY <1>8, <4>1, <4>2
      <4> QED BY <4>1, <4>3 DEF AuthUnderWay
    <3> QED BY <1>1, <3>1, <3>2, ZenonT(30) DEF OneAttempt
  <2> QED BY <2>1, <2>2, ZenonT(30)
<1>12. \A m \in net' : OutdonePacket(m) BY <1>8, <1>9, Zenon DEF ElectionInv
<1>13. ElectionInv' BY <1>6, <1>11, <1>12 DEF ElectionInv
<1> DEFINE to == {u.to : u \in sent} \cap Master
<1>14. to \in SUBSET Master OBVIOUS
<1>15. Requests(net') = Requests(net) \cup [from : {n}, to : to, epoch : {st[n].currentEpoch + 1}]
  BY <1>2, <1>9, ZenonT(30)
<1> HIDE DEF to
<1>16. Election!Next BY <1>2, <1>7, <1>9, <1>10, <1>14, <1>15, RequestAuthStep, Zenon
<1> QED BY <1>13, <1>16

\* clusterCron of a slave is Schedule, RequestAuth or Win of ClusterElection, or nothing.
LEMMA CronImplements ==
  ASSUME CutOff, ElectionInv, TableInv', NEW n \in Slave, Cron(n)
  PROVE  ElectionInv' /\ Election!Next
<1> DEFINE x == st[n]
           r == HandleSlaveFailover(n, x)
           y == Promoted(n, x)
<1>1. /\ TableInv /\ Tables /\ OneAttempt /\ OutdoneTables /\ n \in Node /\ Table(x) /\ Outdone(n, x)
  BY Contenders, TableOf, Zenon DEF ElectionInv, TableInv, OutdoneTables
<1>2. /\ BeforeSleep(n, r.x) /\ Send({}, r.out) /\ votes' = votes
      /\ won' = IF r.wins THEN won \cup {[node |-> n, epoch |-> x.authEpoch]} ELSE won
  BY DEF Cron, FailoverStep
<1>3. \/ r.x = x /\ r.out = {} /\ r.wins = FALSE
      \/ /\ x.phase = "retry" /\ r.out = {} /\ r.wins = FALSE
         /\ r.x = [x EXCEPT !.phase = "delay", !.authCount = 0, !.authSent = FALSE]
      \/ /\ x.phase = "open" /\ x.authSent = FALSE /\ InElection(n, x)
         /\ r.x = Asks(x) /\ r.out = Broadcast(n, Asks(x), "AUTH_REQUEST") /\ r.wins = FALSE
      \/ /\ x.phase = "open" /\ x.authSent = TRUE /\ x.authCount >= NeededQuorum
         /\ InElection(n, x)
         /\ r.x = y /\ r.out = Broadcast(n, y, "PING") /\ r.wins = TRUE
  BY <1>1, SlaveFailoverCases, ZenonT(30)
<1> HIDE DEF r
<1>4. ASSUME r.out = {}, r.wins = FALSE,
             \/ r.x = x
             \/ /\ x.phase = "retry"
                /\ r.x = [x EXCEPT !.phase = "delay", !.authCount = 0, !.authSent = FALSE]
      PROVE  ElectionInv' /\ Election!Next
  <2>1. UNCHANGED <<votes, won>> BY <1>2, <1>4
  <2> QED BY <1>2, <1>4, <2>1, CronIdles, Zenon
<1>5. ASSUME x.phase = "open", x.authSent = FALSE, InElection(n, x), r.x = Asks(x),
             r.out = Broadcast(n, Asks(x), "AUTH_REQUEST"), r.wins = FALSE
      PROVE  ElectionInv' /\ Election!Next
  <2>1. UNCHANGED <<votes, won>> BY <1>2, <1>5, Zenon
  <2>2. BeforeSleep(n, Asks(x)) /\ Send({}, Broadcast(n, Asks(x), "AUTH_REQUEST")) BY <1>2, <1>5
  <2> QED BY <1>5, <2>1, <2>2, CronAsks, ZenonT(30)
<1>6. ASSUME x.authSent = TRUE, x.authCount >= NeededQuorum, r.x = y,
             r.out = Broadcast(n, y, "PING"), r.wins = TRUE
      PROVE  ElectionInv' /\ Election!Next
  <2>1. IsPromoted(n, x, y) BY <1>1, PromotedTable
  <2>2. x.authEpoch >= 2 BY <1>1, <1>6 DEF OneAttempt
  <2>3. Outdone(n, y) /\ \A u \in Broadcast(n, y, "PING") : OutdonePacket(u) /\ u.type = "PING"
    BY <1>1, <2>2, PromotedOutdone
  <2> HIDE DEF y
  <2>4. /\ Table(y) /\ y.todo = TRUE /\ y.currentEpoch = x.currentEpoch /\ y.phase = x.phase
        /\ y.authSent = x.authSent /\ y.authEpoch = x.authEpoch /\ y.authCount = x.authCount
    BY <2>1 DEF IsPromoted, Moves
  <2>5. BeforeSleep(n, y) /\ Send({}, Broadcast(n, y, "PING")) BY <1>2, <1>6
  <2>6. Stood(n, y, {}, Broadcast(n, y, "PING")) BY <2>3, <2>4, <2>5, StandingStep, ZenonT(30)
  <2>7. /\ ElectionInv' /\ \A k \in Node \ {n} : st'[k] = st[k]
        /\ st'[n].currentEpoch = x.currentEpoch /\ st'[n].authCount = x.authCount
        /\ st'[n].authSent = x.authSent /\ st'[n].authEpoch = x.authEpoch
    BY <2>4, <2>6 DEF Stood
  <2>8. PICK sent \in SUBSET Broadcast(n, y, "PING") : net' = (net \ {}) \cup sent
    BY <2>6 DEF Stood
  <2>9. Requests(net') = Requests(net) /\ Acks(net') = Acks(net)
    <3>1. \A u \in sent : u.type \notin {"AUTH_REQUEST", "AUTH_ACK"} BY <2>3, <2>8
    <3>2. \A m \in {} : m.type # "AUTH_ACK" /\ ~ (m.type = "AUTH_REQUEST" /\ m.to \in Master)
      OBVIOUS
    <3> QED BY <2>8, <3>1, <3>2, SamePackets, Zenon
  <2>10. won' = won \cup {[node |-> n, epoch |-> x.authEpoch]} /\ votes' = votes BY <1>2, <1>6
  <2>11. Election!Next BY <1>6, <2>7, <2>9, <2>10, WinStep, Zenon
  <2> QED BY <2>7, <2>11
<1> QED BY <1>3, <1>4, <1>5, <1>6, Zenon

-----------------------------------------------------------------------------
(* A restart, and the whole *)

\* A slave restarts from its config file.
LEMMA RestartImplements ==
  ASSUME CutOff, ElectionInv, TableInv', NEW n \in MayRestart, Restart(n)
  PROVE  ElectionInv' /\ Election!Next
<1>1. n \in Node /\ n \in Slave /\ n \notin Master BY FailoverAssumption DEF CutOff, Node
<1>2. /\ AuthUnderWay(n) = {} /\ net' = {m \in net : m.to # n} /\ UNCHANGED <<disk, votes, won>>
  BY DEF Restart
<1>3. TableInv /\ Tables /\ OneAttempt /\ OutdoneTables BY DEF ElectionInv, TableInv
<1>4. /\ Tables' /\ \A k \in Node \ {n} : st'[k] = st[k]
      /\ st'[n].currentEpoch >= disk[n].currentEpoch /\ Saved(st'[n], disk[n])
      /\ st'[n].phase = "retry" /\ st'[n].authSent = FALSE /\ st'[n].authCount = 0
      /\ st'[n].authEpoch = 0
  BY <1>2, <1>3, RestartedTable, ZenonT(30)
<1>5. Outdone(n, st'[n])
  <2>1. Outdone(n, disk[n]) BY <1>3 DEF OutdoneTables
  <2>2. st'[n].currentEpoch \in Nat /\ disk[n].currentEpoch \in Nat
    BY <1>1, <1>3, <1>4 DEF Tables, NodeState, PersistentState
  <2>3. st'[n].currentEpoch >= 1 BY <1>4, <2>1, <2>2 DEF Outdone
  <2> QED BY <1>4, <2>1, <2>3 DEF Outdone, Saved
<1>6. OutdoneTables' BY <1>2, <1>3, <1>4, <1>5, Zenon DEF OutdoneTables
<1>7. OneAttempt'
  <2> SUFFICES ASSUME NEW k \in Slave
               PROVE  /\ st'[k].phase \in {"retry", "delay"} \/ ~ st'[k].authSent => AuthUnderWay(k)' = {}
                      /\ st'[k].authSent => st'[k].authEpoch >= 2
    BY DEF OneAttempt
  <2>1. AuthUnderWay(k)' \subseteq AuthUnderWay(k) BY <1>2 DEF AuthUnderWay
  <2>2. CASE k = n BY <1>2, <1>4, <2>1, <2>2
  <2>3. CASE k # n
    <3>1. st'[k] = st[k] BY <1>4, <2>3, Contenders
    <3> QED BY <1>3, <2>1, <3>1 DEF OneAttempt
  <2> QED BY <2>2, <2>3
<1>8. \A m \in net' : OutdonePacket(m) BY <1>2 DEF ElectionInv
<1>9. ElectionInv' BY <1>6, <1>7, <1>8 DEF ElectionInv
<1>10. Requests(net') = Requests(net)
  <2>1. {p \in net' : p.type = "AUTH_REQUEST" /\ p.to \in Master}
          = {p \in net : p.type = "AUTH_REQUEST" /\ p.to \in Master}
    BY <1>1, <1>2
  <2> QED BY <2>1 DEF Requests
<1>11. Acks(net') = Acks(net)
  <2>1. {p \in net' : p.type = "AUTH_ACK"} = {p \in net : p.type = "AUTH_ACK"}
    BY <1>2 DEF AuthUnderWay
  <2> QED BY <2>1 DEF Acks
<1>12. Election!UnderWay(n) = {} BY <1>1, <1>2, NothingUnderWay
<1>13. /\ [j \in Node |-> st[j].currentEpoch]'
            = [[j \in Node |-> st[j].currentEpoch] EXCEPT ![n] = st'[n].currentEpoch]
       /\ [j \in Master |-> st[j].lastVoteEpoch]' = [j \in Master |-> st[j].lastVoteEpoch]
       /\ [j \in Slave |-> st[j].authEpoch]' = [[j \in Slave |-> st[j].authEpoch] EXCEPT ![n] = 0]
       /\ [j \in Slave |-> st[j].authSent]' = [[j \in Slave |-> st[j].authSent] EXCEPT ![n] = FALSE]
       /\ [j \in Slave |-> st[j].authCount]' = [[j \in Slave |-> st[j].authCount] EXCEPT ![n] = 0]
  BY <1>1, <1>4, SlaveStep, ZenonT(30)
<1>14. [j \in Node |-> st[j].currentEpoch]'[n] = st'[n].currentEpoch /\ st'[n].currentEpoch \in Nat
  BY <1>1, <1>4, ZenonT(30) DEF Tables, NodeState
<1>15. Election!Restart(n)
  BY <1>2, <1>10, <1>11, <1>12, <1>13, <1>14, Zenon DEF Election!Restart, Requests, Acks
<1>16. Election!Next BY <1>1, <1>15, Zenon DEF Election!Next
<1> QED BY <1>9, <1>16

\* The cluster as it is formed.
LEMMA InitImplements ==
  ASSUME Init
  PROVE  ElectionInv /\ Election!Init
<1>1. TableInv BY InitTables
<1>2. /\ st = [n \in Node |-> InitNode] /\ disk = [n \in MayRestart |-> Persistent(InitNode)]
      /\ net = {} /\ votes = {} /\ won = {}
  BY DEF Init
<1>3. /\ InitNode.currentEpoch = 1 /\ InitNode.lastVoteEpoch = 0 /\ InitNode.owner = Failing
      /\ InitNode.authSent = FALSE /\ InitNode.authCount = 0 /\ InitNode.authEpoch = 0
      /\ InitNode.configEpoch[Failing] = 1 /\ \A n \in Slave : InitNode.configEpoch[n] = 0
  BY Contenders, ZenonT(30) DEF InitNode
<1>4. /\ Persistent(InitNode).currentEpoch = 1 /\ Persistent(InitNode).owner = Failing
      /\ Persistent(InitNode).configEpoch = InitNode.configEpoch
  BY <1>3, ZenonT(30) DEF Persistent
<1>5. \A n \in Node : Outdone(n, InitNode) /\ Outdone(n, Persistent(InitNode))
  <2> SUFFICES ASSUME NEW n \in Node
               PROVE  Outdone(n, InitNode) /\ Outdone(n, Persistent(InitNode))
    OBVIOUS
  <2>1. Failing \notin Slave BY Contenders
  <2>2. n \in Slave => InitNode.configEpoch[n] # 1 BY <1>3
  <2>3. Outdone(n, InitNode) BY <1>3, <2>1, <2>2 DEF Outdone
  <2>4. Outdone(n, Persistent(InitNode)) BY <1>3, <1>4, <2>1, <2>2 DEF Outdone
  <2> QED BY <2>3, <2>4
<1>6. OutdoneTables BY <1>2, <1>5, FailoverAssumption DEF OutdoneTables
<1>7. Slave \subseteq Node /\ Master \subseteq Node /\ Node = Master \cup Slave BY DEF Node
<1>8. OneAttempt BY <1>2, <1>3, <1>7 DEF OneAttempt, AuthUnderWay
<1>9. ElectionInv BY <1>1, <1>2, <1>6, <1>8 DEF ElectionInv
<1>10. /\ [n \in Node |-> st[n].currentEpoch] = [n \in Node |-> 1]
       /\ [n \in Master |-> st[n].lastVoteEpoch] = [n \in Master |-> 0]
       /\ [n \in Slave |-> st[n].authEpoch] = [n \in Slave |-> 0]
       /\ [n \in Slave |-> st[n].authSent] = [n \in Slave |-> FALSE]
       /\ [n \in Slave |-> st[n].authCount] = [n \in Slave |-> 0]
  BY <1>2, <1>3, <1>7, Zenon
<1>11. Requests(net) = {} /\ Acks(net) = {} BY <1>2 DEF Requests, Acks
<1>12. /\ [n \in Node |-> st[n].currentEpoch] \in [Master \cup Slave -> Nat]
       /\ [n \in Master |-> st[n].lastVoteEpoch] \in [Master -> Nat]
  BY <1>7, <1>10
<1>13. \A v \in Master : /\ [n \in Node |-> st[n].currentEpoch][v] = 1
                         /\ [n \in Master |-> st[n].lastVoteEpoch][v] = 0
  BY <1>7, <1>10
<1>14. \A v \in Master : [n \in Master |-> st[n].lastVoteEpoch][v] <= [n \in Node |-> st[n].currentEpoch][v]
  BY <1>13
<1>15. Election!Init
  BY <1>2, <1>10, <1>11, <1>12, <1>14, ZenonT(30) DEF Election!Init, Requests, Acks
<1> QED BY <1>9, <1>15

\* Every step of the bus is a step of ClusterElection, or changes nothing of it.
LEMMA NextImplements ==
  ASSUME CutOff, ElectionInv, [Next]_vars
  PROVE  ElectionInv' /\ [Election!Next]_(Election!vars)
<1>1. TableInv' BY NextTables DEF ElectionInv
<1>2. CASE UNCHANGED vars
  <2>1. UNCHANGED <<st, disk, net, votes, won>> BY <1>2 DEF vars
  <2>2. OneAttempt' BY <2>1 DEF ElectionInv, OneAttempt, AuthUnderWay
  <2>3. OutdoneTables' /\ \A m \in net' : OutdonePacket(m) BY <2>1 DEF ElectionInv, OutdoneTables
  <2>4. UNCHANGED Election!vars BY <2>1 DEF Election!vars
  <2> QED BY <1>1, <2>2, <2>3, <2>4 DEF ElectionInv
<1>3. CASE \E l \in Links : Heartbeat(l[1], l[2]) BY <1>1, <1>3, HeartbeatImplements
<1>4. CASE \E m \in net : \/ ReceiveHeartbeat(m) \/ ReceiveUpdate(m)
                          \/ ReceiveAuthRequest(m) \/ ReceiveAuthAck(m)
  BY <1>1, <1>4, ReceiveHeartbeatImplements, ReceiveUpdateImplements,
     ReceiveAuthRequestImplements, ReceiveAuthAckImplements
<1>5. CASE \E n \in Slave : Cron(n) \/ AuthTimePasses(n)
  BY <1>1, <1>5, CronImplements, AuthTimePassesImplements
<1>6. CASE \E n \in Node : VoteTimePasses(n) BY <1>1, <1>6, VoteTimePassesImplements
<1>7. CASE \E n \in MayDetect : MarkNodeAsFailing(n) BY <1>1, <1>7, MarkNodeAsFailingImplements
<1>8. CASE \E n \in MayTakeOver : Takeover(n) BY <1>1, <1>8, TakeoverImplements
<1>9. CASE \E n \in MayRestart : Restart(n) BY <1>1, <1>9, RestartImplements
<1> QED BY <1>2, <1>3, <1>4, <1>5, <1>6, <1>7, <1>8, <1>9 DEF Next

\* The cluster bus implements the voting protocol: with every packet, every table, every
\* config file, heartbeats that change who owns the slots, takeovers without a vote and
\* slaves that restart, the epochs and votes of the nodes are those of ClusterElection.
THEOREM Implements ==
  ASSUME CutOff
  PROVE  Spec => ElectionSpec
<1>1. Init => ElectionInv /\ Election!Init BY InitImplements
<1>2. ElectionInv /\ [Next]_vars => ElectionInv' /\ [Election!Next]_(Election!vars)
  BY NextImplements
<1> QED BY <1>1, <1>2, PTL DEF Spec, ElectionSpec, Election!Spec

-----------------------------------------------------------------------------
(* What is proved of ClusterElection holds of the bus *)

EP == INSTANCE ClusterElectionProofs WITH
  Candidate <- Slave,
  currentEpoch <- [n \in Node |-> st[n].currentEpoch],
  lastVoteEpoch <- [n \in Master |-> st[n].lastVoteEpoch],
  authEpoch <- [n \in Slave |-> st[n].authEpoch],
  authSent <- [n \in Slave |-> st[n].authSent],
  authCount <- [n \in Slave |-> st[n].authCount],
  requests <- Requests(net),
  acks <- Acks(net)

\* The two instances of the protocol are one.
LEMMA SameProtocol == (Election!Init <=> EP!Init) /\ (Election!Next <=> EP!Next)
<1>1. \A S : EP!Cardinality(S) = Cardinality(S) BY DEF EP!Cardinality, Cardinality
<1>2. EP!NeededQuorum = Election!NeededQuorum
  BY <1>1, SameQuorum DEF EP!NeededQuorum, NeededQuorum
<1>3. \A k, c : EP!Elected(k, c) <=> Election!Elected(k, c)
  BY <1>2 DEF EP!Elected, Election!Elected
<1>4. \A k : EP!UnderWay(k) = Election!UnderWay(k) BY DEF EP!UnderWay, Election!UnderWay
<1>5. \A n : EP!RaiseEpoch(n) <=> Election!RaiseEpoch(n) BY ZenonT(30) DEF EP!RaiseEpoch, Election!RaiseEpoch
<1>6. \A k : EP!Schedule(k) <=> Election!Schedule(k)
  BY <1>4, ZenonT(30) DEF EP!Schedule, Election!Schedule
<1>7. \A k : EP!RequestAuth(k) <=> Election!RequestAuth(k)
  BY <1>4, ZenonT(30) DEF EP!RequestAuth, Election!RequestAuth
<1>8. \A k : EP!Win(k) <=> Election!Win(k) BY <1>3, ZenonT(30) DEF EP!Win, Election!Win
<1>9. \A k : EP!Restart(k) <=> Election!Restart(k)
  BY <1>4, ZenonT(30) DEF EP!Restart, Election!Restart
<1>10. \A r : EP!Consider(r) <=> Election!Consider(r) BY ZenonT(30) DEF EP!Consider, Election!Consider
<1>11. \A a : EP!CountVote(a) <=> Election!CountVote(a)
  BY <1>3, ZenonT(30) DEF EP!CountVote, Election!CountVote
<1>12. Election!Next <=> EP!Next
  BY <1>5, <1>6, <1>7, <1>8, <1>9, <1>10, <1>11, Zenon DEF EP!Next, Election!Next
<1>13. Election!Init <=> EP!Init BY DEF EP!Init, Election!Init
<1> QED BY <1>12, <1>13

\* Two slaves never win the election of the same epoch on the bus.
THEOREM OneWinner ==
  ASSUME CutOff
  PROVE  Spec => []OneWinnerPerEpoch
<1>1. EP!Sets
  <2>1. EP!IsFiniteSet(Master)
    <3>1. EP!IsFiniteSet(Node) BY FailoverAssumption DEF EP!IsFiniteSet, IsFiniteSet
    <3> QED BY <3>1, EP!FS_Subset DEF Node
  <2> QED BY <2>1, FailoverAssumption DEF EP!Sets
<1>2. EP!Spec => []EP!OneWinnerPerEpoch BY <1>1, EP!ElectionSafety
<1>3. UNCHANGED Election!vars <=> UNCHANGED EP!vars BY Zenon DEF Election!vars, EP!vars
<1>4. (Election!Init <=> EP!Init) /\ (Election!Next <=> EP!Next) BY SameProtocol
<1>5. [Election!Next]_(Election!vars) => [EP!Next]_(EP!vars) BY <1>3, <1>4
<1>6. OneWinnerPerEpoch <=> EP!OneWinnerPerEpoch
  BY DEF OneWinnerPerEpoch, EP!OneWinnerPerEpoch, Election!OneWinnerPerEpoch
<1>7. Spec => ElectionSpec BY Implements
<1> QED BY <1>2, <1>4, <1>5, <1>6, <1>7, PTL DEF ElectionSpec, Election!Spec, EP!Spec
=============================================================================
