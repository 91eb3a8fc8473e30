----------------------- MODULE ClusterFailoverProofs ------------------------
(* The tables and config files of the failover: their types, the slots bound to masters *)
(* and the durable claims, for every cluster, every pattern of links and every restart. *)
EXTENDS ClusterFailover, Sequences, WellFoundedInduction, TLAPS

\* Both provers are given 15 seconds for a leaf.
USE SMTT(15), ZenonT(15)

\* struct clusterState, while a handler runs.
NodeState ==
  [currentEpoch : Nat, lastVoteEpoch : Nat, configEpoch : [Contender -> Nat],
   slaveof : [Contender -> Contender \cup {NULL}], owner : Contender \cup {NULL},
   failed : BOOLEAN, voted : BOOLEAN, phase : Phase, authSent : BOOLEAN, authCount : Nat,
   authEpoch : Nat, todo : BOOLEAN]

\* A table, or the config file it was saved in, binds the slots to nobody or to a master.
Bound(x) == x.owner # NULL => x.slaveof[x.owner] = NULL

Saved(x, d) == d.owner = x.owner /\ d.slaveof = x.slaveof /\ d.configEpoch = x.configEpoch

\* The inductive invariant of the tables: what a node knows of the owner, the roles and
\* the config epochs is always what its config file says.
Tables ==
  /\ st \in [Node -> NodeState] /\ disk \in [MayRestart -> PersistentState]
  /\ \A n \in Node : Bound(st[n]) /\ st[n].todo = FALSE
  /\ \A n \in MayRestart : Saved(st[n], disk[n])

\* The packets of an election go from a slave and to a slave.
SlavesAsk(packets) ==
  \A m \in packets : /\ m.type = "AUTH_REQUEST" => m.from \in Slave
                     /\ m.type = "AUTH_ACK" => m.to \in Slave

TableInv ==
  /\ Tables
  /\ net \subseteq AnyPacket /\ SlavesAsk(net)
  /\ votes \subseteq [voter : Node, epoch : Nat, for : Slave]
  /\ won \subseteq [node : Slave, epoch : Nat]

-----------------------------------------------------------------------------
(* The tables *)

\* A table whose node may be in the middle of a handler.
Table(x) == x \in NodeState /\ Bound(x)

\* From x to y nothing is lost: a change of what the config file holds of the slots, the
\* roles and the config epochs has asked for it to be saved; epochs grow; the state of an
\* election is as it was.
Moves(x, y) ==
  /\ y.todo = FALSE => x.todo = FALSE /\ Saved(x, y)
  /\ y.currentEpoch >= x.currentEpoch
  /\ y.lastVoteEpoch = x.lastVoteEpoch /\ y.authSent = x.authSent
  /\ y.authCount = x.authCount /\ y.authEpoch = x.authEpoch /\ y.phase = x.phase

\* Moves is transitive.
LEMMA MovesOn ==
  ASSUME NEW x \in NodeState, NEW y \in NodeState, NEW z \in NodeState, Moves(x, y), Moves(y, z)
  PROVE  Moves(x, z)
BY DEF Moves, Saved, NodeState

\* A table that is left alone moves nowhere.
LEMMA MovesNot == ASSUME NEW x \in NodeState PROVE Moves(x, x)
BY DEF Moves, Saved, NodeState

\* The contenders are nodes.
LEMMA Contenders ==
  /\ Failing \in Contender /\ Slave \subseteq Contender /\ Contender \subseteq Node
  /\ NULL \notin Contender /\ Failing \notin Slave
BY FailoverAssumption DEF Contender, Node

\* The fields of a packet.
LEMMA PacketFields ==
  ASSUME NEW m \in AnyPacket
  PROVE  /\ m.from \in Node /\ m.to \in Node /\ m.currentEpoch \in Nat /\ m.configEpoch \in Nat
         /\ m.type \in {"PING", "PONG", "AUTH_REQUEST", "AUTH_ACK", "UPDATE"}
         /\ m.type # "UPDATE" => m.slots \in BOOLEAN /\ m.slaveof \in Contender \cup {NULL}
         /\ m.type = "UPDATE" =>
              m.about \in Contender /\ m.aboutEpoch \in Nat /\ m.aboutSlots \in BOOLEAN
BY DEF AnyPacket

\* clusterBuildMessageHdr and clusterSendUpdate build packets.
LEMMA PacketType ==
  ASSUME NEW n \in Node, NEW x \in NodeState, NEW to \in Node,
         NEW type \in {"PING", "PONG", "AUTH_REQUEST", "AUTH_ACK", "UPDATE"}
  PROVE  /\ Packet(n, x, type, to).configEpoch \in Nat
         /\ type # "UPDATE" => Packet(n, x, type, to) \in AnyPacket
         /\ Packet(n, x, type, to).type = type /\ Packet(n, x, type, to).from = n
         /\ Packet(n, x, type, to).to = to
<1> DEFINE master == MasterOf(x, n)
           e == IF n \in Contender THEN x.configEpoch[master] ELSE 0
           s == IF n \in Contender THEN x.slaveof[n] ELSE NULL
           o == x.owner = master
<1>1. n \in Contender => master \in Contender BY DEF MasterOf, NodeIsMaster, NodeState
<1> HIDE DEF master
<1>2. e \in Nat /\ s \in Contender \cup {NULL} /\ o \in BOOLEAN /\ x.currentEpoch \in Nat
  BY <1>1 DEF NodeState
<1>3. Packet(n, x, type, to) =
        [type |-> type, from |-> n, to |-> to, currentEpoch |-> x.currentEpoch,
         configEpoch |-> e, slots |-> o, slaveof |-> s]
  BY DEF Packet, master
<1> HIDE DEF e, s, o
<1> QED BY <1>2, <1>3 DEF AnyPacket

\* clusterSendUpdate builds an UPDATE packet.
LEMMA UpdatePacketType ==
  ASSUME NEW n \in Node, NEW x \in NodeState, NEW to \in Node, NEW about \in Contender
  PROVE  UpdatePacket(n, x, to, about) \in AnyPacket /\ UpdatePacket(n, x, to, about).type = "UPDATE"
<1> DEFINE e == Packet(n, x, "UPDATE", to).configEpoch
           o == x.owner = about
<1>1. e \in Nat /\ o \in BOOLEAN /\ x.currentEpoch \in Nat /\ x.configEpoch[about] \in Nat
  BY PacketType DEF NodeState
<1>2. UpdatePacket(n, x, to, about) =
        [type |-> "UPDATE", from |-> n, to |-> to, currentEpoch |-> x.currentEpoch,
         configEpoch |-> e, about |-> about, aboutEpoch |-> x.configEpoch[about],
         aboutSlots |-> o]
  BY DEF UpdatePacket
<1> HIDE DEF e, o
<1> QED BY <1>1, <1>2 DEF AnyPacket

\* A handler rewrites what it knows of the cluster and asks for the config file to be saved.
Rewritten(x, e, c, f, o) ==
  [x EXCEPT !.currentEpoch = e, !.configEpoch = c, !.slaveof = f, !.owner = o, !.todo = TRUE]

IsRewritten(x, y, e, c, f, o) ==
  /\ y \in NodeState /\ Moves(x, y)
  /\ y.currentEpoch = e /\ y.configEpoch = c /\ y.slaveof = f /\ y.owner = o
  /\ y.failed = x.failed /\ y.voted = x.voted /\ y.todo = TRUE

\* Such a change asks for the config file to be saved.
LEMMA RewrittenMoves ==
  ASSUME NEW x \in NodeState, NEW e \in Nat, NEW c \in [Contender -> Nat],
         NEW f \in [Contender -> Contender \cup {NULL}], NEW o \in Contender \cup {NULL},
         e >= x.currentEpoch
  PROVE  IsRewritten(x, Rewritten(x, e, c, f, o), e, c, f, o)
BY Zenon DEF Rewritten, IsRewritten, NodeState, Moves

\* The header of a packet raises epochs and nothing else.
LEMMA SeeHeaderMoves ==
  ASSUME NEW x, Table(x), NEW m \in AnyPacket
  PROVE  LET y == SeeHeader(x, m) IN
         /\ Table(y) /\ Moves(x, y)
         /\ y.currentEpoch = IF m.currentEpoch > x.currentEpoch THEN m.currentEpoch ELSE x.currentEpoch
         /\ y.owner = x.owner /\ y.slaveof = x.slaveof /\ y.failed = x.failed /\ y.voted = x.voted
         /\ \A k \in Contender :
              y.configEpoch[k] = IF k = m.from /\ m.configEpoch > x.configEpoch[k]
                                 THEN m.configEpoch ELSE x.configEpoch[k]
<1> DEFINE e == IF m.currentEpoch > x.currentEpoch THEN m.currentEpoch ELSE x.currentEpoch
           z == [x EXCEPT !.currentEpoch = e]
           y == SeeHeader(x, m)
<1> HIDE DEF y
<1>1. x \in NodeState /\ Bound(x) BY DEF Table
<1>2. /\ m.currentEpoch \in Nat /\ m.configEpoch \in Nat /\ x.currentEpoch \in Nat
      /\ x.configEpoch \in [Contender -> Nat]
  BY <1>1, PacketFields DEF NodeState
<1>3. e \in Nat /\ e >= x.currentEpoch BY <1>2
<1>4. y = IF m.from \in Contender /\ m.configEpoch > x.configEpoch[m.from]
          THEN [z EXCEPT !.configEpoch[m.from] = m.configEpoch, !.todo = TRUE]
          ELSE z
  BY DEF SeeHeader, y
<1> HIDE DEF e
<1>5. z \in NodeState /\ Bound(z) /\ Moves(x, z)
      /\ z.currentEpoch = e /\ z.owner = x.owner /\ z.slaveof = x.slaveof /\ z.failed = x.failed
      /\ z.voted = x.voted /\ z.configEpoch = x.configEpoch
  BY <1>1, <1>3 DEF NodeState, Bound, Moves, Saved
<1> HIDE DEF z
<1>6. CASE m.from \in Contender /\ m.configEpoch > x.configEpoch[m.from]
  <2> DEFINE c == [x.configEpoch EXCEPT ![m.from] = m.configEpoch]
  <2>1. y = Rewritten(z, e, c, z.slaveof, z.owner)
    BY <1>4, <1>5, <1>6, Zenon DEF Rewritten, NodeState
  <2>2. c \in [Contender -> Nat] BY <1>2, Zenon
  <2> HIDE DEF c
  <2>3. /\ y \in NodeState /\ Moves(z, y) /\ y.currentEpoch = e /\ y.configEpoch = c
        /\ y.slaveof = z.slaveof /\ y.owner = z.owner /\ y.failed = z.failed /\ y.voted = z.voted
    <3>1. z.slaveof \in [Contender -> Contender \cup {NULL}] /\ z.owner \in Contender \cup {NULL}
      BY <1>5 DEF NodeState
    <3>2. e >= z.currentEpoch BY <1>3, <1>5
    <3>3. e \in Nat /\ z \in NodeState BY <1>3, <1>5
    <3>4. IsRewritten(z, y, e, c, z.slaveof, z.owner)
      BY <2>1, <2>2, <3>1, <3>2, <3>3, RewrittenMoves
    <3> QED BY <3>4 DEF IsRewritten
  <2>4. Table(y) BY <1>5, <2>3 DEF Table, Bound
  <2>5. Moves(x, y) BY <1>1, <1>5, <2>3, MovesOn
  <2> QED BY <1>2, <1>5, <1>6, <2>3, <2>4, <2>5 DEF e, c, y
<1>7. CASE ~ (m.from \in Contender /\ m.configEpoch > x.configEpoch[m.from])
  <2>1. y = z BY <1>4, <1>7
  <2> QED BY <1>5, <1>7, <2>1 DEF Table, e, y
<1> QED BY <1>6, <1>7

\* clusterSetNodeAsMaster
LEMMA SetNodeAsMasterMoves ==
  ASSUME NEW x, Table(x), NEW k \in Contender
  PROVE  LET y == SetNodeAsMaster(x, k) IN
         /\ Table(y) /\ Moves(x, y) /\ y.currentEpoch = x.currentEpoch
         /\ y.owner = x.owner /\ y.slaveof = [x.slaveof EXCEPT ![k] = NULL]
         /\ y.configEpoch = x.configEpoch
<1> DEFINE y == SetNodeAsMaster(x, k)
<1> HIDE DEF y
<1>1. x \in NodeState /\ Bound(x) BY DEF Table
<1>2. CASE NodeIsMaster(x, k)
  <2>1. y = x BY <1>2 DEF SetNodeAsMaster, y
  <2>2. x.slaveof = [x.slaveof EXCEPT ![k] = NULL] BY <1>1, <1>2 DEF NodeIsMaster, NodeState
  <2> QED BY <1>1, <2>1, <2>2, MovesNot DEF Table, y
<1>3. CASE ~ NodeIsMaster(x, k)
  <2> DEFINE f == [x.slaveof EXCEPT ![k] = NULL]
  <2>1. y = Rewritten(x, x.currentEpoch, x.configEpoch, f, x.owner)
    BY <1>1, <1>3, Zenon DEF SetNodeAsMaster, y, Rewritten, NodeState
  <2>2. f \in [Contender -> Contender \cup {NULL}] BY <1>1 DEF NodeState
  <2> HIDE DEF f
  <2>3. /\ y \in NodeState /\ Moves(x, y) /\ y.currentEpoch = x.currentEpoch
        /\ y.configEpoch = x.configEpoch /\ y.slaveof = f /\ y.owner = x.owner
    <3>1. /\ x.currentEpoch \in Nat /\ x.configEpoch \in [Contender -> Nat]
          /\ x.owner \in Contender \cup {NULL} /\ x.currentEpoch >= x.currentEpoch
      BY <1>1 DEF NodeState
    <3>2. IsRewritten(x, y, x.currentEpoch, x.configEpoch, f, x.owner)
      BY <1>1, <2>1, <2>2, <3>1, RewrittenMoves
    <3> QED BY <3>2 DEF IsRewritten
  <2>4. Bound(y) BY <1>1, <2>3 DEF Bound, NodeState, f
  <2> QED BY <2>3, <2>4 DEF Table, f, y
<1> QED BY <1>2, <1>3

\* clusterProcessPacket: the role switch.  A node that turns slave loses its slots.
LEMMA UpdateRoleMoves ==
  ASSUME NEW x, Table(x), NEW m \in AnyPacket, m.type # "UPDATE"
  PROVE  LET y == UpdateRole(x, m) IN
         /\ Table(y) /\ Moves(x, y) /\ y.currentEpoch = x.currentEpoch
         /\ y.owner \in {x.owner, NULL} /\ y.configEpoch = x.configEpoch
         /\ m.from \in Contender => y.slaveof = [x.slaveof EXCEPT ![m.from] = m.slaveof]
<1> DEFINE y == UpdateRole(x, m)
<1> HIDE DEF y
<1>1. x \in NodeState /\ Bound(x) BY DEF Table
<1>2. m.slaveof \in Contender \cup {NULL} BY PacketFields
<1>3. CASE m.from \notin Contender
  BY <1>1, <1>3, MovesNot DEF UpdateRole, Table
<1>4. CASE m.from \in Contender /\ m.slaveof = NULL
  <2>1. y = SetNodeAsMaster(x, m.from) BY <1>4 DEF UpdateRole, y
  <2> QED BY <1>4, <2>1, SetNodeAsMasterMoves DEF y
<1>5. CASE m.from \in Contender /\ m.slaveof # NULL /\ x.slaveof[m.from] = m.slaveof
  <2>1. y = x BY <1>5 DEF UpdateRole, y
  <2>2. x.slaveof = [x.slaveof EXCEPT ![m.from] = m.slaveof] BY <1>1, <1>5 DEF NodeState
  <2> QED BY <1>1, <2>1, <2>2, MovesNot DEF y
<1>6. CASE m.from \in Contender /\ m.slaveof # NULL /\ x.slaveof[m.from] # m.slaveof
  <2> DEFINE k == m.from
             o == IF x.owner = k THEN NULL ELSE x.owner
             f == [x.slaveof EXCEPT ![k] = m.slaveof]
  <2>1. o \in Contender \cup {NULL} /\ o # k /\ f \in [Contender -> Contender \cup {NULL}]
    BY <1>1, <1>2, <1>6, Contenders DEF NodeState
  <2>2. y = Rewritten(x, x.currentEpoch, x.configEpoch, f, o)
    <3>1. CASE NodeIsMaster(x, k)
      <4>1. y = [DelNodeSlots(x, k) EXCEPT !.slaveof[k] = m.slaveof, !.todo = TRUE]
        BY <1>6, <3>1 DEF UpdateRole, y
      <4>2. DelNodeSlots(x, k) = [x EXCEPT !.owner = o] BY DEF DelNodeSlots
      <4> HIDE DEF o
      <4>3. y = [[x EXCEPT !.owner = o] EXCEPT !.slaveof[k] = m.slaveof, !.todo = TRUE]
        BY <4>1, <4>2
      <4> QED BY <1>1, <4>3, Zenon DEF NodeState, Rewritten
    <3>2. CASE ~ NodeIsMaster(x, k)
      <4>1. y = [x EXCEPT !.slaveof[k] = m.slaveof, !.todo = TRUE] BY <1>6, <3>2 DEF UpdateRole, y
      <4>2. x.owner = o BY <1>1, <1>6, <3>2 DEF NodeIsMaster, Bound, NodeState
      <4> QED BY <1>1, <4>1, <4>2, Zenon DEF NodeState, Rewritten
    <3> QED BY <3>1, <3>2
  <2> HIDE DEF o, f
  <2>3. /\ y \in NodeState /\ Moves(x, y) /\ y.currentEpoch = x.currentEpoch
        /\ y.configEpoch = x.configEpoch /\ y.slaveof = f /\ y.owner = o
    <3>1. /\ x.currentEpoch \in Nat /\ x.configEpoch \in [Contender -> Nat]
          /\ x.currentEpoch >= x.currentEpoch
      BY <1>1 DEF NodeState
    <3>2. IsRewritten(x, y, x.currentEpoch, x.configEpoch, f, o)
      BY <1>1, <2>1, <2>2, <3>1, RewrittenMoves
    <3> QED BY <3>2 DEF IsRewritten
  <2>4. Bound(y)
    <3>1. o # NULL => o = x.owner BY DEF o
    <3> QED BY <1>1, <2>1, <2>3, <3>1 DEF Bound, NodeState, f
  <2>5. o \in {x.owner, NULL} BY DEF o
  <2> QED BY <2>3, <2>4, <2>5 DEF Table, f, y
<1> QED BY <1>3, <1>4, <1>5, <1>6

\* clusterUpdateSlotsConfigWith, for a claim of a node that is known as a master.
LEMMA UpdateSlotsMoves ==
  ASSUME NEW n \in Node, NEW x, Table(x), NEW k \in Contender, x.slaveof[k] = NULL,
         NEW epoch \in Nat, NEW slots \in BOOLEAN
  PROVE  LET y == UpdateSlotsConfigWith(n, x, k, epoch, slots) IN
         /\ Table(y) /\ Moves(x, y) /\ y.currentEpoch = x.currentEpoch
         /\ y.configEpoch = x.configEpoch
         /\ y.owner = x.owner \/ (y.owner = k /\ slots)
<1> DEFINE y == UpdateSlotsConfigWith(n, x, k, epoch, slots)
           curmaster == MasterOf(x, n)
           rebound == [x EXCEPT !.owner = k, !.todo = TRUE]
<1> HIDE DEF y
<1>1. x \in NodeState /\ Bound(x) BY DEF Table
<1>2. /\ x.currentEpoch \in Nat /\ x.configEpoch \in [Contender -> Nat]
      /\ x.slaveof \in [Contender -> Contender \cup {NULL}] /\ k \in Contender \cup {NULL}
      /\ x.currentEpoch >= x.currentEpoch
  BY <1>1 DEF NodeState
<1>3. CASE y = x BY <1>1, <1>3, MovesNot DEF y, Table
<1>4. CASE y = rebound /\ slots
  <2>1. y = Rewritten(x, x.currentEpoch, x.configEpoch, x.slaveof, k)
    BY <1>1, <1>4, Zenon DEF Rewritten, NodeState
  <2>2. IsRewritten(x, y, x.currentEpoch, x.configEpoch, x.slaveof, k)
    BY <1>1, <1>2, <2>1, RewrittenMoves
  <2>3. Bound(y) BY <2>2 DEF Bound, IsRewritten
  <2> QED BY <1>4, <2>2, <2>3, Zenon DEF IsRewritten, Table, y
<1>5. CASE y = SetMaster(n, rebound, k) /\ slots /\ k # n /\ x.owner = curmaster
  <2> DEFINE f == [x.slaveof EXCEPT ![n] = k]
  <2>1. y = Rewritten(x, x.currentEpoch, x.configEpoch, f, k)
    BY <1>1, <1>5, Zenon DEF Rewritten, NodeState, SetMaster
  <2>2. f \in [Contender -> Contender \cup {NULL}] /\ f[k] = NULL BY <1>2, <1>5, Zenon
  <2> HIDE DEF f
  <2>3. IsRewritten(x, y, x.currentEpoch, x.configEpoch, f, k)
    BY <1>1, <1>2, <2>1, <2>2, RewrittenMoves
  <2>4. Bound(y) BY <2>2, <2>3 DEF Bound, IsRewritten
  <2> QED BY <1>5, <2>3, <2>4, Zenon DEF IsRewritten, Table, y
<1> QED
  <2>1. y = x \/ (slots /\ k # n /\ (y = rebound \/ (x.owner = curmaster /\ y = SetMaster(n, rebound, k))))
    BY DEF UpdateSlotsConfigWith, y
  <2> HIDE DEF rebound, curmaster
  <2> QED BY <1>3, <1>4, <1>5, <2>1

\* y is the table x of n, or x with n moved to a fresh epoch of its own.
Separated(n, x, y) ==
  /\ y.owner = x.owner
  /\ \/ y = x
     \/ /\ n \in Contender /\ y.currentEpoch = x.currentEpoch + 1
        /\ y.configEpoch = [x.configEpoch EXCEPT ![n] = x.currentEpoch + 1]

\* clusterHandleConfigEpochCollision
LEMMA CollisionMoves ==
  ASSUME NEW n \in Node, NEW x, Table(x), NEW m \in AnyPacket
  PROVE  LET y == HandleConfigEpochCollision(n, x, m) IN
         Table(y) /\ Moves(x, y) /\ Separated(n, x, y)
<1> DEFINE y == HandleConfigEpochCollision(n, x, m)
           e == x.currentEpoch + 1
           c == [x.configEpoch EXCEPT ![n] = e]
<1> HIDE DEF y
<1>1. x \in NodeState /\ Bound(x) BY DEF Table
<1>2. /\ x.currentEpoch \in Nat /\ x.configEpoch \in [Contender -> Nat]
      /\ x.slaveof \in [Contender -> Contender \cup {NULL}] /\ x.owner \in Contender \cup {NULL}
  BY <1>1 DEF NodeState
<1>3. e \in Nat /\ e >= x.currentEpoch BY <1>2
<1>4. c \in [Contender -> Nat] BY <1>2, <1>3, Zenon
<1>5. CASE y = x BY <1>1, <1>5, MovesNot DEF y, Table, Separated
<1>6. CASE n \in Contender /\ y = Rewritten(x, e, c, x.slaveof, x.owner)
  <2> HIDE DEF e, c
  <2>1. IsRewritten(x, y, e, c, x.slaveof, x.owner) BY <1>1, <1>2, <1>3, <1>4, <1>6, RewrittenMoves
  <2>2. Bound(y) BY <1>1, <2>1 DEF Bound, IsRewritten
  <2> QED BY <1>6, <2>1, <2>2 DEF IsRewritten, Table, Separated, y, e, c
<1>7. y = x \/ (n \in Contender /\ y = [x EXCEPT !.currentEpoch = @ + 1,
                                        !.configEpoch[n] = x.currentEpoch + 1, !.todo = TRUE])
  BY DEF HandleConfigEpochCollision, y
<1>8. y = x \/ (n \in Contender /\ y = Rewritten(x, e, c, x.slaveof, x.owner))
  BY <1>1, <1>7, Zenon DEF Rewritten, NodeState
<1> QED BY <1>5, <1>6, <1>8

\* clearNodeFailureIfNeeded
LEMMA ClearFailureMoves ==
  ASSUME NEW x, Table(x), NEW m, NEW y \in ClearNodeFailure(x, m)
  PROVE  /\ Table(y) /\ Moves(x, y) /\ y.currentEpoch = x.currentEpoch
         /\ y.configEpoch = x.configEpoch /\ y.owner = x.owner /\ y.slaveof = x.slaveof
<1>1. x \in NodeState /\ Bound(x) BY DEF Table
<1>2. y = x \/ y = [x EXCEPT !.failed = FALSE, !.todo = TRUE] BY DEF ClearNodeFailure
<1>3. CASE y = x BY <1>1, <1>3, MovesNot DEF Table
<1>4. CASE y = [x EXCEPT !.failed = FALSE, !.todo = TRUE]
  <2>1. y \in NodeState /\ Moves(x, y)
    <3>1. y \in NodeState BY <1>1, <1>4, Zenon DEF NodeState
    <3>2. /\ y.todo = TRUE /\ y.currentEpoch = x.currentEpoch /\ y.lastVoteEpoch = x.lastVoteEpoch
          /\ y.authSent = x.authSent /\ y.authCount = x.authCount /\ y.authEpoch = x.authEpoch
          /\ y.phase = x.phase
      BY <1>1, <1>4 DEF NodeState
    <3>3. x.currentEpoch \in Nat BY <1>1 DEF NodeState
    <3> QED BY <3>1, <3>2, <3>3 DEF Moves
  <2>2. /\ y.owner = x.owner /\ y.slaveof = x.slaveof /\ y.currentEpoch = x.currentEpoch
        /\ y.configEpoch = x.configEpoch
    BY <1>1, <1>4 DEF NodeState
  <2> QED BY <1>1, <2>1, <2>2 DEF Table, Bound
<1> QED BY <1>2, <1>3, <1>4

\* A PING or a PONG: the table moves through the header, the role, the slots and the
\* collision, and the packet sent in answer is an UPDATE to the sender.
LEMMA HeartbeatMoves ==
  ASSUME NEW n \in Node, NEW x, Table(x), NEW m \in AnyPacket, m.type \in {"PING", "PONG"},
         NEW r \in ProcessHeartbeat(n, x, m)
  PROVE  \E y1, y2, y3, y4 :
           /\ y1 = SeeHeader(x, m) /\ y2 \in ClearNodeFailure(y1, m) /\ y3 = UpdateRole(y2, m)
           /\ y4 = BindSlots(n, y3, m) /\ r.x = HandleConfigEpochCollision(n, y4, m)
           /\ r.out = Correction(n, y4, m)
           /\ Table(y1) /\ Table(y2) /\ Table(y3) /\ Table(y4) /\ Table(r.x)
           /\ Moves(x, r.x)
           /\ y4.currentEpoch = y1.currentEpoch /\ y4.configEpoch = y1.configEpoch
           /\ y4.owner \in {x.owner, NULL} \/
                (m.from \in Contender /\ y4.owner = m.from /\ m.slots /\ m.slaveof = NULL)
<1>1. PICK y4 \in {BindSlots(n, y, m) :
                     y \in {UpdateRole(y, m) : y \in ClearNodeFailure(SeeHeader(x, m), m)}} :
        r = [x |-> HandleConfigEpochCollision(n, y4, m), out |-> Correction(n, y4, m)]
  BY DEF ProcessHeartbeat
<1> DEFINE y1 == SeeHeader(x, m)
<1>2. PICK y2 \in ClearNodeFailure(y1, m) : y4 = BindSlots(n, UpdateRole(y2, m), m)
  OBVIOUS
<1> DEFINE y3 == UpdateRole(y2, m)
<1>3. m.type # "UPDATE" /\ m.configEpoch \in Nat /\ m.slots \in BOOLEAN /\ m.slaveof \in Contender \cup {NULL}
  BY PacketFields
<1>4. Table(y1) /\ Moves(x, y1) /\ y1.owner = x.owner BY SeeHeaderMoves
<1> HIDE DEF y1
<1>5. /\ Table(y2) /\ Moves(y1, y2) /\ y2.currentEpoch = y1.currentEpoch
      /\ y2.configEpoch = y1.configEpoch /\ y2.owner = y1.owner
  BY <1>4, ClearFailureMoves
<1>6. /\ Table(y3) /\ Moves(y2, y3) /\ y3.currentEpoch = y2.currentEpoch
      /\ y3.configEpoch = y2.configEpoch /\ y3.owner \in {y2.owner, NULL}
      /\ m.from \in Contender => y3.slaveof = [y2.slaveof EXCEPT ![m.from] = m.slaveof]
  BY <1>3, <1>5, UpdateRoleMoves
<1> HIDE DEF y3
<1>7. /\ Table(y4) /\ Moves(y3, y4) /\ y4.currentEpoch = y3.currentEpoch
      /\ y4.configEpoch = y3.configEpoch
      /\ y4.owner = y3.owner \/ (m.from \in Contender /\ y4.owner = m.from /\ m.slots /\ m.slaveof = NULL)
  <2>1. y4 = BindSlots(n, y3, m) BY <1>2 DEF y3
  <2>2. CASE DirtySlots(y3, m) /\ NodeIsMaster(y3, m.from)
    <3>1. y4 = UpdateSlotsConfigWith(n, y3, m.from, m.configEpoch, m.slots)
      BY <2>1, <2>2 DEF BindSlots
    <3>2. m.from \in Contender /\ y3.slaveof[m.from] = NULL
      BY <2>2 DEF DirtySlots, NodeIsMaster
    <3>3. m.slaveof = NULL BY <1>5, <1>6, <3>2 DEF Table, NodeState
    <3> QED BY <1>3, <1>6, <3>1, <3>2, <3>3, UpdateSlotsMoves
  <2>3. CASE ~ (DirtySlots(y3, m) /\ NodeIsMaster(y3, m.from))
    <3>1. y4 = y3 BY <2>1, <2>3 DEF BindSlots
    <3> QED BY <1>6, <3>1, MovesNot DEF Table
  <2> QED BY <2>2, <2>3
<1>8. r.x = HandleConfigEpochCollision(n, y4, m) /\ r.out = Correction(n, y4, m) BY <1>1
<1>9. Table(r.x) /\ Moves(y4, r.x)
  <2>1. Table(HandleConfigEpochCollision(n, y4, m)) /\ Moves(y4, HandleConfigEpochCollision(n, y4, m))
    BY <1>7, CollisionMoves, Zenon
  <2> QED BY <1>8, <2>1
<1>10. Moves(x, r.x)
  <2>1. /\ x \in NodeState /\ y1 \in NodeState /\ y2 \in NodeState /\ y3 \in NodeState
        /\ y4 \in NodeState /\ r.x \in NodeState
    BY <1>4, <1>5, <1>6, <1>7, <1>9 DEF Table
  <2>2. Moves(x, y2) BY <1>4, <1>5, <2>1, MovesOn
  <2>3. Moves(x, y3) BY <1>6, <2>1, <2>2, MovesOn
  <2>4. Moves(x, y4) BY <1>7, <2>1, <2>3, MovesOn
  <2> QED BY <1>9, <2>1, <2>4, MovesOn
<1>11. y1 = SeeHeader(x, m) /\ y3 = UpdateRole(y2, m) /\ y4 = BindSlots(n, y3, m)
  BY <1>2 DEF y1, y3
<1>12. y4.currentEpoch = y1.currentEpoch /\ y4.configEpoch = y1.configEpoch
  BY <1>5, <1>6, <1>7
<1>13. \/ y4.owner \in {x.owner, NULL}
       \/ m.from \in Contender /\ y4.owner = m.from /\ m.slots /\ m.slaveof = NULL
  BY <1>4, <1>5, <1>6, <1>7
<1> WITNESS y1, y2, y3, y4
<1> QED BY <1>4, <1>5, <1>6, <1>7, <1>8, <1>9, <1>10, <1>11, <1>12, <1>13

\* The table z is y once it has been told of a newer configuration by the UPDATE m.
ToldOf(y, z, owner, m) ==
  /\ z.currentEpoch = y.currentEpoch
  /\ \/ z.owner = owner /\ z.configEpoch = y.configEpoch
     \/ /\ z.owner \in {owner, m.about} /\ m.aboutEpoch > y.configEpoch[m.about]
        /\ z.configEpoch = [y.configEpoch EXCEPT ![m.about] = m.aboutEpoch]

\* An UPDATE packet.
LEMMA ProcessUpdateMoves ==
  ASSUME NEW n \in Node, NEW x, Table(x), NEW m \in AnyPacket, m.type = "UPDATE"
  PROVE  LET z == ProcessUpdate(n, x, m)
         IN Table(z) /\ Moves(x, z) /\ ToldOf(SeeHeader(x, m), z, x.owner, m)
<1> DEFINE y == SeeHeader(x, m)
           z == ProcessUpdate(n, x, m)
           w == SetNodeAsMaster(y, m.about)
           c == [y.configEpoch EXCEPT ![m.about] = m.aboutEpoch]
           known == [w EXCEPT !.configEpoch[m.about] = m.aboutEpoch, !.todo = TRUE]
<1> HIDE DEF z
<1>1. m.about \in Contender /\ m.aboutEpoch \in Nat /\ m.aboutSlots \in BOOLEAN BY PacketFields
<1>2. Table(y) /\ Moves(x, y) /\ y.owner = x.owner BY SeeHeaderMoves
<1>3. z = IF y.configEpoch[m.about] >= m.aboutEpoch THEN y
          ELSE UpdateSlotsConfigWith(n, known, m.about, m.aboutEpoch, m.aboutSlots)
  BY DEF ProcessUpdate, z
<1> HIDE DEF y
<1>4. x \in NodeState /\ y \in NodeState /\ y.configEpoch \in [Contender -> Nat]
  BY <1>2 DEF Table, NodeState
<1>5. CASE y.configEpoch[m.about] >= m.aboutEpoch BY <1>2, <1>3, <1>5 DEF ToldOf, y, z
<1>6. CASE ~ (y.configEpoch[m.about] >= m.aboutEpoch)
  <2>1. /\ Table(w) /\ Moves(y, w) /\ w.currentEpoch = y.currentEpoch /\ w.owner = y.owner
        /\ w.slaveof = [y.slaveof EXCEPT ![m.about] = NULL] /\ w.configEpoch = y.configEpoch
    BY <1>1, <1>2, SetNodeAsMasterMoves
  <2> HIDE DEF w
  <2>2. w \in NodeState BY <2>1 DEF Table
  <2>3. known = Rewritten(w, w.currentEpoch, c, w.slaveof, w.owner)
    BY <2>1, <2>2, Zenon DEF Rewritten, NodeState
  <2>4. c \in [Contender -> Nat] BY <1>1, <1>4
  <2> HIDE DEF c, known
  <2>5. IsRewritten(w, known, w.currentEpoch, c, w.slaveof, w.owner)
    <3>1. /\ w.currentEpoch \in Nat /\ w.slaveof \in [Contender -> Contender \cup {NULL}]
          /\ w.owner \in Contender \cup {NULL} /\ w.currentEpoch >= w.currentEpoch
      BY <2>2 DEF NodeState
    <3> QED BY <2>2, <2>3, <2>4, <3>1, RewrittenMoves
  <2>6. /\ known \in NodeState /\ Moves(w, known) /\ known.currentEpoch = w.currentEpoch
        /\ known.configEpoch = c /\ known.slaveof = w.slaveof /\ known.owner = w.owner
    BY <2>5 DEF IsRewritten
  <2>7. Table(known) BY <2>1, <2>6 DEF Table, Bound
  <2>8. known.slaveof[m.about] = NULL BY <1>1, <1>4, <2>1, <2>6 DEF NodeState
  <2>9. /\ Table(z) /\ Moves(known, z) /\ z.currentEpoch = known.currentEpoch
        /\ z.configEpoch = known.configEpoch /\ z.owner \in {known.owner, m.about}
    <3>1. z = UpdateSlotsConfigWith(n, known, m.about, m.aboutEpoch, m.aboutSlots) BY <1>3, <1>6
    <3> QED BY <1>1, <2>7, <2>8, <3>1, UpdateSlotsMoves
  <2>10. Moves(x, z)
    <3>1. z \in NodeState BY <2>9 DEF Table
    <3>2. Moves(x, w) BY <1>2, <1>4, <2>1, <2>2, MovesOn
    <3>3. Moves(x, known) BY <1>4, <2>2, <2>6, <3>2, MovesOn
    <3> QED BY <1>4, <2>6, <2>9, <3>1, <3>3, MovesOn
  <2>11. z.currentEpoch = y.currentEpoch /\ z.owner \in {x.owner, m.about} /\ z.configEpoch = c
    BY <1>2, <2>1, <2>6, <2>9
  <2>12. m.aboutEpoch > y.configEpoch[m.about] BY <1>1, <1>4, <1>6
  <2>13. ToldOf(y, z, x.owner, m) BY <2>11, <2>12 DEF ToldOf, c
  <2> QED BY <2>9, <2>10, <2>13 DEF y, z
<1> QED BY <1>5, <1>6

\* Finitely many numbers have a bound.
LEMMA FiniteBound ==
  ASSUME NEW S, IsFiniteSet(S), NEW f, \A k \in S : f[k] \in Nat
  PROVE  \E u \in Nat : \A k \in S : f[k] <= u
<1>1. PICK q \in Seq(S) : \A k \in S : \E i \in 1..Len(q) : q[i] = k BY DEF IsFiniteSet
<1> DEFINE Bounded(n) == \E u \in Nat : \A i \in 1..Len(q) : i <= n => f[q[i]] <= u
           T == {n \in Nat : ~ Bounded(n)}
           R == OpToRel(<, Nat)
<1>2. Len(q) \in Nat /\ \A i \in 1..Len(q) : q[i] \in S /\ f[q[i]] \in Nat OBVIOUS
<1>3. Bounded(0) BY <1>2
<1>4. ASSUME NEW n \in Nat, Bounded(n)
      PROVE  Bounded(n + 1)
  <2>1. PICK u \in Nat : \A i \in 1..Len(q) : i <= n => f[q[i]] <= u BY <1>4
  <2>2. CASE n + 1 \in 1..Len(q)
    <3> DEFINE v == IF f[q[n + 1]] <= u THEN u ELSE f[q[n + 1]]
    <3>1. f[q[n + 1]] \in Nat BY <1>2, <2>2
    <3>2. v \in Nat /\ u <= v /\ f[q[n + 1]] <= v BY <3>1
    <3> HIDE DEF v
    <3>3. ASSUME NEW i \in 1..Len(q), i <= n + 1
          PROVE  f[q[i]] <= v
      <4>1. CASE i = n + 1 BY <3>2, <4>1
      <4>2. CASE i # n + 1
        <5>1. i <= n BY <1>2, <3>3, <4>2
        <5>2. f[q[i]] <= u /\ f[q[i]] \in Nat BY <1>2, <2>1, <5>1
        <5> QED BY <3>2, <5>2
      <4> QED BY <4>1, <4>2
    <3> QED BY <3>2, <3>3
  <2>3. CASE n + 1 \notin 1..Len(q)
    <3>1. \A i \in 1..Len(q) : i <= n + 1 => i <= n BY <1>2, <2>3
    <3> QED BY <2>1, <3>1
  <2> QED BY <2>2, <2>3
<1>5. T = {}
  <2>1. SUFFICES ASSUME T # {} PROVE FALSE OBVIOUS
  <2>2. IsWellFoundedOn(R, Nat) /\ T \subseteq Nat BY NatLessThanWellFounded, Zenon
  <2>3. PICK n \in T : \A m \in T : <<m, n>> \notin R
    <3> HIDE DEF T, R
    <3> QED BY <2>1, <2>2, WFMin, Zenon
  <2>4. n \in Nat /\ ~ Bounded(n) OBVIOUS
  <2> HIDE DEF Bounded
  <2>5. n # 0 BY <1>3, <2>4
  <2>6. n - 1 \in Nat /\ (n - 1) + 1 = n BY <2>4, <2>5
  <2>7. ~ Bounded(n - 1) BY <1>4, <2>4, <2>6
  <2>8. <<n - 1, n>> \in R BY <2>4, <2>6 DEF OpToRel
  <2> QED BY <2>3, <2>6, <2>7, <2>8
<1>6. Bounded(Len(q))
  <2> HIDE DEF Bounded
  <2> QED BY <1>2, <1>5
<1>7. PICK u \in Nat : \A i \in 1..Len(q) : f[q[i]] <= u
  <2>1. PICK u \in Nat : \A i \in 1..Len(q) : i <= Len(q) => f[q[i]] <= u BY <1>6
  <2>2. \A i \in 1..Len(q) : i <= Len(q) BY <1>2
  <2> QED BY <2>1, <2>2
<1>8. ASSUME NEW k \in S PROVE f[k] <= u
  <2>1. PICK i \in 1..Len(q) : q[i] = k BY <1>1
  <2> QED BY <1>7, <2>1
<1> QED BY <1>8

\* A bounded set of numbers has a greatest one.
LEMMA GreatestOf ==
  ASSUME NEW E, E \subseteq Nat, E # {}, NEW u \in Nat, \A e \in E : e <= u
  PROVE  \E e \in E : \A k \in E : k <= e
<1> DEFINE T == {v \in Nat : \A e \in E : e <= v}
           R == OpToRel(<, Nat)
<1>1. IsWellFoundedOn(R, Nat) /\ T \subseteq Nat /\ T # {} BY NatLessThanWellFounded, Zenon
<1>2. PICK v \in T : \A w \in T : <<w, v>> \notin R
  <2> HIDE DEF T, R
  <2> QED BY <1>1, WFMin, Zenon
<1>3. v \in Nat /\ \A e \in E : e \in Nat /\ e <= v OBVIOUS
<1>4. SUFFICES ASSUME v \notin E PROVE FALSE BY <1>3
<1>5. \A e \in E : e \in Nat /\ e <= v /\ e # v BY <1>3, <1>4
<1>6. v - 1 \in Nat /\ \A e \in E : e <= v - 1
  <2>1. PICK e \in E : TRUE OBVIOUS
  <2> QED BY <1>3, <1>5, <2>1
<1>7. v - 1 \in T /\ <<v - 1, v>> \in R BY <1>3, <1>6 DEF OpToRel
<1> QED BY <1>2, <1>7, Zenon

\* The greatest epoch a node knows.
LEMMA GetMaxEpochType ==
  ASSUME NEW x, x.currentEpoch \in Nat, x.configEpoch \in [Contender -> Nat]
  PROVE  GetMaxEpoch(x) \in Nat /\ GetMaxEpoch(x) >= x.currentEpoch
<1> DEFINE f == [k \in Node |-> IF k \in Contender THEN x.configEpoch[k] ELSE 0]
           E == {x.currentEpoch} \cup {x.configEpoch[k] : k \in Contender}
<1>1. PICK u \in Nat : \A k \in Contender : x.configEpoch[k] <= u
  <2>1. IsFiniteSet(Node) /\ Contender \subseteq Node BY FailoverAssumption, Contenders
  <2>2. \A k \in Node : f[k] \in Nat OBVIOUS
  <2>3. \A k \in Contender : f[k] = x.configEpoch[k] BY <2>1
  <2> HIDE DEF f
  <2>4. PICK u \in Nat : \A k \in Node : f[k] <= u BY <2>1, <2>2, FiniteBound
  <2>5. \A k \in Contender : x.configEpoch[k] <= u BY <2>1, <2>3, <2>4
  <2> QED BY <2>5
<1> DEFINE v == IF u >= x.currentEpoch THEN u ELSE x.currentEpoch
<1>2. E \subseteq Nat /\ E # {} /\ v \in Nat /\ \A e \in E : e <= v BY <1>1
<1>3. PICK e \in E : \A k \in E : k <= e
  <2> HIDE DEF E, v
  <2> QED BY <1>2, GreatestOf
<1>4. \A k \in Contender : e >= x.configEpoch[k] /\ e >= x.currentEpoch
  <2>1. \A k \in E : e >= k BY <1>2, <1>3
  <2> QED BY <2>1
<1> DEFINE g == GetMaxEpoch(x)
<1>5. g \in E /\ \A k \in Contender : g >= x.configEpoch[k] /\ g >= x.currentEpoch
  BY <1>4 DEF GetMaxEpoch
<1> QED BY <1>2, <1>5, Contenders
-----------------------------------------------------------------------------
(* The steps of a node *)

\* The config file of a table.
LEMMA PersistentType ==
  ASSUME NEW x \in NodeState
  PROVE  Persistent(x) \in PersistentState /\ Saved(x, Persistent(x))
BY DEF Persistent, PersistentState, NodeState, Saved

\* clusterBeforeSleep: a handler of n ends with the table y.
LEMMA BeforeSleepTables ==
  ASSUME Tables, NEW n \in Node, NEW y, Table(y), y.todo = FALSE => Saved(st[n], y),
         BeforeSleep(n, y)
  PROVE  /\ Tables'
         /\ st' = [st EXCEPT ![n] = [y EXCEPT !.todo = FALSE]]
         /\ \A k \in MayRestart : disk'[k] = disk[k] \/ (k = n /\ disk'[k] = Persistent(y))
<1> DEFINE z == [y EXCEPT !.todo = FALSE]
<1>1. st \in [Node -> NodeState] /\ disk \in [MayRestart -> PersistentState] BY DEF Tables
<1>2. y \in NodeState /\ Bound(y) BY DEF Table
<1>3. z \in NodeState /\ z.todo = FALSE /\ z.owner = y.owner /\ z.slaveof = y.slaveof
      /\ z.configEpoch = y.configEpoch
  BY <1>2, Zenon DEF NodeState
<1>4. st' = [st EXCEPT ![n] = z] BY DEF BeforeSleep
<1>5. disk' = IF y.todo /\ n \in MayRestart THEN [disk EXCEPT ![n] = Persistent(y)] ELSE disk
  BY DEF BeforeSleep
<1> HIDE DEF z
<1>6. Persistent(y) \in PersistentState /\ Saved(y, Persistent(y)) BY <1>2, PersistentType
<1>7. st' \in [Node -> NodeState] /\ st'[n] = z /\ \A k \in Node \ {n} : st'[k] = st[k]
  BY <1>1, <1>3, <1>4
<1>8. disk' \in [MayRestart -> PersistentState] BY <1>1, <1>5, <1>6
<1>9. \A k \in Node : Bound(st'[k]) /\ st'[k].todo = FALSE
  <2>1. Bound(z) BY <1>2, <1>3 DEF Bound
  <2> QED BY <1>3, <1>7, <2>1 DEF Tables
<1>10. ASSUME NEW k \in MayRestart
       PROVE  /\ Saved(st'[k], disk'[k])
              /\ disk'[k] = disk[k] \/ (k = n /\ disk'[k] = Persistent(y))
  <2>0. k \in Node /\ Saved(st[k], disk[k]) BY FailoverAssumption DEF Tables
  <2>1. CASE k # n
    <3>1. st'[k] = st[k] BY <1>7, <2>0, <2>1
    <3>2. disk'[k] = disk[k] BY <1>1, <1>5, <2>1
    <3> QED BY <2>0, <3>1, <3>2
  <2>2. CASE k = n /\ y.todo = TRUE
    <3>1. disk'[k] = Persistent(y) BY <1>1, <1>5, <2>2
    <3> QED BY <1>3, <1>6, <1>7, <2>2, <3>1 DEF Saved
  <2>3. CASE k = n /\ y.todo = FALSE
    <3>1. disk' = disk BY <1>5, <2>3
    <3>2. Saved(st[n], y) BY <2>3
    <3> QED BY <1>3, <1>7, <2>0, <2>3, <3>1, <3>2 DEF Saved
  <2>4. y.todo \in BOOLEAN BY <1>2 DEF NodeState
  <2> QED BY <2>1, <2>2, <2>3, <2>4, Zenon
<1>11. Tables' BY <1>7, <1>8, <1>9, <1>10 DEF Tables
<1> QED BY <1>4, <1>10, <1>11 DEF z

\* A table of Tables, before a handler moves it.
LEMMA TableOf ==
  ASSUME Tables, NEW n \in Node
  PROVE  Table(st[n]) /\ st[n].todo = FALSE /\ st[n] \in NodeState
BY DEF Tables, Table

\* A handler that only moves the table of n.
LEMMA MovedTables ==
  ASSUME Tables, NEW n \in Node, NEW y, Table(y), Moves(st[n], y), BeforeSleep(n, y)
  PROVE  Tables'
<1>1. y.todo = FALSE => Saved(st[n], y) BY DEF Moves
<1> QED BY <1>1, BeforeSleepTables, Zenon

\* clusterSendMessage
LEMMA SendPackets ==
  ASSUME net \subseteq AnyPacket, SlavesAsk(net), NEW consumed, NEW out, out \subseteq AnyPacket,
         SlavesAsk(out), Send(consumed, out)
  PROVE  (net \subseteq AnyPacket)' /\ SlavesAsk(net')
BY DEF Send, SlavesAsk

\* Broadcasts are packets.
LEMMA BroadcastType ==
  ASSUME NEW n \in Node, NEW x \in NodeState, NEW type \in {"PING", "AUTH_REQUEST"},
         type = "AUTH_REQUEST" => n \in Slave
  PROVE  /\ Broadcast(n, x, type) \subseteq AnyPacket /\ SlavesAsk(Broadcast(n, x, type))
         /\ \A m \in Broadcast(n, x, type) :
              /\ m.type = type /\ m.to \in Reach \ {n}
              /\ m = Packet(n, x, type, m.to)
<1> SUFFICES ASSUME NEW m \in Broadcast(n, x, type)
             PROVE  /\ m \in AnyPacket /\ m.type = type /\ m.to \in Reach \ {n}
                    /\ m = Packet(n, x, type, m.to) /\ m.from = n
  BY DEF SlavesAsk
<1>1. PICK k \in Reach \ {n} : m = Packet(n, x, type, k) BY DEF Broadcast
<1>2. k \in Node /\ type # "UPDATE" BY FailoverAssumption
<1>3. m \in AnyPacket /\ m.type = type /\ m.from = n /\ m.to = k BY <1>1, <1>2, PacketType
<1> QED BY <1>1, <1>3

\* The table a slave has when it asks for votes, and when it is promoted.
Asks(x) ==
  [x EXCEPT !.currentEpoch = @ + 1, !.authEpoch = x.currentEpoch + 1, !.authSent = TRUE,
            !.todo = TRUE]
Promoted(n, x) ==
  FailoverReplaceYourMaster(n, [x EXCEPT !.configEpoch[n] =
                                  IF x.configEpoch[n] < x.authEpoch THEN x.authEpoch
                                  ELSE x.configEpoch[n]])

\* A slave of the failing master, which it knows to be failing, in an attempt.
InElection(n, x) == ~ NodeIsMaster(x, n) /\ x.slaveof[n] = Failing /\ x.owner = Failing

\* clusterHandleSlaveFailover: nothing, a new attempt, a request for votes, a promotion.
LEMMA SlaveFailoverCases ==
  ASSUME NEW n \in Slave, NEW x, Table(x)
  PROVE  LET r == HandleSlaveFailover(n, x) IN
         \/ r.x = x /\ r.out = {} /\ r.wins = FALSE
         \/ /\ x.phase = "retry" /\ r.out = {} /\ r.wins = FALSE
            /\ r.x = [x EXCEPT !.phase = "delay", !.authCount = 0, !.authSent = FALSE]
         \/ /\ x.phase = "open" /\ x.authSent = FALSE /\ InElection(n, x)
            /\ r.x = Asks(x) /\ r.out = Broadcast(n, Asks(x), "AUTH_REQUEST") /\ r.wins = FALSE
         \/ /\ x.phase = "open" /\ x.authSent = TRUE /\ x.authCount >= NeededQuorum
            /\ InElection(n, x)
            /\ r.x = Promoted(n, x) /\ r.out = Broadcast(n, Promoted(n, x), "PING") /\ r.wins = TRUE
<1> DEFINE r == HandleSlaveFailover(n, x)
           master == MasterOf(x, n)
<1>1. x \in NodeState BY DEF Table
<1>2. x.phase \in Phase /\ x.authSent \in BOOLEAN BY <1>1 DEF NodeState
<1>3. CASE \/ NodeIsMaster(x, n) \/ ~ (master = Failing /\ x.failed)
           \/ ~ ServesSlots(x, master)
  <2>1. r = [x |-> x, out |-> {}, wins |-> FALSE] BY <1>3 DEF HandleSlaveFailover
  <2> QED BY <2>1
<1>4. CASE ~ (\/ NodeIsMaster(x, n) \/ ~ (master = Failing /\ x.failed)
              \/ ~ ServesSlots(x, master))
  <2>1. InElection(n, x)
    BY <1>4, Contenders DEF InElection, MasterOf, NodeIsMaster, ServesSlots
  <2>2. CASE x.phase = "retry"
    <3>1. r = [[x |-> x, out |-> {}, wins |-> FALSE] EXCEPT
                 !.x = [x EXCEPT !.phase = "delay", !.authCount = 0, !.authSent = FALSE]]
      BY <1>4, <2>2 DEF HandleSlaveFailover
    <3> QED BY <2>2, <3>1
  <2>3. CASE x.phase = "open" /\ ~ x.authSent /\ x.currentEpoch < MaxEpoch
    <3>1. r = [[x |-> x, out |-> {}, wins |-> FALSE] EXCEPT
                 !.x = Asks(x), !.out = Broadcast(n, Asks(x), "AUTH_REQUEST")]
      BY <1>4, <2>3 DEF HandleSlaveFailover, Asks
    <3>2. r.x = Asks(x) /\ r.out = Broadcast(n, Asks(x), "AUTH_REQUEST") /\ r.wins = FALSE BY <3>1
    <3> QED BY <1>2, <2>1, <2>3, <3>2
  <2>4. CASE x.phase = "open" /\ x.authSent /\ x.authCount >= NeededQuorum
    <3>1. r = [x |-> Promoted(n, x), out |-> Broadcast(n, Promoted(n, x), "PING"), wins |-> TRUE]
      BY <1>4, <2>4 DEF HandleSlaveFailover, Promoted
    <3>2. r.x = Promoted(n, x) /\ r.out = Broadcast(n, Promoted(n, x), "PING") /\ r.wins = TRUE
      BY <3>1
    <3> QED BY <1>2, <2>1, <2>4, <3>2
  <2>5. CASE /\ x.phase # "retry"
             /\ ~ (x.phase = "open" /\ ~ x.authSent /\ x.currentEpoch < MaxEpoch)
             /\ ~ (x.phase = "open" /\ x.authSent /\ x.authCount >= NeededQuorum)
    <3>1. r = [x |-> x, out |-> {}, wins |-> FALSE] BY <1>4, <2>5 DEF HandleSlaveFailover
    <3> QED BY <3>1
  <2> QED BY <2>2, <2>3, <2>4, <2>5, Zenon
<1> QED BY <1>3, <1>4, Zenon

\* ... and what becomes of the table.
LEMMA AsksTable ==
  ASSUME NEW x, Table(x)
  PROVE  LET y == Asks(x) IN
         /\ Table(y) /\ y.todo = TRUE /\ y.currentEpoch = x.currentEpoch + 1
         /\ y.authEpoch = x.currentEpoch + 1 /\ y.authSent = TRUE
         /\ y.lastVoteEpoch = x.lastVoteEpoch /\ y.authCount = x.authCount /\ y.phase = x.phase
         /\ y.owner = x.owner /\ y.slaveof = x.slaveof /\ y.configEpoch = x.configEpoch
<1> DEFINE y == Asks(x)
           e == x.currentEpoch + 1
<1>1. x \in NodeState /\ Bound(x) BY DEF Table
<1>2. e \in Nat BY <1>1 DEF NodeState
<1>3. y = [x EXCEPT !.currentEpoch = e, !.authEpoch = e, !.authSent = TRUE, !.todo = TRUE]
  BY <1>1 DEF Asks, NodeState
<1> HIDE DEF e, y
<1>4. /\ y \in NodeState /\ y.todo = TRUE /\ y.currentEpoch = e /\ y.authEpoch = e
      /\ y.authSent = TRUE /\ y.lastVoteEpoch = x.lastVoteEpoch /\ y.authCount = x.authCount
      /\ y.phase = x.phase /\ y.owner = x.owner /\ y.slaveof = x.slaveof
      /\ y.configEpoch = x.configEpoch
  BY <1>1, <1>2, <1>3, Zenon DEF NodeState
<1>5. Bound(y) BY <1>1, <1>4 DEF Bound
<1> QED BY <1>4, <1>5 DEF Table, e, y

\* The owner of the slots when n has replaced its master
OwnerAfter(x, n) == IF x.owner = x.slaveof[n] THEN n ELSE x.owner

\* n has become the master; its epochs are e and c.
Replaced(x, y, n, e, c) ==
  /\ Table(y) /\ Moves(x, y) /\ y.todo = TRUE
  /\ y.owner \in {n, x.owner} /\ y.slaveof[n] = NULL /\ y.currentEpoch = e /\ y.configEpoch = c

\* clusterFailoverReplaceYourMaster
LEMMA ReplaceMoves ==
  ASSUME NEW n \in Contender, NEW x, Table(x), NEW e \in Nat, e >= x.currentEpoch,
         NEW c \in [Contender -> Nat]
  PROVE  Replaced(x, Rewritten(x, e, c, [x.slaveof EXCEPT ![n] = NULL], OwnerAfter(x, n)), n, e, c)
<1> DEFINE f == [x.slaveof EXCEPT ![n] = NULL]
           o == OwnerAfter(x, n)
           y == Rewritten(x, e, c, f, o)
<1>1. x \in NodeState /\ x.slaveof \in [Contender -> Contender \cup {NULL}]
  BY DEF Table, NodeState
<1>2. f \in [Contender -> Contender \cup {NULL}] /\ f[n] = NULL BY <1>1
<1>3. o \in {n, x.owner} /\ o \in Contender \cup {NULL} BY <1>1 DEF OwnerAfter, NodeState
<1>4. o # NULL => f[o] = NULL BY <1>1, <1>3 DEF Table, Bound
<1> HIDE DEF f, o
<1>5. IsRewritten(x, y, e, c, f, o) BY <1>1, <1>2, <1>3, RewrittenMoves
<1> HIDE DEF y
<1>6. Bound(y) BY <1>4, <1>5 DEF IsRewritten, Bound
<1>7. Replaced(x, y, n, e, c) BY <1>2, <1>3, <1>5, <1>6 DEF IsRewritten, Replaced, Table
<1> QED BY <1>7 DEF y, f, o

IsPromoted(n, x, y) ==
  /\ Table(y) /\ Moves(x, y) /\ y.todo = TRUE /\ y.owner \in {n, x.owner} /\ y.slaveof[n] = NULL
  /\ y.currentEpoch = x.currentEpoch /\ y.configEpoch[n] >= x.authEpoch
  /\ \A k \in Contender \ {n} : y.configEpoch[k] = x.configEpoch[k]

\* clusterHandleSlaveFailover with enough votes: the slave takes the slots at the epoch of
\* its election, or at a greater one.
LEMMA PromotedTable ==
  ASSUME NEW n \in Slave, NEW x, Table(x)
  PROVE  IsPromoted(n, x, Promoted(n, x))
<1> DEFINE y == Promoted(n, x)
           e == IF x.configEpoch[n] < x.authEpoch THEN x.authEpoch ELSE x.configEpoch[n]
           c == [x.configEpoch EXCEPT ![n] = e]
<1>1. x \in NodeState /\ n \in Contender BY Contenders DEF Table
<1>2. x.configEpoch \in [Contender -> Nat] /\ x.authEpoch \in Nat /\ x.currentEpoch \in Nat
  BY <1>1 DEF NodeState
<1>3. e \in Nat /\ e >= x.authEpoch BY <1>1, <1>2
<1>4. y = FailoverReplaceYourMaster(n, [x EXCEPT !.configEpoch[n] = e]) BY DEF Promoted
<1> HIDE DEF e
<1>5. c \in [Contender -> Nat] /\ c[n] = e /\ \A k \in Contender \ {n} : c[k] = x.configEpoch[k]
  BY <1>1, <1>2, <1>3
<1>6. y = Rewritten(x, x.currentEpoch, c, [x.slaveof EXCEPT ![n] = NULL], OwnerAfter(x, n))
  BY <1>1, <1>4, Zenon DEF FailoverReplaceYourMaster, OwnerAfter, Rewritten, NodeState
<1>7. x.currentEpoch >= x.currentEpoch BY <1>2
<1> HIDE DEF c, y
<1>8. /\ Table(y) /\ Moves(x, y) /\ y.todo = TRUE /\ y.owner \in {n, x.owner} /\ y.slaveof[n] = NULL
      /\ y.currentEpoch = x.currentEpoch /\ y.configEpoch = c
  <2>1. Replaced(x, y, n, x.currentEpoch, c) BY <1>1, <1>2, <1>5, <1>6, <1>7, ReplaceMoves
  <2> QED BY <2>1 DEF Replaced
<1>9. y.configEpoch[n] >= x.authEpoch /\ \A k \in Contender \ {n} : y.configEpoch[k] = x.configEpoch[k]
  BY <1>3, <1>5, <1>8
<1>10. IsPromoted(n, x, y) BY <1>8, <1>9 DEF IsPromoted
<1> QED BY <1>10 DEF y

\* n has taken over, with a config epoch of its own.
TookOver(n, x, y) ==
  /\ Table(y) /\ Moves(x, y) /\ y.owner \in {n, x.owner}
  /\ y.configEpoch[n] = x.currentEpoch + 1 \/
       (y.configEpoch[n] = x.configEpoch[n] /\ x.configEpoch[n] # 0)
  /\ \A k \in Contender \ {n} : y.configEpoch[k] = x.configEpoch[k]

\* CLUSTER FAILOVER TAKEOVER
LEMMA TakeoverTable ==
  ASSUME NEW n \in Contender, NEW x, Table(x)
  PROVE  TookOver(n, x, FailoverReplaceYourMaster(n, BumpConfigEpoch(n, x)))
<1> DEFINE y == FailoverReplaceYourMaster(n, BumpConfigEpoch(n, x))
           f == [x.slaveof EXCEPT ![n] = NULL]
<1>1. x \in NodeState BY DEF Table
<1>2. x.configEpoch \in [Contender -> Nat] /\ x.currentEpoch \in Nat /\ x.currentEpoch >= x.currentEpoch
  BY <1>1 DEF NodeState
<1>3. CASE x.configEpoch[n] = 0 \/ x.configEpoch[n] # GetMaxEpoch(x)
  <2> DEFINE e == x.currentEpoch + 1
             c == [x.configEpoch EXCEPT ![n] = e]
             b == [x EXCEPT !.currentEpoch = e, !.configEpoch = c, !.todo = TRUE]
  <2>1. e \in Nat /\ e >= x.currentEpoch BY <1>2
  <2>2. c \in [Contender -> Nat] /\ c[n] = e /\ \A k \in Contender \ {n} : c[k] = x.configEpoch[k]
    BY <1>2, <2>1
  <2>3. BumpConfigEpoch(n, x) = b BY <1>1, <1>3 DEF BumpConfigEpoch, NodeState
  <2>4. y = [b EXCEPT !.slaveof[n] = NULL, !.owner = IF @ = b.slaveof[n] THEN n ELSE @,
                       !.todo = TRUE]
    BY <2>3 DEF FailoverReplaceYourMaster
  <2> HIDE DEF e, c, y
  <2>5. y = Rewritten(x, e, c, f, OwnerAfter(x, n))
    BY <1>1, <2>4, Zenon DEF Rewritten, OwnerAfter, NodeState
  <2> HIDE DEF b
  <2>6. /\ Table(y) /\ Moves(x, y) /\ y.todo = TRUE /\ y.owner \in {n, x.owner} /\ y.slaveof[n] = NULL
        /\ y.currentEpoch = e /\ y.configEpoch = c
    <3>1. Replaced(x, y, n, e, c) BY <1>1, <2>1, <2>2, <2>5, ReplaceMoves
    <3> QED BY <3>1 DEF Replaced
  <2> QED BY <2>2, <2>6 DEF y, e, TookOver
<1>4. CASE ~ (x.configEpoch[n] = 0 \/ x.configEpoch[n] # GetMaxEpoch(x))
  <2>1. BumpConfigEpoch(n, x) = x BY <1>4 DEF BumpConfigEpoch
  <2>2. y = Rewritten(x, x.currentEpoch, x.configEpoch, f, OwnerAfter(x, n))
    BY <1>1, <2>1, Zenon DEF FailoverReplaceYourMaster, OwnerAfter, Rewritten, NodeState
  <2> HIDE DEF y
  <2>3. /\ Table(y) /\ Moves(x, y) /\ y.todo = TRUE /\ y.owner \in {n, x.owner} /\ y.slaveof[n] = NULL
        /\ y.configEpoch = x.configEpoch
    <3>1. Replaced(x, y, n, x.currentEpoch, x.configEpoch) BY <1>1, <1>2, <2>2, ReplaceMoves
    <3> QED BY <3>1 DEF Replaced
  <2> QED BY <1>4, <2>3 DEF y, TookOver
<1> QED BY <1>3, <1>4

\* The packet that corrects a claim.
LEMMA CorrectionType ==
  ASSUME NEW n \in Node, NEW x, Table(x), NEW m \in AnyPacket
  PROVE  /\ Correction(n, x, m) \subseteq AnyPacket /\ SlavesAsk(Correction(n, x, m))
         /\ \A u \in Correction(n, x, m) :
              /\ u = UpdatePacket(n, x, m.from, x.owner) /\ x.owner \in Contender
              /\ m.from \in Contender
<1> SUFFICES ASSUME NEW u \in Correction(n, x, m)
             PROVE  /\ u \in AnyPacket /\ u.type = "UPDATE"
                    /\ u = UpdatePacket(n, x, m.from, x.owner) /\ x.owner \in Contender
                    /\ m.from \in Contender
  BY DEF SlavesAsk
<1>1. /\ u = UpdatePacket(n, x, m.from, x.owner) /\ x.owner # NULL
      /\ m.from \in Contender
  BY DEF Correction, DirtySlots
<1>2. x \in NodeState /\ x.owner \in Contender BY <1>1 DEF Table, NodeState
<1> QED BY <1>1, <1>2, PacketFields, UpdatePacketType

\* A PING or a PONG keeps the table of its receiver and sends packets.
LEMMA HeartbeatStep ==
  ASSUME TableInv, NEW n \in Node, NEW m \in AnyPacket, m.type \in {"PING", "PONG"},
         NEW r \in ProcessHeartbeat(n, st[n], m), NEW consumed,
         BeforeSleep(n, r.x), Send(consumed, r.out), UNCHANGED <<votes, won>>
  PROVE  TableInv'
<1>1. Table(st[n]) BY TableOf, Zenon DEF TableInv
<1>2. PICK y : Table(y) /\ Table(r.x) /\ Moves(st[n], r.x) /\ r.out = Correction(n, y, m)
  BY <1>1, HeartbeatMoves
<1>3. Tables' BY <1>2, MovedTables DEF TableInv
<1>4. r.out \subseteq AnyPacket /\ SlavesAsk(r.out) BY <1>2, CorrectionType
<1>5. (net \subseteq AnyPacket)' /\ SlavesAsk(net)' BY <1>4, SendPackets DEF TableInv
<1> QED BY <1>3, <1>5 DEF TableInv

\* A heartbeat that arrives at once preserves the invariant of the tables.
LEMMA HeartbeatTables ==
  ASSUME TableInv, NEW l \in Links, Heartbeat(l[1], l[2])
  PROVE  TableInv'
<1>1. l[1] \in Node /\ l[2] \in Node BY FailoverAssumption
<1>2. PICK type \in {"PING", "PONG"} :
        \E r \in ProcessHeartbeat(l[2], st[l[2]], Packet(l[1], st[l[1]], type, l[2])) :
          BeforeSleep(l[2], r.x) /\ Send({}, r.out)
  BY DEF Heartbeat
<1> DEFINE m == Packet(l[1], st[l[1]], type, l[2])
<1>3. PICK r \in ProcessHeartbeat(l[2], st[l[2]], m) : BeforeSleep(l[2], r.x) /\ Send({}, r.out)
  BY <1>2
<1>4. st[l[1]] \in NodeState /\ type # "UPDATE" BY <1>1, TableOf, Zenon DEF TableInv
<1>5. m \in AnyPacket /\ m.type \in {"PING", "PONG"} BY <1>1, <1>4, PacketType
<1>6. UNCHANGED <<votes, won>> BY DEF Heartbeat
<1> HIDE DEF m
<1> QED BY <1>1, <1>3, <1>5, <1>6, HeartbeatStep

\* So does one that was delayed.
LEMMA ReceiveHeartbeatTables ==
  ASSUME TableInv, NEW m \in net, ReceiveHeartbeat(m)
  PROVE  TableInv'
<1>1. m \in AnyPacket /\ m.to \in Node /\ m.type \in {"PING", "PONG"}
  BY PacketFields DEF TableInv, ReceiveHeartbeat, Heartbeats
<1>2. PICK r \in ProcessHeartbeat(m.to, st[m.to], m) : BeforeSleep(m.to, r.x) /\ Send({m}, r.out)
  BY DEF ReceiveHeartbeat
<1>3. UNCHANGED <<votes, won>> BY DEF ReceiveHeartbeat
<1> QED BY <1>1, <1>2, <1>3, HeartbeatStep

\* An UPDATE preserves it.
LEMMA ReceiveUpdateTables ==
  ASSUME TableInv, NEW m \in net, ReceiveUpdate(m)
  PROVE  TableInv'
<1> DEFINE y == ProcessUpdate(m.to, st[m.to], m)
<1>1. m \in AnyPacket /\ m.to \in Node /\ m.type = "UPDATE"
  BY PacketFields DEF TableInv, ReceiveUpdate
<1>2. BeforeSleep(m.to, y) /\ Send({m}, {}) /\ UNCHANGED <<votes, won>> BY DEF ReceiveUpdate
<1>3. Table(st[m.to]) BY <1>1, TableOf, Zenon DEF TableInv
<1>4. Table(y) /\ Moves(st[m.to], y) BY <1>1, <1>3, ProcessUpdateMoves, Zenon
<1> HIDE DEF y
<1>5. Tables' BY <1>1, <1>2, <1>4, MovedTables DEF TableInv
<1>6. (net \subseteq AnyPacket)' /\ SlavesAsk(net)'
  <2>1. {} \subseteq AnyPacket /\ SlavesAsk({}) BY DEF SlavesAsk
  <2> QED BY <1>2, <2>1, SendPackets DEF TableInv
<1> QED BY <1>2, <1>5, <1>6 DEF TableInv

\* A vote: the table of the voter.
LEMMA CastVoteTable ==
  ASSUME NEW x, Table(x)
  PROVE  LET y == CastVote(x) IN
         /\ Table(y) /\ y.todo = x.todo /\ y.currentEpoch = x.currentEpoch
         /\ y.lastVoteEpoch = x.currentEpoch
         /\ y.owner = x.owner /\ y.slaveof = x.slaveof /\ y.configEpoch = x.configEpoch
         /\ y.authSent = x.authSent /\ y.authCount = x.authCount /\ y.authEpoch = x.authEpoch
         /\ y.phase = x.phase
<1> DEFINE y == CastVote(x)
           e == x.currentEpoch
<1>1. x \in NodeState /\ Bound(x) BY DEF Table
<1>2. e \in Nat BY <1>1 DEF NodeState
<1>3. y = [x EXCEPT !.lastVoteEpoch = e, !.voted = TRUE] BY DEF CastVote
<1> HIDE DEF y
<1>4. /\ y \in NodeState /\ y.todo = x.todo /\ y.currentEpoch = x.currentEpoch
      /\ y.lastVoteEpoch = x.currentEpoch
      /\ y.owner = x.owner /\ y.slaveof = x.slaveof /\ y.configEpoch = x.configEpoch
      /\ y.authSent = x.authSent /\ y.authCount = x.authCount /\ y.authEpoch = x.authEpoch
      /\ y.phase = x.phase
  BY <1>1, <1>2, <1>3, Zenon DEF NodeState
<1>5. Bound(y) BY <1>1, <1>4 DEF Bound
<1> QED BY <1>4, <1>5 DEF Table, y
\* A request for a vote preserves it, granted or not.
LEMMA ReceiveAuthRequestTables ==
  ASSUME TableInv, NEW m \in net, ReceiveAuthRequest(m)
  PROVE  TableInv'
<1> DEFINE n == m.to
           x == SeeHeader(st[n], m)
           voter == CastVote(x)
           ack == Packet(n, voter, "AUTH_ACK", m.from)
<1>1. m \in AnyPacket /\ n \in Node /\ m.from \in Slave /\ m.from \in Node
  BY PacketFields DEF TableInv, ReceiveAuthRequest, SlavesAsk
<1>2. Table(st[n]) BY <1>1, TableOf, Zenon DEF TableInv
<1>3. Table(x) /\ Moves(st[n], x) BY <1>1, <1>2, SeeHeaderMoves
<1>4. won' = won BY DEF ReceiveAuthRequest
<1>5. CASE Grants(n, x, m)
  <2>1. /\ BeforeSleep(n, voter) /\ Send({m}, {ack})
        /\ votes' = votes \cup {[voter |-> n, epoch |-> x.currentEpoch, for |-> m.from]}
    BY <1>5 DEF ReceiveAuthRequest
  <2> HIDE DEF x
  <2>2. /\ Table(voter) /\ voter.todo = x.todo /\ voter.owner = x.owner /\ voter.slaveof = x.slaveof
        /\ voter.configEpoch = x.configEpoch
    BY <1>3, CastVoteTable
  <2> HIDE DEF voter
  <2>3. voter.todo = FALSE => Saved(st[n], voter) BY <1>3, <2>2 DEF Moves, Saved
  <2>4. Tables' BY <1>1, <2>1, <2>2, <2>3, BeforeSleepTables, Zenon DEF TableInv
  <2>5. voter \in NodeState /\ x.currentEpoch \in Nat BY <1>3, <2>2 DEF Table, NodeState
  <2>6. ack \in AnyPacket /\ ack.type = "AUTH_ACK" /\ ack.to = m.from BY <1>1, <2>5, PacketType
  <2> HIDE DEF ack
  <2>7. {ack} \subseteq AnyPacket /\ SlavesAsk({ack}) BY <1>1, <2>6 DEF SlavesAsk
  <2>8. (net \subseteq AnyPacket)' /\ SlavesAsk(net)' BY <2>1, <2>7, SendPackets DEF TableInv
  <2>9. votes' \subseteq [voter : Node, epoch : Nat, for : Slave]
    BY <1>1, <2>1, <2>5 DEF TableInv
  <2> QED BY <1>4, <2>4, <2>8, <2>9 DEF TableInv
<1>6. CASE ~ Grants(n, x, m)
  <2>1. BeforeSleep(n, x) /\ Send({m}, {}) /\ votes' = votes BY <1>6 DEF ReceiveAuthRequest
  <2> HIDE DEF x
  <2>2. Tables' BY <1>1, <1>3, <2>1, MovedTables DEF TableInv
  <2>3. {} \subseteq AnyPacket /\ SlavesAsk({}) BY DEF SlavesAsk
  <2>4. (net \subseteq AnyPacket)' /\ SlavesAsk(net)' BY <2>1, <2>3, SendPackets DEF TableInv
  <2> QED BY <1>4, <2>1, <2>2, <2>4 DEF TableInv
<1> QED BY <1>5, <1>6

\* clusterHandleSlaveFailover leaves a table that is saved, and sends packets.
LEMMA SlaveFailoverTable ==
  ASSUME NEW n \in Slave, NEW x, Table(x)
  PROVE  LET r == HandleSlaveFailover(n, x) IN
         /\ Table(r.x) /\ (r.x.todo = FALSE => x.todo = FALSE /\ Saved(x, r.x))
         /\ r.out \subseteq AnyPacket /\ SlavesAsk(r.out)
<1> DEFINE r == HandleSlaveFailover(n, x)
<1>1. x \in NodeState /\ Bound(x) BY DEF Table
<1>2. n \in Node BY Contenders
<1>3. {} \subseteq AnyPacket /\ SlavesAsk({}) BY DEF SlavesAsk
<1>4. CASE r.x = x /\ r.out = {} BY <1>3, <1>4 DEF Saved
<1>5. CASE /\ r.x = [x EXCEPT !.phase = "delay", !.authCount = 0, !.authSent = FALSE]
           /\ r.out = {}
  <2> DEFINE y == [x EXCEPT !.phase = "delay", !.authCount = 0, !.authSent = FALSE]
  <2>1. /\ y \in NodeState /\ y.todo = x.todo /\ y.owner = x.owner /\ y.slaveof = x.slaveof
        /\ y.configEpoch = x.configEpoch
    BY <1>1, Zenon DEF NodeState, Phase
  <2>2. r.x = y BY <1>5
  <2> HIDE DEF y, r
  <2>3. Table(y) /\ (y.todo = FALSE => x.todo = FALSE /\ Saved(x, y))
    BY <1>1, <2>1 DEF Table, Bound, Saved
  <2> QED BY <1>3, <1>5, <2>2, <2>3, Zenon DEF r
<1>6. CASE r.x = Asks(x) /\ r.out = Broadcast(n, Asks(x), "AUTH_REQUEST")
  <2>1. Table(Asks(x)) /\ Asks(x).todo = TRUE BY AsksTable, Zenon
  <2>2. Asks(x) \in NodeState BY <2>1 DEF Table
  <2>3. /\ Broadcast(n, Asks(x), "AUTH_REQUEST") \subseteq AnyPacket
        /\ SlavesAsk(Broadcast(n, Asks(x), "AUTH_REQUEST"))
    BY <1>2, <2>2, BroadcastType
  <2> HIDE DEF r
  <2> QED BY <1>6, <2>1, <2>3 DEF r
<1>7. CASE r.x = Promoted(n, x) /\ r.out = Broadcast(n, Promoted(n, x), "PING")
  <2>0. IsPromoted(n, x, Promoted(n, x)) BY PromotedTable
  <2>1. Table(Promoted(n, x)) /\ Promoted(n, x).todo = TRUE BY <2>0 DEF IsPromoted
  <2>2. Promoted(n, x) \in NodeState BY <2>1 DEF Table
  <2>3. /\ Broadcast(n, Promoted(n, x), "PING") \subseteq AnyPacket
        /\ SlavesAsk(Broadcast(n, Promoted(n, x), "PING"))
    BY <1>2, <2>2, BroadcastType
  <2> HIDE DEF r
  <2> QED BY <1>7, <2>1, <2>3 DEF r
<1> QED BY <1>4, <1>5, <1>6, <1>7, SlaveFailoverCases, Zenon

\* clusterHandleSlaveFailover preserves it.
LEMMA FailoverStepTables ==
  ASSUME TableInv, NEW n \in Slave, NEW x, Table(x), x.todo = FALSE => Saved(st[n], x),
         NEW consumed, FailoverStep(n, x, consumed)
  PROVE  TableInv'
<1> DEFINE r == HandleSlaveFailover(n, x)
<1>1. /\ BeforeSleep(n, r.x) /\ Send(consumed, r.out) /\ votes' = votes
      /\ won' = IF r.wins THEN won \cup {[node |-> n, epoch |-> x.authEpoch]} ELSE won
  BY DEF FailoverStep
<1>2. /\ Table(r.x) /\ (r.x.todo = FALSE => x.todo = FALSE /\ Saved(x, r.x))
      /\ r.out \subseteq AnyPacket /\ SlavesAsk(r.out)
  BY SlaveFailoverTable, Zenon
<1> HIDE DEF r
<1>3. r.x.todo = FALSE => Saved(st[n], r.x) BY <1>2 DEF Saved
<1>4. n \in Node BY Contenders
<1>5. Tables' BY <1>1, <1>2, <1>3, <1>4, BeforeSleepTables, Zenon DEF TableInv
<1>6. (net \subseteq AnyPacket)' /\ SlavesAsk(net)'
  <2>1. net \subseteq AnyPacket /\ SlavesAsk(net) BY DEF TableInv
  <2>2. Send(consumed, r.out) /\ r.out \subseteq AnyPacket /\ SlavesAsk(r.out) BY <1>1, <1>2, Zenon
  <2> QED BY <2>1, <2>2, SendPackets
<1>7. x.authEpoch \in Nat BY DEF Table, NodeState
<1>8. won' \subseteq [node : Slave, epoch : Nat] BY <1>1, <1>7 DEF TableInv
<1> QED BY <1>1, <1>5, <1>6, <1>8 DEF TableInv

\* A vote preserves it, counted or not.
LEMMA ReceiveAuthAckTables ==
  ASSUME TableInv, NEW m \in net, ReceiveAuthAck(m)
  PROVE  TableInv'
<1> DEFINE n == m.to
           x == SeeHeader(st[n], m)
           c == x.authCount + 1
           y == [x EXCEPT !.authCount = @ + 1]
<1>1. m \in AnyPacket /\ n \in Node /\ n \in Slave
  BY PacketFields DEF TableInv, ReceiveAuthAck, SlavesAsk
<1>2. Table(st[n]) BY <1>1, TableOf, Zenon DEF TableInv
<1>3. Table(x) /\ Moves(st[n], x) BY <1>1, <1>2, SeeHeaderMoves
<1>4. CASE VoteCounts(x, m)
  <2>1. FailoverStep(n, y, {m}) BY <1>4 DEF ReceiveAuthAck
  <2> HIDE DEF x
  <2>2. x \in NodeState /\ Bound(x) BY <1>3 DEF Table
  <2>3. c \in Nat BY <2>2 DEF NodeState
  <2>4. y = [x EXCEPT !.authCount = c] BY <2>2 DEF NodeState
  <2> HIDE DEF c, y
  <2>5. /\ y \in NodeState /\ y.todo = x.todo /\ y.owner = x.owner /\ y.slaveof = x.slaveof
        /\ y.configEpoch = x.configEpoch
    BY <2>2, <2>3, <2>4 DEF NodeState
  <2>6. Table(y) BY <2>2, <2>5 DEF Table, Bound
  <2>7. y.todo = FALSE => Saved(st[n], y) BY <1>3, <2>5 DEF Moves, Saved
  <2> QED BY <1>1, <2>1, <2>6, <2>7, FailoverStepTables, Zenon
<1>5. CASE ~ VoteCounts(x, m)
  <2>1. BeforeSleep(n, x) /\ Send({m}, {}) /\ UNCHANGED <<votes, won>> BY <1>5 DEF ReceiveAuthAck
  <2> HIDE DEF x
  <2>2. Tables' BY <1>1, <1>3, <2>1, MovedTables DEF TableInv
  <2>3. {} \subseteq AnyPacket /\ SlavesAsk({}) BY DEF SlavesAsk
  <2>4. (net \subseteq AnyPacket)' /\ SlavesAsk(net)' BY <2>1, <2>3, SendPackets DEF TableInv
  <2> QED BY <2>1, <2>2, <2>4 DEF TableInv
<1> QED BY <1>4, <1>5

\* clusterCron of a slave preserves it.
LEMMA CronTables ==
  ASSUME TableInv, NEW n \in Slave, Cron(n)
  PROVE  TableInv'
<1>1. Table(st[n]) BY Contenders, TableOf, Zenon DEF TableInv
<1>2. st[n].todo = FALSE => Saved(st[n], st[n]) BY DEF Saved
<1> QED BY <1>1, <1>2, FailoverStepTables, Zenon DEF Cron

\* A step that touches only the clocks of one table.
LEMMA ClockTables ==
  ASSUME TableInv, NEW n \in Node, NEW y \in NodeState, st' = [st EXCEPT ![n] = y],
         y.todo = FALSE, y.owner = st[n].owner, y.slaveof = st[n].slaveof,
         y.configEpoch = st[n].configEpoch, UNCHANGED <<disk, net, votes, won>>
  PROVE  TableInv'
<1>1. st \in [Node -> NodeState] BY DEF TableInv, Tables
<1>2. st' \in [Node -> NodeState] /\ \A k \in Node : k # n => st'[k] = st[k] BY <1>1
<1>3. st'[n] = y BY <1>1
<1>4. \A k \in Node : Bound(st'[k]) /\ st'[k].todo = FALSE
  BY <1>2, <1>3 DEF TableInv, Tables, Bound
<1>5. \A k \in MayRestart : Saved(st'[k], disk'[k])
  <2> TAKE k \in MayRestart
  <2>1. k \in Node /\ Saved(st[k], disk[k]) BY FailoverAssumption DEF TableInv, Tables
  <2> QED BY <1>2, <1>3, <2>1 DEF Saved
<1>6. Tables' BY <1>2, <1>4, <1>5 DEF Tables, TableInv
<1> QED BY <1>6 DEF TableInv

\* The clock of an election attempt preserves it.
LEMMA AuthTimePassesTables ==
  ASSUME TableInv, NEW n \in Slave, AuthTimePasses(n)
  PROVE  TableInv'
<1>1. n \in Node /\ st[n] \in NodeState /\ st[n].todo = FALSE
  BY Contenders, TableOf, Zenon DEF TableInv
<1>2. PICK ph \in Phase : st' = [st EXCEPT ![n].phase = ph] BY DEF AuthTimePasses, Phase
<1> DEFINE y == [st[n] EXCEPT !.phase = ph]
<1>3. st' = [st EXCEPT ![n] = y] BY <1>1, <1>2 DEF TableInv, Tables
<1>4. /\ y \in NodeState /\ y.todo = FALSE /\ y.owner = st[n].owner /\ y.slaveof = st[n].slaveof
      /\ y.configEpoch = st[n].configEpoch
  BY <1>1 DEF NodeState
<1> HIDE DEF y
<1>5. UNCHANGED <<disk, net, votes, won>> BY DEF AuthTimePasses
<1> QED BY <1>1, <1>3, <1>4, <1>5, ClockTables, Zenon

\* The clock of the last vote preserves it.
LEMMA VoteTimePassesTables ==
  ASSUME TableInv, NEW n \in Node, VoteTimePasses(n)
  PROVE  TableInv'
<1>1. st[n] \in NodeState /\ st[n].todo = FALSE BY TableOf, Zenon DEF TableInv
<1> DEFINE y == [st[n] EXCEPT !.voted = FALSE]
<1>2. st' = [st EXCEPT ![n] = y] BY <1>1 DEF TableInv, Tables, VoteTimePasses
<1>3. /\ y \in NodeState /\ y.todo = FALSE /\ y.owner = st[n].owner /\ y.slaveof = st[n].slaveof
      /\ y.configEpoch = st[n].configEpoch
  BY <1>1, Zenon DEF NodeState
<1> HIDE DEF y
<1>4. UNCHANGED <<disk, net, votes, won>> BY DEF VoteTimePasses
<1> QED BY <1>1, <1>2, <1>3, <1>4, ClockTables, Zenon

\* The failing master is flagged.
LEMMA MarkedTable ==
  ASSUME NEW x, Table(x)
  PROVE  LET y == [x EXCEPT !.failed = TRUE, !.todo = TRUE] IN
         /\ Table(y) /\ Moves(x, y) /\ y.currentEpoch = x.currentEpoch
         /\ y.owner = x.owner /\ y.slaveof = x.slaveof /\ y.configEpoch = x.configEpoch
<1> DEFINE y == [x EXCEPT !.failed = TRUE, !.todo = TRUE]
<1>1. x \in NodeState /\ Bound(x) /\ x.currentEpoch \in Nat BY DEF Table, NodeState
<1>2. /\ y \in NodeState /\ y.todo = TRUE /\ y.currentEpoch = x.currentEpoch
      /\ y.owner = x.owner /\ y.slaveof = x.slaveof /\ y.configEpoch = x.configEpoch
      /\ y.lastVoteEpoch = x.lastVoteEpoch /\ y.authSent = x.authSent
      /\ y.authCount = x.authCount /\ y.authEpoch = x.authEpoch /\ y.phase = x.phase
  BY <1>1, Zenon DEF NodeState
<1> HIDE DEF y
<1>3. Table(y) BY <1>1, <1>2 DEF Table, Bound
<1>4. Moves(x, y) BY <1>1, <1>2 DEF Moves
<1> QED BY <1>2, <1>3, <1>4 DEF y
\* markNodeAsFailingIfNeeded preserves it.
LEMMA MarkNodeAsFailingTables ==
  ASSUME TableInv, NEW n \in MayDetect, MarkNodeAsFailing(n)
  PROVE  TableInv'
<1> DEFINE y == [st[n] EXCEPT !.failed = TRUE, !.todo = TRUE]
<1>1. n \in Node BY FailoverAssumption
<1>2. BeforeSleep(n, y) /\ UNCHANGED <<net, votes, won>> BY DEF MarkNodeAsFailing
<1>3. Table(y) /\ Moves(st[n], y)
  <2>1. Table(st[n]) BY <1>1, TableOf, Zenon DEF TableInv
  <2> QED BY <2>1, MarkedTable, Zenon
<1> HIDE DEF y
<1>4. Tables' BY <1>1, <1>2, <1>3, MovedTables DEF TableInv
<1> QED BY <1>2, <1>4 DEF TableInv

\* CLUSTER FAILOVER TAKEOVER preserves it.
LEMMA TakeoverTables ==
  ASSUME TableInv, NEW n \in MayTakeOver, Takeover(n)
  PROVE  TableInv'
<1> DEFINE y == FailoverReplaceYourMaster(n, BumpConfigEpoch(n, st[n]))
<1>1. n \in Node /\ n \in Contender BY FailoverAssumption, Contenders
<1>2. BeforeSleep(n, y) /\ Send({}, Broadcast(n, y, "PING")) /\ UNCHANGED <<votes, won>>
  BY DEF Takeover
<1>3. Table(y) /\ Moves(st[n], y)
  <2>1. Table(st[n]) BY <1>1, TableOf, Zenon DEF TableInv
  <2>2. TookOver(n, st[n], y) BY <1>1, <2>1, TakeoverTable
  <2> QED BY <2>2 DEF TookOver
<1> HIDE DEF y
<1>4. Tables' BY <1>1, <1>2, <1>3, MovedTables DEF TableInv
<1>5. Broadcast(n, y, "PING") \subseteq AnyPacket /\ SlavesAsk(Broadcast(n, y, "PING"))
  <2>1. y \in NodeState BY <1>3 DEF Table
  <2> QED BY <1>1, <2>1, BroadcastType
<1>6. (net \subseteq AnyPacket)' /\ SlavesAsk(net)' BY <1>2, <1>5, SendPackets DEF TableInv
<1> QED BY <1>2, <1>4, <1>6 DEF TableInv

\* clusterLoadConfig: the table of a restarted node.
Loaded(d) ==
  [currentEpoch |-> d.currentEpoch, lastVoteEpoch |-> d.lastVoteEpoch,
   configEpoch |-> d.configEpoch, slaveof |-> d.slaveof, owner |-> d.owner,
   failed |-> d.failed, voted |-> FALSE, phase |-> "retry", authSent |-> FALSE,
   authCount |-> 0, authEpoch |-> 0, todo |-> FALSE]

\* clusterLoadConfig: the table of a node that restarts, from its config file.
LEMMA RestartedTable ==
  ASSUME Tables, NEW n \in MayRestart, AuthUnderWay(n) = {}, Restart(n)
  PROVE  /\ Tables' /\ \A k \in Node \ {n} : st'[k] = st[k]
         /\ st'[n].currentEpoch >= disk[n].currentEpoch
         /\ st'[n].lastVoteEpoch = disk[n].lastVoteEpoch /\ Saved(st'[n], disk[n])
         /\ st'[n].phase = "retry" /\ st'[n].authSent = FALSE /\ st'[n].authCount = 0
         /\ st'[n].authEpoch = 0
<1> DEFINE d == disk[n]
           g == GetMaxEpoch(Loaded(d))
           y == [Loaded(d) EXCEPT !.currentEpoch = g]
<1>1. /\ n \in Node /\ st \in [Node -> NodeState] /\ disk \in [MayRestart -> PersistentState]
      /\ Bound(st[n]) /\ Saved(st[n], d)
  BY FailoverAssumption DEF Tables
<1>2. d \in PersistentState BY <1>1
<1>3. st' = [st EXCEPT ![n] = y] /\ disk' = disk BY DEF Restart, Loaded
<1> HIDE DEF d
<1>4. Loaded(d) \in NodeState BY <1>2 DEF Loaded, NodeState, PersistentState, Phase
<1>5. g \in Nat /\ g >= d.currentEpoch
  <2>1. Loaded(d).currentEpoch \in Nat /\ Loaded(d).configEpoch \in [Contender -> Nat]
    BY <1>4 DEF NodeState
  <2>2. Loaded(d).currentEpoch = d.currentEpoch BY DEF Loaded
  <2> QED BY <2>1, <2>2, GetMaxEpochType
<1> HIDE DEF g
<1>6. /\ y \in NodeState /\ y.currentEpoch = g /\ y.lastVoteEpoch = d.lastVoteEpoch
      /\ y.owner = d.owner /\ y.slaveof = d.slaveof /\ y.configEpoch = d.configEpoch
      /\ y.phase = "retry" /\ y.authSent = FALSE /\ y.authCount = 0 /\ y.authEpoch = 0
      /\ y.todo = FALSE
  <2>1. y \in NodeState BY <1>4, <1>5 DEF NodeState
  <2> QED BY <2>1 DEF Loaded
<1> HIDE DEF y
<1>7. st'[n] = y /\ (\A k \in Node \ {n} : st'[k] = st[k]) /\ st' \in [Node -> NodeState]
  BY <1>1, <1>3, <1>6
<1>8. Bound(y) BY <1>1, <1>6 DEF Bound, Saved
<1>9. Saved(y, d) BY <1>6 DEF Saved
<1>10. \A k \in Node : Bound(st'[k]) /\ st'[k].todo = FALSE BY <1>6, <1>7, <1>8 DEF Tables
<1>11. \A k \in MayRestart : Saved(st'[k], disk'[k])
  <2> TAKE k \in MayRestart
  <2>1. k \in Node /\ Saved(st[k], disk[k]) BY FailoverAssumption DEF Tables
  <2>2. CASE k = n BY <1>3, <1>7, <1>9, <2>2 DEF d
  <2>3. CASE k # n
    <3>1. st'[k] = st[k] /\ disk'[k] = disk[k] BY <1>3, <1>7, <2>1, <2>3
    <3> QED BY <2>1, <3>1
  <2> QED BY <2>2, <2>3
<1>12. Tables' BY <1>1, <1>3, <1>7, <1>10, <1>11 DEF Tables
<1> QED BY <1>5, <1>6, <1>7, <1>9, <1>12 DEF d

\* A restart preserves the invariant of the tables.
LEMMA RestartTables ==
  ASSUME TableInv, NEW n \in MayRestart, Restart(n)
  PROVE  TableInv'
<1>1. AuthUnderWay(n) = {} /\ net' = {m \in net : m.to # n} /\ UNCHANGED <<votes, won>>
  BY DEF Restart
<1>2. Tables' BY <1>1, RestartedTable, Zenon DEF TableInv
<1>3. net' \subseteq AnyPacket /\ SlavesAsk(net') BY <1>1 DEF TableInv, SlavesAsk
<1> QED BY <1>1, <1>2, <1>3 DEF TableInv

\* The cluster is formed with the invariant.
LEMMA InitNodeTable ==
  /\ Table(InitNode) /\ InitNode.todo = FALSE /\ Saved(InitNode, Persistent(InitNode))
  /\ InitNode \in NodeState /\ Persistent(InitNode) \in PersistentState
<1>1. InitNode \in NodeState BY Contenders DEF InitNode, NodeState, Phase
<1>2. InitNode.owner = Failing /\ InitNode.slaveof[Failing] = NULL /\ InitNode.todo = FALSE
  BY Contenders DEF InitNode
<1> QED BY <1>1, <1>2, PersistentType DEF Table, Bound

\* The invariant of the tables holds when the cluster is formed.
LEMMA InitTables ==
  ASSUME Init
  PROVE  TableInv
<1>1. st = [n \in Node |-> InitNode] /\ disk = [n \in MayRestart |-> Persistent(InitNode)]
  BY DEF Init
<1>2. Tables BY <1>1, InitNodeTable, FailoverAssumption DEF Tables, Table
<1> QED BY <1>2 DEF Init, TableInv, SlavesAsk

\* Every step preserves the invariant of the tables.
LEMMA NextTables ==
  ASSUME TableInv, [Next]_vars
  PROVE  TableInv'
<1>1. CASE UNCHANGED vars BY <1>1 DEF vars, TableInv, Tables
<1>2. CASE \E l \in Links : Heartbeat(l[1], l[2]) BY <1>2, HeartbeatTables
<1>3. CASE \E m \in net : \/ ReceiveHeartbeat(m) \/ ReceiveUpdate(m)
                          \/ ReceiveAuthRequest(m) \/ ReceiveAuthAck(m)
  BY <1>3, ReceiveHeartbeatTables, ReceiveUpdateTables, ReceiveAuthRequestTables,
     ReceiveAuthAckTables
<1>4. CASE \E n \in Slave : Cron(n) \/ AuthTimePasses(n) BY <1>4, CronTables, AuthTimePassesTables
<1>5. CASE \E n \in Node : VoteTimePasses(n) BY <1>5, VoteTimePassesTables
<1>6. CASE \E n \in MayDetect : MarkNodeAsFailing(n) BY <1>6, MarkNodeAsFailingTables
<1>7. CASE \E n \in MayTakeOver : Takeover(n) BY <1>7, TakeoverTables
<1>8. CASE \E n \in MayRestart : Restart(n) BY <1>8, RestartTables
<1> QED BY <1>1, <1>2, <1>3, <1>4, <1>5, <1>6, <1>7, <1>8 DEF Next

\* The tables, the config files and the packets keep their types, for every number of
\* masters and slaves and every pattern of links, takeovers and restarts.
THEOREM TypeCorrect == Spec => []TypeOK
<1>1. Init => TableInv BY InitTables
<1>2. TableInv /\ [Next]_vars => TableInv' BY NextTables
<1>3. TableInv => TypeOK
  <2> SUFFICES ASSUME TableInv PROVE TypeOK OBVIOUS
  <2>1. st \in [Node -> NodeState] /\ disk \in [MayRestart -> PersistentState]
    BY DEF TableInv, Tables
  <2>2. \A n \in Node :
          /\ Persistent(st[n]) \in PersistentState
          /\ st[n].phase \in Phase /\ st[n].authCount \in Nat /\ st[n].authEpoch \in Nat
          /\ {st[n].voted, st[n].authSent} \subseteq BOOLEAN /\ st[n].todo = FALSE
    <3> TAKE n \in Node
    <3>1. st[n] \in NodeState /\ st[n].todo = FALSE BY TableOf, Zenon DEF TableInv
    <3>2. Persistent(st[n]) \in PersistentState BY <3>1, PersistentType
    <3> QED BY <3>1, <3>2 DEF NodeState
  <2> QED BY <2>1, <2>2 DEF TypeOK, TableInv
<1> QED BY <1>1, <1>2, <1>3, PTL DEF Spec

\* No table binds the slots to a node it holds for a slave, whatever order the packets
\* arrive in and whatever file a node restarts from: clusterDelNodeSlots comes with every
\* demotion, and a file is only ever saved from such a table.
THEOREM SlotsBoundToMasters == Spec => []SlotsOwnedByMasters
<1>1. Init => TableInv BY InitTables
<1>2. TableInv /\ [Next]_vars => TableInv' BY NextTables
<1>3. TableInv => SlotsOwnedByMasters
  BY DEF TableInv, Tables, Bound, SlotsOwnedByMasters, NodeIsMaster
<1> QED BY <1>1, <1>2, <1>3, PTL DEF Spec

\* The claim a node makes to own the slots, and its config epoch, are in its config file at
\* every moment a packet can carry them: every change of an owner, a role or a config epoch
\* asks clusterBeforeSleep for the file to be saved before the packets leave.
THEOREM ClaimsDurable == Spec => []DurableClaim
<1>1. Init => TableInv BY InitTables
<1>2. TableInv /\ [Next]_vars => TableInv' BY NextTables
<1>3. TableInv => DurableClaim
  <2> SUFFICES ASSUME TableInv, NEW n \in Contender \cap MayRestart, st[n].owner = n
               PROVE  /\ disk[n].owner = n /\ disk[n].slaveof[n] = NULL
                      /\ disk[n].configEpoch[n] = st[n].configEpoch[n]
    BY DEF DurableClaim
  <2>1. Bound(st[n]) /\ Saved(st[n], disk[n]) /\ n # NULL
    BY Contenders DEF TableInv, Tables
  <2> QED BY <2>1 DEF Bound, Saved
<1> QED BY <1>1, <1>2, <1>3, PTL DEF Spec

-----------------------------------------------------------------------------
(* When the failing master is cut off: the epochs of tables and packets *)

\* No packet reaches the failing master and none of its packets arrive; no master restarts
\* (a vote is not saved when it is cast).
CutOff ==
  /\ Failing \notin Reach /\ Failing \notin MayTakeOver
  /\ \A l \in Links : l[1] # Failing /\ l[2] # Failing
  /\ MayRestart \cap Master = {}

\* In a table, or a config file, the failing master keeps the epoch it had, and a slave
\* that was promoted has a greater one.
Outdone(n, x) ==
  /\ x.currentEpoch >= 1 /\ x.configEpoch[Failing] = 1
  /\ x.owner \in Slave => x.configEpoch[x.owner] >= 2
  /\ n \in Slave => x.configEpoch[n] # 1

OutdoneTables ==
  (\A n \in Node : Outdone(n, st[n])) /\ \A n \in MayRestart : Outdone(n, disk[n])

\* What the packets say follows: nobody hears of a slave that took the slots with an epoch
\* that is not greater, a request repeats the epoch of the failing master, and only the
\* masters the cluster was formed with vote.
OutdonePacket(m) ==
  /\ m.from # m.to /\ Failing \notin {m.from, m.to}
  /\ m.type \in {"PING", "PONG"} =>
       (m.from \in Slave /\ m.slaveof = NULL /\ m.slots => m.configEpoch >= 2)
  /\ m.type = "UPDATE" => IF m.about = Failing THEN m.aboutEpoch = 1 ELSE m.aboutEpoch >= 2
  /\ m.type = "AUTH_REQUEST" => m.slots /\ m.configEpoch = 1 /\ m.slaveof = Failing
  /\ m.type = "AUTH_ACK" =>
       /\ m.from \in Master /\ ~ m.slots /\ m.configEpoch = 0 /\ m.slaveof = NULL

\* Nothing of an earlier attempt is under way when a slave asks for votes.
OneAttempt ==
  \A n \in Slave :
    /\ st[n].phase \in {"retry", "delay"} \/ ~ st[n].authSent => AuthUnderWay(n) = {}
    /\ st[n].authSent => st[n].authEpoch >= 2

ElectionInv ==
  /\ TableInv /\ OneAttempt /\ OutdoneTables
  /\ \A m \in net : OutdonePacket(m)

\* The header of a packet of another node.
LEMMA SeeHeaderOutdone ==
  ASSUME NEW n \in Node, NEW x, Table(x), Outdone(n, x), NEW m \in AnyPacket,
         m.from # n, m.from # Failing
  PROVE  Outdone(n, SeeHeader(x, m))
<1> DEFINE y == SeeHeader(x, m)
<1>1. /\ x.currentEpoch \in Nat /\ x.configEpoch \in [Contender -> Nat]
      /\ m.currentEpoch \in Nat /\ m.configEpoch \in Nat
  BY PacketFields DEF Table, NodeState
<1>2. /\ y.currentEpoch = IF m.currentEpoch > x.currentEpoch THEN m.currentEpoch ELSE x.currentEpoch
      /\ y.owner = x.owner
      /\ \A k \in Contender :
           y.configEpoch[k] = IF k = m.from /\ m.configEpoch > x.configEpoch[k]
                              THEN m.configEpoch ELSE x.configEpoch[k]
  BY SeeHeaderMoves
<1> HIDE DEF y
<1>3. y.currentEpoch >= 1 BY <1>1, <1>2 DEF Outdone
<1>4. y.configEpoch[Failing] = 1 BY <1>1, <1>2, Contenders DEF Outdone
<1>5. y.owner \in Slave => y.configEpoch[y.owner] >= 2
  BY <1>1, <1>2, Contenders DEF Outdone
<1>6. n \in Slave => y.configEpoch[n] # 1 BY <1>1, <1>2, Contenders DEF Outdone
<1>7. Outdone(n, y) BY <1>3, <1>4, <1>5, <1>6 DEF Outdone
<1> QED BY <1>7 DEF y

\* A PING or a PONG: the table that results, and the correction that is sent.
LEMMA HeartbeatOutdone ==
  ASSUME NEW n \in Node, n # Failing, NEW x, Table(x), Outdone(n, x), NEW m \in AnyPacket,
         m.type \in {"PING", "PONG"}, OutdonePacket(m), m.to = n,
         NEW r \in ProcessHeartbeat(n, x, m)
  PROVE  /\ Table(r.x) /\ Moves(x, r.x) /\ Outdone(n, r.x)
         /\ \A u \in r.out : OutdonePacket(u) /\ u.type = "UPDATE"
<1>1. PICK y1, y2, y3, y4 :
        /\ y1 = SeeHeader(x, m) /\ y2 \in ClearNodeFailure(y1, m) /\ y3 = UpdateRole(y2, m)
        /\ y4 = BindSlots(n, y3, m) /\ r.x = HandleConfigEpochCollision(n, y4, m)
        /\ r.out = Correction(n, y4, m)
        /\ Table(y1) /\ Table(y2) /\ Table(y3) /\ Table(y4) /\ Table(r.x)
        /\ Moves(x, r.x)
        /\ y4.currentEpoch = y1.currentEpoch /\ y4.configEpoch = y1.configEpoch
        /\ y4.owner \in {x.owner, NULL} \/
             (m.from \in Contender /\ y4.owner = m.from /\ m.slots /\ m.slaveof = NULL)
  BY HeartbeatMoves
<1>2. m.from # n /\ m.from # Failing BY DEF OutdonePacket
<1>3. Outdone(n, y1) /\ y1.owner = x.owner
  <2>1. Outdone(n, SeeHeader(x, m)) /\ SeeHeader(x, m).owner = x.owner
    BY <1>2, SeeHeaderOutdone, SeeHeaderMoves
  <2> QED BY <1>1, <2>1
<1>4. /\ y4.configEpoch \in [Contender -> Nat] /\ y4.currentEpoch \in Nat
      /\ y4.owner \in Contender \cup {NULL} /\ m.configEpoch \in Nat /\ x.configEpoch \in [Contender -> Nat]
      /\ y4 \in NodeState
  BY <1>1, PacketFields DEF Table, NodeState
<1>5. y4.owner \in Slave => y4.configEpoch[y4.owner] >= 2
  <2>1. CASE y4.owner \in {x.owner, NULL} BY <1>1, <1>3, <2>1, Contenders DEF Outdone
  <2>2. CASE m.from \in Contender /\ y4.owner = m.from /\ m.slots /\ m.slaveof = NULL
    <3>1. m.from \in Slave BY <1>2, <2>2 DEF Contender
    <3>2. m.configEpoch >= 2 BY <2>2, <3>1 DEF OutdonePacket
    <3>3. SeeHeader(x, m).configEpoch[m.from] >= m.configEpoch
      BY <1>4, <2>2, SeeHeaderMoves
    <3>4. y4.configEpoch = SeeHeader(x, m).configEpoch BY <1>1, Zenon
    <3>5. y4.configEpoch[m.from] >= m.configEpoch BY <3>3, <3>4, Zenon
    <3>6. y4.configEpoch[m.from] \in Nat /\ m.configEpoch \in Nat BY <1>4, <2>2, Zenon
    <3>7. y4.configEpoch[m.from] >= 2
      <4> DEFINE c == y4.configEpoch[m.from]
                 e == m.configEpoch
      <4>1. c \in Nat /\ e \in Nat /\ e >= 2 /\ c >= e BY <3>2, <3>5, <3>6
      <4> HIDE DEF c, e
      <4>2. c >= 2 BY <4>1
      <4> QED BY <4>2 DEF c
    <3> QED BY <2>2, <3>7, Zenon
  <2> QED BY <1>1, <2>1, <2>2
<1>6. Outdone(n, y4) BY <1>1, <1>3, <1>5 DEF Outdone
<1>7. Outdone(n, r.x)
  <2> DEFINE z == HandleConfigEpochCollision(n, y4, m)
  <2>1. /\ z.owner = y4.owner
        /\ \/ z = y4
           \/ /\ n \in Contender /\ z.currentEpoch = y4.currentEpoch + 1
              /\ z.configEpoch = [y4.configEpoch EXCEPT ![n] = y4.currentEpoch + 1]
    <3>1. Separated(n, y4, z) BY <1>1, CollisionMoves, Zenon
    <3> HIDE DEF z
    <3> QED BY <3>1, Zenon DEF Separated
  <2> HIDE DEF z
  <2>2. z = y4 => Outdone(n, z) BY <1>6
  <2>3. ASSUME /\ n \in Contender /\ z.currentEpoch = y4.currentEpoch + 1
               /\ z.configEpoch = [y4.configEpoch EXCEPT ![n] = y4.currentEpoch + 1]
        PROVE  Outdone(n, z)
    <3>1. y4.currentEpoch >= 1 /\ y4.configEpoch[Failing] = 1 BY <1>6 DEF Outdone
    <3>2. z.currentEpoch >= 1 /\ z.configEpoch[n] >= 2 BY <1>4, <2>3, <3>1
    <3>3. \A k \in Contender \ {n} : z.configEpoch[k] = y4.configEpoch[k] BY <1>4, <2>3
    <3>4. z.configEpoch[Failing] = 1 BY <3>1, <3>3, Contenders
    <3>5. z.owner \in Slave => z.configEpoch[z.owner] >= 2
      BY <1>5, <2>1, <3>2, <3>3, Contenders
    <3>6. z.configEpoch[n] # 1 BY <3>2
    <3> QED BY <3>2, <3>4, <3>5, <3>6 DEF Outdone
  <2>4. Outdone(n, z) BY <2>1, <2>2, <2>3
  <2> QED BY <1>1, <2>4 DEF z
<1>8. ASSUME NEW u \in r.out PROVE OutdonePacket(u) /\ u.type = "UPDATE"
  <2>1. /\ u = UpdatePacket(n, y4, m.from, y4.owner) /\ y4.owner \in Contender
    BY <1>1, CorrectionType
  <2>2. /\ u.type = "UPDATE" /\ u.from = n /\ u.to = m.from /\ u.about = y4.owner
        /\ u.aboutEpoch = y4.configEpoch[y4.owner]
    BY <2>1 DEF UpdatePacket
  <2>3. y4.owner = Failing => u.aboutEpoch = 1 BY <1>6, <2>2 DEF Outdone
  <2>4. y4.owner # Failing => u.aboutEpoch >= 2 BY <1>5, <2>1, <2>2 DEF Contender
  <2> QED BY <1>2, <2>2, <2>3, <2>4 DEF OutdonePacket
<1> QED BY <1>1, <1>7, <1>8

\* An UPDATE.
LEMMA ProcessUpdateOutdone ==
  ASSUME NEW n \in Node, NEW x, Table(x), Outdone(n, x), NEW m \in AnyPacket,
         m.type = "UPDATE", OutdonePacket(m), m.to = n
  PROVE  Outdone(n, ProcessUpdate(n, x, m))
<1> DEFINE y == SeeHeader(x, m)
           z == ProcessUpdate(n, x, m)
<1>1. m.from # n /\ m.from # Failing BY DEF OutdonePacket
<1>2. Table(y) /\ Outdone(n, y) /\ y.owner = x.owner BY <1>1, SeeHeaderOutdone, SeeHeaderMoves
<1>3. /\ Table(z) /\ z.currentEpoch = y.currentEpoch
      /\ \/ z.owner = x.owner /\ z.configEpoch = y.configEpoch
         \/ /\ z.owner \in {x.owner, m.about} /\ m.aboutEpoch > y.configEpoch[m.about]
            /\ z.configEpoch = [y.configEpoch EXCEPT ![m.about] = m.aboutEpoch]
  <2>1. Table(z) /\ ToldOf(y, z, x.owner, m) BY ProcessUpdateMoves
  <2> HIDE DEF y, z
  <2> QED BY <2>1 DEF ToldOf
<1> HIDE DEF y, z
<1>4. /\ y.configEpoch \in [Contender -> Nat] /\ m.about \in Contender /\ m.aboutEpoch \in Nat
  BY <1>2, PacketFields DEF Table, NodeState
<1>5. ASSUME z.owner = x.owner, z.configEpoch = y.configEpoch
      PROVE  Outdone(n, z)
  BY <1>2, <1>3, <1>5 DEF Outdone
<1>6. ASSUME z.owner \in {x.owner, m.about}, m.aboutEpoch > y.configEpoch[m.about],
             z.configEpoch = [y.configEpoch EXCEPT ![m.about] = m.aboutEpoch]
      PROVE  Outdone(n, z)
  <2>1. z.configEpoch[m.about] = m.aboutEpoch
        /\ \A k \in Contender \ {m.about} : z.configEpoch[k] = y.configEpoch[k]
    BY <1>4, <1>6
  <2>2. m.about # Failing
    <3>1. y.configEpoch[Failing] = 1 BY <1>2 DEF Outdone
    <3>2. m.about = Failing => m.aboutEpoch = 1 BY DEF OutdonePacket
    <3> QED BY <1>6, <3>1, <3>2
  <2>3. m.aboutEpoch >= 2 BY <2>2 DEF OutdonePacket
  <2>4. z.configEpoch[Failing] = 1 BY <1>2, <2>1, <2>2, Contenders DEF Outdone
  <2>5. z.owner \in Slave => z.configEpoch[z.owner] >= 2
    BY <1>2, <1>6, <2>1, <2>3, Contenders DEF Outdone
  <2>6. n \in Slave => z.configEpoch[n] # 1
    <3>1. CASE n = m.about BY <1>4, <2>1, <2>3, <3>1
    <3>2. CASE n # m.about BY <1>2, <2>1, <3>2, Contenders DEF Outdone
    <3> QED BY <3>1, <3>2
  <2>7. z.currentEpoch >= 1 BY <1>2, <1>3 DEF Outdone
  <2> QED BY <2>4, <2>5, <2>6, <2>7 DEF Outdone
<1>7. Outdone(n, z) BY <1>3, <1>5, <1>6
<1> QED BY <1>7 DEF z

\* The packets a node sends.
LEMMA HeartbeatPacket ==
  ASSUME NEW n \in Node, NEW x \in NodeState, Outdone(n, x), NEW to \in Node, n # to,
         n # Failing, to # Failing, NEW type \in {"PING", "PONG"}
  PROVE  OutdonePacket(Packet(n, x, type, to))
<1> DEFINE m == Packet(n, x, type, to)
<1>1. m.type = type /\ m.from = n /\ m.to = to BY PacketType
<1>2. ASSUME n \in Slave, m.slaveof = NULL, m.slots PROVE m.configEpoch >= 2
  <2>1. n \in Contender BY <1>2, Contenders
  <2>2. x.slaveof[n] = NULL BY <1>2, <2>1 DEF Packet
  <2>3. MasterOf(x, n) = n BY <2>2 DEF MasterOf, NodeIsMaster
  <2>4. x.owner = n /\ m.configEpoch = x.configEpoch[n] BY <1>2, <2>1, <2>3, Zenon DEF Packet
  <2> QED BY <1>2, <2>4 DEF Outdone
<1> HIDE DEF m
<1>3. OutdonePacket(m) BY <1>1, <1>2 DEF OutdonePacket
<1> QED BY <1>3 DEF m

\* A request for votes repeats the epoch of the failing master.
LEMMA RequestPacket ==
  ASSUME NEW n \in Slave, NEW x \in NodeState, x.configEpoch[Failing] = 1, InElection(n, x),
         NEW to \in Node, n # to, to # Failing
  PROVE  OutdonePacket(Packet(n, x, "AUTH_REQUEST", to))
<1> DEFINE m == Packet(n, x, "AUTH_REQUEST", to)
<1>1. m.type = "AUTH_REQUEST" /\ m.from = n /\ m.to = to BY Contenders, PacketType
<1>2. n \in Contender /\ x.slaveof[n] = Failing /\ MasterOf(x, n) = Failing /\ x.owner = Failing
  BY Contenders DEF InElection, MasterOf
<1>3. m.slots /\ m.configEpoch = 1 /\ m.slaveof = Failing BY <1>2, Zenon DEF Packet
<1> HIDE DEF m
<1>4. OutdonePacket(m) BY <1>1, <1>3, Contenders DEF OutdonePacket
<1> QED BY <1>4 DEF m

\* A vote of a master says nothing of slots or config epochs.
LEMMA AckPacket ==
  ASSUME NEW n \in Master, n # Failing, NEW x \in NodeState, NEW to \in Node, n # to, to # Failing
  PROVE  OutdonePacket(Packet(n, x, "AUTH_ACK", to))
<1> DEFINE m == Packet(n, x, "AUTH_ACK", to)
<1>1. n \in Node /\ n \notin Contender BY FailoverAssumption DEF Node, Contender
<1>2. m.type = "AUTH_ACK" /\ m.from = n /\ m.to = to BY <1>1, PacketType
<1>3. MasterOf(x, n) = n BY <1>1 DEF MasterOf, NodeIsMaster
<1>4. x.owner # n BY <1>1, FailoverAssumption DEF NodeState
<1>5. ~ m.slots /\ m.configEpoch = 0 /\ m.slaveof = NULL BY <1>1, <1>3, <1>4, Zenon DEF Packet
<1> HIDE DEF m
<1>6. OutdonePacket(m) BY <1>2, <1>5 DEF OutdonePacket
<1> QED BY <1>6 DEF m

\* clusterBeforeSleep: the epochs of the tables and of the files.
LEMMA OutdoneStep ==
  ASSUME Tables, OutdoneTables, NEW n \in Node, NEW y, Table(y), Outdone(n, y),
         st' = [st EXCEPT ![n] = [y EXCEPT !.todo = FALSE]],
         \A k \in MayRestart : disk'[k] = disk[k] \/ (k = n /\ disk'[k] = Persistent(y))
  PROVE  OutdoneTables'
<1> DEFINE z == [y EXCEPT !.todo = FALSE]
<1>1. st \in [Node -> NodeState] /\ y \in NodeState BY DEF Tables, Table
<1>2. /\ z.currentEpoch = y.currentEpoch /\ z.configEpoch = y.configEpoch /\ z.owner = y.owner
  BY <1>1 DEF NodeState
<1>3. /\ Persistent(y).currentEpoch = y.currentEpoch /\ Persistent(y).configEpoch = y.configEpoch
      /\ Persistent(y).owner = y.owner
  BY DEF Persistent
<1>4. st'[n] = z /\ \A k \in Node \ {n} : st'[k] = st[k] BY <1>1
<1> HIDE DEF z
<1>5. Outdone(n, z) /\ Outdone(n, Persistent(y)) BY <1>2, <1>3 DEF Outdone
<1>6. \A k \in Node : Outdone(k, st'[k]) BY <1>4, <1>5, Zenon DEF OutdoneTables
<1>7. \A k \in MayRestart : Outdone(k, disk'[k]) BY <1>5 DEF OutdoneTables
<1> QED BY <1>6, <1>7, Zenon DEF OutdoneTables

\* OneAttempt, when the packets of elections become fewer.
LEMMA SameAttempts ==
  ASSUME OneAttempt, NEW n \in Node, \A k \in Node \ {n} : st'[k] = st[k],
         st'[n].phase = st[n].phase, st'[n].authSent = st[n].authSent,
         st'[n].authEpoch = st[n].authEpoch,
         \A u \in net' : u.type \in {"AUTH_REQUEST", "AUTH_ACK"} => u \in net
  PROVE  OneAttempt'
<1>1. \A k \in Slave : AuthUnderWay(k)' \subseteq AuthUnderWay(k) BY DEF AuthUnderWay
<1>2. \A k \in Slave : /\ st'[k].phase = st[k].phase /\ st'[k].authSent = st[k].authSent
                       /\ st'[k].authEpoch = st[k].authEpoch
  BY DEF Node
<1> QED BY <1>1, <1>2 DEF OneAttempt

\* A slave that took over the slots never votes: the request repeats an older epoch.
LEMMA SlaveVotesNot ==
  ASSUME NEW n \in Slave, NEW x, Table(x), Outdone(n, x), NEW m \in net, m.type = "AUTH_REQUEST",
         OutdonePacket(m)
  PROVE  ~ Grants(n, x, m)
<1> SUFFICES ASSUME Grants(n, x, m) PROVE FALSE OBVIOUS
<1>1. n \in Contender /\ NULL \notin Slave BY Contenders
<1>2. x.owner = n BY <1>1 DEF Grants, ServesSlots
<1>3. m.slots /\ m.configEpoch = 1 BY DEF OutdonePacket
<1>4. x.configEpoch[n] <= 1 BY <1>1, <1>2, <1>3 DEF Grants
<1>5. x.configEpoch[n] >= 2 BY <1>2 DEF Outdone
<1>6. x.configEpoch[n] \in Nat BY <1>1 DEF Table, NodeState
<1> QED BY <1>4, <1>5, <1>6

\* A handler of a master that answers a request.
LEMMA AnswerStep ==
  ASSUME ElectionInv, TableInv', NEW m \in net, m.type = "AUTH_REQUEST", m.to \in Master,
         NEW y, Table(y), Outdone(m.to, y), y.todo = FALSE => Saved(st[m.to], y),
         y.phase = st[m.to].phase, y.authSent = st[m.to].authSent, y.authEpoch = st[m.to].authEpoch,
         BeforeSleep(m.to, y),
         NEW out, Send({m}, out), \A u \in out : OutdonePacket(u) /\ u.type = "AUTH_ACK" /\ u.to = m.from
  PROVE  /\ ElectionInv' /\ \A k \in Node \ {m.to} : st'[k] = st[k]
         /\ st'[m.to].currentEpoch = y.currentEpoch /\ st'[m.to].lastVoteEpoch = y.lastVoteEpoch
         /\ \E sent \in SUBSET out : net' = (net \ {m}) \cup sent
<1> DEFINE n == m.to
<1>1. /\ TableInv /\ Tables /\ OneAttempt /\ OutdoneTables /\ n \in Node /\ n \notin Slave
      /\ m.from \in Slave
  BY FailoverAssumption, ZenonT(30) DEF ElectionInv, TableInv, SlavesAsk, Node
<1> HIDE DEF n
<1>2. /\ Table(y) /\ Outdone(n, y) /\ (y.todo = FALSE => Saved(st[n], y)) /\ BeforeSleep(n, y)
  BY Zenon DEF n
<1>3. /\ Tables' /\ st' = [st EXCEPT ![n] = [y EXCEPT !.todo = FALSE]]
      /\ \A k \in MayRestart : disk'[k] = disk[k] \/ (k = n /\ disk'[k] = Persistent(y))
  BY <1>1, <1>2, BeforeSleepTables, Zenon
<1>4. OutdoneTables' BY <1>1, <1>2, <1>3, OutdoneStep, Zenon
<1>5. PICK sent \in SUBSET out : net' = (net \ {m}) \cup sent BY DEF Send
<1>6. \A u \in net' : OutdonePacket(u) BY <1>5 DEF ElectionInv
<1>7. /\ \A k \in Node \ {n} : st'[k] = st[k]
      /\ st'[n].currentEpoch = y.currentEpoch /\ st'[n].lastVoteEpoch = y.lastVoteEpoch
  BY <1>1, <1>2, <1>3 DEF Tables, Table, NodeState
<1>8. OneAttempt'
  <2> SUFFICES ASSUME NEW k \in Slave
               PROVE  /\ st'[k].phase \in {"retry", "delay"} \/ ~ st'[k].authSent => AuthUnderWay(k)' = {}
                      /\ st'[k].authSent => st'[k].authEpoch >= 2
    BY DEF OneAttempt
  <2>1. st'[k] = st[k] BY <1>1, <1>7 DEF Node
  <2>2. /\ st[k].phase \in {"retry", "delay"} \/ ~ st[k].authSent => AuthUnderWay(k) = {}
        /\ st[k].authSent => st[k].authEpoch >= 2
    BY <1>1 DEF OneAttempt
  <2>3. CASE k = m.from
    <3>1. m \in AuthUnderWay(k) BY <2>3 DEF AuthUnderWay
    <3> QED BY <2>1, <2>2, <3>1
  <2>4. CASE k # m.from
    <3>1. AuthUnderWay(k)' \subseteq AuthUnderWay(k) BY <1>5, <2>4 DEF AuthUnderWay
    <3> QED BY <2>1, <2>2, <3>1
  <2> QED BY <2>3, <2>4
<1>9. ElectionInv' BY <1>4, <1>6, <1>8 DEF ElectionInv
<1> QED BY <1>5, <1>7, <1>9 DEF n

\* The promotion of a slave, and the packets that announce it.
LEMMA PromotedOutdone ==
  ASSUME CutOff, NEW n \in Slave, NEW x, Table(x), Outdone(n, x), x.authEpoch >= 2
  PROVE  /\ Outdone(n, Promoted(n, x))
         /\ \A u \in Broadcast(n, Promoted(n, x), "PING") : OutdonePacket(u) /\ u.type = "PING"
<1> DEFINE y == Promoted(n, x)
<1>0. IsPromoted(n, x, y) BY PromotedTable
<1> HIDE DEF y
<1>1. /\ Table(y) /\ y.owner \in {n, x.owner} /\ y.currentEpoch = x.currentEpoch
      /\ y.configEpoch[n] >= x.authEpoch
      /\ \A k \in Contender \ {n} : y.configEpoch[k] = x.configEpoch[k]
  BY <1>0 DEF IsPromoted
<1>2. n \in Node /\ n \in Contender /\ n # Failing BY Contenders
<1> HIDE DEF y
<1>3. y \in NodeState /\ x.authEpoch \in Nat /\ y.configEpoch[n] \in Nat
  BY <1>1, <1>2 DEF Table, NodeState
<1>4. y.configEpoch[n] >= 2 /\ y.configEpoch[n] # 1 BY <1>1, <1>3
<1>5. y.configEpoch[Failing] = 1 /\ y.currentEpoch >= 1
  BY <1>1, <1>2, Contenders DEF Outdone
<1>6. Outdone(n, y)
  <2>1. y.owner \in Slave => y.configEpoch[y.owner] >= 2
    BY <1>1, <1>2, <1>4 DEF Outdone, Contender
  <2> QED BY <1>4, <1>5, <2>1 DEF Outdone
<1>7. ASSUME NEW u \in Broadcast(n, y, "PING") PROVE OutdonePacket(u) /\ u.type = "PING"
  <2>1. u.type = "PING" /\ u.to \in Reach \ {n} /\ u = Packet(n, y, "PING", u.to)
    BY <1>2, <1>3, BroadcastType
  <2>2. u.to \in Node /\ u.to # Failing BY <2>1, FailoverAssumption DEF CutOff
  <2>3. OutdonePacket(Packet(n, y, "PING", u.to))
    BY <1>2, <1>3, <1>6, <2>1, <2>2, HeartbeatPacket
  <2> QED BY <2>1, <2>3
<1> QED BY <1>6, <1>7 DEF y

\* A handler of a slave that leaves its attempt where it is.
Stood(n, y, consumed, out) ==
  /\ ElectionInv' /\ \A k \in Node \ {n} : st'[k] = st[k]
  /\ st'[n].currentEpoch = y.currentEpoch /\ st'[n].authCount = y.authCount
  /\ st'[n].authSent = st[n].authSent /\ st'[n].authEpoch = st[n].authEpoch
  /\ \E sent \in SUBSET out : net' = (net \ consumed) \cup sent

\* Such a handler preserves the invariant.
LEMMA StandingStep ==
  ASSUME ElectionInv, TableInv', NEW n \in Slave, NEW y, Table(y), Outdone(n, y),
         y.todo = FALSE => Saved(st[n], y), y.phase = st[n].phase,
         y.authSent = st[n].authSent, y.authEpoch = st[n].authEpoch, BeforeSleep(n, y),
         NEW consumed, NEW out, Send(consumed, out),
         \A u \in out : OutdonePacket(u) /\ u.type = "PING"
  PROVE  Stood(n, y, consumed, out)
<1>1. /\ TableInv /\ Tables /\ OneAttempt /\ OutdoneTables /\ n \in Node
  BY Contenders, Zenon DEF ElectionInv, TableInv
<1>2. /\ Tables' /\ st' = [st EXCEPT ![n] = [y EXCEPT !.todo = FALSE]]
      /\ \A k \in MayRestart : disk'[k] = disk[k] \/ (k = n /\ disk'[k] = Persistent(y))
  BY <1>1, BeforeSleepTables, Zenon
<1>3. OutdoneTables' BY <1>1, <1>2, OutdoneStep, Zenon
<1>4. PICK sent \in SUBSET out : net' = (net \ consumed) \cup sent BY DEF Send
<1>5. \A u \in net' : OutdonePacket(u) BY <1>4 DEF ElectionInv
<1>6. /\ \A k \in Node \ {n} : st'[k] = st[k]
      /\ st'[n].currentEpoch = y.currentEpoch /\ st'[n].authCount = y.authCount
      /\ st'[n].authSent = y.authSent /\ st'[n].authEpoch = y.authEpoch /\ st'[n].phase = y.phase
  BY <1>1, <1>2 DEF Tables, Table, NodeState
<1>7. OneAttempt' BY <1>1, <1>4, <1>6, SameAttempts
<1>8. ElectionInv' BY <1>3, <1>5, <1>7, Zenon DEF ElectionInv
<1> QED BY <1>4, <1>6, <1>8 DEF Stood
=============================================================================
