------------------------- MODULE ReplicationProofs --------------------------
(* The handlers of a replica preserve the invariant: those that open and close its          *)
(* connection, those that read its master's replies; and the theorems on Replication.       *)
EXTENDS ReplicationServing

\* Both provers are given 15 seconds for a leaf.
USE SMTT(15), ZenonT(15)

-----------------------------------------------------------------------------
(* The connection is closed *)

\* The fields the handlers of n change, beside the connections.
OnlyOwn(n) ==
  /\ \A s \in Node \ {n} : /\ state'[s] = state[s] /\ cached'[s] = cached[s]
                           /\ initial'[s] = initial[s] /\ master'[s] = master[s]
                           /\ host'[s] = host[s]

\* n gives up its connection and will connect again.
LEMMA LinkClosed ==
  ASSUME Inv, NEW n \in Node, CloseLink(n), OnlyOwn(n), state[n] # "none",
         state' = [state EXCEPT ![n] = "connect"],
         master' \in [Node -> Master \cup {None}], master'[n] = None,
         cached' \in [Node -> Master \cup {None}], initial' \in [Node -> Initial \cup {None}],
         data' \in [Node -> Dataset], pings' \in Nat, saves' \in Nat, faults' \in Nat,
         commands' \in Nat, restarts' \in Nat,
         UNCHANGED <<identity, host, child, ids, writes>>
  PROVE  Inv'
<1>1. TypeOK /\ RepliesInOrder /\ AssertionsHold BY DEF Inv
<1>2. child' = child /\ host' = host /\ backlog' = backlog BY DEF identity
<1>3. /\ slaves' \in [Node -> [Node -> Slave \cup {None}]]
      /\ link' \in [Node -> Link \cup {None}]
      /\ link'[n] = None /\ \A s \in Node \ {n} : link'[s] = link[s]
      /\ \A m \in Node : slaves'[m] # NoSlaves => slaves[m] # NoSlaves
      /\ RepliesInOrder'
  BY <1>1, <1>2, CloseLinkStep DEF OnlyOwn
<1>4. state' \in [Node -> ReplState] /\ state'[n] = "connect" BY <1>1 DEF TypeOK, ReplState
<1>5. TypeOK' BY <1>1, <1>3, <1>4 DEF TypeOK, identity
<1>6. ASSUME NEW a \in Node
      PROVE  /\ slaves'[a] # NoSlaves => backlog'[a] # None
             /\ host'[a] = None <=> state'[a] = "none"
             /\ master'[a] # None <=> state'[a] = "connected"
             /\ state'[a] \in {"connected", "transfer", "none"} => cached'[a] = None
             /\ link'[a] # None <=> state'[a] \in {"connecting", "receive_psync", "transfer", "connected"}
  <2>1. CASE a = n BY <1>1, <1>2, <1>3, <1>4, <2>1 DEF AssertionsHold
  <2>2. CASE a # n BY <1>1, <1>2, <1>3, <2>2 DEF AssertionsHold, OnlyOwn
  <2> QED BY <2>1, <2>2
<1>7. AssertionsHold' BY <1>6 DEF AssertionsHold
<1> QED BY <1>3, <1>5, <1>7 DEF Inv

\* Reading -NOMASTERLINK preserves the invariant.
LEMMA ReceiveTryLaterInv ==
  ASSUME Inv, NEW n \in Node, ReceiveTryLater(n)
  PROVE  Inv'
<1>1. /\ state[n] = "receive_psync" /\ state' = [state EXCEPT ![n] = "connect"] /\ CloseLink(n)
      /\ UNCHANGED <<data, identity, host, master, cached, initial, child, ids, writes, bounds>>
  BY DEF ReceiveTryLater
<1>2. TypeOK /\ AssertionsHold BY DEF Inv
<1>3. OnlyOwn(n) BY <1>1, <1>2 DEF OnlyOwn, TypeOK
<1>4. master[n] = None BY <1>1, <1>2 DEF AssertionsHold
<1>5. /\ master' \in [Node -> Master \cup {None}] /\ master'[n] = None
      /\ cached' \in [Node -> Master \cup {None}] /\ initial' \in [Node -> Initial \cup {None}]
      /\ data' \in [Node -> Dataset] /\ pings' \in Nat /\ saves' \in Nat /\ faults' \in Nat
      /\ commands' \in Nat /\ restarts' \in Nat
  BY <1>1, <1>2, <1>4 DEF TypeOK, bounds
<1> QED BY <1>1, <1>3, <1>5, LinkClosed, Zenon

\* A payload that rdbLoad refuses preserves the invariant.
LEMMA LoadFailedInv ==
  ASSUME Inv, NEW n \in Node, LoadFailed(n)
  PROVE  Inv'
<1>1. /\ state[n] = "transfer" /\ state' = [state EXCEPT ![n] = "connect"] /\ CloseLink(n)
      /\ faults' = faults + 1 /\ data' = [data EXCEPT ![n] = <<>>]
      /\ initial' = [initial EXCEPT ![n] = None]
      /\ UNCHANGED <<identity, host, master, cached, child, ids, writes, pings, saves, commands,
                     restarts>>
  BY DEF LoadFailed
<1>2. TypeOK /\ AssertionsHold BY DEF Inv
<1>3. OnlyOwn(n) BY <1>1, <1>2 DEF OnlyOwn, TypeOK
<1>4. master[n] = None BY <1>1, <1>2 DEF AssertionsHold
<1>5. data' \in [Node -> Dataset]
  <2>1. <<>> \in Dataset BY DEF Dataset
  <2> QED BY <1>1, <1>2, <2>1 DEF TypeOK
<1>6. /\ master' \in [Node -> Master \cup {None}] /\ master'[n] = None
      /\ cached' \in [Node -> Master \cup {None}] /\ initial' \in [Node -> Initial \cup {None}]
      /\ pings' \in Nat /\ saves' \in Nat /\ faults' \in Nat
      /\ commands' \in Nat /\ restarts' \in Nat
  BY <1>1, <1>2, <1>4 DEF TypeOK
<1> QED BY <1>1, <1>3, <1>5, <1>6, LinkClosed, Zenon

\* cancelReplicationHandshake preserves the invariant.
LEMMA CancelHandshakeInv ==
  ASSUME Inv, NEW n \in Node, CancelHandshake(n)
  PROVE  Inv'
<1>1. /\ state[n] \in HandshakeStates /\ state' = [state EXCEPT ![n] = "connect"] /\ CloseLink(n)
      /\ faults' = faults \/ faults' = faults + 1
      /\ initial' = [initial EXCEPT ![n] = None]
      /\ UNCHANGED <<data, identity, host, master, cached, child, ids, writes, pings, saves,
                     commands, restarts>>
  BY DEF CancelHandshake
<1>2. TypeOK /\ AssertionsHold BY DEF Inv
<1>3. OnlyOwn(n) BY <1>1, <1>2 DEF OnlyOwn, TypeOK
<1>4. master[n] = None /\ state[n] # "none" BY <1>1, <1>2 DEF AssertionsHold, HandshakeStates
<1>5. /\ master' \in [Node -> Master \cup {None}] /\ master'[n] = None
      /\ cached' \in [Node -> Master \cup {None}] /\ initial' \in [Node -> Initial \cup {None}]
      /\ data' \in [Node -> Dataset] /\ pings' \in Nat /\ saves' \in Nat /\ faults' \in Nat
      /\ commands' \in Nat /\ restarts' \in Nat
  BY <1>1, <1>2, <1>4 DEF TypeOK
<1> QED BY <1>1, <1>3, <1>4, <1>5, LinkClosed, Zenon

\* replicationCacheMaster on a lost link preserves the invariant.
LEMMA MasterLinkLostInv ==
  ASSUME Inv, NEW n \in Node, MasterLinkLost(n)
  PROVE  Inv'
<1>1. /\ state[n] = "connected" /\ state' = [state EXCEPT ![n] = "connect"] /\ CloseLink(n)
      /\ faults' = faults \/ faults' = faults + 1
      /\ cached' = [cached EXCEPT ![n] = master[n]] \/ cached' = [cached EXCEPT ![n] = @]
      /\ master' = [master EXCEPT ![n] = None]
      /\ UNCHANGED <<data, identity, host, initial, child, ids, writes, pings, saves, commands,
                     restarts>>
  BY Zenon DEF MasterLinkLost
<1>2. TypeOK BY DEF Inv
<1>3. OnlyOwn(n) BY <1>1, <1>2 DEF OnlyOwn, TypeOK
<1>4. /\ master' \in [Node -> Master \cup {None}] /\ master'[n] = None
      /\ cached' \in [Node -> Master \cup {None}]
  BY <1>1, <1>2 DEF TypeOK
<1>5. /\ initial' \in [Node -> Initial \cup {None}]
      /\ data' \in [Node -> Dataset] /\ pings' \in Nat /\ saves' \in Nat /\ faults' \in Nat
      /\ commands' \in Nat /\ restarts' \in Nat
  BY <1>1, <1>2 DEF TypeOK
<1> QED BY <1>1, <1>3, <1>4, <1>5, LinkClosed, Zenon

-----------------------------------------------------------------------------
(* A new role *)

\* The replicas in server.slaves are connected.
LEMMA SocketsConnected ==
  ASSUME Inv, NEW n \in Node
  PROVE  Sockets(slaves[n]) \in SUBSET Connected(n)
BY SocketsLinked, NoneAssumption DEF Connected, Inv

\* n drops its connections and takes host h.
LEMMA NewRole ==
  ASSUME Inv, NEW n \in Node, NEW S \in SUBSET Connected(n), DropConnections(n, S), OnlyOwn(n),
         NEW h \in Node \cup {None},
         host' = [host EXCEPT ![n] = h],
         state' = [state EXCEPT ![n] = IF h = None THEN "none" ELSE "connect"],
         master' = [master EXCEPT ![n] = None], initial' = [initial EXCEPT ![n] = None],
         cached' \in [Node -> Master \cup {None}], h = None => cached'[n] = None,
         child' = child \/ child' = [child EXCEPT ![n] = None],
         backlog' = backlog \/ backlog' = [backlog EXCEPT ![n] = None],
         seldb' = seldb \/ seldb' = [seldb EXCEPT ![n] = -1],
         data' = data, writes' = writes,
         replid' \in [Node -> Id], replid2' \in [Node -> Id \cup {None}],
         secondoff' \in [Node -> Int], offset' \in [Node -> Int], ids' \in [Node -> Nat],
         pings' = pings, saves' = saves, faults' = faults, commands' \in Nat, restarts' \in Nat
  PROVE  Inv'
<1>1. TypeOK /\ RepliesInOrder /\ AssertionsHold BY DEF Inv
<1>2. /\ slaves' \in [Node -> [Node -> Slave \cup {None}]]
      /\ link' \in [Node -> Link \cup {None}]
      /\ link'[n] = None /\ \A s \in Node \ {n} : link'[s] # None <=> link[s] # None
      /\ slaves'[n] = NoSlaves
      /\ \A m \in Node : slaves'[m] # NoSlaves => slaves[m] # NoSlaves
      /\ RepliesInOrder'
  BY <1>1, DropConnectionsStep DEF OnlyOwn
<1>3. /\ state' \in [Node -> ReplState] /\ host' \in [Node -> Node \cup {None}]
      /\ master' \in [Node -> Master \cup {None}] /\ initial' \in [Node -> Initial \cup {None}]
  BY <1>1 DEF TypeOK, ReplState
<1>4. child' \in [Node -> Child \cup {None}] /\ backlog' \in [Node -> Backlog \cup {None}]
  BY <1>1, Zenon DEF TypeOK
<1>5. seldb' \in [Node -> SelDB] BY <1>1 DEF TypeOK, SelDB
<1>6. TypeOK' BY <1>1, <1>2, <1>3, <1>4, <1>5 DEF TypeOK
<1>7. /\ host'[n] = h /\ state'[n] = (IF h = None THEN "none" ELSE "connect") /\ master'[n] = None
      /\ \A a \in Node \ {n} : backlog'[a] = backlog[a]
  BY <1>1 DEF TypeOK
<1>8. ASSUME NEW a \in Node
      PROVE  /\ slaves'[a] # NoSlaves => backlog'[a] # None
             /\ host'[a] = None <=> state'[a] = "none"
             /\ master'[a] # None <=> state'[a] = "connected"
             /\ state'[a] \in {"connected", "transfer", "none"} => cached'[a] = None
             /\ link'[a] # None <=> state'[a] \in {"connecting", "receive_psync", "transfer", "connected"}
  <2>1. CASE a = n BY <1>2, <1>7, <2>1
  <2>2. CASE a # n
    <3>1. /\ state'[a] = state[a] /\ cached'[a] = cached[a] /\ master'[a] = master[a]
          /\ host'[a] = host[a] /\ backlog'[a] = backlog[a]
      BY <1>7, <2>2 DEF OnlyOwn
    <3>2. slaves'[a] # NoSlaves => slaves[a] # NoSlaves BY <1>2
    <3>3. link'[a] # None <=> link[a] # None BY <1>2, <2>2
    <3> QED BY <1>1, <3>1, <3>2, <3>3 DEF AssertionsHold
  <2> QED BY <2>1, <2>2
<1>9. AssertionsHold' BY <1>8 DEF AssertionsHold
<1> QED BY <1>2, <1>6, <1>9 DEF Inv

\* SLAVEOF host port (replicationSetMaster) preserves the invariant.
LEMMA ReplicationSetMasterInv ==
  ASSUME Inv, NEW n \in Node, NEW h \in Node, ReplicationSetMaster(n, h)
  PROVE  Inv'
<1> DEFINE self == [replid |-> replid[n], reploff |-> offset[n], db |-> 0]
           c == IF host[n] = None THEN self ELSE IF master[n] # None THEN master[n] ELSE cached[n]
<1>1. /\ commands' = commands + 1 /\ host' = [host EXCEPT ![n] = h]
      /\ cached' = [cached EXCEPT ![n] = c] /\ master' = [master EXCEPT ![n] = None]
      /\ state' = [state EXCEPT ![n] = "connect"] /\ initial' = [initial EXCEPT ![n] = None]
      /\ DropConnections(n, Sockets(slaves[n]))
      /\ UNCHANGED <<data, identity, child, ids, writes, pings, saves, faults, restarts>>
  BY DEF ReplicationSetMaster
<1>2. TypeOK BY DEF Inv
<1>3. self \in Master
  <2>1. replid[n] \in Id /\ offset[n] \in Int /\ 0 \in DB BY <1>2, ConstantsAssumption DEF TypeOK
  <2> QED BY <2>1 DEF Master
<1> HIDE DEF self
<1>4. c \in Master \cup {None} BY <1>2, <1>3 DEF TypeOK
<1> HIDE DEF c
<1>5. OnlyOwn(n) /\ cached' \in [Node -> Master \cup {None}]
  BY <1>1, <1>2, <1>4 DEF OnlyOwn, TypeOK
<1>6. h # None /\ h \in Node \cup {None} BY NoneAssumption
<1>7. state' = [state EXCEPT ![n] = IF h = None THEN "none" ELSE "connect"] BY <1>1, <1>6
<1>8. /\ replid' \in [Node -> Id] /\ replid2' \in [Node -> Id \cup {None}]
      /\ secondoff' \in [Node -> Int] /\ offset' \in [Node -> Int] /\ ids' \in [Node -> Nat]
      /\ commands' \in Nat /\ restarts' \in Nat
  BY <1>1, <1>2 DEF TypeOK, identity
<1>9. /\ child' = child /\ backlog' = backlog /\ seldb' = seldb /\ data' = data /\ writes' = writes
      /\ pings' = pings /\ saves' = saves /\ faults' = faults
  BY <1>1 DEF identity
<1> QED BY <1>1, <1>5, <1>6, <1>7, <1>8, <1>9, SocketsConnected, NewRole, Zenon

\* changeReplicationId draws an id.
LEMMA FreshIdType ==
  ASSUME TypeOK, NEW n \in Node
  PROVE  /\ [replid EXCEPT ![n] = FreshId(n)] \in [Node -> Id]
         /\ [ids EXCEPT ![n] = @ + 1] \in [Node -> Nat]
<1>1. FreshId(n) \in Id BY DEF FreshId, Id, TypeOK
<1>2. replid \in [Node -> Id] /\ ids \in [Node -> Nat] BY DEF TypeOK
<1> QED BY <1>1, <1>2

\* SLAVEOF NO ONE (replicationUnsetMaster) preserves the invariant.
LEMMA ReplicationUnsetMasterInv ==
  ASSUME Inv, NEW n \in Node, ReplicationUnsetMaster(n)
  PROVE  Inv'
<1>1. /\ commands' = commands + 1 /\ host' = [host EXCEPT ![n] = None]
      /\ replid2' = [replid2 EXCEPT ![n] = replid[n]]
      /\ secondoff' = [secondoff EXCEPT ![n] = offset[n] + 1]
      /\ replid' = [replid EXCEPT ![n] = FreshId(n)] /\ ids' = [ids EXCEPT ![n] = @ + 1]
      /\ master' = [master EXCEPT ![n] = None] /\ cached' = [cached EXCEPT ![n] = None]
      /\ initial' = [initial EXCEPT ![n] = None] /\ state' = [state EXCEPT ![n] = "none"]
      /\ seldb' = [seldb EXCEPT ![n] = -1] /\ DropConnections(n, Sockets(slaves[n]))
      /\ UNCHANGED <<data, offset, backlog, child, writes, pings, saves, faults, restarts>>
  BY DEF ReplicationUnsetMaster
<1>2. TypeOK BY DEF Inv
<1>3. OnlyOwn(n) /\ cached' \in [Node -> Master \cup {None}] /\ cached'[n] = None
  BY <1>1, <1>2 DEF OnlyOwn, TypeOK
<1>4. replid' \in [Node -> Id] /\ ids' \in [Node -> Nat] BY <1>1, <1>2, FreshIdType
<1>5. replid2' \in [Node -> Id \cup {None}] /\ secondoff' \in [Node -> Int] /\ offset' \in [Node -> Int]
  BY <1>1, <1>2 DEF TypeOK
<1>6. commands' \in Nat /\ restarts' \in Nat BY <1>1, <1>2 DEF TypeOK
<1>7. state' = [state EXCEPT ![n] = IF None = None THEN "none" ELSE "connect"] BY <1>1
<1>8. None \in Node \cup {None} OBVIOUS
<1> QED BY <1>1, <1>3, <1>4, <1>5, <1>6, <1>7, <1>8, SocketsConnected, NewRole, Zenon

\* A restart that loads the append only file preserves the invariant.
LEMMA RestartFromAofInv ==
  ASSUME Inv, NEW n \in Node, RestartFromAof(n)
  PROVE  Inv'
<1>1. PICK h \in {None, host[n]} : Startup(n, h) BY DEF RestartFromAof
<1>2. /\ replid' = [replid EXCEPT ![n] = FreshId(n)] /\ ids' = [ids EXCEPT ![n] = @ + 1]
      /\ offset' = [offset EXCEPT ![n] = 0] /\ cached' = [cached EXCEPT ![n] = None]
      /\ data' = data
  BY DEF RestartFromAof
<1>3. /\ restarts' = restarts + 1 /\ host' = [host EXCEPT ![n] = h]
      /\ state' = [state EXCEPT ![n] = IF h = None THEN "none" ELSE "connect"]
      /\ replid2' = [replid2 EXCEPT ![n] = None] /\ secondoff' = [secondoff EXCEPT ![n] = -1]
      /\ backlog' = [backlog EXCEPT ![n] = None] /\ seldb' = [seldb EXCEPT ![n] = -1]
      /\ master' = [master EXCEPT ![n] = None] /\ initial' = [initial EXCEPT ![n] = None]
      /\ child' = [child EXCEPT ![n] = None] /\ DropConnections(n, Connected(n))
      /\ UNCHANGED <<writes, pings, saves, faults, commands>>
  BY <1>1 DEF Startup
<1>4. TypeOK /\ h \in Node \cup {None} BY DEF Inv, TypeOK
<1>5. OnlyOwn(n) /\ cached' \in [Node -> Master \cup {None}] /\ cached'[n] = None
  BY <1>2, <1>3, <1>4 DEF OnlyOwn, TypeOK
<1>6. replid' \in [Node -> Id] /\ ids' \in [Node -> Nat] BY <1>2, <1>4, FreshIdType
<1>7. replid2' \in [Node -> Id \cup {None}] /\ secondoff' \in [Node -> Int] /\ offset' \in [Node -> Int]
  BY <1>2, <1>3, <1>4 DEF TypeOK
<1>8. commands' \in Nat /\ restarts' \in Nat BY <1>3, <1>4 DEF TypeOK
<1>9. Connected(n) \in SUBSET Connected(n) OBVIOUS
<1> QED BY <1>2, <1>3, <1>4, <1>5, <1>6, <1>7, <1>8, <1>9, NewRole, Zenon

-----------------------------------------------------------------------------
(* The connection is opened *)

\* n opens its connection or sends its request; no client stands for it yet.
LEMMA OpenStep ==
  ASSUME Inv, NEW n \in Node, link' \in [Node -> Link \cup {None}],
         \A s \in Node \ {n} : link'[s] = link[s], link'[n] # None, LinkOrder(n)',
         link[n] = None \/ state[n] = "connecting",
         NEW st \in {"connecting", "receive_psync"}, state' = [state EXCEPT ![n] = st],
         state[n] \in {"connect", "connecting"},
         UNCHANGED <<data, identity, host, master, cached, initial, slaves, child, ids, writes, bounds>>
  PROVE  Inv'
<1>1. TypeOK /\ RepliesInOrder /\ AssertionsHold BY DEF Inv
<1>2. state' \in [Node -> ReplState] /\ state'[n] = st /\ \A s \in Node \ {n} : state'[s] = state[s]
  BY <1>1 DEF TypeOK, ReplState
<1>3. TypeOK' BY <1>1, <1>2 DEF TypeOK, identity, bounds
<1>4. ASSUME NEW a \in Node
      PROVE  /\ slaves'[a] # NoSlaves => backlog'[a] # None
             /\ host'[a] = None <=> state'[a] = "none"
             /\ master'[a] # None <=> state'[a] = "connected"
             /\ state'[a] \in {"connected", "transfer", "none"} => cached'[a] = None
             /\ link'[a] # None <=> state'[a] \in {"connecting", "receive_psync", "transfer", "connected"}
  <2>1. CASE a = n BY <1>1, <1>2, <2>1, Zenon DEF AssertionsHold, identity
  <2>2. CASE a # n BY <1>1, <1>2, <2>2 DEF AssertionsHold, identity
  <2> QED BY <2>1, <2>2, ZenonT(30)
<1>5. AssertionsHold' BY <1>4 DEF AssertionsHold
<1>6. ASSUME NEW s \in Node, link'[s] # None PROVE LinkOrder(s)'
  <2>1. CASE s = n BY <2>1
  <2>2. CASE s # n
    <3>1. LinkOrder(s) BY <1>1, <1>6, <2>2 DEF RepliesInOrder
    <3> QED BY <1>2, <2>2, <3>1, FrameOrder
  <2> QED BY <2>1, <2>2
<1>7. ASSUME NEW m \in Node, NEW s \in Node, slaves[m][s] # None, slaves[m][s].sock
      PROVE  ClientOrder(m, s)'
  <2>1. ClientOrder(m, s) BY <1>1, <1>7 DEF RepliesInOrder
  <2>2. s # n
    <3> SUFFICES ASSUME s = n PROVE FALSE OBVIOUS
    <3>1. state[n] = "connecting" BY <2>1 DEF ClientOrder
    <3>2. ~AwaitsReply(n) /\ ~AwaitsPayload(n) /\ ~FollowsStream(n)
      BY <3>1 DEF AwaitsReply, AwaitsPayload, FollowsStream
    <3>3. slaves[m][n].st \in {"wait_bgsave_start", "wait_bgsave_end", "send_bulk", "online"}
      <4>1. slaves[m][n] \in Slave BY <1>1, <1>7 DEF TypeOK
      <4> QED BY <4>1 DEF Slave
    <3> QED BY <2>1, <3>2, <3>3 DEF ClientOrder
  <2>3. Keeps(s) BY <1>2, <2>1, <2>2, FrameKeeps DEF ClientOrder
  <2> QED BY <2>1, <2>3, KeepOrder
<1>8. RepliesInOrder' BY <1>1, <1>6, <1>7 DEF RepliesInOrder
<1> QED BY <1>3, <1>5, <1>8 DEF Inv

\* connectWithMaster preserves the invariant.
LEMMA ConnectWithMasterInv ==
  ASSUME Inv, NEW n \in Node, ConnectWithMaster(n)
  PROVE  Inv'
<1> DEFINE l == [peer |-> host[n], open |-> TRUE, req |-> None, q |-> <<>>]
<1>1. /\ state[n] = "connect" /\ state' = [state EXCEPT ![n] = "connecting"]
      /\ link' = [link EXCEPT ![n] = l]
      /\ UNCHANGED <<data, identity, host, master, cached, initial, slaves, child, ids, writes, bounds>>
  BY DEF ConnectWithMaster
<1>2. TypeOK /\ AssertionsHold BY DEF Inv
<1>3. host[n] \in Node /\ link[n] = None BY <1>1, <1>2, Zenon DEF AssertionsHold, TypeOK
<1>4. l \in Link /\ l.req = None /\ l.q = <<>>
  <2>1. <<>> \in Seq(Message) OBVIOUS
  <2> QED BY <1>3, <2>1 DEF Link
<1>5. l # None BY <1>4, NoneAssumption, Zenon
<1> HIDE DEF l
<1>6. link' \in [Node -> Link \cup {None}] /\ link'[n] = l /\ \A s \in Node \ {n} : link'[s] = link[s]
  BY <1>1, <1>2, <1>4 DEF TypeOK
<1>7. LinkOrder(n)'
  <2>1. state'[n] = "connecting" BY <1>1, <1>2 DEF TypeOK
  <2> QED BY <1>4, <1>6, <2>1 DEF LinkOrder
<1> QED BY <1>1, <1>3, <1>5, <1>6, <1>7, OpenStep, Zenon

\* Sending PSYNC (slaveTryPartialResynchronization) preserves the invariant.
LEMMA SendPsyncInv ==
  ASSUME Inv, NEW n \in Node, SendPsync(n)
  PROVE  Inv'
<1> DEFINE r == IF cached[n] # None THEN [replid |-> cached[n].replid, off |-> cached[n].reploff + 1]
                ELSE [replid |-> None, off |-> -1]
           l == [link[n] EXCEPT !.req = r]
<1>1. /\ state[n] = "connecting" /\ state' = [state EXCEPT ![n] = "receive_psync"]
      /\ link' = [link EXCEPT ![n].req = r]
      /\ UNCHANGED <<data, identity, host, master, cached, initial, slaves, child, ids, writes, bounds>>
  BY DEF SendPsync
<1>2. TypeOK /\ AssertionsHold /\ RepliesInOrder BY DEF Inv
<1>3. link \in [Node -> Link \cup {None}] /\ link[n] # None BY <1>1, <1>2 DEF AssertionsHold, TypeOK
<1>4. link[n] \in Link /\ link[n].q = <<>>
  <2>1. LinkOrder(n) BY <1>2, <1>3 DEF RepliesInOrder
  <2> QED BY <1>1, <1>3, <2>1 DEF LinkOrder, AwaitsReply, AwaitsPayload, FollowsStream, Refused
<1>5. r \in Psync /\ (r.replid # None => cached[n] # None)
  <2>1. CASE cached[n] # None
    <3>1. cached[n] \in Master BY <1>2, <2>1 DEF TypeOK
    <3>2. cached[n].replid \in Id /\ cached[n].reploff + 1 \in Int BY <3>1 DEF Master
    <3>3. [replid |-> cached[n].replid, off |-> cached[n].reploff + 1] \in Psync
      BY <3>2 DEF Psync
    <3> QED BY <2>1, <3>3
  <2>2. CASE cached[n] = None
    <3>1. [replid |-> None, off |-> -1] \in Psync BY DEF Psync
    <3> QED BY <2>2, <3>1
  <2> QED BY <2>1, <2>2
<1> HIDE DEF r
<1>6. l \in Link /\ l.req = r /\ l.q = <<>> BY <1>4, <1>5 DEF Link
<1>7. l # None BY <1>6, NoneAssumption
<1>8. link' = [link EXCEPT ![n] = l] BY <1>1, <1>3
<1> HIDE DEF l
<1>9. link' \in [Node -> Link \cup {None}] /\ link'[n] = l /\ \A s \in Node \ {n} : link'[s] = link[s]
  BY <1>3, <1>6, <1>8
<1>10. LinkOrder(n)'
  <2>1. state'[n] = "receive_psync" /\ cached' = cached BY <1>1, <1>2 DEF TypeOK
  <2> QED BY <1>5, <1>6, <1>9, <2>1 DEF LinkOrder, AwaitsReply
<1> QED BY <1>1, <1>7, <1>9, <1>10, OpenStep, Zenon

-----------------------------------------------------------------------------
(* The replies of the master *)

\* Reading the first message of the connection.
LEMMA FirstMessage ==
  ASSUME Inv, NEW n \in Node, Readable(n), Reads(n)
  PROVE  /\ link[n] \in Link /\ link[n].q \in Seq(Message) /\ link[n].q # <<>>
         /\ Head1(n) = link[n].q[1] /\ link[n].q[1] \in Message /\ Len(link[n].q) >= 1
         /\ LinkOrder(n)
         /\ link'[n].q \in Seq(Message) /\ Len(link'[n].q) = Len(link[n].q) - 1
         /\ \A i \in 1..Len(link'[n].q) : link'[n].q[i] = link[n].q[i + 1]
         /\ link'[n].req = link[n].req
         /\ link[n].open = FALSE => link'[n].open = FALSE
<1>1. TypeOK /\ RepliesInOrder BY DEF Inv
<1>2. link[n] \in Link /\ link[n].q \in Seq(Message) /\ link[n].q # <<>>
  BY <1>1 DEF TypeOK, Readable, Link
<1>3. LinkOrder(n) BY <1>1, <1>2, NoneAssumption, Zenon DEF RepliesInOrder
<1>4. /\ Head(link[n].q) = link[n].q[1] /\ link[n].q[1] \in Message /\ Len(link[n].q) >= 1
      /\ Tail(link[n].q) \in Seq(Message) /\ Len(Tail(link[n].q)) = Len(link[n].q) - 1
      /\ \A i \in 1..Len(Tail(link[n].q)) : Tail(link[n].q)[i] = link[n].q[i + 1]
  BY <1>2, TailFacts
<1>5. /\ link'[n].q = Tail(link[n].q) /\ link'[n].req = link[n].req
      /\ link[n].open = FALSE => link'[n].open = FALSE
  BY <1>1, ReadsFacts, Zenon
<1> QED BY <1>2, <1>3, <1>4, <1>5 DEF Head1

\* A replica moves on after a reply or the payload.
LEMMA ReplyRead ==
  ASSUME Inv, NEW n \in Node, Readable(n), Reads(n), OnlyOwn(n),
         state[n] \in {"receive_psync", "transfer"},
         NEW st \in {"transfer", "connected"}, state' = [state EXCEPT ![n] = st],
         cached'[n] = None, master'[n] # None <=> st = "connected",
         slaves'[n] # NoSlaves => backlog'[n] # None,
         \A a \in Node \ {n} : backlog'[a] = backlog[a],
         AwaitsPayload(n) => AwaitsPayload(n)', FollowsStream(n) => FollowsStream(n)',
         LinkOrder(n)',
         data' \in [Node -> Dataset], replid' \in [Node -> Id],
         replid2' \in [Node -> Id \cup {None}], secondoff' \in [Node -> Int],
         offset' \in [Node -> Int], backlog' \in [Node -> Backlog \cup {None}],
         master' \in [Node -> Master \cup {None}], cached' \in [Node -> Master \cup {None}],
         initial' \in [Node -> Initial \cup {None}],
         UNCHANGED <<seldb, host, child, ids, writes, bounds>>
  PROVE  Inv'
<1>1. TypeOK /\ RepliesInOrder /\ AssertionsHold BY DEF Inv
<1>2. child' = child /\ host' = host OBVIOUS
<1>3. link' \in [Node -> Link \cup {None}] /\ slaves' \in [Node -> [Node -> Slave \cup {None}]]
  BY <1>1, ReadsFacts, ZenonT(30)
<1>4. /\ \A s \in Node : link'[s] # None <=> link[s] # None
      /\ \A m \in Node : slaves'[m] # NoSlaves => slaves[m] # NoSlaves
      /\ RepliesInOrder'
  BY <1>1, <1>2, ReadsOrder, Zenon DEF OnlyOwn
<1>5. state' \in [Node -> ReplState] /\ state'[n] = st BY <1>1 DEF TypeOK, ReplState
<1>6. TypeOK' BY <1>1, <1>3, <1>5, Zenon DEF TypeOK, bounds
<1>7. ASSUME NEW a \in Node
      PROVE  /\ slaves'[a] # NoSlaves => backlog'[a] # None
             /\ host'[a] = None <=> state'[a] = "none"
             /\ master'[a] # None <=> state'[a] = "connected"
             /\ state'[a] \in {"connected", "transfer", "none"} => cached'[a] = None
             /\ link'[a] # None <=> state'[a] \in {"connecting", "receive_psync", "transfer", "connected"}
  <2>1. CASE a = n
    <3>1. host[n] # None /\ link[n] # None BY <1>1, ZenonT(30) DEF AssertionsHold
    <3> QED BY <1>2, <1>4, <1>5, <2>1, <3>1, ZenonT(30)
  <2>2. CASE a # n
    <3>1. /\ state'[a] = state[a] /\ cached'[a] = cached[a] /\ master'[a] = master[a]
          /\ backlog'[a] = backlog[a]
      BY <2>2, ZenonT(30) DEF OnlyOwn
    <3>2. slaves'[a] # NoSlaves => slaves[a] # NoSlaves BY <1>4, Zenon
    <3>3. link'[a] # None <=> link[a] # None BY <1>4
    <3> QED BY <1>1, <1>2, <3>1, <3>2, <3>3, ZenonT(30) DEF AssertionsHold
  <2> QED BY <2>1, <2>2, ZenonT(30)
<1>8. AssertionsHold' BY <1>7, Zenon DEF AssertionsHold
<1> QED BY <1>4, <1>6, <1>8 DEF Inv

\* Reading +FULLRESYNC preserves the invariant.
LEMMA ReceiveFullResyncInv ==
  ASSUME Inv, NEW n \in Node, ReceiveFullResync(n)
  PROVE  Inv'
<1> DEFINE q == link[n].q
           i == [replid |-> Head1(n).replid, reploff |-> Head1(n).reploff]
<1>1. /\ state[n] = "receive_psync" /\ Readable(n) /\ Head1(n).t = "fullresync"
      /\ cached' = [cached EXCEPT ![n] = None] /\ initial' = [initial EXCEPT ![n] = i]
      /\ DisconnectSlaves(n) /\ backlog' = [backlog EXCEPT ![n] = None]
      /\ state' = [state EXCEPT ![n] = "transfer"]
      /\ UNCHANGED <<data, replid, replid2, secondoff, offset, seldb, host, master, child, ids,
                     writes, bounds>>
  BY DEF ReceiveFullResync
<1>2. TypeOK /\ AssertionsHold BY DEF Inv
<1>3. Reads(n) BY <1>1 DEF Reads
<1>4. /\ q \in Seq(Message) /\ Head1(n) = q[1] /\ q[1] \in Message /\ Len(q) >= 1
      /\ LinkOrder(n)
      /\ link'[n].q \in Seq(Message) /\ Len(link'[n].q) = Len(q) - 1
      /\ \A k \in 1..Len(link'[n].q) : link'[n].q[k] = q[k + 1]
      /\ link'[n].req = link[n].req
  BY <1>1, <1>3, FirstMessage, Zenon
<1>5. q[1] \in Full /\ q[1] \notin Continue /\ q[1] \notin Refusal BY <1>1, <1>4, MessageKinds
<1>6. i \in Initial
  BY <1>4, <1>5 DEF Full, Initial
<1>7. i # None BY <1>6, NoneAssumption
<1> HIDE DEF i
<1>8. state'[n] = "transfer" /\ initial'[n] = i /\ cached'[n] = None /\ backlog'[n] = None
  BY <1>1, <1>2 DEF TypeOK
<1>9. AwaitsPayload(n) => AwaitsPayload(n)'
  <2>1. AwaitsPayload(n) => Len(q) = 1 BY <1>1, Zenon DEF AwaitsPayload
  <2>2. Len(q) = 1 => link'[n].q = <<>> BY <1>4
  <2> QED BY <1>7, <1>8, <2>1, <2>2 DEF AwaitsPayload
<1>10. FollowsStream(n) => FollowsStream(n)'
  <2> HAVE FollowsStream(n)
  <2>1. Len(q) >= 2 /\ q[2] \in Payload /\ StreamFrom(q, 3) BY <1>1, <1>5 DEF FollowsStream
  <2>2. Len(link'[n].q) >= 1 /\ link'[n].q[1] = q[2]
    <3>1. Len(link'[n].q) \in Nat /\ Len(link'[n].q) = Len(q) - 1 BY <1>4
    <3>2. 1 \in 1..Len(link'[n].q) /\ Len(link'[n].q) >= 1 BY <2>1, <3>1
    <3>3. link'[n].q[1] = q[1 + 1] BY <1>4, <3>2, Zenon
    <3> QED BY <3>2, <3>3
  <2>3. StreamFrom(link'[n].q, 2) BY <1>4, <2>1 DEF StreamFrom
  <2> QED BY <1>7, <1>8, <2>1, <2>2, <2>3 DEF FollowsStream
<1>11. ~Refused(n) BY <1>5 DEF Refused
<1>12. LinkOrder(n)'
  <2>1. ~AwaitsReply(n) BY <1>4 DEF AwaitsReply
  <2> QED BY <1>1, <1>4, <1>9, <1>10, <1>11, <2>1, ZenonT(30) DEF LinkOrder
<1>13. OnlyOwn(n) BY <1>1, <1>2 DEF OnlyOwn, TypeOK
<1>14. slaves'[n] = NoSlaves BY <1>1, <1>2 DEF DisconnectSlaves, TypeOK
<1>15. /\ initial' \in [Node -> Initial \cup {None}] /\ cached' \in [Node -> Master \cup {None}]
       /\ backlog' \in [Node -> Backlog \cup {None}]
       /\ \A a \in Node \ {n} : backlog'[a] = backlog[a]
  BY <1>1, <1>2, <1>6 DEF TypeOK
<1>16. /\ data' \in [Node -> Dataset] /\ replid' \in [Node -> Id]
       /\ replid2' \in [Node -> Id \cup {None}] /\ secondoff' \in [Node -> Int]
       /\ offset' \in [Node -> Int] /\ master' \in [Node -> Master \cup {None}]
  BY <1>1, <1>2 DEF TypeOK
<1>17. master'[n] = None BY <1>1, <1>2, Zenon DEF AssertionsHold
<1> QED BY <1>1, <1>3, <1>8, <1>9, <1>10, <1>12, <1>13, <1>14, <1>15, <1>16, <1>17, ReplyRead, Zenon

\* What follows the message read is the stream.
LEMMA StreamNext ==
  ASSUME NEW p \in Seq(Message), NEW r \in Seq(Message), Len(r) = Len(p) - 1,
         \A k \in 1..Len(r) : r[k] = p[k + 1], StreamFrom(p, 2)
  PROVE  StreamFrom(r, 1)
<1>1. ASSUME NEW k \in 1..Len(r) PROVE r[k] \in Command
  <2>1. k + 1 \in 2..Len(p) BY SMT
  <2> QED BY <2>1 DEF StreamFrom
<1> QED BY <1>1 DEF StreamFrom

\* Reading +CONTINUE (replicationResurrectCachedMaster) preserves the invariant.
LEMMA ReceiveContinueInv ==
  ASSUME Inv, NEW n \in Node, ReceiveContinue(n)
  PROVE  Inv'
<1> DEFINE q == link[n].q
           new == Head1(n).replid
           c == [cached[n] EXCEPT !.replid = new]
<1>1. /\ state[n] = "receive_psync" /\ Readable(n) /\ Head1(n).t = "continue"
      /\ master' = [master EXCEPT ![n] = c] /\ cached' = [cached EXCEPT ![n] = None]
      /\ state' = [state EXCEPT ![n] = "connected"]
      /\ UNCHANGED <<data, offset, backlog, seldb, host, initial, child, ids, writes, bounds>>
  BY DEF ReceiveContinue
<1>2. \/ /\ replid2' = [replid2 EXCEPT ![n] = cached[n].replid]
         /\ secondoff' = [secondoff EXCEPT ![n] = offset[n] + 1]
         /\ replid' = [replid EXCEPT ![n] = new]
         /\ DisconnectSlaves(n)
      \/ /\ link' = Popped(link, n)
         /\ UNCHANGED <<replid, replid2, secondoff, slaves>>
  BY DEF ReceiveContinue
<1>3. TypeOK /\ AssertionsHold BY DEF Inv
<1>4. Reads(n) BY <1>2, Zenon DEF Reads
<1>5. /\ q \in Seq(Message) /\ Head1(n) = q[1] /\ q[1] \in Message /\ Len(q) >= 1
      /\ LinkOrder(n)
      /\ link'[n].q \in Seq(Message) /\ Len(link'[n].q) = Len(q) - 1
      /\ \A k \in 1..Len(link'[n].q) : link'[n].q[k] = q[k + 1]
      /\ link'[n].req = link[n].req
  BY <1>1, <1>4, FirstMessage, Zenon
<1>6. q[1] \in Continue /\ q[1] \notin Full /\ q[1] \notin Refusal BY <1>1, <1>5, MessageKinds
<1>7. ~AwaitsReply(n) /\ ~AwaitsPayload(n) /\ ~Refused(n)
  BY <1>1, <1>5, <1>6 DEF AwaitsReply, AwaitsPayload, Refused
<1>8. link[n].req = None /\ FollowsStream(n) BY <1>1, <1>5, <1>7 DEF LinkOrder
<1>9. cached[n] # None /\ StreamFrom(q, 2) BY <1>1, <1>6, <1>8 DEF FollowsStream
<1>10. cached[n] \in Master /\ new \in Id
  <2>1. cached[n] \in Master BY <1>3, <1>9 DEF TypeOK
  <2>2. new \in Id BY <1>5, <1>6 DEF Continue
  <2> QED BY <2>1, <2>2
<1> HIDE DEF new
<1>11. c \in Master /\ cached[n].replid \in Id BY <1>10 DEF Master
<1>12. c # None BY <1>11, NoneAssumption
<1> HIDE DEF c
<1>13. state'[n] = "connected" /\ cached'[n] = None /\ master'[n] = c BY <1>1, <1>3 DEF TypeOK
<1>14. FollowsStream(n)'
  <2>1. StreamFrom(link'[n].q, 1) BY <1>5, <1>9, StreamNext
  <2> QED BY <1>13, <2>1 DEF FollowsStream
<1>15. LinkOrder(n)' BY <1>5, <1>8, <1>14, Zenon DEF LinkOrder
<1>16. OnlyOwn(n) BY <1>1, <1>3 DEF OnlyOwn, TypeOK
<1>17. slaves'[n] # NoSlaves => backlog'[n] # None
  <2>1. slaves'[n] = NoSlaves \/ slaves' = slaves BY <1>2, <1>3 DEF DisconnectSlaves, TypeOK
  <2> QED BY <1>1, <1>3, <2>1 DEF AssertionsHold
<1>18. /\ replid' \in [Node -> Id] /\ replid2' \in [Node -> Id \cup {None}]
       /\ secondoff' \in [Node -> Int]
  <2>1. /\ replid \in [Node -> Id] /\ replid2 \in [Node -> Id \cup {None}]
        /\ secondoff \in [Node -> Int] /\ offset[n] + 1 \in Int
    BY <1>3 DEF TypeOK
  <2>2. CASE UNCHANGED <<replid, replid2, secondoff>> BY <2>1, <2>2
  <2>3. CASE /\ replid2' = [replid2 EXCEPT ![n] = cached[n].replid]
             /\ secondoff' = [secondoff EXCEPT ![n] = offset[n] + 1]
             /\ replid' = [replid EXCEPT ![n] = new]
    BY <1>10, <1>11, <2>1, <2>3
  <2> QED BY <1>2, <2>2, <2>3
<1>19. /\ cached' \in [Node -> Master \cup {None}] /\ master' \in [Node -> Master \cup {None}]
  BY <1>1, <1>3, <1>11 DEF TypeOK
<1>20. /\ data' \in [Node -> Dataset] /\ offset' \in [Node -> Int]
       /\ initial' \in [Node -> Initial \cup {None}] /\ backlog' \in [Node -> Backlog \cup {None}]
       /\ \A a \in Node \ {n} : backlog'[a] = backlog[a]
  BY <1>1, <1>3 DEF TypeOK
<1> QED
  BY <1>1, <1>4, <1>7, <1>12, <1>13, <1>14, <1>15, <1>16, <1>17, <1>18, <1>19, <1>20, ReplyRead, Zenon

\* Loading the payload (readSyncBulkPayload) preserves the invariant.
LEMMA ReadSyncBulkPayloadInv ==
  ASSUME Inv, NEW n \in Node, ReadSyncBulkPayload(n)
  PROVE  Inv'
<1> DEFINE q == link[n].q
           snap == Head1(n).snap
           c == [replid |-> initial[n].replid, reploff |-> initial[n].reploff, db |-> StreamDb(snap)]
           b == IF backlog[n] = None THEN [off |-> initial[n].reploff + 1, buf |-> <<>>]
                ELSE backlog[n]
<1>1. /\ state[n] = "transfer" /\ Readable(n) /\ Head1(n).t = "rdb"
      /\ data' = [data EXCEPT ![n] = snap.data] /\ master' = [master EXCEPT ![n] = c]
      /\ replid' = [replid EXCEPT ![n] = initial[n].replid]
      /\ offset' = [offset EXCEPT ![n] = initial[n].reploff]
      /\ replid2' = [replid2 EXCEPT ![n] = None] /\ secondoff' = [secondoff EXCEPT ![n] = -1]
      /\ initial' = [initial EXCEPT ![n] = None]
      /\ state' = [state EXCEPT ![n] = "connected"] /\ link' = Popped(link, n)
      /\ UNCHANGED <<seldb, host, cached, slaves, child, ids, writes, bounds>>
  BY Zenon DEF ReadSyncBulkPayload
<1>2. TypeOK /\ AssertionsHold BY DEF Inv
<1>3. Reads(n) BY <1>1 DEF Reads
<1>4. /\ q \in Seq(Message) /\ Head1(n) = q[1] /\ q[1] \in Message /\ Len(q) >= 1
      /\ LinkOrder(n)
      /\ link'[n].q \in Seq(Message) /\ Len(link'[n].q) = Len(q) - 1
      /\ \A k \in 1..Len(link'[n].q) : link'[n].q[k] = q[k + 1]
      /\ link'[n].req = link[n].req
  BY <1>1, <1>3, FirstMessage, ZenonT(30)
<1>5. q[1] \in Payload /\ q[1] \notin Refusal BY <1>1, <1>4, MessageKinds, Zenon
<1>6. ~AwaitsReply(n) /\ ~AwaitsPayload(n) /\ ~Refused(n)
  <2>1. state[n] = "transfer" BY <1>1
  <2>2. link[n].q # <<>> BY <1>4
  <2>3. link[n].q[1] \notin Refusal BY <1>5
  <2>4. ~AwaitsReply(n) BY <2>1 DEF AwaitsReply
  <2>5. ~AwaitsPayload(n) BY <2>1, <2>2 DEF AwaitsPayload
  <2>6. ~Refused(n) BY <2>1, <2>2, <2>3 DEF Refused
  <2> QED BY <2>4, <2>5, <2>6
<1>7. link[n].req = None /\ FollowsStream(n) BY <1>1, <1>4, <1>6, ZenonT(30) DEF LinkOrder
<1>8. initial[n] # None /\ StreamFrom(q, 2) BY <1>1, <1>7, Zenon DEF FollowsStream
<1>9. initial[n] \in Initial BY <1>2, <1>8 DEF TypeOK
<1>10. initial[n].replid \in Id /\ initial[n].reploff \in Int BY <1>9, Zenon DEF Initial
<1>11. snap \in Snapshot BY <1>4, <1>5 DEF Payload
<1> HIDE DEF snap
<1>12. snap.data \in Dataset /\ StreamDb(snap) \in DB
  BY <1>11, ConstantsAssumption DEF Snapshot, StreamDb, SelDB
<1>13. c \in Master BY <1>10, <1>12 DEF Master
<1>14. c # None BY <1>13, NoneAssumption
<1> HIDE DEF c
<1>15. state'[n] = "connected" /\ master'[n] = c BY <1>1, <1>2, ZenonT(30) DEF TypeOK
<1>16. cached'[n] = None BY <1>1, <1>2, ZenonT(30) DEF AssertionsHold
<1>17. FollowsStream(n)'
  <2>1. StreamFrom(link'[n].q, 1) BY <1>4, <1>8, StreamNext
  <2> QED BY <1>15, <2>1, ZenonT(30) DEF FollowsStream
<1>18. LinkOrder(n)' BY <1>4, <1>7, <1>17, Zenon DEF LinkOrder
<1>19. OnlyOwn(n) BY <1>1, <1>2, Zenon DEF OnlyOwn, TypeOK
<1>20. b \in Backlog
  <2>1. CASE backlog[n] = None
    <3>1. <<>> \in Seq(Command) /\ initial[n].reploff + 1 \in Int BY <1>10
    <3> QED BY <2>1, <3>1 DEF Backlog
  <2>2. CASE backlog[n] # None BY <1>2, <2>2 DEF TypeOK
  <2> QED BY <2>1, <2>2
<1>21. backlog' = [backlog EXCEPT ![n] = b]
  <2>1. backlog \in [Node -> Backlog \cup {None}] BY <1>2 DEF TypeOK
  <2> QED BY <2>1, Zenon DEF ReadSyncBulkPayload
<1>22. b # None BY <1>20, NoneAssumption, Zenon
<1> HIDE DEF b
<1>23. /\ backlog' \in [Node -> Backlog \cup {None}] /\ backlog'[n] # None
       /\ \A a \in Node \ {n} : backlog'[a] = backlog[a]
  BY <1>2, <1>20, <1>21, <1>22 DEF TypeOK
<1>24. /\ data' \in [Node -> Dataset] /\ master' \in [Node -> Master \cup {None}]
       /\ replid' \in [Node -> Id] /\ offset' \in [Node -> Int]
  BY <1>1, <1>2, <1>10, <1>12, <1>13, ZenonT(30) DEF TypeOK
<1>25. /\ replid2' \in [Node -> Id \cup {None}] /\ secondoff' \in [Node -> Int]
       /\ initial' \in [Node -> Initial \cup {None}] /\ cached' \in [Node -> Master \cup {None}]
  <2>1. replid2' \in [Node -> Id \cup {None}] BY <1>1, <1>2 DEF TypeOK
  <2>2. -1 \in Int OBVIOUS
  <2>3. secondoff' \in [Node -> Int] BY <1>1, <1>2, <2>2 DEF TypeOK
  <2>4. initial' \in [Node -> Initial \cup {None}] BY <1>1, <1>2 DEF TypeOK
  <2>5. cached' \in [Node -> Master \cup {None}] BY <1>1, <1>2 DEF TypeOK
  <2> QED BY <2>1, <2>3, <2>4, <2>5
<1>26. /\ state[n] \in {"receive_psync", "transfer"} /\ "connected" \in {"transfer", "connected"}
       /\ Readable(n) /\ state' = [state EXCEPT ![n] = "connected"]
       /\ UNCHANGED <<seldb, host, child, ids, writes, bounds>>
  BY <1>1
<1>27. master'[n] # None <=> "connected" = "connected" BY <1>14, <1>15
<1>28. slaves'[n] # NoSlaves => backlog'[n] # None BY <1>23
<1>29. AwaitsPayload(n) => AwaitsPayload(n)' BY <1>6
<1>30. FollowsStream(n) => FollowsStream(n)' BY <1>17
<1> HIDE DEF q, b
<1> QED

    BY <1>3, <1>16, <1>18, <1>19, <1>23, <1>24, <1>25, <1>26, <1>27, <1>28, <1>29, <1>30, ReplyRead, Zenon

-----------------------------------------------------------------------------
(* The theorems *)

\* The servers start in the invariant.
LEMMA InitInv == Init => Inv
<1> SUFFICES ASSUME Init PROVE Inv OBVIOUS
<1>1. host \in [Node -> Node \cup {None}] BY ConstantsAssumption DEF Init
<1>2. /\ data \in [Node -> Dataset] /\ ids \in [Node -> Nat] /\ replid \in [Node -> Id]
      /\ replid2 \in [Node -> Id \cup {None}] /\ secondoff \in [Node -> Int]
      /\ offset \in [Node -> Int] /\ backlog \in [Node -> Backlog \cup {None}]
      /\ seldb \in [Node -> SelDB] /\ writes \in [Node -> Nat]
  BY DEF Init, Dataset, Id, SelDB
<1>3. state \in [Node -> ReplState] BY DEF Init, ReplState
<1>4. /\ master \in [Node -> Master \cup {None}] /\ cached \in [Node -> Master \cup {None}]
      /\ initial \in [Node -> Initial \cup {None}] /\ link \in [Node -> Link \cup {None}]
      /\ child \in [Node -> Child \cup {None}]
  BY DEF Init
<1>5. slaves \in [Node -> [Node -> Slave \cup {None}]] BY DEF Init, NoSlaves
<1>6. pings \in Nat /\ saves \in Nat /\ faults \in Nat /\ commands \in Nat /\ restarts \in Nat
  BY DEF Init
<1>7. TypeOK BY <1>1, <1>2, <1>3, <1>4, <1>5, <1>6 DEF TypeOK
<1>8. \A n \in Node : /\ link[n] = None /\ slaves[n] = NoSlaves /\ child[n] = None
                      /\ master[n] = None /\ cached[n] = None
                      /\ state[n] = IF host[n] = None THEN "none" ELSE "connect"
  BY DEF Init
<1>9. AssertionsHold BY <1>8 DEF AssertionsHold
<1>10. \A m, s \in Node : slaves[m][s] = None BY <1>8 DEF NoSlaves
<1>11. RepliesInOrder BY <1>8, <1>10 DEF RepliesInOrder
<1> QED BY <1>7, <1>9, <1>11 DEF Inv

\* A stuttering step preserves the invariant.
LEMMA StutterInv ==
  ASSUME Inv, UNCHANGED vars
  PROVE  Inv'
<1>1. UNCHANGED <<data, identity, replica, link, slaves, child, ids, writes, bounds>> BY DEF vars
<1>2. TypeOK' BY <1>1, ZenonT(30) DEF Inv, TypeOK, identity, replica, bounds
<1>3. AssertionsHold' BY <1>1, Zenon DEF Inv, AssertionsHold, identity, replica
<1>4. /\ link' = link /\ state' = state /\ cached' = cached /\ initial' = initial
      /\ slaves' = slaves /\ child' = child /\ RepliesInOrder
  BY <1>1 DEF Inv, replica
<1>5. ASSUME NEW s \in Node, link[s] # None PROVE LinkOrder(s)'
  <2>1. LinkOrder(s) BY <1>4, <1>5, ZenonT(30) DEF RepliesInOrder
  <2> QED BY <1>4, <2>1, FrameOrder, ZenonT(30)
<1>6. ASSUME NEW m \in Node, NEW s \in Node, slaves[m][s] # None, slaves[m][s].sock
      PROVE  ClientOrder(m, s)'
  <2>1. ClientOrder(m, s) BY <1>4, <1>6 DEF RepliesInOrder
  <2>2. Keeps(s) BY <1>4, <2>1, FrameKeeps DEF ClientOrder
  <2> QED BY <1>4, <2>1, <2>2, KeepOrder
<1>7. RepliesInOrder' BY <1>4, <1>5, <1>6, Zenon DEF RepliesInOrder
<1> QED BY <1>2, <1>3, <1>7 DEF Inv

\* Every handler of every server preserves the invariant.
LEMMA NextInv ==
  ASSUME Inv, Next
  PROVE  Inv'
<1>1. PICK n \in Node :
        \/ ReplicaStep(n) \/ MasterStep(n)
        \/ \E d \in DB : ClientWrite(n, d)
        \/ CronPing(n) \/ SavePoint(n) \/ LoadFailed(n)
        \/ \E h \in Node \ {n} : ReplicationSetMaster(n, h)
        \/ ReplicationUnsetMaster(n)
        \/ RestartFromAof(n)
  BY DEF Next
<1>2. CASE ReplicaStep(n)
  BY <1>2, ConnectWithMasterInv, SendPsyncInv, ReceiveFullResyncInv, ReceiveContinueInv,
     ReceiveTryLaterInv, ReadSyncBulkPayloadInv, ReadQueryFromMasterInv,
     CancelHandshakeInv, MasterLinkLostInv, Zenon DEF ReplicaStep
<1>3. CASE MasterStep(n)
  BY <1>3, CronStartBgsaveInv, RdbChildSendInv, BackgroundSaveDoneInv, SyncCommandInv,
     SendBulkToSlaveInv, ReplconfAckInv, FreeSlaveInv, Zenon DEF MasterStep
<1>4. CASE \E d \in DB : ClientWrite(n, d) BY <1>4, ClientWriteInv, Zenon
<1>5. CASE CronPing(n) \/ SavePoint(n) \/ LoadFailed(n)
  BY <1>5, CronPingInv, SavePointInv, LoadFailedInv, Zenon
<1>6. CASE \E h \in Node \ {n} : ReplicationSetMaster(n, h)
  <2>1. PICK h \in Node : ReplicationSetMaster(n, h) BY <1>6
  <2> QED BY <2>1, ReplicationSetMasterInv, Zenon
<1>7. CASE ReplicationUnsetMaster(n) \/ RestartFromAof(n)
  BY <1>7, ReplicationUnsetMasterInv, RestartFromAofInv, Zenon
<1> QED BY <1>1, <1>2, <1>3, <1>4, <1>5, <1>6, <1>7

\* The three invariants hold together in every reachable state, for every set of servers,
\* databases, initial topology and backlog size.
THEOREM Invariance == Spec => []Inv
<1>1. Inv /\ [Next]_vars => Inv'
  <2> SUFFICES ASSUME Inv, [Next]_vars PROVE Inv' OBVIOUS
  <2>1. CASE Next BY <2>1, NextInv
  <2>2. CASE UNCHANGED vars BY <2>2, StutterInv
  <2> QED BY <2>1, <2>2
<1> QED BY InitInv, <1>1, PTL DEF Spec

\* Type correctness of the replication state of every server.
THEOREM TypeCorrect == Spec => []TypeOK
<1>1. Inv => TypeOK BY DEF Inv
<1> QED BY Invariance, <1>1, PTL

\* The serverAssert()s of replicationFeedSlaves, replicationCacheMaster and
\* replicationAbortSyncTransfer never fail, and server.repl_state says which of the master
\* client, the cached master and the connection exist.
THEOREM AssertionsCorrect == Spec => []AssertionsHold
<1>1. Inv => AssertionsHold BY DEF Inv
<1> QED BY Invariance, <1>1, PTL

\* Whatever is in a replica's connection is what its state has a handler for, and every
\* client structure of a master agrees with it.
THEOREM OrderCorrect == Spec => []RepliesInOrder
<1>1. Inv => RepliesInOrder BY DEF Inv
<1> QED BY Invariance, <1>1, PTL
=============================================================================
