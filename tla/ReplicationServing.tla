------------------------- MODULE ReplicationServing -------------------------
(* The handlers of a master preserve the invariant, continued: the end of a child, what is *)
(* written to and read from a replica, PSYNC, and the replication stream.                  *)
EXTENDS ReplicationOrder

\* Both provers are given 15 seconds for a leaf.
USE SMTT(15), ZenonT(15)

\* The clients and the connections are replaced by prepared ones, and the child is gone.
LEMMA PreparedStep ==
  ASSUME TypeOK, RepliesInOrder, NEW m \in Node, NEW row, NEW lk, Prepared(m, row, lk),
         slaves' = [slaves EXCEPT ![m] = row], link' = lk, child' = [child EXCEPT ![m] = None],
         state' = state, cached' = cached, initial' = initial
  PROVE  /\ slaves' \in [Node -> [Node -> Slave \cup {None}]]
         /\ link' \in [Node -> Link \cup {None}] /\ child' \in [Node -> Child \cup {None}]
         /\ \A s \in Node : link'[s] # None <=> link[s] # None
         /\ RepliesInOrder'
<1> DEFINE T == {s \in Node : lk[s] # link[s]}
<1>1. row \in [Node -> Slave \cup {None}] /\ lk \in [Node -> Link \cup {None}] BY DEF Prepared
<1>2. slaves' \in [Node -> [Node -> Slave \cup {None}]] /\ slaves'[m] = row
  <2>1. slaves \in [Node -> [Node -> Slave \cup {None}]] BY DEF TypeOK
  <2> QED BY <1>1, <2>1
<1>3. child' \in [Node -> Child \cup {None}] /\ child'[m] = None
      /\ \A a \in Node \ {m} : child'[a] = child[a]
  BY DEF TypeOK
<1>4. ASSUME NEW s \in T
      PROVE  link[s] # None /\ link[s].peer = m /\ link'[s] # None /\ LinkOrder(s)'
  <2>1. Narrows(link'[s], link[s]) /\ link[s].peer = m BY DEF Prepared
  <2> QED BY <2>1, NarrowedLink
<1>5. ASSUME NEW s \in Node, row[s] # None
      PROVE  (row[s].sock => ClientOrder(m, s)') /\ row[s].st # "wait_bgsave_end"
  <2>1. row[s].st # "wait_bgsave_end" BY <1>5 DEF Prepared, Stage
  <2>2. ASSUME row[s].sock PROVE ClientOrder(m, s)'
    <3>1. s \in Sockets(row) BY <1>5, <2>2 DEF Sockets
    <3> QED BY <1>2, <3>1, StagedClient
  <2> QED BY <2>1, <2>2
<1>6. ChangesRow(m, row, T) BY <1>1, <1>3, <1>4, <1>5 DEF ChangesRow
<1>7. (\A s \in Node : link'[s] # None <=> link[s] # None) /\ RepliesInOrder' BY <1>6, RowStep
<1> QED BY <1>1, <1>2, <1>3, <1>7

\* A diskless child writing the payload to the sockets preserves the invariant.
LEMMA RdbChildSendInv ==
  ASSUME Inv, NEW m \in Node, RdbChildSend(m)
  PROVE  Inv'
<1> DEFINE R == InState(slaves[m], "wait_bgsave_end") \cap Sockets(slaves[m])
           rdb == [t |-> "rdb", snap |-> child[m].snap]
           c == [child[m] EXCEPT !.sent = TRUE]
<1>1. child[m] \in Child /\ child[m].type = "socket" /\ child[m].sent = FALSE
  BY DEF RdbChildSend, Inv, TypeOK, Child
<1>2. c \in Child /\ c.type = "socket" /\ c.sent = TRUE BY <1>1, Zenon DEF Child
<1>3. rdb \in Payload /\ rdb \in Message /\ <<rdb>> \in Seq(Message)
  <2>1. rdb \in Payload BY <1>1 DEF Child, Payload
  <2>2. rdb \in Message BY <2>1 DEF Message
  <2> QED BY <2>1, <2>2
<1>4. link' = Sent(link, R, <<rdb>>) /\ child' = [child EXCEPT ![m] = c]
  BY DEF RdbChildSend
<1>5. UNCHANGED <<data, identity, replica, slaves, ids, writes, bounds>> BY DEF RdbChildSend
<1>6. ASSUME NEW s \in R
      PROVE  /\ s \in Node /\ link[s] \in Link /\ link[s].peer = m /\ link[s].open
             /\ link[s].req = None /\ AwaitsPayload(s) /\ slaves[m][s].st = "wait_bgsave_end"
  <2>1. s \in Sockets(slaves[m]) /\ slaves[m][s].st = "wait_bgsave_end" BY DEF InState
  <2> QED BY <1>1, <2>1, SocketsLinked DEF Inv, ClientOrder
<1> HIDE DEF rdb, c
<1>7. R \subseteq Node /\ \A s \in R : link[s] # None BY <1>6, NoneAssumption
<1>8. ASSUME NEW s \in R
      PROVE  /\ link'[s] # None /\ link'[s].peer = m /\ link'[s].open /\ link'[s].req = None
             /\ FollowsStream(s)'
  <2>1. link'[s] = [link[s] EXCEPT !.q = @ \o <<rdb>>] BY <1>4, <1>7 DEF Sent
  <2>2. link[s] \in Link /\ link[s].q \in Seq(Message) BY <1>6 DEF Link
  <2>3. link[s].q \o <<rdb>> \in Seq(Message) BY <1>3, <2>2
  <2>4. link'[s] \in Link /\ link'[s].peer = link[s].peer /\ link'[s].open = link[s].open
        /\ link'[s].req = link[s].req /\ link'[s].q = link[s].q \o <<rdb>>
    BY <2>1, <2>2, <2>3, Zenon DEF Link
  <2>5. <<rdb>> = <<rdb>> \o <<>> /\ <<>> \in Seq(Command) OBVIOUS
  <2>6. link'[s].q = link[s].q \o (<<rdb>> \o <<>>) BY <2>4, <2>5
  <2>7. state'[s] = state[s] /\ initial'[s] = initial[s] BY <1>5 DEF replica
  <2>8. FollowsStream(s)' BY <1>3, <1>6, <2>2, <2>5, <2>6, <2>7, SendPayload, Zenon
  <2> QED BY <1>6, <2>4, <2>8, NoneAssumption
<1>9. link \in [Node -> Link \cup {None}] BY DEF Inv, TypeOK
<1> HIDE DEF R
<1>10. link' \in [Node -> Link \cup {None}] BY <1>3, <1>4, <1>7, <1>9, SentType, Zenon
<1>11. ASSUME NEW s \in Node \ R PROVE link'[s] = link[s] BY <1>4 DEF Sent
<1>12. /\ child' \in [Node -> Child \cup {None}] /\ child'[m] = c /\ c # None
       /\ \A a \in Node \ {m} : child'[a] = child[a]
  BY <1>2, <1>4, NoneAssumption DEF Inv, TypeOK
<1>13. ASSUME NEW s \in R
       PROVE  link[s] # None /\ link[s].peer = m /\ link'[s] # None /\ LinkOrder(s)'
  BY <1>6, <1>7, <1>8 DEF LinkOrder
<1>14. ASSUME NEW s \in Node, slaves[m][s] # None, slaves[m][s].sock PROVE ClientOrder(m, s)'
  <2>1. slaves'[m][s] = slaves[m][s] BY <1>5
  <2>2. CASE s \in R BY <1>2, <1>6, <1>8, <1>12, <2>1, <2>2 DEF ClientOrder
  <2>3. CASE s \notin R
    <3>1. slaves[m][s].st # "wait_bgsave_end" BY <1>14, <2>3 DEF R, InState, Sockets
    <3>2. ClientOrder(m, s) BY <1>14 DEF Inv, RepliesInOrder
    <3>3. Keeps(s) BY <1>5, <1>11, <2>3, <3>2, FrameKeeps DEF ClientOrder, replica
    <3> QED BY <2>1, <3>1, <3>2, <3>3, KeepOrder
  <2> QED BY <2>2, <2>3
<1>15. slaves[m] \in [Node -> Slave \cup {None}] /\ slaves' = [slaves EXCEPT ![m] = slaves[m]]
  BY <1>5 DEF Inv, TypeOK
<1>16. ChangesRow(m, slaves[m], R)
  BY <1>2, <1>7, <1>11, <1>12, <1>13, <1>14, <1>15 DEF ChangesRow
<1>17. state' = state /\ cached' = cached /\ initial' = initial BY <1>5 DEF replica
<1>18. (\A s \in Node : link'[s] # None <=> link[s] # None) /\ RepliesInOrder'
  BY <1>16, <1>17, RowStep DEF Inv
<1>19. /\ slaves' \in [Node -> [Node -> Slave \cup {None}]] /\ seldb' \in [Node -> SelDB]
       /\ faults' \in Nat /\ \A a \in Node : slaves'[a] # NoSlaves => slaves[a] # NoSlaves
  BY <1>5 DEF Inv, TypeOK, identity, bounds
<1> QED BY <1>5, <1>10, <1>12, <1>18, <1>19, MasterFrame DEF identity, bounds

\* One client that waited for the child.
LEMMA AfterBgsaveFacts ==
  ASSUME Inv, NEW m \in Node, NEW ok \in BOOLEAN, NEW s \in InState(slaves[m], "wait_bgsave_end"),
         ok /\ child[m].type = "socket" => child[m].sent
  PROVE  LET c == AfterBgsave(m, slaves[m][s], ok) IN
         /\ c \in Slave \cup {None}
         /\ ~ok => c = None
         /\ ok => c # None /\ c.sock = slaves[m][s].sock /\ Stage(c, s)
<1> DEFINE old == slaves[m][s]
           c == AfterBgsave(m, old, ok)
<1>1. s \in Node /\ old \in Slave /\ old.st = "wait_bgsave_end" BY DEF InState, Inv, TypeOK
<1>2. child[m] \in Child /\ (child[m].type = "disk" => ~child[m].sent)
  <2>1. child[m] # None BY <1>1, NoneAssumption DEF Inv, RepliesInOrder
  <2> QED BY <2>1 DEF Inv, TypeOK, RepliesInOrder
<1>3. old.sock => IF child[m].sent THEN FollowsStream(s) ELSE AwaitsPayload(s)
  BY <1>1, NoneAssumption DEF Inv, RepliesInOrder, ClientOrder
<1> HIDE DEF old
<1>4. CASE ~ok BY <1>4 DEF AfterBgsave, old
<1>5. CASE ok /\ child[m].type = "socket"
  <2>1. c = [old EXCEPT !.st = "online", !.onack = TRUE] BY <1>5 DEF AfterBgsave
  <2>2. c \in Slave /\ c.st = "online" /\ c.sock = old.sock BY <1>1, <2>1, Zenon DEF Slave
  <2> HIDE DEF c
  <2>3. Stage(c, s) BY <1>3, <1>5, <2>2 DEF Stage
  <2> QED BY <1>5, <2>2, <2>3, NoneAssumption, Zenon DEF c, old
<1>6. CASE ok /\ child[m].type = "disk"
  <2>1. c = [old EXCEPT !.st = "send_bulk", !.snap = child[m].snap] BY <1>6 DEF AfterBgsave
  <2>2. child[m].snap \in Snapshot BY <1>2 DEF Child
  <2>3. c \in Slave /\ c.st = "send_bulk" /\ c.sock = old.sock /\ c.snap = child[m].snap
    BY <1>1, <2>1, <2>2, Zenon DEF Slave
  <2>4. c.snap # None BY <2>2, <2>3, NoneAssumption
  <2> HIDE DEF c
  <2>5. Stage(c, s) BY <1>2, <1>3, <1>6, <2>3, <2>4 DEF Stage
  <2> QED BY <1>6, <2>3, <2>5, NoneAssumption, Zenon DEF c, old
<1> QED BY <1>2, <1>4, <1>5, <1>6 DEF Child

\* The end of a BGSAVE (updateSlavesWaitingBgsave) preserves the invariant.
LEMMA BackgroundSaveDoneInv ==
  ASSUME Inv, NEW m \in Node, BackgroundSaveDone(m)
  PROVE  Inv'
<1> DEFINE ended == InState(slaves[m], "wait_bgsave_end")
           S == ended \cap Sockets(slaves[m])
           Row(ok) == [s \in Node |-> IF s \in ended THEN AfterBgsave(m, slaves[m][s], ok)
                                      ELSE slaves[m][s]]
           Lk(ok) == IF ok THEN link ELSE HungUp(link, S)
           F(ok) == IF ok THEN 0 ELSE 1
<1>1. PICK ok \in BOOLEAN :
         /\ ok /\ child[m].type = "socket" => child[m].sent
         /\ \/ StartBgsaveForReplication(m, Row(ok), Lk(ok), replid[m], F(ok))
            \/ /\ slaves' = [slaves EXCEPT ![m] = Row(ok)] /\ link' = Lk(ok)
               /\ child' = [child EXCEPT ![m] = None]
               /\ faults' = faults + F(ok) /\ UNCHANGED seldb
  BY DEF BackgroundSaveDone
<1> DEFINE row == Row(ok)
           lk == Lk(ok)
           f == F(ok)
<1>2. f \in Nat OBVIOUS
<1>3. /\ \A s \in ended : row[s] = AfterBgsave(m, slaves[m][s], ok)
      /\ \A s \in Node \ ended : row[s] = slaves[m][s]
      /\ row = [s \in Node |-> row[s]] /\ ended \subseteq Node
  BY DEF InState
<1>4. \A s \in Node : lk[s] = IF ~ok /\ s \in S THEN [link[s] EXCEPT !.open = FALSE] ELSE link[s]
  BY DEF HungUp
<1>5. DOMAIN lk = Node /\ lk = [s \in Node |-> lk[s]] BY Zenon DEF HungUp, Inv, TypeOK
<1>6. \/ StartBgsaveForReplication(m, row, lk, replid[m], f)
      \/ /\ slaves' = [slaves EXCEPT ![m] = row] /\ link' = lk
         /\ child' = [child EXCEPT ![m] = None]
         /\ faults' = faults + f /\ UNCHANGED seldb
  BY <1>1
<1> HIDE DEF row, lk, f
<1>7. ASSUME NEW s \in Node, row[s] # None
      PROVE  /\ Stage(row[s], s) /\ row[s].sock = slaves[m][s].sock /\ slaves[m][s] # None
             /\ s \in S => ok
  <2>1. CASE s \in ended
    <3>1. row[s] = AfterBgsave(m, slaves[m][s], ok) BY <1>3, <2>1
    <3>2. ok /\ row[s].sock = slaves[m][s].sock /\ Stage(row[s], s)
      BY <1>1, <1>7, <2>1, <3>1, AfterBgsaveFacts
    <3> QED BY <2>1, <3>2 DEF InState
  <2>2. CASE s \notin ended
    <3>1. row[s] = slaves[m][s] BY <1>3, <2>2
    <3>2. row[s].st # "wait_bgsave_end" BY <1>7, <2>2, <3>1 DEF InState
    <3>3. row[s].sock => ClientOrder(m, s) BY <1>7, <3>1 DEF Inv, RepliesInOrder
    <3>4. Stage(row[s], s) BY <3>1, <3>2, <3>3 DEF Stage, ClientOrder
    <3> QED BY <1>7, <2>2, <3>1, <3>4
  <2> QED BY <2>1, <2>2
<1>8. row \in [Node -> Slave \cup {None}]
  <2>1. ASSUME NEW s \in Node PROVE row[s] \in Slave \cup {None}
    <3>1. CASE s \in ended BY <1>1, <1>3, <3>1, AfterBgsaveFacts, Zenon
    <3>2. CASE s \notin ended BY <1>3, <3>2 DEF Inv, TypeOK
    <3> QED BY <3>1, <3>2
  <2> QED BY <1>3, <2>1
<1>9. ASSUME NEW s \in Node
      PROVE  /\ lk[s] \in Link \cup {None}
             /\ lk[s] = link[s] \/ (Narrows(lk[s], link[s]) /\ link[s].peer = m)
  <2>1. CASE ~ok /\ s \in S
    <3>1. link[s] \in Link /\ link[s].peer = m BY <2>1, SocketsLinked DEF Inv
    <3>2. lk[s] = [link[s] EXCEPT !.open = FALSE] BY <1>4, <2>1
    <3>3. Narrows(lk[s], link[s]) BY <3>1, <3>2, Zenon DEF Narrows, Link
    <3> QED BY <3>1, <3>3 DEF Narrows
  <2>2. CASE ~(~ok /\ s \in S) BY <1>4, <2>2, Zenon DEF Inv, TypeOK
  <2> QED BY <2>1, <2>2
<1>10. lk \in [Node -> Link \cup {None}] BY <1>5, <1>9
<1>11. ASSUME NEW s \in Sockets(row)
       PROVE  /\ lk[s] # None /\ lk[s].peer = m /\ lk[s].open /\ lk[s].req = None
              /\ link[s] # None /\ lk[s].q = link[s].q
  <2>1. s \in Node /\ row[s] # None /\ row[s].sock BY DEF Sockets
  <2>2. s \in Sockets(slaves[m]) /\ (s \in S => ok) BY <1>7, <2>1 DEF Sockets
  <2>3. lk[s] = link[s] BY <1>4, <2>1, <2>2, Zenon
  <2> QED BY <2>2, <2>3, SocketsLinked, NoneAssumption DEF Inv
<1>12. Prepared(m, row, lk) BY <1>7, <1>8, <1>9, <1>10, <1>11 DEF Prepared
<1>13. /\ state' = state /\ cached' = cached /\ initial' = initial
       /\ UNCHANGED <<data, replid, replid2, secondoff, offset, backlog, replica, ids, writes,
                      pings, saves, commands, restarts>>
  BY DEF BackgroundSaveDone, replica
<1>14. TypeOK /\ RepliesInOrder /\ replid[m] \in Id BY DEF Inv, TypeOK
<1>15. /\ slaves' \in [Node -> [Node -> Slave \cup {None}]]
       /\ link' \in [Node -> Link \cup {None}] /\ child' \in [Node -> Child \cup {None}]
       /\ seldb' \in [Node -> SelDB] /\ faults' \in Nat
       /\ \A a \in Node \ {m} : slaves'[a] = slaves[a]
       /\ \A s \in Node : link'[s] # None <=> link[s] # None
       /\ RepliesInOrder'
  <2>1. CASE StartBgsaveForReplication(m, row, lk, replid[m], f)
    BY <1>2, <1>12, <1>13, <1>14, <2>1, StartBgsaveStep DEF f
  <2>2. CASE /\ slaves' = [slaves EXCEPT ![m] = row] /\ link' = lk
             /\ child' = [child EXCEPT ![m] = None]
             /\ faults' = faults + f /\ UNCHANGED seldb
    <3>1. faults' \in Nat /\ seldb' \in [Node -> SelDB] BY <1>2, <1>14, <2>2 DEF TypeOK, f
    <3>2. \A a \in Node \ {m} : slaves'[a] = slaves[a] BY <1>14, <2>2 DEF TypeOK
    <3> QED BY <1>12, <1>13, <1>14, <2>2, <3>1, <3>2, PreparedStep, Zenon
  <2> QED BY <1>6, <2>1, <2>2
<1>16. ASSUME NEW a \in Node, slaves'[a] # NoSlaves PROVE slaves[a] # NoSlaves
  <2>1. CASE a # m BY <1>15, <1>16, <2>1
  <2>2. CASE a = m
    <3> SUFFICES ASSUME slaves[m] = NoSlaves PROVE slaves'[m] = NoSlaves BY <1>16, <2>2, Zenon
    <3>1. \A s \in Node : row[s] = None BY <1>7 DEF NoSlaves
    <3>2. InState(row, "wait_bgsave_start") = {} BY <3>1 DEF InState
    <3>3. \A s \in Node : SetupForFullResync(row, {}, offset[m])[s] = None /\ Without(row, {})[s] = None
      BY <3>1 DEF SetupForFullResync, Without
    <3>4. row = NoSlaves /\ SetupForFullResync(row, {}, offset[m]) = NoSlaves /\ Without(row, {}) = NoSlaves
      BY <1>8, <3>1, <3>3 DEF SetupForFullResync, Without, NoSlaves
    <3>5. slaves' = [slaves EXCEPT ![m] = NoSlaves]
      BY <1>6, <3>2, <3>4 DEF StartBgsaveForReplication
    <3> QED BY <3>5 DEF Inv, TypeOK
  <2> QED BY <2>1, <2>2
<1> QED BY <1>13, <1>15, <1>16, MasterFrame

-----------------------------------------------------------------------------
\* putSlaveOnline leaves an online client.
LEMMA PutSlaveOnlineFacts ==
  ASSUME NEW c \in Slave
  PROVE  /\ PutSlaveOnline(c) \in Slave /\ PutSlaveOnline(c).st = "online"
         /\ PutSlaveOnline(c).sock = c.sock
<1> DEFINE c1 == [c EXCEPT !.st = "online"]
           c2 == [c1 EXCEPT !.onack = FALSE]
           c3 == [c2 EXCEPT !.snap = None]
<1>1. PutSlaveOnline(c) = [c3 EXCEPT !.out = <<>>] BY DEF PutSlaveOnline
<1>2. c1 \in Slave /\ c1.st = "online" /\ c1.sock = c.sock BY DEF Slave
<1> HIDE DEF c1
<1>3. c2 \in Slave /\ c2.st = "online" /\ c2.sock = c.sock BY <1>2, Zenon DEF Slave
<1> HIDE DEF c2
<1>4. c3 \in Slave /\ c3.st = "online" /\ c3.sock = c.sock BY <1>3 DEF Slave
<1> HIDE DEF c3
<1>5. <<>> \in Seq(Command) OBVIOUS
<1> QED BY <1>1, <1>4, <1>5, Zenon DEF Slave

\* A step that touches one client and its connection, and keeps the rest.
LEMMA OneClientFrame ==
  ASSUME Inv, NEW m \in Node, NEW s \in Node, slaves[m][s] # None, NEW c \in Slave \cup {None},
         slaves' = [slaves EXCEPT ![m] = [slaves[m] EXCEPT ![s] = c]], OnlyLink(m, s),
         UNCHANGED <<data, identity, replica, child, ids, writes, pings, saves, commands, restarts>>,
         faults' \in Nat,
         c # None /\ c.sock => ClientOrder(m, s)',
         c # None => c.st # "wait_bgsave_end"
  PROVE  Inv'
<1>1. TypeOK /\ RepliesInOrder BY DEF Inv
<1>2. child' = child /\ state' = state /\ cached' = cached /\ initial' = initial BY DEF replica
<1>3. /\ slaves' \in [Node -> [Node -> Slave \cup {None}]]
      /\ \A x \in Node : link'[x] # None <=> link[x] # None
      /\ RepliesInOrder'
  BY <1>1, <1>2, OneClientStep, Zenon
<1>4. ASSUME NEW a \in Node, slaves'[a] # NoSlaves PROVE slaves[a] # NoSlaves
  <2>1. CASE a = m BY <2>1 DEF NoSlaves
  <2>2. CASE a # m
    <3>1. slaves'[a] = slaves[a] BY <1>1, <2>2 DEF TypeOK
    <3> QED BY <1>4, <3>1
  <2> QED BY <2>1, <2>2
<1>5. seldb' \in [Node -> SelDB] /\ child' \in [Node -> Child \cup {None}]
  BY <1>1, <1>2 DEF identity, TypeOK
<1> QED BY <1>3, <1>4, <1>5, MasterFrame DEF identity, OnlyLink

\* sendBulkToSlave preserves the invariant.
LEMMA SendBulkToSlaveInv ==
  ASSUME Inv, NEW m \in Node, NEW s \in Node, SendBulkToSlave(m, s)
  PROVE  Inv'
<1> DEFINE old == slaves[m][s]
           c == PutSlaveOnline(old)
           rdb == [t |-> "rdb", snap |-> old.snap]
           msgs == <<rdb>> \o old.out
           sent == Queued(link[s], msgs)
<1>1. old \in Slave /\ old # None /\ old.st = "send_bulk" BY DEF SendBulkToSlave, Inv, TypeOK
<1>2. c \in Slave /\ c.st = "online" /\ c.sock = old.sock BY <1>1, PutSlaveOnlineFacts
<1>3. slaves' = [slaves EXCEPT ![m] = [slaves[m] EXCEPT ![s] = c]]
  BY DEF SendBulkToSlave
<1>4. link' = IF old.sock THEN Sent(link, {s}, msgs) ELSE link BY DEF SendBulkToSlave
<1>5. UNCHANGED <<data, identity, replica, child, ids, writes, bounds>> BY DEF SendBulkToSlave
<1>6. link \in [Node -> Link \cup {None}] /\ faults' \in Nat BY <1>5 DEF Inv, TypeOK, bounds
<1>7. state'[s] = state[s] /\ initial'[s] = initial[s] BY <1>5 DEF replica
<1>8. slaves'[m][s] = c BY <1>3 DEF Inv, TypeOK
<1>9. UNCHANGED <<data, identity, replica, child, ids, writes, pings, saves, commands, restarts>>
  BY <1>5 DEF bounds
<1> HIDE DEF old, c
<1>10. CASE ~old.sock
  <2>1. OnlyLink(m, s) BY <1>4, <1>6, <1>10 DEF OnlyLink
  <2> QED BY <1>1, <1>2, <1>3, <1>6, <1>9, <1>10, <2>1, OneClientFrame, Zenon DEF old
<1>11. CASE old.sock
  <2>1. s \in Sockets(slaves[m]) BY <1>1, <1>11 DEF Sockets, old
  <2>2. /\ link[s] \in Link /\ link[s].peer = m /\ link[s].open /\ link[s].req = None
        /\ AwaitsPayload(s) /\ old.snap # None
    BY <1>1, <2>1, SocketsLinked DEF Inv, ClientOrder, old
  <2>3. rdb \in Payload /\ old.out \in Seq(Command) BY <1>1, <2>2 DEF Slave, Payload
  <2> HIDE DEF rdb
  <2>4. msgs \in Seq(Message)
    <3>1. rdb \in Message /\ old.out \in Seq(Message) BY <2>3 DEF Message
    <3> QED BY <3>1
  <2> HIDE DEF msgs, sent
  <2>5. /\ Sent(link, {s}, msgs) \in [Node -> Link \cup {None}] /\ Sent(link, {s}, msgs)[s] = sent
        /\ \A x \in Node \ {s} : Sent(link, {s}, msgs)[x] = link[x]
        /\ sent \in Link /\ sent.q = link[s].q \o msgs /\ sent.peer = link[s].peer
        /\ sent.open = link[s].open /\ sent.req = link[s].req
    <3>1. link[s] \in Link BY <2>2
    <3>2. /\ Sent(link, {s}, msgs) \in [Node -> Link \cup {None}]
          /\ Sent(link, {s}, msgs)[s] = Queued(link[s], msgs)
          /\ \A x \in Node \ {s} : Sent(link, {s}, msgs)[x] = link[x]
      BY <1>6, <2>4, <3>1, SentOne, Zenon
    <3>3. /\ sent \in Link /\ sent.q = link[s].q \o msgs /\ sent.peer = link[s].peer
          /\ sent.open = link[s].open /\ sent.req = link[s].req
      BY <1>6, <2>4, <3>1, SentOne, Zenon DEF sent
    <3> QED BY <3>2, <3>3, Zenon DEF sent
  <2>6. link'[s] = sent BY <1>4, <1>11, <2>5
  <2>7. link'[s].q = link[s].q \o (<<rdb>> \o old.out) /\ link[s].q \in Seq(Message)
    BY <2>2, <2>5, <2>6, Zenon DEF msgs, Link
  <2>8. FollowsStream(s)' BY <1>7, <2>2, <2>3, <2>7, SendPayload, Zenon
  <2>9. LinkOrder(s)' BY <2>2, <2>5, <2>6, <2>8 DEF LinkOrder
  <2>10. sent # None /\ link[s] # None BY <2>2, <2>5, NoneAssumption
  <2>11. ClientOrder(m, s)' BY <1>2, <1>8, <2>2, <2>5, <2>6, <2>8, <2>10, Zenon DEF ClientOrder
  <2>12. OnlyLink(m, s) BY <1>4, <1>11, <2>2, <2>5, <2>9, <2>10, Zenon DEF OnlyLink
  <2> QED BY <1>1, <1>2, <1>3, <1>6, <1>9, <2>11, <2>12, OneClientFrame, Zenon DEF old
<1> QED BY <1>10, <1>11

\* REPLCONF ACK from a replica preserves the invariant.
LEMMA ReplconfAckInv ==
  ASSUME Inv, NEW m \in Node, NEW s \in Node, ReplconfAck(m, s)
  PROVE  Inv'
<1> DEFINE old == slaves[m][s]
           c == PutSlaveOnline(old)
           msgs == old.out
           sent == Queued(link[s], msgs)
<1>1. old \in Slave /\ old # None /\ old.st = "online" /\ old.sock
  BY DEF ReplconfAck, Inv, TypeOK
<1>2. c \in Slave /\ c.st = "online" /\ c.sock = old.sock BY <1>1, PutSlaveOnlineFacts, Zenon
<1>3. slaves' = [slaves EXCEPT ![m] = [slaves[m] EXCEPT ![s] = c]]
      /\ link' = Sent(link, {s}, msgs)
  BY DEF ReplconfAck
<1>4. UNCHANGED <<data, identity, replica, child, ids, writes, bounds>> BY DEF ReplconfAck
<1>5. link \in [Node -> Link \cup {None}] /\ faults' \in Nat BY <1>4 DEF Inv, TypeOK, bounds
<1>6. state'[s] = state[s] /\ initial'[s] = initial[s] /\ cached'[s] = cached[s] BY <1>4 DEF replica
<1>7. slaves'[m][s] = c BY <1>3 DEF Inv, TypeOK
<1>8. UNCHANGED <<data, identity, replica, child, ids, writes, pings, saves, commands, restarts>>
  BY <1>4 DEF bounds
<1> HIDE DEF old, c
<1>9. s \in Sockets(slaves[m]) BY <1>1 DEF Sockets, old
<1>10. /\ link[s] \in Link /\ link[s].peer = m /\ link[s].open /\ link[s].req = None
       /\ FollowsStream(s)
  BY <1>1, <1>9, SocketsLinked, Zenon DEF Inv, ClientOrder, old
<1>11. msgs \in Seq(Command) /\ msgs \in Seq(Message) BY <1>1 DEF Slave, Message
<1> HIDE DEF msgs, sent
<1>12. /\ Sent(link, {s}, msgs) \in [Node -> Link \cup {None}] /\ Sent(link, {s}, msgs)[s] = sent
       /\ \A x \in Node \ {s} : Sent(link, {s}, msgs)[x] = link[x]
       /\ sent \in Link /\ sent.q = link[s].q \o msgs /\ sent.peer = link[s].peer
       /\ sent.open = link[s].open /\ sent.req = link[s].req
  <2>1. link[s] \in Link BY <1>10
  <2>2. /\ Sent(link, {s}, msgs) \in [Node -> Link \cup {None}]
        /\ Sent(link, {s}, msgs)[s] = Queued(link[s], msgs)
        /\ \A x \in Node \ {s} : Sent(link, {s}, msgs)[x] = link[x]
    BY <1>5, <1>11, <2>1, SentOne, Zenon
  <2>3. /\ sent \in Link /\ sent.q = link[s].q \o msgs /\ sent.peer = link[s].peer
        /\ sent.open = link[s].open /\ sent.req = link[s].req
    BY <1>5, <1>11, <2>1, SentOne, Zenon DEF sent
  <2> QED BY <2>2, <2>3, Zenon DEF sent
<1>13. link'[s] = sent BY <1>3, <1>12
<1>14. FollowsStream(s)'
  <2>1. link[s].q \in Seq(Message) BY <1>10 DEF Link
  <2> QED BY <1>6, <1>10, <1>11, <1>12, <1>13, <2>1, StreamOrder, ZenonT(30)
<1>15. LinkOrder(s)' BY <1>10, <1>12, <1>13, <1>14, Zenon DEF LinkOrder
<1>16. sent # None /\ link[s] # None BY <1>10, <1>12, NoneAssumption
<1>17. ClientOrder(m, s)' BY <1>2, <1>7, <1>10, <1>12, <1>13, <1>14, <1>16, Zenon DEF ClientOrder
<1>18. slaves' = [slaves EXCEPT ![m] = [slaves[m] EXCEPT ![s] = c]] /\ slaves[m][s] # None
  BY <1>1, <1>3 DEF old
<1>19. OnlyLink(m, s) BY <1>3, <1>10, <1>12, <1>15, <1>16, Zenon DEF OnlyLink
<1> QED BY <1>2, <1>5, <1>8, <1>17, <1>18, <1>19, OneClientFrame, Zenon

\* freeClient on a replica preserves the invariant.
LEMMA FreeSlaveInv ==
  ASSUME Inv, NEW m \in Node, NEW s \in Node, FreeSlave(m, s)
  PROVE  Inv'
<1> DEFINE l == IF s \in Sockets(slaves[m]) THEN [link[s] EXCEPT !.open = FALSE] ELSE link[s]
<1>1. slaves[m][s] # None BY DEF FreeSlave
<1>2. slaves' = [slaves EXCEPT ![m] = [slaves[m] EXCEPT ![s] = None]] BY DEF FreeSlave
<1>3. link \in [Node -> Link \cup {None}] /\ faults' \in Nat BY DEF FreeSlave, Inv, TypeOK
<1>4. link' = [x \in Node |-> IF x = s THEN l ELSE link[x]] BY Zenon DEF FreeSlave, HungUp
<1>5. UNCHANGED <<data, identity, replica, child, ids, writes, pings, saves, commands, restarts>>
  BY DEF FreeSlave
<1>6. /\ l \in Link \cup {None}
      /\ l = link[s] \/ (link[s] # None /\ link[s].peer = m /\ l # None /\ LinkOrder(s)')
  <2>1. CASE s \in Sockets(slaves[m])
    <3>1. link[s] \in Link /\ link[s].peer = m BY <2>1, SocketsLinked DEF Inv
    <3>2. l \in Link /\ link'[s] = [link[s] EXCEPT !.open = FALSE]
      BY <1>4, <2>1, <3>1, Zenon DEF Link
    <3>3. link[s] # None /\ l # None BY <3>1, <3>2, NoneAssumption, Zenon
    <3>4. LinkOrder(s) BY <3>3 DEF Inv, RepliesInOrder
    <3>5. LinkOrder(s)' BY <1>5, <3>1, <3>2, <3>4, CloseOrder DEF replica
    <3> QED BY <3>1, <3>2, <3>3, <3>5
  <2>2. CASE s \notin Sockets(slaves[m]) BY <1>3, <2>2
  <2> QED BY <2>1, <2>2
<1> HIDE DEF l
<1>7. OnlyLink(m, s) BY <1>3, <1>4, <1>6 DEF OnlyLink
<1> QED BY <1>1, <1>2, <1>3, <1>5, <1>7, OneClientFrame, Zenon

-----------------------------------------------------------------------------
(* PSYNC and the replication stream *)

\* A replica s waits for m's answer to its PSYNC; lk is the connections once m has read it.
Asked(m, s, lk) ==
  /\ lk \in [Node -> Link \cup {None}] /\ slaves[m][s] = None
  /\ link[s] \in Link /\ link[s].peer = m /\ link[s].open /\ AwaitsReply(s)
  /\ link[s].req # None /\ (link[s].req.replid # None => cached[s] # None)
  /\ lk[s] \in Link /\ lk[s].peer = m /\ lk[s].open /\ lk[s].req = None /\ lk[s].q = link[s].q
  /\ \A x \in Node \ {s} : lk[x] = link[x]

\* A PSYNC that m is about to read comes from a replica that waits for the reply.
LEMMA AskedFact ==
  ASSUME Inv, NEW m \in Node, NEW s \in Node, SyncCommand(m, s)
  PROVE  Asked(m, s, [link EXCEPT ![s].req = None])
<1> DEFINE l == [link[s] EXCEPT !.req = None]
           lk == [link EXCEPT ![s] = l]
<1>1. /\ link[s] # None /\ link[s].peer = m /\ link[s].open /\ link[s].req # None
      /\ slaves[m][s] = None
  BY DEF SyncCommand
<1>2. link \in [Node -> Link \cup {None}] /\ link[s] \in Link BY <1>1 DEF Inv, TypeOK
<1>3. l \in Link /\ l.peer = m /\ l.open /\ l.req = None /\ l.q = link[s].q BY <1>1, <1>2 DEF Link
<1>4. LinkOrder(s) BY <1>1, ZenonT(30) DEF Inv, RepliesInOrder
<1>5. AwaitsReply(s) /\ (link[s].req.replid # None => cached[s] # None)
  BY <1>1, <1>4, Zenon DEF LinkOrder
<1> HIDE DEF l
<1>6. lk \in [Node -> Link \cup {None}] /\ lk[s] = l /\ \A x \in Node \ {s} : lk[x] = link[x]
  BY <1>2, <1>3
<1>7. lk = [link EXCEPT ![s].req = None] BY DEF l
<1> HIDE DEF lk
<1>8. Asked(m, s, lk) BY <1>1, <1>2, <1>3, <1>5, <1>6 DEF Asked
<1> QED BY <1>7, <1>8

\* m has sent its answer.
Answered(m, s, msgs) ==
  /\ link' \in [Node -> Link \cup {None}] /\ \A x \in Node \ {s} : link'[x] = link[x]
  /\ link'[s] # None /\ link'[s].peer = m /\ link'[s].open /\ link'[s].req = None
  /\ link'[s].q = link[s].q \o msgs

\* What an answer changes: the messages msgs are sent to the replica that asked.
LEMMA AnswerFacts ==
  ASSUME NEW m \in Node, NEW s \in Node, NEW lk, Asked(m, s, lk), NEW msgs \in Seq(Message),
         link' = Sent(lk, {s}, msgs)
  PROVE  Answered(m, s, msgs)
<1>1. lk \in [Node -> Link \cup {None}] /\ lk[s] \in Link BY DEF Asked
<1>2. /\ Sent(lk, {s}, msgs) \in [Node -> Link \cup {None}]
      /\ Sent(lk, {s}, msgs)[s] = Queued(lk[s], msgs)
      /\ \A x \in Node \ {s} : Sent(lk, {s}, msgs)[x] = lk[x]
  BY <1>1, SentOne, Zenon
<1>3. /\ Queued(lk[s], msgs) \in Link /\ Queued(lk[s], msgs).q = lk[s].q \o msgs
      /\ Queued(lk[s], msgs).peer = lk[s].peer
      /\ Queued(lk[s], msgs).open = lk[s].open /\ Queued(lk[s], msgs).req = lk[s].req
  BY <1>1, SentOne, Zenon
<1>4. /\ link' \in [Node -> Link \cup {None}] /\ link'[s] = Queued(lk[s], msgs)
      /\ \A x \in Node \ {s} : link'[x] = link[x]
  BY <1>2, Zenon DEF Asked
<1>5. Queued(lk[s], msgs) # None BY <1>3, NoneAssumption
<1> QED BY <1>3, <1>4, <1>5, Zenon DEF Asked, Answered

\* syncCommand makes a client of the connection.
LEMMA SlaveClientFacts ==
  ASSUME NEW st \in {"wait_bgsave_start", "wait_bgsave_end", "send_bulk", "online"}
  PROVE  /\ SlaveClient(st) \in Slave /\ SlaveClient(st).st = st /\ SlaveClient(st).sock
         /\ SlaveClient(st) # None
<1>1. <<>> \in Seq(Command) OBVIOUS
<1>2. SlaveClient(st) \in Slave BY <1>1 DEF SlaveClient, Slave
<1>3. SlaveClient(st).st = st /\ SlaveClient(st).sock BY DEF SlaveClient
<1> QED BY <1>2, <1>3, NoneAssumption

\* The stream from an offset the backlog holds.
LEMMA BacklogFromType ==
  ASSUME NEW b \in Backlog, NEW off \in Int, off >= b.off, off <= b.off + Len(b.buf)
  PROVE  BacklogFrom(b, off) \in Seq(Command)
<1>1. b.buf \in Seq(Command) /\ b.off \in Int /\ Len(b.buf) \in Nat BY DEF Backlog
<1>2. off - b.off + 1 \in 1..(Len(b.buf) + 1) BY <1>1
<1>3. ASSUME NEW q \in Seq(Command), NEW k \in 1..(Len(q) + 1) PROVE SubSeq(q, k, Len(q)) \in Seq(Command)
  OBVIOUS
<1> QED BY <1>1, <1>2, <1>3 DEF BacklogFrom

\* The clients and connections after the refusal of a partial resynchronization.
LEMMA FullResyncClients ==
  ASSUME Inv, NEW m \in Node, NEW s \in Node, NEW lk, Asked(m, s, lk), FullResync(m, s, lk),
         state' = state, cached' = cached, initial' = initial
  PROVE  /\ slaves' \in [Node -> [Node -> Slave \cup {None}]]
         /\ link' \in [Node -> Link \cup {None}] /\ child' \in [Node -> Child \cup {None}]
         /\ seldb' \in [Node -> SelDB] /\ faults' \in Nat
         /\ \A a \in Node \ {m} : slaves'[a] = slaves[a]
         /\ \A x \in Node : link'[x] # None <=> link[x] # None
         /\ RepliesInOrder'
<1> DEFINE id == IF slaves[m] = NoSlaves /\ backlog[m] = None THEN FreshId(m) ELSE replid[m]
           c == SlaveClient("wait_bgsave_start")
           row == [slaves[m] EXCEPT ![s] = c]
           Join(x) == /\ slaves' = [slaves EXCEPT ![m] = [slaves[m] EXCEPT ![s] = JoinBgsave(slaves[m][x])]]
                      /\ link' = Sent(lk, {s}, <<[t |-> "fullresync", replid |-> id,
                                                  reploff |-> slaves[m][x].initoff]>>)
                      /\ seldb' = [seldb EXCEPT ![m] = -1] /\ UNCHANGED <<child, faults>>
           Wait == /\ slaves' = [slaves EXCEPT ![m] = row] /\ link' = lk
                   /\ UNCHANGED <<child, seldb, faults>>
           Start == child[m] = None /\ StartBgsaveForReplication(m, row, lk, id, 0)
<1>1. \/ child[m] # None /\ \E x \in InState(slaves[m], "wait_bgsave_end") :
                              child[m].type = "disk" /\ Join(x)
      \/ Wait
      \/ Start
  BY Zenon DEF FullResync
<1>2. id \in Id BY Zenon DEF Inv, TypeOK, FreshId, Id
<1> HIDE DEF id
<1>3. TypeOK /\ RepliesInOrder BY DEF Inv
<1>4. c \in Slave /\ c.st = "wait_bgsave_start" /\ c.sock /\ c # None BY SlaveClientFacts
<1> HIDE DEF c
<1>5. Narrows(lk[s], link[s]) BY DEF Asked, Narrows, AwaitsReply
<1>6. ASSUME NEW x \in InState(slaves[m], "wait_bgsave_end"), child[m] # None,
             child[m].type = "disk", Join(x)
      PROVE  /\ slaves' \in [Node -> [Node -> Slave \cup {None}]]
             /\ link' \in [Node -> Link \cup {None}]
             /\ \A y \in Node : link'[y] # None <=> link[y] # None
             /\ RepliesInOrder'
  <2> DEFINE old == slaves[m][x]
             j == JoinBgsave(old)
             full == [t |-> "fullresync", replid |-> id, reploff |-> old.initoff]
  <2>1. old \in Slave BY <1>3 DEF InState, TypeOK
  <2>2. old.out \in Seq(Command) /\ old.initoff \in Int BY <2>1, Zenon DEF Slave
  <2>3. j \in Slave /\ j.st = "wait_bgsave_end" /\ j.sock /\ j # None
    <3> DEFINE c0 == SlaveClient("wait_bgsave_end")
               c1 == [c0 EXCEPT !.out = old.out]
    <3>1. c0 \in Slave /\ c0.st = "wait_bgsave_end" /\ c0.sock BY SlaveClientFacts
    <3> HIDE DEF c0
    <3>2. c1 \in Slave /\ c1.st = "wait_bgsave_end" /\ c1.sock BY <2>2, <3>1 DEF Slave
    <3>3. j = [c1 EXCEPT !.initoff = old.initoff] BY DEF JoinBgsave, CopyClientOutputBuffer, c0
    <3> HIDE DEF c1
    <3> QED BY <2>2, <3>2, <3>3, NoneAssumption DEF Slave
  <2>4. full \in Full BY <1>2, <2>2 DEF Full
  <2>5. link' = Sent(lk, {s}, <<full>>) BY <1>6
  <2>6. slaves' = [slaves EXCEPT ![m] = [slaves[m] EXCEPT ![s] = j]] BY <1>6
  <2> HIDE DEF j, full
  <2>7. <<full>> \in Seq(Message)
    <3>1. full \in Message BY <2>4 DEF Message
    <3> QED BY <3>1
  <2>8. /\ link' \in [Node -> Link \cup {None}] /\ \A y \in Node \ {s} : link'[y] = link[y]
        /\ link'[s] # None /\ link'[s].peer = m /\ link'[s].open /\ link'[s].req = None
        /\ link'[s].q = link[s].q \o <<full>>
    <3>1. Answered(m, s, <<full>>) BY <2>5, <2>7, AnswerFacts, Zenon
    <3> QED BY <3>1 DEF Answered
  <2>9. AwaitsReply(s) /\ link[s] # None /\ link[s].peer = m BY NoneAssumption DEF Asked
  <2>10. AwaitsPayload(s)' BY <2>4, <2>8, <2>9, SendFull, Zenon
  <2>11. OnlyLink(m, s) BY <2>8, <2>9, <2>10, Zenon DEF OnlyLink, LinkOrder
  <2>12. slaves'[m][s] = j BY <1>3, <2>6 DEF TypeOK
  <2>13. ClientOrder(m, s)'
    <3>1. ~child'[m].sent BY <1>3, <1>6 DEF RepliesInOrder
    <3> QED BY <2>3, <2>8, <2>10, <2>12, <3>1 DEF ClientOrder
  <2>14. child' = child BY <1>6
  <2> QED BY <1>3, <1>6, <2>3, <2>6, <2>8, <2>11, <2>13, <2>14, OneClientStep, ZenonT(30)
<1>7. ASSUME Wait
      PROVE  /\ slaves' \in [Node -> [Node -> Slave \cup {None}]]
             /\ link' \in [Node -> Link \cup {None}]
             /\ \A y \in Node : link'[y] # None <=> link[y] # None
             /\ RepliesInOrder'
  <2>1. link' = lk /\ child' = child BY <1>7
  <2>2. slaves' = [slaves EXCEPT ![m] = [slaves[m] EXCEPT ![s] = c]] BY <1>7
  <2>3. link[s] # None /\ link'[s] # None /\ LinkOrder(s)' BY <1>3, <1>5, <2>1, NarrowedLink
  <2>4. OnlyLink(m, s) BY <2>1, <2>3 DEF OnlyLink, Asked
  <2>5. slaves'[m][s] = c BY <1>3, <2>2 DEF TypeOK
  <2>6. AwaitsReply(s)' BY <2>1 DEF Asked, AwaitsReply
  <2>7. ClientOrder(m, s)' BY <1>4, <2>1, <2>3, <2>5, <2>6, ZenonT(30) DEF ClientOrder, Asked
  <2> QED BY <1>3, <1>4, <2>1, <2>2, <2>4, <2>7, OneClientStep, ZenonT(30) DEF OnlyLink
<1>8. ASSUME Start
      PROVE  Prepared(m, row, lk)
  <2>1. Prepared(m, slaves[m], link) BY <1>8, PreparedNow
  <2>2. /\ row \in [Node -> Slave \cup {None}] /\ row[s] = c
        /\ \A x \in Node \ {s} : row[x] = slaves[m][x]
    BY <1>3, <1>4 DEF TypeOK
  <2> HIDE DEF row
  <2>3. ASSUME NEW x \in Node, row[x] # None PROVE Stage(row[x], x)
    <3>1. CASE x = s BY <1>4, <2>2, <3>1 DEF Stage, Asked
    <3>2. CASE x # s BY <2>1, <2>2, <2>3, <3>2 DEF Prepared
    <3> QED BY <3>1, <3>2
  <2>4. ASSUME NEW x \in Sockets(row)
        PROVE  /\ lk[x] # None /\ lk[x].peer = m /\ lk[x].open /\ lk[x].req = None
               /\ link[x] # None /\ lk[x].q = link[x].q
    <3>1. CASE x = s BY <3>1, NoneAssumption DEF Asked
    <3>2. CASE x # s
      <4>1. x \in Sockets(slaves[m]) /\ x \in Node BY <2>2, <3>2 DEF Sockets
      <4>2. link[x] # None /\ link[x].peer = m /\ link[x].open /\ link[x].req = None
        BY <2>1, <4>1 DEF Prepared
      <4>3. lk[x] = link[x] BY <3>2, <4>1 DEF Asked
      <4> QED BY <4>2, <4>3
    <3> QED BY <3>1, <3>2
  <2>5. \A x \in Node : lk[x] = link[x] \/ (Narrows(lk[x], link[x]) /\ link[x].peer = m)
    BY <1>5 DEF Asked
  <2> QED BY <2>2, <2>3, <2>4, <2>5, Zenon DEF Prepared, Asked
<1>9. CASE Start BY <1>2, <1>3, <1>8, <1>9, StartBgsaveStep, Zenon
<1>10. CASE Wait
  <2>1. seldb' \in [Node -> SelDB] /\ faults' \in Nat /\ child' \in [Node -> Child \cup {None}]
        /\ \A a \in Node \ {m} : slaves'[a] = slaves[a]
    BY <1>3, <1>10 DEF TypeOK
  <2> QED BY <1>7, <1>10, <2>1, Zenon
<1>11. ASSUME NEW x \in InState(slaves[m], "wait_bgsave_end"), child[m] # None,
              child[m].type = "disk", Join(x)
       PROVE  /\ seldb' \in [Node -> SelDB] /\ faults' \in Nat /\ child' \in [Node -> Child \cup {None}]
              /\ \A a \in Node \ {m} : slaves'[a] = slaves[a]
  <2>1. seldb' = [seldb EXCEPT ![m] = -1] /\ child' = child /\ faults' = faults BY <1>11
  <2>2. seldb' \in [Node -> SelDB] BY <1>3, <2>1 DEF TypeOK, SelDB
  <2>3. \A a \in Node \ {m} : slaves'[a] = slaves[a] BY <1>3, <1>11 DEF TypeOK
  <2> QED BY <1>3, <2>1, <2>2, <2>3, Zenon DEF TypeOK
<1> QED BY <1>1, <1>6, <1>9, <1>10, <1>11, ZenonT(30)

\* PSYNC and SYNC (syncCommand) preserve the invariant.
LEMMA SyncCommandInv ==
  ASSUME Inv, NEW m \in Node, NEW s \in Node, SyncCommand(m, s)
  PROVE  Inv'
<1> DEFINE r == link[s].req
           lk == [link EXCEPT ![s].req = None]
           nml == [t |-> "nomasterlink"]
           cont == [t |-> "continue", replid |-> replid[m]]
           from == BacklogFrom(backlog[m], r.off)
           Refuse == /\ link' = Sent(lk, {s}, <<nml>>)
                     /\ UNCHANGED <<identity, slaves, child, ids, faults>>
           Accept == /\ PsyncAccepted(m, r)
                     /\ slaves' = [slaves EXCEPT ![m] = [slaves[m] EXCEPT ![s] = SlaveClient("online")]]
                     /\ link' = Sent(lk, {s}, <<cont>> \o from)
                     /\ UNCHANGED <<identity, child, ids, faults>>
           Resync == FullResync(m, s, lk) /\ UNCHANGED offset
<1>1. Refuse \/ Accept \/ Resync BY DEF SyncCommand
<1>2. UNCHANGED <<data, replica, writes, pings, saves, commands, restarts>> BY DEF SyncCommand
<1>3. Asked(m, s, lk) BY AskedFact
<1> HIDE DEF lk
<1>4. TypeOK /\ RepliesInOrder BY DEF Inv
<1>5. state' = state /\ cached' = cached /\ initial' = initial /\ host' = host /\ master' = master
  BY <1>2 DEF replica
<1>6. link[s] # None /\ link[s].peer = m /\ AwaitsReply(s) /\ slaves[m][s] = None
  BY <1>3, NoneAssumption DEF Asked
<1>7. CASE Refuse
  <2>1. nml \in Refusal /\ <<nml>> \in Seq(Message)
    <3>1. nml \in Refusal BY DEF Refusal
    <3>2. nml \in Message BY <3>1 DEF Message
    <3> QED BY <3>1, <3>2
  <2> HIDE DEF nml
  <2>2. Answered(m, s, <<nml>>) BY <1>3, <1>7, <2>1, AnswerFacts, Zenon
  <2>3. Refused(s)' BY <1>5, <1>6, <2>1, <2>2, SendRefusal DEF Answered
  <2>4. OnlyLink(m, s) BY <1>6, <2>2, <2>3, Zenon DEF OnlyLink, Answered, LinkOrder
  <2>5. slaves' = [slaves EXCEPT ![m] = [slaves[m] EXCEPT ![s] = None]]
    BY <1>4, <1>6, <1>7, Zenon DEF TypeOK
  <2>6. child' = child /\ slaves' = slaves /\ faults' = faults /\ seldb' = seldb BY <1>7 DEF identity
  <2>7. /\ slaves' \in [Node -> [Node -> Slave \cup {None}]]
        /\ \A x \in Node : link'[x] # None <=> link[x] # None
        /\ RepliesInOrder'
    BY <1>4, <1>5, <2>4, <2>5, <2>6, OneClientStep
  <2>8. child' \in [Node -> Child \cup {None}] /\ seldb' \in [Node -> SelDB] /\ faults' \in Nat
    BY <1>4, <2>6 DEF TypeOK
  <2> QED BY <1>2, <1>7, <2>4, <2>6, <2>7, <2>8, MasterFrame, Zenon DEF identity, OnlyLink
<1>8. CASE Accept
  <2>1. replid[m] \in Id /\ r \in Psync BY <1>3, <1>4 DEF TypeOK, Asked, Link
  <2>2. r.replid # None /\ backlog[m] # None /\ r.off >= backlog[m].off
        /\ r.off <= backlog[m].off + Len(backlog[m].buf)
    BY <1>8, <2>1, NoneAssumption DEF PsyncAccepted
  <2>3. cached[s] # None BY <1>3, <2>2, ZenonT(30) DEF Asked
  <2>4. from \in Seq(Command)
    <3>1. backlog[m] \in Backlog /\ r.off \in Int BY <1>4, <2>1, <2>2, ZenonT(30) DEF TypeOK, Psync
    <3> QED BY <2>2, <3>1, BacklogFromType
  <2>5. cont \in Continue BY <2>1, Zenon DEF Continue
  <2>6. slaves' = [slaves EXCEPT ![m] = [slaves[m] EXCEPT ![s] = SlaveClient("online")]]
        /\ link' = Sent(lk, {s}, <<cont>> \o from)
    BY <1>8
  <2> DEFINE msgs == <<cont>> \o from
             c == SlaveClient("online")
  <2> HIDE DEF cont, from
  <2>7. msgs \in Seq(Message)
    <3>1. cont \in Message /\ from \in Seq(Message) BY <2>4, <2>5 DEF Message
    <3> QED BY <3>1
  <2>8. link' = Sent(lk, {s}, msgs) BY <2>6
  <2>9. c \in Slave /\ c.st = "online" /\ c # None BY SlaveClientFacts
  <2>10. slaves'[m][s] = c BY <1>4, <2>6 DEF TypeOK
  <2> HIDE DEF c
  <2>11. Answered(m, s, msgs)
    <3> HIDE DEF msgs
    <3> QED BY <1>3, <2>7, <2>8, AnswerFacts
  <2>12. FollowsStream(s)'
    <3>1. link'[s].q = link[s].q \o (<<cont>> \o from) BY <2>11 DEF Answered
    <3> QED BY <1>5, <1>6, <2>3, <2>4, <2>5, <3>1, SendContinue, Zenon
  <2> HIDE DEF msgs
  <2>13. OnlyLink(m, s) BY <1>6, <2>11, <2>12, Zenon DEF OnlyLink, Answered, LinkOrder
  <2>14. ClientOrder(m, s)' BY <2>9, <2>10, <2>11, <2>12, Zenon DEF ClientOrder, Answered
  <2>15. child' = child /\ faults' = faults /\ UNCHANGED identity /\ ids' = ids BY <1>8
  <2>16. slaves' = [slaves EXCEPT ![m] = [slaves[m] EXCEPT ![s] = c]] BY <2>6 DEF c
  <2>17. /\ slaves' \in [Node -> [Node -> Slave \cup {None}]]
         /\ \A x \in Node : link'[x] # None <=> link[x] # None
         /\ RepliesInOrder'
    BY <1>4, <1>5, <2>9, <2>13, <2>14, <2>15, <2>16, OneClientStep, Zenon
  <2>18. TypeOK'
    BY <1>2, <1>4, <2>13, <2>15, <2>17, Zenon DEF TypeOK, identity, replica, OnlyLink
  <2>19. ASSUME NEW a \in Node, slaves'[a] # NoSlaves PROVE backlog'[a] # None
    <3>1. backlog' = backlog BY <2>15 DEF identity
    <3>2. CASE a = m BY <2>2, <3>1, <3>2
    <3>3. CASE a # m
      <4>1. slaves'[a] = slaves[a] BY <1>4, <2>16, <3>3 DEF TypeOK
      <4> QED BY <2>19, <3>1, <4>1 DEF Inv, AssertionsHold
    <3> QED BY <3>2, <3>3
  <2>20. AssertionsHold' BY <1>5, <2>17, <2>19, FrameAssertions, Zenon DEF Inv
  <2> QED BY <2>17, <2>18, <2>20 DEF Inv
<1>9. CASE Resync
  <2>1. /\ slaves' \in [Node -> [Node -> Slave \cup {None}]]
        /\ link' \in [Node -> Link \cup {None}] /\ child' \in [Node -> Child \cup {None}]
        /\ seldb' \in [Node -> SelDB] /\ faults' \in Nat
        /\ \A a \in Node \ {m} : slaves'[a] = slaves[a]
        /\ \A x \in Node : link'[x] # None <=> link[x] # None
        /\ RepliesInOrder'
    BY <1>3, <1>5, <1>9, FullResyncClients, ZenonT(30)
  <2> DEFINE fresh == slaves[m] = NoSlaves /\ backlog[m] = None
             b == [off |-> offset[m] + 1, buf |-> <<>>]
  <2>2. \/ ~fresh /\ UNCHANGED <<replid, ids, replid2, secondoff, backlog>>
        \/ /\ replid' = [replid EXCEPT ![m] = FreshId(m)]
           /\ ids' = [ids EXCEPT ![m] = @ + 1]
           /\ replid2' = [replid2 EXCEPT ![m] = None]
           /\ secondoff' = [secondoff EXCEPT ![m] = -1]
           /\ backlog' = [backlog EXCEPT ![m] = b]
    BY <1>9 DEF FullResync
  <2>3. b \in Backlog /\ b # None
    <3>1. offset[m] + 1 \in Int /\ <<>> \in Seq(Command) BY <1>4 DEF TypeOK
    <3>2. b \in Backlog BY <3>1, Zenon DEF Backlog
    <3> QED BY <3>2, NoneAssumption
  <2> HIDE DEF b
  <2>4. /\ replid' \in [Node -> Id] /\ ids' \in [Node -> Nat] /\ replid2' \in [Node -> Id \cup {None}]
        /\ secondoff' \in [Node -> Int] /\ backlog' \in [Node -> Backlog \cup {None}]
    <3>1. FreshId(m) \in Id BY <1>4 DEF FreshId, Id, TypeOK
    <3>2. /\ replid \in [Node -> Id] /\ ids \in [Node -> Nat] /\ replid2 \in [Node -> Id \cup {None}]
          /\ secondoff \in [Node -> Int] /\ backlog \in [Node -> Backlog \cup {None}]
      BY <1>4 DEF TypeOK
    <3> QED BY <2>2, <2>3, <3>1, <3>2
  <2>5. TypeOK' BY <1>2, <1>4, <1>9, <2>1, <2>4 DEF TypeOK, replica
  <2>6. ASSUME NEW a \in Node, slaves'[a] # NoSlaves PROVE backlog'[a] # None
    <3>1. backlog \in [Node -> Backlog \cup {None}] BY <1>4 DEF TypeOK
    <3>2. CASE a = m BY <2>2, <2>3, <3>1, <3>2 DEF Inv, AssertionsHold
    <3>3. CASE a # m
      <4>1. slaves[a] # NoSlaves BY <2>1, <2>6, <3>3
      <4>2. backlog[a] # None BY <4>1 DEF Inv, AssertionsHold
      <4> QED BY <2>2, <3>1, <3>3, <4>2
    <3> QED BY <3>2, <3>3
  <2>7. AssertionsHold' BY <1>5, <2>1, <2>6, FrameAssertions DEF Inv
  <2> QED BY <2>1, <2>5, <2>7 DEF Inv
<1> QED BY <1>1, <1>7, <1>8, <1>9

-----------------------------------------------------------------------------
\* feedReplicationBacklog keeps a backlog a backlog.
LEMMA FeedBacklogType ==
  ASSUME TypeOK, NEW n \in Node, NEW cmds \in Seq(Command), FeedReplicationBacklog(n, cmds)
  PROVE  /\ offset' \in [Node -> Int] /\ backlog' \in [Node -> Backlog \cup {None}]
         /\ \A a \in Node : backlog[a] # None => backlog'[a] # None
<1>1. offset \in [Node -> Int] /\ backlog \in [Node -> Backlog \cup {None}] BY DEF TypeOK
<1>2. CASE backlog[n] = None BY <1>1, <1>2 DEF FeedReplicationBacklog
<1>3. CASE backlog[n] # None
  <2> DEFINE buf == backlog[n].buf \o cmds
             kept == IF Len(buf) > BacklogSize
                     THEN SubSeq(buf, Len(buf) - BacklogSize + 1, Len(buf)) ELSE buf
             off == offset[n] + Len(cmds)
             b == [off |-> off - Len(kept) + 1, buf |-> kept]
  <2>1. offset' = [offset EXCEPT ![n] = off] /\ backlog' = [backlog EXCEPT ![n] = b]
    BY <1>3, Zenon DEF FeedReplicationBacklog
  <2>2. off \in Int BY <1>1
  <2>3. backlog[n].buf \in Seq(Command) BY <1>1, <1>3 DEF Backlog
  <2>4. buf \in Seq(Command) BY <2>3
  <2> HIDE DEF off, buf
  <2>5. kept \in Seq(Command)
    <3>1. Len(buf) \in Nat /\ BacklogSize \in Nat \ {0} BY <2>4, ConstantsAssumption
    <3>2. CASE Len(buf) > BacklogSize
      <4>1. Len(buf) - BacklogSize + 1 \in 1..(Len(buf) + 1) BY <3>1, <3>2
      <4>2. ASSUME NEW q \in Seq(Command), NEW k \in 1..(Len(q) + 1)
            PROVE  SubSeq(q, k, Len(q)) \in Seq(Command)
        OBVIOUS
      <4> QED BY <2>4, <3>2, <4>1, <4>2
    <3>3. CASE ~(Len(buf) > BacklogSize) BY <2>4, <3>3
    <3> QED BY <3>2, <3>3
  <2> HIDE DEF kept
  <2>6. b \in Backlog
    <3>1. Len(kept) \in Nat BY <2>5
    <3>2. off - Len(kept) + 1 \in Int BY <2>2, <3>1
    <3> QED BY <2>5, <3>2 DEF Backlog
  <2>7. b # None BY <2>6, NoneAssumption
  <2> HIDE DEF b
  <2> QED BY <1>1, <2>1, <2>2, <2>6, <2>7
<1> QED BY <1>2, <1>3

\* A step of the stream keeps the facts that are not about connections.
LEMMA FedAssertions ==
  ASSUME AssertionsHold, host' = host, state' = state, cached' = cached,
         \A n \in Node : master'[n] # None <=> master[n] # None,
         \A n \in Node : link'[n] # None <=> link[n] # None,
         \A n \in Node : slaves'[n] # NoSlaves => slaves[n] # NoSlaves,
         \A n \in Node : backlog[n] # None => backlog'[n] # None
  PROVE  AssertionsHold'
BY DEF AssertionsHold

\* What replicationFeedSlaves does, for a command in a database or a PING.
Fed == /\ offset' \in [Node -> Int] /\ backlog' \in [Node -> Backlog \cup {None}]
       /\ seldb' \in [Node -> SelDB] /\ slaves' \in [Node -> [Node -> Slave \cup {None}]]
       /\ link' \in [Node -> Link \cup {None}]
       /\ AssertionsHold' /\ RepliesInOrder'

\* Feeding the stream to the clients of m keeps the order of the replies.
LEMMA FeedSlavesStep ==
  ASSUME Inv, NEW m \in Node, NEW d \in SelDB, d \in DB \/ d = seldb[m], NEW cmd \in Command,
         ReplicationFeedSlaves(m, d, cmd), UNCHANGED <<replica, child>>
  PROVE  Fed
<1>1. TypeOK /\ RepliesInOrder /\ AssertionsHold BY DEF Inv
<1>2. state' = state /\ cached' = cached /\ initial' = initial /\ host' = host /\ master' = master
  BY DEF replica
<1>3. CASE slaves[m] = NoSlaves /\ backlog[m] = None
  <2>1. UNCHANGED <<offset, backlog, seldb, slaves, link>>
    BY <1>3, ZenonT(30) DEF ReplicationFeedSlaves
  <2>2. AssertionsHold' BY <1>1, <1>2, <2>1, FedAssertions, ZenonT(30)
  <2>3. ASSUME NEW s \in Node, link[s] # None
        PROVE  LinkOrder(s)' /\ Keeps(s)
    <3>1. LinkOrder(s) BY <1>1, <2>3, ZenonT(30) DEF RepliesInOrder
    <3> QED BY <1>2, <2>1, <2>3, <3>1, FrameOrder, FrameKeeps, ZenonT(30)
  <2>4. ASSUME NEW a \in Node, NEW s \in Node, slaves[a][s] # None, slaves[a][s].sock
        PROVE  ClientOrder(a, s)'
    <3>1. ClientOrder(a, s) BY <1>1, <2>4, ZenonT(30) DEF RepliesInOrder
    <3>2. Keeps(s) BY <2>3, <3>1 DEF ClientOrder
    <3> QED BY <2>1, <3>1, <3>2, KeepOrder, ZenonT(30)
  <2>5. RepliesInOrder' BY <1>1, <2>1, <2>3, <2>4, ZenonT(30) DEF RepliesInOrder
  <2> QED BY <1>1, <2>1, <2>2, <2>5 DEF Fed, TypeOK
<1>4. CASE ~(slaves[m] = NoSlaves /\ backlog[m] = None)
  <2> DEFINE cmds == IF seldb[m] # d THEN <<[t |-> "select", db |-> d], cmd>> ELSE <<cmd>>
  <2>1. /\ FeedReplicationBacklog(m, cmds) /\ FeedClients(m, cmds, link)
        /\ seldb' = [seldb EXCEPT ![m] = d]
    BY <1>4, Zenon DEF ReplicationFeedSlaves
  <2>2. cmds \in Seq(Command)
    <3>1. CASE seldb[m] # d
      <4>1. [t |-> "select", db |-> d] \in Command BY <3>1 DEF Command
      <4> QED BY <3>1, <4>1
    <3>2. CASE seldb[m] = d BY <3>2
    <3> QED BY <3>1, <3>2
  <2> HIDE DEF cmds
  <2>3. /\ offset' \in [Node -> Int] /\ backlog' \in [Node -> Backlog \cup {None}]
        /\ \A a \in Node : backlog[a] # None => backlog'[a] # None
    BY <1>1, <2>1, <2>2, FeedBacklogType, Zenon
  <2>4. link \in [Node -> Link \cup {None}] BY <1>1 DEF TypeOK
  <2>5. /\ slaves' \in [Node -> [Node -> Slave \cup {None}]]
        /\ link' \in [Node -> Link \cup {None}]
        /\ \A s \in Node : link'[s] # None <=> link[s] # None
        /\ \A a \in Node : slaves'[a] # NoSlaves => slaves[a] # NoSlaves
        /\ RepliesInOrder'
    BY <1>1, <1>2, <2>1, <2>2, <2>4, FeedClientsStep
  <2>6. AssertionsHold' BY <1>1, <1>2, <2>3, <2>5, FedAssertions, Zenon
  <2>7. seldb' \in [Node -> SelDB] BY <1>1, <2>1 DEF TypeOK
  <2> QED BY <2>3, <2>5, <2>6, <2>7 DEF Fed
<1> QED BY <1>3, <1>4

\* A write of a client, propagated (replicationFeedSlaves), preserves the invariant.
LEMMA ClientWriteInv ==
  ASSUME Inv, NEW m \in Node, NEW d \in DB, ClientWrite(m, d)
  PROVE  Inv'
<1> DEFINE w == <<m, writes[m]>>
           cmd == [t |-> "write", w |-> w]
<1>1. /\ data' = [data EXCEPT ![m] = Append(@, <<d, w>>)]
      /\ writes' = [writes EXCEPT ![m] = @ + 1]
      /\ ReplicationFeedSlaves(m, d, cmd)
      /\ UNCHANGED <<replid, replid2, secondoff, replica, child, ids, bounds>>
  BY DEF ClientWrite
<1>2. TypeOK BY DEF Inv
<1>3. w \in Write BY <1>2 DEF Write, TypeOK
<1>4. cmd \in Command /\ d \in SelDB BY <1>3, Zenon DEF Command, SelDB
<1> HIDE DEF w
<1>5. data' \in [Node -> Dataset]
  <2>1. data \in [Node -> Dataset] BY <1>2 DEF TypeOK
  <2>2. <<d, w>> \in DB \X Write BY <1>3
  <2>3. Append(data[m], <<d, w>>) \in Dataset BY <2>1, <2>2 DEF Dataset
  <2> QED BY <1>1, <2>1, <2>3
<1>6. writes' \in [Node -> Nat]
  <2>1. writes \in [Node -> Nat] BY <1>2 DEF TypeOK
  <2> QED BY <1>1, <2>1
<1> HIDE DEF cmd
<1>7. Fed
  <2>1. UNCHANGED <<replica, child>> BY <1>1
  <2> QED BY <1>1, <1>4, <2>1, FeedSlavesStep
<1>8. TypeOK' BY <1>1, <1>2, <1>5, <1>6, <1>7, Zenon DEF TypeOK, Fed, replica, bounds
<1> QED BY <1>7, <1>8 DEF Inv, Fed

\* The PING of replicationCron preserves the invariant.
LEMMA CronPingInv ==
  ASSUME Inv, NEW m \in Node, CronPing(m)
  PROVE  Inv'
<1> DEFINE cmd == [t |-> "ping"]
<1>1. /\ pings' = pings + 1 /\ ReplicationFeedSlaves(m, seldb[m], cmd)
      /\ UNCHANGED <<data, replid, replid2, secondoff, replica, child, ids, writes, saves, faults,
                     commands, restarts>>
  BY DEF CronPing
<1>2. TypeOK BY DEF Inv
<1>3. cmd \in Command BY DEF Command
<1>4. seldb[m] \in SelDB /\ pings' \in Nat
  <2>1. seldb \in [Node -> SelDB] /\ pings \in Nat BY <1>2 DEF TypeOK
  <2> QED BY <1>1, <2>1
<1> HIDE DEF cmd
<1>5. Fed
  <2>1. UNCHANGED <<replica, child>> BY <1>1
  <2> QED BY <1>1, <1>3, <1>4, <2>1, FeedSlavesStep
<1>6. TypeOK' BY <1>1, <1>2, <1>4, <1>5 DEF TypeOK, Fed, replica
<1> QED BY <1>5, <1>6 DEF Inv, Fed

\* One command of the stream is applied.
LEMMA ApplyType ==
  ASSUME NEW ds \in Dataset, NEW db \in DB, NEW cmd \in Command, NEW st,
         st = Apply([data |-> ds, db |-> db], cmd)
  PROVE  st.data \in Dataset /\ st.db \in DB
<1>1. CASE cmd.t = "select"
  <2>1. cmd.db \in DB BY <1>1 DEF Command
  <2>2. st = [data |-> ds, db |-> cmd.db] BY <1>1 DEF Apply
  <2> QED BY <2>1, <2>2
<1>2. CASE cmd.t = "write"
  <2>1. cmd.w \in Write BY <1>2 DEF Command
  <2>2. st = [data |-> Append(ds, <<db, cmd.w>>), db |-> db] BY <1>2 DEF Apply
  <2>3. Append(ds, <<db, cmd.w>>) \in Dataset BY <2>1 DEF Dataset
  <2>4. st.data = Append(ds, <<db, cmd.w>>) /\ st.db = db BY <2>2
  <2> QED BY <2>3, <2>4, Zenon
<1>3. CASE cmd.t = "ping"
  <2>1. st = [data |-> ds, db |-> db] BY <1>3 DEF Apply
  <2> QED BY <2>1
<1> QED BY <1>1, <1>2, <1>3, Zenon DEF Command

\* A replica that applies and relays a command of its master preserves the invariant.
LEMMA ReadQueryFromMasterInv ==
  ASSUME Inv, NEW n \in Node, ReadQueryFromMaster(n)
  PROVE  Inv'
<1> DEFINE cmd == Head1(n)
           st == Apply([data |-> data[n], db |-> master[n].db], cmd)
           lk == Popped(link, n)
           old == master[n]
           mid == [old EXCEPT !.db = st.db]
           new == [mid EXCEPT !.reploff = @ + 1]
<1>1. TypeOK /\ RepliesInOrder /\ AssertionsHold BY DEF Inv
<1>2. state[n] = "connected" /\ link[n] # None /\ link[n].q # <<>>
  BY DEF ReadQueryFromMaster, Readable
<1>3. link \in [Node -> Link \cup {None}] /\ link[n] \in Link /\ link[n].q \in Seq(Message)
  BY <1>1, <1>2 DEF TypeOK, Link
<1>4. FollowsStream(n) /\ StreamFrom(link[n].q, 1)
  <2>1. LinkOrder(n) BY <1>1, <1>2, ZenonT(30) DEF RepliesInOrder
  <2> QED
    BY <1>2, <2>1, ZenonT(30) DEF LinkOrder, AwaitsReply, AwaitsPayload, FollowsStream, Refused
<1>5. cmd \in Command
  <2>1. Head(link[n].q) = link[n].q[1] /\ Len(link[n].q) >= 1 BY <1>2, <1>3, TailFacts
  <2>2. 1 \in 1..Len(link[n].q) BY <1>3, <2>1
  <2> QED BY <1>4, <2>1, <2>2, Zenon DEF Head1, StreamFrom
<1>6. old \in Master
  <2>1. old # None BY <1>1, <1>2, Zenon DEF AssertionsHold
  <2> QED BY <1>1, <2>1 DEF TypeOK
<1>7. st.data \in Dataset /\ st.db \in DB
  <2>1. data[n] \in Dataset /\ master[n].db \in DB BY <1>1, <1>6 DEF TypeOK, Master
  <2> HIDE DEF cmd
  <2> QED BY <1>5, <2>1, ApplyType
<1>8. /\ data' = [data EXCEPT ![n] = st.data]
      /\ master' = [master EXCEPT ![n].db = st.db, ![n].reploff = @ + 1]
      /\ FeedReplicationBacklog(n, <<cmd>>) /\ FeedClients(n, <<cmd>>, lk)
      /\ UNCHANGED <<replid, replid2, secondoff, seldb, host, state, cached, initial, child, ids,
                     writes, bounds>>
  BY DEF ReadQueryFromMaster
<1> HIDE DEF cmd, st
<1>9. data' \in [Node -> Dataset] BY <1>1, <1>7, <1>8 DEF TypeOK
<1>10. master \in [Node -> Master \cup {None}] BY <1>1 DEF TypeOK
<1>11. master' = [master EXCEPT ![n] = new] BY <1>8, <1>10, Zenon
<1>12. new \in Master
  <2>1. mid \in Master BY <1>6, <1>7 DEF Master
  <2> HIDE DEF mid
  <2>2. mid.reploff + 1 \in Int BY <2>1 DEF Master
  <2> QED BY <2>1, <2>2 DEF Master
<1>13. new # None /\ old # None BY <1>6, <1>12, NoneAssumption
<1> HIDE DEF new
<1>14. master' \in [Node -> Master \cup {None}] /\ \A a \in Node : master'[a] # None <=> master[a] # None
  BY <1>10, <1>11, <1>12, <1>13
<1>15. <<cmd>> \in Seq(Command) BY <1>5
<1>16. /\ offset' \in [Node -> Int] /\ backlog' \in [Node -> Backlog \cup {None}]
       /\ \A a \in Node : backlog[a] # None => backlog'[a] # None
  BY <1>1, <1>8, <1>15, FeedBacklogType, Zenon
<1>17. /\ lk \in [Node -> Link \cup {None}]
       /\ \A s \in Node : /\ lk[s] # None <=> link[s] # None
                          /\ lk[s] = link[s] \/ (/\ FollowsStream(s) /\ link[s] # None
                                                 /\ state[s] = "connected" /\ link[s].q # <<>>
                                                 /\ lk[s] = [link[s] EXCEPT !.q = Tail(@)])
  <2> DEFINE l == [link[n] EXCEPT !.q = Tail(@)]
  <2>1. Tail(link[n].q) \in Seq(Message) BY <1>2, <1>3, TailFacts
  <2>2. l \in Link BY <1>3, <2>1 DEF Link
  <2>3. l # None BY <2>2, NoneAssumption, Zenon
  <2>4. lk = [link EXCEPT ![n] = l] BY <1>3 DEF Popped
  <2>5. lk[n] = l /\ \A s \in Node \ {n} : lk[s] = link[s] BY <1>3, <2>4
  <2>6. lk \in [Node -> Link \cup {None}] BY <1>3, <2>2, <2>4
  <2> HIDE DEF lk
  <2> QED BY <1>2, <1>4, <2>3, <2>5, <2>6
<1> HIDE DEF lk
<1>18. child' = child /\ state' = state /\ cached' = cached /\ initial' = initial /\ host' = host BY <1>8
<1>19. /\ slaves' \in [Node -> [Node -> Slave \cup {None}]]
       /\ link' \in [Node -> Link \cup {None}]
       /\ \A s \in Node : link'[s] # None <=> link[s] # None
       /\ \A a \in Node : slaves'[a] # NoSlaves => slaves[a] # NoSlaves
       /\ RepliesInOrder'
  BY <1>1, <1>8, <1>15, <1>17, <1>18, FeedClientsStep, Zenon
<1>20. AssertionsHold' BY <1>1, <1>14, <1>16, <1>18, <1>19, FedAssertions
<1>21. TypeOK' BY <1>1, <1>8, <1>9, <1>14, <1>16, <1>19, Zenon DEF TypeOK, bounds
<1> QED BY <1>19, <1>20, <1>21 DEF Inv
=============================================================================
