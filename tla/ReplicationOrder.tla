-------------------------- MODULE ReplicationOrder --------------------------
(* What the steps of Replication do to the connections: lemmas on types and on RepliesInOrder; *)
(* the invariant, and the handlers of a master that start a BGSAVE preserve it.                *)
EXTENDS Replication, TLAPS

\* Both provers are given 15 seconds for a leaf.
USE SMTT(15), ZenonT(15)

-----------------------------------------------------------------------------
(* The messages *)

\* The tag of a message tells its kind.
LEMMA MessageKinds ==
  ASSUME NEW x \in Message
  PROVE  /\ x \in Full <=> x.t = "fullresync"
         /\ x \in Continue <=> x.t = "continue"
         /\ x \in Payload <=> x.t = "rdb"
         /\ x \in Refusal <=> x.t = "nomasterlink"
         /\ x \in Command <=> x.t \in {"select", "write", "ping"}
BY DEF Message, Full, Continue, Payload, Refusal, Command

\* Reading one message.
LEMMA TailFacts ==
  ASSUME NEW q \in Seq(Message), q # <<>>
  PROVE  /\ Head(q) = q[1] /\ q[1] \in Message /\ Len(q) >= 1
         /\ Tail(q) \in Seq(Message) /\ Len(Tail(q)) = Len(q) - 1
         /\ \A i \in 1..Len(Tail(q)) : Tail(q)[i] = q[i + 1]
OBVIOUS

\* A master's clients with a connection.
LEMMA SocketsLinked ==
  ASSUME TypeOK, RepliesInOrder, NEW m \in Node, NEW s \in Sockets(slaves[m])
  PROVE  /\ s \in Node /\ slaves[m][s] \in Slave /\ slaves[m][s].sock
         /\ link[s] \in Link /\ link[s].peer = m /\ link[s].open /\ link[s].req = None
         /\ ClientOrder(m, s)
BY DEF TypeOK, RepliesInOrder, ClientOrder, Sockets

-----------------------------------------------------------------------------
(* What a step does to one connection *)

\* A connection that s keeps as it is, with the state of s, stays in order.
LEMMA FrameOrder ==
  ASSUME NEW s \in Node,
         link'[s] = link[s], state'[s] = state[s], cached'[s] = cached[s], initial'[s] = initial[s]
  PROVE  /\ LinkOrder(s)' <=> LinkOrder(s)
         /\ AwaitsReply(s)' <=> AwaitsReply(s)
         /\ AwaitsPayload(s)' <=> AwaitsPayload(s)
         /\ FollowsStream(s)' <=> FollowsStream(s)
BY DEF LinkOrder, AwaitsReply, AwaitsPayload, FollowsStream, Refused, StreamFrom

\* Sending keeps a connection a connection.
LEMMA SentType ==
  ASSUME NEW lk \in [Node -> Link \cup {None}], NEW S \in SUBSET Node, NEW msgs \in Seq(Message),
         \A s \in S : lk[s] # None
  PROVE  Sent(lk, S, msgs) \in [Node -> Link \cup {None}]
<1> SUFFICES ASSUME NEW s \in Node PROVE Sent(lk, S, msgs)[s] \in Link \cup {None}
  BY DEF Sent
<1>1. CASE s \in S
  <2>1. lk[s] \in Link BY <1>1
  <2>2. lk[s].q \o msgs \in Seq(Message) BY <2>1 DEF Link
  <2>3. [lk[s] EXCEPT !.q = @ \o msgs] \in Link BY <2>1, <2>2, Zenon DEF Link
  <2> QED BY <1>1, <2>3 DEF Sent
<1>2. CASE s \notin S BY <1>2 DEF Sent
<1> QED BY <1>1, <1>2

\* More of the stream may follow the stream.
LEMMA StreamOrder ==
  ASSUME NEW s \in Node, NEW q \in Seq(Message), NEW cmds \in Seq(Command),
         link[s].q = q, link'[s].q = q \o cmds,
         state'[s] = state[s], cached'[s] = cached[s], initial'[s] = initial[s],
         FollowsStream(s)
  PROVE  FollowsStream(s)'
<1>2. /\ Len(q \o cmds) = Len(q) + Len(cmds)
      /\ \A i \in 1..Len(q) : (q \o cmds)[i] = q[i]
      /\ \A i \in (Len(q) + 1)..(Len(q) + Len(cmds)) : (q \o cmds)[i] \in Command
  OBVIOUS
<1> QED BY <1>2 DEF FollowsStream, StreamFrom

\* A connection the master has closed is still in order.
LEMMA CloseOrder ==
  ASSUME NEW s \in Node, link[s] \in Link, LinkOrder(s),
         link'[s] = [link[s] EXCEPT !.open = FALSE],
         state'[s] = state[s], cached'[s] = cached[s], initial'[s] = initial[s]
  PROVE  LinkOrder(s)'
BY DEF Link, LinkOrder, AwaitsReply, AwaitsPayload, FollowsStream, Refused, StreamFrom

\* A replica that will follow the stream waits for nothing else.
LEMMA StagesDisjoint ==
  ASSUME NEW s \in Node, FollowsStream(s)
  PROVE  ~AwaitsReply(s) /\ ~AwaitsPayload(s)
<1>1. ~AwaitsReply(s) BY DEF FollowsStream, AwaitsReply
<1>2. ~(link[s].q[1] \in Full /\ link[s].q[1] \in Continue) BY DEF Full, Continue
<1>3. ~AwaitsPayload(s) BY <1>2 DEF FollowsStream, AwaitsPayload
<1> QED BY <1>1, <1>3

\* Connection l is connection k once the request is read, or k is closed by the master.
Narrows(l, k) ==
  /\ l \in Link /\ k \in Link /\ l.peer = k.peer /\ l.q = k.q /\ l.req \in {k.req, None}
  /\ l.open => k.open

\* Losing the master's end of a connection keeps its order.
LEMMA NarrowOrder ==
  ASSUME NEW s \in Node, LinkOrder(s), Narrows(link'[s], link[s]),
         state'[s] = state[s], cached'[s] = cached[s], initial'[s] = initial[s]
  PROVE  LinkOrder(s)'
BY DEF Narrows, Link, LinkOrder, AwaitsReply, AwaitsPayload, FollowsStream, Refused, StreamFrom

\* The connection of s is kept, and s will stand where it would have stood.
Keeps(s) ==
  /\ link'[s] # None /\ link'[s].peer = link[s].peer /\ link'[s].open = link[s].open
  /\ link'[s].req = link[s].req
  /\ AwaitsReply(s) => AwaitsReply(s)'
  /\ AwaitsPayload(s) => AwaitsPayload(s)'
  /\ FollowsStream(s) => FollowsStream(s)'

\* An unchanged connection is kept.
LEMMA FrameKeeps ==
  ASSUME NEW s \in Node, link[s] # None,
         link'[s] = link[s], state'[s] = state[s], cached'[s] = cached[s], initial'[s] = initial[s]
  PROVE  Keeps(s)
BY FrameOrder DEF Keeps

\* A client whose connection is kept still agrees with it.
LEMMA KeepOrder ==
  ASSUME NEW m \in Node, NEW s \in Node, ClientOrder(m, s), Keeps(s),
         slaves'[m][s].st = slaves[m][s].st, slaves'[m][s].snap = slaves[m][s].snap,
         slaves[m][s].st = "wait_bgsave_end" => child'[m].sent = child[m].sent
  PROVE  ClientOrder(m, s)'
BY DEF ClientOrder, Keeps

\* The clients of a row: none, or some.
LEMMA NoSlavesFact ==
  ASSUME NEW row \in [Node -> Slave \cup {None}]
  PROVE  row # NoSlaves <=> \E s \in Node : row[s] # None
BY DEF NoSlaves

\* close() by n leaves the clients as they are, but for the socket of its own.
LEMMA UnlinkedFacts ==
  ASSUME TypeOK, NEW n \in Node
  PROVE  /\ Unlinked(slaves, n) \in [Node -> [Node -> Slave \cup {None}]]
         /\ \A m, s \in Node :
              LET c == Unlinked(slaves, n)[m][s] IN
              /\ c = None <=> slaves[m][s] = None
              /\ c # None => /\ c.st = slaves[m][s].st /\ c.snap = slaves[m][s].snap
                             /\ c.sock => slaves[m][s].sock
                             /\ c.sock /\ s = n /\ link[n] # None => m # link[n].peer
<1>1. CASE link[n] # None /\ slaves[link[n].peer][n] # None
  <2> DEFINE p == link[n].peer
             c0 == [slaves[p][n] EXCEPT !.sock = FALSE]
  <2>1. p \in Node BY <1>1 DEF TypeOK, Link
  <2>2. slaves[p][n] \in Slave BY <1>1, <2>1 DEF TypeOK
  <2>3. /\ c0 \in Slave /\ c0.sock = FALSE /\ c0.st = slaves[p][n].st /\ c0.snap = slaves[p][n].snap
        /\ c0 # None
    BY <2>2, NoneAssumption, Zenon DEF Slave
  <2>4. [slaves[p] EXCEPT ![n] = c0] \in [Node -> Slave \cup {None}]
    BY <2>1, <2>3 DEF TypeOK
  <2>5. Unlinked(slaves, n) = [slaves EXCEPT ![p] = [slaves[p] EXCEPT ![n] = c0]]
    BY <1>1, <2>1 DEF Unlinked, TypeOK
  <2>6. ASSUME NEW m \in Node, NEW s \in Node
        PROVE  Unlinked(slaves, n)[m][s] = IF m = p /\ s = n THEN c0 ELSE slaves[m][s]
    BY <2>1, <2>5 DEF TypeOK
  <2>7. Unlinked(slaves, n) \in [Node -> [Node -> Slave \cup {None}]]
    BY <2>1, <2>4, <2>5 DEF TypeOK
  <2> HIDE DEF c0, p
  <2> QED BY <1>1, <2>1, <2>3, <2>6, <2>7 DEF p
<1>2. CASE ~(link[n] # None /\ slaves[link[n].peer][n] # None)
  BY <1>2, Zenon DEF Unlinked, TypeOK
<1> QED BY <1>1, <1>2

\* CloseLink: the connection of n disappears from both ends.
LEMMA CloseLinkStep ==
  ASSUME TypeOK, RepliesInOrder, NEW n \in Node, CloseLink(n), child' = child,
         \A s \in Node \ {n} : /\ state'[s] = state[s] /\ cached'[s] = cached[s]
                               /\ initial'[s] = initial[s]
  PROVE  /\ slaves' \in [Node -> [Node -> Slave \cup {None}]]
         /\ link' \in [Node -> Link \cup {None}]
         /\ link'[n] = None /\ \A s \in Node \ {n} : link'[s] = link[s]
         /\ \A m \in Node : slaves'[m] # NoSlaves => slaves[m] # NoSlaves
         /\ RepliesInOrder'
<1>1. slaves' = Unlinked(slaves, n) /\ link' = [link EXCEPT ![n] = None]
  BY DEF CloseLink
<1>2. /\ slaves' \in [Node -> [Node -> Slave \cup {None}]]
      /\ link' \in [Node -> Link \cup {None}]
      /\ link'[n] = None /\ \A s \in Node \ {n} : link'[s] = link[s]
  BY <1>1, UnlinkedFacts DEF TypeOK
<1>3. \A m \in Node : slaves'[m] # NoSlaves => slaves[m] # NoSlaves
  BY <1>1, <1>2, UnlinkedFacts, NoSlavesFact DEF TypeOK
<1>4. ASSUME NEW s \in Node, link'[s] # None PROVE LinkOrder(s)'
  BY <1>2, <1>4, FrameOrder DEF RepliesInOrder
<1>5. ASSUME NEW m \in Node, NEW s \in Node, slaves'[m][s] # None, slaves'[m][s].sock
      PROVE  ClientOrder(m, s)'
  <2>1. slaves[m][s] # None /\ slaves[m][s].sock /\ ClientOrder(m, s)
    BY <1>1, <1>5, UnlinkedFacts DEF RepliesInOrder
  <2>2. s # n
    BY <1>1, <1>5, <2>1, UnlinkedFacts DEF ClientOrder
  <2>3. Keeps(s)
    BY <1>2, <2>1, <2>2, FrameKeeps DEF ClientOrder
  <2> QED BY <1>1, <2>1, <2>3, <1>5, UnlinkedFacts, KeepOrder, Zenon
<1>6. ASSUME NEW m \in Node, NEW s \in Node, slaves'[m][s] # None,
             slaves'[m][s].st = "wait_bgsave_end"
      PROVE  child'[m] # None
  <2>1. slaves[m][s] # None /\ slaves[m][s].st = "wait_bgsave_end"
    BY <1>1, <1>6, UnlinkedFacts
  <2> QED BY <2>1 DEF RepliesInOrder
<1>7. RepliesInOrder'
  BY <1>4, <1>5, <1>6 DEF RepliesInOrder
<1> QED BY <1>2, <1>3, <1>7

\* DropConnections: n closes its connection and those of servers connected to it.
LEMMA DropConnectionsStep ==
  ASSUME TypeOK, RepliesInOrder, NEW n \in Node, NEW S \in SUBSET Connected(n),
         DropConnections(n, S),
         child' = child \/ child' = [child EXCEPT ![n] = None],
         \A s \in Node \ {n} : /\ state'[s] = state[s] /\ cached'[s] = cached[s]
                               /\ initial'[s] = initial[s]
  PROVE  /\ slaves' \in [Node -> [Node -> Slave \cup {None}]]
         /\ link' \in [Node -> Link \cup {None}]
         /\ link'[n] = None /\ \A s \in Node \ {n} : link'[s] # None <=> link[s] # None
         /\ slaves'[n] = NoSlaves
         /\ \A m \in Node : slaves'[m] # NoSlaves => slaves[m] # NoSlaves
         /\ RepliesInOrder'
<1>1. /\ slaves' = [Unlinked(slaves, n) EXCEPT ![n] = NoSlaves]
      /\ link' = [HungUp(link, S) EXCEPT ![n] = None]
  BY DEF DropConnections
<1>2. /\ slaves' \in [Node -> [Node -> Slave \cup {None}]] /\ slaves'[n] = NoSlaves
      /\ \A m \in Node \ {n} : slaves'[m] = Unlinked(slaves, n)[m]
  BY <1>1, UnlinkedFacts DEF NoSlaves
<1>3. ASSUME NEW m \in Node, slaves'[m] # NoSlaves PROVE slaves[m] # NoSlaves
  <2>1. PICK s \in Node : slaves'[m][s] # None BY <1>2, <1>3, NoSlavesFact
  <2>2. m # n BY <1>2, <1>3
  <2>3. slaves[m][s] # None BY <1>2, <2>1, <2>2, UnlinkedFacts
  <2> QED BY <2>3 DEF NoSlaves
<1>4. ASSUME NEW s \in Node \ {n}
      PROVE  link'[s] = IF s \in S THEN [link[s] EXCEPT !.open = FALSE] ELSE link[s]
  BY <1>1, Zenon DEF HungUp
<1>5. ASSUME NEW s \in S PROVE link[s] \in Link /\ link[s].peer = n
  BY DEF Connected, TypeOK
<1>6. ASSUME NEW s \in S PROVE [link[s] EXCEPT !.open = FALSE] \in Link
  BY <1>5, Zenon DEF Link
<1>7. link' \in [Node -> Link \cup {None}] /\ link'[n] = None
  BY <1>1, <1>6 DEF HungUp, TypeOK
<1>8. \A s \in Node \ {n} : link'[s] # None <=> link[s] # None
  <2> SUFFICES ASSUME NEW s \in Node \ {n} PROVE link'[s] # None <=> link[s] # None
    OBVIOUS
  <2>1. CASE s \in S
    <3>1. link'[s] \in Link /\ link[s] \in Link BY <1>4, <1>5, <1>6, <2>1, Zenon
    <3> QED BY <3>1, NoneAssumption
  <2>2. CASE s \notin S BY <1>4, <2>2, Zenon
  <2> QED BY <2>1, <2>2
<1>9. ASSUME NEW s \in Node, link'[s] # None PROVE LinkOrder(s)'
  <2>1. s \in Node \ {n} /\ link[s] # None /\ LinkOrder(s)
    BY <1>7, <1>8, <1>9 DEF RepliesInOrder
  <2>2. CASE s \in S BY <2>1, <2>2, <1>4, <1>5, CloseOrder, Zenon
  <2>3. CASE s \notin S BY <2>1, <2>3, <1>4, FrameOrder, Zenon
  <2> QED BY <2>2, <2>3
<1>10. ASSUME NEW m \in Node, NEW s \in Node, slaves'[m][s] # None
       PROVE  /\ m # n /\ slaves[m][s] # None /\ slaves'[m][s].st = slaves[m][s].st
              /\ slaves'[m][s].snap = slaves[m][s].snap
              /\ slaves'[m][s].sock => slaves[m][s].sock
              /\ slaves'[m][s].sock /\ s = n /\ link[n] # None => m # link[n].peer
              /\ child'[m] = child[m]
  <2>1. m # n BY <1>2, <1>10 DEF NoSlaves
  <2>2. child'[m] = child[m] BY <2>1 DEF TypeOK
  <2> QED BY <1>2, <1>10, <2>1, <2>2, UnlinkedFacts
<1>11. ASSUME NEW m \in Node, NEW s \in Node, slaves'[m][s] # None, slaves'[m][s].sock
       PROVE  ClientOrder(m, s)'
  <2>1. slaves[m][s] # None /\ slaves[m][s].sock /\ ClientOrder(m, s)
    BY <1>10, <1>11 DEF RepliesInOrder
  <2>2. s # n /\ s \notin S
    BY <1>5, <1>10, <1>11, <2>1 DEF ClientOrder
  <2>3. Keeps(s)
    BY <1>4, <2>1, <2>2, FrameKeeps, Zenon DEF ClientOrder
  <2> QED BY <1>10, <1>11, <2>1, <2>3, KeepOrder
<1>12. ASSUME NEW m \in Node, NEW s \in Node, slaves'[m][s] # None,
              slaves'[m][s].st = "wait_bgsave_end"
       PROVE  child'[m] # None
  BY <1>10, <1>12 DEF RepliesInOrder
<1>13. ASSUME NEW m \in Node, child'[m] # None, child'[m].type = "disk" PROVE ~child'[m].sent
  BY <1>13 DEF RepliesInOrder, TypeOK
<1>14. RepliesInOrder'
  BY <1>9, <1>11, <1>12, <1>13 DEF RepliesInOrder
<1> QED BY <1>2, <1>3, <1>7, <1>8, <1>14

\* n reads one message, and disconnects its replicas or leaves them.
Reads(n) == DisconnectSlaves(n) \/ (link' = Popped(link, n) /\ UNCHANGED slaves)

\* The clients n loses by it.
Lost(n) == {s \in Sockets(slaves[n]) : slaves'[n][s] = None}

\* What reading one message does to the connections and the clients.
LEMMA ReadsFacts ==
  ASSUME TypeOK, RepliesInOrder, NEW n \in Node, Readable(n), Reads(n)
  PROVE  /\ link' \in [Node -> Link \cup {None}]
         /\ slaves' \in [Node -> [Node -> Slave \cup {None}]]
         /\ \A m \in Node : slaves'[m] = slaves[m] \/ (m = n /\ slaves'[n] = NoSlaves)
         /\ link'[n] \in Link /\ link'[n].q = Tail(link[n].q) /\ link'[n].req = link[n].req
         /\ link'[n].peer = link[n].peer
         /\ link[n].open = FALSE => link'[n].open = FALSE
         /\ n \notin Lost(n) => link'[n].open = link[n].open
         /\ \A s \in Node \ {n} : link'[s] = IF s \in Lost(n) THEN [link[s] EXCEPT !.open = FALSE]
                                             ELSE link[s]
<1> DEFINE S == Sockets(slaves[n])
           lk == HungUp(link, S)
<1>1. link[n] \in Link /\ link[n].q \in Seq(Message) /\ link[n].q # <<>>
  BY DEF TypeOK, Readable, Link
<1>2. Tail(link[n].q) \in Seq(Message) BY <1>1, TailFacts
<1>3. CASE DisconnectSlaves(n)
  <2>1. slaves' = [slaves EXCEPT ![n] = NoSlaves] /\ link' = [lk EXCEPT ![n].q = Tail(lk[n].q)]
    BY <1>3 DEF DisconnectSlaves, Popped
  <2>2. Lost(n) = S BY <2>1 DEF Lost, NoSlaves, Sockets, TypeOK
  <2>3. \A s \in Node : lk[s] = IF s \in S THEN [link[s] EXCEPT !.open = FALSE] ELSE link[s]
    BY DEF HungUp
  <2>4. ASSUME NEW s \in S PROVE [link[s] EXCEPT !.open = FALSE] \in Link
    <3>1. link[s] \in Link BY SocketsLinked
    <3> QED BY <3>1, Zenon DEF Link
  <2>5. lk \in [Node -> Link \cup {None}] BY <2>3, <2>4 DEF TypeOK, HungUp
  <2>6. lk[n] \in Link /\ lk[n].q = link[n].q /\ lk[n].req = link[n].req /\ lk[n].peer = link[n].peer
        /\ lk[n].open = IF n \in S THEN FALSE ELSE link[n].open
    BY <1>1, <2>3, <2>4, Zenon DEF Link
  <2> HIDE DEF lk, S
  <2>7. link' = [lk EXCEPT ![n] = [lk[n] EXCEPT !.q = Tail(lk[n].q)]]
    BY <2>1, <2>5
  <2>8. [lk[n] EXCEPT !.q = Tail(lk[n].q)] \in Link BY <1>2, <2>6 DEF Link
  <2>9. link' \in [Node -> Link \cup {None}] /\ link'[n] = [lk[n] EXCEPT !.q = Tail(lk[n].q)]
    BY <2>5, <2>7, <2>8
  <2>10. link'[n] \in Link /\ link'[n].q = Tail(link[n].q) /\ link'[n].req = link[n].req
         /\ link'[n].peer = link[n].peer /\ link'[n].open = IF n \in S THEN FALSE ELSE link[n].open
    BY <2>6, <2>8, <2>9, Zenon DEF Link
  <2>11. \A s \in Node \ {n} : link'[s] = lk[s] BY <2>5, <2>7
  <2>12. slaves' \in [Node -> [Node -> Slave \cup {None}]]
         /\ \A m \in Node : slaves'[m] = slaves[m] \/ (m = n /\ slaves'[n] = NoSlaves)
    BY <2>1 DEF TypeOK, NoSlaves
  <2> QED BY <2>2, <2>3, <2>9, <2>10, <2>11, <2>12, Zenon
<1>4. CASE link' = Popped(link, n) /\ UNCHANGED slaves
  <2>1. link' = [link EXCEPT ![n] = [link[n] EXCEPT !.q = Tail(link[n].q)]]
    BY <1>4 DEF Popped, TypeOK
  <2>2. [link[n] EXCEPT !.q = Tail(link[n].q)] \in Link BY <1>1, <1>2 DEF Link
  <2>3. link' \in [Node -> Link \cup {None}] /\ link'[n] = [link[n] EXCEPT !.q = Tail(link[n].q)]
        /\ \A s \in Node \ {n} : link'[s] = link[s]
    BY <2>1, <2>2 DEF TypeOK
  <2>4. link'[n] \in Link /\ link'[n].q = Tail(link[n].q) /\ link'[n].req = link[n].req
         /\ link'[n].peer = link[n].peer /\ link'[n].open = link[n].open
    BY <1>1, <2>2, <2>3 DEF Link
  <2>5. Lost(n) = {} BY <1>4 DEF Lost, Sockets
  <2>6. slaves' = slaves BY <1>4
  <2> QED BY <2>3, <2>4, <2>5, <2>6 DEF TypeOK
<1> QED BY <1>3, <1>4, Zenon DEF Reads

\* Reading keeps the connections in order when the reader's own stays so.
LEMMA ReadsOrder ==
  ASSUME TypeOK, RepliesInOrder, NEW n \in Node, Readable(n), Reads(n), child' = child,
         \A s \in Node \ {n} : /\ state'[s] = state[s] /\ cached'[s] = cached[s]
                               /\ initial'[s] = initial[s],
         AwaitsPayload(n) => AwaitsPayload(n)', FollowsStream(n) => FollowsStream(n)',
         LinkOrder(n)'
  PROVE  /\ \A s \in Node : link'[s] # None <=> link[s] # None
         /\ \A m \in Node : slaves'[m] # NoSlaves => slaves[m] # NoSlaves
         /\ RepliesInOrder'
<1>1. ASSUME NEW s \in Lost(n)
      PROVE  s \in Node /\ link[s] \in Link /\ link[s].peer = n /\ LinkOrder(s)
             /\ [link[s] EXCEPT !.open = FALSE] \in Link
  <2>1. s \in Sockets(slaves[n]) BY DEF Lost
  <2>2. s \in Node /\ link[s] \in Link /\ link[s].peer = n BY <2>1, SocketsLinked
  <2> QED BY <2>2, NoneAssumption, Zenon DEF Link, RepliesInOrder
<1>2. ASSUME NEW s \in Node PROVE link'[s] # None <=> link[s] # None
  <2>1. CASE s = n BY <2>1, ReadsFacts, NoneAssumption, Zenon DEF Readable
  <2>2. CASE s # n /\ s \in Lost(n)
    <3>1. link'[s] \in Link /\ link[s] \in Link BY <2>2, <1>1, ReadsFacts, Zenon
    <3> QED BY <3>1, NoneAssumption
  <2>3. CASE s # n /\ s \notin Lost(n) BY <2>3, ReadsFacts, Zenon
  <2> QED BY <2>1, <2>2, <2>3
<1>3. ASSUME NEW s \in Node, link'[s] # None PROVE LinkOrder(s)'
  <2>1. CASE s = n BY <2>1
  <2>2. CASE s # n /\ s \in Lost(n) BY <2>2, <1>1, ReadsFacts, CloseOrder, Zenon
  <2>3. CASE s # n /\ s \notin Lost(n)
    <3>1. LinkOrder(s) BY <1>2, <1>3 DEF RepliesInOrder
    <3> QED BY <2>3, <3>1, ReadsFacts, FrameOrder, Zenon
  <2> QED BY <2>1, <2>2, <2>3
<1>4. ASSUME NEW m \in Node, NEW s \in Node, slaves'[m][s] # None
      PROVE  slaves'[m][s] = slaves[m][s] /\ (slaves[m][s].sock => s \notin Lost(n))
  <2>1. slaves'[m] = slaves[m]
    <3>1. slaves'[m] # NoSlaves BY <1>4 DEF NoSlaves
    <3> QED BY <3>1, ReadsFacts, Zenon
  <2>2. m = n => s \notin Lost(n) BY <1>4 DEF Lost
  <2>3. m # n /\ slaves[m][s].sock => s \notin Lost(n)
    <3> SUFFICES ASSUME m # n, slaves[m][s].sock, s \in Lost(n) PROVE FALSE
      OBVIOUS
    <3>1. link[s].peer = n BY <1>1, Zenon
    <3>2. ClientOrder(m, s) BY <1>4, <2>1 DEF RepliesInOrder
    <3> QED BY <3>1, <3>2 DEF ClientOrder
  <2> QED BY <2>1, <2>2, <2>3
<1>5. ASSUME NEW m \in Node, NEW s \in Node, slaves'[m][s] # None, slaves'[m][s].sock
      PROVE  ClientOrder(m, s)'
  <2>1. slaves[m][s] # None /\ slaves[m][s].sock /\ ClientOrder(m, s) /\ s \notin Lost(n)
    BY <1>4, <1>5 DEF RepliesInOrder
  <2>2. CASE s = n
    <3>1. link[n].q # <<>> BY DEF Readable
    <3>2. ~AwaitsReply(n) BY <3>1 DEF AwaitsReply
    <3>3. Keeps(n) BY <2>1, <2>2, <3>2, <1>2, ReadsFacts, Zenon DEF Keeps, Readable
    <3> QED BY <1>4, <1>5, <2>1, <2>2, <3>3, KeepOrder, ZenonT(30)
  <2>3. CASE s # n
    <3>1. link[s] # None BY <2>1 DEF ClientOrder
    <3>2. link'[s] = link[s] BY <2>1, <2>3, ReadsFacts, ZenonT(30)
    <3>3. Keeps(s) BY <2>3, <3>1, <3>2, FrameKeeps
    <3> QED BY <1>4, <1>5, <2>1, <3>3, KeepOrder
  <2> QED BY <2>2, <2>3
<1>6. ASSUME NEW m \in Node, NEW s \in Node, slaves'[m][s] # None,
             slaves'[m][s].st = "wait_bgsave_end"
      PROVE  child'[m] # None
  <2>1. slaves[m][s] # None /\ slaves[m][s].st = "wait_bgsave_end" BY <1>4, <1>6
  <2> QED BY <2>1 DEF RepliesInOrder
<1>7. RepliesInOrder' BY <1>3, <1>5, <1>6, Zenon DEF RepliesInOrder
<1>8. \A m \in Node : slaves'[m] # NoSlaves => slaves[m] # NoSlaves BY ReadsFacts, Zenon
<1> QED BY <1>2, <1>7, <1>8

\* FeedClients: the stream goes to the replicas of m that follow it, or to their buffers.
\* lk is the connections once m has read the command it proxies, or all of them.
LEMMA FeedClientsStep ==
  ASSUME TypeOK, RepliesInOrder, NEW m \in Node, NEW cmds \in Seq(Command),
         NEW lk \in [Node -> Link \cup {None}], FeedClients(m, cmds, lk),
         child' = child, state' = state, cached' = cached, initial' = initial,
         \A s \in Node : /\ lk[s] # None <=> link[s] # None
                         /\ lk[s] = link[s] \/ (/\ FollowsStream(s) /\ link[s] # None
                                                /\ state[s] = "connected" /\ link[s].q # <<>>
                                                /\ lk[s] = [link[s] EXCEPT !.q = Tail(@)])
  PROVE  /\ slaves' \in [Node -> [Node -> Slave \cup {None}]]
         /\ link' \in [Node -> Link \cup {None}]
         /\ \A s \in Node : link'[s] # None <=> link[s] # None
         /\ \A a \in Node : slaves'[a] # NoSlaves => slaves[a] # NoSlaves
         /\ RepliesInOrder'
<1> DEFINE S == {s \in Sockets(slaves[m]) : Streaming(slaves[m][s])}
           row == Accumulated(slaves[m], cmds)
<1>1. slaves' = [slaves EXCEPT ![m] = row] /\ link' = Sent(lk, S, cmds)
  BY DEF FeedClients
<1>2. ASSUME NEW s \in Node
      PROVE  /\ row[s] \in Slave \cup {None}
             /\ row[s] # None <=> slaves[m][s] # None
             /\ row[s] # None => /\ row[s].st = slaves[m][s].st /\ row[s].snap = slaves[m][s].snap
                                 /\ row[s].sock = slaves[m][s].sock
  <2>1. CASE Accumulates(slaves[m][s])
    <3>1. slaves[m][s] \in Slave BY <2>1 DEF TypeOK, Accumulates
    <3>2. slaves[m][s].out \o cmds \in Seq(Command) BY <3>1 DEF Slave
    <3>3. row[s] = [slaves[m][s] EXCEPT !.out = @ \o cmds] BY <2>1 DEF Accumulated
    <3>4. row[s] \in Slave BY <3>1, <3>2, <3>3, Zenon DEF Slave
    <3>5. row[s].st = slaves[m][s].st /\ row[s].snap = slaves[m][s].snap
          /\ row[s].sock = slaves[m][s].sock
      BY <3>1, <3>3 DEF Slave
    <3> QED BY <3>1, <3>4, <3>5, NoneAssumption
  <2>2. CASE ~Accumulates(slaves[m][s]) BY <2>2 DEF TypeOK, Accumulated
  <2> QED BY <2>1, <2>2
<1> HIDE DEF row
<1>3. slaves' \in [Node -> [Node -> Slave \cup {None}]]
  <2>1. row \in [Node -> Slave \cup {None}] BY <1>2 DEF row, Accumulated
  <2> QED BY <1>1, <2>1, Zenon DEF TypeOK
<1>4. ASSUME NEW a \in Node, NEW s \in Node
      PROVE  /\ slaves'[a][s] # None <=> slaves[a][s] # None
             /\ slaves'[a][s] # None => /\ slaves'[a][s].st = slaves[a][s].st
                                        /\ slaves'[a][s].snap = slaves[a][s].snap
                                        /\ slaves'[a][s].sock = slaves[a][s].sock
  BY <1>1, <1>2 DEF TypeOK
<1>5. ASSUME NEW a \in Node, slaves'[a] # NoSlaves PROVE slaves[a] # NoSlaves
  <2>1. PICK s \in Node : slaves'[a][s] # None BY <1>3, <1>5, NoSlavesFact
  <2>2. slaves[a][s] # None BY <1>4, <2>1
  <2> QED BY <2>2 DEF NoSlaves
<1>6. ASSUME NEW s \in S
      PROVE  s \in Node /\ link[s] # None /\ link[s].req = None /\ FollowsStream(s)
  <2>1. s \in Sockets(slaves[m]) /\ slaves[m][s].st = "online" BY DEF Streaming
  <2> QED BY <2>1, SocketsLinked, NoneAssumption DEF ClientOrder
<1>7. cmds \in Seq(Message) BY DEF Message
<1>8. link' \in [Node -> Link \cup {None}]
  BY <1>1, <1>6, <1>7, SentType, Zenon
<1>9. ASSUME NEW s \in Node, link[s] # None
      PROVE  /\ link'[s] \in Link /\ link'[s].peer = link[s].peer /\ link'[s].open = link[s].open
             /\ link'[s].req = link[s].req
             /\ \/ link'[s] = link[s]
                \/ FollowsStream(s) /\ FollowsStream(s)'
  <2> DEFINE q == link[s].q
  <2>1. link[s] \in Link /\ lk[s] \in Link /\ q \in Seq(Message) BY <1>9 DEF TypeOK, Link
  <2>2. /\ lk[s].peer = link[s].peer /\ lk[s].open = link[s].open /\ lk[s].req = link[s].req
        /\ lk[s].q = q \/ lk[s].q = Tail(q)
    BY <2>1 DEF Link
  <2>3. link'[s] = IF s \in S THEN [lk[s] EXCEPT !.q = @ \o cmds] ELSE lk[s]
    BY <1>1 DEF Sent
  <2>4. /\ link'[s].peer = link[s].peer /\ link'[s].open = link[s].open
        /\ link'[s].req = link[s].req
        /\ link'[s].q = IF s \in S THEN lk[s].q \o cmds ELSE lk[s].q
    BY <2>1, <2>2, <2>3 DEF Link
  <2>5. link'[s] \in Link
    <3>1. CASE s \in S
      <4>1. link'[s] = [lk[s] EXCEPT !.q = @ \o cmds] BY <2>3, <3>1
      <4>2. lk[s].q \o cmds \in Seq(Message) BY <2>1, <1>7 DEF Link
      <4> QED BY <2>1, <4>1, <4>2, Zenon DEF Link
    <3>2. CASE s \notin S BY <2>1, <2>3, <3>2
    <3> QED BY <3>1, <3>2
  <2>6. CASE lk[s] = link[s] /\ s \notin S BY <2>3, <2>4, <2>5, <2>6
  <2>7. CASE lk[s] = link[s] /\ s \in S
    <3>1. FollowsStream(s) BY <1>6, <2>7
    <3>2. link'[s].q = q \o cmds BY <2>4, <2>7
    <3>3. FollowsStream(s)' BY <2>1, <3>1, <3>2, StreamOrder, Zenon
    <3> QED BY <2>4, <2>5, <3>1, <3>3
  <2>8. CASE lk[s] # link[s]
    <3>1. /\ FollowsStream(s) /\ state[s] = "connected" /\ q # <<>>
          /\ lk[s].q = Tail(q)
      BY <2>8, <2>1 DEF Link
    <3>2. \A i \in 1..Len(q) : q[i] \in Command BY <3>1 DEF FollowsStream, StreamFrom
    <3>3. /\ Tail(q) \in Seq(Message) /\ Len(Tail(q)) = Len(q) - 1
          /\ \A i \in 1..Len(Tail(q)) : Tail(q)[i] = q[i + 1]
      BY <2>1, <3>1, TailFacts
    <3>4. ASSUME NEW i \in 1..Len(Tail(q)) PROVE Tail(q)[i] \in Command
      <4>1. i + 1 \in 1..Len(q) BY <2>1, <3>3
      <4> QED BY <3>2, <3>3, <4>1
    <3>5. /\ Len(Tail(q) \o cmds) = Len(Tail(q)) + Len(cmds)
          /\ \A i \in 1..Len(Tail(q)) : (Tail(q) \o cmds)[i] = Tail(q)[i]
          /\ \A i \in (Len(Tail(q)) + 1)..(Len(Tail(q)) + Len(cmds)) : (Tail(q) \o cmds)[i] \in Command
      BY <3>3
    <3>6. \A i \in 1..Len(link'[s].q) : link'[s].q[i] \in Command
      BY <2>4, <3>1, <3>3, <3>4, <3>5
    <3>7. FollowsStream(s)' BY <3>1, <3>6 DEF FollowsStream, StreamFrom
    <3> QED BY <2>4, <2>5, <3>1, <3>7
  <2> QED BY <2>6, <2>7, <2>8
<1>10. ASSUME NEW s \in Node PROVE link'[s] # None <=> link[s] # None
  <2>1. CASE link[s] # None BY <1>9, <2>1, NoneAssumption
  <2>2. CASE link[s] = None
    <3>1. s \notin S BY <1>6, <2>2
    <3> QED BY <1>1, <2>2, <3>1 DEF Sent
  <2> QED BY <2>1, <2>2
<1>11. ASSUME NEW s \in Node, link[s] # None PROVE Keeps(s)
  <2>1. CASE link'[s] = link[s] BY <1>11, <2>1, FrameKeeps
  <2>2. CASE FollowsStream(s) /\ FollowsStream(s)'
    <3>1. ~AwaitsReply(s) /\ ~AwaitsPayload(s) BY <2>2, StagesDisjoint
    <3> QED BY <1>9, <1>10, <1>11, <2>2, <3>1 DEF Keeps
  <2> QED BY <1>9, <1>11, <2>1, <2>2
<1>12. ASSUME NEW s \in Node, link'[s] # None PROVE LinkOrder(s)'
  <2>1. link[s] # None /\ LinkOrder(s) BY <1>10, <1>12 DEF RepliesInOrder
  <2>2. CASE link'[s] = link[s] BY <2>1, <2>2, FrameOrder
  <2>3. CASE FollowsStream(s) /\ FollowsStream(s)'
    <3>1. link[s].req = None
      BY <2>1, <2>3, MessageKinds
      DEF LinkOrder, AwaitsReply, FollowsStream
    <3> QED BY <1>9, <2>1, <2>3, <3>1 DEF LinkOrder
  <2> QED BY <1>9, <2>1, <2>2, <2>3
<1>13. ASSUME NEW a \in Node, NEW s \in Node, slaves'[a][s] # None, slaves'[a][s].sock
       PROVE  ClientOrder(a, s)'
  <2>1. slaves[a][s] # None /\ slaves[a][s].sock /\ ClientOrder(a, s)
    BY <1>4, <1>13 DEF RepliesInOrder
  <2>2. Keeps(s) BY <1>11, <2>1 DEF ClientOrder
  <2> QED BY <1>4, <1>13, <2>1, <2>2, KeepOrder
<1>14. ASSUME NEW a \in Node, NEW s \in Node, slaves'[a][s] # None,
              slaves'[a][s].st = "wait_bgsave_end"
       PROVE  child'[a] # None
  <2>1. slaves[a][s] # None /\ slaves[a][s].st = "wait_bgsave_end" BY <1>4, <1>14
  <2> QED BY <2>1 DEF RepliesInOrder
<1>15. RepliesInOrder' BY <1>12, <1>13, <1>14 DEF RepliesInOrder
<1> QED BY <1>3, <1>5, <1>8, <1>10, <1>15

\* A step of master m that changes its row of clients and the connections T of its replicas.
ChangesRow(m, row, T) ==
  /\ slaves' = [slaves EXCEPT ![m] = row]
  /\ row \in [Node -> Slave \cup {None}] /\ T \subseteq Node
  /\ \A s \in Node \ T : link'[s] = link[s]
  /\ \A s \in T : link[s] # None /\ link[s].peer = m /\ link'[s] # None /\ LinkOrder(s)'
  /\ \A a \in Node \ {m} : child'[a] = child[a]
  /\ \A s \in Node : row[s] # None /\ row[s].sock => ClientOrder(m, s)'
  /\ \A s \in Node : row[s] # None /\ row[s].st = "wait_bgsave_end" => child'[m] # None
  /\ child'[m] # None /\ child'[m].type = "disk" => ~child'[m].sent

\* A step that changes only the clients of m and their connections keeps the order.
LEMMA RowStep ==
  ASSUME TypeOK, RepliesInOrder, state' = state, cached' = cached, initial' = initial,
         NEW m \in Node, NEW row, NEW T, ChangesRow(m, row, T)
  PROVE  /\ \A s \in Node : link'[s] # None <=> link[s] # None
         /\ RepliesInOrder'
<1> USE DEF ChangesRow
<1>1. /\ slaves'[m] = row /\ \A a \in Node \ {m} : slaves'[a] = slaves[a]
  BY DEF TypeOK
<1>2. \A s \in Node : link'[s] # None <=> link[s] # None
  OBVIOUS
<1>3. ASSUME NEW s \in Node, link'[s] # None PROVE LinkOrder(s)'
  <2>1. CASE s \in T BY <2>1
  <2>2. CASE s \notin T
    <3>1. link'[s] = link[s] /\ LinkOrder(s) BY <1>3, <2>2 DEF RepliesInOrder
    <3> QED BY <3>1, FrameOrder
  <2> QED BY <2>1, <2>2
<1>4. ASSUME NEW a \in Node, NEW s \in Node, slaves'[a][s] # None, slaves'[a][s].sock
      PROVE  ClientOrder(a, s)'
  <2>1. CASE a = m BY <1>1, <1>4, <2>1
  <2>2. CASE a # m
    <3>1. slaves'[a][s] = slaves[a][s] /\ ClientOrder(a, s) BY <1>1, <1>4, <2>2 DEF RepliesInOrder
    <3>2. s \notin T /\ link[s] # None BY <2>2, <3>1, Zenon DEF ClientOrder
    <3>3. Keeps(s) BY <3>2, FrameKeeps
    <3> QED BY <2>2, <3>1, <3>3, KeepOrder
  <2> QED BY <2>1, <2>2
<1>5. ASSUME NEW a \in Node, NEW s \in Node, slaves'[a][s] # None,
             slaves'[a][s].st = "wait_bgsave_end"
      PROVE  child'[a] # None
  <2>1. CASE a = m BY <1>1, <1>5, <2>1
  <2>2. CASE a # m
    <3>1. slaves[a][s] # None /\ slaves[a][s].st = "wait_bgsave_end" BY <1>1, <1>5, <2>2
    <3> QED BY <2>2, <3>1 DEF RepliesInOrder
  <2> QED BY <2>1, <2>2
<1>6. ASSUME NEW a \in Node, child'[a] # None, child'[a].type = "disk" PROVE ~child'[a].sent
  BY <1>6 DEF RepliesInOrder
<1> QED BY <1>2, <1>3, <1>4, <1>5, <1>6 DEF RepliesInOrder

\* The inductive invariant.
Inv == TypeOK /\ AssertionsHold /\ RepliesInOrder

-----------------------------------------------------------------------------
(* What a reply does to the one who waits for it *)

\* Appending one message to a queue.
LEMMA ConcatFacts ==
  ASSUME NEW q \in Seq(Message), NEW c \in Seq(Message)
  PROVE  /\ Len(q \o c) = Len(q) + Len(c)
         /\ \A i \in 1..(Len(q) + Len(c)) :
              (q \o c)[i] = IF i <= Len(q) THEN q[i] ELSE c[i - Len(q)]
OBVIOUS

\* +FULLRESYNC to a replica that waits for a reply makes it wait for the payload.
LEMMA SendFull ==
  ASSUME NEW s \in Node, NEW x \in Full, AwaitsReply(s), state'[s] = state[s],
         link'[s].q = link[s].q \o <<x>>
  PROVE  AwaitsPayload(s)'
<1>1. link'[s].q = <<x>> BY DEF AwaitsReply
<1> QED BY <1>1 DEF AwaitsReply, AwaitsPayload

\* A refusal to a replica that waits for a reply leaves it refused.
LEMMA SendRefusal ==
  ASSUME NEW s \in Node, NEW x \in Refusal, AwaitsReply(s), state'[s] = state[s],
         link'[s].q = link[s].q \o <<x>>
  PROVE  Refused(s)'
<1>1. link'[s].q = <<x>> BY DEF AwaitsReply
<1> QED BY <1>1 DEF AwaitsReply, Refused

\* +CONTINUE and the backlog to a replica that waits for a reply make it follow the stream.
LEMMA SendContinue ==
  ASSUME NEW s \in Node, NEW x \in Continue, NEW cmds \in Seq(Command),
         AwaitsReply(s), cached[s] # None, state'[s] = state[s], cached'[s] = cached[s],
         link'[s].q = link[s].q \o (<<x>> \o cmds)
  PROVE  FollowsStream(s)'
<1> DEFINE q == <<x>> \o cmds
<1>1. link'[s].q = q BY DEF AwaitsReply
<1>2. Len(q) = 1 + Len(cmds) /\ q[1] = x /\ \A i \in 2..Len(q) : q[i] \in Command
  OBVIOUS
<1>3. Len(cmds) \in Nat OBVIOUS
<1> HIDE DEF q
<1> QED BY <1>1, <1>2, <1>3 DEF AwaitsReply, FollowsStream, StreamFrom

\* The payload to a replica that waits for it makes it follow the stream.
LEMMA SendPayload ==
  ASSUME NEW s \in Node, NEW x \in Payload, NEW cmds \in Seq(Command),
         AwaitsPayload(s), state'[s] = state[s], initial'[s] = initial[s],
         link'[s].q = link[s].q \o (<<x>> \o cmds), link[s].q \in Seq(Message)
  PROVE  FollowsStream(s)'
<1> DEFINE c == <<x>> \o cmds
<1>1. Len(c) = 1 + Len(cmds) /\ c[1] = x /\ \A i \in 2..Len(c) : c[i] \in Command
  OBVIOUS
<1>2. Len(cmds) \in Nat /\ c \in Seq(Message) /\ Len(c) \in Nat /\ Len(c) >= 1
  <2>1. x \in Message /\ cmds \in Seq(Message) BY DEF Message
  <2> QED BY <1>1, <2>1
<1> HIDE DEF c
<1>3. CASE state[s] = "transfer"
  <2>1. link[s].q = <<>> BY <1>3 DEF AwaitsPayload
  <2>2. link'[s].q = c BY <1>2, <2>1 DEF c
  <2>3. state'[s] = "transfer" /\ initial'[s] # None BY <1>3 DEF AwaitsPayload
  <2> QED BY <1>1, <1>2, <2>2, <2>3, Zenon DEF FollowsStream, StreamFrom
<1>4. CASE state[s] = "receive_psync"
  <2> DEFINE q == link[s].q
  <2>1. q \in Seq(Message) /\ Len(q) = 1 /\ q[1] \in Full BY <1>4 DEF AwaitsPayload
  <2>2. link'[s].q = q \o c BY DEF c
  <2> HIDE DEF q
  <2>3. /\ Len(q \o c) = 1 + Len(c) /\ (q \o c)[1] = q[1]
        /\ \A i \in 2..Len(q \o c) : (q \o c)[i] = c[i - 1]
    <3>1. c \in Seq(Message) BY <1>2
    <3>2. Len(q \o c) = Len(q) + Len(c) BY <2>1, <3>1, ConcatFacts, Zenon
    <3>3. \A i \in 1..(Len(q) + Len(c)) :
              (q \o c)[i] = IF i <= Len(q) THEN q[i] ELSE c[i - Len(q)]
                BY <2>1, <3>1, ConcatFacts, Zenon
    <3> QED BY <1>2, <2>1, <3>2, <3>3
  <2>4. Len(q \o c) >= 2 /\ (q \o c)[2] = x BY <1>1, <1>2, <2>3
  <2>5. ASSUME NEW i \in 3..Len(q \o c) PROVE (q \o c)[i] \in Command
    <3>1. Len(q \o c) = 2 + Len(cmds) BY <1>1, <1>2, <2>3
    <3>2. i - 1 \in 2..Len(c) /\ i \in 2..Len(q \o c) BY <1>1, <1>2, <3>1
    <3> QED BY <1>1, <2>3, <3>2
  <2> QED BY <1>4, <2>1, <2>2, <2>3, <2>4, <2>5, Zenon DEF FollowsStream, StreamFrom
<1> QED BY <1>3, <1>4 DEF AwaitsPayload

-----------------------------------------------------------------------------
(* startBgsaveForReplication *)

\* The state of a client, other than one whose BGSAVE is running, agrees with its replica.
Stage(c, s) ==
  /\ c.st # "wait_bgsave_end"
  /\ c.sock => /\ c.st = "wait_bgsave_start" => AwaitsReply(s)
               /\ c.st = "send_bulk" => AwaitsPayload(s) /\ c.snap # None
               /\ c.st = "online" => FollowsStream(s)

\* The arguments of StartBgsaveForReplication: clients row of m, connections lk.
Prepared(m, row, lk) ==
  /\ row \in [Node -> Slave \cup {None}] /\ lk \in [Node -> Link \cup {None}]
  /\ \A s \in Node : row[s] # None => Stage(row[s], s)
  /\ \A s \in Sockets(row) : /\ lk[s] # None /\ lk[s].peer = m /\ lk[s].open /\ lk[s].req = None
                             /\ link[s] # None /\ lk[s].q = link[s].q
  /\ \A s \in Node : lk[s] = link[s] \/ (Narrows(lk[s], link[s]) /\ link[s].peer = m)

\* What the child saves is a snapshot.
LEMMA ForkSnapshotType ==
  ASSUME TypeOK, NEW m \in Node, NEW id \in Id
  PROVE  ForkSnapshot(m, id) \in Snapshot
<1>1. (IF master[m] # None THEN master[m].db ELSE -1) \in SelDB BY DEF TypeOK, Master, SelDB
<1> QED BY <1>1 DEF ForkSnapshot, Snapshot, TypeOK

\* A client that keeps its place, on a connection that is only narrowed.
LEMMA StagedClient ==
  ASSUME NEW m \in Node, NEW row, NEW lk, Prepared(m, row, lk), NEW s \in Sockets(row),
         link'[s] = lk[s], slaves'[m][s] = row[s],
         state' = state, cached' = cached, initial' = initial
  PROVE  ClientOrder(m, s)'
<1>1. s \in Node /\ row[s] # None /\ row[s].sock BY DEF Sockets
<1>2. /\ link'[s] # None /\ link'[s].peer = m /\ link'[s].open /\ link'[s].req = None
      /\ link'[s].q = link[s].q
  BY Zenon DEF Prepared
<1>3. Stage(row[s], s) BY <1>1 DEF Prepared
<1>4. /\ AwaitsReply(s) => AwaitsReply(s)'
      /\ AwaitsPayload(s) => AwaitsPayload(s)'
      /\ FollowsStream(s) => FollowsStream(s)'
  BY <1>2, Zenon DEF AwaitsReply, AwaitsPayload, FollowsStream, StreamFrom
<1> QED BY <1>1, <1>2, <1>3, <1>4, Zenon DEF ClientOrder, Stage

\* A connection that lost only its master's end is still a connection.
LEMMA NarrowedLink ==
  ASSUME RepliesInOrder, NEW s \in Node, Narrows(link'[s], link[s]),
         state' = state, cached' = cached, initial' = initial
  PROVE  link[s] # None /\ link'[s] # None /\ LinkOrder(s)'
<1>1. link[s] # None /\ link'[s] # None BY NoneAssumption DEF Narrows
<1>2. LinkOrder(s) BY <1>1 DEF RepliesInOrder
<1>3. LinkOrder(s)' BY <1>2, NarrowOrder
<1> QED BY <1>1, <1>3

\* The child has been forked.
LEMMA ForkedStep ==
  ASSUME TypeOK, RepliesInOrder, NEW m \in Node, NEW row, NEW lk, NEW id \in Id, Prepared(m, row, lk),
         NEW W, W = InState(row, "wait_bgsave_start"),
         slaves' = [slaves EXCEPT ![m] = SetupForFullResync(row, W, offset[m])],
         link' = Sent(lk, W \cap Sockets(row),
                      <<[t |-> "fullresync", replid |-> id, reploff |-> offset[m]]>>),
         NEW type \in {"disk", "socket"},
         child' = [child EXCEPT ![m] = [type |-> type, snap |-> ForkSnapshot(m, id), sent |-> FALSE]],
         state' = state, cached' = cached, initial' = initial
  PROVE  /\ slaves' \in [Node -> [Node -> Slave \cup {None}]]
         /\ link' \in [Node -> Link \cup {None}] /\ child' \in [Node -> Child \cup {None}]
         /\ \A s \in Node : link'[s] # None <=> link[s] # None
         /\ RepliesInOrder'
<1> DEFINE full == [t |-> "fullresync", replid |-> id, reploff |-> offset[m]]
           R == W \cap Sockets(row)
           new == SetupForFullResync(row, W, offset[m])
           T == R \cup {s \in Node : lk[s] # link[s]}
<1>1. full \in Full /\ full \in Message /\ <<full>> \in Seq(Message)
  <2>1. offset[m] \in Int BY DEF TypeOK
  <2>2. full \in Full BY <2>1 DEF Full
  <2>3. full \in Message BY <2>2 DEF Message
  <2> QED BY <2>2, <2>3
<1>2. child' \in [Node -> Child \cup {None}] /\ child'[m] # None /\ child'[m].sent = FALSE
      /\ \A a \in Node \ {m} : child'[a] = child[a]
  <2>1. [type |-> type, snap |-> ForkSnapshot(m, id), sent |-> FALSE] \in Child
    BY ForkSnapshotType DEF Child
  <2> QED BY <2>1, NoneAssumption, Zenon DEF TypeOK
<1>3. ASSUME NEW s \in Node
      PROVE  /\ new[s] \in Slave \cup {None}
             /\ s \in W => /\ row[s] \in Slave /\ row[s].st = "wait_bgsave_start"
                           /\ new[s].st = "wait_bgsave_end" /\ new[s].sock = row[s].sock
             /\ s \notin W => new[s] = row[s]
  <2>1. CASE s \in W
    <3>1. row[s] \in Slave /\ row[s].st = "wait_bgsave_start"
      BY <2>1, ZenonT(30) DEF InState, Prepared
    <3>2. new[s] = [row[s] EXCEPT !.st = "wait_bgsave_end", !.initoff = offset[m]]
      BY <2>1, Zenon DEF SetupForFullResync
    <3>3. offset[m] \in Int BY DEF TypeOK
    <3>4. new[s] \in Slave /\ new[s].st = "wait_bgsave_end" /\ new[s].sock = row[s].sock
      BY <3>1, <3>2, <3>3, ZenonT(30) DEF Slave
    <3> QED BY <2>1, <3>1, <3>4, ZenonT(30)
  <2>2. CASE s \notin W BY <2>2, Zenon DEF Prepared, SetupForFullResync
  <2> QED BY <2>1, <2>2, ZenonT(30)
<1>4. ASSUME NEW s \in R
      PROVE  /\ s \in Node /\ lk[s] \in Link /\ lk[s].peer = m /\ lk[s].open /\ lk[s].req = None
             /\ link[s] # None /\ lk[s].q = link[s].q /\ AwaitsReply(s)
  <2>1. s \in Node /\ row[s] # None /\ row[s].sock /\ row[s].st = "wait_bgsave_start"
    BY Zenon DEF InState, Sockets
  <2>2. AwaitsReply(s) BY <2>1, ZenonT(30) DEF Prepared, Stage
  <2> QED BY <2>1, <2>2, Zenon DEF Prepared, Sockets
<1> HIDE DEF new
<1>5. new \in [Node -> Slave \cup {None}] BY <1>3, Zenon DEF new, SetupForFullResync
<1>6. slaves' = [slaves EXCEPT ![m] = new] BY DEF new
<1>7. slaves' \in [Node -> [Node -> Slave \cup {None}]] BY <1>5, <1>6 DEF TypeOK
<1>8. link' = Sent(lk, R, <<full>>) OBVIOUS
<1> HIDE DEF full, R
<1>9. lk \in [Node -> Link \cup {None}] BY ZenonT(30) DEF Prepared
<1>10. R \subseteq Node /\ \A s \in R : lk[s] # None BY <1>4, NoneAssumption, Zenon
<1>11. link' \in [Node -> Link \cup {None}]
  <2>1. Sent(lk, R, <<full>>) \in [Node -> Link \cup {None}] BY <1>1, <1>9, <1>10, SentType, Zenon
  <2> QED BY <1>8, <2>1, Zenon
<1>12. ASSUME NEW s \in R
       PROVE  /\ link'[s] \in Link /\ link'[s].peer = m /\ link'[s].open /\ link'[s].req = None
              /\ link'[s].q = link[s].q \o <<full>> /\ link'[s] # None
              /\ AwaitsPayload(s)'
  <2>1. link'[s] = [lk[s] EXCEPT !.q = @ \o <<full>>] BY <1>8, <1>10, Zenon DEF Sent
  <2>2. /\ link'[s].peer = m /\ link'[s].open /\ link'[s].req = None
        /\ link'[s].q = link[s].q \o <<full>>
    <3>1. lk[s] \in Link BY <1>4, Zenon
    <3>2. /\ link'[s].peer = lk[s].peer /\ link'[s].open = lk[s].open /\ link'[s].req = lk[s].req
          /\ link'[s].q = lk[s].q \o <<full>>
      BY <2>1, <3>1, Zenon DEF Link
    <3> QED BY <1>4, <3>2, Zenon
  <2>3. lk[s].q \o <<full>> \in Seq(Message)
    <3>1. lk[s].q \in Seq(Message) BY <1>4 DEF Link
    <3>2. <<full>> \in Seq(Message) BY <1>1
    <3> QED BY <3>1, <3>2
  <2>4. link'[s] \in Link
    <3> DEFINE q == lk[s].q \o <<full>>
    <3>1. lk[s] \in Link /\ link'[s] = [lk[s] EXCEPT !.q = q] BY <1>4, <2>1
    <3>2. q \in Seq(Message) BY <2>3
    <3> HIDE DEF q
    <3> QED BY <3>1, <3>2, Zenon DEF Link
  <2>5. AwaitsPayload(s)' BY <1>1, <1>4, <2>2, SendFull, Zenon
  <2> QED BY <2>2, <2>4, <2>5, NoneAssumption, Zenon
<1>13. ASSUME NEW s \in Node, s \notin R PROVE link'[s] = lk[s]
  BY <1>8, <1>13 DEF Sent
<1>14. T \subseteq Node /\ \A s \in Node \ T : link'[s] = link[s]
  BY <1>10, <1>13, ZenonT(30)
<1>15. ASSUME NEW s \in T
       PROVE  link[s] # None /\ link[s].peer = m /\ link'[s] # None /\ LinkOrder(s)'
  <2>1. CASE s \in R
    <3>1. LinkOrder(s)' BY <1>12, <2>1, ZenonT(30) DEF LinkOrder
    <3>2. link[s].peer = m
      <4>1. lk[s] = link[s] \/ Narrows(lk[s], link[s]) BY <1>4, <2>1, ZenonT(30) DEF Prepared
      <4> QED BY <1>4, <2>1, <4>1, ZenonT(30) DEF Narrows
    <3> QED BY <1>4, <1>12, <2>1, <3>1, <3>2, ZenonT(30)
  <2>2. CASE s \notin R
    <3>1. s \in Node /\ lk[s] # link[s] /\ link'[s] = lk[s] BY <1>13, <2>2, ZenonT(30)
    <3>2. Narrows(link'[s], link[s]) /\ link[s].peer = m BY <3>1, Zenon DEF Prepared
    <3> QED BY <3>1, <3>2, NarrowedLink, ZenonT(30)
  <2> QED BY <2>1, <2>2, ZenonT(30)
<1>16. ASSUME NEW s \in Node, new[s] # None, new[s].sock PROVE ClientOrder(m, s)'
  <2>1. slaves'[m][s] = new[s] BY <1>6 DEF TypeOK
  <2>2. CASE s \in W
    <3>1. s \in R /\ new[s].st = "wait_bgsave_end"
      BY <1>3, <1>16, <2>2, NoneAssumption, ZenonT(30) DEF R, Sockets
    <3> QED BY <1>2, <1>12, <2>1, <3>1, ZenonT(30) DEF ClientOrder
  <2>3. CASE s \notin W
    <3>1. new[s] = row[s] /\ s \notin R BY <1>3, <2>3, ZenonT(30) DEF R
    <3>2. s \in Sockets(row) BY <1>16, <3>1, ZenonT(30) DEF Sockets
    <3>3. link'[s] = lk[s] BY <1>13, <3>1, ZenonT(30)
    <3> QED BY <2>1, <3>1, <3>2, <3>3, StagedClient, ZenonT(30)
  <2> QED BY <2>2, <2>3
<1> HIDE DEF T
<1>17. ChangesRow(m, new, T)
  BY <1>2, <1>5, <1>6, <1>14, <1>15, <1>16, ZenonT(30) DEF ChangesRow
<1>18. (\A s \in Node : link'[s] # None <=> link[s] # None) /\ RepliesInOrder'
  BY <1>17, RowStep, ZenonT(30)
<1> QED BY <1>2, <1>7, <1>11, <1>18, Zenon

\* The fork has failed: the replicas that waited are forgotten, with at most a +FULLRESYNC.
LEMMA FailedStep ==
  ASSUME TypeOK, RepliesInOrder, NEW m \in Node, NEW row, NEW lk, Prepared(m, row, lk),
         NEW W, W = InState(row, "wait_bgsave_start"),
         slaves' = [slaves EXCEPT ![m] = Without(row, W)],
         NEW msgs \in Seq(Message), msgs = <<>> \/ \E y \in Full : msgs = <<y>>,
         link' = Sent(lk, W \cap Sockets(row), msgs),
         child' = [child EXCEPT ![m] = None],
         state' = state, cached' = cached, initial' = initial
  PROVE  /\ slaves' \in [Node -> [Node -> Slave \cup {None}]]
         /\ link' \in [Node -> Link \cup {None}] /\ child' \in [Node -> Child \cup {None}]
         /\ \A s \in Node : link'[s] # None <=> link[s] # None
         /\ RepliesInOrder'
<1> DEFINE R == W \cap Sockets(row)
           new == Without(row, W)
           T == R \cup {s \in Node : lk[s] # link[s]}
<1>1. child' \in [Node -> Child \cup {None}] /\ child'[m] = None
      /\ \A a \in Node \ {m} : child'[a] = child[a]
  BY DEF TypeOK
<1>2. \A s \in Node : new[s] = IF s \in W THEN None ELSE row[s] BY DEF Without
<1>3. new \in [Node -> Slave \cup {None}] BY DEF Without, Prepared
<1>4. slaves' = [slaves EXCEPT ![m] = new] OBVIOUS
<1>5. slaves' \in [Node -> [Node -> Slave \cup {None}]] BY <1>3, <1>4 DEF TypeOK
<1>6. ASSUME NEW s \in R
      PROVE  /\ s \in Node /\ lk[s] \in Link /\ lk[s].peer = m /\ lk[s].req = None
             /\ link[s] # None /\ link[s].peer = m /\ lk[s].q = link[s].q /\ AwaitsReply(s)
  <2>1. s \in Node /\ row[s] # None /\ row[s].sock /\ row[s].st = "wait_bgsave_start"
    BY ZenonT(30) DEF InState, Sockets
  <2>2. AwaitsReply(s) BY <2>1, ZenonT(30) DEF Prepared, Stage
  <2>3. lk[s] \in Link /\ lk[s].peer = m /\ lk[s].req = None /\ link[s] # None /\ lk[s].q = link[s].q
    BY <2>1, ZenonT(30) DEF Prepared, Sockets
  <2>4. link[s].peer = m
    <3>1. lk[s] = link[s] \/ Narrows(lk[s], link[s]) BY <2>1, ZenonT(30) DEF Prepared
    <3> QED BY <2>3, <3>1, ZenonT(30) DEF Narrows
  <2> QED BY <2>1, <2>2, <2>3, <2>4, ZenonT(30)
<1>7. lk \in [Node -> Link \cup {None}] BY ZenonT(30) DEF Prepared
<1>8. R \subseteq Node /\ \A s \in R : lk[s] # None BY <1>6, NoneAssumption
<1>9. link' = Sent(lk, R, msgs) OBVIOUS
<1> HIDE DEF new, R
<1>10. link' \in [Node -> Link \cup {None}]
  <2>1. Sent(lk, R, msgs) \in [Node -> Link \cup {None}] BY <1>7, <1>8, SentType
  <2> QED BY <1>9, <2>1, Zenon
<1>11. ASSUME NEW s \in R
       PROVE  /\ link'[s] # None /\ link'[s].req = None
              /\ AwaitsReply(s)' \/ AwaitsPayload(s)'
  <2>1. link'[s] = [lk[s] EXCEPT !.q = @ \o msgs] BY <1>8, <1>9, Zenon DEF Sent
  <2>2. lk[s] \in Link BY <1>6, Zenon
  <2>3. link'[s] # None
    <3>1. link'[s] \in Link \cup {None} /\ lk[s].q \o msgs \in Seq(Message)
      <4>1. s \in Node BY <1>6, Zenon
      <4>2. lk[s].q \in Seq(Message) BY <2>2 DEF Link
      <4>3. lk[s].q \o msgs \in Seq(Message) BY <4>2
      <4> QED BY <1>10, <4>1, <4>3, Zenon
    <3>2. link'[s] \in Link
      <4> DEFINE q == lk[s].q \o msgs
      <4>1. link'[s] = [lk[s] EXCEPT !.q = q] /\ q \in Seq(Message) BY <2>1, <3>1
      <4> HIDE DEF q
      <4> QED BY <2>2, <4>1, Zenon DEF Link
    <3> QED BY <3>2, NoneAssumption, Zenon
  <2>4. link'[s].req = None /\ link'[s].q = link[s].q \o msgs
    <3>1. link'[s].req = lk[s].req /\ link'[s].q = lk[s].q \o msgs BY <2>1, <2>2, Zenon DEF Link
    <3> QED BY <1>6, <3>1, Zenon
  <2>5. CASE msgs = <<>>
    <3>1. link'[s].q = <<>> BY <1>6, <2>4, <2>5 DEF AwaitsReply
    <3>2. AwaitsReply(s)' BY <1>6, <3>1, Zenon DEF AwaitsReply
    <3> QED BY <2>3, <2>4, <3>2, Zenon
  <2>6. ASSUME NEW y \in Full, msgs = <<y>> PROVE AwaitsPayload(s)'
    <3>1. link'[s].q = link[s].q \o <<y>> BY <2>4, <2>6
    <3> QED BY <1>6, <3>1, SendFull, Zenon
  <2> QED BY <2>3, <2>4, <2>5, <2>6, Zenon
<1>12. ASSUME NEW s \in Node, s \notin R PROVE link'[s] = lk[s]
  BY <1>9, <1>12, Zenon DEF Sent
<1>14. T \subseteq Node /\ \A s \in Node \ T : link'[s] = link[s]
  BY <1>8, <1>12, ZenonT(30)
<1>15. ASSUME NEW s \in T
       PROVE  link[s] # None /\ link[s].peer = m /\ link'[s] # None /\ LinkOrder(s)'
  <2>1. CASE s \in R BY <1>6, <1>11, <2>1, ZenonT(30) DEF LinkOrder
  <2>2. CASE s \notin R
    <3>1. s \in Node /\ lk[s] # link[s] /\ link'[s] = lk[s] BY <1>12, <2>2, ZenonT(30)
    <3>2. Narrows(link'[s], link[s]) /\ link[s].peer = m BY <3>1, ZenonT(30) DEF Prepared
    <3> QED BY <3>1, <3>2, NarrowedLink, ZenonT(30)
  <2> QED BY <2>1, <2>2, ZenonT(30)
<1>16. ASSUME NEW s \in Node, new[s] # None PROVE new[s] = row[s] /\ s \notin W
  BY <1>2, <1>16, ZenonT(30)
<1>17. ASSUME NEW s \in Node, new[s] # None, new[s].sock PROVE ClientOrder(m, s)'
  <2>1. slaves'[m][s] = row[s] BY <1>4, <1>16, <1>17, ZenonT(30) DEF TypeOK
  <2>2. s \in Sockets(row) /\ s \notin R BY <1>16, <1>17, Zenon DEF Sockets, R
  <2>3. link'[s] = lk[s] BY <1>12, <2>2, Zenon
  <2> QED BY <2>1, <2>2, <2>3, StagedClient, ZenonT(30)
<1>18. ASSUME NEW s \in Node, new[s] # None PROVE new[s].st # "wait_bgsave_end"
  BY <1>16, <1>18, Zenon DEF Prepared, Stage
<1> HIDE DEF T
<1>19. ChangesRow(m, new, T)
  BY <1>1, <1>3, <1>4, <1>14, <1>15, <1>17, <1>18, Zenon DEF ChangesRow
<1>20. (\A s \in Node : link'[s] # None <=> link[s] # None) /\ RepliesInOrder'
  BY <1>19, RowStep, Zenon
<1> QED BY <1>1, <1>5, <1>10, <1>20, Zenon

-----------------------------------------------------------------------------
\* A step of a master keeps the facts on server.repl_state.
LEMMA FrameAssertions ==
  ASSUME AssertionsHold, host' = host, state' = state, master' = master, cached' = cached,
         \A s \in Node : link'[s] # None <=> link[s] # None,
         \A n \in Node : slaves'[n] # NoSlaves => backlog'[n] # None
  PROVE  AssertionsHold'
BY DEF AssertionsHold

\* No connection but the one of s, a replica of m, changes.
OnlyLink(m, s) ==
  /\ link' \in [Node -> Link \cup {None}]
  /\ \A x \in Node \ {s} : link'[x] = link[x]
  /\ \/ link'[s] = link[s]
     \/ link[s] # None /\ link[s].peer = m /\ link'[s] # None /\ LinkOrder(s)'

\* One client of m, and its connection, change.
LEMMA OneClientStep ==
  ASSUME TypeOK, RepliesInOrder, NEW m \in Node, NEW s \in Node, NEW c \in Slave \cup {None},
         slaves' = [slaves EXCEPT ![m] = [slaves[m] EXCEPT ![s] = c]],
         OnlyLink(m, s),
         child' = child, state' = state, cached' = cached, initial' = initial,
         c # None /\ c.sock => ClientOrder(m, s)',
         c # None /\ c.st = "wait_bgsave_end" => child[m] # None
  PROVE  /\ slaves' \in [Node -> [Node -> Slave \cup {None}]]
         /\ \A x \in Node : link'[x] # None <=> link[x] # None
         /\ RepliesInOrder'
<1> DEFINE row == [slaves[m] EXCEPT ![s] = c]
           T == IF link'[s] = link[s] THEN {} ELSE {s}
<1>1. row \in [Node -> Slave \cup {None}] /\ row[s] = c /\ \A x \in Node \ {s} : row[x] = slaves[m][x]
  BY DEF TypeOK
<1>2. slaves' = [slaves EXCEPT ![m] = row] OBVIOUS
<1> HIDE DEF row
<1>3. slaves' \in [Node -> [Node -> Slave \cup {None}]] /\ slaves'[m] = row
  <2>1. slaves \in [Node -> [Node -> Slave \cup {None}]] BY DEF TypeOK
  <2> QED BY <1>1, <1>2, <2>1
<1>4. \A x \in Node \ {s} : link'[x] = link[x] BY DEF OnlyLink
<1>5. T \subseteq Node /\ \A x \in Node \ T : link'[x] = link[x] BY <1>4
<1>6. \A x \in T : link[x] # None /\ link[x].peer = m /\ link'[x] # None /\ LinkOrder(x)'
  BY DEF OnlyLink
<1>7. ASSUME NEW x \in Node, row[x] # None, row[x].sock PROVE ClientOrder(m, x)'
  <2>1. CASE x = s BY <1>1, <1>7, <2>1
  <2>2. CASE x # s
    <3>1. slaves'[m][x] = slaves[m][x] /\ ClientOrder(m, x)
      BY <1>1, <1>3, <1>7, <2>2 DEF RepliesInOrder
    <3>2. link'[x] = link[x] /\ link[x] # None BY <1>4, <2>2, <3>1 DEF ClientOrder
    <3>3. Keeps(x) BY <3>2, FrameKeeps
    <3> QED BY <3>1, <3>3, KeepOrder
  <2> QED BY <2>1, <2>2
<1>8. ASSUME NEW x \in Node, row[x] # None, row[x].st = "wait_bgsave_end" PROVE child'[m] # None
  BY <1>1, <1>8 DEF RepliesInOrder
<1> HIDE DEF T
<1>9. ChangesRow(m, row, T)
  BY <1>1, <1>2, <1>5, <1>6, <1>7, <1>8, Zenon DEF ChangesRow, RepliesInOrder
<1>10. (\A x \in Node : link'[x] # None <=> link[x] # None) /\ RepliesInOrder'
  BY <1>9, RowStep
<1> QED BY <1>3, <1>10

\* Messages sent to one replica.
Queued(l, msgs) == [l EXCEPT !.q = @ \o msgs]

\* One message sent on one connection.
LEMMA SentOne ==
  ASSUME NEW lk \in [Node -> Link \cup {None}], NEW s \in Node, NEW msgs \in Seq(Message),
         lk[s] \in Link
  PROVE  /\ Sent(lk, {s}, msgs) \in [Node -> Link \cup {None}]
         /\ Sent(lk, {s}, msgs)[s] = Queued(lk[s], msgs)
         /\ \A x \in Node \ {s} : Sent(lk, {s}, msgs)[x] = lk[x]
         /\ Queued(lk[s], msgs) \in Link
         /\ Queued(lk[s], msgs).q = lk[s].q \o msgs
         /\ Queued(lk[s], msgs).peer = lk[s].peer
         /\ Queued(lk[s], msgs).open = lk[s].open
         /\ Queued(lk[s], msgs).req = lk[s].req
<1> DEFINE l == Queued(lk[s], msgs)
<1>1. lk[s].q \o msgs \in Seq(Message) BY DEF Link
<1>2. /\ l \in Link /\ l.q = lk[s].q \o msgs /\ l.peer = lk[s].peer /\ l.open = lk[s].open
      /\ l.req = lk[s].req
  BY <1>1, ZenonT(30) DEF Link, Queued
<1>3. Sent(lk, {s}, msgs) = [x \in Node |-> IF x = s THEN l ELSE lk[x]] BY DEF Sent, Queued
<1> HIDE DEF l
<1> QED BY <1>2, <1>3, Zenon DEF l

\* startBgsaveForReplication, fork or failed fork, keeps the order of the replies.
LEMMA StartBgsaveStep ==
  ASSUME TypeOK, RepliesInOrder, NEW m \in Node, NEW row, NEW lk, NEW id \in Id, NEW f \in Nat,
         Prepared(m, row, lk), StartBgsaveForReplication(m, row, lk, id, f),
         state' = state, cached' = cached, initial' = initial
  PROVE  /\ slaves' \in [Node -> [Node -> Slave \cup {None}]]
         /\ link' \in [Node -> Link \cup {None}] /\ child' \in [Node -> Child \cup {None}]
         /\ seldb' \in [Node -> SelDB] /\ faults' \in Nat
         /\ \A a \in Node \ {m} : slaves'[a] = slaves[a]
         /\ \A s \in Node : link'[s] # None <=> link[s] # None
         /\ RepliesInOrder'
<1> DEFINE W == InState(row, "wait_bgsave_start")
           R == W \cap Sockets(row)
           full == [t |-> "fullresync", replid |-> id, reploff |-> offset[m]]
           type == IF m \in Diskless THEN "socket" ELSE "disk"
           msgs == IF m \in Diskless THEN <<full>> ELSE <<>>
           Forked == /\ slaves' = [slaves EXCEPT ![m] = SetupForFullResync(row, W, offset[m])]
                     /\ link' = Sent(lk, R, <<full>>)
                     /\ child' = [child EXCEPT ![m] = [type |-> type, snap |-> ForkSnapshot(m, id),
                                                       sent |-> FALSE]]
           Failed == /\ slaves' = [slaves EXCEPT ![m] = Without(row, W)]
                     /\ link' = Sent(lk, R, msgs)
                     /\ child' = [child EXCEPT ![m] = None]
<1>1. Forked \/ Failed BY Zenon DEF StartBgsaveForReplication
<1>2. seldb' \in [Node -> SelDB] /\ faults' \in Nat
  <2>1. seldb' = seldb \/ seldb' = [seldb EXCEPT ![m] = -1] BY ZenonT(30) DEF StartBgsaveForReplication
  <2>2. faults' = faults + f \/ faults' = faults + f + 1 BY Zenon DEF StartBgsaveForReplication
  <2>3. seldb \in [Node -> SelDB] /\ faults \in Nat /\ -1 \in SelDB BY DEF TypeOK, SelDB
  <2>4. seldb' \in [Node -> SelDB] BY <2>1, <2>3
  <2>5. faults' \in Nat BY <2>2, <2>3
  <2> QED BY <2>4, <2>5
<1>3. \A a \in Node \ {m} : slaves'[a] = slaves[a] BY <1>1, Zenon DEF TypeOK
<1>4. type \in {"disk", "socket"} OBVIOUS
<1>5. full \in Full /\ msgs \in Seq(Message) /\ (msgs = <<>> \/ \E y \in Full : msgs = <<y>>)
  <2>1. offset[m] \in Int BY DEF TypeOK
  <2>2. full \in Full BY <2>1, ZenonT(30) DEF Full
  <2>3. full \in Message BY <2>2, Zenon DEF Message
  <2> HIDE DEF full
  <2>4. <<>> \in Seq(Message) /\ <<full>> \in Seq(Message) BY <2>3
  <2>5. msgs = <<>> \/ msgs = <<full>> OBVIOUS
  <2> HIDE DEF msgs
  <2> QED BY <2>2, <2>4, <2>5, Zenon
<1> HIDE DEF W, msgs, type
<1>6. CASE Forked BY <1>2, <1>3, <1>4, <1>6, ForkedStep, Zenon DEF W
<1> HIDE DEF full
<1>7. CASE Failed BY <1>2, <1>3, <1>5, <1>7, FailedStep, Zenon DEF W
<1> QED BY <1>1, <1>6, <1>7, Zenon

-----------------------------------------------------------------------------
(* The BGSAVE child *)

\* What the handlers of a master leave alone.
LEMMA MasterFrame ==
  ASSUME Inv, UNCHANGED <<data, replid, replid2, secondoff, offset, backlog, replica, ids, writes,
                          pings, saves, commands, restarts>>,
         slaves' \in [Node -> [Node -> Slave \cup {None}]], link' \in [Node -> Link \cup {None}],
         child' \in [Node -> Child \cup {None}], seldb' \in [Node -> SelDB], faults' \in Nat,
         \A s \in Node : link'[s] # None <=> link[s] # None,
         \A a \in Node : slaves'[a] # NoSlaves => slaves[a] # NoSlaves,
         RepliesInOrder'
  PROVE  Inv'
<1>1. TypeOK' BY DEF Inv, TypeOK, replica
<1>2. AssertionsHold'
  <2>1. \A a \in Node : slaves'[a] # NoSlaves => backlog'[a] # None BY DEF Inv, AssertionsHold
  <2>2. host' = host /\ state' = state /\ master' = master /\ cached' = cached BY DEF replica
  <2> QED BY <2>1, <2>2, FrameAssertions, Zenon DEF Inv
<1> QED BY <1>1, <1>2 DEF Inv

\* The clients and connections of the current state are prepared for a BGSAVE.
LEMMA PreparedNow ==
  ASSUME Inv, NEW m \in Node, child[m] = None
  PROVE  Prepared(m, slaves[m], link)
<1>1. ASSUME NEW s \in Node, slaves[m][s] # None PROVE Stage(slaves[m][s], s)
  <2>1. slaves[m][s].st # "wait_bgsave_end" BY <1>1 DEF Inv, RepliesInOrder
  <2>2. slaves[m][s].sock => ClientOrder(m, s) BY <1>1 DEF Inv, RepliesInOrder
  <2> QED BY <2>1, <2>2 DEF Stage, ClientOrder
<1>2. ASSUME NEW s \in Sockets(slaves[m])
      PROVE  link[s] # None /\ link[s].peer = m /\ link[s].open /\ link[s].req = None
  BY SocketsLinked, NoneAssumption DEF Inv
<1>3. slaves[m] \in [Node -> Slave \cup {None}] /\ link \in [Node -> Link \cup {None}]
  BY DEF Inv, TypeOK
<1> QED BY <1>1, <1>2, <1>3 DEF Prepared

\* replicationCron starting the BGSAVE the waiting replicas need preserves the invariant.
LEMMA CronStartBgsaveInv ==
  ASSUME Inv, NEW m \in Node, CronStartBgsave(m)
  PROVE  Inv'
<1>1. child[m] = None /\ \E s \in Node : slaves[m][s] # None
  BY ZenonT(30) DEF CronStartBgsave, BgsaveDue, InState
<1>2. Prepared(m, slaves[m], link) BY <1>1, PreparedNow, Zenon
<1>3. StartBgsaveForReplication(m, slaves[m], link, replid[m], 0) BY DEF CronStartBgsave
<1>4. TypeOK /\ RepliesInOrder /\ replid[m] \in Id BY DEF Inv, TypeOK
<1>5. state' = state /\ cached' = cached /\ initial' = initial BY ZenonT(30) DEF CronStartBgsave, replica
<1>6. /\ slaves' \in [Node -> [Node -> Slave \cup {None}]]
      /\ link' \in [Node -> Link \cup {None}] /\ child' \in [Node -> Child \cup {None}]
      /\ seldb' \in [Node -> SelDB] /\ faults' \in Nat
      /\ \A a \in Node \ {m} : slaves'[a] = slaves[a]
      /\ \A s \in Node : link'[s] # None <=> link[s] # None
      /\ RepliesInOrder'
  <2> DEFINE row == slaves[m]  id == replid[m]
  <2>1. /\ Prepared(m, row, link) /\ StartBgsaveForReplication(m, row, link, id, 0)
        /\ id \in Id /\ 0 \in Nat
    BY <1>2, <1>3, <1>4
  <2> HIDE DEF row, id
  <2> QED BY <1>4, <1>5, <2>1, StartBgsaveStep, Zenon
<1>7. ASSUME NEW a \in Node, slaves'[a] # NoSlaves PROVE slaves[a] # NoSlaves
  BY <1>1, <1>6, <1>7 DEF NoSlaves
<1>8. UNCHANGED <<data, replid, replid2, secondoff, offset, backlog, replica, ids, writes, pings,
                  saves, commands, restarts>>
  BY Zenon DEF CronStartBgsave
<1> QED BY <1>6, <1>7, <1>8, MasterFrame, ZenonT(30)

\* A BGSAVE for a save point or the BGSAVE command preserves the invariant.
LEMMA SavePointInv ==
  ASSUME Inv, NEW m \in Node, SavePoint(m)
  PROVE  Inv'
<1> DEFINE c == [type |-> "disk", snap |-> [ForkSnapshot(m, replid[m]) EXCEPT !.db = -1], sent |-> FALSE]
<1>1. c \in Child
  <2>1. replid[m] \in Id BY DEF Inv, TypeOK
  <2>2. ForkSnapshot(m, replid[m]) \in Snapshot BY <2>1, ForkSnapshotType DEF Inv
  <2>3. [ForkSnapshot(m, replid[m]) EXCEPT !.db = -1] \in Snapshot BY <2>2 DEF Snapshot, SelDB
  <2> QED BY <2>3 DEF Child
<1>2. child[m] = None /\ child' = [child EXCEPT ![m] = c] BY DEF SavePoint
<1>3. c.type = "disk" /\ c.sent = FALSE OBVIOUS
<1> HIDE DEF c
<1>4. /\ child' \in [Node -> Child \cup {None}] /\ child'[m] = c
      /\ \A a \in Node \ {m} : child'[a] = child[a]
  BY <1>1, <1>2 DEF Inv, TypeOK
<1>5. saves' \in Nat BY DEF SavePoint, Inv, TypeOK
<1>6. UNCHANGED <<data, identity, replica, link, slaves, ids, writes, pings, faults, commands,
                  restarts>>
  BY DEF SavePoint
<1>7. TypeOK' BY <1>4, <1>5, <1>6 DEF Inv, TypeOK, identity, replica
<1>8. AssertionsHold' BY <1>6, ZenonT(30) DEF Inv, AssertionsHold, identity, replica
<1>9. ASSUME NEW a \in Node, NEW s \in Node, slaves[a][s] # None
      PROVE  /\ slaves[a][s].st = "wait_bgsave_end" => a # m
             /\ slaves[a][s].sock => ClientOrder(a, s)'
  <2>1. slaves[a][s].st = "wait_bgsave_end" => a # m BY <1>2, <1>9 DEF Inv, RepliesInOrder
  <2>2. ASSUME slaves[a][s].sock PROVE ClientOrder(a, s)'
    <3>1. ClientOrder(a, s) BY <1>9, <2>2 DEF Inv, RepliesInOrder
    <3>2. Keeps(s) BY <1>6, <3>1, FrameKeeps, Zenon DEF ClientOrder, replica
    <3> QED BY <1>4, <1>6, <2>1, <3>1, <3>2, KeepOrder, ZenonT(30)
  <2> QED BY <2>1, <2>2, Zenon
<1>10. ASSUME NEW s \in Node, link[s] # None PROVE LinkOrder(s)'
  <2>1. LinkOrder(s) BY <1>10 DEF Inv, RepliesInOrder
  <2> QED BY <1>6, <2>1, FrameOrder DEF replica
<1>11. RepliesInOrder'
  <2>1. \A s \in Node : link'[s] # None => LinkOrder(s)' BY <1>6, <1>10
  <2>2. \A a, s \in Node : slaves'[a][s] # None /\ slaves'[a][s].sock => ClientOrder(a, s)'
    BY <1>6, <1>9
  <2>3. \A a, s \in Node : slaves'[a][s] # None /\ slaves'[a][s].st = "wait_bgsave_end"
                            => child'[a] # None
    BY <1>4, <1>6, <1>9 DEF Inv, RepliesInOrder
  <2>4. \A a \in Node : child'[a] # None /\ child'[a].type = "disk" => ~child'[a].sent
    BY <1>3, <1>4 DEF Inv, RepliesInOrder
  <2> QED BY <2>1, <2>2, <2>3, <2>4, Zenon DEF RepliesInOrder
<1> QED BY <1>7, <1>8, <1>11 DEF Inv
=============================================================================
