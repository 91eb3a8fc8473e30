---------------------------- MODULE Replication ----------------------------
(***************************************************************************)
(* Asynchronous replication of redis-4.0.0 (PSYNC version 2): the servers  *)
(* of replication.c, the BGSAVE child that produces the payload of a full  *)
(* resynchronization, and the TCP connections between a replica and its    *)
(* master.  A server is a master for its own replicas and, at the same     *)
(* time, possibly a replica of another server (chained replication).       *)
(*                                                                         *)
(* Data abstraction.  A dataset is the sequence of the writes applied to   *)
(* it, each tagged with its database.  The replication stream is counted   *)
(* in commands, not bytes: a write, a SELECT or a PING is one unit of the  *)
(* offset.  The output buffer of a replica that is online and the socket   *)
(* behind it are one FIFO.                                                 *)
(*                                                                         *)
(* An operator marked "Mistake" is a wrong version of the one that follows *)
(* it.  No definition uses it: it stands for a bug the properties catch.   *)
(***************************************************************************)
EXTENDS Integers, Sequences, FiniteSets, Functions

CONSTANTS
  Node,         \* the servers
  None,         \* NULL: no master, no client structure, no backlog, no id
  DB,           \* database numbers, 0 among them
  Diskless,     \* the servers configured with repl-diskless-sync yes
  BacklogSize,  \* repl-backlog-size, in stream units
  Topologies,   \* the slaveof directives of redis.conf: functions Node -> Node \cup {None}
  MaxStream,    \* bound: writes by clients and PINGs of masters, over all servers
  MaxSaves,     \* bound: BGSAVEs not started for replication
  MaxFaults,    \* bound: broken connections, failed forks, failed saves
  MaxCommands,  \* bound: SLAVEOF commands
  MaxRestarts   \* bound: restarts of a server

ASSUME ConstantsAssumption ==
  /\ DB \subseteq Nat /\ 0 \in DB
  /\ Diskless \subseteq Node
  /\ BacklogSize \in Nat \ {0}
  /\ Topologies \subseteq [Node -> Node \cup {None}]

VARIABLES
  \* the dataset
  data,     \* data[n]: the writes applied by n, <<db, write>> in order
  \* the replication identity (struct redisServer)
  replid, replid2,   \* server.replid, server.replid2 (None: cleared)
  secondoff,         \* server.second_replid_offset
  offset,            \* server.master_repl_offset
  backlog,           \* server.repl_backlog: None or [off, buf]
  seldb,             \* server.slaveseldb
  \* the replica side
  host,     \* server.masterhost
  state,    \* server.repl_state
  master,   \* server.master: None or [replid, reploff, db]
  cached,   \* server.cached_master, same shape
  initial,  \* server.master_replid, master_initial_offset: None or [replid, reploff]
  link,     \* link[n]: n's connection to its master, None or [peer, open, req, q]
  \* the master side
  slaves,   \* slaves[m][s]: server.slaves, the client of replica s or None
  child,    \* child[m]: the BGSAVE child, None or [type, snap, sent]
  \* freshness and bounds
  ids,      \* ids[n]: replication ids n has drawn
  writes,   \* writes[n]: writes n has executed as a master
  pings, saves, faults, commands, restarts

identity == <<replid, replid2, secondoff, offset, backlog, seldb>>
replica  == <<host, state, master, cached, initial>>
bounds   == <<pings, saves, faults, commands, restarts>>
vars == <<data, identity, replica, link, slaves, child, ids, writes, bounds>>

-----------------------------------------------------------------------------
(* Types *)

Id       == Node \X Nat                \* a replication id, named by its author
Write    == Node \X Nat                \* a write, named by its author
Dataset  == Seq(DB \X Write)
SelDB    == DB \cup {-1}
Command  == [t : {"select"}, db : DB] \cup [t : {"write"}, w : Write] \cup [t : {"ping"}]
Snapshot == [data : Dataset, replid : Id, reploff : Int, db : SelDB]
Full     == [t : {"fullresync"}, replid : Id, reploff : Int]
Continue == [t : {"continue"}, replid : Id]
Refusal  == [t : {"nomasterlink"}]
Payload  == [t : {"rdb"}, snap : Snapshot]
Message  == Command \cup Full \cup Continue \cup Refusal \cup Payload
Backlog  == [off : Int, buf : Seq(Command)]
Master   == [replid : Id, reploff : Int, db : DB]
Psync    == [replid : Id \cup {None}, off : Int]
Link     == [peer : Node, open : BOOLEAN, req : Psync \cup {None}, q : Seq(Message)]
Slave    == [st : {"wait_bgsave_start", "wait_bgsave_end", "send_bulk", "online"},
             out : Seq(Command), initoff : Int, onack : BOOLEAN,
             snap : Snapshot \cup {None}, sock : BOOLEAN]
Child    == [type : {"disk", "socket"}, snap : Snapshot, sent : BOOLEAN]
Initial  == [replid : Id, reploff : Int]
ReplState == {"none", "connect", "connecting", "receive_psync", "transfer", "connected"}

\* NULL is no structure.
ASSUME NoneAssumption ==
  None \notin Node \cup Id \cup Snapshot \cup Backlog \cup Master \cup Psync \cup Link \cup Slave
                \cup Child \cup Initial

TypeOK ==
  /\ data \in [Node -> Dataset]
  /\ replid \in [Node -> Id] /\ replid2 \in [Node -> Id \cup {None}]
  /\ secondoff \in [Node -> Int] /\ offset \in [Node -> Int]
  /\ backlog \in [Node -> Backlog \cup {None}]
  /\ seldb \in [Node -> SelDB]
  /\ host \in [Node -> Node \cup {None}] /\ state \in [Node -> ReplState]
  /\ master \in [Node -> Master \cup {None}] /\ cached \in [Node -> Master \cup {None}]
  /\ initial \in [Node -> Initial \cup {None}]
  /\ link \in [Node -> Link \cup {None}]
  /\ slaves \in [Node -> [Node -> Slave \cup {None}]]
  /\ child \in [Node -> Child \cup {None}]
  /\ ids \in [Node -> Nat] /\ writes \in [Node -> Nat]
  /\ pings \in Nat /\ saves \in Nat /\ faults \in Nat
  /\ commands \in Nat /\ restarts \in Nat
-----------------------------------------------------------------------------
(* Helpers *)

NoSlaves == [s \in Node |-> None]

\* The replicas whose connection is still the socket of their client in row.
Sockets(row) == {s \in Node : row[s] # None /\ row[s].sock}

\* The replicas of row in a given SLAVE_STATE.
InState(row, st) == {s \in Node : row[s] # None /\ row[s].st = st}

\* The write handler of the client is installed: what is added to its output
\* buffer goes to the socket.
Streaming(c) == c # None /\ c.st = "online" /\ ~c.onack

Sent(lk, S, msgs) == [s \in Node |-> IF s \in S THEN [lk[s] EXCEPT !.q = @ \o msgs] ELSE lk[s]]

\* close() by the master's end of the connections of S.
HungUp(lk, S) == [s \in Node |-> IF s \in S THEN [lk[s] EXCEPT !.open = FALSE] ELSE lk[s]]

\* close() by n of its connection to its master, seen in the table of clients.
Unlinked(sl, n) ==
  IF link[n] # None /\ sl[link[n].peer][n] # None
  THEN [sl EXCEPT ![link[n].peer][n].sock = FALSE]
  ELSE sl

\* changeReplicationId: a random id, one nobody has drawn before.
\* Mistake: the id is kept when the history forks.
SameId(n) == replid[n]
FreshId(n) == <<n, ids[n]>>

-----------------------------------------------------------------------------
(* The replication stream *)

\* feedReplicationBacklog: append to the circular buffer, keep the last BacklogSize.
FeedReplicationBacklog(n, cmds) ==
  IF backlog[n] = None THEN UNCHANGED <<backlog, offset>>
  ELSE LET buf  == backlog[n].buf \o cmds
           kept == IF Len(buf) > BacklogSize
                   THEN SubSeq(buf, Len(buf) - BacklogSize + 1, Len(buf)) ELSE buf
           off  == offset[n] + Len(cmds)
       IN /\ offset' = [offset EXCEPT ![n] = off]
          /\ backlog' = [backlog EXCEPT ![n] = [off |-> off - Len(kept) + 1, buf |-> kept]]

\* The replicas that accumulate the stream in their output buffer.
\* Mistake: nothing is kept for a replica whose BGSAVE is running.
SendBulkOnly(c) == c # None /\ c.st = "send_bulk"
Accumulates(c) == c # None /\ c.st # "wait_bgsave_start" /\ ~Streaming(c)

Accumulated(row, cmds) ==
  [s \in Node |-> IF Accumulates(row[s]) THEN [row[s] EXCEPT !.out = @ \o cmds] ELSE row[s]]

\* addReply to every replica that is not waiting for a BGSAVE to start: straight to
\* the socket for the ones that stream, accumulated in the output buffer otherwise.
FeedClients(m, cmds, lk) ==
  /\ slaves' = [slaves EXCEPT ![m] = Accumulated(slaves[m], cmds)]
  /\ link' = Sent(lk, {s \in Sockets(slaves[m]) : Streaming(slaves[m][s])}, cmds)

\* replicationFeedSlaves, called by a master for a command executed in database d.
ReplicationFeedSlaves(m, d, cmd) ==
  IF slaves[m] = NoSlaves /\ backlog[m] = None
  THEN UNCHANGED <<offset, backlog, seldb, slaves, link>>
  ELSE LET cmds == IF seldb[m] # d THEN <<[t |-> "select", db |-> d], cmd>> ELSE <<cmd>>
       IN /\ FeedReplicationBacklog(m, cmds)
          /\ FeedClients(m, cmds, link)
          /\ seldb' = [seldb EXCEPT ![m] = d]

\* A client of a master executes a write in database d (call, propagate).
ClientWrite(m, d) ==
  /\ host[m] = None
  /\ SumFunction(writes) + pings < MaxStream
  /\ LET w == <<m, writes[m]>> IN
       /\ data' = [data EXCEPT ![m] = Append(@, <<d, w>>)]
       /\ writes' = [writes EXCEPT ![m] = @ + 1]
       /\ ReplicationFeedSlaves(m, d, [t |-> "write", w |-> w])
  /\ UNCHANGED <<replid, replid2, secondoff, replica, child, ids, bounds>>

\* replicationCron: PING the replicas in the stream.
CronPing(m) ==
  /\ host[m] = None
  /\ slaves[m] # NoSlaves
  /\ SumFunction(writes) + pings < MaxStream /\ pings' = pings + 1
  /\ ReplicationFeedSlaves(m, seldb[m], [t |-> "ping"])
  /\ UNCHANGED <<data, replid, replid2, secondoff, replica, child, ids, writes,
                 saves, faults, commands, restarts>>

-----------------------------------------------------------------------------
(* The master side of a synchronization *)

\* masterTryPartialResynchronization: the conditions to accept.
\* Mistake: second_replid_offset is not compared.
AnyOffset(m, r) ==
  /\ r.replid \in {replid[m], replid2[m]} /\ r.replid # None
  /\ backlog[m] # None
  /\ r.off >= backlog[m].off
  /\ r.off <= backlog[m].off + Len(backlog[m].buf)
PsyncAccepted(m, r) ==
  /\ \/ r.replid = replid[m]
     \/ r.replid = replid2[m] /\ r.replid # None /\ r.off <= secondoff[m]
  /\ backlog[m] # None
  /\ r.off >= backlog[m].off
  /\ r.off <= backlog[m].off + Len(backlog[m].buf)

\* addReplyReplicationBacklog: the stream from offset off on.
BacklogFrom(b, off) == SubSeq(b.buf, off - b.off + 1, Len(b.buf))

SlaveClient(st) ==
  [st |-> st, out |-> <<>>, initoff |-> 0, onack |-> FALSE, snap |-> None, sock |-> TRUE]

\* The dataset as fork() freezes it, with the replication info of the RDB file.
ForkSnapshot(m, id) ==
  [data |-> data[m], replid |-> id, reploff |-> offset[m],
   db |-> IF master[m] # None THEN master[m].db ELSE -1]

\* replicationSetupSlaveForFullResync for the replicas W of row.
SetupForFullResync(row, W, off) ==
  [s \in Node |-> IF s \in W THEN [row[s] EXCEPT !.st = "wait_bgsave_end", !.initoff = off]
                  ELSE row[s]]

\* The replicas W are removed from row.
Without(row, W) == [s \in Node |-> IF s \in W THEN None ELSE row[s]]

\* startBgsaveForReplication (with rdbSaveBackground or rdbSaveToSlavesSockets), called
\* when the clients of m are row, the connections lk and the replication id of m is id;
\* f faults have been counted in this step.  When fork() fails the waiting replicas leave
\* server.slaves and nothing more is written to their connections, which stay open:
\* prepareClientToWrite schedules no write for a client in SLAVE_STATE_WAIT_BGSAVE_START, so
\* the error is never sent and CLIENT_CLOSE_AFTER_REPLY never takes effect.
StartBgsaveForReplication(m, row, lk, id, f) ==
  LET waiting == InState(row, "wait_bgsave_start")
      socket  == m \in Diskless
      full    == [t |-> "fullresync", replid |-> id, reploff |-> offset[m]]
      reached == waiting \cap Sockets(row)
  IN \/ /\ slaves' = [slaves EXCEPT ![m] = SetupForFullResync(row, waiting, offset[m])]
        /\ link' = Sent(lk, reached, <<full>>)
        /\ child' = [child EXCEPT ![m] =
              [type |-> IF socket THEN "socket" ELSE "disk", snap |-> ForkSnapshot(m, id),
               sent |-> FALSE]]
        /\ seldb' = [seldb EXCEPT ![m] = -1]
        /\ faults' = faults + f
     \/ /\ faults + f < MaxFaults /\ faults' = faults + f + 1
        /\ slaves' = [slaves EXCEPT ![m] = Without(row, waiting)]
        /\ link' = Sent(lk, reached, IF socket THEN <<full>> ELSE <<>>)
        /\ child' = [child EXCEPT ![m] = None]
        /\ seldb' = IF socket THEN [seldb EXCEPT ![m] = -1] ELSE seldb

\* copyClientOutputBuffer: a replica that joins a BGSAVE in progress gets the differences
\* accumulated since its fork for a replica c that waits for it already.
\* Mistake: the joining replica starts with an empty buffer.
EmptyBuffer(c) == <<>>
CopyClientOutputBuffer(c) == c.out

JoinBgsave(c) ==
  [SlaveClient("wait_bgsave_end") EXCEPT !.out = CopyClientOutputBuffer(c), !.initoff = c.initoff]

\* syncCommand: the part that follows a refused partial resynchronization.
FullResync(m, s, lk) ==
  LET fresh == slaves[m] = NoSlaves /\ backlog[m] = None
      id    == IF fresh THEN FreshId(m) ELSE replid[m]
      row   == [slaves[m] EXCEPT ![s] = SlaveClient("wait_bgsave_start")]
      Wait  == /\ slaves' = [slaves EXCEPT ![m] = row] /\ link' = lk
               /\ UNCHANGED <<child, seldb, faults>>
  IN /\ IF fresh
        THEN /\ replid' = [replid EXCEPT ![m] = id]
             /\ ids' = [ids EXCEPT ![m] = @ + 1]
             /\ replid2' = [replid2 EXCEPT ![m] = None]
             /\ secondoff' = [secondoff EXCEPT ![m] = -1]
             /\ backlog' = [backlog EXCEPT ![m] = [off |-> offset[m] + 1, buf |-> <<>>]]
        ELSE UNCHANGED <<replid, ids, replid2, secondoff, backlog>>
     /\ \/ \* CASE 1: a BGSAVE with disk target that another replica is waiting for.
           /\ child[m] # None /\ child[m].type = "disk"
           /\ \E x \in InState(slaves[m], "wait_bgsave_end") :
                /\ slaves' = [slaves EXCEPT ![m][s] = JoinBgsave(slaves[m][x])]
                /\ link' = Sent(lk, {s}, <<[t |-> "fullresync", replid |-> id,
                                            reploff |-> slaves[m][x].initoff]>>)
           /\ seldb' = [seldb EXCEPT ![m] = -1]
           /\ UNCHANGED <<child, faults>>
        \/ \* CASE 1 without such a replica, CASE 2: wait for the next BGSAVE.
           /\ child[m] # None
           /\ child[m].type = "disk" => InState(slaves[m], "wait_bgsave_end") = {}
           /\ Wait
        \/ \* CASE 3, diskless: replicationCron starts the child.
           /\ child[m] = None /\ m \in Diskless
           /\ Wait
        \/ \* CASE 3, an AOF rewrite is active: the BGSAVE is delayed.
           /\ child[m] = None /\ m \notin Diskless
           /\ Wait
        \/ \* CASE 3: start a BGSAVE now.
           /\ child[m] = None /\ m \notin Diskless
           /\ StartBgsaveForReplication(m, row, lk, id, 0)

\* syncCommand on m for the PSYNC request of s.  A client m still has of a former
\* connection of s has been freed before (see FreeSlave).
SyncCommand(m, s) ==
  /\ link[s] # None /\ link[s].peer = m /\ link[s].open /\ link[s].req # None
  /\ slaves[m][s] = None
  /\ LET r  == link[s].req
         lk == [link EXCEPT ![s].req = None]
     IN \/ /\ host[m] # None /\ state[m] # "connected"
           /\ link' = Sent(lk, {s}, <<[t |-> "nomasterlink"]>>)
           /\ UNCHANGED <<identity, slaves, child, ids, faults>>
        \/ /\ host[m] = None \/ state[m] = "connected"
           /\ PsyncAccepted(m, r)
           /\ slaves' = [slaves EXCEPT ![m][s] = SlaveClient("online")]
           /\ link' = Sent(lk, {s}, <<[t |-> "continue", replid |-> replid[m]]>>
                                       \o BacklogFrom(backlog[m], r.off))
           /\ UNCHANGED <<identity, child, ids, faults>>
        \/ /\ host[m] = None \/ state[m] = "connected"
           /\ ~PsyncAccepted(m, r)
           /\ FullResync(m, s, lk)
           /\ UNCHANGED offset
  /\ UNCHANGED <<data, replica, writes, pings, saves, commands, restarts>>

\* rdbSaveBackground on a save point or BGSAVE: no replica is registered for it.
SavePoint(m) ==
  /\ child[m] = None
  /\ saves < MaxSaves /\ saves' = saves + 1
  /\ child' = [child EXCEPT ![m] =
        [type |-> "disk", snap |-> [ForkSnapshot(m, replid[m]) EXCEPT !.db = -1], sent |-> FALSE]]
  /\ UNCHANGED <<data, identity, replica, link, slaves, ids, writes, pings, faults,
                 commands, restarts>>

\* replicationCron: replicas wait for a BGSAVE and none is running.
\* Mistake: the replicas of a diskless master are forgotten.
OnDiskOnly(m) == /\ child[m] = None /\ m \notin Diskless
                 /\ InState(slaves[m], "wait_bgsave_start") # {}
BgsaveDue(m) == child[m] = None /\ InState(slaves[m], "wait_bgsave_start") # {}

CronStartBgsave(m) ==
  /\ BgsaveDue(m)
  /\ StartBgsaveForReplication(m, slaves[m], link, replid[m], 0)
  /\ UNCHANGED <<data, replid, replid2, secondoff, offset, backlog, replica, ids, writes,
                 pings, saves, commands, restarts>>

\* The child of rdbSaveToSlavesSockets has written the payload to the replicas' sockets.
RdbChildSend(m) ==
  /\ child[m] # None /\ child[m].type = "socket" /\ ~child[m].sent
  /\ child' = [child EXCEPT ![m].sent = TRUE]
  /\ link' = Sent(link, InState(slaves[m], "wait_bgsave_end") \cap Sockets(slaves[m]),
                  <<[t |-> "rdb", snap |-> child[m].snap]>>)
  /\ UNCHANGED <<data, identity, replica, slaves, ids, writes, bounds>>

\* updateSlavesWaitingBgsave: a client that waited for the child of m, once it has ended.
\* Mistake: after a failed BGSAVE the client is not freed and goes on waiting.
StillWaiting(m, c, ok) ==
  IF ~ok THEN c
  ELSE IF child[m].type = "socket" THEN [c EXCEPT !.st = "online", !.onack = TRUE]
  ELSE [c EXCEPT !.st = "send_bulk", !.snap = child[m].snap]
AfterBgsave(m, c, ok) ==
  IF ~ok THEN None
  ELSE IF child[m].type = "socket" THEN [c EXCEPT !.st = "online", !.onack = TRUE]
  ELSE [c EXCEPT !.st = "send_bulk", !.snap = child[m].snap]

\* backgroundSaveDoneHandler and updateSlavesWaitingBgsave.
BackgroundSaveDone(m) ==
  /\ child[m] # None
  /\ \E ok \in BOOLEAN :
       LET ended == InState(slaves[m], "wait_bgsave_end")
           f     == IF ok THEN 0 ELSE 1
           row   == [s \in Node |-> IF s \in ended THEN AfterBgsave(m, slaves[m][s], ok)
                                   ELSE slaves[m][s]]
           lk    == IF ok THEN link ELSE HungUp(link, ended \cap Sockets(slaves[m]))
       IN /\ ok /\ child[m].type = "socket" => child[m].sent
          /\ faults + f <= MaxFaults
          /\ IF InState(row, "wait_bgsave_start") # {}
             THEN StartBgsaveForReplication(m, row, lk, replid[m], f)
             ELSE /\ slaves' = [slaves EXCEPT ![m] = row] /\ link' = lk
                  /\ child' = [child EXCEPT ![m] = None]
                  /\ faults' = faults + f /\ UNCHANGED seldb
  /\ UNCHANGED <<data, replid, replid2, secondoff, offset, backlog, replica, ids, writes,
                 pings, saves, commands, restarts>>

\* putSlaveOnline: the write handler is installed and what was accumulated leaves.
PutSlaveOnline(c) == [c EXCEPT !.st = "online", !.onack = FALSE, !.snap = None, !.out = <<>>]

\* sendBulkToSlave up to the end of the file, then putSlaveOnline.
SendBulkToSlave(m, s) ==
  /\ slaves[m][s] # None /\ slaves[m][s].st = "send_bulk"
  /\ slaves' = [slaves EXCEPT ![m][s] = PutSlaveOnline(@)]
  /\ link' = IF slaves[m][s].sock
             THEN Sent(link, {s}, <<[t |-> "rdb", snap |-> slaves[m][s].snap]>>
                                     \o slaves[m][s].out)
             ELSE link
  /\ UNCHANGED <<data, identity, replica, child, ids, writes, bounds>>

\* replconfCommand, ACK from a replica to put online: putSlaveOnline.
ReplconfAck(m, s) ==
  /\ slaves[m][s] # None /\ slaves[m][s].st = "online" /\ slaves[m][s].onack
  /\ slaves[m][s].sock /\ state[s] = "connected"
  /\ slaves' = [slaves EXCEPT ![m][s] = PutSlaveOnline(@)]
  /\ link' = Sent(link, {s}, slaves[m][s].out)
  /\ UNCHANGED <<data, identity, replica, child, ids, writes, bounds>>

\* freeClient of a replica: m reads the end of the connection s has closed, or m drops
\* the client (timeout, write error, output buffer limit).
FreeSlave(m, s) ==
  /\ slaves[m][s] # None
  /\ IF slaves[m][s].sock THEN faults < MaxFaults /\ faults' = faults + 1 ELSE UNCHANGED faults
  /\ slaves' = [slaves EXCEPT ![m][s] = None]
  /\ link' = HungUp(link, {s} \cap Sockets(slaves[m]))
  /\ UNCHANGED <<data, identity, replica, child, ids, writes, pings, saves, commands, restarts>>

-----------------------------------------------------------------------------
(* The replica side *)

\* server.slaves is emptied, n closes the connections of the servers S to it and its own to
\* its master (disconnectSlaves, freeClient of the master, cancelReplicationHandshake).
DropConnections(n, S) ==
  /\ slaves' = [Unlinked(slaves, n) EXCEPT ![n] = NoSlaves]
  /\ link' = [HungUp(link, S) EXCEPT ![n] = None]

\* The servers connected to n as their master, in server.slaves or not.
Connected(n) == {s \in Node : link[s] # None /\ link[s].peer = n}

\* replicationSetMaster, by SLAVEOF or by a failover.
ReplicationSetMaster(n, h) ==
  /\ host[n] # h
  /\ commands < MaxCommands /\ commands' = commands + 1
  /\ host' = [host EXCEPT ![n] = h]
  /\ cached' = [cached EXCEPT ![n] =
        IF host[n] = None THEN [replid |-> replid[n], reploff |-> offset[n], db |-> 0]
        ELSE IF master[n] # None THEN master[n] ELSE @]
  /\ master' = [master EXCEPT ![n] = None]
  /\ state' = [state EXCEPT ![n] = "connect"]
  /\ initial' = [initial EXCEPT ![n] = None]
  /\ DropConnections(n, Sockets(slaves[n]))
  /\ UNCHANGED <<data, identity, child, ids, writes, pings, saves, faults, restarts>>

\* replicationUnsetMaster, by SLAVEOF NO ONE or by a failover.
ReplicationUnsetMaster(n) ==
  /\ host[n] # None
  /\ commands < MaxCommands /\ commands' = commands + 1
  /\ host' = [host EXCEPT ![n] = None]
  /\ replid2' = [replid2 EXCEPT ![n] = replid[n]]
  /\ secondoff' = [secondoff EXCEPT ![n] = offset[n] + 1]
  /\ replid' = [replid EXCEPT ![n] = FreshId(n)]
  /\ ids' = [ids EXCEPT ![n] = @ + 1]
  /\ master' = [master EXCEPT ![n] = None]
  /\ cached' = [cached EXCEPT ![n] = None]
  /\ initial' = [initial EXCEPT ![n] = None]
  /\ state' = [state EXCEPT ![n] = "none"]
  /\ seldb' = [seldb EXCEPT ![n] = -1]
  /\ DropConnections(n, Sockets(slaves[n]))
  /\ UNCHANGED <<data, offset, backlog, child, writes, pings, saves, faults, restarts>>

\* connectWithMaster, from replicationCron.
ConnectWithMaster(n) ==
  /\ state[n] = "connect"
  /\ state' = [state EXCEPT ![n] = "connecting"]
  /\ link' = [link EXCEPT ![n] = [peer |-> host[n], open |-> TRUE, req |-> None, q |-> <<>>]]
  /\ UNCHANGED <<data, identity, host, master, cached, initial, slaves, child, ids, writes, bounds>>

\* syncWithMaster once the handshake is over: the writing half of
\* slaveTryPartialResynchronization.
SendPsync(n) ==
  /\ state[n] = "connecting" /\ link[n].open
  /\ state' = [state EXCEPT ![n] = "receive_psync"]
  /\ link' = [link EXCEPT ![n].req =
        IF cached[n] # None THEN [replid |-> cached[n].replid, off |-> cached[n].reploff + 1]
        ELSE [replid |-> None, off |-> -1]]
  /\ UNCHANGED <<data, identity, host, master, cached, initial, slaves, child, ids, writes, bounds>>

\* The first message n has not read yet, and the connections once it is read.
Head1(n) == Head(link[n].q)
Popped(lk, n) == [lk EXCEPT ![n].q = Tail(@)]
Readable(n) == link[n] # None /\ link[n].q # <<>>

\* replicationAbortSyncTransfer, undoConnectWithMaster, unlinkClient: n closes its end.
\* Mistake: the descriptor is not closed.
KeepLink(n) == UNCHANGED <<slaves, link>>
CloseLink(n) ==
  /\ slaves' = Unlinked(slaves, n)
  /\ link' = [link EXCEPT ![n] = None]

\* Mistake: the sub-replicas stay.
NoDisconnect(n) == link' = Popped(link, n) /\ UNCHANGED slaves

\* disconnectSlaves while n goes on reading from its master.
DisconnectSlaves(n) ==
  /\ slaves' = [slaves EXCEPT ![n] = NoSlaves]
  /\ link' = Popped(HungUp(link, Sockets(slaves[n])), n)

\* slaveTryPartialResynchronization, reading half, +FULLRESYNC; then syncWithMaster
\* disconnects the sub-replicas, frees the backlog and prepares the transfer.
ReceiveFullResync(n) ==
  /\ state[n] = "receive_psync" /\ Readable(n) /\ Head1(n).t = "fullresync"
  /\ cached' = [cached EXCEPT ![n] = None]
  /\ initial' = [initial EXCEPT ![n] = [replid |-> Head1(n).replid, reploff |-> Head1(n).reploff]]
  /\ DisconnectSlaves(n)
  /\ backlog' = [backlog EXCEPT ![n] = None]
  /\ state' = [state EXCEPT ![n] = "transfer"]
  /\ UNCHANGED <<data, replid, replid2, secondoff, offset, seldb, host, master, child, ids,
                 writes, bounds>>

\* slaveTryPartialResynchronization, +CONTINUE; replicationResurrectCachedMaster.
ReceiveContinue(n) ==
  /\ state[n] = "receive_psync" /\ Readable(n) /\ Head1(n).t = "continue"
  /\ LET new == Head1(n).replid IN
       /\ IF new # cached[n].replid
          THEN /\ replid2' = [replid2 EXCEPT ![n] = cached[n].replid]
               /\ secondoff' = [secondoff EXCEPT ![n] = offset[n] + 1]
               /\ replid' = [replid EXCEPT ![n] = new]
               /\ DisconnectSlaves(n)
          ELSE /\ link' = Popped(link, n)
               /\ UNCHANGED <<replid, replid2, secondoff, slaves>>
       /\ master' = [master EXCEPT ![n] = [cached[n] EXCEPT !.replid = new]]
  /\ cached' = [cached EXCEPT ![n] = None]
  /\ state' = [state EXCEPT ![n] = "connected"]
  /\ UNCHANGED <<data, offset, backlog, seldb, host, initial, child, ids, writes, bounds>>

\* slaveTryPartialResynchronization, -NOMASTERLINK: PSYNC_TRY_LATER.
ReceiveTryLater(n) ==
  /\ state[n] = "receive_psync" /\ Readable(n) /\ Head1(n).t = "nomasterlink"
  /\ state' = [state EXCEPT ![n] = "connect"]
  /\ CloseLink(n)
  /\ UNCHANGED <<data, identity, host, master, cached, initial, child, ids, writes, bounds>>

\* replicationCreateMasterClient: the database the stream continues in.
\* Mistake: the value -1, no database, is not told apart.
RawDb(snap) == snap.db
StreamDb(snap) == IF snap.db = -1 THEN 0 ELSE snap.db

\* readSyncBulkPayload at the end of the payload: load it, take the identity of the master.
ReadSyncBulkPayload(n) ==
  /\ state[n] = "transfer" /\ Readable(n) /\ Head1(n).t = "rdb"
  /\ LET snap == Head1(n).snap IN
       /\ data' = [data EXCEPT ![n] = snap.data]
       /\ master' = [master EXCEPT ![n] =
             [replid |-> initial[n].replid, reploff |-> initial[n].reploff,
              db |-> StreamDb(snap)]]
  /\ replid' = [replid EXCEPT ![n] = initial[n].replid]
  /\ offset' = [offset EXCEPT ![n] = initial[n].reploff]
  /\ replid2' = [replid2 EXCEPT ![n] = None]
  /\ secondoff' = [secondoff EXCEPT ![n] = -1]
  /\ backlog' = [backlog EXCEPT ![n] =
        IF @ = None THEN [off |-> initial[n].reploff + 1, buf |-> <<>>] ELSE @]
  /\ initial' = [initial EXCEPT ![n] = None]
  /\ state' = [state EXCEPT ![n] = "connected"]
  /\ link' = Popped(link, n)
  /\ UNCHANGED <<seldb, host, cached, slaves, child, ids, writes, bounds>>

\* readSyncBulkPayload when rdbLoad refuses the file: the dataset was already flushed.
LoadFailed(n) ==
  /\ state[n] = "transfer" /\ Readable(n) /\ Head1(n).t = "rdb"
  /\ faults < MaxFaults /\ faults' = faults + 1
  /\ data' = [data EXCEPT ![n] = <<>>]
  /\ state' = [state EXCEPT ![n] = "connect"]
  /\ initial' = [initial EXCEPT ![n] = None]
  /\ CloseLink(n)
  /\ UNCHANGED <<identity, host, master, cached, child, ids, writes, pings, saves, commands,
                 restarts>>

\* The states a handshake is cancelled in (slaveIsInHandshakeState and the two around it).
HandshakeStates == {"connecting", "receive_psync", "transfer"}

\* n has asked and read everything, and the master has no client structure for its
\* connection: nothing arrives on it any more, not even the newlines replicationCron writes to
\* the replicas that wait for an RDB file, and repl-timeout expires.
\* Mistake: the replica has no timeout of its own.
NoTimeout(n) == FALSE
Abandoned(n) ==
  /\ state[n] # "connecting" /\ link[n].open /\ link[n].req = None /\ link[n].q = <<>>
  /\ slaves[link[n].peer][n] = None

\* cancelReplicationHandshake: a timeout or an I/O error before the link is up.  It is a fault
\* unless the master has closed the connection, which is read to its end, or abandoned it.
CancelHandshake(n) ==
  /\ state[n] \in HandshakeStates
  /\ IF (~link[n].open /\ link[n].q = <<>>) \/ Abandoned(n)
     THEN UNCHANGED faults
     ELSE faults < MaxFaults /\ faults' = faults + 1
  /\ state' = [state EXCEPT ![n] = "connect"]
  /\ initial' = [initial EXCEPT ![n] = None]
  /\ CloseLink(n)
  /\ UNCHANGED <<data, identity, host, master, cached, child, ids, writes, pings, saves,
                 commands, restarts>>

\* A dataset, with the database selected by the stream, after one more command.
Apply(st, cmd) ==
  CASE cmd.t = "select" -> [st EXCEPT !.db = cmd.db]
    [] cmd.t = "write"  -> [st EXCEPT !.data = Append(@, <<st.db, cmd.w>>)]
    [] cmd.t = "ping"   -> st

\* readQueryFromClient, processInputBuffer on the master client: apply one command, then
\* replicationFeedSlavesFromMasterStream proxies it to the sub-replicas.
ReadQueryFromMaster(n) ==
  /\ state[n] = "connected" /\ Readable(n)
  /\ LET cmd == Head1(n)
         st  == Apply([data |-> data[n], db |-> master[n].db], cmd)
     IN /\ data' = [data EXCEPT ![n] = st.data]
        /\ master' = [master EXCEPT ![n].db = st.db, ![n].reploff = @ + 1]
        /\ FeedReplicationBacklog(n, <<cmd>>)
        /\ FeedClients(n, <<cmd>>, Popped(link, n))
  /\ UNCHANGED <<replid, replid2, secondoff, seldb, host, state, cached, initial, child, ids,
                 writes, bounds>>

\* freeClient of the master: replicationCacheMaster unless the client was being closed for
\* another reason, then replicationHandleMasterDisconnection.
MasterLinkLost(n) ==
  /\ state[n] = "connected"
  /\ \E cacheable \in BOOLEAN :
       /\ IF cacheable /\ ~link[n].open /\ link[n].q = <<>> THEN UNCHANGED faults
          ELSE faults < MaxFaults /\ faults' = faults + 1
       /\ cached' = [cached EXCEPT ![n] = IF cacheable THEN master[n] ELSE @]
  /\ master' = [master EXCEPT ![n] = None]
  /\ state' = [state EXCEPT ![n] = "connect"]
  /\ CloseLink(n)
  /\ UNCHANGED <<data, identity, host, initial, child, ids, writes, pings, saves, commands,
                 restarts>>

-----------------------------------------------------------------------------
(* Restart of a server *)

\* The state of a server at startup, before its dataset is loaded, with host h: every
\* connection of the process that ended is closed.
Startup(n, h) ==
  /\ restarts < MaxRestarts /\ restarts' = restarts + 1
  /\ host' = [host EXCEPT ![n] = h]
  /\ state' = [state EXCEPT ![n] = IF h = None THEN "none" ELSE "connect"]
  /\ replid2' = [replid2 EXCEPT ![n] = None]
  /\ secondoff' = [secondoff EXCEPT ![n] = -1]
  /\ backlog' = [backlog EXCEPT ![n] = None]
  /\ seldb' = [seldb EXCEPT ![n] = -1]
  /\ master' = [master EXCEPT ![n] = None]
  /\ initial' = [initial EXCEPT ![n] = None]
  /\ child' = [child EXCEPT ![n] = None]
  /\ DropConnections(n, Connected(n))
  /\ UNCHANGED <<writes, pings, saves, faults, commands>>

\* loadDataFromDisk with AOF on (appendfsync always): the dataset survives, the
\* replication id is new and no cached master is made.
RestartFromAof(n) ==
  /\ \E h \in {None, host[n]} : Startup(n, h)
  /\ replid' = [replid EXCEPT ![n] = FreshId(n)]
  /\ ids' = [ids EXCEPT ![n] = @ + 1]
  /\ offset' = [offset EXCEPT ![n] = 0]
  /\ cached' = [cached EXCEPT ![n] = None]
  /\ UNCHANGED data

-----------------------------------------------------------------------------

Init ==
  /\ data = [n \in Node |-> <<>>]
  /\ ids = [n \in Node |-> 1] /\ replid = [n \in Node |-> <<n, 0>>]
  /\ replid2 = [n \in Node |-> None] /\ secondoff = [n \in Node |-> -1]
  /\ offset = [n \in Node |-> 0] /\ backlog = [n \in Node |-> None]
  /\ seldb = [n \in Node |-> -1]
  /\ host \in Topologies
  /\ state = [n \in Node |-> IF host[n] = None THEN "none" ELSE "connect"]
  /\ master = [n \in Node |-> None] /\ cached = [n \in Node |-> None]
  /\ initial = [n \in Node |-> None] /\ link = [n \in Node |-> None]
  /\ slaves = [m \in Node |-> NoSlaves] /\ child = [m \in Node |-> None]
  /\ writes = [n \in Node |-> 0]
  /\ pings = 0 /\ saves = 0 /\ faults = 0 /\ commands = 0 /\ restarts = 0

\* The handlers of a server as a replica.
ReplicaStep(n) ==
  \/ ConnectWithMaster(n) \/ SendPsync(n)
  \/ ReceiveFullResync(n) \/ ReceiveContinue(n) \/ ReceiveTryLater(n)
  \/ ReadSyncBulkPayload(n) \/ ReadQueryFromMaster(n)
  \/ CancelHandshake(n) \/ MasterLinkLost(n)

\* The handlers of a server as a master.
MasterStep(m) ==
  \/ CronStartBgsave(m) \/ RdbChildSend(m) \/ BackgroundSaveDone(m)
  \/ \E s \in Node : SyncCommand(m, s) \/ SendBulkToSlave(m, s) \/ ReplconfAck(m, s)
                     \/ FreeSlave(m, s)

Next ==
  \E n \in Node :
    \/ ReplicaStep(n) \/ MasterStep(n)
    \/ \E d \in DB : ClientWrite(n, d)
    \/ CronPing(n) \/ SavePoint(n) \/ LoadFailed(n)
    \/ \E h \in Node \ {n} : ReplicationSetMaster(n, h)
    \/ ReplicationUnsetMaster(n)
    \/ RestartFromAof(n)

Spec == Init /\ [][Next]_vars

\* The event loop of every server goes on serving its descriptors and its cron.
FairSpec ==
  /\ Spec
  /\ \A n \in Node : WF_vars(ReplicaStep(n) /\ faults' = faults)
                     /\ WF_vars(MasterStep(n) /\ faults' = faults)
-----------------------------------------------------------------------------
(* Properties *)

\* What m has sent to s, or has still to send it: the unread messages, the payload of the
\* full resynchronization when it has not left yet, and the accumulated differences.
Pending(m, s) ==
  LET c == slaves[m][s]
      payload == CASE c.st = "send_bulk" -> <<[t |-> "rdb", snap |-> c.snap]>>
                   [] c.st = "wait_bgsave_end" /\ ~child[m].sent ->
                        <<[t |-> "rdb", snap |-> child[m].snap]>>
                   [] OTHER -> <<>>
  IN link[s].q \o payload \o c.out

\* The effect of one message on the replica's dataset, selected database and offset.
Receive(st, msg) ==
  CASE msg.t = "fullresync" -> [st EXCEPT !.off = msg.reploff]
    [] msg.t = "rdb" -> [st EXCEPT !.data = msg.snap.data,
                                   !.db = StreamDb(msg.snap)]
    [] msg.t \in {"select", "write", "ping"} -> [Apply(st, msg) EXCEPT !.off = @ + 1]
    [] OTHER -> st

\* The replica's own position: the one of its master client, connected or cached, or the
\* one announced by +FULLRESYNC.
Position(s) ==
  LET c == IF master[s] # None THEN master[s] ELSE cached[s]
  IN [data |-> data[s],
      db   |-> IF c # None THEN c.db ELSE 0,
      off  |-> IF c # None THEN c.reploff ELSE IF initial[s] # None THEN initial[s].reploff ELSE -1]

\* The position a replica reaches once it has read msgs, one after the other.
ReceiveAll(st, msgs) ==
  LET pos[i \in 0..Len(msgs)] == IF i = 0 THEN st ELSE Receive(pos[i - 1], msgs[i])
  IN pos[Len(msgs)]

\* StreamConverges: for every replica that its master is feeding, whatever mix of partial and
\* full resynchronizations, promotions and chained links brought it there, the replica ends
\* with exactly the master's dataset and offset once it has read what the master has sent or
\* accumulated for it (masterTryPartialResynchronization, startBgsaveForReplication,
\* copyClientOutputBuffer, replicationFeedSlaves and its proxy together lose and repeat nothing).
StreamConverges ==
  \A m, s \in Node :
    slaves[m][s] # None /\ slaves[m][s].sock /\ slaves[m][s].st # "wait_bgsave_start" =>
      LET end == ReceiveAll(Position(s), Pending(m, s))
      IN end.data = data[m] /\ end.off = offset[m]

\* ChainedSelect: a replica that a server itself replicating proxies its stream to ends in the
\* database that stream is in ("make sure after loadig the RDB, our slaves select the right DB:
\* we'll just send the replication stream we receive from our master, so no way to send SELECT
\* commands", startBgsaveForReplication).
ChainedSelect ==
  \A m, s \in Node :
    /\ slaves[m][s] # None /\ slaves[m][s].sock /\ slaves[m][s].st # "wait_bgsave_start"
    /\ master[m] # None
    => ReceiveAll(Position(s), Pending(m, s)).db = master[m].db

\* The positions a server may present or accept in a PSYNC, as <<replication id, offset>>.
Claims(n) ==
  {<<c.replid, c.reploff>> : c \in {master[n], cached[n]} \ {None}}
    \cup IF backlog[n] # None THEN {<<replid[n], offset[n]>>} ELSE {}

\* OneHistory: two servers that hold the same replication id at the same offset hold the same
\* dataset.  masterTryPartialResynchronization compares nothing else, so changeReplicationId
\* must be called everywhere a history can fork ("the command should be called when something
\* happens that alters the current story of the dataset").
OneHistory ==
  \A a, b \in Node : Claims(a) \cap Claims(b) # {} => data[a] = data[b]

\* AssertionsHold: the serverAssert()s of the replication code never fail - there are no
\* replicas without a backlog (replicationFeedSlaves), a master client is cached only over an
\* empty cached_master (replicationCacheMaster), and a transfer is aborted only in the state
\* it belongs to - together with the facts on server.repl_state they rest on.
AssertionsHold ==
  \A n \in Node :
    /\ slaves[n] # NoSlaves => backlog[n] # None
    /\ host[n] = None <=> state[n] = "none"
    /\ master[n] # None <=> state[n] = "connected"
    /\ state[n] \in {"connected", "transfer", "none"} => cached[n] = None
    /\ link[n] # None <=> state[n] \in {"connecting", "receive_psync", "transfer", "connected"}

\* The commands of the stream, from position k of the queue on.
StreamFrom(q, k) == \A i \in k..Len(q) : q[i] \in Command

\* Where s stands once it has read all that is in its connection: it has no reply to its
\* PSYNC, or it waits for the payload, or it follows the stream, or it has been refused.
AwaitsReply(s) == state[s] = "receive_psync" /\ link[s].q = <<>>

AwaitsPayload(s) ==
  LET q == link[s].q IN
  \/ state[s] = "receive_psync" /\ Len(q) = 1 /\ q[1] \in Full
  \/ state[s] = "transfer" /\ initial[s] # None /\ q = <<>>

FollowsStream(s) ==
  LET q == link[s].q IN
  \/ /\ state[s] = "receive_psync" /\ cached[s] # None
     /\ Len(q) >= 1 /\ q[1] \in Continue /\ StreamFrom(q, 2)
  \/ /\ state[s] = "receive_psync"
     /\ Len(q) >= 2 /\ q[1] \in Full /\ q[2] \in Payload /\ StreamFrom(q, 3)
  \/ /\ state[s] = "transfer" /\ initial[s] # None
     /\ Len(q) >= 1 /\ q[1] \in Payload /\ StreamFrom(q, 2)
  \/ state[s] = "connected" /\ StreamFrom(q, 1)

Refused(s) ==
  LET q == link[s].q IN state[s] = "receive_psync" /\ Len(q) = 1 /\ q[1] \in Refusal

\* The states of a connection, seen from the replica.
LinkOrder(s) ==
  \/ state[s] = "connecting" /\ link[s].req = None /\ link[s].q = <<>>
  \/ AwaitsReply(s) /\ (link[s].req # None /\ link[s].req.replid # None => cached[s] # None)
  \/ link[s].req = None /\ (AwaitsPayload(s) \/ FollowsStream(s))
  \/ link[s].req = None /\ Refused(s)

\* The client structure m has of s agrees with where s will stand.
ClientOrder(m, s) ==
  LET c == slaves[m][s] IN
  /\ link[s] # None /\ link[s].peer = m /\ link[s].open /\ link[s].req = None
  /\ c.st = "wait_bgsave_start" => AwaitsReply(s)
  /\ c.st = "wait_bgsave_end" => IF child[m].sent THEN FollowsStream(s) ELSE AwaitsPayload(s)
  /\ c.st = "send_bulk" => AwaitsPayload(s) /\ c.snap # None
  /\ c.st = "online" => FollowsStream(s)

\* RepliesInOrder: a replica never reads a message its state has no handler for, so that
\* +CONTINUE finds a cached master to resurrect, a payload arrives only after +FULLRESYNC said
\* for which id and offset, and the master client parses commands only - and the SLAVE_STATE
\* of every client of a master agrees with it, across concurrent BGSAVEs, failed children,
\* broken links and reconfigurations.
RepliesInOrder ==
  /\ \A s \in Node : link[s] # None => LinkOrder(s)
  /\ \A m, s \in Node : slaves[m][s] # None /\ slaves[m][s].sock => ClientOrder(m, s)
  /\ \A m, s \in Node : slaves[m][s] # None /\ slaves[m][s].st = "wait_bgsave_end" => child[m] # None
  /\ \A m \in Node : child[m] # None /\ child[m].type = "disk" => ~child[m].sent

\* The hosts are not arranged in a cycle: every set of servers has one outside whose stream
\* it could be waiting for, or a master.
Rooted == \A S \in SUBSET Node \ {{}} : \E n \in S : host[n] \notin S

Converged ==
  \A n \in Node : host[n] # None => state[n] = "connected" /\ data[n] = data[host[n]]

\* EventuallySynced: once faults and SLAVEOF commands cease with the servers arranged in a
\* tree, every replica connects and reaches its master's dataset, whatever refused or broken
\* handshakes, waits for another BGSAVE or failed children came before (replicationCron,
\* updateSlavesWaitingBgsave and cancelReplicationHandshake leave nobody behind).
EventuallySynced == <>[]Rooted => <>[]Converged
=============================================================================
