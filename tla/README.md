# A TLA+ verification project for Redis

The repository holds three versions of Redis (1.3.6, 2.8.0, 4.0.0). The models
follow `redis-4.0.0`, the most recent one; paths below are relative to
`src/redis-4.0.0/src/`. Modelled are the parts of a single-threaded server where
several processes, connections and child processes interleave: asynchronous
replication with PSYNC version 2, the failover of Redis Cluster, the failover by
Redis Sentinel, and the append only file with its rewrite.

## 1. Inventory

| Part | State | Operations | Talks to |
|---|---|---|---|
| Replication stream, backlog (`replication.c`) | replid, replid2, offsets, backlog, slaveseldb | feed, proxy, PING, free the backlog | every write (`call`, `propagate`), replicas |
| PSYNC, master side (`replication.c`, `rdb.c`) | `server.slaves`, SLAVE_STATE, output buffers, RDB child | SYNC/PSYNC, start/finish BGSAVE, bulk transfer, ACK, free | BGSAVE child, replicas |
| PSYNC, replica side (`replication.c`) | repl_state, master, cached_master, transfer | connect, PSYNC and its answers, load, disconnect, timeouts | master, its own sub-replicas |
| Role changes | masterhost, ids | SLAVEOF host, SLAVEOF NO ONE | both sides above |
| Restart (`server.c`, `rdb.c`, `aof.c`) | what the files record | load, restore id and offset | replica side |
| WAIT (`replication.c`) | acknowledged offsets, blocked clients | WAIT, ACK, timeout | stream |
| Cluster (`cluster.c`) | epochs, votes, slots, node table | election, vote, takeover, heartbeat, UPDATE, gossip, migration | bus messages, `nodes.conf`, role changes |
| Sentinel (`sentinel.c`) | epochs, leaders, failover state | vote, state machine, TILT | monitored servers, other Sentinels |
| AOF (`aof.c`, `bio.c`) | buffer, rewrite diffs, files | append, fsync, rewrite, rename | rewrite child, fsync thread |
| Dictionary (`dict.c`) | two tables, rehash index, iterators | add, delete, rehash, scan | all of the above |
| Transactions, blocking lists, expiry | watched, blocked and ready keys, TTLs | WATCH/EXEC, BLPOP, expire | clients, stream |
| Background threads (`bio.c`, `lazyfree.c`) | job queues, counters | submit, process, wait | AOF, lazy free |
| 1.3.6 virtual memory (`redis.c`) | I/O job queues, object states | queue, cancel, complete | I/O threads |

Sections 2 and 3 take the modelled parts in the order replication, cluster,
sentinel, append only file. Each is a model of its own: a failover of the
cluster or of a sentinel ends in the SLAVEOF of the replication model, whose
`ReplicationSetMaster` may happen at any time; a restart of the replication model
(`RestartFromAof`) loads what the model of the append only file guarantees.

What is hard in replication: a replica may arrive while a child saves for
somebody else; children and forks fail half way; connections break and time out
at every step with messages in flight; roles change while a partial
resynchronization with the old identity is still possible; a server restarts
with an identity read from a file. What has to hold: a replica that is being fed
ends with its master's dataset; a replication id and an offset identify one
dataset; no assertion of the code fails; no message arrives in a state without
a handler; everybody is synchronized once faults cease. `PROJECT.json` lists
every part, modelled or not, and every hazard at its source line.

What is hard in a failover: several nodes start one at once; votes and
announcements are lost, late or overtaken; every node acts on its own table; a
node restarts with what its file records. What has to hold: one winner per
epoch; a vote or a claim that was given survives a restart; in the end everybody
agrees on the owner, and every attempt ends. What is hard in the append only
file: two buffers, a pipe, a child, a background fsync and two files carry the
same writes, and each can fail half way. What has to hold: the file rebuilds
the dataset at every moment, and an acknowledged write is on disk when the
policy promises it.

## 2. Modules

| Module | Content |
|---|---|
| `Replication` | the servers, the BGSAVE children and the connections; the properties |
| `ReplicationLifecycle` | the release of an idle backlog and the restart from an RDB file |
| `MCReplication` | small instances for TLC |
| `ClusterElection` | the vote alone: an abstract specification of the election, and its safety |
| `ClusterFailover` | the cluster bus: tables, heartbeats, UPDATE, election, takeover, `nodes.conf` |
| `ClusterBusElection` | the mapping of the cluster bus to `ClusterElection`: its epochs, its requests and its votes |
| `Sentinel` | the sentinels, the instances they monitor and the requests between them |
| `AppendOnlyFile` | the server's buffers, the rewrite child with its pipe, the file |
| `MCClusterFailover`, `MCSentinel`, `MCAppendOnlyFile` | small instances for TLC |
| `ClusterElectionProofs` | proofs: one winner per epoch, in the abstract election |
| `ClusterFailoverProofs` | proofs: types, slots bound to masters, durable claims |
| `ClusterRefinementProofs` | proofs: the cluster bus implements `ClusterElection`, one winner per epoch on the bus |
| `SentinelProofs` | proofs: types, one vote per epoch, elections by majority, one leader per epoch, the promoted slave is set |
| `AppendOnlyFileProofs` | proofs: types, the file rebuilds the dataset, acknowledged writes are on disk |
| `ReplicationOrder` | proofs: types and order of the messages on a connection, the inductive invariant, the handlers that start a BGSAVE |
| `ReplicationServing` | proofs: the other handlers of a master (end of a child, replica I/O, PSYNC, the stream) |
| `ReplicationProofs` | proofs: the handlers of a replica, initial states, the theorems |

### State and actions of `Replication`

`data[n]` is the sequence of writes server `n` applied, each tagged with its
database. `replid, replid2, secondoff, offset, backlog, seldb` are the fields of
`struct redisServer`; `host, state, master, cached, initial` the replica's side;
`slaves[m][s]` the client structure `m` has of replica `s` (SLAVE_STATE, output
buffer, initial offset, put-online-on-ack, the RDB file being sent, and whether
its socket is still the replica's connection); `child[m]` the RDB child with the
snapshot `fork()` froze; `link[n]` the connection of `n` to its master: the
request not yet processed and the messages not yet read, in order.

| Action | Code |
|---|---|
| ClientWrite, CronPing | `call`, `propagate`, `replicationFeedSlaves`, `replicationCron` |
| SyncCommand | `syncCommand`, `masterTryPartialResynchronization`, CASE 1-3 |
| CronStartBgsave, SavePoint | `replicationCron`, `serverCron`, `startBgsaveForReplication` |
| RdbChildSend, BackgroundSaveDone | `rdbSaveToSlavesSockets`, `backgroundSaveDoneHandler`, `updateSlavesWaitingBgsave` |
| SendBulkToSlave, ReplconfAck | `sendBulkToSlave`, `replconfCommand`, `putSlaveOnline` |
| FreeSlave | `freeClient` of a replica |
| ConnectWithMaster, SendPsync | `connectWithMaster`, `syncWithMaster` |
| ReceiveFullResync, -Continue, -TryLater | `slaveTryPartialResynchronization` with the rest of `syncWithMaster` |
| ReadSyncBulkPayload, LoadFailed | `readSyncBulkPayload` |
| ReadQueryFromMaster | `readQueryFromClient`, `processInputBuffer`, `replicationFeedSlavesFromMasterStream` |
| MasterLinkLost, CancelHandshake | `freeClient` of the master, `replicationCacheMaster`, `cancelReplicationHandshake` |
| ReplicationSetMaster, ReplicationUnsetMaster | the functions of that name, `slaveofCommand` |
| RestartFromAof, RestartFromRdb | `initServer`, `loadDataFromDisk` |
| CronFreeBacklog | `replicationCron`, `freeReplicationBacklog` |

### Abstractions of `Replication`

- Offsets count commands, not bytes: a command is read and applied as a whole,
  and the backlog keeps the last `BacklogSize` commands. `backlog.off` is
  `repl_backlog_off`; the ring of bytes and the index into it are left out.
- The states from CONNECTING to SEND_PSYNC (PING, AUTH, REPLCONF) are one state:
  they change nothing but `repl_state`, and fail in the same way.
- The output buffer of an online replica and the TCP connection are one FIFO.
  A broken connection loses what was not read.
- A master has one client structure per replica. When a replica reconnects
  before its old client is freed, its PSYNC is served after the old client is
  gone; the real server may hold both for a while, and the old one then only
  writes to a closed socket.
- All replicas announce the same capabilities (EOF, PSYNC2). A running AOF
  rewrite is a choice of `syncCommand` to delay the BGSAVE.
- The sockets written by a diskless child fail together; one failing alone is
  a FreeSlave.
- `initial` (master_replid, master_initial_offset) is None once it is dead.
- A failed `fork()` leaves the replica without an answer. The comment at
  replication.c:585 says that the waiting replicas are informed with an error and
  their connections closed. But the code clears CLIENT_SLAVE and leaves `replstate` at
  WAIT_BGSAVE_START, and for a client in that state `prepareClientToWrite`
  (networking.c:184) installs no write handler: the error stays in the buffer, and
  the flag that closes the connection after the reply is never looked at. The model does
  what the code does: the replica is gone from `slaves`, nothing is sent, and the
  connection stays open. What gets the replica out is its own timeout
  (`Abandoned`, with `CancelHandshake`). An answer of an unknown kind, after which a
  replica falls back to SYNC, is therefore never sent between these servers, and
  PSYNC has three answers.
- Replicas are read-only (`slave-read-only yes`).
- Replication ids are random in the code; a fresh id is one nobody has drawn.

### State and actions of `ClusterElection` and `ClusterFailover`

`st[n]` is node `n`'s `clusterState`: its current epoch, last vote epoch, and for
each of the contenders (the failing master and its slaves) the config epoch and
the master it has in `n`'s table; `owner` is the node the slots are bound to
there. `phase, authSent, authCount, authEpoch` are the `failover_auth_*` fields,
the time since `failover_auth_time` reduced to the four cases the code tells
apart. `disk[n]` is `nodes.conf`, `todo` the `CLUSTER_TODO_SAVE_CONFIG` flag: every
handler ends with `clusterBeforeSleep`, and its packets leave after that, because
`clusterSendMessage` only fills the output buffer of the link. `net` holds the
packets under way; a packet is lost when it is not put there.

| Action | Code |
|---|---|
| Heartbeat, ReceiveHeartbeat | `clusterSendPing`, `clusterProcessPacket` (PING, PONG): `SeeHeader`, `ClearNodeFailure`, `UpdateRole`, `BindSlots`, `Correction`, `HandleConfigEpochCollision` in the code's order |
| ReceiveUpdate | `clusterProcessPacket` (UPDATE), `clusterUpdateSlotsConfigWith` |
| ReceiveAuthRequest | `clusterSendFailoverAuthIfNeeded` |
| ReceiveAuthAck, Cron | the vote counted, `clusterHandleSlaveFailover` from `clusterBeforeSleep` or `clusterCron` |
| AuthTimePasses, VoteTimePasses | delay, timeout and retry time of an election; `voted_time` |
| MarkNodeAsFailing | `markNodeAsFailingIfNeeded`, FAIL packet |
| Takeover | `CLUSTER FAILOVER TAKEOVER`, `clusterBumpConfigEpochWithoutConsensus` |
| Restart | `clusterLoadConfig` |

- The slots of the failing master move together; the other masters keep theirs and
  serve as voters. `clusterFailoverReplaceYourMaster` takes the slots that its table
  still binds to the old master, none if they are bound to another node by then.
- The failure detector is what it may conclude: any node may flag the failing
  master at any time.
- Data age and slave rank only delay an election and are left to the time that
  may or may not pass.
- A regular heartbeat is processed as it is sent (a late one is overtaken by the
  next); the PINGs a promotion broadcasts and all other packets may be late,
  overtaken or lost.
- Timely delivery: a request and its vote travel for less than the retry time
  of the election, at least 4 seconds (`AuthUnderWay(n) = {}` before a retry and
  a restart). A vote names the voter's epoch and not the election's, so without
  this a late vote is counted in the next election; the hazard at cluster.c:2003
  records it.
- `clusterSendFailoverAuthIfNeeded` records a vote in memory only. A master that
  restarts before something else saves `nodes.conf` may vote twice in an epoch
  (hazard at cluster.c:2690); voters do not restart in `cluster_election`.

`ClusterElection` keeps the epochs, the votes and their counting. Everything
else may happen at any time in it: an epoch is raised, a vote is refused, lost,
or late. `ElectionSpec` is the refinement: `ClusterFailover` under the mapping of
`ClusterBusElection` (the fields of `st`, and the requests and votes among the packets)
implements `ClusterElection!Spec`; section 4 says for which constants it is proved.

### State and actions of `Sentinel`

`st[n]` holds sentinel `n`'s epochs, its view of the monitored master (address,
config epoch, leader it voted for, failover state, promoted slave, the
SRI_RECONF flags of the slaves), the votes it heard from the others, and in
`saved` its configuration file. `slaveof[i]` is the role of instance `i`; `net` has
the `is-master-down-by-addr` requests and replies.

| Action | Code |
|---|---|
| Timer | `sentinelHandleRedisInstance`: `sentinelStartFailoverIfNeeded`, the failover state machine, the requests to the other sentinels |
| OtherFailover | `sentinelStartFailover` for another master (all share `current_epoch`) |
| ReceiveAsk, ReceiveReply | `sentinelCommand` (is-master-down-by-addr), `sentinelVoteLeader`, `sentinelReceiveIsMasterDownReply` |
| Info | `sentinelRefreshInstanceInfo`, the acting half, for a slave |
| Hello | `sentinelProcessHelloMessage` |
| Restart | `sentinelHandleConfiguration` |

- SDOWN and ODOWN are what they may conclude: a sentinel in `MayFail` may hold
  the master for down at any time. Timeouts elapse and links are up or down as
  they please; `held` is a recent `failover_start_time`.
- A SLAVEOF is executed at once or lost. `parallel_syncs` is 1, the default.
- The slave selected is any slave; priorities and offsets only choose among them.
- All sentinels know each other and the instances (discovery is done).
- `sentinelMasterLooksSane` compares the role the master last reported, which is
  "master" after a reset and may be stale later, so `Info` lets it hold whatever the
  role is by now. Where it does not hold no SLAVEOF is sent, as when one is lost.
- No failover is forced. SENTINEL FAILOVER sets SRI_FORCE_FAILOVER, with which
  `sentinelFailoverWaitStart` goes on without a leader (sentinel.c:3966); what is said
  of elections does not extend to such failovers.

What the model shows of the code, without a property of its own: after the
timeout the last SLAVEOF of `sentinelFailoverDetectEnd` also goes to the promoted
slave; an INFO reply sets the config epoch to the failover epoch even if a hello
message brought a newer one; with one reconfiguration at a time, the timeout of
SRI_RECONF_SENT is not looked at while that slave is the only one.

### State and actions of `AppendOnlyFile`

`s` is the server with its child and file: `buf` is `aof_buf`, `rewriteBuf` the
`aof_rewrite_buf_blocks`, `pipe` and `childDiff` the diff on its way, `base` and
`tail` the file (a rewritten dataset and the units appended to it), `synced` how
many units an fsync covered, `bio` the fsync jobs of the background thread (for
the file in use, or for a closed one). The dataset is the sequence of writes. The
settings `policy` and `skip` are `appendfsync` and `no-appendfsync-on-rewrite`. `late`
tells what the next fsync has to make up for under `always`: nothing, the units
written since the last one, or the whole of a rewritten file; `acked` and `risk` record
the writes whose reply was sent, and those of them that an fsync left out or failed
puts at risk.

| Action | Code |
|---|---|
| Write | `processCommand` (refusal after an error), `propagate`, `feedAppendOnlyFile`, `aofRewriteBufferAppend` |
| BeforeSleep | `beforeSleep`: `flushAppendOnlyFile`, then the replies |
| ServerCron | `serverCron`: scheduled and automatic rewrite, `backgroundRewriteDoneHandler`, postponed flush, retry after an error |
| BgRewriteAof, BgSave, BgSaveExit | `bgrewriteaofCommand`, `rewriteAppendOnlyFileBackground`, an RDB child |
| StopAppendOnly, StartAppendOnly | `stopAppendOnly`, `startAppendOnly` |
| SendDiff, ChildReads, ChildAsks, ChildPipeReadable, ChildFinishes, ChildFails | `aofChildWriteDiffData`, `aofReadDiffFromParent`, `rewriteAppendOnlyFile`, `aofChildPipeReadable` |
| BioFsync | `bioProcessBackgroundJobs` |
| Kill, PowerLoss, Shutdown | a restart with what was written, with any part of what was not fsynced lost, or after `prepareForShutdown`; `loadAppendOnlyFile` with `aof-load-truncated` |

- A write is two units and a SELECT one, so that a write can be cut in half
  anywhere: in the file, in the pipe, in the buffer.
- Times (a second since the last fsync, two seconds of postponement) elapse or
  not at will. Fsync jobs of one kind are counted as one: fsyncing a file twice
  is fsyncing it once.
- The done handler is one step: a crash between its rename and its fsync, a
  MULTI cut in half and a failed open of the file are left out.
- Any `aof_fsync` may fail (a fault); its result is ignored, as in the code
  (aof.c:439, 1536). A failed fsync leaves the data to the next one that succeeds:
  an operating system that drops the pages it could not write is not modelled.
- A server that refuses its file stays down (the last disjunct of `Next`).

## 3. Properties and runs

- `StreamConverges`: fold what a master has sent or accumulated for a replica
  over the replica's own position; the result is the master's dataset and offset.
- `OneHistory`: equal (id, offset) at two servers implies equal datasets.
- `AssertionsHold`: the `serverAssert`s, and `repl_state` agrees with master,
  cached master and socket.
- `RepliesInOrder`: every message is read in a state that has a handler for it,
  and each SLAVE_STATE agrees with where the replica stands.
- `ChainedSelect`: a sub-replica ends in the database the proxied stream is in.
- `EventuallySynced`: with the servers arranged in a tree from some point on,
  every replica is eventually connected for good, with its master's dataset.
- `OneWinnerPerEpoch`: two slaves never win the election of one epoch.
- `ElectionSpec`: the cluster bus implements the abstract election.
- `DurableClaim`: what a promoted slave announces, it has saved.
- `SlotsOwnedByMasters`: no table binds slots to a node it holds for a slave.
- `SlotsConverge`: everybody comes to agree on one owner that holds itself for a
  master.
- `SlavesFollowSlots`: every slave comes to replicate from the owner of the slots.
- `OneVotePerEpoch`: a sentinel votes once in an epoch, restarts included.
- `ElectedByMajorityOfItsEpoch`: a leader has a majority of the votes of its epoch.
- `PromotedIsSet`: `promoted_slave` is set wherever the code dereferences it.
- `FailoverEnds`: every failover of a sentinel ends.
- `FileRebuildsDataset`: file and buffer rebuild the dataset, every write once, in
  order, in its database.
- `AckedIsSynced`: under `appendfsync always`, an acknowledged write was fsynced. The
  code does not keep this unconditionally: with `no-appendfsync-on-rewrite` no fsync
  is done while a child works (`redis.conf` says that durability is then the one of
  "appendfsync none"), and an fsync that fails is ignored. The property excepts the
  writes acknowledged after such an fsync until one succeeds, and all of a rewritten
  file whose fsync has failed. A write excepted because of a child stays so after
  the child has ended, until the next write: nothing else fsyncs the file.
- `WaitEnds`: a file being switched on gets switched on, or off again.
- `ErrorHasBuffer`: while writes are refused there is something to flush.

| Run | Instance | States | Shows |
|---|---|---|---|
| `repl_sync` | 3 servers, two replicas of a disk or a diskless master, or a chain, 1 write or PING, 1 save point, 1 fault | 243 000 | all but OneHistory and ChainedSelect hold, liveness included |
| `repl_failover` | 3 synchronized servers, 3 SLAVEOF commands, 2 writes | 603 000 | StreamConverges, OneHistory, AssertionsHold |
| `repl_pair` | 2 servers, 2 databases, 2 faults, 1 restart from AOF, 2 writes | 267 000 | the same with SELECT, the cached master and a backlog of 2, liveness included |
| `repl_backlog_ttl` | 2 servers, backlog released | - | OneHistory fails (finding 1) |
| `repl_rdb_restart` | 2 servers, 2 restarts from RDB | - | StreamConverges fails (finding 2) |
| `repl_chain_db` | 3 servers, 2 databases, 2 faults | - | ChainedSelect fails (finding 3) |
| `cluster_election` | 3 masters, 2 slaves, epochs up to 3, 2 packets under way, one slave restarts | 613 000 | OneWinnerPerEpoch, DurableClaim, ElectionSpec |
| `cluster_config` | 1 master, 2 slaves that take over and restart, takeovers up to epoch 2 | 14 000 | SlotsOwnedByMasters, SlotsConverge |
| `cluster_sub_replica` | the same with one takeover | - | SlavesFollowSlots fails (finding 4) |
| `sentinel_failover` | 2 sentinels, 3 instances, epochs up to 2, one sentinel restarts | 283 000 | OneVotePerEpoch, ElectedByMajorityOfItsEpoch, PromotedIsSet, FailoverEnds |
| `aof_persist` | 2 databases, 3 policies, `always` also with `no-appendfsync-on-rewrite`, 2 writes, 2 faults, a pipe of 2 units | 760 000 | FileRebuildsDataset, AckedIsSynced, WaitEnds |
| `aof_error` | the same, 1 fault | - | ErrorHasBuffer fails (finding 5) |

`TypeOK` of each module is an invariant of one of its runs.

Bounds. One write is enough to tell datasets apart; the second makes the backlog
of two commands (a SELECT and a write) overflow. Three SLAVEOF commands promote a
replica, demote the old master and move the third server, in every order. One
fault in `repl_sync` is a broken link, a failed fork or a failed save at any
moment; two in `repl_pair` let a retry fail. The chain in `repl_sync` is what makes
-NOMASTERLINK happen: the last server asks one that is not synchronized yet. The 3-server passing runs use one
database because `ChainedSelect`, and with it convergence of a chain, fails with
two. `repl_failover` starts from the synchronized state, which `Init` reaches, and
identifies servers under permutation; it checks safety only, so symmetry is
sound. Its constraint `Rooted` leaves out cycles of SLAVEOF, which no
administrator wants and where nobody can be connected. Deadlock is not checked: when the
bounds are used up and everybody is synchronized, nothing is left to do.

In `cluster_election` three masters are the smallest electorate where one vote may
be missing, two slaves compete, and epoch 3 leaves two elections after the first
epoch, in which a slave may lose, expire and try again. Only packets of the
election are under way there, two at a time; heartbeats are the business of
`cluster_config`, where the failing master, its slaves and equal config epochs
(two takeovers from the same epoch) are enough for every role switch, UPDATE and
collision. The masters that only vote are interchangeable and the run checks
safety, so the symmetry is sound. Elections stop at `MaxEpoch`, so the run does
not check deadlock. In `sentinel_failover` two sentinels can vote for themselves
or for each other, epoch 2 lets a second election follow the first, and a third
instance is the slave that has to be reconfigured; `MayRetry = FALSE` leaves the
second attempt to the other sentinel, or to one that restarted. In `aof_persist`
the second write makes the databases differ, a pipe of two units is filled by
one write and splits it from its SELECT, and two faults let a restart follow a
failed write or a failed retry follow a failed rewrite. `no-appendfsync-on-rewrite`
is looked at under `always` only: under the other policies an fsync need not be due
after a write anyway. BGSAVEs count among the
faults: unbounded, they could keep a scheduled rewrite from ever starting.

Fairness. Each server's event loop goes on: weak fairness for the steps of its
replica side and of its master side that are not faults. The code justifies it:
descriptors are served by `aeProcessEvents` level-triggered, and
`replicationCron` runs every second. The timeout of a handshake is among these steps
only where the connection is abandoned: everything sent was read, and the master
has forgotten the replica. `replicationCron` (2488-2506) then gives up after
`repl-timeout`, for the newlines that keep a waiting replica patient go to the
members of `server.slaves` only. Any other timeout is a fault. No fairness is assumed for clients, SLAVEOF,
save points, restarts or faults.

In `cluster_config` weak fairness is on the heartbeat of every contender to every
node: `clusterCron` pings each node again at least every half node timeout. In
`sentinel_failover` it is on the timer with elapsed timeouts and connected links
(`Overdue`), as long as such a call changes the sentinel's state:
`sentinelTimer` runs ten times a second and every state of a failover that waits
has a timeout; the end needs the link of the promoted slave, and of the slaves it
waits for, to come back. In `aof_persist` it is on `serverCron` and on the exit of
the children; no fairness is assumed for clients, the growth of the file, the
background fsync or faults.

### Findings

1. `replicationCron` (replication.c:2610) frees the backlog of a master without
   replicas but keeps its replication id. Without a backlog the offset no longer
   counts writes. When that server is later made a replica, it presents an
   (id, offset) that a server with another dataset holds, and PSYNC succeeds.
2. After a restart from RDB a replica has no backlog and +CONTINUE does not
   create one (replication.c:1533), so `master_repl_offset` stops counting. A
   second restart resumes from the stale offset and applies commands twice.
3. `startBgsaveForReplication` (replication.c:578) takes the stream's database
   from `server.master` only. If the link to the master is down at that moment,
   the sub-replica applies the stream that follows to database 0.
4. `clusterUpdateSlotsConfigWith` (cluster.c:1557) lets a slave follow the new owner
   of the slots only if they are still bound to its master. If the slave first
   hears from the old master that it is a slave now, the slots are unbound, the
   new owner's claim binds them without a new master, and the slave goes on
   replicating from the demoted master.
5. `backgroundRewriteDoneHandler` (aof.c:1546) drops the buffer after a rewrite and
   keeps `aof_last_write_status`. After a write error nothing is left to flush, so
   the retry of `serverCron` clears nothing, and the writes of clients stay refused. Only a
   command the server propagates of its own accord (the DEL of an expired key) can
   fill the buffer again and, once it is flushed, clear the error.

## 4. Proofs

Replication. Proved with TLAPS for every set of servers and databases, every
configuration and every value of the bounds (assumptions: `ConstantsAssumption`, and
`NoneAssumption`, that None is not one of the structures), in `ReplicationProofs`:

- `TypeCorrect`: `Spec => []TypeOK`;
- `AssertionsCorrect`: `Spec => []AssertionsHold`;
- `OrderCorrect`: `Spec => []RepliesInOrder`.

`Inv`, the conjunction of the three, is inductive, and none is so alone. Types
need the order: `ReceiveContinue` builds the master client from the cached one,
so the type of `master` rests on +CONTINUE finding a cached master, and
`ReadSyncBulkPayload` uses what +FULLRESYNC announced. The assertions need the order
for the same reason: a connected replica has a master client because +CONTINUE
found one to resurrect. The order needs the assertions: a link exists exactly in
the states that read from it. The argument: `ReplicationOrder` states what a step
must leave alone for the order to be kept (`Keeps`, `KeepOrder`); each action's lemma
shows that it keeps it everywhere except at the one link it serves, and there
walks through the disjuncts of `LinkOrder` and `ClientOrder`. `NextInv` joins the
lemmas, one per action.

Cluster, the vote alone. `ElectionSafety` (`ClusterElectionProofs`): for every finite
set of masters and every set of slaves, `Spec => []OneWinnerPerEpoch` of
`ClusterElection`. A winner must have counted a quorum; the invariant says that what
it counted, with the votes still under way, are distinct masters that voted for it
in the epoch of its election, and that a master's votes have different epochs,
none above its `lastVoteEpoch`. Two quorums share a master. The timely delivery
above is a guard of `Schedule`, `RequestAuth` and `Restart`, and the proof uses it
there.

Cluster, the tables (`ClusterFailoverProofs`, from `FailoverAssumption`: finitely many
nodes, masters and slaves disjoint, distinct node ids, no link to oneself), for every cluster, every pattern
of links, every set of nodes that take over or restart and all bounds:

- `TypeCorrect`: `Spec => []TypeOK`;
- `SlotsBoundToMasters`: `Spec => []SlotsOwnedByMasters`;
- `ClaimsDurable`: `Spec => []DurableClaim`.

The inductive invariant `TableInv` says more than each of them: a table binds the
slots to nobody or to a master (`Bound`), between handlers nothing is left to save
(`todo`), and the owner, the roles and the config epochs of every table are those
in its config file, for a node that may restart (`Saved`). `DurableClaim` alone is not inductive: a restart
returns to what the file says, so the whole of the file has to agree, not only the
claim. The argument follows a handler through the functions it calls: `Moves(x, y)`
says that from table `x` to table `y` every change of what the file records has set
the flag, that epochs only grow and that the state of an election is as it was; it
is transitive, each function of `clusterProcessPacket` moves, and
`BeforeSleepTables` turns the flag into the saved file.

Cluster, the refinement (`ClusterRefinementProofs`, for the constants in `CutOff`):

- `Implements`: `Spec => ElectionSpec`, the abstract election as a property;
- `OneWinner`: `Spec => []OneWinnerPerEpoch` of the bus, from `Implements` and
  `ElectionSafety` (the proof module of the abstract election is instantiated under
  the same mapping).

`CutOff` says that the failing master is cut off (no link from or to it, it is
not in `Reach`, it does not take over) and that no master restarts. The
constants of `cluster_election` satisfy it; links among the others, takeovers of
slaves and restarts of slaves are all allowed. Both parts are needed. A vote is not
saved when it is cast, so a voter that restarts may vote twice. And with links to the
failing master TLC finds a run that `ClusterElection` does not allow: a slave takes
over and demotes the failing master, which corrects the other slave with an UPDATE.
The header of that UPDATE carries the epoch of the sender's new master, and the
other slave records it for the sender, its own master. It then asks with this
epoch, and the promoted slave grants a vote, a voter `ClusterElection` does not
know. The inductive invariant `ElectionInv` adds to `TableInv` what excludes this: in every table and every config file the failing master keeps the
epoch it had and a promoted slave has a greater one (`Outdone`), the packets under
way repeat no other epochs (`OutdonePacket`), so that no promoted slave ever grants a
vote (`SlaveVotesNot`); and nothing of an earlier attempt is under way when a slave
asks (`OneAttempt`). `ElectionInv` was checked with TLC on the constants of
`cluster_election` before it was proved. Each of the eleven actions has a lemma that
it preserves `ElectionInv` and is a step of `ClusterElection`: packets that hold no
election raise an epoch, the clocks change nothing, a request is `Consider`, a vote
is `CountVote` with the promotion it may complete, the cron of a slave is `Schedule`,
`RequestAuth`, `Win` or nothing.

Sentinel (`SentinelProofs`, from `SentinelAssumption`: finite sets, bounds in Nat),
for every number of sentinels and instances, every quorum and all bounds:

- `TypeCorrect`: `Spec => []TypeOK`;
- `VotesOnce`: `Spec => []OneVotePerEpoch`;
- `ElectedFairly`: `Spec => []ElectedByMajorityOfItsEpoch`;
- `LeadersAgree`: two sentinels elected in the same epoch, neither election
  overtaken by a newer epoch, are the same one;
- `PromotedSet`: `Spec => []PromotedIsSet`.

The inductive invariant adds to these that every sentinel is `Backed`: its vote and
every vote it heard were really cast, its votes have epochs up to its
`leaderEpoch`, and its file has that epoch. The file is what makes a restart
harmless, and `RepliesBacked` says the same of the replies under way. Each handler either
casts no vote or casts the vote of `VoteLeader` in a new epoch; `LeaderHasMajority`
shows that the sentinels `GetLeader` counts, with its own vote, are different
voters of that epoch. `LeadersAgree` is the intersection of two majorities.
`PromotedSet` has an invariant of its own (`Flagged`): INFO replies dereference the
promoted slave wherever a slave is being reconfigured, so it also says that no slave
is, except in the state "reconf_slaves", which a failover leaves only when the
master is reset.

Append only file (`AppendOnlyFileProofs`, from `AofAssumption`: finitely many
databases, a pipe of at least one unit), for every set of databases and settings,
every size of the pipe and all bounds:

- `TypeCorrect`: `Spec => []TypeOK`;
- `Rebuilt`: `Spec => []FileRebuildsDataset`;
- `AckedOnDisk`: `Spec => []AckedIsSynced`.

The invariant needs the child's file as much as the server's: `Sound` says that
file and buffer rebuild the dataset and that, while a child works, its snapshot, the
diff it has read, the pipe and the rewrite buffer, in this order, rebuild it too and
leave the same database selected. Only so can the done handler switch files.
`Durable` says where acknowledged writes are under `appendfsync always`: all in the
file; on disk if no fsync is late; still on disk, except those at `risk`, if one is late for
the units written since; and, when the file is off with a child still running, in the
snapshot that child started from too. That they are all in the file is what lets a
later fsync make up for one left out. Loading is a
recursive function over the units of the file. Its lemmas are proved by induction
on the number of units: a file that is loaded and then continued (`LoadAppend`), cut
at `valid_up_to` (`LoadValid`) or made longer (`LoadGrows`). The induction is stated for
sets of numbers (`SetInduction`, from the well-foundedness of < on Nat), because the
provers cannot instantiate the library's theorems that take a predicate.

Only model-checked: `EventuallySynced`, `SlotsConverge`, `FailoverEnds` and `WaitEnds`
(liveness under fairness, and ENABLED, are outside the prover's logic), and
`StreamConverges` and `OneHistory`. These two do not hold for every value of the
constants: findings 1 and 2 are their violations, and under the constants of
`repl_chain_db` TLC finds both violated with two databases and neither with one. A
theorem needs hypotheses that exclude these cases, and an invariant
that relates the position of every replica, every backlog, every snapshot and every
queue to one history per replication id. `ReplicationLifecycle` is outside the
theorems.

## 5. Not modelled

- Of the cluster: gossip, handshakes and the agreement on FAIL (replaced by any
  verdict at any time), manual failover with paused clients, replica migration,
  slots that move one by one with MIGRATE and ASK, restarts of voters.
- Of Sentinel: the detection of SDOWN and ODOWN, discovery, TILT, scripts, and the
  commands that change the configuration (FAILOVER, RESET, MONITOR, REMOVE, SET).
  `sentinelGetLeader` counts the others' votes of `current_epoch` and its own of
  `failover_epoch`; an election that a newer epoch overtakes can be won with votes
  of both, and the properties are stated for those that are not overtaken.
- Of the append only file: the commands each type is written as, expire times, a
  transaction cut in half. Under `everysec` the last write before a pause is not
  fsynced until another write comes, replies are sent while a flush is postponed,
  and `prepareForShutdown` fsyncs but does not flush; no property promises more.
- WAIT, the script cache, transactions, blocking lists, expiry: each is a
  handler that runs to its end within one event loop, and would need keys and
  clients in the models, which carry opaque writes.
- The dictionary and SCAN: bit arithmetic over table masks.
- Lazy freeing and the mutexes of `bio.c`: only the fsync job is modelled.
- Byte encodings (RDB, ziplist, quicklist, HyperLogLog), the data types, the Lua
  interpreter, the modules API, the allocator, the command line tools and the
  bundled libraries: sequential code over data TLC cannot enumerate. They, and the
  two older versions of the same server, are most of the repository's lines, so that
  the models cover a small share of them: 2.8.0 and 1.3.6 hold earlier forms of
  the code modelled here, and the threads of 1.3.6 were removed since.
