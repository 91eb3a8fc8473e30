------------------------ MODULE ReplicationLifecycle ------------------------
(***************************************************************************)
(* Two events in the life of a server that Replication leaves out, because *)
(* the replication identity does not survive them as the code intends: the *)
(* backlog of an idle master is freed (repl-backlog-ttl), and a server is  *)
(* restarted from the RDB file it saved at shutdown.                       *)
(***************************************************************************)
EXTENDS Replication

\* replicationCron: a master without replicas frees its backlog after
\* repl_backlog_time_limit (freeReplicationBacklog).  The replication id is kept.
CronFreeBacklog(m) ==
  /\ host[m] = None
  /\ slaves[m] = NoSlaves
  /\ backlog[m] # None
  /\ backlog' = [backlog EXCEPT ![m] = None]
  /\ UNCHANGED <<data, replid, replid2, secondoff, offset, seldb, replica, link, slaves, child,
                 ids, writes, bounds>>

\* prepareForShutdown saves the dataset with the replication id and offset
\* (rdbSaveInfoAuxFields); loadDataFromDisk reads them back and, on a replica, makes a cached
\* master of them (replicationCacheMasterUsingMyself, database 0).
RestartFromRdb(n) ==
  /\ Startup(n, host[n])
  /\ cached' = [cached EXCEPT ![n] =
        IF host[n] = None THEN None
        ELSE [replid |-> replid[n], reploff |-> offset[n], db |-> 0]]
  /\ UNCHANGED <<data, replid, offset, ids>>

TtlSpec == Init /\ [][Next \/ \E m \in Node : CronFreeBacklog(m)]_vars
RdbSpec == Init /\ [][Next \/ \E n \in Node : RestartFromRdb(n)]_vars
=============================================================================
