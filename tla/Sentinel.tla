------------------------------ MODULE Sentinel ------------------------------
(***************************************************************************)
(* The failover of one monitored master by Redis Sentinel                  *)
(* (src/redis-4.0.0/src/sentinel.c): the election of a leader, the failover *)
(* state machine, the hello messages that spread the new configuration,    *)
(* and the sentinel configuration file.                                    *)
(*                                                                         *)
(* The failure detector (SDOWN, ODOWN) is replaced by what it may conclude: *)
(* any sentinel may hold its master for down at any time.  Conditions on   *)
(* time and on the state of a link hold or not, as they please.            *)
(***************************************************************************)
EXTENDS Integers, FiniteSets

CONSTANTS
  Sentinel,      \* the sentinels, which know each other
  Instance,      \* the Redis instances they monitor
  FirstMaster,   \* the master at the start
  NULL,
  Quorum,        \* the quorum of the master
  MaxEpoch,      \* bound: no failover starts beyond this epoch
  MaxInFlight,   \* bound: requests and replies under way; more are lost
  MayFail,       \* the sentinels that start failovers
  MayFailOther,  \* the sentinels that start the failover of another master they monitor
  MayRetry,      \* does twice the failover timeout pass (so that a sentinel may try again)?
  MayRestart     \* the sentinels that crash and restart

ASSUME SentinelAssumption ==
  /\ IsFiniteSet(Sentinel) /\ IsFiniteSet(Instance) /\ FirstMaster \in Instance
  /\ NULL \notin Sentinel \cup Instance
  /\ Quorum \in Nat /\ MaxEpoch \in Nat /\ MaxInFlight \in Nat
  /\ MayFail \subseteq Sentinel /\ MayFailOther \subseteq Sentinel /\ MayRetry \in BOOLEAN
  /\ MayRestart \subseteq Sentinel

VARIABLES
  st,        \* the state of every sentinel (struct sentinelState and its master), with
             \* its configuration file in `saved`
  slaveof,   \* the master each instance replicates from, or NULL for a master
  net,       \* SENTINEL is-master-down-by-addr requests and replies under way
  votes,     \* history: the votes cast
  elected    \* history: the elections won, with the current epoch they were won in

vars == <<st, slaveof, net, votes, elected>>

\* failover_state; "update_config" is left in the timer call that enters it
State == {"none", "wait_start", "select_slave", "send_slaveof_noone", "wait_promotion",
          "reconf_slaves"}
\* The SRI_RECONF_* flags of a slave
Reconf == {"no", "sent", "inprog", "done"}

NoVotes == [k \in Sentinel |-> [leader |-> NULL, epoch |-> 0]]
NoReconf == [i \in Instance |-> "no"]

-----------------------------------------------------------------------------
(* The state `x` of a sentinel                                             *)

\* sentinelGetCurrentMasterAddress
CurrentMaster(x) ==
  IF x.state = "reconf_slaves" /\ x.promoted # NULL THEN x.promoted ELSE x.addr

\* sentinelFlushConfig: what rewriteConfigSentinelOption writes.
Persistent(x) ==
  [addr |-> CurrentMaster(x), configEpoch |-> x.configEpoch, leaderEpoch |-> x.leaderEpoch,
   currentEpoch |-> x.currentEpoch]
Flush(x) == [x EXCEPT !.saved = Persistent(x)]

\* Mistake: the slaves keep their flags.
ResetMasterAndKeepFlags(x, addr) ==
  Flush([x EXCEPT !.addr = addr, !.leader = NULL, !.state = "none", !.held = FALSE,
                  !.promoted = NULL])

\* sentinelResetMasterAndChangeAddress: every failover in progress is undone.
ResetMasterAndChangeAddress(x, addr) ==
  Flush([x EXCEPT !.addr = addr, !.leader = NULL, !.state = "none",
                  !.held = FALSE, !.promoted = NULL, !.reconf = NoReconf])

\* sentinelAbortFailover
AbortFailover(x) == [x EXCEPT !.state = "none", !.promoted = NULL]

\* sentinelStartFailover; `held` stands for a recent failover_start_time.
StartFailover(x) ==
  [x EXCEPT !.state = "wait_start", !.held = TRUE,
            !.currentEpoch = @ + 1, !.failoverEpoch = x.currentEpoch + 1]

\* The delay before a failover after a vote for another sentinel
Hold(n, y, runid) == [y EXCEPT !.held = @ \/ runid # n]

\* Does sentinelVoteLeader cast a new vote?
Votes(x, epoch) == x.leaderEpoch < epoch /\ x.currentEpoch <= epoch

\* Mistake: the vote is given before it is in the configuration file.
VoteLeaderUnsaved(n, x, epoch, runid) ==
  LET y == IF epoch > x.currentEpoch THEN Flush([x EXCEPT !.currentEpoch = epoch]) ELSE x
  IN IF Votes(y, epoch)
     THEN Hold(n, [y EXCEPT !.leader = runid, !.leaderEpoch = y.currentEpoch], runid)
     ELSE y

\* sentinelVoteLeader
VoteLeader(n, x, epoch, runid) ==
  LET y == IF epoch > x.currentEpoch THEN Flush([x EXCEPT !.currentEpoch = epoch]) ELSE x
  IN IF Votes(y, epoch)
     THEN Hold(n, Flush([y EXCEPT !.leader = runid, !.leaderEpoch = y.currentEpoch]), runid)
     ELSE y

Vote(n, x, y) ==
  IF x.leaderEpoch = y.leaderEpoch THEN {}
  ELSE {[voter |-> n, epoch |-> y.leaderEpoch, for |-> y.leader]}

\* Mistake: the votes of earlier elections count.
CountedOfAnyEpoch(x, c) == Cardinality({k \in Sentinel : x.vote[k].leader = c})

\* sentinelGetLeader: the votes of the other sentinels for c.
Counted(x, c) ==
  Cardinality({k \in Sentinel : x.vote[k].leader = c /\ x.vote[k].epoch = x.currentEpoch})

\* The most voted sentinels so far
Favourites(x) ==
  {c \in Sentinel : Counted(x, c) > 0 /\ \A d \in Sentinel : Counted(x, c) >= Counted(x, d)}

Majority(count) == count >= (Cardinality(Sentinel) \div 2) + 1 /\ count >= Quorum

\* Mistake: without a favourite the sentinel does not vote for itself.
LeaderAmongOthers(n, x, favourite) ==
  LET y == VoteLeader(n, x, x.failoverEpoch, favourite)
  IN [x |-> y, leader |-> IF favourite # NULL /\ Majority(Counted(x, favourite) + 1)
                          THEN favourite ELSE NULL]

\* sentinelGetLeader, given the favourite it meets first: this sentinel votes for it, or for
\* itself, and its vote counts if it is in the epoch of the failover.
LeaderAmong(n, x, favourite) ==
  LET y == VoteLeader(n, x, x.failoverEpoch, IF favourite = NULL THEN n ELSE favourite)
      mine == y.leader # NULL /\ y.leaderEpoch = x.failoverEpoch
      max == IF favourite = NULL THEN 0 ELSE Counted(x, favourite)
      myvotes == IF mine THEN Counted(x, y.leader) + 1 ELSE 0
      winner == IF myvotes > max THEN y.leader ELSE favourite
      count == IF myvotes > max THEN myvotes ELSE max
  IN [x |-> y, leader |-> IF winner # NULL /\ Majority(count) THEN winner ELSE NULL]

GetLeader(n, x) ==
  {LeaderAmong(n, x, c) : c \in IF Favourites(x) = {} THEN {NULL} ELSE Favourites(x)}

-----------------------------------------------------------------------------
(* The failover state machine: the outcomes of a call, each with the       *)
(* SLAVEOF commands it sends.  `late` tells whether the timeout of the     *)
(* state has elapsed, `linked` the instances whose link is connected.      *)

Idle(x) == [x |-> x, cmds |-> {}, wins |-> FALSE]
SlaveOf(i, of) == [to |-> i, of |-> of]
Slaves(x) == Instance \ {x.addr}

\* sentinelFailoverWaitStart, for a failover that no SENTINEL FAILOVER command forces
FailoverWaitStart(n, x, late) ==
  {IF r.leader = n
   THEN [Idle([r.x EXCEPT !.state = "select_slave"]) EXCEPT !.wins = TRUE]
   ELSE IF late THEN Idle(AbortFailover(r.x)) ELSE Idle(r.x) : r \in GetLeader(n, x)}

\* sentinelFailoverSelectSlave: any slave may be the best one, or there is none.
FailoverSelectSlave(x) ==
  {Idle([x EXCEPT !.promoted = i, !.state = "send_slaveof_noone"]) : i \in Slaves(x)}
    \cup {Idle(AbortFailover(x))}

\* sentinelFailoverSendSlaveOfNoOne
FailoverSendSlaveOfNoOne(x, late, linked) ==
  {IF x.promoted \in linked
   THEN [Idle([x EXCEPT !.state = "wait_promotion"]) EXCEPT !.cmds = {SlaveOf(x.promoted, NULL)}]
   ELSE IF late THEN Idle(AbortFailover(x)) ELSE Idle(x)}

\* Mistake: the failover waits for the promotion for ever.
FailoverWaitPromotionForever(x, late) == {Idle(x)}

\* sentinelFailoverWaitPromotion
FailoverWaitPromotion(x, late) == {IF late THEN Idle(AbortFailover(x)) ELSE Idle(x)}

\* sentinelFailoverDetectEnd, after the commands `cmds`, with the switch to the promoted slave
\* that ends the timer call (UPDATE_CONFIG).  A promoted slave that is not linked is held for
\* down.  After the timeout every slave with no SRI_RECONF flag that counts gets a last
\* SLAVEOF, the promoted one included.
FailoverDetectEnd(x, cmds, late, linked) ==
  LET left == {i \in Slaves(x) \ {x.promoted} : x.reconf[i] # "done" /\ i \in linked}
      last == {SlaveOf(i, x.promoted) :
                 i \in {j \in Slaves(x) \cap linked : x.reconf[j] \in {"no", "inprog"}}}
  IN IF x.promoted \in linked /\ (late \/ left = {})
     THEN [Idle(ResetMasterAndChangeAddress(x, x.promoted)) EXCEPT
             !.cmds = IF late THEN cmds \cup last ELSE cmds]
     ELSE [Idle(x) EXCEPT !.cmds = cmds]

\* sentinelFailoverReconfNextSlave (parallel_syncs is 1), then the above.  One slave is
\* reconfigured at a time, so that one whose SLAVEOF got no answer is not looked at again.
FailoverReconfSlaves(x, late, linked) ==
  LET idle == \A i \in Slaves(x) : x.reconf[i] \notin {"sent", "inprog"}
      todo == {i \in (Slaves(x) \ {x.promoted}) \cap linked : idle /\ x.reconf[i] = "no"}
  IN IF todo = {} THEN {FailoverDetectEnd(x, {}, late, linked)}
     ELSE {FailoverDetectEnd([x EXCEPT !.reconf[i] = "sent"], {SlaveOf(i, x.promoted)},
                             late, linked) : i \in todo}

\* sentinelFailoverStateMachine
FailoverStateMachine(n, x, late, linked) ==
  CASE x.state = "none" -> {Idle(x)}
    [] x.state = "wait_start" -> FailoverWaitStart(n, x, late)
    [] x.state = "select_slave" -> FailoverSelectSlave(x)
    [] x.state = "send_slaveof_noone" -> FailoverSendSlaveOfNoOne(x, late, linked)
    [] x.state = "wait_promotion" -> FailoverWaitPromotion(x, late)
    [] x.state = "reconf_slaves" -> FailoverReconfSlaves(x, late, linked)

-----------------------------------------------------------------------------
(* The actions                                                             *)

\* sentinelSendSlaveOf: a command is executed, or it is lost.
Command(cmds) ==
  \E done \in SUBSET cmds :
    slaveof' = [i \in Instance |-> IF \E c \in done : c.to = i
                                   THEN (CHOOSE c \in done : c.to = i).of
                                   ELSE slaveof[i]]

\* sentinelAskMasterStateToOtherSentinels, while a failover is in progress.
Asks(n, x) ==
  IF x.state = "none" THEN {}
  ELSE {[type |-> "ask", from |-> n, to |-> k, epoch |-> x.currentEpoch, addr |-> x.addr] :
          k \in Sentinel \ {n}}

Send(consumed, out) ==
  \E sent \in SUBSET out : net' = (net \ consumed) \cup sent /\ Cardinality(net') <= MaxInFlight

\* Votes of other sentinels older than SENTINEL_ASK_PERIOD * 5 are forgotten.
Forget(x, old) ==
  [x EXCEPT !.vote = [k \in Sentinel |-> IF k \in old THEN NoVotes[k] ELSE x.vote[k]]]

\* sentinelHandleRedisInstance, for the master: start a failover if it is down, ask the
\* other sentinels, run the state machine, ask again.
TimerStep(n, starts, late, linked, old) ==
  LET x == IF starts THEN StartFailover(st[n]) ELSE st[n]
  IN /\ starts => st[n].state = "none" /\ n \in MayFail /\ st[n].currentEpoch < MaxEpoch
               /\ (st[n].held => MayRetry)
     /\ \E r \in FailoverStateMachine(n, x, late, linked) :
          /\ st' = [st EXCEPT ![n] = Forget(r.x, old)]
          /\ Command(r.cmds)
          /\ Send({}, Asks(n, x) \cup Asks(n, r.x))
          /\ votes' = votes \cup Vote(n, x, r.x)
          /\ elected' = IF r.wins THEN elected \cup {[node |-> n, epoch |-> x.failoverEpoch,
                                                  current |-> x.currentEpoch]}
                        ELSE elected

\* The conditions matter only where the state machine looks at them.
Timer(n) ==
  \E starts \in BOOLEAN,
     late \in IF st[n].state \in {"none", "select_slave"} THEN {FALSE} ELSE BOOLEAN,
     linked \in CASE st[n].state = "send_slaveof_noone" -> {{}, Instance}
                 [] st[n].state = "reconf_slaves" -> SUBSET Slaves(st[n])
                 [] OTHER -> {Instance},
     old \in SUBSET {k \in Sentinel : st[n].vote[k].leader # NULL} :
    TimerStep(n, starts, late, linked, old)

\* The failover of another master starts: all masters share current_epoch.
OtherFailover(n) ==
  /\ st[n].currentEpoch < MaxEpoch
  /\ st' = [st EXCEPT ![n].currentEpoch = @ + 1]
  /\ UNCHANGED <<slaveof, net, votes, elected>>

\* SENTINEL is-master-down-by-addr with a run id: vote, or tell the vote given before.
ReceiveAsk(m) ==
  LET k == m.to
      y == VoteLeader(k, st[k], m.epoch, m.from)
  IN /\ m.type = "ask"
     /\ IF st[k].addr = m.addr
        THEN /\ st' = [st EXCEPT ![k] = y]
             /\ votes' = votes \cup Vote(k, st[k], y)
             /\ Send({m}, IF y.leader = NULL THEN {}
                          ELSE {[type |-> "reply", from |-> k, to |-> m.from,
                                 leader |-> y.leader, epoch |-> y.leaderEpoch]})
        ELSE Send({m}, {}) /\ UNCHANGED <<st, votes>>
     /\ UNCHANGED <<slaveof, elected>>

\* sentinelReceiveIsMasterDownReply
ReceiveReply(m) ==
  /\ m.type = "reply"
  /\ st' = [st EXCEPT ![m.to].vote[m.from] = [leader |-> m.leader, epoch |-> m.epoch]]
  /\ Send({m}, {})
  /\ UNCHANGED <<slaveof, votes, elected>>

\* Is slave i being reconfigured, as its INFO reply shows it?  (SRI_RECONF_SENT goes with the
\* first reply that names the promoted slave.)
ReconfInProg(x, i) ==
  /\ slaveof[i] # NULL
  /\ x.reconf[i] = "inprog" \/ (x.reconf[i] = "sent" /\ slaveof[i] = x.promoted)

\* sentinelRefreshInstanceInfo, the reply of a slave; `up` tells whether its link with its
\* master is up.  A slave of the wrong master gets a SLAVEOF if the master looks sane for long
\* enough.  sentinelMasterLooksSane compares the role the master last reported ("master" after
\* a reset, reported or not), so that it may hold whatever the role of the master is by now;
\* where it does not, no SLAVEOF is executed, which is the case of a lost command.
Info(n, i) ==
  \E up \in IF ReconfInProg(st[n], i) THEN BOOLEAN ELSE {FALSE} :
    LET x == st[n]
        promoted == /\ slaveof[i] = NULL /\ i = x.promoted /\ x.state = "wait_promotion"
        wrong == IF slaveof[i] = NULL THEN i # x.promoted ELSE slaveof[i] # x.addr
        moved == [x EXCEPT !.reconf[i] = IF ~ ReconfInProg(x, i) THEN @
                                         ELSE IF up THEN "done" ELSE "inprog"]
    IN /\ i \in Slaves(x)
       /\ st' = [st EXCEPT ![n] =
                   IF promoted
                   THEN Flush([x EXCEPT !.configEpoch = x.failoverEpoch, !.state = "reconf_slaves"])
                   ELSE moved]
       /\ Command(IF wrong THEN {SlaveOf(i, x.addr)} ELSE {})
       /\ UNCHANGED <<net, votes, elected>>

\* sentinelProcessHelloMessage: k reads the hello message of n.
Hello(n, k) ==
  LET x == st[k]
      addr == CurrentMaster(st[n])
      y == IF st[n].currentEpoch > x.currentEpoch
           THEN Flush([x EXCEPT !.currentEpoch = st[n].currentEpoch]) ELSE x
      z == [y EXCEPT !.configEpoch = st[n].configEpoch]
  IN /\ st' = [st EXCEPT ![k] = IF x.configEpoch >= st[n].configEpoch THEN y
                                ELSE IF addr = x.addr THEN z
                                ELSE ResetMasterAndChangeAddress(z, addr)]
     /\ UNCHANGED <<slaveof, net, votes, elected>>

InitSentinel(saved) ==
  [currentEpoch |-> saved.currentEpoch, configEpoch |-> saved.configEpoch, addr |-> saved.addr,
   leader |-> NULL, leaderEpoch |-> saved.leaderEpoch, state |-> "none",
   held |-> FALSE, failoverEpoch |-> 0, promoted |-> NULL, reconf |-> NoReconf, vote |-> NoVotes,
   saved |-> saved]

\* The process dies and reads its configuration file again (sentinelHandleConfiguration).
Restart(n) ==
  /\ st' = [st EXCEPT ![n] = InitSentinel(st[n].saved)]
  /\ net' = {m \in net : m.to # n}
  /\ UNCHANGED <<slaveof, votes, elected>>

Init ==
  /\ st = [n \in Sentinel |-> InitSentinel([addr |-> FirstMaster, configEpoch |-> 0,
                                            leaderEpoch |-> 0, currentEpoch |-> 0])]
  /\ slaveof = [i \in Instance |-> IF i = FirstMaster THEN NULL ELSE FirstMaster]
  /\ net = {} /\ votes = {} /\ elected = {}

Next ==
  \/ \E n \in Sentinel : Timer(n)
  \/ \E n \in MayFailOther : OtherFailover(n)
  \/ \E m \in net : ReceiveAsk(m) \/ ReceiveReply(m)
  \/ \E n \in Sentinel, i \in Instance : Info(n, i)
  \/ \E n, k \in Sentinel : n # k /\ Hello(n, k)
  \/ \E n \in MayRestart : Restart(n)

Spec == Init /\ [][Next]_vars

\* A timer call after the time of the state has passed, with every link connected
Overdue(n) ==
  /\ st[n].state # "none"
  /\ \E r \in FailoverStateMachine(n, st[n], TRUE, Instance) : st' = [st EXCEPT ![n] = r.x]

\* The timer runs on, the time of every state passes, and links come back.
FairSpec == Spec /\ \A n \in Sentinel : WF_st(Overdue(n))

-----------------------------------------------------------------------------
(* Properties                                                              *)

\* The sentinels, the instances and the messages have their types.
TypeOK ==
  /\ DOMAIN st = Sentinel
  /\ \A n \in Sentinel :
       /\ st[n].state \in State /\ st[n].reconf \in [Instance -> Reconf]
       /\ st[n].addr \in Instance /\ st[n].promoted \in Instance \cup {NULL}
       /\ st[n].leader \in Sentinel \cup {NULL}
       /\ {st[n].currentEpoch, st[n].configEpoch, st[n].leaderEpoch, st[n].failoverEpoch}
            \subseteq Nat
  /\ slaveof \in [Instance -> Instance \cup {NULL}]
  /\ \A m \in net : m.type \in {"ask", "reply"} /\ {m.from, m.to} \subseteq Sentinel
  /\ \A v \in votes : {v.voter, v.for} \subseteq Sentinel

\* A sentinel votes once in an epoch, whatever it forgets when it restarts.
OneVotePerEpoch ==
  \A v, w \in votes : v.voter = w.voter /\ v.epoch = w.epoch => v.for = w.for

ByMajority(e) ==
  2 * Cardinality({v \in Sentinel : [voter |-> v, epoch |-> e.epoch, for |-> e.node] \in votes})
    > Cardinality(Sentinel)

\* "To be a leader for a given epoch, we should have the majority of the Sentinels we know
\* that reported the same instance as leader for the same epoch" (sentinelGetLeader): an
\* election is won by a majority of the votes of its epoch, unless a newer epoch overtook it.
ElectedByMajorityOfItsEpoch ==
  \A e \in elected : e.current = e.epoch => ByMajority(e)

\* From the selection of a slave on there is one, also for the INFO replies that compare a
\* slave's master with it (promoted_slave is dereferenced there without a test).
PromotedIsSet ==
  \A n \in Sentinel :
    (\/ st[n].state \in {"send_slaveof_noone", "wait_promotion", "reconf_slaves"}
     \/ \E i \in Instance : st[n].reconf[i] \in {"sent", "inprog"}) => st[n].promoted # NULL

\* Every failover ends: aborted, or with the switch to the promoted slave.
FailoverEnds == \A n \in Sentinel : st[n].state # "none" ~> st[n].state = "none"
=============================================================================
