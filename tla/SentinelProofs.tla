--------------------------- MODULE SentinelProofs ---------------------------
(* A sentinel votes once in an epoch, and an election that no newer epoch overtakes is won *)
(* by the votes of a majority: for every finite set of sentinels and instances, every      *)
(* quorum, and every pattern of crashes, lost messages and failovers of other masters.     *)
EXTENDS Sentinel, FiniteSetTheorems, TLAPS

\* Both provers are given 15 seconds for a leaf.
USE SMTT(15), ZenonT(15)

-----------------------------------------------------------------------------
(* Types                                                                   *)

SavedType ==
  [addr : Instance, configEpoch : Nat, leaderEpoch : Nat, currentEpoch : Nat]

HeardType == [leader : Sentinel \cup {NULL}, epoch : Nat]

SentinelType ==
  [currentEpoch : Nat, configEpoch : Nat, addr : Instance,
   leader : Sentinel \cup {NULL}, leaderEpoch : Nat, state : State, held : BOOLEAN,
   failoverEpoch : Nat, promoted : Instance \cup {NULL}, reconf : [Instance -> Reconf],
   vote : [Sentinel -> HeardType], saved : SavedType]

AskType == [type : {"ask"}, from : Sentinel, to : Sentinel, epoch : Nat, addr : Instance]
ReplyType == [type : {"reply"}, from : Sentinel, to : Sentinel, leader : Sentinel, epoch : Nat]
CommandType == [to : Instance, of : Instance \cup {NULL}]
Ballot == [voter : Sentinel, epoch : Nat, for : Sentinel]
Election == [node : Sentinel, epoch : Nat, current : Nat]

Typed ==
  /\ st \in [Sentinel -> SentinelType] /\ slaveof \in [Instance -> Instance \cup {NULL}]
  /\ net \subseteq AskType \cup ReplyType
  /\ \A m \in net : m.from # m.to
  /\ votes \subseteq Ballot /\ elected \subseteq Election

-----------------------------------------------------------------------------
(* The inductive invariant                                                 *)

\* The vote of n for c in epoch e
Cast(n, e, c) == [voter |-> n, epoch |-> e, for |-> c]

\* What sentinel n holds for votes was cast; its own is also in its configuration file, and
\* is its latest.
Backed(n, x) ==
  /\ x.saved.leaderEpoch = x.leaderEpoch
  /\ x.leader # NULL => Cast(n, x.leaderEpoch, x.leader) \in votes
  /\ \A k \in Sentinel : x.vote[k].leader # NULL =>
       k # n /\ Cast(k, x.vote[k].epoch, x.vote[k].leader) \in votes
  /\ \A v \in votes : v.voter = n => v.epoch <= x.leaderEpoch

RepliesBacked ==
  \A m \in net : m.type = "reply" => Cast(m.from, m.epoch, m.leader) \in votes

Inv ==
  /\ Typed /\ (\A n \in Sentinel : Backed(n, st[n])) /\ RepliesBacked
  /\ OneVotePerEpoch /\ ElectedByMajorityOfItsEpoch

\* Two elections of an epoch, neither of them overtaken, have the same winner.
OneLeaderPerEpoch ==
  \A e, f \in elected :
    e.epoch = f.epoch /\ e.current = e.epoch /\ f.current = f.epoch => e.node = f.node

-----------------------------------------------------------------------------
(* What a handler does to the state of its sentinel                        *)

\* The vote, and what was heard of the others', stay; the file stays, or is written again.
SameVote(x, y) ==
  /\ y \in SentinelType
  /\ y.leader = x.leader /\ y.leaderEpoch = x.leaderEpoch /\ y.vote = x.vote
  /\ y.saved.leaderEpoch \in {x.saved.leaderEpoch, x.leaderEpoch}

\* As above, or the vote is forgotten.
NoVote(x, y) ==
  /\ y \in SentinelType
  /\ y.leader \in {x.leader, NULL} /\ y.leaderEpoch = x.leaderEpoch /\ y.vote = x.vote
  /\ y.saved.leaderEpoch \in {x.saved.leaderEpoch, x.leaderEpoch}

\* A new vote, in a later epoch and written to the file.
NewVote(x, y) ==
  /\ y \in SentinelType
  /\ y.leader \in Sentinel /\ y.leaderEpoch > x.leaderEpoch /\ y.vote = x.vote
  /\ y.saved.leaderEpoch = y.leaderEpoch

\* What is written to the configuration file has its type, and tells the epoch of the vote.
LEMMA PersistentType ==
  ASSUME NEW x \in SentinelType
  PROVE  Persistent(x) \in SavedType /\ Persistent(x).leaderEpoch = x.leaderEpoch
BY DEF Persistent, CurrentMaster, SentinelType, SavedType

\* sentinelFlushConfig brings the file up to date and leaves the rest alone.
LEMMA FlushType ==
  ASSUME NEW x \in SentinelType
  PROVE  SameVote(x, Flush(x)) /\ Flush(x).saved.leaderEpoch = x.leaderEpoch
         /\ Flush(x).currentEpoch = x.currentEpoch
<1>1. Persistent(x) \in SavedType /\ Persistent(x).leaderEpoch = x.leaderEpoch
  BY PersistentType
<1>2. Flush(x) \in SentinelType BY <1>1 DEF Flush, SentinelType
<1> QED BY <1>1, <1>2 DEF Flush, SameVote, SentinelType

\* A switch to another master forgets the vote but not its epoch.
LEMMA ResetMasterNoVote ==
  ASSUME NEW x \in SentinelType, NEW a \in Instance
  PROVE  NoVote(x, ResetMasterAndChangeAddress(x, a))
<1> DEFINE y == [x EXCEPT !.addr = a, !.leader = NULL, !.state = "none",
                          !.held = FALSE, !.promoted = NULL, !.reconf = NoReconf]
<1>1. NoReconf \in [Instance -> Reconf] BY DEF NoReconf, Reconf
<1>2. /\ y \in SentinelType
      /\ y.leader = NULL /\ y.leaderEpoch = x.leaderEpoch /\ y.vote = x.vote
  BY <1>1, Zenon DEF SentinelType, State
<1>3. ResetMasterAndChangeAddress(x, a) = Flush(y) BY DEF ResetMasterAndChangeAddress
<1> HIDE DEF y
<1>4. SameVote(y, Flush(y)) /\ Flush(y).saved.leaderEpoch = y.leaderEpoch BY <1>2, FlushType
<1> QED BY <1>2, <1>3, <1>4 DEF SameVote, NoVote

\* sentinelAbortFailover keeps the vote.
LEMMA AbortFailoverSameVote ==
  ASSUME NEW x \in SentinelType
  PROVE  SameVote(x, AbortFailover(x))
<1>1. AbortFailover(x) \in SentinelType BY Zenon DEF AbortFailover, SentinelType, State
<1> QED BY <1>1 DEF AbortFailover, SameVote, SentinelType

\* sentinelStartFailover keeps the vote.
LEMMA StartFailoverSameVote ==
  ASSUME NEW x \in SentinelType
  PROVE  SameVote(x, StartFailover(x))
<1>1. x.currentEpoch + 1 \in Nat BY DEF SentinelType
<1>2. StartFailover(x) \in SentinelType BY <1>1, Zenon DEF StartFailover, SentinelType, State
<1> QED BY <1>2 DEF StartFailover, SameVote, SentinelType

\* sentinelVoteLeader votes in an epoch later than that of its last vote, or not at all.
LEMMA VoteLeaderVotes ==
  ASSUME NEW n \in Sentinel, NEW x \in SentinelType, NEW epoch \in Nat, NEW c \in Sentinel
  PROVE  SameVote(x, VoteLeader(n, x, epoch, c)) \/ NewVote(x, VoteLeader(n, x, epoch, c))
<1> DEFINE w == [x EXCEPT !.currentEpoch = epoch]
           y == IF epoch > x.currentEpoch THEN Flush(w) ELSE x
           z == [y EXCEPT !.leader = c, !.leaderEpoch = y.currentEpoch]
<1>1. w \in SentinelType /\ SameVote(x, w) /\ w.currentEpoch = epoch
  <2>1. w \in SentinelType BY DEF SentinelType
  <2> QED BY <2>1 DEF SameVote, SentinelType
<1>2. SameVote(w, Flush(w)) /\ Flush(w).currentEpoch = epoch
  <2> HIDE DEF w
  <2> QED BY <1>1, FlushType
<1>3. SameVote(x, y) /\ y.currentEpoch >= epoch
  <2>1. CASE epoch > x.currentEpoch
    <3> HIDE DEF w
    <3> QED BY <2>1, <1>1, <1>2 DEF SameVote
  <2>2. CASE ~ (epoch > x.currentEpoch)
    BY <2>2 DEF SameVote, SentinelType
  <2> QED BY <2>1, <2>2
<1>4. VoteLeader(n, x, epoch, c) = IF Votes(y, epoch) THEN Hold(n, Flush(z), c) ELSE y
  BY DEF VoteLeader
<1> HIDE DEF y
<1>5. CASE Votes(y, epoch)
  <2>1. /\ z \in SentinelType /\ z.leader = c /\ z.leaderEpoch = y.currentEpoch
        /\ z.vote = x.vote
    BY <1>3, Zenon DEF SameVote, SentinelType
  <2>2. z.leaderEpoch > x.leaderEpoch
    BY <2>1, <1>3, <1>5 DEF Votes, SameVote, SentinelType
  <2> HIDE DEF z
  <2>3. SameVote(z, Flush(z)) /\ Flush(z).saved.leaderEpoch = z.leaderEpoch
    BY <2>1, FlushType
  <2>4. NewVote(x, Flush(z)) BY <2>1, <2>2, <2>3 DEF SameVote, NewVote
  <2>5. NewVote(x, Hold(n, Flush(z), c))
    <3>1. Hold(n, Flush(z), c) \in SentinelType
      BY <2>4, Zenon DEF Hold, NewVote, SentinelType
    <3> QED BY <2>4, <3>1 DEF Hold, NewVote, SentinelType
  <2> QED BY <1>4, <1>5, <2>5
<1>6. CASE ~ Votes(y, epoch)
  BY <1>3, <1>4, <1>6
<1> QED BY <1>5, <1>6

-----------------------------------------------------------------------------
(* The election                                                            *)

\* The sentinels with a vote in V for n in epoch e
Voters(V, e, n) == {v \in Sentinel : Cast(v, e, n) \in V}

\* sentinelGetLeader votes as sentinelVoteLeader does.
LEMMA LeaderAmongVotes ==
  ASSUME NEW n \in Sentinel, NEW x \in SentinelType, NEW f \in Sentinel \cup {NULL},
         NULL \notin Sentinel
  PROVE  LET y == LeaderAmong(n, x, f).x IN SameVote(x, y) \/ NewVote(x, y)
<1> DEFINE c == IF f = NULL THEN n ELSE f
<1>1. c \in Sentinel OBVIOUS
<1>2. x.failoverEpoch \in Nat BY DEF SentinelType
<1>3. LeaderAmong(n, x, f).x = VoteLeader(n, x, x.failoverEpoch, c) BY DEF LeaderAmong
<1> HIDE DEF c
<1> QED BY <1>1, <1>2, <1>3, VoteLeaderVotes

\* The leader sentinelGetLeader finds has the votes of a majority, this sentinel's new vote
\* among them, if the epoch of the failover is the current one.
LEMMA LeaderHasMajority ==
  ASSUME NEW n \in Sentinel, NEW x \in SentinelType, NEW f \in Sentinel \cup {NULL},
         IsFiniteSet(Sentinel), NULL \notin Sentinel, Quorum \in Nat,
         Backed(n, x), x.currentEpoch = x.failoverEpoch, LeaderAmong(n, x, f).leader = n
  PROVE  2 * Cardinality(Voters(votes \cup Vote(n, x, LeaderAmong(n, x, f).x),
                                x.failoverEpoch, n)) > Cardinality(Sentinel)
<1> DEFINE y == VoteLeader(n, x, x.failoverEpoch, IF f = NULL THEN n ELSE f)
           K == {k \in Sentinel : x.vote[k].leader = n /\ x.vote[k].epoch = x.currentEpoch}
           W == votes \cup Vote(n, x, y)
           all == Voters(W, x.failoverEpoch, n)
           mine == y.leader # NULL /\ y.leaderEpoch = x.failoverEpoch
           max == IF f = NULL THEN 0 ELSE Counted(x, f)
           myvotes == IF mine THEN Counted(x, y.leader) + 1 ELSE 0
           winner == IF myvotes > max THEN y.leader ELSE f
           count == IF myvotes > max THEN myvotes ELSE max
<1>1. LeaderAmong(n, x, f).x = y BY DEF LeaderAmong
<1>2. winner = n /\ Majority(count)
  <2>1. LeaderAmong(n, x, f).leader =
          IF winner # NULL /\ Majority(count) THEN winner ELSE NULL
    BY DEF LeaderAmong
  <2> HIDE DEF winner, count
  <2> QED BY <2>1
<1>3. SameVote(x, y) \/ NewVote(x, y) BY <1>1, LeaderAmongVotes
<1>4. Counted(x, n) = Cardinality(K) BY DEF Counted
<1>5. K \in SUBSET Sentinel /\ n \notin K /\ K \subseteq all
  <2>1. \A k \in K : k # n /\ Cast(k, x.failoverEpoch, n) \in votes BY DEF Backed
  <2> QED BY <2>1 DEF Voters
<1>6. all \in SUBSET Sentinel BY DEF Voters
<1>7. /\ IsFiniteSet(K) /\ Cardinality(K) \in Nat
      /\ IsFiniteSet(all) /\ Cardinality(all) \in Nat /\ Cardinality(Sentinel) \in Nat
  <2> HIDE DEF K, all
  <2>1. IsFiniteSet(K) /\ IsFiniteSet(all) BY <1>5, <1>6, FS_Subset
  <2> QED BY <2>1, FS_CardinalityType
<1>8. Cardinality(all) >= count
  <2>1. CASE myvotes > max
    <3>1. y.leader = n /\ count = myvotes BY <1>2, <2>1
    <3>2. mine
      <4>1. CASE f = NULL BY <4>1, <2>1
      <4>2. CASE f # NULL
        <5>1. Cardinality({k \in Sentinel : x.vote[k].leader = f
                                            /\ x.vote[k].epoch = x.currentEpoch}) \in Nat
          <6> DEFINE F == {k \in Sentinel : x.vote[k].leader = f
                                            /\ x.vote[k].epoch = x.currentEpoch}
          <6>1. F \in SUBSET Sentinel OBVIOUS
          <6> HIDE DEF F
          <6>2. IsFiniteSet(F) BY <6>1, FS_Subset
          <6>3. Cardinality(F) \in Nat BY <6>2, FS_CardinalityType
          <6> QED BY <6>3 DEF F
        <5>2. max \in Nat BY <5>1, <4>2 DEF Counted
        <5> HIDE DEF max, mine
        <5> QED BY <5>2, <2>1
      <4> QED BY <4>1, <4>2
    <3>3. count = Cardinality(K) + 1 BY <3>1, <3>2, <1>4
    <3>4. Cast(n, x.failoverEpoch, n) \in W
      <4>1. CASE x.leaderEpoch = y.leaderEpoch
        <5>1. SameVote(x, y) BY <4>1, <1>3 DEF NewVote, SentinelType
        <5>2. x.leader = n /\ x.leaderEpoch = x.failoverEpoch BY <5>1, <3>1, <3>2 DEF SameVote
        <5> QED BY <5>2 DEF Backed
      <4>2. CASE x.leaderEpoch # y.leaderEpoch
        BY <4>2, <3>1, <3>2 DEF Vote, Cast
      <4> QED BY <4>1, <4>2
    <3>5. K \cup {n} \in SUBSET all BY <3>4, <1>5 DEF Voters
    <3>6. Cardinality(K \cup {n}) = Cardinality(K) + 1
      <4> HIDE DEF K
      <4> QED BY <1>5, <1>7, FS_AddElement, Zenon
    <3>7. Cardinality(K \cup {n}) <= Cardinality(all)
      <4> HIDE DEF K, all
      <4> QED BY <3>5, <1>7, FS_Subset
    <3> HIDE DEF K, all, count
    <3> QED BY <3>3, <3>6, <3>7, <1>7
  <2>2. CASE ~ (myvotes > max)
    <3>1. f = n /\ count = Cardinality(K) BY <1>2, <1>4, <2>2
    <3>2. Cardinality(K) <= Cardinality(all)
      <4> HIDE DEF K, all
      <4> QED BY <1>5, <1>7, FS_Subset
    <3> HIDE DEF K, all, count
    <3> QED BY <3>1, <3>2
  <2> QED BY <2>1, <2>2
<1>9. count \in Nat
  <2>1. CASE myvotes > max
    <3> HIDE DEF max
    <3>1. count = myvotes /\ y.leader = n BY <1>2, <2>1
    <3> HIDE DEF K
    <3> QED BY <3>1, <1>4, <1>7
  <2>2. CASE ~ (myvotes > max)
    <3>1. f = n /\ count = Cardinality(K) BY <1>2, <1>4, <2>2
    <3> QED BY <3>1, <1>7
  <2> QED BY <2>1, <2>2
<1>10. 2 * count > Cardinality(Sentinel)
  <2> HIDE DEF count
  <2> QED BY <1>2, <1>7, <1>9 DEF Majority
<1> HIDE DEF all, count
<1>11. 2 * Cardinality(all) > Cardinality(Sentinel) BY <1>7, <1>8, <1>9, <1>10
<1> QED BY <1>1, <1>11 DEF all

-----------------------------------------------------------------------------
(* The failover state machine                                              *)

\* The constants as the proofs need them
Constants ==
  /\ IsFiniteSet(Sentinel) /\ NULL \notin Sentinel /\ Quorum \in Nat
  /\ FirstMaster \in Instance /\ MayFail \subseteq Sentinel
  /\ MayFailOther \subseteq Sentinel /\ MayRestart \subseteq Sentinel

\* They hold by the assumption of the module Sentinel.
LEMMA ConstantsHold == Constants
BY SentinelAssumption DEF Constants

\* A sound outcome of a call of the state machine
Outcome(n, x, r) ==
  /\ NoVote(x, r.x) \/ NewVote(x, r.x)
  /\ r.cmds \subseteq CommandType
  /\ r.wins /\ x.currentEpoch = x.failoverEpoch =>
       2 * Cardinality(Voters(votes \cup Vote(n, x, r.x), x.failoverEpoch, n))
         > Cardinality(Sentinel)

\* An outcome that keeps the vote and wins nothing is sound.
LEMMA QuietOutcome ==
  ASSUME NEW n \in Sentinel, NEW x \in SentinelType, NEW y, NoVote(x, y) \/ NewVote(x, y),
         NEW C \in SUBSET CommandType
  PROVE  Outcome(n, x, Idle(y)) /\ Outcome(n, x, [Idle(y) EXCEPT !.cmds = C])
BY DEF Outcome, Idle

\* Who keeps the vote does not vote.
LEMMA SameVoteNoVote ==
  ASSUME NEW x, NEW y, SameVote(x, y)
  PROVE  NoVote(x, y)
BY DEF SameVote, NoVote

\* Who does nothing does not vote.
LEMMA NoVoteReflexive ==
  ASSUME NEW x \in SentinelType
  PROVE  NoVote(x, x)
BY DEF NoVote

\* sentinelFailoverWaitStart goes on only with the votes of a majority.
LEMMA WaitStartOutcome ==
  ASSUME Constants, NEW n \in Sentinel, NEW x \in SentinelType, Backed(n, x),
         NEW late \in BOOLEAN, NEW r \in FailoverWaitStart(n, x, late)
  PROVE  Outcome(n, x, r)
<1>1. PICK f \in Sentinel \cup {NULL} :
        LET g == LeaderAmong(n, x, f)
        IN r = IF g.leader = n
               THEN [Idle([g.x EXCEPT !.state = "select_slave"]) EXCEPT !.wins = TRUE]
               ELSE IF late THEN Idle(AbortFailover(g.x)) ELSE Idle(g.x)
  BY Zenon DEF FailoverWaitStart, GetLeader, Favourites
<1> DEFINE g == LeaderAmong(n, x, f)
           y == g.x
           z == [y EXCEPT !.state = "select_slave"]
<1>2. SameVote(x, y) \/ NewVote(x, y) BY LeaderAmongVotes DEF Constants
<1>3. y \in SentinelType BY <1>2 DEF SameVote, NewVote
<1>4. CASE g.leader = n
  <2>1. r = [Idle(z) EXCEPT !.wins = TRUE] BY <1>1, <1>4
  <2>2. x.currentEpoch = x.failoverEpoch =>
          2 * Cardinality(Voters(votes \cup Vote(n, x, y), x.failoverEpoch, n))
            > Cardinality(Sentinel)
    BY <1>4, LeaderHasMajority DEF Constants
  <2> HIDE DEF y
  <2>3. SameVote(y, z)
    <3>1. z \in SentinelType BY <1>3 DEF SentinelType, State
    <3> QED BY <3>1, <1>3 DEF SameVote, SentinelType
  <2>4. z.leader = y.leader /\ z.leaderEpoch = y.leaderEpoch BY <2>3 DEF SameVote
  <2> HIDE DEF z
  <2>5. NoVote(x, z) \/ NewVote(x, z)
    BY <1>2, <2>3 DEF SameVote, NewVote, NoVote
  <2>6. r.x = z /\ r.cmds = {} BY <2>1 DEF Idle
  <2>7. Vote(n, x, z) = Vote(n, x, y) BY <2>4 DEF Vote
  <2> QED BY <2>2, <2>5, <2>6, <2>7 DEF Outcome
<1>5. CASE g.leader # n
  <2> HIDE DEF g
  <2>1. SameVote(y, AbortFailover(y)) BY <1>3, AbortFailoverSameVote
  <2>2. PICK w \in {y, AbortFailover(y)} : r = Idle(w) BY <1>1, <1>5 DEF g
  <2>3. NoVote(x, w) \/ NewVote(x, w)
    BY <1>2, <2>1, <2>2 DEF SameVote, NewVote, NoVote
  <2> QED BY <2>2, <2>3, QuietOutcome, Zenon
<1> QED BY <1>4, <1>5

\* sentinelFailoverDetectEnd neither votes nor wins.
LEMMA DetectEndOutcome ==
  ASSUME NEW n \in Sentinel, NEW x \in SentinelType, NEW y \in SentinelType, NoVote(x, y),
         NEW C \in SUBSET CommandType, NEW late \in BOOLEAN, NEW linked \in SUBSET Instance
  PROVE  Outcome(n, x, FailoverDetectEnd(y, C, late, linked))
<1> DEFINE z == ResetMasterAndChangeAddress(y, y.promoted)
           last == {SlaveOf(i, y.promoted) :
                      i \in {j \in Slaves(y) \cap linked : y.reconf[j] \in {"no", "inprog"}}}
           r == FailoverDetectEnd(y, C, late, linked)
<1>1. last \in SUBSET CommandType BY DEF SlaveOf, Slaves, CommandType, SentinelType
<1>2. CASE r = [Idle(y) EXCEPT !.cmds = C] BY <1>2, QuietOutcome
<1>3. CASE y.promoted \in linked /\ r = [Idle(z) EXCEPT !.cmds = IF late THEN C \cup last ELSE C]
  <2>1. NoVote(y, z) BY <1>3, ResetMasterNoVote
  <2> HIDE DEF z, last
  <2>2. NoVote(x, z) BY <2>1 DEF NoVote
  <2>3. (IF late THEN C \cup last ELSE C) \in SUBSET CommandType BY <1>1
  <2> QED BY <1>3, <2>2, <2>3, QuietOutcome
<1> QED BY <1>2, <1>3 DEF FailoverDetectEnd

\* Nor does the reconfiguration of the slaves.
LEMMA ReconfSlavesOutcome ==
  ASSUME NEW n \in Sentinel, NEW x \in SentinelType, NEW late \in BOOLEAN,
         NEW linked \in SUBSET Instance, NEW r \in FailoverReconfSlaves(x, late, linked)
  PROVE  Outcome(n, x, r)
<1>1. CASE r = FailoverDetectEnd(x, {}, late, linked)
  <2>1. NoVote(x, x) BY NoVoteReflexive
  <2> QED BY <1>1, <2>1, DetectEndOutcome
<1>2. ASSUME NEW i \in Instance,
             r = FailoverDetectEnd([x EXCEPT !.reconf[i] = "sent"], {SlaveOf(i, x.promoted)},
                                   late, linked)
      PROVE  Outcome(n, x, r)
  <2> DEFINE y == [x EXCEPT !.reconf[i] = "sent"]
             C == {SlaveOf(i, x.promoted)}
  <2>1. y \in SentinelType
    <3>1. [x.reconf EXCEPT ![i] = "sent"] \in [Instance -> Reconf] BY DEF SentinelType, Reconf
    <3> QED BY <3>1 DEF SentinelType
  <2>2. NoVote(x, y) BY <2>1 DEF NoVote, SentinelType
  <2>3. C \in SUBSET CommandType BY DEF SlaveOf, CommandType, SentinelType
  <2> HIDE DEF y, C
  <2>4. Outcome(n, x, FailoverDetectEnd(y, C, late, linked))
    BY <2>1, <2>2, <2>3, DetectEndOutcome
  <2> QED BY <1>2, <2>4 DEF y, C
<1> QED BY <1>1, <1>2, Zenon DEF FailoverReconfSlaves, Slaves

\* Every outcome of sentinelFailoverStateMachine is sound, one case per state.
LEMMA StateMachineOutcome ==
  ASSUME Constants, NEW n \in Sentinel, NEW x \in SentinelType, Backed(n, x),
         NEW late \in BOOLEAN, NEW linked \in SUBSET Instance,
         NEW r \in FailoverStateMachine(n, x, late, linked)
  PROVE  Outcome(n, x, r)
<1>1. NoVote(x, x) /\ NoVote(x, AbortFailover(x))
  BY NoVoteReflexive, AbortFailoverSameVote, SameVoteNoVote
<1>2. Outcome(n, x, Idle(x)) /\ Outcome(n, x, Idle(AbortFailover(x)))
  BY <1>1, QuietOutcome, Zenon
<1>3. x.state \in State BY DEF SentinelType
<1>4. CASE x.state = "none" BY <1>2, <1>4 DEF FailoverStateMachine
<1>5. CASE x.state = "wait_start" BY <1>5, WaitStartOutcome DEF FailoverStateMachine
<1>6. CASE x.state = "select_slave"
  <2>1. r \in FailoverSelectSlave(x) BY <1>6 DEF FailoverStateMachine
  <2>2. ASSUME NEW i \in Instance,
               r = Idle([x EXCEPT !.promoted = i, !.state = "send_slaveof_noone"])
        PROVE  Outcome(n, x, r)
    <3> DEFINE y == [x EXCEPT !.promoted = i, !.state = "send_slaveof_noone"]
    <3>1. y \in SentinelType BY Zenon DEF SentinelType, State
    <3>2. NoVote(x, y) BY <3>1 DEF NoVote, SentinelType
    <3> HIDE DEF y
    <3> QED BY <2>2, <3>2, QuietOutcome, Zenon DEF y
  <2> QED BY <1>2, <2>1, <2>2, Zenon DEF FailoverSelectSlave, Slaves
<1>7. CASE x.state = "send_slaveof_noone"
  <2> DEFINE y == [x EXCEPT !.state = "wait_promotion"]
             C == {SlaveOf(x.promoted, NULL)}
  <2>1. r \in FailoverSendSlaveOfNoOne(x, late, linked) BY <1>7 DEF FailoverStateMachine
  <2>2. CASE x.promoted \in linked /\ r = [Idle(y) EXCEPT !.cmds = C]
    <3>1. y \in SentinelType BY DEF SentinelType, State
    <3>2. NoVote(x, y) BY <3>1 DEF NoVote, SentinelType
    <3>3. C \in SUBSET CommandType BY <2>2 DEF SlaveOf, CommandType
    <3> HIDE DEF y, C
    <3> QED BY <2>2, <3>2, <3>3, QuietOutcome
  <2> QED BY <1>2, <2>1, <2>2 DEF FailoverSendSlaveOfNoOne
<1>8. CASE x.state = "wait_promotion"
  BY <1>2, <1>8 DEF FailoverStateMachine, FailoverWaitPromotion
<1>9. CASE x.state = "reconf_slaves"
  BY <1>9, ReconfSlavesOutcome DEF FailoverStateMachine
<1> QED BY <1>3, <1>4, <1>5, <1>6, <1>7, <1>8, <1>9 DEF State

-----------------------------------------------------------------------------
(* The steps                                                               *)

\* The votes are those of before, or with one more by n, in a later epoch than its last.
VoteAdded(n, y) ==
  \/ votes' = votes /\ y.leaderEpoch = st[n].leaderEpoch
  \/ /\ votes' = votes \cup {Cast(n, y.leaderEpoch, y.leader)}
     /\ y.leader \in Sentinel /\ y.leaderEpoch > st[n].leaderEpoch

\* What the state y of n and its messages tell of votes was cast.
BackedNext(n, y) ==
  /\ y.saved.leaderEpoch = y.leaderEpoch
  /\ y.leader # NULL => Cast(n, y.leaderEpoch, y.leader) \in votes'
  /\ \A k \in Sentinel : y.vote[k].leader # NULL =>
       k # n /\ Cast(k, y.vote[k].epoch, y.vote[k].leader) \in votes'

NetNext ==
  /\ net' \subseteq AskType \cup ReplyType
  /\ \A m \in net' : m.from # m.to
  /\ \A m \in net' : m.type = "reply" => Cast(m.from, m.epoch, m.leader) \in votes'

ElectedNext ==
  /\ elected' \subseteq Election
  /\ \A e \in elected' \ elected : e.current = e.epoch =>
       2 * Cardinality(Voters(votes', e.epoch, e.node)) > Cardinality(Sentinel)

\* A majority stays one when votes are added.
LEMMA MajorityStays ==
  ASSUME Constants, NEW V, NEW W, V \subseteq W, NEW e, NEW n,
         2 * Cardinality(Voters(V, e, n)) > Cardinality(Sentinel)
  PROVE  2 * Cardinality(Voters(W, e, n)) > Cardinality(Sentinel)
<1> DEFINE A == Voters(V, e, n)
           B == Voters(W, e, n)
<1>1. A \in SUBSET B /\ B \in SUBSET Sentinel BY DEF Voters
<1> HIDE DEF A, B
<1>2. IsFiniteSet(B) BY <1>1, FS_Subset DEF Constants
<1>3. IsFiniteSet(A) /\ Cardinality(A) <= Cardinality(B) BY <1>1, <1>2, FS_Subset
<1>4. Cardinality(A) \in Nat /\ Cardinality(B) \in Nat /\ Cardinality(Sentinel) \in Nat
  BY <1>2, <1>3, FS_CardinalityType DEF Constants
<1>5. 2 * Cardinality(A) > Cardinality(Sentinel) BY DEF A
<1>6. 2 * Cardinality(B) > Cardinality(Sentinel) BY <1>3, <1>4, <1>5
<1> QED BY <1>6 DEF B

\* The majority of the property, in the words of the proof.
LEMMA ByMajorityVoters ==
  ASSUME NEW e
  PROVE  ByMajority(e) <=> 2 * Cardinality(Voters(votes, e.epoch, e.node)) > Cardinality(Sentinel)
BY DEF ByMajority, Voters, Cast

\* A step of one sentinel keeps the invariant.
LEMMA OneSentinelStep ==
  ASSUME Constants, Inv, NEW n \in Sentinel, NEW y \in SentinelType,
         st' = [st EXCEPT ![n] = y], slaveof' \in [Instance -> Instance \cup {NULL}],
         VoteAdded(n, y), BackedNext(n, y), NetNext, ElectedNext
  PROVE  Inv'
<1>1. votes \subseteq votes' /\ votes' \subseteq Ballot
  BY DEF VoteAdded, Inv, Typed, Cast, Ballot, SentinelType
<1>2. Typed'
  BY <1>1 DEF Inv, Typed, NetNext, ElectedNext
<1>3. ASSUME NEW k \in Sentinel
      PROVE  Backed(k, st[k])'
  <2>1. Backed(k, st[k]) BY DEF Inv
  <2>2. st[n] \in SentinelType /\ st[k] \in SentinelType BY DEF Inv, Typed
  <2>3. CASE k = n
    <3>1. st'[k] = y BY <2>3 DEF Inv, Typed
    <3>2. \A v \in votes' : v.voter = n => v.epoch <= y.leaderEpoch
      <4>1. SUFFICES ASSUME NEW v \in votes', v.voter = n
                     PROVE  v.epoch <= y.leaderEpoch
        OBVIOUS
      <4>2. v \in Ballot BY <1>1
      <4>3. CASE v \in votes
        <5>1. v.epoch <= st[n].leaderEpoch BY <4>1, <4>3, <2>1, <2>3 DEF Backed
        <5>2. y.leaderEpoch >= st[n].leaderEpoch BY <2>2 DEF VoteAdded, SentinelType
        <5> QED BY <5>1, <5>2, <4>2, <2>2 DEF Ballot, SentinelType
      <4>4. CASE v = Cast(n, y.leaderEpoch, y.leader) BY <4>4 DEF Cast, SentinelType
      <4> QED BY <4>3, <4>4 DEF VoteAdded
    <3> QED BY <2>3, <3>1, <3>2 DEF Backed, BackedNext
  <2>4. CASE k # n
    <3>1. st'[k] = st[k] BY <2>4 DEF Inv, Typed
    <3>2. \A v \in votes' : v.voter = k => v.epoch <= st[k].leaderEpoch
      BY <2>1, <2>4 DEF VoteAdded, Backed, Cast
    <3> QED BY <2>1, <3>1, <3>2, <1>1 DEF Backed
  <2> QED BY <2>3, <2>4
<1>4. RepliesBacked' BY DEF NetNext, RepliesBacked
<1>5. OneVotePerEpoch'
  <2>1. CASE votes' = votes BY <2>1 DEF Inv, OneVotePerEpoch
  <2>2. CASE /\ votes' = votes \cup {Cast(n, y.leaderEpoch, y.leader)}
             /\ y.leader \in Sentinel /\ y.leaderEpoch > st[n].leaderEpoch
    <3>1. \A v \in votes : v.voter = n => v.epoch # y.leaderEpoch
      <4>1. SUFFICES ASSUME NEW v \in votes, v.voter = n
                     PROVE  v.epoch # y.leaderEpoch
        OBVIOUS
      <4>2. v.epoch <= st[n].leaderEpoch BY <4>1 DEF Inv, Backed
      <4>3. v \in Ballot /\ st[n] \in SentinelType BY DEF Inv, Typed
      <4> QED BY <2>2, <4>2, <4>3 DEF Ballot, SentinelType
    <3> QED BY <2>2, <3>1 DEF Inv, OneVotePerEpoch, Cast
  <2> QED BY <2>1, <2>2 DEF VoteAdded
<1>6. ElectedByMajorityOfItsEpoch'
  <2>1. ASSUME NEW e \in elected', e.current = e.epoch
        PROVE  2 * Cardinality(Voters(votes', e.epoch, e.node)) > Cardinality(Sentinel)
    <3>1. CASE e \in elected
      <4>1. 2 * Cardinality(Voters(votes, e.epoch, e.node)) > Cardinality(Sentinel)
        BY <2>1, <3>1, ByMajorityVoters DEF Inv, ElectedByMajorityOfItsEpoch
      <4> QED BY <4>1, <1>1, MajorityStays
    <3>2. CASE e \notin elected BY <2>1, <3>2 DEF ElectedNext
    <3> QED BY <3>1, <3>2
  <2> QED BY <2>1 DEF ElectedByMajorityOfItsEpoch, ByMajority, Voters, Cast
<1> QED BY <1>2, <1>3, <1>4, <1>5, <1>6 DEF Inv

\* A handler that votes, or not, gives what the lemma above asks of the votes.
LEMMA VotingStep ==
  ASSUME Constants, Inv, NEW n \in Sentinel, NEW x, SameVote(st[n], x),
         NEW y, NoVote(x, y) \/ NewVote(x, y), votes' = votes \cup Vote(n, x, y)
  PROVE  VoteAdded(n, y) /\ BackedNext(n, y)
<1>1. Backed(n, st[n]) BY DEF Inv
<1>2. st[n] \in SentinelType BY DEF Inv, Typed
<1>3. Backed(n, x) BY <1>1 DEF Backed, SameVote
<1>4. x \in SentinelType /\ y \in SentinelType BY DEF SameVote, NoVote, NewVote
<1>5. CASE NoVote(x, y)
  <2>1. votes' = votes /\ y.leaderEpoch = st[n].leaderEpoch
    BY <1>5 DEF NoVote, SameVote, Vote
  <2> QED BY <1>3, <1>5, <2>1 DEF VoteAdded, BackedNext, Backed, NoVote
<1>6. CASE NewVote(x, y)
  <2>1. x.leaderEpoch # y.leaderEpoch BY <1>4, <1>6 DEF NewVote, SentinelType
  <2>2. votes' = votes \cup {Cast(n, y.leaderEpoch, y.leader)} BY <2>1 DEF Vote, Cast
  <2>3. VoteAdded(n, y) BY <1>6, <2>2 DEF VoteAdded, NewVote, SameVote
  <2> QED BY <1>3, <1>6, <2>2, <2>3 DEF BackedNext, Backed, NewVote
<1> QED BY <1>5, <1>6

-----------------------------------------------------------------------------
(* The actions                                                             *)

\* SLAVEOF commands, executed or lost, leave every instance with a master or none.
LEMMA CommandKeepsType ==
  ASSUME Inv, NEW C \in SUBSET CommandType, Command(C)
  PROVE  slaveof' \in [Instance -> Instance \cup {NULL}]
<1>1. PICK D \in SUBSET C :
        slaveof' = [i \in Instance |-> IF \E c \in D : c.to = i
                                       THEN (CHOOSE c \in D : c.to = i).of ELSE slaveof[i]]
  BY DEF Command
<1>2. ASSUME NEW i \in Instance
      PROVE  slaveof'[i] \in Instance \cup {NULL}
  <2>1. CASE \E c \in D : c.to = i
    <3>1. (CHOOSE c \in D : c.to = i) \in D BY <2>1
    <3>2. (CHOOSE c \in D : c.to = i) \in CommandType BY <3>1
    <3> QED BY <1>1, <2>1, <3>2 DEF CommandType
  <2>2. CASE ~ \E c \in D : c.to = i BY <1>1, <2>2 DEF Inv, Typed
  <2> QED BY <2>1, <2>2
<1> QED BY <1>1, <1>2

\* Messages that are not replies, or tell a vote that was cast, may be added.
LEMMA SendNext ==
  ASSUME Inv, votes \subseteq votes', NEW C, NEW out \in SUBSET (AskType \cup ReplyType),
         Send(C, out), \A m \in out : m.from # m.to,
         \A m \in out : m.type = "reply" => Cast(m.from, m.epoch, m.leader) \in votes'
  PROVE  NetNext
<1>1. net' \subseteq net \cup out BY DEF Send
<1> QED BY <1>1 DEF NetNext, Inv, Typed, RepliesBacked

\* The requests of sentinelAskMasterStateToOtherSentinels are requests to others.
LEMMA AsksType ==
  ASSUME NEW n \in Sentinel, NEW x \in SentinelType
  PROVE  /\ Asks(n, x) \subseteq AskType
         /\ \A m \in Asks(n, x) : m.from # m.to /\ m.type # "reply"
BY DEF Asks, AskType, SentinelType

\* Nothing sent, nobody elected
LEMMA QuietNext ==
  ASSUME Inv, votes \subseteq votes'
  PROVE  /\ net' \subseteq net => NetNext
         /\ elected' = elected => ElectedNext
BY DEF NetNext, ElectedNext, Inv, Typed, RepliesBacked

\* The timer call: a vote, and perhaps an election won with the votes of a majority.
LEMMA TimerInv ==
  ASSUME Constants, Inv, NEW n \in Sentinel, NEW starts \in BOOLEAN, NEW late \in BOOLEAN,
         NEW linked \in SUBSET Instance, NEW old, TimerStep(n, starts, late, linked, old)
  PROVE  Inv'
<1> DEFINE x == IF starts THEN StartFailover(st[n]) ELSE st[n]
<1>1. st[n] \in SentinelType /\ Backed(n, st[n]) BY DEF Inv, Typed
<1>2. SameVote(st[n], x)
  <2>1. CASE starts BY <1>1, <2>1, StartFailoverSameVote
  <2>2. CASE ~ starts BY <1>1, <2>2 DEF SameVote
  <2> QED BY <2>1, <2>2
<1>3. PICK r \in FailoverStateMachine(n, x, late, linked) :
        /\ st' = [st EXCEPT ![n] = Forget(r.x, old)]
        /\ Command(r.cmds)
        /\ Send({}, Asks(n, x) \cup Asks(n, r.x))
        /\ votes' = votes \cup Vote(n, x, r.x)
        /\ elected' = IF r.wins THEN elected \cup {[node |-> n, epoch |-> x.failoverEpoch,
                                                   current |-> x.currentEpoch]}
                      ELSE elected
  BY Zenon DEF TimerStep
<1> HIDE DEF x
<1>4. x \in SentinelType /\ Backed(n, x) BY <1>1, <1>2 DEF SameVote, Backed
<1>5. Outcome(n, x, r) BY <1>3, <1>4, StateMachineOutcome
<1>6. r.x \in SentinelType BY <1>5 DEF Outcome, NoVote, NewVote
<1>7. VoteAdded(n, r.x) /\ BackedNext(n, r.x) BY <1>2, <1>3, <1>5, VotingStep DEF Outcome
<1> DEFINE y == Forget(r.x, old)
<1>8. /\ y \in SentinelType
      /\ y.leader = r.x.leader /\ y.leaderEpoch = r.x.leaderEpoch /\ y.saved = r.x.saved
      /\ \A k \in Sentinel : y.vote[k].leader = NULL \/ y.vote[k] = r.x.vote[k]
  <2> DEFINE heard == [k \in Sentinel |-> IF k \in old THEN NoVotes[k] ELSE r.x.vote[k]]
  <2>1. /\ heard \in [Sentinel -> HeardType]
        /\ \A k \in Sentinel : heard[k].leader = NULL \/ heard[k] = r.x.vote[k]
    BY <1>6 DEF NoVotes, HeardType, SentinelType
  <2>2. y = [r.x EXCEPT !.vote = heard] BY DEF Forget
  <2> HIDE DEF heard, y
  <2>3. y \in SentinelType BY <1>6, <2>1, <2>2 DEF SentinelType
  <2> QED BY <1>6, <2>1, <2>2, <2>3 DEF SentinelType
<1> HIDE DEF y
<1>9. VoteAdded(n, y) /\ BackedNext(n, y) BY <1>7, <1>8 DEF VoteAdded, BackedNext
<1>10. slaveof' \in [Instance -> Instance \cup {NULL}]
  BY <1>3, <1>5, CommandKeepsType DEF Outcome
<1>11. votes \subseteq votes' BY <1>3
<1>12. NetNext
  <2>1. /\ Asks(n, x) \subseteq AskType /\ Asks(n, r.x) \subseteq AskType
        /\ \A m \in Asks(n, x) \cup Asks(n, r.x) : m.from # m.to /\ m.type # "reply"
    BY <1>4, <1>6, AsksType
  <2> DEFINE out == Asks(n, x) \cup Asks(n, r.x)
  <2>2. out \in SUBSET (AskType \cup ReplyType) BY <2>1
  <2>3. \A m \in out : m.from # m.to /\ m.type # "reply" BY <2>1
  <2>4. Send({}, out) BY <1>3
  <2> HIDE DEF out
  <2> QED BY <1>11, <2>2, <2>3, <2>4, SendNext
<1>13. ElectedNext
  <2>1. x.failoverEpoch \in Nat /\ x.currentEpoch \in Nat BY <1>4 DEF SentinelType
  <2>2. elected' \subseteq Election BY <1>3, <2>1 DEF Election, Inv, Typed
  <2>3. ASSUME NEW e \in elected' \ elected, e.current = e.epoch
        PROVE  2 * Cardinality(Voters(votes', e.epoch, e.node)) > Cardinality(Sentinel)
    <3>1. /\ r.wins
          /\ e.epoch = x.failoverEpoch /\ e.node = n /\ x.currentEpoch = x.failoverEpoch
      BY <1>3, <2>3
    <3> QED BY <1>3, <1>5, <3>1 DEF Outcome
  <2> QED BY <2>2, <2>3 DEF ElectedNext
<1>14. st' = [st EXCEPT ![n] = y] BY <1>3 DEF y
<1> QED BY <1>8, <1>9, <1>10, <1>12, <1>13, <1>14, OneSentinelStep, Zenon

\* A step that takes st[n] to y without a vote, and sends and elects nothing.
LEMMA QuietStep ==
  ASSUME Constants, Inv, NEW n \in Sentinel, NEW y, NoVote(st[n], y),
         st' = [st EXCEPT ![n] = y], slaveof' \in [Instance -> Instance \cup {NULL}],
         UNCHANGED <<net, votes, elected>>
  PROVE  Inv'
<1>1. Backed(n, st[n]) /\ st[n] \in SentinelType BY DEF Inv, Typed
<1>2. y \in SentinelType BY DEF NoVote
<1>3. VoteAdded(n, y) BY DEF VoteAdded, NoVote
<1>4. BackedNext(n, y) BY <1>1 DEF BackedNext, Backed, NoVote
<1>5. NetNext /\ ElectedNext BY QuietNext
<1> QED BY <1>2, <1>3, <1>4, <1>5, OneSentinelStep, Zenon

\* The failover of another master raises the current epoch only.
LEMMA OtherFailoverInv ==
  ASSUME Constants, Inv, NEW n \in Sentinel, OtherFailover(n)
  PROVE  Inv'
<1> DEFINE y == [st[n] EXCEPT !.currentEpoch = st[n].currentEpoch + 1]
<1>1. st[n] \in SentinelType BY DEF Inv, Typed
<1>2. st[n].currentEpoch + 1 \in Nat BY <1>1 DEF SentinelType
<1>3. y \in SentinelType BY <1>1, <1>2 DEF SentinelType
<1>4. NoVote(st[n], y) BY <1>1, <1>3 DEF NoVote, SentinelType
<1>5. st' = [st EXCEPT ![n] = y] /\ UNCHANGED <<slaveof, net, votes, elected>>
  BY DEF OtherFailover
<1>6. slaveof' \in [Instance -> Instance \cup {NULL}] BY <1>5 DEF Inv, Typed
<1> HIDE DEF y
<1> QED BY <1>4, <1>5, <1>6, QuietStep, Zenon

\* A request: the vote told in the reply was cast, by then at the latest.
LEMMA ReceiveAskInv ==
  ASSUME Constants, Inv, NEW m \in net, ReceiveAsk(m)
  PROVE  Inv'
<1> DEFINE k == m.to
           y == VoteLeader(k, st[k], m.epoch, m.from)
           reply == [type |-> "reply", from |-> k, to |-> m.from,
                     leader |-> y.leader, epoch |-> y.leaderEpoch]
           out == IF y.leader = NULL THEN {} ELSE {reply}
<1>1. m \in AskType /\ m.from # m.to BY DEF ReceiveAsk, Inv, Typed, ReplyType
<1>2. k \in Sentinel /\ m.from \in Sentinel /\ m.epoch \in Nat BY <1>1 DEF AskType
<1>3. st[k] \in SentinelType BY <1>2 DEF Inv, Typed
<1>4. slaveof' \in [Instance -> Instance \cup {NULL}] /\ elected' = elected
  BY DEF ReceiveAsk, Inv, Typed
<1>5. CASE st[k].addr = m.addr
  <2>1. /\ st' = [st EXCEPT ![k] = y] /\ votes' = votes \cup Vote(k, st[k], y)
        /\ Send({m}, out)
    BY <1>5 DEF ReceiveAsk
  <2>2. SameVote(st[k], st[k]) BY <1>3 DEF SameVote
  <2>3. SameVote(st[k], y) \/ NewVote(st[k], y) BY <1>2, <1>3, VoteLeaderVotes
  <2>4. NoVote(st[k], y) \/ NewVote(st[k], y) BY <2>3, SameVoteNoVote
  <2> HIDE DEF y
  <2>5. y \in SentinelType BY <2>4 DEF NoVote, NewVote
  <2>6. VoteAdded(k, y) /\ BackedNext(k, y)
    <3> HIDE DEF k
    <3> QED BY <1>2, <2>1, <2>2, <2>4, VotingStep
  <2>7. votes \subseteq votes' BY <2>1
  <2>8. NetNext
    <3>1. y.leader # NULL => reply \in ReplyType
      BY <1>2, <2>5 DEF ReplyType, SentinelType
    <3>2. /\ out \in SUBSET (AskType \cup ReplyType)
          /\ \A o \in out : o.from # o.to
          /\ \A o \in out : o.type = "reply" => Cast(o.from, o.epoch, o.leader) \in votes'
      BY <1>1, <2>6, <3>1 DEF BackedNext
    <3> HIDE DEF out
    <3> QED BY <2>1, <2>7, <3>2, SendNext
  <2>9. ElectedNext BY <1>4, <2>7, QuietNext
  <2> HIDE DEF k
  <2> QED BY <1>2, <1>4, <2>1, <2>5, <2>6, <2>8, <2>9, OneSentinelStep, Zenon
<1>6. CASE st[k].addr # m.addr
  <2>1. Send({m}, {}) /\ UNCHANGED <<st, votes>> BY <1>6 DEF ReceiveAsk
  <2>2. st' = [st EXCEPT ![k] = st[k]] BY <2>1, <1>2 DEF Inv, Typed
  <2>3. net' \subseteq net BY <2>1 DEF Send
  <2>4. NetNext /\ ElectedNext BY <1>4, <2>1, <2>3, QuietNext
  <2>5. VoteAdded(k, st[k]) /\ BackedNext(k, st[k])
    BY <1>2, <2>1 DEF VoteAdded, BackedNext, Inv, Backed
  <2> HIDE DEF k
  <2> QED BY <1>2, <1>3, <1>4, <2>2, <2>4, <2>5, OneSentinelStep, Zenon
<1> QED BY <1>5, <1>6

\* A reply: what it tells was cast.
LEMMA ReceiveReplyInv ==
  ASSUME Constants, Inv, NEW m \in net, ReceiveReply(m)
  PROVE  Inv'
<1> DEFINE n == m.to
           told == [leader |-> m.leader, epoch |-> m.epoch]
           y == [st[n] EXCEPT !.vote[m.from] = told]
<1>1. m \in ReplyType /\ m.from # m.to BY DEF ReceiveReply, Inv, Typed, AskType
<1>2. n \in Sentinel /\ m.from \in Sentinel /\ told \in HeardType
  BY <1>1 DEF ReplyType, HeardType
<1>3. st[n] \in SentinelType /\ Backed(n, st[n]) BY <1>2 DEF Inv, Typed
<1>4. Cast(m.from, m.epoch, m.leader) \in votes BY DEF ReceiveReply, Inv, RepliesBacked
<1>5. /\ st' = [st EXCEPT ![n] = y] /\ net' \subseteq net
      /\ UNCHANGED <<slaveof, votes, elected>>
  BY DEF ReceiveReply, Send
<1>6. [st[n].vote EXCEPT ![m.from] = told] \in [Sentinel -> HeardType]
  BY <1>2, <1>3 DEF SentinelType
<1>7. y \in SentinelType BY <1>3, <1>6 DEF SentinelType
<1>8. /\ y.leader = st[n].leader /\ y.leaderEpoch = st[n].leaderEpoch
      /\ y.saved = st[n].saved
      /\ \A k \in Sentinel : y.vote[k] = IF k = m.from THEN told ELSE st[n].vote[k]
  BY <1>2, <1>3 DEF SentinelType
<1>9. slaveof' \in [Instance -> Instance \cup {NULL}] BY <1>5 DEF Inv, Typed
<1> HIDE DEF y
<1>10. VoteAdded(n, y) BY <1>5, <1>8 DEF VoteAdded
<1>11. BackedNext(n, y)
  <2>1. ASSUME NEW k \in Sentinel, y.vote[k].leader # NULL
        PROVE  k # n /\ Cast(k, y.vote[k].epoch, y.vote[k].leader) \in votes
    <3>1. CASE k = m.from
      <4>1. y.vote[k] = told BY <1>8, <3>1
      <4>2. k # n /\ y.vote[k].epoch = m.epoch /\ y.vote[k].leader = m.leader
        BY <1>1, <3>1, <4>1
      <4> HIDE DEF n, told
      <4> QED BY <1>4, <3>1, <4>2, Zenon
    <3>2. CASE k # m.from
      <4>1. y.vote[k] = st[n].vote[k] BY <1>8, <3>2
      <4> HIDE DEF n
      <4> QED BY <1>3, <2>1, <4>1, Zenon DEF Backed
    <3> QED BY <3>1, <3>2
  <2> HIDE DEF n
  <2> QED BY <1>3, <1>5, <1>8, <2>1 DEF BackedNext, Backed
<1>12. NetNext /\ ElectedNext BY <1>5, QuietNext
<1> HIDE DEF n
<1> QED BY <1>2, <1>5, <1>7, <1>9, <1>10, <1>11, <1>12, OneSentinelStep, Zenon

\* An INFO reply does not touch the vote.
LEMMA InfoInv ==
  ASSUME Constants, Inv, NEW n \in Sentinel, NEW i \in Instance, Info(n, i)
  PROVE  Inv'
<1>1. st[n] \in SentinelType BY DEF Inv, Typed
<1> DEFINE x == st[n]
           z == [x EXCEPT !.configEpoch = x.failoverEpoch, !.state = "reconf_slaves"]
<1>2. PICK f \in Reconf, C \in SUBSET {SlaveOf(i, x.addr)} :
        \E y \in {Flush(z), [x EXCEPT !.reconf[i] = f]} :
          st' = [st EXCEPT ![n] = y] /\ Command(C) /\ UNCHANGED <<net, votes, elected>>
  <2> DEFINE promoted == slaveof[i] = NULL /\ i = x.promoted /\ x.state = "wait_promotion"
             wrong == IF slaveof[i] = NULL THEN i # x.promoted ELSE slaveof[i] # x.addr
  <2>1. PICK up \in BOOLEAN :
          /\ st' = [st EXCEPT ![n] =
                      IF promoted THEN Flush(z)
                      ELSE [x EXCEPT !.reconf[i] = IF ~ ReconfInProg(x, i) THEN @
                                                   ELSE IF up THEN "done" ELSE "inprog"]]
          /\ Command(IF wrong THEN {SlaveOf(i, x.addr)} ELSE {})
          /\ UNCHANGED <<net, votes, elected>>
    BY Zenon DEF Info
  <2> DEFINE f == IF ~ ReconfInProg(x, i) THEN x.reconf[i]
                  ELSE IF up THEN "done" ELSE "inprog"
             y == IF promoted THEN Flush(z) ELSE [x EXCEPT !.reconf[i] = f]
             C == IF wrong THEN {SlaveOf(i, x.addr)} ELSE {}
  <2>2. f \in Reconf BY <1>1 DEF SentinelType, Reconf
  <2>3. C \in SUBSET {SlaveOf(i, x.addr)} OBVIOUS
  <2>4. st' = [st EXCEPT ![n] = y] /\ Command(C) /\ UNCHANGED <<net, votes, elected>>
    BY <2>1
  <2>5. y \in {Flush(z), [x EXCEPT !.reconf[i] = f]} OBVIOUS
  <2> HIDE DEF f, y, C
  <2> QED BY <2>2, <2>3, <2>4, <2>5, Zenon
<1>3. PICK y \in {Flush(z), [x EXCEPT !.reconf[i] = f]} :
        st' = [st EXCEPT ![n] = y] /\ Command(C) /\ UNCHANGED <<net, votes, elected>>
  BY <1>2, Zenon
<1>4. NoVote(x, y)
  <2>1. CASE y = Flush(z)
    <3>1. z \in SentinelType BY <1>1, Zenon DEF SentinelType, State
    <3>2. SameVote(x, z) BY <1>1, <3>1 DEF SameVote, SentinelType
    <3> HIDE DEF z
    <3>3. SameVote(z, Flush(z)) BY <3>1, FlushType
    <3> QED BY <2>1, <3>2, <3>3 DEF SameVote, NoVote
  <2>2. CASE y = [x EXCEPT !.reconf[i] = f]
    <3>1. [x.reconf EXCEPT ![i] = f] \in [Instance -> Reconf] BY <1>1 DEF SentinelType
    <3>2. y \in SentinelType BY <1>1, <2>2, <3>1 DEF SentinelType
    <3> QED BY <1>1, <2>2, <3>2 DEF NoVote, SentinelType
  <2> QED BY <1>3, <2>1, <2>2
<1>5. C \in SUBSET CommandType BY <1>1, <1>2 DEF SlaveOf, CommandType, SentinelType
<1>6. slaveof' \in [Instance -> Instance \cup {NULL}] BY <1>3, <1>5, CommandKeepsType
<1> QED BY <1>3, <1>4, <1>6, QuietStep, Zenon

\* A hello message may make the sentinel forget its vote, not its epoch.
LEMMA HelloInv ==
  ASSUME Constants, Inv, NEW n \in Sentinel, NEW k \in Sentinel, Hello(n, k)
  PROVE  Inv'
<1> DEFINE x == st[k]
           a == CurrentMaster(st[n])
           w == [x EXCEPT !.currentEpoch = st[n].currentEpoch]
           y == IF st[n].currentEpoch > x.currentEpoch THEN Flush(w) ELSE x
           z == [y EXCEPT !.configEpoch = st[n].configEpoch]
<1>1. x \in SentinelType /\ st[n] \in SentinelType BY DEF Inv, Typed
<1>2. a \in Instance BY <1>1 DEF CurrentMaster, SentinelType
<1>3. SameVote(x, y)
  <2>1. w \in SentinelType BY <1>1 DEF SentinelType
  <2>2. SameVote(x, w) BY <1>1, <2>1 DEF SameVote, SentinelType
  <2> HIDE DEF w
  <2>3. SameVote(w, Flush(w)) BY <2>1, FlushType
  <2>4. SameVote(x, Flush(w)) /\ SameVote(x, x) BY <1>1, <2>2, <2>3 DEF SameVote
  <2> QED BY <2>4
<1>4. /\ st' = [st EXCEPT ![k] = IF x.configEpoch >= st[n].configEpoch THEN y
                                 ELSE IF a = x.addr THEN z
                                 ELSE ResetMasterAndChangeAddress(z, a)]
      /\ UNCHANGED <<slaveof, net, votes, elected>>
  BY DEF Hello
<1> HIDE DEF y, a
<1>5. SameVote(x, z)
  <2>1. y \in SentinelType BY <1>3 DEF SameVote
  <2>2. z \in SentinelType BY <1>1, <2>1 DEF SentinelType
  <2>3. SameVote(y, z) BY <2>1, <2>2 DEF SameVote, SentinelType
  <2> HIDE DEF z
  <2> QED BY <1>3, <2>3 DEF SameVote
<1> HIDE DEF z
<1>6. NoVote(z, ResetMasterAndChangeAddress(z, a))
  BY <1>2, <1>5, ResetMasterNoVote DEF SameVote
<1>7. PICK u : NoVote(x, u) /\ st' = [st EXCEPT ![k] = u]
  <2>1. NoVote(x, y) /\ NoVote(x, z) /\ NoVote(x, ResetMasterAndChangeAddress(z, a))
    BY <1>3, <1>5, <1>6 DEF SameVote, NoVote
  <2> QED BY <1>4, <2>1, Zenon
<1>8. slaveof' \in [Instance -> Instance \cup {NULL}] BY <1>4, Zenon DEF Inv, Typed
<1> QED BY <1>4, <1>7, <1>8, QuietStep, Zenon

\* A sentinel that starts from a well-typed file is well typed.
LEMMA InitSentinelType ==
  ASSUME NEW f \in SavedType
  PROVE  InitSentinel(f) \in SentinelType
<1>1. NoReconf \in [Instance -> Reconf] BY DEF NoReconf, Reconf
<1>2. NoVotes \in [Sentinel -> HeardType] BY DEF NoVotes, HeardType
<1> QED BY <1>1, <1>2 DEF InitSentinel, SentinelType, SavedType, State

\* A restart: the vote is in the file, and so is not cast again.
LEMMA RestartInv ==
  ASSUME Constants, Inv, NEW n \in Sentinel, Restart(n)
  PROVE  Inv'
<1> DEFINE y == InitSentinel(st[n].saved)
<1>1. st[n] \in SentinelType /\ Backed(n, st[n]) BY DEF Inv, Typed
<1>2. y \in SentinelType BY <1>1, InitSentinelType DEF SentinelType
<1>3. /\ st' = [st EXCEPT ![n] = y] /\ net' \subseteq net
      /\ UNCHANGED <<slaveof, votes, elected>>
  BY DEF Restart
<1>4. /\ y.leader = NULL /\ y.leaderEpoch = st[n].saved.leaderEpoch
      /\ y.saved = st[n].saved /\ \A k \in Sentinel : y.vote[k].leader = NULL
  BY DEF InitSentinel, NoVotes
<1> HIDE DEF y
<1>5. VoteAdded(n, y) /\ BackedNext(n, y)
  BY <1>1, <1>3, <1>4, Zenon DEF VoteAdded, BackedNext, Backed
<1>6. NetNext /\ ElectedNext BY <1>3, QuietNext
<1>7. slaveof' \in [Instance -> Instance \cup {NULL}] BY <1>3, Zenon DEF Inv, Typed
<1> QED BY <1>2, <1>3, <1>5, <1>6, <1>7, OneSentinelStep, Zenon

-----------------------------------------------------------------------------
(* The theorems                                                            *)

\* The invariant holds at the start.
LEMMA InitInv ==
  ASSUME Constants, Init
  PROVE  Inv
<1> DEFINE f == [addr |-> FirstMaster, configEpoch |-> 0, leaderEpoch |-> 0, currentEpoch |-> 0]
<1>1. f \in SavedType BY DEF Constants, SavedType
<1>2. st = [n \in Sentinel |-> InitSentinel(f)] /\ votes = {} /\ net = {} /\ elected = {}
  BY DEF Init
<1>3. f.leaderEpoch = 0 OBVIOUS
<1> HIDE DEF f
<1>4. Typed
  <2>1. slaveof \in [Instance -> Instance \cup {NULL}] BY DEF Init, Constants
  <2>2. InitSentinel(f) \in SentinelType BY <1>1, InitSentinelType
  <2> QED BY <1>2, <2>1, <2>2 DEF Typed
<1>5. ASSUME NEW n \in Sentinel
      PROVE  Backed(n, st[n])
  <2>1. st[n] = InitSentinel(f) BY <1>2
  <2>2. /\ st[n].leader = NULL /\ st[n].leaderEpoch = st[n].saved.leaderEpoch
        /\ \A k \in Sentinel : st[n].vote[k].leader = NULL
    BY <2>1 DEF InitSentinel, NoVotes
  <2> QED BY <1>2, <2>2 DEF Backed
<1> QED BY <1>2, <1>4, <1>5
     DEF Inv, RepliesBacked, OneVotePerEpoch, ElectedByMajorityOfItsEpoch

\* Every step keeps the invariant, one case per action.
LEMMA NextInv ==
  ASSUME Constants, Inv, [Next]_vars
  PROVE  Inv'
<1>1. ASSUME NEW n \in Sentinel, Timer(n)
      PROVE  Inv'
  <2>1. st[n] \in SentinelType BY DEF Inv, Typed
  <2>2. PICK starts \in BOOLEAN, late \in BOOLEAN, linked \in SUBSET Instance,
            old \in SUBSET Sentinel :
          TimerStep(n, starts, late, linked, old)
    BY <1>1, Zenon DEF Timer, Slaves
  <2> QED BY <2>2, TimerInv
<1>2. ASSUME NEW n \in MayFailOther, OtherFailover(n)
      PROVE  Inv'
  BY <1>2, OtherFailoverInv DEF Constants
<1>3. ASSUME NEW m \in net, ReceiveAsk(m) \/ ReceiveReply(m)
      PROVE  Inv'
  BY <1>3, ReceiveAskInv, ReceiveReplyInv
<1>4. ASSUME NEW n \in Sentinel, NEW i \in Instance, Info(n, i)
      PROVE  Inv'
  BY <1>4, InfoInv
<1>5. ASSUME NEW n \in Sentinel, NEW k \in Sentinel, Hello(n, k)
      PROVE  Inv'
  BY <1>5, HelloInv
<1>6. ASSUME NEW n \in MayRestart, Restart(n)
      PROVE  Inv'
  BY <1>6, RestartInv DEF Constants
<1>7. CASE UNCHANGED vars
  BY <1>7, Zenon DEF vars, Inv, Typed, Backed, RepliesBacked, OneVotePerEpoch,
              ElectedByMajorityOfItsEpoch, ByMajority
<1> QED BY <1>1, <1>2, <1>3, <1>4, <1>5, <1>6, <1>7 DEF Next

\* The invariant holds always.
LEMMA SpecInv == Spec => []Inv
<1>1. Constants BY ConstantsHold
<1>2. Init => Inv BY <1>1, InitInv
<1>3. Inv /\ [Next]_vars => Inv' BY <1>1, NextInv
<1> QED BY <1>2, <1>3, PTL DEF Spec

\* The type invariant holds of every system of sentinels.
THEOREM TypeCorrect == Spec => []TypeOK
<1>1. Inv => TypeOK
  <2> SUFFICES ASSUME Inv PROVE TypeOK OBVIOUS
  <2>1. DOMAIN st = Sentinel /\ \A n \in Sentinel : st[n] \in SentinelType
    BY Zenon DEF Inv, Typed
  <2>2. \A m \in net : m.type \in {"ask", "reply"} /\ {m.from, m.to} \subseteq Sentinel
    BY DEF Inv, Typed, AskType, ReplyType
  <2>3. \A v \in votes : {v.voter, v.for} \subseteq Sentinel BY DEF Inv, Typed, Ballot
  <2>4. slaveof \in [Instance -> Instance \cup {NULL}] BY DEF Inv, Typed
  <2>5. ASSUME NEW n \in Sentinel
        PROVE  /\ st[n].state \in State /\ st[n].reconf \in [Instance -> Reconf]
               /\ st[n].addr \in Instance /\ st[n].promoted \in Instance \cup {NULL}
               /\ st[n].leader \in Sentinel \cup {NULL}
               /\ {st[n].currentEpoch, st[n].configEpoch, st[n].leaderEpoch,
                   st[n].failoverEpoch} \subseteq Nat
    BY <2>1 DEF SentinelType
  <2> QED BY <2>1, <2>2, <2>3, <2>4, <2>5 DEF TypeOK
<1> QED BY <1>1, SpecInv, PTL

\* sentinelVoteLeader gives one vote in an epoch, however often the sentinel restarts: the
\* epoch of the last vote is in the configuration file before the vote leaves the process.
THEOREM VotesOnce == Spec => []OneVotePerEpoch
<1>1. Inv => OneVotePerEpoch BY DEF Inv
<1> QED BY <1>1, SpecInv, PTL

\* sentinelGetLeader finds a leader only with the votes of a majority of all sentinels, as
\* long as no newer epoch has overtaken the election.
THEOREM ElectedFairly == Spec => []ElectedByMajorityOfItsEpoch
<1>1. Inv => ElectedByMajorityOfItsEpoch BY DEF Inv
<1> QED BY <1>1, SpecInv, PTL

\* Two sentinels do not both lead the failover of an epoch, unless a newer epoch has
\* overtaken the election of one of them.
THEOREM LeadersAgree == Spec => []OneLeaderPerEpoch
<1>1. Inv => OneLeaderPerEpoch
  <2> SUFFICES ASSUME Inv, NEW e \in elected, NEW f \in elected,
                      e.epoch = f.epoch, e.current = e.epoch, f.current = f.epoch
               PROVE  e.node = f.node
    BY DEF OneLeaderPerEpoch
  <2> DEFINE A == Voters(votes, e.epoch, e.node)
             B == Voters(votes, f.epoch, f.node)
  <2>1. IsFiniteSet(Sentinel) BY ConstantsHold DEF Constants
  <2>2. A \in SUBSET Sentinel /\ B \in SUBSET Sentinel BY DEF Voters
  <2>3. 2 * Cardinality(A) > Cardinality(Sentinel) /\ 2 * Cardinality(B) > Cardinality(Sentinel)
    BY ByMajorityVoters DEF Inv, ElectedByMajorityOfItsEpoch
  <2>4. A \cap B # {}
    <3> HIDE DEF A, B
    <3>1. IsFiniteSet(A) /\ IsFiniteSet(B) BY <2>1, <2>2, FS_Subset
    <3>2. /\ Cardinality(A) \in Nat /\ Cardinality(B) \in Nat
          /\ Cardinality(Sentinel) \in Nat
      BY <2>1, <3>1, FS_CardinalityType
    <3>3. Cardinality(A) + Cardinality(B) > Cardinality(Sentinel) BY <2>3, <3>2
    <3> QED BY <2>1, <2>2, <3>3, FS_MajoritiesIntersect
  <2>5. PICK v \in Sentinel : Cast(v, e.epoch, e.node) \in votes
                             /\ Cast(v, f.epoch, f.node) \in votes
    BY <2>4 DEF Voters
  <2> QED BY <2>5 DEF Inv, OneVotePerEpoch, Cast
<1> QED BY <1>1, SpecInv, PTL

-----------------------------------------------------------------------------
(* The promoted slave                                                      *)

\* What PromotedIsSet says of one sentinel, and why it stays so: a slave is being
\* reconfigured only in the state "reconf_slaves", which no failover leaves but by the
\* reset of the master.
Flagged(x) ==
  /\ x.state \in {"send_slaveof_noone", "wait_promotion", "reconf_slaves"} => x.promoted # NULL
  /\ x.state # "reconf_slaves" => \A i \in Instance : x.reconf[i] \notin {"sent", "inprog"}

\* The failover stands where it stood.
SameProgress(x, y) == y.state = x.state /\ y.promoted = x.promoted /\ y.reconf = x.reconf

\* Flagged looks at nothing else.
LEMMA SameProgressFlagged ==
  ASSUME NEW x, NEW y, Flagged(x), SameProgress(x, y)
  PROVE  Flagged(y)
BY DEF Flagged, SameProgress

\* sentinelFlushConfig does not move the failover.
LEMMA FlushProgress ==
  ASSUME NEW x \in SentinelType
  PROVE  SameProgress(x, Flush(x))
BY DEF Flush, SameProgress, SentinelType

\* A vote does not move the failover.
LEMMA VoteLeaderProgress ==
  ASSUME NEW n \in Sentinel, NEW x \in SentinelType, NEW epoch \in Nat, NEW runid \in Sentinel
  PROVE  SameProgress(x, VoteLeader(n, x, epoch, runid))
<1> DEFINE w == [x EXCEPT !.currentEpoch = epoch]
           y == IF epoch > x.currentEpoch THEN Flush(w) ELSE x
           z == [y EXCEPT !.leader = runid, !.leaderEpoch = y.currentEpoch]
<1>1. w \in SentinelType /\ SameProgress(x, w) BY DEF SentinelType, SameProgress
<1>2. Flush(w) \in SentinelType /\ SameProgress(w, Flush(w))
  <2> HIDE DEF w
  <2> QED BY <1>1, FlushType, FlushProgress DEF SameVote
<1>3. y \in SentinelType /\ SameProgress(x, y) BY <1>1, <1>2 DEF SameProgress
<1>4. VoteLeader(n, x, epoch, runid) = IF Votes(y, epoch) THEN Hold(n, Flush(z), runid) ELSE y
  BY DEF VoteLeader
<1> HIDE DEF y
<1>5. z \in SentinelType /\ SameProgress(y, z) BY <1>3, Zenon DEF SentinelType, SameProgress
<1> HIDE DEF z
<1>6. Flush(z) \in SentinelType /\ SameProgress(z, Flush(z))
  BY <1>5, FlushType, FlushProgress DEF SameVote
<1>7. SameProgress(Flush(z), Hold(n, Flush(z), runid))
  BY <1>6 DEF Hold, SentinelType, SameProgress
<1> QED BY <1>3, <1>4, <1>5, <1>6, <1>7 DEF SameProgress

\* The reset of the master clears the flags of the slaves with the state.
LEMMA ResetMasterFlagged ==
  ASSUME NEW x \in SentinelType, NEW addr \in Instance
  PROVE  Flagged(ResetMasterAndChangeAddress(x, addr))
<1> DEFINE y == [x EXCEPT !.addr = addr, !.leader = NULL, !.state = "none",
                          !.held = FALSE, !.promoted = NULL, !.reconf = NoReconf]
<1>1. NoReconf \in [Instance -> Reconf] /\ \A i \in Instance : NoReconf[i] = "no"
  BY DEF NoReconf, Reconf
<1>2. y \in SentinelType BY <1>1, Zenon DEF SentinelType, State
<1>3. Flagged(y) BY <1>1 DEF Flagged, SentinelType
<1>4. ResetMasterAndChangeAddress(x, addr) = Flush(y) BY DEF ResetMasterAndChangeAddress
<1> HIDE DEF y
<1> QED BY <1>2, <1>3, <1>4, FlushProgress, SameProgressFlagged

\* A failover is aborted only before the slaves are reconfigured.
LEMMA AbortFailoverFlagged ==
  ASSUME NEW x \in SentinelType, Flagged(x), x.state # "reconf_slaves"
  PROVE  Flagged(AbortFailover(x))
BY DEF Flagged, AbortFailover, SentinelType


\* sentinelFailoverDetectEnd goes on, or ends with the reset.
LEMMA DetectEndFlagged ==
  ASSUME Constants, NEW x \in SentinelType, Flagged(x), x.state = "reconf_slaves",
         NEW cmds, NEW late, NEW linked
  PROVE  Flagged(FailoverDetectEnd(x, cmds, late, linked).x)
<1>1. x.promoted \in Instance BY DEF Flagged, SentinelType
<1>2. Flagged(ResetMasterAndChangeAddress(x, x.promoted)) BY <1>1, ResetMasterFlagged
<1> QED BY <1>2 DEF FailoverDetectEnd, Idle

\* One call of the state machine.
LEMMA StateMachineFlagged ==
  ASSUME Constants, NEW n \in Sentinel, NEW x \in SentinelType, Flagged(x),
         NEW late \in BOOLEAN, NEW linked,
         NEW r \in FailoverStateMachine(n, x, late, linked)
  PROVE  Flagged(r.x)
<1>1. CASE x.state = "none"
  BY <1>1 DEF FailoverStateMachine, Idle
<1>2. CASE x.state = "wait_start"
  <2>1. r \in FailoverWaitStart(n, x, late) BY <1>2 DEF FailoverStateMachine
  <2>2. PICK q \in GetLeader(n, x) :
          r = IF q.leader = n
              THEN [Idle([q.x EXCEPT !.state = "select_slave"]) EXCEPT !.wins = TRUE]
              ELSE IF late THEN Idle(AbortFailover(q.x)) ELSE Idle(q.x)
    BY <2>1, Zenon DEF FailoverWaitStart
  <2>3. PICK c \in Sentinel : q.x = VoteLeader(n, x, x.failoverEpoch, c)
    BY <2>2 DEF GetLeader, LeaderAmong, Favourites
  <2>4. x.failoverEpoch \in Nat BY DEF SentinelType
  <2> DEFINE v == VoteLeader(n, x, x.failoverEpoch, c)
  <2>5. q.x \in SentinelType
    <3>1. SameVote(x, v) \/ NewVote(x, v) BY <2>4, VoteLeaderVotes
    <3> HIDE DEF v
    <3>2. v \in SentinelType BY <3>1, Zenon DEF SameVote, NewVote
    <3> QED BY <2>3, <3>2, Zenon DEF v
  <2>6. Flagged(q.x) /\ q.x.state = "wait_start"
    <3>1. SameProgress(x, v) BY <2>4, VoteLeaderProgress
    <3> HIDE DEF v
    <3>2. Flagged(v) BY <3>1, SameProgressFlagged
    <3>3. v.state = "wait_start" BY <1>2, <3>1, Zenon DEF SameProgress
    <3> QED BY <2>3, <3>2, <3>3, Zenon DEF v
  <2>7. Flagged(AbortFailover(q.x)) BY <2>5, <2>6, AbortFailoverFlagged, Zenon
  <2>8. Flagged([q.x EXCEPT !.state = "select_slave"])
    BY <2>5, <2>6 DEF Flagged, SentinelType
  <2> QED BY <2>2, <2>6, <2>7, <2>8 DEF Idle
<1>3. CASE x.state = "select_slave"
  <2>1. r \in FailoverSelectSlave(x) BY <1>3 DEF FailoverStateMachine
  <2>2. Flagged(AbortFailover(x)) BY <1>3, AbortFailoverFlagged
  <2>3. ASSUME NEW i \in Slaves(x)
        PROVE  Flagged([x EXCEPT !.promoted = i, !.state = "send_slaveof_noone"])
    BY <1>3, SentinelAssumption DEF Flagged, SentinelType, Slaves
  <2>4. CASE r = Idle(AbortFailover(x)) BY <2>2, <2>4 DEF Idle
  <2>5. ASSUME NEW i \in Slaves(x),
               r = Idle([x EXCEPT !.promoted = i, !.state = "send_slaveof_noone"])
        PROVE  Flagged(r.x)
    <3>1. r.x = [x EXCEPT !.promoted = i, !.state = "send_slaveof_noone"] BY <2>5 DEF Idle
    <3> QED BY <2>3, <3>1, Zenon
  <2> QED BY <2>1, <2>4, <2>5, Zenon DEF FailoverSelectSlave
<1>4. CASE x.state = "send_slaveof_noone"
  <2>1. r \in FailoverSendSlaveOfNoOne(x, late, linked) BY <1>4 DEF FailoverStateMachine
  <2>2. Flagged(AbortFailover(x)) BY <1>4, AbortFailoverFlagged
  <2>3. Flagged([x EXCEPT !.state = "wait_promotion"]) BY <1>4 DEF Flagged, SentinelType
  <2> QED BY <2>1, <2>2, <2>3 DEF FailoverSendSlaveOfNoOne, Idle
<1>5. CASE x.state = "wait_promotion"
  <2>1. r \in FailoverWaitPromotion(x, late) BY <1>5 DEF FailoverStateMachine
  <2>2. Flagged(AbortFailover(x)) BY <1>5, AbortFailoverFlagged
  <2> QED BY <2>1, <2>2 DEF FailoverWaitPromotion, Idle
<1>6. CASE x.state = "reconf_slaves"
  <2>1. r \in FailoverReconfSlaves(x, late, linked) BY <1>6 DEF FailoverStateMachine
  <2>2. PICK y \in SentinelType, cmds \in {{}} \cup {{SlaveOf(i, x.promoted)} : i \in Instance} :
          /\ r = FailoverDetectEnd(y, cmds, late, linked)
          /\ y.state = "reconf_slaves" /\ y.promoted = x.promoted
    <3>1. CASE r = FailoverDetectEnd(x, {}, late, linked) BY <1>6, <3>1
    <3>2. ASSUME NEW i \in Instance,
                 r = FailoverDetectEnd([x EXCEPT !.reconf[i] = "sent"], {SlaveOf(i, x.promoted)},
                                       late, linked)
          PROVE  \E y \in SentinelType, cmds \in {{}} \cup {{SlaveOf(j, x.promoted)} : j \in Instance} :
                   /\ r = FailoverDetectEnd(y, cmds, late, linked)
                   /\ y.state = "reconf_slaves" /\ y.promoted = x.promoted
      <4> DEFINE y == [x EXCEPT !.reconf[i] = "sent"]
      <4>1. y \in SentinelType /\ y.state = "reconf_slaves" /\ y.promoted = x.promoted
        BY <1>6 DEF SentinelType, Reconf
      <4> QED BY <3>2, <4>1, Zenon
    <3> QED BY <2>1, <3>1, <3>2, Zenon DEF FailoverReconfSlaves, Slaves
  <2>3. Flagged(y) BY <1>6, <2>2 DEF Flagged
  <2> QED BY <2>2, <2>3, DetectEndFlagged
<1> QED BY <1>1, <1>2, <1>3, <1>4, <1>5, <1>6 DEF SentinelType, State


\* Where every sentinel stands
AllFlagged == \A n \in Sentinel : Flagged(st[n])

\* A step that changes one sentinel.
LEMMA OneFlagged ==
  ASSUME AllFlagged, NEW n \in Sentinel, NEW y, Flagged(y),
         st \in [Sentinel -> SentinelType], st' = [st EXCEPT ![n] = y]
  PROVE  AllFlagged'
<1> SUFFICES ASSUME NEW k \in Sentinel PROVE Flagged(st'[k])
  BY DEF AllFlagged
<1>1. st'[k] = IF k = n THEN y ELSE st[k] OBVIOUS
<1> QED BY <1>1 DEF AllFlagged

\* The timer.
LEMMA TimerFlagged ==
  ASSUME Constants, Inv, AllFlagged, NEW n \in Sentinel, NEW starts \in BOOLEAN,
         NEW late \in BOOLEAN, NEW linked \in SUBSET Instance, NEW old,
         TimerStep(n, starts, late, linked, old)
  PROVE  AllFlagged'
<1> DEFINE x == IF starts THEN StartFailover(st[n]) ELSE st[n]
<1>1. st \in [Sentinel -> SentinelType] /\ st[n] \in SentinelType /\ Flagged(st[n]) /\ Backed(n, st[n])
  BY DEF Inv, Typed, AllFlagged
<1>2. SameVote(st[n], x) /\ Flagged(x)
  <2>1. CASE starts
    <3>1. st[n].state = "none" BY <2>1, Zenon DEF TimerStep
    <3>2. Flagged(StartFailover(st[n])) BY <1>1, <3>1 DEF StartFailover, Flagged, SentinelType
    <3> QED BY <1>1, <2>1, <3>2, StartFailoverSameVote
  <2>2. CASE ~ starts BY <1>1, <2>2, Zenon DEF SameVote
  <2> QED BY <2>1, <2>2
<1>3. PICK r \in FailoverStateMachine(n, x, late, linked) :
        st' = [st EXCEPT ![n] = Forget(r.x, old)]
  BY ZenonT(30) DEF TimerStep
<1> HIDE DEF x
<1>4. x \in SentinelType /\ Backed(n, x) BY <1>1, <1>2, ZenonT(30) DEF SameVote, Backed
<1>5. r.x \in SentinelType
  BY <1>3, <1>4, StateMachineOutcome, Zenon DEF Outcome, NoVote, NewVote
<1>6. Flagged(r.x) BY <1>2, <1>3, <1>4, StateMachineFlagged
<1>7. SameProgress(r.x, Forget(r.x, old)) BY <1>5 DEF Forget, SameProgress, SentinelType
<1>8. Flagged(Forget(r.x, old)) BY <1>6, <1>7, SameProgressFlagged
<1> QED BY <1>1, <1>3, <1>8, OneFlagged, ZenonT(30)

\* An INFO reply: the promotion moves the failover on, a slave is reconfigured.
LEMMA InfoFlagged ==
  ASSUME Inv, AllFlagged, NEW n \in Sentinel, NEW i \in Instance, Info(n, i)
  PROVE  AllFlagged'
<1> DEFINE x == st[n]
           w == [x EXCEPT !.configEpoch = x.failoverEpoch, !.state = "reconf_slaves"]
<1>1. st \in [Sentinel -> SentinelType] /\ x \in SentinelType /\ Flagged(x)
  BY DEF Inv, Typed, AllFlagged
<1>2. PICK up \in BOOLEAN :
        LET moved == [x EXCEPT !.reconf[i] = IF ~ ReconfInProg(x, i) THEN @
                                             ELSE IF up THEN "done" ELSE "inprog"]
        IN st' = [st EXCEPT ![n] = IF /\ slaveof[i] = NULL /\ i = x.promoted
                                      /\ x.state = "wait_promotion"
                                   THEN Flush(w) ELSE moved]
  BY Zenon DEF Info
<1> DEFINE f == IF ~ ReconfInProg(x, i) THEN x.reconf[i]
                ELSE IF up THEN "done" ELSE "inprog"
           moved == [x EXCEPT !.reconf[i] = f]
<1>3. Flagged(moved)
  <2>1. f \in {"sent", "inprog"} => x.reconf[i] \in {"sent", "inprog"} BY DEF ReconfInProg
  <2> HIDE DEF f
  <2> QED BY <1>1, <2>1 DEF Flagged, SentinelType
<1>4. CASE slaveof[i] = NULL /\ i = x.promoted /\ x.state = "wait_promotion"
  <2>1. w \in SentinelType BY <1>1, Zenon DEF SentinelType, State
  <2>2. Flagged(w) BY <1>1, <1>4 DEF Flagged, SentinelType
  <2>3. st' = [st EXCEPT ![n] = Flush(w)] BY <1>2, <1>4
  <2> HIDE DEF w
  <2>4. Flagged(Flush(w)) BY <2>1, <2>2, FlushProgress, SameProgressFlagged
  <2> QED BY <1>1, <2>3, <2>4, OneFlagged, Zenon
<1>5. CASE ~ (slaveof[i] = NULL /\ i = x.promoted /\ x.state = "wait_promotion")
  <2>1. st' = [st EXCEPT ![n] = moved] BY <1>2, <1>5, Zenon
  <2> HIDE DEF moved
  <2> QED BY <1>1, <1>3, <2>1, OneFlagged, Zenon
<1> QED BY <1>4, <1>5

\* A hello message: the epoch is raised, or the master is reset.
LEMMA HelloFlagged ==
  ASSUME Inv, AllFlagged, NEW n \in Sentinel, NEW k \in Sentinel, Hello(n, k)
  PROVE  AllFlagged'
<1> DEFINE x == st[k]
           a == CurrentMaster(st[n])
           w == [x EXCEPT !.currentEpoch = st[n].currentEpoch]
           y == IF st[n].currentEpoch > x.currentEpoch THEN Flush(w) ELSE x
           z == [y EXCEPT !.configEpoch = st[n].configEpoch]
<1>1. /\ st \in [Sentinel -> SentinelType] /\ x \in SentinelType /\ st[n] \in SentinelType
      /\ Flagged(x)
  BY DEF Inv, Typed, AllFlagged
<1>2. a \in Instance BY <1>1 DEF CurrentMaster, SentinelType
<1>3. y \in SentinelType /\ Flagged(y)
  <2>1. w \in SentinelType /\ SameProgress(x, w) BY <1>1, Zenon DEF SentinelType, SameProgress
  <2> HIDE DEF w
  <2>2. Flush(w) \in SentinelType /\ SameProgress(w, Flush(w))
    BY <2>1, FlushType, FlushProgress DEF SameVote
  <2> QED BY <1>1, <2>1, <2>2, SameProgressFlagged DEF SameProgress
<1>4. st' = [st EXCEPT ![k] = IF x.configEpoch >= st[n].configEpoch THEN y
                              ELSE IF a = x.addr THEN z
                              ELSE ResetMasterAndChangeAddress(z, a)]
  BY DEF Hello
<1> HIDE DEF y, a
<1>5. z \in SentinelType /\ SameProgress(y, z) BY <1>1, <1>3 DEF SentinelType, SameProgress
<1> HIDE DEF z
<1>6. Flagged(z) BY <1>3, <1>5, SameProgressFlagged
<1>7. Flagged(ResetMasterAndChangeAddress(z, a)) BY <1>2, <1>5, ResetMasterFlagged
<1>8. PICK u : Flagged(u) /\ st' = [st EXCEPT ![k] = u] BY <1>3, <1>4, <1>6, <1>7, ZenonT(30)
<1> QED BY <1>1, <1>8, OneFlagged, Zenon


\* A question of another sentinel: the vote does not move the failover.
LEMMA ReceiveAskFlagged ==
  ASSUME Inv, AllFlagged, NEW m \in net, ReceiveAsk(m)
  PROVE  AllFlagged'
<1>1. m \in AskType BY Zenon DEF ReceiveAsk, Inv, Typed, AskType, ReplyType
<1>2. /\ m.to \in Sentinel /\ m.from \in Sentinel /\ m.epoch \in Nat
      /\ st \in [Sentinel -> SentinelType]
      /\ st[m.to] \in SentinelType /\ Flagged(st[m.to])
  BY <1>1 DEF AskType, Inv, Typed, AllFlagged
<1> DEFINE y == VoteLeader(m.to, st[m.to], m.epoch, m.from)
<1>3. Flagged(y) BY <1>2, VoteLeaderProgress, SameProgressFlagged
<1>4. st' = [st EXCEPT ![m.to] = y] \/ st' = st BY Zenon DEF ReceiveAsk
<1> HIDE DEF y
<1> QED BY <1>2, <1>3, <1>4, OneFlagged DEF AllFlagged

\* A reply: a vote is noted.
LEMMA ReceiveReplyFlagged ==
  ASSUME Inv, AllFlagged, NEW m \in net, ReceiveReply(m)
  PROVE  AllFlagged'
<1>1. m \in ReplyType BY DEF ReceiveReply, Inv, Typed, AskType, ReplyType
<1>2. /\ m.to \in Sentinel /\ st \in [Sentinel -> SentinelType]
      /\ st[m.to] \in SentinelType /\ Flagged(st[m.to])
  BY <1>1 DEF ReplyType, Inv, Typed, AllFlagged
<1> DEFINE y == [st[m.to] EXCEPT !.vote[m.from] = [leader |-> m.leader, epoch |-> m.epoch]]
<1>3. SameProgress(st[m.to], y) BY <1>2 DEF SameProgress, SentinelType
<1>4. st' = [st EXCEPT ![m.to] = y] BY DEF ReceiveReply
<1> HIDE DEF y
<1> QED BY <1>2, <1>3, <1>4, SameProgressFlagged, OneFlagged, Zenon

\* The failover of another master.
LEMMA OtherFailoverFlagged ==
  ASSUME Inv, AllFlagged, NEW n \in Sentinel, OtherFailover(n)
  PROVE  AllFlagged'
<1>1. st \in [Sentinel -> SentinelType] /\ st[n] \in SentinelType /\ Flagged(st[n])
  BY DEF Inv, Typed, AllFlagged
<1> DEFINE y == [st[n] EXCEPT !.currentEpoch = @ + 1]
<1>2. SameProgress(st[n], y) BY <1>1 DEF SameProgress, SentinelType
<1>3. st' = [st EXCEPT ![n] = y] BY DEF OtherFailover
<1> HIDE DEF y
<1> QED BY <1>1, <1>2, <1>3, SameProgressFlagged, OneFlagged, Zenon

\* A sentinel that has just started has no failover.
LEMMA InitSentinelFlagged ==
  ASSUME NEW f
  PROVE  Flagged(InitSentinel(f))
BY Zenon DEF InitSentinel, Flagged, NoReconf

\* From the selection of a slave on there is one, in every system of sentinels: the INFO
\* replies and the failover steps that dereference promoted_slave find it set, whatever is
\* aborted, forgotten, reset by a hello message or restarted in between.
THEOREM PromotedSet == Spec => []PromotedIsSet
<1>1. Init => AllFlagged
  BY InitSentinelFlagged DEF Init, AllFlagged
<1>2. Inv /\ AllFlagged /\ [Next]_vars => AllFlagged'
  <2> SUFFICES ASSUME Inv, AllFlagged, [Next]_vars PROVE AllFlagged' OBVIOUS
  <2>1. ASSUME NEW n \in Sentinel, Timer(n) PROVE AllFlagged'
    <3>1. PICK starts \in BOOLEAN, late \in BOOLEAN, linked \in SUBSET Instance,
              old \in SUBSET Sentinel :
            TimerStep(n, starts, late, linked, old)
      BY <2>1, Zenon DEF Timer, Slaves
    <3> QED BY <3>1, ConstantsHold, TimerFlagged
  <2>2. ASSUME NEW n \in MayFailOther, OtherFailover(n) PROVE AllFlagged'
    BY <2>2, ConstantsHold, OtherFailoverFlagged DEF Constants
  <2>3. ASSUME NEW m \in net, ReceiveAsk(m) \/ ReceiveReply(m) PROVE AllFlagged'
    BY <2>3, ReceiveAskFlagged, ReceiveReplyFlagged
  <2>4. ASSUME NEW n \in Sentinel, NEW i \in Instance, Info(n, i) PROVE AllFlagged'
    BY <2>4, InfoFlagged
  <2>5. ASSUME NEW n \in Sentinel, NEW k \in Sentinel, Hello(n, k) PROVE AllFlagged'
    BY <2>5, HelloFlagged
  <2>6. ASSUME NEW n \in MayRestart, Restart(n) PROVE AllFlagged'
    <3>1. n \in Sentinel /\ st \in [Sentinel -> SentinelType]
      BY <2>6, ConstantsHold DEF Constants, Inv, Typed
    <3>2. st' = [st EXCEPT ![n] = InitSentinel(st[n].saved)] BY <2>6 DEF Restart
    <3> QED BY <3>1, <3>2, InitSentinelFlagged, OneFlagged, Zenon
  <2>7. CASE UNCHANGED vars BY <2>7 DEF vars, AllFlagged
  <2> QED BY <2>1, <2>2, <2>3, <2>4, <2>5, <2>6, <2>7 DEF Next
<1>3. AllFlagged => PromotedIsSet BY DEF AllFlagged, Flagged, PromotedIsSet
<1> QED BY <1>1, <1>2, <1>3, SpecInv, PTL DEF Spec

=============================================================================
