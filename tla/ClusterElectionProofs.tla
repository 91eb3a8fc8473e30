----------------------- MODULE ClusterElectionProofs ------------------------
(* Two slaves never win the election of the same epoch, for every finite set of masters *)
(* and every set of slaves.                                                             *)
EXTENDS ClusterElection, FiniteSetTheorems, TLAPS

\* Both provers are given 15 seconds for a leaf.
USE SMTT(15), ZenonT(15)

Sets == IsFiniteSet(Master) /\ Master \cap Candidate = {}

TypeOK ==
  /\ currentEpoch \in [Master \cup Candidate -> Nat]
  /\ lastVoteEpoch \in [Master -> Nat]
  /\ authEpoch \in [Candidate -> Nat]
  /\ authSent \in [Candidate -> BOOLEAN]
  /\ authCount \in [Candidate -> Nat]
  /\ requests \subseteq Request /\ acks \subseteq Ack
  /\ votes \subseteq Vote /\ won \subseteq Victory

\* The epoch a master last voted in bounds the epochs of its votes, and its own epoch
\* bounds that.
VotesInThePast ==
  /\ \A w \in votes : w.epoch <= lastVoteEpoch[w.voter]
  /\ \A v \in Master : lastVoteEpoch[v] <= currentEpoch[v]

OneVotePerEpoch ==
  \A w1, w2 \in votes :
    w1.voter = w2.voter /\ w1.epoch = w2.epoch => w1.for = w2.for

\* What is under way belongs to the election its candidate holds.
InStep ==
  /\ \A r \in requests : authSent[r.from] /\ r.epoch = authEpoch[r.from]
  /\ \A a \in acks : authSent[a.to] /\ a.epoch = authEpoch[a.to]

\* The masters whose vote for k is under way.
AckFrom(k) == {v \in Master : [from |-> v, to |-> k, epoch |-> authEpoch[k]] \in acks}

\* A candidate has counted no more votes than were cast for it, those under way aside.
CountBacked ==
  \A k \in Candidate :
    /\ ~ authSent[k] => authCount[k] = 0
    /\ authSent[k] =>
         authCount[k] + Cardinality(AckFrom(k)) <= Cardinality(VotesFor(k, authEpoch[k]))

WonBacked == \A w \in won : Cardinality(VotesFor(w.node, w.epoch)) >= NeededQuorum

Inv ==
  /\ TypeOK /\ VotesInThePast /\ OneVotePerEpoch /\ InStep /\ CountBacked /\ WonBacked

-----------------------------------------------------------------------------

\* The sets of masters the counts are about are finite.
LEMMA FiniteVoters ==
  ASSUME Sets, NEW k, NEW e
  PROVE  /\ IsFiniteSet(VotesFor(k, e)) /\ Cardinality(VotesFor(k, e)) \in Nat
         /\ IsFiniteSet(AckFrom(k)) /\ Cardinality(AckFrom(k)) \in Nat
         /\ NeededQuorum \in Nat
<1>1. VotesFor(k, e) \in SUBSET Master /\ AckFrom(k) \in SUBSET Master
  BY DEF VotesFor, AckFrom
<1>2. IsFiniteSet(VotesFor(k, e)) /\ IsFiniteSet(AckFrom(k))
  BY <1>1, FS_Subset DEF Sets
<1>3. Cardinality(Master) \in Nat BY FS_CardinalityType DEF Sets
<1> QED BY <1>2, <1>3, FS_CardinalityType DEF NeededQuorum

\* Two majorities of the masters share a voter, who voted once in that epoch.
LEMMA InvImpliesOneWinner ==
  ASSUME Sets, Inv
  PROVE  OneWinnerPerEpoch
<1> SUFFICES ASSUME NEW w1 \in won, NEW w2 \in won, w1.epoch = w2.epoch
             PROVE  w1.node = w2.node
  BY DEF OneWinnerPerEpoch
<1> DEFINE A == VotesFor(w1.node, w1.epoch)
           B == VotesFor(w2.node, w2.epoch)
<1>1. Cardinality(Master) \in Nat BY FS_CardinalityType DEF Sets
<1>2. Cardinality(A) >= NeededQuorum /\ Cardinality(B) >= NeededQuorum
  BY DEF Inv, WonBacked
<1>3. Cardinality(A) \in Nat /\ Cardinality(B) \in Nat BY FiniteVoters
<1>4. Cardinality(A) + Cardinality(B) > Cardinality(Master)
  BY <1>1, <1>2, <1>3 DEF NeededQuorum
<1>5. A \subseteq Master /\ B \subseteq Master BY DEF VotesFor
<1>6. A \cap B # {}
  <2> HIDE DEF A, B
  <2> QED BY <1>4, <1>5, FS_MajoritiesIntersect DEF Sets
<1>7. PICK v \in Master : v \in A /\ v \in B BY <1>5, <1>6
<1>8. /\ [voter |-> v, epoch |-> w1.epoch, for |-> w1.node] \in votes
      /\ [voter |-> v, epoch |-> w2.epoch, for |-> w2.node] \in votes
  BY <1>7 DEF VotesFor
<1> QED BY <1>8 DEF Inv, OneVotePerEpoch

\* Votes and votes under way as they were: the counts of the elections stay backed.
LEMMA SameVotes ==
  ASSUME votes' = votes, acks' = acks, NEW k, authEpoch'[k] = authEpoch[k], NEW e
  PROVE  VotesFor(k, e)' = VotesFor(k, e) /\ AckFrom(k)' = AckFrom(k)
BY DEF VotesFor, AckFrom

\* The invariant holds at the start.
LEMMA InitInv ==
  ASSUME Sets, Init
  PROVE  Inv
<1>1. TypeOK /\ VotesInThePast /\ OneVotePerEpoch /\ InStep /\ WonBacked
  BY DEF Init, TypeOK, VotesInThePast, OneVotePerEpoch, InStep, WonBacked
<1>2. CountBacked BY DEF Init, CountBacked
<1> QED BY <1>1, <1>2 DEF Inv

\* A later current epoch bounds the votes as well.
LEMMA RaiseEpochInv ==
  ASSUME Sets, Inv, NEW n \in Master \cup Candidate, RaiseEpoch(n)
  PROVE  Inv'
<1>1. /\ TypeOK' /\ InStep' /\ OneVotePerEpoch' /\ WonBacked'
      /\ CountBacked'
  <2>1. TypeOK' BY DEF Inv, RaiseEpoch, TypeOK
  <2>2. InStep' /\ OneVotePerEpoch' BY DEF Inv, RaiseEpoch, InStep, OneVotePerEpoch
  <2>3. WonBacked' BY DEF Inv, RaiseEpoch, WonBacked, VotesFor
  <2>4. CountBacked' BY DEF Inv, RaiseEpoch, CountBacked, VotesFor, AckFrom
  <2> QED BY <2>1, <2>2, <2>3, <2>4
<1>2. \A v \in Master : currentEpoch[v] \in Nat /\ currentEpoch'[v] \in Nat
                        /\ currentEpoch'[v] >= currentEpoch[v] /\ lastVoteEpoch[v] \in Nat
  BY <1>1 DEF RaiseEpoch, Inv, TypeOK
<1>3. lastVoteEpoch' = lastVoteEpoch /\ votes' = votes BY DEF RaiseEpoch
<1>4. VotesInThePast' BY <1>2, <1>3 DEF Inv, VotesInThePast
<1> QED BY <1>1, <1>4 DEF Inv

\* A new election starts with no vote counted.
LEMMA ScheduleInv ==
  ASSUME Sets, Inv, NEW k \in Candidate, Schedule(k)
  PROVE  Inv'
<1>1. TypeOK' /\ VotesInThePast' /\ OneVotePerEpoch' /\ WonBacked'
  BY DEF Inv, Schedule, TypeOK, VotesInThePast, OneVotePerEpoch, WonBacked, VotesFor
<1>2. /\ requests' = requests /\ acks' = acks /\ votes' = votes /\ authEpoch' = authEpoch
      /\ \A l \in Candidate \ {k} : authSent'[l] = authSent[l] /\ authCount'[l] = authCount[l]
      /\ authSent'[k] = FALSE /\ authCount'[k] = 0
  BY DEF Schedule, Inv, TypeOK
<1>3. InStep'
  <2>1. \A r \in requests : r.from \in Candidate /\ r.from # k
    BY DEF Schedule, UnderWay, Inv, TypeOK, Request
  <2>2. \A a \in acks : a.to \in Candidate /\ a.to # k
    BY DEF Schedule, UnderWay, Inv, TypeOK, Ack
  <2> QED BY <1>2, <2>1, <2>2 DEF Inv, InStep
<1>4. CountBacked' BY <1>2, SameVotes DEF Inv, CountBacked, VotesFor, AckFrom
<1> QED BY <1>1, <1>3, <1>4 DEF Inv

\* A candidate that restarts forgets the votes it counted.
LEMMA RestartInv ==
  ASSUME Sets, Inv, NEW k \in Candidate, Restart(k)
  PROVE  Inv'
<1>1. TypeOK' /\ OneVotePerEpoch' /\ WonBacked'
  BY DEF Inv, Restart, TypeOK, OneVotePerEpoch, WonBacked, VotesFor
<1>2. /\ requests' = requests /\ acks' = acks /\ votes' = votes
      /\ lastVoteEpoch' = lastVoteEpoch
      /\ \A l \in Candidate \ {k} : /\ authSent'[l] = authSent[l] /\ authCount'[l] = authCount[l]
                                    /\ authEpoch'[l] = authEpoch[l]
      /\ authSent'[k] = FALSE /\ authCount'[k] = 0
      /\ \A v \in Master : currentEpoch'[v] = currentEpoch[v]
  BY DEF Restart, Inv, TypeOK, Sets
<1>3. VotesInThePast' BY <1>2 DEF Inv, VotesInThePast
<1>4. InStep'
  <2>1. \A r \in requests : r.from \in Candidate /\ r.from # k
    BY DEF Restart, UnderWay, Inv, TypeOK, Request
  <2>2. \A a \in acks : a.to \in Candidate /\ a.to # k
    BY DEF Restart, UnderWay, Inv, TypeOK, Ack
  <2> QED BY <1>2, <2>1, <2>2 DEF Inv, InStep
<1>5. CountBacked'
  <2> SUFFICES ASSUME NEW l \in Candidate, l # k
               PROVE  /\ ~ authSent'[l] => authCount'[l] = 0
                      /\ authSent'[l] => authCount'[l] + Cardinality(AckFrom(l)')
                                           <= Cardinality(VotesFor(l, authEpoch[l])')
    BY <1>2 DEF CountBacked
  <2> QED BY <1>2, SameVotes DEF Inv, CountBacked
<1> QED BY <1>1, <1>3, <1>4, <1>5 DEF Inv

\* A winner has counted a quorum of votes cast for it.
LEMMA WinInv ==
  ASSUME Sets, Inv, NEW k \in Candidate, Win(k)
  PROVE  Inv'
<1>1. TypeOK' BY DEF Inv, Win, Elected, TypeOK, Victory
<1>2. VotesInThePast' /\ OneVotePerEpoch' /\ InStep'
  BY DEF Inv, Win, VotesInThePast, OneVotePerEpoch, InStep
<1>3. CountBacked' BY DEF Inv, Win, CountBacked, VotesFor, AckFrom
<1>4. Cardinality(VotesFor(k, authEpoch[k])) >= NeededQuorum
  <2>1. authCount[k] \in Nat /\ authCount[k] >= NeededQuorum
        /\ authCount[k] + Cardinality(AckFrom(k)) <= Cardinality(VotesFor(k, authEpoch[k]))
    BY DEF Inv, TypeOK, CountBacked, Win, Elected
  <2> QED BY <2>1, FiniteVoters
<1>5. WonBacked'
  <2> SUFFICES ASSUME NEW w \in won'
               PROVE  Cardinality(VotesFor(w.node, w.epoch)') >= NeededQuorum
    BY DEF WonBacked
  <2>1. VotesFor(w.node, w.epoch)' = VotesFor(w.node, w.epoch) BY DEF Win, VotesFor
  <2>2. CASE w \in won BY <2>1, <2>2 DEF Inv, WonBacked
  <2>3. CASE w = [node |-> k, epoch |-> authEpoch[k]] BY <1>4, <2>1, <2>3
  <2> QED BY <2>2, <2>3 DEF Win, Elected
<1> QED BY <1>1, <1>2, <1>3, <1>5 DEF Inv

\* A candidate asks for votes in a later epoch than before.
LEMMA RequestAuthInv ==
  ASSUME Sets, Inv, NEW k \in Candidate, RequestAuth(k)
  PROVE  Inv'
<1>1. PICK e \in Nat : e = currentEpoch[k] + 1 BY DEF Inv, TypeOK
<1>2. PICK to \in SUBSET Master : requests' = requests \cup [from : {k}, to : to, epoch : {e}]
  BY <1>1 DEF RequestAuth
<1>3. \A r \in [from : {k}, to : to, epoch : {e}] : r \in Request /\ r.from = k /\ r.epoch = e
  BY <1>1 DEF Request
<1>4. TypeOK' BY <1>1, <1>2, <1>3 DEF Inv, TypeOK, RequestAuth
<1>5. OneVotePerEpoch' /\ WonBacked'
  BY DEF Inv, RequestAuth, OneVotePerEpoch, WonBacked, VotesFor
<1>6. /\ acks' = acks /\ votes' = votes /\ authCount' = authCount
      /\ \A l \in Candidate \ {k} : authSent'[l] = authSent[l] /\ authEpoch'[l] = authEpoch[l]
      /\ authSent'[k] = TRUE /\ authEpoch'[k] = e /\ ~ authSent[k]
  BY <1>1 DEF RequestAuth, Inv, TypeOK
<1>7. VotesInThePast' BY <1>6 DEF Inv, VotesInThePast, RequestAuth, Sets, TypeOK
<1>8. InStep'
  <2>1. \A r \in requests : r.from \in Candidate /\ r.from # k
    BY DEF RequestAuth, UnderWay, Inv, TypeOK, Request
  <2>2. \A a \in acks : a.to \in Candidate /\ a.to # k
    BY DEF RequestAuth, UnderWay, Inv, TypeOK, Ack
  <2> QED BY <1>2, <1>3, <1>6, <2>1, <2>2 DEF Inv, InStep
<1>9. CountBacked'
  <2>1. AckFrom(k)' = {}
    BY <1>6 DEF RequestAuth, UnderWay, AckFrom
  <2>2. Cardinality(VotesFor(k, e)') \in Nat /\ authCount[k] = 0
    <3>1. VotesFor(k, e)' = VotesFor(k, e) BY <1>6 DEF VotesFor
    <3> QED BY <1>6, <3>1, FiniteVoters DEF Inv, CountBacked
  <2>3. ASSUME NEW l \in Candidate \ {k}
        PROVE  /\ ~ authSent'[l] => authCount'[l] = 0
               /\ authSent'[l] => authCount'[l] + Cardinality(AckFrom(l)')
                                    <= Cardinality(VotesFor(l, authEpoch[l])')
    BY <1>6, SameVotes DEF Inv, CountBacked
  <2>4. authCount'[k] + Cardinality(AckFrom(k)') <= Cardinality(VotesFor(k, authEpoch[k])')
    <3>1. VotesFor(k, authEpoch[k])' = VotesFor(k, e)' BY <1>6 DEF VotesFor
    <3> QED BY <1>6, <2>1, <2>2, <3>1, FS_EmptySet
  <2> QED BY <1>6, <2>3, <2>4 DEF CountBacked
<1> QED BY <1>4, <1>5, <1>7, <1>8, <1>9 DEF Inv

\* The request is considered: `e` is the epoch of the voter afterwards.
LEMMA ConsiderInv ==
  ASSUME Sets, Inv, NEW r \in requests, Consider(r)
  PROVE  Inv'
<1> DEFINE v == r.to
           k == r.from
<1>1. v \in Master /\ k \in Candidate /\ r.epoch \in Nat /\ r.epoch = authEpoch[k] /\ authSent[k]
  BY DEF Inv, TypeOK, Request, InStep
<1>2. PICK e \in Nat : e = IF r.epoch > currentEpoch[v] THEN r.epoch ELSE currentEpoch[v]
  BY <1>1 DEF Inv, TypeOK
<1> HIDE DEF v, k
<1>3. /\ requests' = requests \ {r} /\ currentEpoch' = [currentEpoch EXCEPT ![v] = e]
      /\ authEpoch' = authEpoch /\ authSent' = authSent /\ authCount' = authCount /\ won' = won
  BY <1>2 DEF Consider, v
<1>4. currentEpoch[v] \in Nat /\ e >= currentEpoch[v] /\ e >= r.epoch BY <1>1, <1>2 DEF Inv, TypeOK
<1>5. CASE UNCHANGED <<lastVoteEpoch, acks, votes>>
  <2>1. TypeOK' BY <1>1, <1>3, <1>5 DEF Inv, TypeOK
  <2>2. VotesInThePast' BY <1>1, <1>3, <1>4, <1>5 DEF Inv, TypeOK, VotesInThePast
  <2>3. OneVotePerEpoch' /\ InStep' BY <1>3, <1>5 DEF Inv, OneVotePerEpoch, InStep
  <2>4. CountBacked' BY <1>3, <1>5 DEF Inv, CountBacked, VotesFor, AckFrom
  <2>5. WonBacked' BY <1>3, <1>5 DEF Inv, WonBacked, VotesFor
  <2> QED BY <2>1, <2>2, <2>3, <2>4, <2>5 DEF Inv
<1>6. CASE /\ r.epoch >= e /\ lastVoteEpoch[v] # e
           /\ lastVoteEpoch' = [lastVoteEpoch EXCEPT ![v] = e]
           /\ votes' = votes \cup {[voter |-> v, epoch |-> e, for |-> k]}
           /\ \/ acks' = acks \cup {[from |-> v, to |-> k, epoch |-> e]}
              \/ acks' = acks
  <2>1. e = authEpoch[k] BY <1>1, <1>4, <1>6
  <2>2. TypeOK' BY <1>1, <1>3, <1>6 DEF Inv, TypeOK, Vote, Ack
  <2>3. lastVoteEpoch[v] \in Nat /\ lastVoteEpoch[v] < e
    BY <1>1, <1>4, <1>6 DEF Inv, TypeOK, VotesInThePast
  <2>4. \A w \in votes : w.voter = v => w.epoch \in Nat /\ w.epoch < e
    BY <2>3 DEF Inv, TypeOK, Vote, VotesInThePast
  <2>5. VotesInThePast'
    <3>1. \A w \in votes : w.epoch <= lastVoteEpoch'[w.voter]
      BY <1>1, <1>6, <2>4 DEF Inv, TypeOK, Vote, VotesInThePast
    <3>2. \A u \in Master : lastVoteEpoch'[u] <= currentEpoch'[u]
      BY <1>1, <1>3, <1>6 DEF Inv, TypeOK, VotesInThePast
    <3> QED BY <1>1, <1>6, <3>1, <3>2 DEF Inv, TypeOK, VotesInThePast
  <2>6. OneVotePerEpoch' BY <1>6, <2>4 DEF Inv, OneVotePerEpoch
  <2>7. InStep' BY <1>1, <1>3, <1>6, <2>1 DEF Inv, InStep
  <2>8. \A l, d : VotesFor(l, d)' = IF l = k /\ d = e THEN VotesFor(l, d) \cup {v}
                                                       ELSE VotesFor(l, d)
    BY <1>1, <1>6 DEF VotesFor
  <2>9. v \notin VotesFor(k, e) BY <2>4 DEF VotesFor
  <2>10. Cardinality(VotesFor(k, e)') = Cardinality(VotesFor(k, e)) + 1
         /\ Cardinality(VotesFor(k, e)) \in Nat
    BY <2>8, <2>9, FiniteVoters, FS_AddElement
  <2>11. WonBacked'
    <3> SUFFICES ASSUME NEW w \in won
                 PROVE  Cardinality(VotesFor(w.node, w.epoch)') >= NeededQuorum
      BY <1>3 DEF WonBacked
    <3>1. Cardinality(VotesFor(w.node, w.epoch)) >= NeededQuorum /\ NeededQuorum \in Nat
      BY FiniteVoters DEF Inv, WonBacked
    <3> QED BY <2>8, <2>10, <3>1
  <2>12. CountBacked'
    <3> SUFFICES ASSUME NEW l \in Candidate
                 PROVE  /\ ~ authSent[l] => authCount[l] = 0
                        /\ authSent[l] => authCount[l] + Cardinality(AckFrom(l)')
                                            <= Cardinality(VotesFor(l, authEpoch[l])')
      BY <1>3 DEF CountBacked
    <3>1. /\ ~ authSent[l] => authCount[l] = 0
          /\ authSent[l] => authCount[l] + Cardinality(AckFrom(l))
                              <= Cardinality(VotesFor(l, authEpoch[l]))
          /\ authCount[l] \in Nat
      BY DEF Inv, CountBacked, TypeOK
    <3>2. CASE l # k
      <4>1. AckFrom(l)' = AckFrom(l) BY <1>3, <1>6, <3>2 DEF AckFrom
      <4>2. VotesFor(l, authEpoch[l])' = VotesFor(l, authEpoch[l])
        BY <1>3, <1>6, <3>2 DEF VotesFor
      <4> QED BY <3>1, <4>1, <4>2
    <3>3. CASE l = k
      <4>1. AckFrom(k)' = AckFrom(k) \cup {v} \/ AckFrom(k)' = AckFrom(k)
        BY <1>1, <1>3, <1>6, <2>1 DEF AckFrom
      <4>2. Cardinality(AckFrom(k)') <= Cardinality(AckFrom(k)) + 1
            /\ Cardinality(AckFrom(k)') \in Nat /\ Cardinality(AckFrom(k)) \in Nat
        <5>1. IsFiniteSet(AckFrom(k)) /\ Cardinality(AckFrom(k)) \in Nat BY FiniteVoters
        <5>2. CASE AckFrom(k)' = AckFrom(k) BY <5>1, <5>2
        <5>3. CASE AckFrom(k)' = AckFrom(k) \cup {v}
          <6> DEFINE S == AckFrom(k)
          <6>1. Cardinality(S \cup {v}) = IF v \in S THEN Cardinality(S) ELSE Cardinality(S) + 1
            <7> HIDE DEF S
            <7>1. IsFiniteSet(S) BY <5>1 DEF S
            <7> QED BY <7>1, FS_AddElement, Zenon
          <6> QED BY <5>1, <5>3, <6>1
        <5> QED BY <4>1, <5>2, <5>3
      <4>3. VotesFor(k, authEpoch[k])' = VotesFor(k, e)' BY <1>3, <2>1 DEF VotesFor
      <4> QED BY <2>1, <2>10, <3>1, <3>3, <4>2, <4>3
    <3> QED BY <3>2, <3>3
  <2> QED BY <2>2, <2>5, <2>6, <2>7, <2>11, <2>12 DEF Inv
<1> QED BY <1>2, <1>5, <1>6 DEF Consider, v, k

\* A vote counted is one less under way.
LEMMA CountVoteInv ==
  ASSUME Sets, Inv, NEW a \in acks, CountVote(a)
  PROVE  Inv'
<1> DEFINE k == a.to
           v == a.from
<1>1. v \in Master /\ k \in Candidate /\ a.epoch \in Nat /\ a.epoch = authEpoch[k] /\ authSent[k]
      /\ a = [from |-> v, to |-> k, epoch |-> authEpoch[k]]
  BY DEF Inv, TypeOK, Ack, InStep
<1>2. /\ authCount[k] \in Nat /\ currentEpoch[k] \in Nat
      /\ (a.epoch >= authEpoch[k]) = TRUE
  BY <1>1 DEF Inv, TypeOK
<1> HIDE DEF v, k
<1>3. /\ acks' = acks \ {a} /\ authCount' = [authCount EXCEPT ![k] = authCount[k] + 1]
      /\ currentEpoch' = [currentEpoch EXCEPT ![k] = IF a.epoch > @ THEN a.epoch ELSE @]
      /\ Elected(k, authCount[k] + 1) \/ won' = won
      /\ UNCHANGED <<lastVoteEpoch, authEpoch, authSent, requests, votes>>
  BY <1>2 DEF CountVote, k
<1>4. TypeOK' BY <1>1, <1>2, <1>3 DEF Inv, TypeOK, Elected, Victory
<1>5. VotesInThePast' BY <1>1, <1>3 DEF Inv, VotesInThePast, TypeOK, Sets
<1>6. OneVotePerEpoch' /\ InStep' BY <1>3 DEF Inv, OneVotePerEpoch, InStep
<1>7. AckFrom(k)' = AckFrom(k) \ {v} /\ v \in AckFrom(k) BY <1>1, <1>3 DEF AckFrom
<1>8. /\ Cardinality(AckFrom(k)') = Cardinality(AckFrom(k)) - 1
      /\ Cardinality(AckFrom(k)) \in Nat /\ Cardinality(AckFrom(k)') \in Nat
  <2>1. IsFiniteSet(AckFrom(k)) /\ Cardinality(AckFrom(k)) \in Nat BY FiniteVoters
  <2>2. IsFiniteSet(AckFrom(k)') /\ Cardinality(AckFrom(k)') = Cardinality(AckFrom(k)) - 1
    BY <1>7, <2>1, FS_RemoveElement
  <2> QED BY <2>1, <2>2, FS_CardinalityType
<1>9. \A l, d : VotesFor(l, d)' = VotesFor(l, d) BY <1>3 DEF VotesFor
<1>10. CountBacked'
  <2>1. ASSUME NEW l \in Candidate \ {k}
        PROVE  /\ ~ authSent'[l] => authCount'[l] = 0
               /\ authSent'[l] => authCount'[l] + Cardinality(AckFrom(l)')
                                    <= Cardinality(VotesFor(l, authEpoch[l])')
    <3>1. AckFrom(l)' = AckFrom(l) BY <1>1, <1>3 DEF AckFrom
    <3>2. VotesFor(l, authEpoch[l])' = VotesFor(l, authEpoch[l]) BY <1>3 DEF VotesFor
    <3> QED BY <1>3, <3>1, <3>2 DEF Inv, CountBacked, TypeOK
  <2>2. VotesFor(k, authEpoch[k])' = VotesFor(k, authEpoch[k]) BY <1>3 DEF VotesFor
  <2>3. authCount[k] + Cardinality(AckFrom(k)) <= Cardinality(VotesFor(k, authEpoch[k]))
        /\ authCount'[k] = authCount[k] + 1
        /\ Cardinality(VotesFor(k, authEpoch[k])) \in Nat
    BY <1>1, <1>3, FiniteVoters DEF Inv, CountBacked, TypeOK
  <2>4. authCount'[k] + Cardinality(AckFrom(k)') <= Cardinality(VotesFor(k, authEpoch[k])')
    BY <1>2, <1>8, <2>2, <2>3
  <2> QED BY <1>1, <1>3, <2>1, <2>4 DEF CountBacked
<1>11. WonBacked'
  <2> SUFFICES ASSUME NEW w \in won'
               PROVE  Cardinality(VotesFor(w.node, w.epoch)) >= NeededQuorum
    BY <1>9 DEF WonBacked
  <2>1. CASE w \in won BY <2>1 DEF Inv, WonBacked
  <2>2. CASE w = [node |-> k, epoch |-> authEpoch[k]] /\ authCount[k] + 1 >= NeededQuorum
    <3>1. authCount[k] + Cardinality(AckFrom(k)) <= Cardinality(VotesFor(k, authEpoch[k]))
          /\ Cardinality(VotesFor(k, authEpoch[k])) \in Nat /\ NeededQuorum \in Nat
      BY <1>1, FiniteVoters DEF Inv, CountBacked
    <3> QED BY <1>2, <1>8, <2>2, <3>1
  <2> QED BY <1>3, <2>1, <2>2 DEF Elected
<1> QED BY <1>4, <1>5, <1>6, <1>10, <1>11 DEF Inv

\* Nothing changes when nothing happens.
LEMMA StutterInv ==
  ASSUME Inv, UNCHANGED vars
  PROVE  Inv'
<1>1. TypeOK' /\ VotesInThePast' /\ OneVotePerEpoch' /\ InStep'
  BY DEF Inv, vars, TypeOK, VotesInThePast, OneVotePerEpoch, InStep
<1>2. CountBacked' BY DEF Inv, vars, CountBacked, VotesFor, AckFrom
<1>3. WonBacked' BY DEF Inv, vars, WonBacked, VotesFor
<1> QED BY <1>1, <1>2, <1>3 DEF Inv

\* Two slaves never win the election of the same epoch, whatever the number of masters and
\* slaves, however the packets are lost or reordered within an attempt, and although slaves
\* restart: a master votes once in an epoch (lastVoteEpoch), a candidate counts no vote that
\* was not cast for it in the epoch it asked for, and two majorities share a master.
THEOREM ElectionSafety ==
  ASSUME Sets
  PROVE  Spec => []OneWinnerPerEpoch
<1>1. Init => Inv BY InitInv
<1>2. Inv /\ [Next]_vars => Inv'
  <2> SUFFICES ASSUME Inv, [Next]_vars PROVE Inv' OBVIOUS
  <2>1. CASE \E n \in Master \cup Candidate : RaiseEpoch(n) BY <2>1, RaiseEpochInv
  <2>2. CASE \E k \in Candidate : Schedule(k) BY <2>2, ScheduleInv
  <2>3. CASE \E k \in Candidate : RequestAuth(k) BY <2>3, RequestAuthInv
  <2>4. CASE \E k \in Candidate : Win(k) BY <2>4, WinInv
  <2>5. CASE \E k \in Candidate : Restart(k) BY <2>5, RestartInv
  <2>6. CASE \E r \in requests : Consider(r) BY <2>6, ConsiderInv
  <2>7. CASE \E a \in acks : CountVote(a) BY <2>7, CountVoteInv
  <2>8. CASE UNCHANGED vars BY <2>8, StutterInv
  <2> QED BY <2>1, <2>2, <2>3, <2>4, <2>5, <2>6, <2>7, <2>8 DEF Next
<1>3. Inv => OneWinnerPerEpoch BY InvImpliesOneWinner
<1> QED BY <1>1, <1>2, <1>3, PTL DEF Spec
=============================================================================
