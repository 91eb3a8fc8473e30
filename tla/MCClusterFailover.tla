-------------------------- MODULE MCClusterFailover -------------------------
(* ClusterFailover for TLC: three masters, one of them with two slaves.    *)
EXTENDS ClusterBusElection, TLC

CONSTANTS a, b, c, s, t

MCNodeId == (c :> 1) @@ (s :> 2) @@ (t :> 3)
ConfigLinks == {l \in Contender \X Node : l[1] # l[2]}
MCSymmetry == Permutations({a, b})
=============================================================================
