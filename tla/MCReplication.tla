--------------------------- MODULE MCReplication ---------------------------
(* Small instances of Replication for TLC. *)
EXTENDS ReplicationLifecycle, TLC

CONSTANTS n1, n2, n3

\* redis.conf of every server but one names that one as its master.
Star == {[n \in Node |-> IF n = m THEN None ELSE m] : m \in Node}

\* The same, where the master is one of two servers that differ in configuration.
StarOfTwo == {t \in Star : None \in {t[n1], t[n2]}}

\* These, and a replica behind a replica.
StarsAndChain == StarOfTwo \cup {(n1 :> None) @@ (n2 :> n1) @@ (n3 :> n2)}

\* A master m and its replicas after the initial synchronization, before any write: the
\* state Init reaches from Star when every replica has loaded the empty payload of m.
Synchronized ==
  \E m \in Node :
    LET id == <<m, 1>> IN
    /\ data = [n \in Node |-> <<>>] /\ writes = [n \in Node |-> 0]
    /\ ids = [n \in Node |-> IF n = m THEN 2 ELSE 1]
    /\ replid = [n \in Node |-> id]
    /\ replid2 = [n \in Node |-> None] /\ secondoff = [n \in Node |-> -1]
    /\ offset = [n \in Node |-> 0]
    /\ backlog = [n \in Node |-> [off |-> 1, buf |-> <<>>]]
    /\ seldb = [n \in Node |-> -1]
    /\ host = [n \in Node |-> IF n = m THEN None ELSE m]
    /\ state = [n \in Node |-> IF n = m THEN "none" ELSE "connected"]
    /\ master = [n \in Node |-> IF n = m THEN None ELSE [replid |-> id, reploff |-> 0, db |-> 0]]
    /\ cached = [n \in Node |-> None] /\ initial = [n \in Node |-> None]
    /\ link = [n \in Node |-> IF n = m THEN None
                 ELSE [peer |-> m, open |-> TRUE, req |-> None, q |-> <<>>]]
    /\ slaves = [a \in Node |-> [b \in Node |->
                   IF a = m /\ b # m THEN SlaveClient("online") ELSE None]]
    /\ child = [n \in Node |-> None]
    /\ pings = 0 /\ saves = 0 /\ faults = 0 /\ commands = 0 /\ restarts = 0

SynchronizedSpec == Synchronized /\ [][Next]_vars

Symmetry == Permutations(Node)
=============================================================================
