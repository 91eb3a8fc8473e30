------------------------ MODULE AppendOnlyFileProofs ------------------------
(* While the append only file is switched on, the file and the buffer rebuild the dataset, and *)
(* under "always" every acknowledged write is on disk: for every number of databases, writes    *)
(* and faults, every size of the pipe, and every interleaving of the server, the rewrite child, *)
(* the background thread and the crashes.                                                       *)
EXTENDS AppendOnlyFile, SequenceTheorems, WellFoundedInduction, TLAPS

\* Both provers are given 15 seconds for a leaf.
USE SMTT(15), ZenonT(15)

-----------------------------------------------------------------------------
(* Induction                                                               *)

\* A set of numbers with 0, and with n + 1 whenever it has n, has them all.
LEMMA SetInduction ==
  ASSUME NEW S \in SUBSET Nat, 0 \in S, \A n \in S : n + 1 \in S
  PROVE  S = Nat
<1>1. ASSUME NEW x \in Nat, x \notin S
      PROVE  FALSE
  <2> DEFINE T == Nat \ S
             R == OpToRel(<, Nat)
  <2>1. IsWellFoundedOn(R, Nat) BY NatLessThanWellFounded, Zenon
  <2>2. T \subseteq Nat /\ T # {} BY <1>1
  <2>3. \E y \in T : \A z \in T : ~ (<<z, y>> \in R)
    <3> HIDE DEF T, R
    <3> QED BY <2>1, <2>2, WFMin, Zenon
  <2>4. PICK y \in T : \A z \in T : ~ (<<z, y>> \in R) BY <2>3, Zenon
  <2>5. y # 0 /\ y - 1 \in Nat /\ y - 1 \notin S OBVIOUS
  <2>6. <<y - 1, y>> \in R BY <2>5 DEF OpToRel
  <2> QED BY <2>4, <2>5, <2>6, Zenon
<1> QED BY <1>1, Zenon

-----------------------------------------------------------------------------
(* Sequences                                                               *)

\* The prefixes of a sequence, one unit after the other.
LEMMA PrefixSteps ==
  ASSUME NEW S, NEW t \in Seq(S)
  PROVE  /\ SubSeq(t, 1, 0) = <<>>
         /\ \A n \in 0..(Len(t) - 1) :
              /\ t[n + 1] \in S /\ SubSeq(t, 1, n) \in Seq(S)
              /\ SubSeq(t, 1, n + 1) = Append(SubSeq(t, 1, n), t[n + 1])
         /\ SubSeq(t, 1, Len(t)) = t
<1>1. SubSeq(t, 1, 0) = <<>> BY SubSeqEmpty
<1>2. SubSeq(t, 1, Len(t)) = t BY SubSeqFull
<1>3. ASSUME NEW n \in 0..(Len(t) - 1)
      PROVE  /\ t[n + 1] \in S /\ SubSeq(t, 1, n) \in Seq(S)
             /\ SubSeq(t, 1, n + 1) = Append(SubSeq(t, 1, n), t[n + 1])
  <2>1. t[n + 1] \in S OBVIOUS
  <2>2. SubSeq(t, 1, n) \in Seq(S) OBVIOUS
  <2>3. SubSeq(t, 1, n + 1) = Append(SubSeq(t, 1, n), t[n + 1])
    BY <2>1, <2>2
  <2> QED BY <2>1, <2>2, <2>3
<1> QED BY <1>1, <1>2, <1>3

\* A prefix of a sequence is a prefix of every continuation of it.
LEMMA PrefixOfConcat ==
  ASSUME NEW S, NEW t \in Seq(S), NEW u \in Seq(S), NEW n \in 0..Len(t)
  PROVE  SubSeq(t \o u, 1, n) = SubSeq(t, 1, n)
OBVIOUS

\* A prefix of a prefix.
LEMMA PrefixOfPrefix ==
  ASSUME NEW S, NEW t \in Seq(S), NEW n \in 0..Len(t), NEW k \in 0..n
  PROVE  /\ SubSeq(t, 1, n) \in Seq(S) /\ Len(SubSeq(t, 1, n)) = n
         /\ SubSeq(SubSeq(t, 1, n), 1, k) = SubSeq(t, 1, k)
OBVIOUS

\* A sequence cut in two
LEMMA TwoParts ==
  ASSUME NEW S, NEW t \in Seq(S), NEW n \in 0..Len(t)
  PROVE  /\ SubSeq(t, 1, n) \in Seq(S) /\ Len(SubSeq(t, 1, n)) = n
         /\ SubSeq(t, n + 1, Len(t)) \in Seq(S)
         /\ Len(SubSeq(t, n + 1, Len(t))) = Len(t) - n
         /\ SubSeq(t, 1, n) \o SubSeq(t, n + 1, Len(t)) = t
<1>1. SubSeq(t, 1, n) \in Seq(S) /\ Len(SubSeq(t, 1, n)) = n BY PrefixOfPrefix
<1>2. SubSeq(t, n + 1, Len(t)) \in Seq(S) OBVIOUS
<1>3. Len(SubSeq(t, n + 1, Len(t))) = Len(t) - n OBVIOUS
<1>4. SubSeq(t, 1, n) \o SubSeq(t, n + 1, Len(t)) = SubSeq(t, 1, Len(t))
  <2>1. Len(t) \in Nat OBVIOUS
  <2>2. 1 \in 1..(Len(t) + 1) /\ n \in (1 - 1)..Len(t) /\ Len(t) \in n..Len(t) BY <2>1
  <2> QED BY <2>2, ConcatAdjacentSubSeq, Zenon
<1> QED BY <1>1, <1>2, <1>3, <1>4, PrefixSteps, Zenon

-----------------------------------------------------------------------------
(* Loading a file                                                          *)

Unit == ({"select"} \X DB) \cup ({"head", "tail"} \X (Nat \ {0}))
Dataset == Seq([id : Nat, db : Int])

\* Concatenation is associative.
LEMMA UnitsAssoc == \A u, v, w \in Seq(Unit) : (u \o v) \o w = u \o (v \o w)
BY ConcatAssociative

LoadState ==
  [data : Dataset, db : Int, open : Nat, read : Nat, valid : Nat, ok : BOOLEAN]

Begin(base) == [data |-> base, db |-> -1, open |-> 0, read |-> 0, valid |-> 0, ok |-> TRUE]

\* f is the loop of loadAppendOnlyFile over the units t.
Loads(f, base, t) ==
  f = [i \in 0..Len(t) |-> IF i = 0 THEN Begin(base) ELSE LoadUnit(f[i - 1], t[i])]

\* There is one such loop ...
LEMMA LoadsExist ==
  ASSUME NEW base, NEW S, NEW t \in Seq(S)
  PROVE  \E f : Loads(f, base, t)
<1> DEFINE Upto(f, n) ==
             f = [i \in 0..n |-> IF i = 0 THEN Begin(base) ELSE LoadUnit(f[i - 1], t[i])]
           T == {n \in Nat : \E f : Upto(f, n)}
<1>1. 0 \in T
  <2>1. Upto([i \in 0..0 |-> Begin(base)], 0) OBVIOUS
  <2> QED BY <2>1, Zenon
<1>2. ASSUME NEW n \in T
      PROVE  n + 1 \in T
  <2>1. PICK f : Upto(f, n) BY <1>2
  <2> DEFINE g == [i \in 0..(n + 1) |-> IF i = n + 1 THEN LoadUnit(f[n], t[n + 1]) ELSE f[i]]
  <2>2. \A i \in 0..n : f[i] = IF i = 0 THEN Begin(base) ELSE LoadUnit(f[i - 1], t[i])
    BY <2>1
  <2>3. \A i \in 0..(n + 1) :
          g[i] = IF i = 0 THEN Begin(base) ELSE LoadUnit(g[i - 1], t[i])
    <3>1. n \in Nat OBVIOUS
    <3>2. \A i \in 0..n : g[i] = f[i] BY <3>1
    <3>3. g[n + 1] = LoadUnit(f[n], t[n + 1]) BY <3>1
    <3> HIDE DEF g
    <3> TAKE i \in 0..(n + 1)
    <3>4. CASE i = n + 1 BY <3>1, <3>2, <3>3, <3>4
    <3>5. CASE i \in 0..n
      <4>1. i # 0 => i - 1 \in 0..n BY <3>1, <3>5
      <4> QED BY <2>2, <3>2, <3>5, <4>1
    <3> QED BY <3>1, <3>4, <3>5
  <2>4. Upto(g, n + 1)
    <3>1. g = [i \in 0..(n + 1) |-> g[i]] OBVIOUS
    <3> HIDE DEF g
    <3> QED BY <2>3, <3>1, Zenon
  <2> HIDE DEF Upto, g
  <2> QED BY <2>4
<1>3. T = Nat
  <2>1. T \in SUBSET Nat OBVIOUS
  <2> HIDE DEF T
  <2> QED BY <1>1, <1>2, <2>1, SetInduction
<1>4. PICK f : Upto(f, Len(t)) BY <1>3
<1> QED BY <1>4 DEF Loads

\* ... and loadAppendOnlyFile returns its last state.
LEMMA LoadsLast ==
  ASSUME NEW base, NEW S, NEW t \in Seq(S)
  PROVE  \E f : Loads(f, base, t) /\ LoadAppendOnlyFile(base, t) = f[Len(t)]
<1> DEFINE f == CHOOSE g : Loads(g, base, t)
<1>1. Loads(f, base, t) BY LoadsExist
<1>2. LoadAppendOnlyFile(base, t) = f[Len(t)] BY DEF LoadAppendOnlyFile, Loads, Begin
<1> HIDE DEF f
<1> QED BY <1>1, <1>2

\* The loop over a file is the beginning of the loop over its continuation.
LEMMA LoadsAgree ==
  ASSUME NEW base, NEW S, NEW t \in Seq(S), NEW u \in S,
         NEW f, Loads(f, base, t), NEW g, Loads(g, base, Append(t, u))
  PROVE  f[Len(t)] = g[Len(t)]
<1> DEFINE T == {n \in Nat : n <= Len(t) => f[n] = g[n]}
<1>1. Len(Append(t, u)) = Len(t) + 1 /\ \A i \in 1..Len(t) : Append(t, u)[i] = t[i]
  OBVIOUS
<1>2. /\ \A i \in 0..Len(t) : f[i] = IF i = 0 THEN Begin(base) ELSE LoadUnit(f[i - 1], t[i])
      /\ \A i \in 0..Len(t) : g[i] = IF i = 0 THEN Begin(base) ELSE LoadUnit(g[i - 1], t[i])
  <2>1. \A i \in 0..Len(t) : f[i] = IF i = 0 THEN Begin(base) ELSE LoadUnit(f[i - 1], t[i])
    BY DEF Loads
  <2> DEFINE a == Append(t, u)
  <2>2. \A i \in 0..Len(a) : g[i] = IF i = 0 THEN Begin(base) ELSE LoadUnit(g[i - 1], a[i])
    <3> HIDE DEF a
    <3> QED BY Zenon DEF Loads, a
  <2>3. \A i \in 0..Len(t) : i \in 0..Len(a) /\ (i # 0 => a[i] = t[i])
    BY <1>1
  <2> HIDE DEF a
  <2> QED BY <2>1, <2>2, <2>3
<1>3. 0 \in T BY <1>2
<1>4. ASSUME NEW n \in T
      PROVE  n + 1 \in T
  BY <1>2
<1>5. T = Nat
  <2>1. T \in SUBSET Nat OBVIOUS
  <2> HIDE DEF T
  <2> QED BY <1>3, <1>4, <2>1, SetInduction
<1> QED BY <1>5

\* loadAppendOnlyFile of an empty file
LEMMA LoadEmpty ==
  ASSUME NEW base
  PROVE  LoadAppendOnlyFile(base, <<>>) = Begin(base)
<1>1. PICK f : Loads(f, base, <<>>) /\ LoadAppendOnlyFile(base, <<>>) = f[Len(<<>>)]
  <2>1. <<>> \in Seq({}) OBVIOUS
  <2> QED BY <2>1, LoadsLast, Zenon
<1>2. 0 \in 0..Len(<<>>) /\ Len(<<>>) = 0 OBVIOUS
<1> QED BY <1>1, <1>2 DEF Loads

\* loadAppendOnlyFile reads a file unit by unit.
LEMMA LoadAppend ==
  ASSUME NEW base, NEW t \in Seq(Unit), NEW u \in Unit
  PROVE  LoadAppendOnlyFile(base, Append(t, u)) = LoadUnit(LoadAppendOnlyFile(base, t), u)
<1>1. PICK f : Loads(f, base, t) /\ LoadAppendOnlyFile(base, t) = f[Len(t)] BY LoadsLast
<1>2. Append(t, u) \in Seq(Unit) /\ Len(Append(t, u)) = Len(t) + 1
      /\ Append(t, u)[Len(t) + 1] = u /\ Len(t) \in Nat
  OBVIOUS
<1>3. PICK g : Loads(g, base, Append(t, u))
               /\ LoadAppendOnlyFile(base, Append(t, u)) = g[Len(Append(t, u))]
  BY <1>2, LoadsLast, Zenon
<1>4. f[Len(t)] = g[Len(t)] BY <1>1, <1>3, LoadsAgree
<1>5. g[Len(t) + 1] = LoadUnit(g[Len(t)], u)
  BY <1>2, <1>3 DEF Loads
<1> QED BY <1>1, <1>2, <1>3, <1>4, <1>5

\* One unit later a command is completed and valid_up_to moves to its end, or nothing is loaded.
UnitLater(a, b) ==
  /\ b \in LoadState /\ b.read = a.read + 1
  /\ \/ b.valid = b.read /\ b.open = 0
     \/ b.valid = a.valid /\ b.data = a.data /\ (b.ok => a.ok)
  /\ Ids(a.data) \subseteq Ids(b.data)

\* The loop of loadAppendOnlyFile over one unit
LEMMA LoadUnitStep ==
  ASSUME NEW a \in LoadState, NEW u \in Unit
  PROVE  UnitLater(a, LoadUnit(a, u))
<1> DEFINE b == LoadUnit(a, u)
           r == a.read + 1
           d == Append(a.data, [id |-> u[2], db |-> a.db])
<1> SUFFICES UnitLater(a, b) OBVIOUS
<1>1. r \in Nat /\ r = a.read + 1 BY DEF LoadState
<1>2. CASE u[1] = "select" /\ a.open = 0
  <2>1. b = [a EXCEPT !.read = r, !.valid = r, !.db = u[2]]
    BY <1>2 DEF LoadUnit, LoadState
  <2>2. u[2] \in Int
    <3>1. u \in {"select"} \X DB
      <4>1. u \in {"head", "tail"} \X (Nat \ {0}) => u[1] \in {"head", "tail"} OBVIOUS
      <4> QED BY <1>2, <4>1 DEF Unit
    <3>2. DB \subseteq Int BY AofAssumption
    <3>3. u[2] \in DB BY <3>1
    <3> QED BY <3>2, <3>3, Zenon
  <2> HIDE DEF r
  <2>3. b \in LoadState BY <1>1, <2>1, <2>2, Zenon DEF LoadState
  <2>4. b.read = r /\ b.valid = r /\ b.open = 0 /\ b.data = a.data
    BY <1>2, <2>1 DEF LoadState
  <2> HIDE DEF b
  <2> QED BY <1>1, <2>3, <2>4 DEF UnitLater
<1>3. CASE u[1] = "head" /\ a.open = 0
  <2>1. b = [a EXCEPT !.read = r, !.open = u[2]]
    BY <1>3 DEF LoadUnit, LoadState
  <2>2. u[2] \in Nat BY <1>3 DEF Unit
  <2> HIDE DEF r
  <2>3. b \in LoadState BY <1>1, <2>1, <2>2, Zenon DEF LoadState
  <2>4. b.read = r /\ b.valid = a.valid /\ b.data = a.data /\ b.ok = a.ok
    BY <2>1 DEF LoadState
  <2> HIDE DEF b
  <2> QED BY <1>1, <2>3, <2>4 DEF UnitLater
<1>4. CASE u[1] = "tail" /\ a.open = u[2]
  <2>1. b = [a EXCEPT !.read = r, !.valid = r, !.open = 0, !.data = d]
    BY <1>4 DEF LoadUnit, LoadState
  <2>2. [id |-> u[2], db |-> a.db] \in [id : Nat, db : Int] BY <1>4 DEF Unit, LoadState
  <2>3. a.data \in Dataset BY DEF LoadState
  <2>4. d \in Dataset BY <2>2, <2>3 DEF Dataset
  <2>5. \A i \in DOMAIN a.data : i \in DOMAIN d /\ d[i] = a.data[i]
    BY <2>2, <2>3 DEF Dataset
  <2> HIDE DEF r, d
  <2>6. Ids(a.data) \subseteq Ids(d) BY <2>5 DEF Ids
  <2>7. b \in LoadState
    <3>1. b = [data |-> d, db |-> a.db, open |-> 0, read |-> r, valid |-> r, ok |-> a.ok]
      BY <2>1, Zenon DEF LoadState
    <3> QED BY <1>1, <2>4, <3>1 DEF LoadState
  <2>8. b.data = d /\ b.read = r /\ b.valid = r /\ b.open = 0
    BY <2>1 DEF LoadState
  <2> HIDE DEF b
  <2> QED BY <1>1, <2>6, <2>7, <2>8 DEF UnitLater
<1>5. CASE ~ (u[1] = "select" /\ a.open = 0) /\ ~ (u[1] = "head" /\ a.open = 0)
           /\ ~ (u[1] = "tail" /\ a.open = u[2])
  <2>1. b = [a EXCEPT !.read = r, !.ok = FALSE]
    BY <1>5 DEF LoadUnit, LoadState
  <2> HIDE DEF r
  <2>2. b \in LoadState BY <1>1, <2>1, Zenon DEF LoadState
  <2>3. b.read = r /\ b.valid = a.valid /\ b.data = a.data /\ ~ b.ok
    BY <2>1 DEF LoadState
  <2> HIDE DEF b
  <2> QED BY <1>1, <2>2, <2>3 DEF UnitLater
<1> QED BY <1>2, <1>3, <1>4, <1>5

\* loadAppendOnlyFile goes to the end of the file, and valid_up_to is a place in it.
LEMMA LoadType ==
  ASSUME NEW base \in Dataset, NEW t \in Seq(Unit)
  PROVE  /\ LoadAppendOnlyFile(base, t) \in LoadState
         /\ LoadAppendOnlyFile(base, t).read = Len(t)
         /\ LoadAppendOnlyFile(base, t).valid \in 0..Len(t)
<1> DEFINE L(n) == LoadAppendOnlyFile(base, SubSeq(t, 1, n))
           Holds(n) == L(n) \in LoadState /\ L(n).read = n /\ L(n).valid \in 0..n
           T == {n \in Nat : n <= Len(t) => Holds(n)}
<1>1. 0 \in T
  <2>1. L(0) = Begin(base)
    BY LoadEmpty, PrefixSteps, Zenon
  <2>2. Begin(base) \in LoadState /\ Begin(base).read = 0 /\ Begin(base).valid = 0
    BY DEF Begin, LoadState
  <2> QED BY <2>1, <2>2
<1>2. ASSUME NEW n \in T
      PROVE  n + 1 \in T
  <2>1. SUFFICES ASSUME n + 1 <= Len(t) PROVE Holds(n + 1) OBVIOUS
  <2>2. Holds(n) /\ n \in 0..(Len(t) - 1) BY <1>2, <2>1
  <2>3. t[n + 1] \in Unit /\ L(n + 1) = LoadUnit(L(n), t[n + 1])
    <3>1. /\ t[n + 1] \in Unit /\ SubSeq(t, 1, n) \in Seq(Unit)
          /\ SubSeq(t, 1, n + 1) = Append(SubSeq(t, 1, n), t[n + 1])
      BY <2>2, PrefixSteps
    <3> QED BY <3>1, LoadAppend, Zenon
  <2> HIDE DEF L
  <2>4. UnitLater(L(n), L(n + 1)) BY <2>2, <2>3, LoadUnitStep
  <2> QED BY <2>2, <2>4 DEF UnitLater
<1>3. T = Nat
  <2>1. T \in SUBSET Nat OBVIOUS
  <2> HIDE DEF T
  <2> QED BY <1>1, <1>2, <2>1, SetInduction
<1>4. Holds(Len(t))
  <2>1. Len(t) \in Nat OBVIOUS
  <2> HIDE DEF Holds
  <2> QED BY <1>3, <2>1
<1> QED BY <1>4, PrefixSteps, Zenon

\* A file with one unit more
LEMMA LoadNext ==
  ASSUME NEW base \in Dataset, NEW t \in Seq(Unit), NEW n \in 0..(Len(t) - 1)
  PROVE  /\ LoadAppendOnlyFile(base, SubSeq(t, 1, n)).read = n
         /\ UnitLater(LoadAppendOnlyFile(base, SubSeq(t, 1, n)),
                      LoadAppendOnlyFile(base, SubSeq(t, 1, n + 1)))
<1>1. SubSeq(t, 1, n) \in Seq(Unit) /\ Len(SubSeq(t, 1, n)) = n
  BY PrefixOfPrefix
<1>2. LoadAppendOnlyFile(base, SubSeq(t, 1, n)) \in LoadState
      /\ LoadAppendOnlyFile(base, SubSeq(t, 1, n)).read = n
  BY <1>1, LoadType, Zenon
<1>3. /\ t[n + 1] \in Unit
      /\ SubSeq(t, 1, n + 1) = Append(SubSeq(t, 1, n), t[n + 1])
  BY PrefixSteps
<1>4. LoadAppendOnlyFile(base, SubSeq(t, 1, n + 1))
        = LoadUnit(LoadAppendOnlyFile(base, SubSeq(t, 1, n)), t[n + 1])
  BY <1>1, <1>3, LoadAppend, Zenon
<1> QED BY <1>2, <1>3, <1>4, LoadUnitStep

\* What was loaded is what the file loads that is cut at valid_up_to, and that file is whole.
LEMMA LoadValid ==
  ASSUME NEW base \in Dataset, NEW t \in Seq(Unit)
  PROVE  LET all == LoadAppendOnlyFile(base, t)
             cut == LoadAppendOnlyFile(base, SubSeq(t, 1, all.valid))
         IN cut.data = all.data /\ cut.open = 0 /\ (all.ok => cut.ok)
<1> DEFINE L(n) == LoadAppendOnlyFile(base, SubSeq(t, 1, n))
           Holds(n) == /\ L(L(n).valid).data = L(n).data /\ L(L(n).valid).open = 0
                       /\ L(n).ok => L(L(n).valid).ok
           T == {n \in Nat : n <= Len(t) => Holds(n)}
<1>1. 0 \in T
  <2>1. L(0) = Begin(base)
    BY LoadEmpty, PrefixSteps, Zenon
  <2>2. Begin(base).open = 0 /\ Begin(base).valid = 0
    BY DEF Begin
  <2> HIDE DEF L
  <2> QED BY <2>1, <2>2
<1>2. ASSUME NEW n \in T
      PROVE  n + 1 \in T
  <2>1. SUFFICES ASSUME n + 1 <= Len(t) PROVE Holds(n + 1) OBVIOUS
  <2>2. Holds(n) /\ n \in 0..(Len(t) - 1) BY <1>2, <2>1
  <2>3. L(n).read = n /\ UnitLater(L(n), L(n + 1)) BY <2>2, LoadNext
  <2> HIDE DEF L
  <2>4. \/ L(n + 1).valid = n + 1 /\ L(n + 1).open = 0
        \/ L(n + 1).valid = L(n).valid /\ L(n + 1).data = L(n).data /\ (L(n + 1).ok => L(n).ok)
    BY <2>3 DEF UnitLater
  <2> QED BY <2>2, <2>4
<1>3. T = Nat
  <2>1. T \in SUBSET Nat OBVIOUS
  <2> HIDE DEF T
  <2> QED BY <1>1, <1>2, <2>1, SetInduction
<1>4. Holds(Len(t))
  <2>1. Len(t) \in Nat OBVIOUS
  <2> HIDE DEF Holds
  <2> QED BY <1>3, <2>1
<1>5. L(Len(t)) = LoadAppendOnlyFile(base, t)
  <2>1. SubSeq(t, 1, Len(t)) = t BY SubSeqFull
  <2> QED BY <2>1, Zenon
<1>6. L(LoadAppendOnlyFile(base, t).valid)
        = LoadAppendOnlyFile(base, SubSeq(t, 1, LoadAppendOnlyFile(base, t).valid))
  OBVIOUS
<1> HIDE DEF L
<1> QED BY <1>4, <1>5, <1>6, Zenon

\* A longer file loads the same writes and more.
LEMMA LoadGrows ==
  ASSUME NEW base \in Dataset, NEW t \in Seq(Unit), NEW i \in 0..Len(t), NEW j \in i..Len(t)
  PROVE  Ids(LoadAppendOnlyFile(base, SubSeq(t, 1, i)).data)
           \subseteq Ids(LoadAppendOnlyFile(base, SubSeq(t, 1, j)).data)
<1> DEFINE L(n) == Ids(LoadAppendOnlyFile(base, SubSeq(t, 1, n)).data)
           T == {n \in Nat : i + n <= Len(t) => L(i) \subseteq L(i + n)}
<1>1. 0 \in T
  <2>1. i + 0 = i OBVIOUS
  <2> QED BY <2>1
<1>2. ASSUME NEW n \in T
      PROVE  n + 1 \in T
  <2>1. SUFFICES ASSUME i + (n + 1) <= Len(t) PROVE L(i) \subseteq L(i + (n + 1)) OBVIOUS
  <2>2. i + n \in 0..(Len(t) - 1) /\ i + (n + 1) = (i + n) + 1 BY <2>1
  <2>3. L(i) \subseteq L(i + n) BY <1>2, <2>2
  <2>4. L(i + n) \subseteq L((i + n) + 1)
    <3> DEFINE k == i + n
    <3>1. k \in 0..(Len(t) - 1) BY <2>2
    <3> HIDE DEF k
    <3>2. L(k) \subseteq L(k + 1) BY <3>1, LoadNext, Zenon DEF UnitLater
    <3> QED BY <3>2 DEF k
  <2> HIDE DEF L
  <2> QED BY <2>2, <2>3, <2>4
<1>3. T = Nat
  <2>1. T \in SUBSET Nat OBVIOUS
  <2> HIDE DEF T
  <2> QED BY <1>1, <1>2, <2>1, SetInduction
<1>4. j - i \in Nat /\ i + (j - i) = j OBVIOUS
<1> HIDE DEF L
<1>5. L(i) \subseteq L(j)
  <2>1. j - i \in T BY <1>3, <1>4, Zenon
  <2> QED BY <1>4, <2>1
<1> QED BY <1>5 DEF L

-----------------------------------------------------------------------------
(* The inductive invariant                                                 *)

\* Base and units rebuild the dataset, and a write to the database `selected` may follow.
Rebuilds(base, units, data, selected) ==
  LET loaded == LoadAppendOnlyFile(base, units)
  IN /\ loaded.ok /\ loaded.open = 0 /\ loaded.data = data
     /\ selected \in {-1, loaded.db}

\* What an fsync may be due to
Owed == {"no", "tail", "file"}

Server ==
  [policy : {"always", "everysec", "no"}, skip : BOOLEAN, state : {"off", "wait", "on", "down"}, fd : {"none", "open", "stale"},
   data : Dataset, buf : Seq(Unit), selected : DB \cup {-1}, status : {"ok", "err"},
   postponed : BOOLEAN, bio : SUBSET {"old", "current"}, scheduled : BOOLEAN,
   rdb : {"none", "run", "exited"}, child : {"none", "run", "asked", "ok", "err"},
   childBase : Dataset, childDiff : Seq(Unit), pipe : Seq(Unit), stop : BOOLEAN,
   rewriteBuf : Seq(Unit), base : Dataset, tail : Seq(Unit), synced : Nat,
   late : Owed]

\* The writes in the file, and those on disk
InFile(x) == Ids(LoadAppendOnlyFile(x.base, x.tail).data)
OnDisk(x) == Ids(LoadAppendOnlyFile(x.base, SubSeq(x.tail, 1, x.synced)).data)

\* The file with the buffer, and the child's file with what is on its way to it, rebuild the
\* dataset.
Sound(x) ==
  /\ x.synced <= Len(x.tail) /\ Len(x.pipe) <= PipeSize
  /\ x.state \in {"on", "wait"} => x.fd = "open"
  /\ x.child = "none" => x.pipe = <<>> /\ x.rewriteBuf = <<>>
  /\ x.child = "ok" => x.pipe = <<>> /\ x.stop = TRUE
  /\ x.child # "none" => x.rdb = "none"
  /\ x.state = "on" => Rebuilds(x.base, x.tail \o x.buf, x.data, x.selected)
  /\ x.state \in {"on", "wait"} /\ x.child \in {"run", "asked", "ok"} =>
       Rebuilds(x.childBase, x.childDiff \o (x.pipe \o x.rewriteBuf), x.data, x.selected)

\* The writes w wait for their reply, and the writes a have got it: they are in the file, and
\* on disk unless an fsync is due to them; those of h are on disk if the file is still the one
\* they were fsynced in.
Durable(x, a, h, w) ==
  /\ w \subseteq Ids(x.data) /\ h \subseteq a
  /\ x.policy # "always" => a = {}
  /\ x.policy = "always" =>
       /\ a \subseteq InFile(x) /\ a \subseteq Ids(x.data)
       /\ x.late = "no" => a \subseteq OnDisk(x)
       /\ x.late = "tail" => h \subseteq OnDisk(x)
       /\ x.late = "no" /\ x.state = "on" /\ x.buf = <<>> => w \subseteq OnDisk(x)
       /\ x.state = "off" /\ x.child # "none" => a \subseteq Ids(x.childBase)

Good(x, a, h, w) == x \in Server /\ Sound(x) /\ Durable(x, a, h, w)

\* The acknowledged writes that no skipped or failed fsync was for
Kept == acked \ risk

Inv ==
  /\ Good(s, acked, Kept, waiting)
  /\ risk \subseteq acked /\ (s.late = "file" => risk = acked)
  /\ next \in 1..(MaxWrites + 1) /\ faults \in 0..MaxFaults
  /\ acked \subseteq 1..(next - 1) /\ waiting \subseteq 1..(next - 1)

-----------------------------------------------------------------------------
(* Files that rebuild the dataset                                          *)

\* A file that begins with the dataset: what the child writes.
LEMMA BaseRebuilds ==
  ASSUME NEW data
  PROVE  Rebuilds(data, <<>>, data, -1)
<1>1. LoadAppendOnlyFile(data, <<>>) = Begin(data) BY LoadEmpty
<1> QED BY <1>1 DEF Rebuilds, Begin

\* No database need be selected.
LEMMA Deselected ==
  ASSUME NEW base, NEW units, NEW data, NEW selected, Rebuilds(base, units, data, selected)
  PROVE  Rebuilds(base, units, data, -1)
BY DEF Rebuilds

\* A file that was loaded, cut at valid_up_to
LEMMA LoadedRebuilds ==
  ASSUME NEW base \in Dataset, NEW t \in Seq(Unit), LoadAppendOnlyFile(base, t).ok
  PROVE  Rebuilds(base, SubSeq(t, 1, LoadAppendOnlyFile(base, t).valid),
                  LoadAppendOnlyFile(base, t).data, -1)
BY LoadValid DEF Rebuilds

\* The units of a write
LEMMA UnitsType ==
  ASSUME NEW id \in Nat \ {0}, NEW db \in DB, NEW selected
  PROVE  /\ <<"select", db>> \in Unit /\ <<"head", id>> \in Unit /\ <<"tail", id>> \in Unit
         /\ Units(id, db, selected) \in Seq(Unit)
         /\ Units(id, db, selected) # <<>>
<1>1. <<"select", db>> \in Unit /\ <<"head", id>> \in Unit /\ <<"tail", id>> \in Unit
  BY DEF Unit
<1> DEFINE u == <<"select", db>>
           h == <<"head", id>>
           l == <<"tail", id>>
<1>2. Units(id, db, selected) = (IF db # selected THEN <<u>> ELSE <<>>) \o <<h, l>>
  BY DEF Units
<1> HIDE DEF u, h, l
<1>3. u \in Unit /\ h \in Unit /\ l \in Unit BY <1>1 DEF u, h, l
<1> DEFINE q == IF db # selected THEN <<u>> ELSE <<>>
           w == <<h, l>>
<1>4. q \in Seq(Unit) BY <1>3
<1>5. w \in Seq(Unit) /\ Len(w) = 2 BY <1>3
<1> HIDE DEF q, w
<1>6. q \o w \in Seq(Unit) /\ Len(q \o w) # 0 BY <1>4, <1>5
<1>7. q \o w # <<>> BY <1>6
<1> QED BY <1>1, <1>2, <1>6, <1>7 DEF q, w

\* The two halves of a write complete it.
LEMMA WriteRebuilds ==
  ASSUME NEW base \in Dataset, NEW t \in Seq(Unit), NEW data, NEW id \in Nat \ {0},
         NEW db \in DB, Rebuilds(base, t, data, -1), LoadAppendOnlyFile(base, t).db = db
  PROVE  Rebuilds(base, Append(Append(t, <<"head", id>>), <<"tail", id>>),
                  Append(data, [id |-> id, db |-> db]), db)
<1> DEFINE a == LoadAppendOnlyFile(base, t)
           t1 == Append(t, <<"head", id>>)
           b == LoadAppendOnlyFile(base, t1)
           t2 == Append(t1, <<"tail", id>>)
           c == LoadAppendOnlyFile(base, t2)
           r == a.read + 1
           r2 == r + 1
           d == Append(data, [id |-> id, db |-> db])
<1>1. <<"head", id>> \in Unit /\ <<"tail", id>> \in Unit BY UnitsType, Zenon
<1>2. t1 \in Seq(Unit)
  <2> DEFINE h == <<"head", id>>
  <2> HIDE DEF h
  <2> QED BY <1>1 DEF h
<1>3. b = LoadUnit(a, <<"head", id>>) BY <1>1, LoadAppend
<1>4. c = LoadUnit(b, <<"tail", id>>)
  <2> HIDE DEF t1
  <2> QED BY <1>1, <1>2, LoadAppend
<1>5. a \in LoadState BY LoadType
<1>6. a.open = 0 /\ a.data = data /\ a.ok /\ a.db = db BY DEF Rebuilds
<1> HIDE DEF a, b, c
<1>7. b = [a EXCEPT !.read = r, !.open = id] BY <1>3, <1>5, <1>6 DEF LoadUnit, LoadState
<1> HIDE DEF r
<1>8. b.open = id /\ b.data = data /\ b.ok = a.ok /\ b.db = db /\ DOMAIN b = DOMAIN a
  BY <1>5, <1>6, <1>7, Zenon DEF LoadState
<1>9. c = [b EXCEPT !.read = b.read + 1, !.valid = b.read + 1, !.open = 0, !.data = d]
  BY <1>4, <1>5, <1>6, <1>7, <1>8, Zenon DEF LoadUnit, LoadState
<1> HIDE DEF d
<1>10. c.open = 0 /\ c.data = d /\ c.ok = a.ok /\ c.db = db
  BY <1>5, <1>8, <1>9 DEF LoadState
<1> QED BY <1>6, <1>10, Zenon DEF Rebuilds, c, d

\* feedAppendOnlyFile: what rebuilt the dataset, followed by a write, rebuilds the new dataset.
LEMMA FeedRebuilds ==
  ASSUME NEW base \in Dataset, NEW t \in Seq(Unit), NEW data, NEW id \in Nat \ {0},
         NEW db \in DB, NEW selected \in DB \cup {-1}, Rebuilds(base, t, data, selected)
  PROVE  Rebuilds(base, t \o Units(id, db, selected), Append(data, [id |-> id, db |-> db]), db)
<1> DEFINE a == LoadAppendOnlyFile(base, t)
           u == <<"select", db>>
           h == <<"head", id>>
           l == <<"tail", id>>
           t0 == IF db # selected THEN Append(t, u) ELSE t
<1>1. u \in Unit /\ h \in Unit /\ l \in Unit BY UnitsType
<1>2. Rebuilds(base, t0, data, -1) /\ LoadAppendOnlyFile(base, t0).db = db
  <2>1. CASE db = selected
    <3>1. db # -1 BY AofAssumption
    <3> QED BY <2>1, <3>1 DEF Rebuilds
  <2>2. CASE db # selected
    <3> DEFINE b == LoadAppendOnlyFile(base, t0)
               r == a.read + 1
    <3>1. b = LoadUnit(a, u) BY <1>1, <2>2, LoadAppend
    <3>2. a \in LoadState BY LoadType
    <3>3. a.open = 0 /\ a.data = data /\ a.ok BY DEF Rebuilds
    <3> HIDE DEF a, b
    <3>4. b = [a EXCEPT !.read = r, !.valid = r, !.db = db]
      BY <3>1, <3>2, <3>3 DEF LoadUnit, LoadState
    <3> HIDE DEF r
    <3>5. b.open = 0 /\ b.data = data /\ b.ok = a.ok /\ b.db = db
      BY <3>2, <3>3, <3>4, Zenon DEF LoadState
    <3> QED BY <3>3, <3>5, Zenon DEF Rebuilds, b
  <2> QED BY <2>1, <2>2
<1> HIDE DEF u, h, l
<1>3. t0 \in Seq(Unit) BY <1>1
<1>4. t \o Units(id, db, selected) = Append(Append(t0, h), l)
  <2>1. Units(id, db, selected) = (IF db # selected THEN <<u>> ELSE <<>>) \o <<h, l>>
    BY DEF Units, u, h, l
  <2>2. CASE db # selected BY <1>1, <2>1, <2>2
  <2>3. CASE db = selected BY <1>1, <2>1, <2>3
  <2> QED BY <2>2, <2>3
<1> HIDE DEF t0
<1> QED BY <1>2, <1>3, <1>4, WriteRebuilds DEF h, l

-----------------------------------------------------------------------------
(* The server's steps keep the files good                                  *)

\* The fields a server state has
LEMMA ServerFields ==
  ASSUME NEW x \in Server
  PROVE  /\ x.policy \in {"always", "everysec", "no"} /\ x.skip \in BOOLEAN
         /\ x.late \in {"no", "tail", "file"} /\ x.base \in Dataset /\ x.tail \in Seq(Unit)
         /\ x.synced \in Nat /\ x.buf \in Seq(Unit) /\ x.data \in Dataset
         /\ x.childBase \in Dataset /\ x.childDiff \in Seq(Unit) /\ x.pipe \in Seq(Unit)
         /\ x.rewriteBuf \in Seq(Unit) /\ x.selected \in DB \cup {-1}
         /\ x.state \in {"off", "wait", "on", "down"} /\ x.fd \in {"none", "open", "stale"}
         /\ x.child \in {"none", "run", "asked", "ok", "err"}
         /\ x.rdb \in {"none", "run", "exited"}
BY DEF Server, Owed

\* What is said of the files does not depend on the rest of the state.
SameFiles(x, y) ==
  /\ y.policy = x.policy /\ y.state = x.state /\ y.fd = x.fd /\ y.data = x.data
  /\ y.buf = x.buf /\ y.selected = x.selected /\ y.rdb = x.rdb /\ y.child = x.child
  /\ y.childBase = x.childBase /\ y.childDiff = x.childDiff /\ y.pipe = x.pipe
  /\ y.rewriteBuf = x.rewriteBuf /\ y.base = x.base /\ y.tail = x.tail
  /\ y.synced = x.synced /\ y.late = x.late /\ y.stop = x.stop

\* Steps that change nothing of the files
LEMMA SameFilesGood ==
  ASSUME NEW x, NEW y \in Server, NEW a, NEW h, NEW w, Good(x, a, h, w), SameFiles(x, y)
  PROVE  Good(y, a, h, w)
BY DEF Good, Sound, Durable, OnDisk, InFile, SameFiles

\* Clients stop waiting.
LEMMA FewerWait ==
  ASSUME NEW x, NEW a, NEW h, NEW w, NEW v \in SUBSET w, Good(x, a, h, w)
  PROVE  Good(x, a, h, v)
BY DEF Good, Durable

\* A start loads what is on disk, and maybe more.
LEMMA StartGood ==
  ASSUME NEW z, NEW policy \in {"always", "everysec", "no"}, z.policy = policy,
         NEW skip \in BOOLEAN, z.skip = skip, NEW base \in Dataset, z.base = base,
         NEW tail \in Seq(Unit), NEW synced \in 0..Len(tail),
         NEW late \in {"no", "tail", "file"}, NEW a, NEW h \in SUBSET a,
         policy # "always" => a = {},
         a \subseteq Ids(LoadAppendOnlyFile(base, tail).data),
         late = "no" => a \subseteq Ids(LoadAppendOnlyFile(base, SubSeq(tail, 1, synced)).data),
         late = "tail" => h \subseteq Ids(LoadAppendOnlyFile(base, SubSeq(tail, 1, synced)).data)
  PROVE  Good(Start(z, tail, synced, late), a, h, {})
<1> DEFINE loaded == LoadAppendOnlyFile(base, tail)
           kept == SubSeq(tail, 1, loaded.valid)
           x == Start(z, tail, synced, late)
           m == IF synced < Len(kept) THEN synced ELSE Len(kept)
<1>1. loaded \in LoadState /\ loaded.valid \in 0..Len(tail) BY LoadType
<1>2. kept \in Seq(Unit) /\ Len(kept) = loaded.valid BY <1>1, PrefixOfPrefix
<1>3. loaded.ok => Rebuilds(base, kept, loaded.data, -1) BY LoadedRebuilds
<1>4. m \in 0..Len(kept) BY <1>2
<1>5. /\ x = [policy |-> policy, skip |-> skip, state |-> IF loaded.ok THEN "on" ELSE "down",
              fd |-> "open", data |-> loaded.data, buf |-> <<>>,
              selected |-> -1, status |-> "ok", postponed |-> FALSE, bio |-> {},
              scheduled |-> FALSE, rdb |-> "none",
              child |-> "none", childBase |-> <<>>, childDiff |-> <<>>, pipe |-> <<>>,
              stop |-> FALSE, rewriteBuf |-> <<>>, base |-> base, tail |-> kept,
              late |-> late, synced |-> m]
  BY DEF Start
<1>6. LoadAppendOnlyFile(base, kept).data = loaded.data BY LoadValid
<1>7. Ids(LoadAppendOnlyFile(base, SubSeq(tail, 1, synced)).data)
        \subseteq Ids(LoadAppendOnlyFile(base, SubSeq(kept, 1, m)).data)
  <2>1. CASE synced < Len(kept)
    <3>1. SubSeq(kept, 1, m) = SubSeq(tail, 1, synced) BY <1>1, <1>2, <2>1, PrefixOfPrefix
    <3> QED BY <3>1, Zenon
  <2>2. CASE ~ (synced < Len(kept))
    <3>1. SubSeq(kept, 1, m) = kept BY <1>2, <2>2, PrefixSteps
    <3>2. synced \in 0..Len(tail) /\ Len(tail) \in synced..Len(tail) OBVIOUS
    <3>3. Ids(LoadAppendOnlyFile(base, SubSeq(tail, 1, synced)).data)
            \subseteq Ids(LoadAppendOnlyFile(base, SubSeq(tail, 1, Len(tail))).data)
      BY <3>2, LoadGrows
    <3>4. SubSeq(tail, 1, Len(tail)) = tail BY PrefixSteps
    <3> QED BY <1>6, <3>1, <3>3, <3>4, Zenon
  <2> QED BY <2>1, <2>2, Zenon
<1>8. Ids(LoadAppendOnlyFile(base, SubSeq(kept, 1, m)).data) \subseteq Ids(loaded.data)
  <2>1. m \in 0..Len(kept) /\ Len(kept) \in m..Len(kept) BY <1>2, <1>4
  <2>2. Ids(LoadAppendOnlyFile(base, SubSeq(kept, 1, m)).data)
          \subseteq Ids(LoadAppendOnlyFile(base, SubSeq(kept, 1, Len(kept))).data)
    <3> HIDE DEF kept, m
    <3> QED BY <1>2, <2>1, LoadGrows, Zenon
  <2>3. SubSeq(kept, 1, Len(kept)) = kept BY <1>2, PrefixSteps
  <2> QED BY <1>6, <2>2, <2>3, Zenon
<1>9. loaded.data \in Dataset /\ kept \o <<>> = kept /\ <<>> \in Dataset /\ <<>> \in Seq(Unit)
  BY <1>1, <1>2 DEF LoadState, Dataset
<1> HIDE DEF loaded, kept, x, m
<1>10. x \in Server BY <1>2, <1>4, <1>5, <1>9 DEF Server, Owed
<1>11. Sound(x)
  <2>1. Len(<<>>) <= PipeSize BY AofAssumption
  <2> QED BY <1>3, <1>4, <1>5, <1>9, <2>1 DEF Sound
<1>12. Durable(x, a, h, {})
  <2>1. /\ x.policy = policy /\ x.late = late /\ x.data = loaded.data /\ x.child = "none"
        /\ x.base = base /\ x.tail = kept /\ x.synced = m
    BY <1>5
  <2>2. InFile(x) = Ids(loaded.data) BY <1>6, <2>1, Zenon DEF InFile
  <2>3. OnDisk(x) = Ids(LoadAppendOnlyFile(base, SubSeq(kept, 1, m)).data)
    BY <2>1, Zenon DEF OnDisk
  <2>4. a \subseteq Ids(loaded.data) BY DEF loaded
  <2> QED BY <1>7, <2>1, <2>2, <2>3, <2>4 DEF Durable
<1> QED BY <1>10, <1>11, <1>12 DEF Good, x

\* y is x after write(2) has taken the n first units of the buffer ...
Moved(x, y, n) ==
  /\ y.policy = x.policy /\ y.state = x.state /\ y.fd = x.fd /\ y.data = x.data
  /\ y.selected = x.selected /\ y.rdb = x.rdb /\ y.child = x.child
  /\ y.childBase = x.childBase /\ y.childDiff = x.childDiff /\ y.pipe = x.pipe
  /\ y.rewriteBuf = x.rewriteBuf /\ y.base = x.base /\ y.stop = x.stop
  /\ y.tail = x.tail \o SubSeq(x.buf, 1, n) /\ y.buf = SubSeq(x.buf, n + 1, Len(x.buf))

\* ... and an fsync, if the whole of the buffer was taken and the policy is "always": it
\* succeeds, or it is due.
WrittenTo(x, y, n) ==
  /\ Moved(x, y, n)
  /\ y.synced = x.synced \/ y.synced = Len(y.tail)
  /\ x.policy = "always" =>
       \/ y.synced = Len(y.tail)
       \/ y.late = x.late /\ n # Len(x.buf)
       \/ y.late = "tail" /\ x.late # "file"
       \/ y.late = "file"

\* The file and the buffer stay what they are together, and nothing leaves the disk; under
\* "always" an empty buffer means that all is on disk.
LEMMA WrittenGood ==
  ASSUME NEW x \in Server, NEW y \in Server, NEW a, NEW h, NEW w, NEW n \in 0..Len(x.buf),
         Good(x, a, h, w), WrittenTo(x, y, n)
  PROVE  Good(y, a, h, w)
<1> DEFINE p == SubSeq(x.buf, 1, n)
           q == SubSeq(x.buf, n + 1, Len(x.buf))
<1>1. /\ x.base \in Dataset /\ x.tail \in Seq(Unit) /\ x.buf \in Seq(Unit)
      /\ y.tail \in Seq(Unit) /\ x.synced \in 0..Len(x.tail)
  BY ServerFields DEF Good, Sound
<1>2. p \in Seq(Unit) /\ q \in Seq(Unit) /\ p \o q = x.buf /\ Len(q) = Len(x.buf) - n
  BY <1>1, TwoParts, Zenon
<1>3. y.tail = x.tail \o p /\ y.buf = q /\ y.base = x.base BY DEF WrittenTo, Moved
<1> HIDE DEF p, q
<1>4. y.tail \o y.buf = x.tail \o x.buf
  <2>1. x.tail \in Seq(Unit) /\ p \in Seq(Unit) /\ q \in Seq(Unit) BY <1>1, <1>2
  <2>3. (x.tail \o p) \o q = x.tail \o (p \o q) BY <2>1, UnitsAssoc, Zenon
  <2> QED BY <1>2, <1>3, <2>3
<1>5. Len(x.tail) <= Len(y.tail) BY <1>1, <1>2, <1>3
<1>6. y.synced \in x.synced..Len(y.tail)
  <2>1. y.synced = x.synced \/ y.synced = Len(y.tail) BY Zenon DEF WrittenTo
  <2> QED BY <1>1, <1>5, <2>1
<1>7. OnDisk(x) \subseteq OnDisk(y)
  <2>1. SubSeq(y.tail, 1, x.synced) = SubSeq(x.tail, 1, x.synced)
    BY <1>1, <1>2, <1>3, PrefixOfConcat
  <2>2. x.synced \in 0..Len(y.tail) BY <1>1, <1>5
  <2>3. Ids(LoadAppendOnlyFile(x.base, SubSeq(y.tail, 1, x.synced)).data)
          \subseteq Ids(LoadAppendOnlyFile(x.base, SubSeq(y.tail, 1, y.synced)).data)
    BY <1>1, <1>6, <2>2, LoadGrows, Zenon
  <2> QED BY <1>3, <2>1, <2>3, Zenon DEF OnDisk
<1>8. Sound(y)
  <2>1. y.synced <= Len(y.tail) BY <1>6
  <2> QED BY <1>4, <2>1, Zenon DEF Good, Sound, WrittenTo, Moved
<1>9. InFile(x) \subseteq InFile(y)
  <2>1. SubSeq(y.tail, 1, Len(x.tail)) = x.tail
    <3>1. SubSeq(x.tail, 1, Len(x.tail)) = x.tail BY <1>1, PrefixSteps
    <3>2. Len(x.tail) \in 0..Len(x.tail) BY <1>1
    <3> QED BY <1>1, <1>2, <1>3, <3>1, <3>2, PrefixOfConcat
  <2>2. Len(x.tail) \in 0..Len(y.tail) /\ Len(y.tail) \in Len(x.tail)..Len(y.tail)
    BY <1>1, <1>5
  <2>3. Ids(LoadAppendOnlyFile(x.base, SubSeq(y.tail, 1, Len(x.tail))).data)
          \subseteq Ids(LoadAppendOnlyFile(x.base, SubSeq(y.tail, 1, Len(y.tail))).data)
    BY <1>1, <2>2, LoadGrows, Zenon
  <2>4. SubSeq(y.tail, 1, Len(y.tail)) = y.tail BY <1>1, PrefixSteps
  <2> QED BY <1>3, <2>1, <2>3, <2>4, Zenon DEF InFile
<1>10. ASSUME y.synced = Len(y.tail) PROVE OnDisk(y) = InFile(y)
  <2>1. SubSeq(y.tail, 1, y.synced) = y.tail BY <1>1, <1>10, PrefixSteps
  <2> QED BY <2>1, Zenon DEF OnDisk, InFile
<1>11. ASSUME y.state = "on", y.buf = <<>> PROVE InFile(y) = Ids(y.data) /\ n = Len(x.buf)
  <2>1. y.tail \o y.buf = y.tail BY <1>1, <1>11
  <2>2. n = Len(x.buf) BY <1>1, <1>2, <1>3, <1>11
  <2> QED BY <1>8, <1>11, <2>1, <2>2, Zenon DEF Sound, Rebuilds, InFile
<1>12. /\ y.policy = x.policy /\ y.state = x.state /\ y.data = x.data /\ y.child = x.child
       /\ y.childBase = x.childBase
  BY DEF WrittenTo, Moved
<1>13. /\ w \subseteq Ids(y.data) /\ h \subseteq a /\ (y.policy # "always" => a = {})
  BY <1>12, Zenon DEF Good, Durable
<1>14. ASSUME y.policy = "always"
       PROVE  /\ a \subseteq InFile(y) /\ a \subseteq Ids(y.data)
              /\ y.state = "off" /\ y.child # "none" => a \subseteq Ids(y.childBase)
  BY <1>9, <1>12, <1>14 DEF Good, Durable
<1>15. ASSUME y.policy = "always"
       PROVE  /\ y.late = "no" => a \subseteq OnDisk(y)
              /\ y.late = "tail" => h \subseteq OnDisk(y)
              /\ y.late = "no" /\ y.state = "on" /\ y.buf = <<>> => w \subseteq OnDisk(y)
  <2>1. CASE y.synced = Len(y.tail)
    BY <1>10, <1>11, <1>13, <1>14, <1>15, <2>1
  <2>2. /\ x.late = "no" => a \subseteq OnDisk(y)
        /\ x.late = "tail" => h \subseteq OnDisk(y)
        /\ x.late \in {"no", "tail", "file"}
    BY <1>7, <1>12, <1>15, ServerFields DEF Good, Durable
  <2>3. CASE y.late = x.late /\ n # Len(x.buf)
    BY <1>11, <2>2, <2>3
  <2>4. CASE y.late = "tail" /\ x.late # "file"
    BY <1>13, <2>2, <2>4
  <2>5. CASE y.late = "file" BY <2>5
  <2> QED BY <1>12, <1>15, <2>1, <2>3, <2>4, <2>5 DEF WrittenTo
<1>16. Durable(y, a, h, w) BY <1>13, <1>14, <1>15, Zenon DEF Durable
<1> QED BY <1>8, <1>16 DEF Good

OutcomeType == [x : Server, took : Nat, exit : BOOLEAN, replied : {FALSE}]

\* An outcome that took no more than the faults left, with the files good
GoodOutcome(o, a, h, w, left) ==
  o \in OutcomeType /\ Good(o.x, a, h, w) /\ o.took <= left

\* Fine builds one ...
LEMMA FineGood ==
  ASSUME NEW y \in Server, NEW a, NEW h, NEW w, NEW left \in Nat, Good(y, a, h, w)
  PROVE  GoodOutcome(Fine(y), a, h, w, left) /\ Fine(y).x = y
BY DEF GoodOutcome, Fine, Outcome, OutcomeType

\* ... and so does Outcome.
LEMMA FaultGood ==
  ASSUME NEW y \in Server, NEW a, NEW h, NEW w, NEW left \in Nat, NEW took \in 0..left,
         NEW exit \in BOOLEAN, Good(y, a, h, w)
  PROVE  /\ GoodOutcome(Outcome(y, took, exit), a, h, w, left)
         /\ Outcome(y, took, exit).x = y /\ Outcome(y, took, exit).exit = exit
BY DEF GoodOutcome, Outcome, OutcomeType

\* o leaves y, at no fault or, if some are left, at one.
ResultOf(o, y, left) == o = Fine(y) \/ (left # 0 /\ o = Outcome(y, 1, FALSE))

LEMMA ResultGood ==
  ASSUME NEW y \in Server, NEW a, NEW h, NEW w, NEW left \in Nat, Good(y, a, h, w),
         NEW o, ResultOf(o, y, left)
  PROVE  GoodOutcome(o, a, h, w, left) /\ o.x = y /\ ~ o.exit
<1>1. CASE o = Fine(y)
  <2>1. Fine(y).exit = FALSE BY DEF Fine, Outcome
  <2> QED BY <1>1, <2>1, FineGood
<1>2. CASE left # 0 /\ o = Outcome(y, 1, FALSE)
  <2>1. 1 \in 0..left /\ FALSE \in BOOLEAN BY <1>2
  <2>2. /\ GoodOutcome(Outcome(y, 1, FALSE), a, h, w, left)
        /\ Outcome(y, 1, FALSE).x = y /\ Outcome(y, 1, FALSE).exit = FALSE
    BY <2>1, FaultGood, Zenon
  <2> QED BY <1>2, <2>2
<1> QED BY <1>1, <1>2 DEF ResultOf

\* y is x after an fsync that succeeds, or after one that fails.
FsyncTo(x, y) ==
  /\ Moved(x, y, 0)
  /\ \/ y.synced = Len(x.tail) /\ y.late = "no"
     \/ /\ y.synced = x.synced
        /\ y.late = IF x.policy = "always" /\ x.late = "no" THEN "tail" ELSE x.late

\* No unit is moved.
LEMMA MovedNone ==
  ASSUME NEW x \in Server
  PROVE  x.tail \o SubSeq(x.buf, 1, 0) = x.tail /\ SubSeq(x.buf, 0 + 1, Len(x.buf)) = x.buf
<1>1. x.tail \in Seq(Unit) /\ x.buf \in Seq(Unit) BY ServerFields
<1>2. SubSeq(x.buf, 1, 0) = <<>> /\ SubSeq(x.buf, 1, Len(x.buf)) = x.buf
  BY <1>1, PrefixSteps
<1>3. x.tail \o <<>> = x.tail /\ 0 + 1 = 1 BY <1>1
<1> QED BY <1>2, <1>3, Zenon

\* The fsync is due ...
LEMMA LateResult ==
  ASSUME NEW x \in Server
  PROVE  Late(x) \in Server /\ FsyncTo(x, Late(x))
<1> DEFINE l == IF x.policy = "always" /\ x.late = "no" THEN "tail" ELSE x.late
           z == [x EXCEPT !.late = l]
           t == x.tail \o SubSeq(x.buf, 1, 0)
           b == SubSeq(x.buf, 0 + 1, Len(x.buf))
<1>1. l \in Owed BY ServerFields DEF Owed
<1>2. Late(x) = z BY Zenon DEF Late
<1>3. x.tail = t /\ x.buf = b BY MovedNone
<1> HIDE DEF l, t, b
<1>4. z \in Server BY <1>1, Zenon DEF Server
<1>5. /\ z.policy = x.policy /\ z.state = x.state /\ z.fd = x.fd /\ z.data = x.data
      /\ z.selected = x.selected /\ z.rdb = x.rdb /\ z.child = x.child
      /\ z.childBase = x.childBase /\ z.childDiff = x.childDiff /\ z.pipe = x.pipe
      /\ z.rewriteBuf = x.rewriteBuf /\ z.base = x.base /\ z.stop = x.stop
      /\ z.tail = x.tail /\ z.buf = x.buf /\ z.synced = x.synced /\ z.late = l
  BY DEF Server
<1> HIDE DEF z
<1>6. FsyncTo(x, z) BY <1>3, <1>5, Zenon DEF FsyncTo, Moved, l, t, b
<1> QED BY <1>2, <1>4, <1>6, Zenon

\* ... or it succeeds or fails: aof_fsync.
LEMMA FsyncResult ==
  ASSUME NEW x \in Server, NEW left, NEW o \in Fsync(x, left)
  PROVE  \E y \in Server : FsyncTo(x, y) /\ ResultOf(o, y, left)
<1> DEFINE m == Len(x.tail)
           y == [x EXCEPT !.synced = m, !.late = "no"]
           t == x.tail \o SubSeq(x.buf, 1, 0)
           b == SubSeq(x.buf, 0 + 1, Len(x.buf))
<1>1. m \in Nat /\ "no" \in Owed BY ServerFields DEF Owed
<1>2. o = Fine(y) \/ (left # 0 /\ o = Outcome(Late(x), 1, FALSE)) BY Zenon DEF Fsync
<1>3. x.tail = t /\ x.buf = b BY MovedNone
<1> HIDE DEF m, t, b
<1>4. y \in Server BY <1>1, Zenon DEF Server
<1>5. /\ y.policy = x.policy /\ y.state = x.state /\ y.fd = x.fd /\ y.data = x.data
      /\ y.selected = x.selected /\ y.rdb = x.rdb /\ y.child = x.child
      /\ y.childBase = x.childBase /\ y.childDiff = x.childDiff /\ y.pipe = x.pipe
      /\ y.rewriteBuf = x.rewriteBuf /\ y.base = x.base /\ y.stop = x.stop
      /\ y.tail = x.tail /\ y.buf = x.buf /\ y.synced = m /\ y.late = "no"
  BY DEF Server
<1> HIDE DEF y
<1>6. FsyncTo(x, y) BY <1>3, <1>5, Zenon DEF FsyncTo, Moved, m, t, b
<1> QED BY <1>2, <1>4, <1>6, LateResult, Zenon DEF ResultOf

\* A write of the whole buffer and its fsync
LEMMA MovedThenFsync ==
  ASSUME NEW x \in Server, NEW y \in Server, NEW z \in Server, NEW n,
         Moved(x, y, n), y.synced = x.synced, y.late = x.late, FsyncTo(y, z)
  PROVE  WrittenTo(x, z, n)
<1>1. z.tail = y.tail /\ z.buf = y.buf BY MovedNone, Zenon DEF FsyncTo, Moved
<1>2. Moved(x, z, n) BY <1>1, Zenon DEF FsyncTo, Moved
<1>3. y.policy = x.policy /\ x.late \in {"no", "tail", "file"} BY ServerFields DEF Moved
<1>4. CASE z.synced = Len(y.tail) BY <1>1, <1>2, <1>4, Zenon DEF WrittenTo
<1>5. CASE /\ z.synced = y.synced
           /\ z.late = IF y.policy = "always" /\ y.late = "no" THEN "tail" ELSE y.late
  BY <1>2, <1>3, <1>5 DEF WrittenTo
<1> QED BY <1>4, <1>5 DEF FsyncTo

\* An fsync with no write is a write of nothing.
LEMMA FsyncGood ==
  ASSUME NEW x, NEW a, NEW h, NEW w, Good(x, a, h, w), NEW left \in Nat, NEW o \in Fsync(x, left)
  PROVE  GoodOutcome(o, a, h, w, left) /\ ~ o.exit /\ o.x.state = x.state
<1>1. x \in Server BY DEF Good
<1>2. PICK y \in Server : FsyncTo(x, y) /\ ResultOf(o, y, left) BY <1>1, FsyncResult
<1>3. x.buf \in Seq(Unit) /\ x.tail \in Seq(Unit) /\ x.late \in {"no", "tail", "file"}
  BY <1>1, ServerFields
<1>4. 0 \in 0..Len(x.buf) BY <1>3
<1>5. WrittenTo(x, y, 0)
  <2>1. Moved(x, y, 0) BY <1>2 DEF FsyncTo
  <2>2. y.tail = x.tail BY <1>1, <2>1, MovedNone, Zenon DEF Moved
  <2>3. CASE y.synced = Len(x.tail) BY <2>1, <2>2, <2>3, Zenon DEF WrittenTo
  <2>4. CASE /\ y.synced = x.synced
             /\ y.late = IF x.policy = "always" /\ x.late = "no" THEN "tail" ELSE x.late
    BY <1>3, <2>1, <2>4 DEF WrittenTo
  <2> QED BY <1>2, <2>3, <2>4 DEF FsyncTo
<1>6. Good(y, a, h, w) BY <1>1, <1>4, <1>5, WrittenGood
<1>7. y.state = x.state BY <1>5 DEF WrittenTo, Moved
<1> QED BY <1>2, <1>6, <1>7, ResultGood

\* WriteOk
LEMMA WriteOkGood ==
  ASSUME NEW x, NEW a, NEW h, NEW w, Good(x, a, h, w), NEW left \in Nat, NEW o \in WriteOk(x, left)
  PROVE  /\ GoodOutcome(o, a, h, w, left) /\ o.x.state = x.state /\ o.x.policy = x.policy
         /\ o.x.buf = <<>>
<1> DEFINE n == Len(x.buf)
           y == [Written(x, n) EXCEPT !.status = "ok"]
<1>1. x \in Server BY DEF Good
<1>2. x.buf \in Seq(Unit) /\ x.tail \in Seq(Unit) /\ n \in 0..Len(x.buf)
  BY <1>1, ServerFields
<1> DEFINE p == SubSeq(x.buf, 1, n)
           q == SubSeq(x.buf, n + 1, Len(x.buf))
           t == x.tail \o p
           k == Len(t)
<1>3. t \in Seq(Unit) /\ q \in Seq(Unit) /\ q = <<>> /\ k \in Nat
  <2>1. p \in Seq(Unit) /\ q \in Seq(Unit) BY <1>2, TwoParts
  <2>2. q = <<>> BY <1>2, SubSeqEmpty
  <2> HIDE DEF p, q
  <2> QED BY <1>2, <2>1, <2>2
<1>4. y = [x EXCEPT !.tail = t, !.buf = q, !.postponed = FALSE, !.status = "ok"]
  BY <1>1 DEF Written, Server
<1>5. ASSUME NEW z \in Server, WrittenTo(x, z, n), ResultOf(o, z, left)
      PROVE  /\ GoodOutcome(o, a, h, w, left) /\ o.x.state = x.state /\ o.x.policy = x.policy
             /\ o.x.buf = <<>>
  <2>1. Good(z, a, h, w) BY <1>1, <1>2, <1>5, WrittenGood
  <2>2. GoodOutcome(o, a, h, w, left) /\ o.x = z BY <1>5, <2>1, ResultGood
  <2> QED BY <1>3, <1>5, <2>2, Zenon DEF WrittenTo, Moved
<1> HIDE DEF y, t, q, k
<1>6. y \in Server BY <1>1, <1>3, <1>4, Zenon DEF Server
<1>7. y.policy = x.policy /\ y.synced = x.synced /\ y.late = x.late BY <1>1, <1>4 DEF Server
<1>8. Moved(x, y, n) BY <1>1, <1>4 DEF Server, Moved, t, q
<1>9. CASE x.policy = "always" /\ o \in Fsync(y, left)
  <2>1. PICK z \in Server : FsyncTo(y, z) /\ ResultOf(o, z, left) BY <1>6, <1>9, FsyncResult
  <2> QED BY <1>1, <1>5, <1>6, <1>7, <1>8, <2>1, MovedThenFsync
<1>10. CASE o = Fine(Late(y))
  <2>1. Late(y) \in Server /\ FsyncTo(y, Late(y)) BY <1>6, LateResult
  <2>2. WrittenTo(x, Late(y), n) BY <1>1, <1>6, <1>7, <1>8, <2>1, MovedThenFsync
  <2> QED BY <1>5, <1>10, <2>1, <2>2, Zenon DEF ResultOf
<1>11. CASE x.policy # "always" /\ o = Fine(y)
  <2>1. WrittenTo(x, y, n) BY <1>7, <1>8, <1>11, Zenon DEF WrittenTo
  <2> QED BY <1>5, <1>6, <1>11, <2>1, Zenon DEF ResultOf
<1>12. CASE x.policy # "always" /\ o = Fine([y EXCEPT !.bio = {"current"}])
  <2> DEFINE z == [y EXCEPT !.bio = {"current"}]
  <2>1. z \in Server BY <1>6, Zenon DEF Server
  <2>2. /\ z.policy = y.policy /\ z.state = y.state /\ z.fd = y.fd /\ z.data = y.data
        /\ z.selected = y.selected /\ z.rdb = y.rdb /\ z.child = y.child
        /\ z.childBase = y.childBase /\ z.childDiff = y.childDiff /\ z.pipe = y.pipe
        /\ z.rewriteBuf = y.rewriteBuf /\ z.base = y.base /\ z.stop = y.stop
        /\ z.tail = y.tail /\ z.buf = y.buf /\ z.synced = y.synced /\ z.late = y.late
    BY <1>6 DEF Server
  <2> HIDE DEF z
  <2>3. WrittenTo(x, z, n) BY <1>7, <1>8, <1>12, <2>2, Zenon DEF WrittenTo, Moved
  <2> QED BY <1>5, <1>12, <2>1, <2>3, Zenon DEF ResultOf, z
<1>13. x.policy \in {"always", "everysec", "no"} BY <1>1, ServerFields, Zenon
<1>14. \/ o = Fine(Late(y)) \/ (x.policy = "always" /\ o \in Fsync(y, left))
       \/ (x.policy # "always" /\ o = Fine(y))
       \/ (x.policy # "always" /\ o = Fine([y EXCEPT !.bio = {"current"}]))
  BY <1>13 DEF WriteOk, y
<1> QED BY <1>9, <1>10, <1>11, <1>12, <1>14, Zenon

\* A write error leaves something in the buffer.
LEMMA WriteFailsGood ==
  ASSUME NEW x, NEW a, NEW h, NEW w, Good(x, a, h, w), x.buf # <<>>, NEW left \in Nat,
         NEW took \in 0..left, NEW n \in 0..(Len(x.buf) - 1)
  PROVE  LET o == WriteFails(x, n, took)
         IN /\ GoodOutcome(o, a, h, w, left) /\ o.x.state = x.state /\ o.x.policy = x.policy
            /\ o.exit = (x.policy = "always")
<1> DEFINE y == WriteError(x, n)
           e == x.policy = "always"
           p == SubSeq(x.buf, 1, n)
           q == SubSeq(x.buf, n + 1, Len(x.buf))
           t == x.tail \o p
<1>1. x \in Server BY DEF Good
<1>2. x.buf \in Seq(Unit) /\ x.tail \in Seq(Unit) /\ n \in 0..Len(x.buf) /\ n # Len(x.buf)
  BY <1>1, ServerFields
<1>3. t \in Seq(Unit) /\ q \in Seq(Unit)
  <2>1. p \in Seq(Unit) /\ q \in Seq(Unit) BY <1>2, TwoParts
  <2> HIDE DEF p, q
  <2> QED BY <1>2, <2>1
<1>4. y = [x EXCEPT !.tail = t, !.buf = q, !.postponed = FALSE, !.status = "err"]
  BY <1>1 DEF WriteError, Written, Server
<1> HIDE DEF y, t, q
<1>5. y \in Server BY <1>1, <1>3, <1>4, Zenon DEF Server
<1>6. WrittenTo(x, y, n) BY <1>1, <1>2, <1>4, Zenon DEF Server, WrittenTo, Moved, t, q
<1>7. Good(y, a, h, w) BY <1>1, <1>2, <1>5, <1>6, WrittenGood
<1>8. y.state = x.state /\ y.policy = x.policy BY <1>6 DEF WrittenTo, Moved
<1>9. e \in BOOLEAN OBVIOUS
<1>10. WriteFails(x, n, took) = Outcome(y, took, e) BY DEF WriteFails, y
<1> HIDE DEF e
<1>11. /\ GoodOutcome(Outcome(y, took, e), a, h, w, left)
       /\ Outcome(y, took, e).x = y /\ Outcome(y, took, e).exit = e
  BY <1>5, <1>7, <1>9, FaultGood
<1> QED BY <1>8, <1>10, <1>11 DEF e

\* flushAppendOnlyFile; under "always" the process exits or the buffer is empty.
LEMMA FlushGood ==
  ASSUME NEW x, NEW a, NEW h, NEW w, Good(x, a, h, w), NEW force \in BOOLEAN, NEW left \in Nat,
         NEW o \in FlushAppendOnlyFile(x, force, left)
  PROVE  /\ GoodOutcome(o, a, h, w, left) /\ o.x.state = x.state /\ o.x.policy = x.policy
         /\ x.policy = "always" => o.exit \/ o.x.buf = <<>>
<1> DEFINE pending == x.policy = "everysec" /\ ~ force /\ x.bio # {}
           y == [x EXCEPT !.postponed = TRUE]
<1>1. x \in Server BY DEF Good
<1>2. x.buf \in Seq(Unit) BY <1>1, ServerFields
<1>3. CASE o = Fine(x) /\ (x.buf = <<>> \/ x.policy # "always")
  BY <1>1, <1>3, FineGood
<1>4. CASE o = Fine(y) /\ x.policy # "always"
  <2>1. y \in Server BY <1>1, Zenon DEF Server
  <2>2. SameFiles(x, y) BY <1>1 DEF Server, SameFiles
  <2>3. Good(y, a, h, w) BY <2>1, <2>2, SameFilesGood
  <2>4. GoodOutcome(Fine(y), a, h, w, left) /\ Fine(y).x = y BY <2>1, <2>3, FineGood
  <2> QED BY <1>4, <2>2, <2>4, Zenon DEF SameFiles
<1>5. CASE o \in WriteOk(x, left)
  BY <1>5, WriteOkGood
<1>6. CASE x.buf # <<>> /\ o = WriteFails(x, 0, 0)
  <2>1. 0 \in 0..left /\ 0 \in 0..(Len(x.buf) - 1) BY <1>2, <1>6
  <2> QED BY <1>6, <2>1, WriteFailsGood, Zenon
<1>7. CASE x.buf # <<>> /\ left # 0 /\ \E n \in 0..(Len(x.buf) - 1) : o = WriteFails(x, n, 1)
  <2>1. 1 \in 0..left BY <1>7
  <2>2. PICK n \in 0..(Len(x.buf) - 1) : o = WriteFails(x, n, 1) BY <1>7
  <2> QED BY <1>7, <2>1, <2>2, WriteFailsGood, Zenon
<1> QED BY <1>3, <1>4, <1>5, <1>6, <1>7 DEF FlushAppendOnlyFile

\* rewriteAppendOnlyFileBackground: the child begins with the dataset.
LEMMA ForkGood ==
  ASSUME NEW x, NEW a, NEW h, NEW w, Good(x, a, h, w), x.child = "none", x.rdb = "none",
         NEW left \in Nat, NEW o \in RewriteAppendOnlyFileBackground(x, left)
  PROVE  GoodOutcome(o, a, h, w, left)
<1> DEFINE y == [x EXCEPT !.child = "run", !.childBase = x.data, !.childDiff = <<>>,
                          !.stop = FALSE, !.scheduled = FALSE, !.selected = -1]
<1>1. x \in Server BY DEF Good
<1>2. x.data \in Dataset /\ <<>> \in Seq(Unit) BY <1>1, ServerFields
<1>3. y \in Server BY <1>1, <1>2, Zenon DEF Server
<1>4. /\ y.policy = x.policy /\ y.state = x.state /\ y.fd = x.fd /\ y.data = x.data
      /\ y.buf = x.buf /\ y.selected = -1 /\ y.rdb = x.rdb /\ y.child = "run"
      /\ y.childBase = x.data /\ y.childDiff = <<>> /\ y.pipe = x.pipe
      /\ y.rewriteBuf = x.rewriteBuf /\ y.base = x.base /\ y.tail = x.tail
      /\ y.synced = x.synced /\ y.late = x.late
  BY <1>1 DEF Server
<1>5. o = Fine(y) \/ (left # 0 /\ o = Outcome(x, 1, FALSE))
  BY Zenon DEF RewriteAppendOnlyFileBackground
<1> HIDE DEF y
<1>6. Sound(y)
  <2>1. x.pipe = <<>> /\ x.rewriteBuf = <<>> BY DEF Good, Sound
  <2>2. <<>> \o (<<>> \o <<>>) = <<>> OBVIOUS
  <2>3. Rebuilds(y.childBase, y.childDiff \o (y.pipe \o y.rewriteBuf), y.data, y.selected)
    BY <1>4, <2>1, <2>2, BaseRebuilds
  <2>4. y.state = "on" => Rebuilds(y.base, y.tail \o y.buf, y.data, y.selected)
    BY <1>4, Deselected DEF Good, Sound
  <2> QED BY <1>4, <2>3, <2>4 DEF Good, Sound
<1>7. Durable(y, a, h, w) BY <1>4 DEF Good, Durable, OnDisk, InFile
<1>8. Good(y, a, h, w) BY <1>3, <1>6, <1>7 DEF Good
<1>9. CASE o = Fine(y) BY <1>3, <1>8, <1>9, FineGood
<1>10. CASE left # 0 /\ o = Outcome(x, 1, FALSE)
  <2>1. 1 \in 0..left /\ FALSE \in BOOLEAN BY <1>10
  <2> QED BY <1>1, <1>10, <2>1, FaultGood, Zenon
<1> QED BY <1>5, <1>9, <1>10, Zenon

\* The end of a rewrite
LEMMA CleanupFields ==
  ASSUME NEW x \in Server
  PROVE  LET y == Cleanup(x)
         IN /\ y \in Server /\ y.policy = x.policy /\ y.state = x.state /\ y.fd = x.fd
            /\ y.data = x.data /\ y.buf = x.buf /\ y.selected = x.selected /\ y.rdb = x.rdb
            /\ y.child = "none" /\ y.pipe = <<>> /\ y.rewriteBuf = <<>> /\ y.base = x.base
            /\ y.tail = x.tail /\ y.synced = x.synced /\ y.late = x.late
<1> DEFINE e == x.scheduled \/ x.state = "wait"
           y == Cleanup(x)
<1>1. y = [x EXCEPT !.child = "none", !.childBase = <<>>, !.childDiff = <<>>, !.pipe = <<>>,
                    !.rewriteBuf = <<>>, !.scheduled = e]
  BY DEF Cleanup
<1>2. e \in BOOLEAN /\ <<>> \in Seq(Unit) /\ <<>> \in Dataset BY DEF Dataset
<1> HIDE DEF e, y
<1>3. y \in Server BY <1>1, <1>2, Zenon DEF Server
<1>4. /\ y.policy = x.policy /\ y.state = x.state /\ y.fd = x.fd /\ y.data = x.data
      /\ y.buf = x.buf /\ y.selected = x.selected /\ y.rdb = x.rdb /\ y.child = "none"
      /\ y.pipe = <<>> /\ y.rewriteBuf = <<>> /\ y.base = x.base /\ y.tail = x.tail
      /\ y.synced = x.synced /\ y.late = x.late
  BY <1>1 DEF Server
<1> QED BY <1>3, <1>4, Zenon DEF y

\* A rewrite that failed
LEMMA CleanupGood ==
  ASSUME NEW x, NEW a, NEW h, NEW w, Good(x, a, h, w)
  PROVE  Good(Cleanup(x), a, h, w)
<1> DEFINE y == Cleanup(x)
<1>1. x \in Server BY DEF Good
<1>4. y \in Server BY <1>1, CleanupFields, Zenon
<1>5. /\ y.policy = x.policy /\ y.state = x.state /\ y.fd = x.fd /\ y.data = x.data
      /\ y.buf = x.buf /\ y.selected = x.selected /\ y.rdb = x.rdb /\ y.child = "none"
      /\ y.pipe = <<>> /\ y.rewriteBuf = <<>> /\ y.base = x.base /\ y.tail = x.tail
      /\ y.synced = x.synced /\ y.late = x.late
  BY <1>1, CleanupFields, Zenon
<1> HIDE DEF y
<1>6. Len(<<>>) <= PipeSize BY AofAssumption
<1>7. Sound(y) BY <1>5, <1>6 DEF Good, Sound
<1>8. Durable(y, a, h, w) BY <1>5 DEF Good, Durable, OnDisk, InFile
<1> QED BY <1>4, <1>7, <1>8 DEF Good, y

\* c is x after the child's file has taken the place of the file, fsynced or not.
SwitchedTo(x, c) ==
  /\ c.policy = x.policy /\ c.data = x.data /\ c.rdb = x.rdb /\ c.state = x.state
  /\ c.fd = (IF x.fd = "none" THEN "none" ELSE "open")
  /\ c.buf = (IF x.fd = "none" THEN x.buf ELSE <<>>)
  /\ c.selected = (IF x.fd = "none" THEN x.selected ELSE -1)
  /\ c.base = x.childBase /\ c.tail = x.childDiff \o x.rewriteBuf
  /\ \/ c.synced = Len(c.tail)
     \/ c.synced = Len(x.childDiff) /\ (x.fd # "none" /\ x.policy = "always" => c.late = "file")

\* The file is replaced, ...
LEMMA ReplacedFields ==
  ASSUME NEW x \in Server
  PROVE  LET z == Replaced(x)
         IN /\ z \in Server /\ z.policy = x.policy /\ z.data = x.data /\ z.rdb = x.rdb
            /\ z.state = x.state /\ z.fd = x.fd /\ z.buf = x.buf /\ z.selected = x.selected
            /\ z.base = x.childBase /\ z.tail = x.childDiff \o x.rewriteBuf
            /\ z.synced = Len(x.childDiff)
<1> DEFINE t == x.childDiff \o x.rewriteBuf
           k == Len(x.childDiff)
           z == [x EXCEPT !.base = x.childBase, !.tail = t, !.synced = k, !.late = "no"]
<1>1. x.childDiff \in Seq(Unit) /\ x.rewriteBuf \in Seq(Unit) /\ x.childBase \in Dataset
  BY ServerFields
<1>2. t \in Seq(Unit) /\ k \in Nat /\ "no" \in Owed BY <1>1 DEF Owed
<1>3. Replaced(x) = z BY DEF Replaced
<1> HIDE DEF t, k
<1>4. z \in Server BY <1>1, <1>2, Zenon DEF Server
<1>5. /\ z.policy = x.policy /\ z.data = x.data /\ z.rdb = x.rdb /\ z.state = x.state
      /\ z.fd = x.fd /\ z.buf = x.buf /\ z.selected = x.selected
      /\ z.base = x.childBase /\ z.tail = t /\ z.synced = k
  BY DEF Server
<1> HIDE DEF z
<1> QED BY <1>3, <1>4, <1>5, Zenon DEF t, k

\* ... and the server goes on with it.
LEMMA SwitchFileResult ==
  ASSUME NEW x \in Server, x.fd # "none", NEW left, NEW o \in SwitchFile(Replaced(x), left)
  PROVE  \E c \in Server : SwitchedTo(x, c) /\ ResultOf(o, c, left)
<1> DEFINE z == Replaced(x)
           b == OldJobs(z)
           y == [z EXCEPT !.fd = "open", !.bio = b, !.selected = -1, !.buf = <<>>]
           f == [y EXCEPT !.late = "file"]
           e == y.bio \cup {"current"}
           g == [y EXCEPT !.bio = e]
<1>1. /\ z \in Server /\ z.policy = x.policy /\ z.data = x.data /\ z.rdb = x.rdb
      /\ z.state = x.state /\ z.base = x.childBase /\ z.tail = x.childDiff \o x.rewriteBuf
      /\ z.synced = Len(x.childDiff)
  BY ReplacedFields, Zenon
<1>2. b \in SUBSET {"old", "current"} /\ <<>> \in Seq(Unit) BY DEF OldJobs
<1>3. z.policy \in {"always", "everysec", "no"} BY <1>1, ServerFields
<1>4. \/ z.policy = "always" /\ o \in Fsync(f, left)
      \/ z.policy # "always" /\ o = Fine(g)
      \/ z.policy # "always" /\ o = Fine(y)
  <2> HIDE DEF z
  <2>1. o \in SwitchFile(z, left) BY DEF z
  <2> QED BY <1>3, <2>1 DEF SwitchFile
<1> HIDE DEF z, b
<1>5. y \in Server BY <1>1, <1>2, Zenon DEF Server
<1>6. /\ y.policy = z.policy /\ y.data = z.data /\ y.rdb = z.rdb /\ y.state = z.state
      /\ y.fd = "open" /\ y.buf = <<>> /\ y.selected = -1 /\ y.base = z.base
      /\ y.tail = z.tail /\ y.synced = z.synced
  BY <1>1 DEF Server
<1> HIDE DEF y
<1>7. e \in SUBSET {"old", "current"} /\ "file" \in Owed BY <1>5 DEF Server, Owed
<1> HIDE DEF e
<1>8. f \in Server /\ g \in Server BY <1>5, <1>7, Zenon DEF Server
<1>9. /\ f.policy = y.policy /\ f.data = y.data /\ f.rdb = y.rdb /\ f.state = y.state
      /\ f.fd = y.fd /\ f.buf = y.buf /\ f.selected = y.selected /\ f.base = y.base
      /\ f.tail = y.tail /\ f.synced = y.synced /\ f.late = "file"
  BY <1>5 DEF Server
<1>10. /\ g.policy = y.policy /\ g.data = y.data /\ g.rdb = y.rdb /\ g.state = y.state
       /\ g.fd = y.fd /\ g.buf = y.buf /\ g.selected = y.selected /\ g.base = y.base
       /\ g.tail = y.tail /\ g.synced = y.synced
  BY <1>5 DEF Server
<1> HIDE DEF f, g
<1>11. CASE z.policy # "always"
  <2>1. SwitchedTo(x, y) BY <1>1, <1>6, <1>11 DEF SwitchedTo
  <2>2. SwitchedTo(x, g) BY <1>1, <1>6, <1>10, <1>11 DEF SwitchedTo
  <2> QED BY <1>4, <1>5, <1>8, <1>11, <2>1, <2>2 DEF ResultOf
<1>12. CASE z.policy = "always"
  <2>1. PICK c \in Server : FsyncTo(f, c) /\ ResultOf(o, c, left)
    BY <1>4, <1>8, <1>12, FsyncResult
  <2>2. c.tail = f.tail /\ c.buf = f.buf BY <1>8, <2>1, MovedNone, Zenon DEF FsyncTo, Moved
  <2>3. /\ c.policy = f.policy /\ c.data = f.data /\ c.rdb = f.rdb /\ c.state = f.state
        /\ c.fd = f.fd /\ c.selected = f.selected /\ c.base = f.base
    BY <2>1, Zenon DEF FsyncTo, Moved
  <2>4. \/ c.synced = Len(c.tail)
        \/ c.synced = f.synced /\ c.late = "file"
    BY <1>9, <2>1, <2>2 DEF FsyncTo
  <2>5. SwitchedTo(x, c) BY <1>1, <1>6, <1>9, <2>2, <2>3, <2>4 DEF SwitchedTo
  <2> QED BY <2>1, <2>5
<1> QED BY <1>11, <1>12

\* y is x after a rewrite that succeeded.
RewrittenTo(x, y) ==
  /\ y \in Server /\ y.policy = x.policy /\ y.data = x.data /\ y.rdb = x.rdb
  /\ y.state = (IF x.state = "wait" THEN "on" ELSE x.state)
  /\ y.fd = (IF x.fd = "none" THEN "none" ELSE "open")
  /\ y.buf = (IF x.fd = "none" THEN x.buf ELSE <<>>)
  /\ y.selected = (IF x.fd = "none" THEN x.selected ELSE -1)
  /\ y.child = "none" /\ y.pipe = <<>> /\ y.rewriteBuf = <<>>
  /\ y.base = x.childBase /\ y.tail = x.childDiff \o x.rewriteBuf
  /\ \/ y.synced = Len(y.tail)
     \/ y.synced = Len(x.childDiff) /\ (x.fd # "none" /\ x.policy = "always" => y.late = "file")

\* The end of the rewrite, after the switch
LEMMA DoneFields ==
  ASSUME NEW x \in Server, NEW c \in Server, SwitchedTo(x, c)
  PROVE  RewrittenTo(x, Cleanup([c EXCEPT !.state = IF @ = "wait" THEN "on" ELSE @]))
<1> DEFINE g == IF c.state = "wait" THEN "on" ELSE c.state
           f == [c EXCEPT !.state = g]
           y == Cleanup(f)
<1>1. Cleanup([c EXCEPT !.state = IF @ = "wait" THEN "on" ELSE @]) = y OBVIOUS
<1>2. g \in {"off", "wait", "on", "down"} /\ g = IF x.state = "wait" THEN "on" ELSE x.state
  BY ServerFields DEF SwitchedTo
<1> HIDE DEF g
<1>3. f \in Server BY <1>2, Zenon DEF Server
<1>4. /\ f.policy = c.policy /\ f.data = c.data /\ f.rdb = c.rdb /\ f.state = g
      /\ f.fd = c.fd /\ f.buf = c.buf /\ f.selected = c.selected
      /\ f.base = c.base /\ f.tail = c.tail /\ f.synced = c.synced /\ f.late = c.late
  BY DEF Server
<1> HIDE DEF f
<1>5. /\ y \in Server /\ y.policy = c.policy /\ y.data = c.data /\ y.rdb = c.rdb /\ y.state = g
      /\ y.fd = c.fd /\ y.buf = c.buf /\ y.selected = c.selected
      /\ y.child = "none" /\ y.pipe = <<>> /\ y.rewriteBuf = <<>>
      /\ y.base = c.base /\ y.tail = c.tail /\ y.synced = c.synced /\ y.late = c.late
  BY <1>3, <1>4, CleanupFields, Zenon
<1> HIDE DEF y
<1>6. RewrittenTo(x, y) BY <1>2, <1>5, Zenon DEF RewrittenTo, SwitchedTo
<1> QED BY <1>1, <1>6, Zenon

\* The child's file with the rest of the diff takes the place of the file.
LEMMA RewrittenGood ==
  ASSUME NEW x, NEW a, NEW h, NEW w, Good(x, a, h, w), x.child = "ok", x.state # "down",
         NEW y, RewrittenTo(x, y)
  PROVE  Good(y, a, h, w)
<1> DEFINE t == x.childDiff \o x.rewriteBuf
<1>1. x \in Server BY DEF Good
<1>2. /\ x.childDiff \in Seq(Unit) /\ x.rewriteBuf \in Seq(Unit) /\ x.childBase \in Dataset
      /\ x.state \in {"off", "wait", "on"}
  BY <1>1, ServerFields
<1>3. /\ y \in Server /\ y.policy = x.policy /\ y.data = x.data /\ y.rdb = x.rdb
      /\ y.state = (IF x.state = "wait" THEN "on" ELSE x.state)
      /\ y.fd = (IF x.fd = "none" THEN "none" ELSE "open")
      /\ y.buf = (IF x.fd = "none" THEN x.buf ELSE <<>>)
      /\ y.selected = (IF x.fd = "none" THEN x.selected ELSE -1)
      /\ y.child = "none" /\ y.pipe = <<>> /\ y.rewriteBuf = <<>>
      /\ y.base = x.childBase /\ y.tail = t
      /\ \/ y.synced = Len(y.tail)
         \/ /\ y.synced = Len(x.childDiff)
            /\ x.fd # "none" /\ x.policy = "always" => y.late = "file"
  BY Zenon DEF RewrittenTo
<1>4. /\ t \in Seq(Unit) /\ Len(x.childDiff) \in 0..Len(t) /\ t \o <<>> = t
      /\ x.childDiff \o (<<>> \o x.rewriteBuf) = t
  <2>1. t \in Seq(Unit) /\ Len(x.childDiff) \in 0..Len(t)
    <3>1. t \in Seq(Unit) /\ Len(t) = Len(x.childDiff) + Len(x.rewriteBuf) BY <1>2
    <3> DEFINE k == Len(x.childDiff)
               m == Len(x.rewriteBuf)
    <3>2. k \in Nat /\ m \in Nat BY <1>2
    <3> HIDE DEF t, k, m
    <3>3. Len(t) = k + m BY <3>1 DEF k, m
    <3>4. k \in 0..Len(t) BY <3>2, <3>3
    <3> QED BY <3>1, <3>4, Zenon DEF k
  <2>2. <<>> \o x.rewriteBuf = x.rewriteBuf BY <1>2
  <2>3. t \o <<>> = t
    <3> HIDE DEF t
    <3> QED BY <2>1
  <2> QED BY <2>1, <2>2, <2>3, Zenon
<1> HIDE DEF t
<1>5. y.synced \in 0..Len(t)
  <2>1. y.synced = Len(t) \/ y.synced = Len(x.childDiff) BY <1>3, Zenon
  <2>2. Len(t) \in 0..Len(t) BY <1>4
  <2> QED BY <1>4, <2>1, <2>2, Zenon
<1>6. ASSUME x.state \in {"on", "wait"}
      PROVE  Rebuilds(y.base, t, y.data, -1) /\ x.fd = "open" /\ y.buf = <<>>
  <2>1. Rebuilds(x.childBase, t, x.data, x.selected) /\ x.fd = "open"
    BY <1>4, <1>6, Zenon DEF Good, Sound
  <2> QED BY <1>3, <2>1, Deselected
<1>7. Sound(y)
  <2>1. y.state \in {"on", "wait"} => x.state \in {"on", "wait"} BY <1>3
  <2>2. Len(<<>>) <= PipeSize BY AofAssumption
  <2>3. y.state = "on" => Rebuilds(y.base, y.tail \o y.buf, y.data, y.selected)
    BY <1>3, <1>4, <1>6, <2>1, Zenon
  <2>4. y.synced <= Len(y.tail) BY <1>3, <1>5
  <2> QED BY <1>3, <1>6, <2>1, <2>2, <2>3, <2>4 DEF Sound
<1>8. Durable(y, a, h, w)
  <2>1. ASSUME x.state \in {"on", "wait"}, x.policy = "always"
        PROVE  Durable(y, a, h, w)
    <3>1. InFile(y) = Ids(y.data) BY <1>3, <1>6, <2>1, Zenon DEF InFile, Rebuilds
    <3>2. y.late # "file" => OnDisk(y) = Ids(y.data)
      <4>1. SubSeq(t, 1, Len(t)) = t BY <1>4, PrefixSteps, Zenon
      <4>2. y.late # "file" => y.synced = Len(t) BY <1>3, <1>6, <2>1
      <4> QED BY <1>3, <3>1, <4>1, <4>2, Zenon DEF OnDisk, InFile
    <3>3. /\ w \subseteq Ids(y.data) /\ h \subseteq a /\ a \subseteq Ids(y.data)
      BY <1>3, <2>1 DEF Good, Durable
    <3> QED BY <1>3, <2>1, <3>1, <3>2, <3>3 DEF Durable
  <2>2. ASSUME x.state = "off", x.policy = "always"
        PROVE  Durable(y, a, h, w)
    <3>1. 0 \in 0..Len(t) /\ y.synced \in 0..Len(t) /\ Len(t) \in 0..Len(t) BY <1>4, <1>5
    <3>2. /\ Ids(LoadAppendOnlyFile(x.childBase, SubSeq(t, 1, 0)).data)
               \subseteq Ids(LoadAppendOnlyFile(x.childBase, SubSeq(t, 1, y.synced)).data)
          /\ Ids(LoadAppendOnlyFile(x.childBase, SubSeq(t, 1, 0)).data)
               \subseteq Ids(LoadAppendOnlyFile(x.childBase, SubSeq(t, 1, Len(t))).data)
      BY <1>2, <1>4, <3>1, LoadGrows, Zenon
    <3>3. LoadAppendOnlyFile(x.childBase, SubSeq(t, 1, 0)).data = x.childBase
      <4>1. SubSeq(t, 1, 0) = <<>> BY <1>4, PrefixSteps
      <4>2. LoadAppendOnlyFile(x.childBase, <<>>).data = x.childBase BY LoadEmpty DEF Begin
      <4> QED BY <4>1, <4>2, Zenon
    <3>4. SubSeq(t, 1, Len(t)) = t BY <1>4, PrefixSteps, Zenon
    <3>5. Ids(x.childBase) \subseteq OnDisk(y) /\ Ids(x.childBase) \subseteq InFile(y)
      BY <1>3, <3>2, <3>3, <3>4, Zenon DEF OnDisk, InFile
    <3>6. /\ w \subseteq Ids(y.data) /\ h \subseteq a /\ a \subseteq Ids(y.data)
          /\ a \subseteq Ids(x.childBase)
      BY <1>3, <2>2 DEF Good, Durable
    <3>7. a \subseteq OnDisk(y) /\ a \subseteq InFile(y) /\ h \subseteq OnDisk(y)
      BY <3>5, <3>6, Zenon
    <3> QED BY <1>3, <2>2, <3>6, <3>7 DEF Durable
  <2>3. CASE x.policy # "always" BY <1>3, <2>3 DEF Good, Durable
  <2> QED BY <1>2, <2>1, <2>2, <2>3
<1> QED BY <1>3, <1>7, <1>8 DEF Good

\* backgroundRewriteDoneHandler
LEMMA RewriteDoneGood ==
  ASSUME NEW x, NEW a, NEW h, NEW w, Good(x, a, h, w), x.state # "down",
         NEW left \in Nat, NEW o \in BackgroundRewriteDone(x, left)
  PROVE  GoodOutcome(o, a, h, w, left)
<1>1. Good(Cleanup(x), a, h, w) /\ Cleanup(x) \in Server BY CleanupGood DEF Good
<1>2. CASE o = Fine(Cleanup(x)) BY <1>1, <1>2, FineGood
<1>3. CASE left # 0 /\ o = Outcome(Cleanup(x), 1, FALSE)
  <2>1. 1 \in 0..left /\ FALSE \in BOOLEAN BY <1>3
  <2> QED BY <1>1, <1>3, <2>1, FaultGood, Zenon
<1> DEFINE switched == IF x.fd = "none" THEN {Fine(Replaced(x))}
                       ELSE SwitchFile(Replaced(x), left)
           Done(y) == Cleanup([y EXCEPT !.state = IF @ = "wait" THEN "on" ELSE @])
<1>4. CASE x.child = "ok" /\ \E p \in switched : o = [p EXCEPT !.x = Done(@)]
  <2>1. x \in Server BY DEF Good
  <2>2. PICK p \in switched : o = [p EXCEPT !.x = Done(@)] BY <1>4
  <2>3. \E c \in Server : SwitchedTo(x, c) /\ ResultOf(p, c, left)
    <3>1. CASE x.fd = "none"
      <4>1. Replaced(x) \in Server BY <2>1, ReplacedFields, Zenon
      <4>2. SwitchedTo(x, Replaced(x)) BY <2>1, <3>1, ReplacedFields DEF SwitchedTo
      <4> QED BY <3>1, <4>1, <4>2 DEF ResultOf
    <3>2. CASE x.fd # "none"
      <4>1. p \in SwitchFile(Replaced(x), left) BY <3>2
      <4> QED BY <2>1, <3>2, <4>1, SwitchFileResult, Zenon
    <3> QED BY <3>1, <3>2
  <2>4. PICK c \in Server : SwitchedTo(x, c) /\ ResultOf(p, c, left) BY <2>3
  <2>5. RewrittenTo(x, Done(c)) BY <2>1, <2>4, DoneFields
  <2>6. Good(Done(c), a, h, w) /\ Done(c) \in Server BY <1>4, <2>5, RewrittenGood DEF Good
  <2> HIDE DEF Done, switched
  <2>7. ResultOf(o, Done(c), left)
    <3>1. p.x = c BY <2>4 DEF ResultOf, Fine, Outcome
    <3> DEFINE d == Done(c)
    <3>2. o = [p EXCEPT !.x = d] BY <2>2, <3>1
    <3> HIDE DEF d
    <3>3. CASE p = Fine(c)
      <4>1. o = Fine(d) BY <3>2, <3>3 DEF Fine, Outcome
      <4> QED BY <4>1, Zenon DEF ResultOf, d
    <3>4. CASE left # 0 /\ p = Outcome(c, 1, FALSE)
      <4>1. o = Outcome(d, 1, FALSE) BY <3>2, <3>4 DEF Outcome
      <4> QED BY <3>4, <4>1, Zenon DEF ResultOf, d
    <3> QED BY <2>4, <3>3, <3>4, Zenon DEF ResultOf
  <2> QED BY <2>6, <2>7, ResultGood
<1>5. \/ o = Fine(Cleanup(x)) \/ (left # 0 /\ o = Outcome(Cleanup(x), 1, FALSE))
      \/ (x.child = "ok" /\ \E p \in switched : o = [p EXCEPT !.x = Done(@)])
  BY Zenon DEF BackgroundRewriteDone
<1> QED BY <1>2, <1>3, <1>4, <1>5, Zenon

-----------------------------------------------------------------------------
(* The actions                                                             *)

\* What a handler leaves is good also with the writes it acknowledges: under "always" they
\* are in the file, and on disk unless their fsync is due.
LEMMA AckedGood ==
  ASSUME NEW x, NEW a, NEW h, NEW w, NEW v \in SUBSET w, NEW k, Good(x, a, h, w),
         v # {} => x.policy = "always" /\ x.state = "on" /\ x.buf = <<>>,
         k \subseteq a \cup v, x.late = "tail" => k \subseteq h
  PROVE  Good(x, a \cup v, k, w)
<1>1. CASE v = {}
  <2>1. a \cup v = a BY <1>1
  <2>2. Durable(x, a, k, w) BY <2>1 DEF Good, Durable
  <2> QED BY <2>1, <2>2 DEF Good
<1>2. CASE v # {}
  <2>1. /\ x \in Server /\ Sound(x) /\ x.policy = "always" /\ x.state = "on" /\ x.buf = <<>>
    BY <1>2 DEF Good
  <2>2. x.tail \o x.buf = x.tail BY <2>1, ServerFields
  <2>3. InFile(x) = Ids(x.data) BY <2>1, <2>2, Zenon DEF Sound, Rebuilds, InFile
  <2>4. Durable(x, a \cup v, k, w) BY <2>1, <2>3 DEF Good, Durable
  <2> QED BY <2>1, <2>4 DEF Good
<1> QED BY <1>1, <1>2

\* The process may exit and start again.
LEMMA ExitGood ==
  ASSUME NEW x, NEW a, NEW h, NEW w, Good(x, a, h, w)
  PROVE  Good(Start(x, x.tail, x.synced, x.late), a, h, {})
<1>1. x \in Server /\ Sound(x) /\ Durable(x, a, h, w) BY DEF Good
<1>2. /\ x.policy \in {"always", "everysec", "no"} /\ x.skip \in BOOLEAN /\ x.base \in Dataset
      /\ x.tail \in Seq(Unit) /\ x.late \in {"no", "tail", "file"}
      /\ x.synced \in 0..Len(x.tail)
  BY <1>1, ServerFields DEF Sound
<1>3. /\ h \in SUBSET a /\ (x.policy # "always" => a = {})
      /\ a \subseteq Ids(LoadAppendOnlyFile(x.base, x.tail).data)
      /\ x.late = "no" => a \subseteq Ids(LoadAppendOnlyFile(x.base, SubSeq(x.tail, 1, x.synced)).data)
      /\ x.late = "tail" => h \subseteq Ids(LoadAppendOnlyFile(x.base, SubSeq(x.tail, 1, x.synced)).data)
  BY <1>1 DEF Durable, InFile, OnDisk
<1> QED BY <1>2, <1>3, StartGood

\* A handler whose outcome is good keeps the invariant, whether or not the process exits.
LEMMA BecomeInv ==
  ASSUME Inv, NEW o, Become(o), next' = next, o.took \in Nat, o.took <= faults,
         Good(o.x, acked, Kept, waiting),
         Sent(o) # {} => o.x.policy = "always" /\ o.x.state = "on" /\ o.x.buf = <<>>
  PROVE  Inv'
<1>1. faults' \in 0..MaxFaults
  <2>1. faults' = faults - o.took BY DEF Become
  <2>2. faults \in 0..MaxFaults BY DEF Inv
  <2> QED BY <2>1, <2>2, AofAssumption
<1>2. waiting' \in SUBSET waiting /\ acked' = acked \cup Sent(o) /\ Sent(o) \in SUBSET waiting
  BY DEF Become, Sent
<1>3. o.x.late \in {"no", "tail", "file"} BY ServerFields DEF Good
<1>4. risk' = IF o.x.late = "no" THEN {} ELSE IF o.x.late = "tail" THEN risk \cup Sent(o) ELSE acked'
  BY <1>3 DEF Become
<1>5. risk' \subseteq acked' /\ (o.x.late = "file" => risk' = acked') BY <1>2, <1>4 DEF Inv
<1>6. Kept' = acked' \ risk' BY DEF Kept
<1>7. Kept' \subseteq acked \cup Sent(o) /\ (o.x.late = "tail" => Kept' \subseteq Kept)
  <2>1. Kept = acked \ risk BY DEF Kept
  <2> QED BY <1>2, <1>4, <1>6, <2>1
<1>8. Good(o.x, acked', Kept', waiting)
  <2> DEFINE v == Sent(o)
             k == Kept'
  <2>1. k \subseteq acked \cup v /\ (o.x.late = "tail" => k \subseteq Kept) BY <1>7
  <2>2. v \in SUBSET waiting BY <1>2
  <2>3. v # {} => o.x.policy = "always" /\ o.x.state = "on" /\ o.x.buf = <<>> OBVIOUS
  <2> HIDE DEF v, k
  <2>4. Good(o.x, acked \cup v, k, waiting) BY <2>1, <2>2, <2>3, AckedGood
  <2> QED BY <1>2, <2>4 DEF v, k
<1>9. Good(s', acked', Kept', waiting') /\ s'.late = o.x.late
  <2>1. CASE o.exit
    <3>1. s' = Start(o.x, o.x.tail, o.x.synced, o.x.late) /\ waiting' = {}
      BY <2>1 DEF Become
    <3>2. Good(Start(o.x, o.x.tail, o.x.synced, o.x.late), acked', Kept', {})
      <4> DEFINE k == Kept'
      <4>1. Good(o.x, acked', k, waiting) BY <1>8
      <4> HIDE DEF k
      <4>2. Good(Start(o.x, o.x.tail, o.x.synced, o.x.late), acked', k, {}) BY <4>1, ExitGood
      <4> QED BY <4>2 DEF k
    <3>3. Start(o.x, o.x.tail, o.x.synced, o.x.late).late = o.x.late BY DEF Start
    <3> QED BY <3>1, <3>2, <3>3
  <2>2. CASE ~ o.exit
    <3>1. s' = o.x BY <2>2 DEF Become
    <3> DEFINE k == Kept'
    <3>2. Good(o.x, acked', k, waiting) BY <1>8
    <3> HIDE DEF k
    <3>3. Good(o.x, acked', k, waiting') BY <1>2, <3>2, FewerWait
    <3> QED BY <3>1, <3>3 DEF k
  <2> QED BY <2>1, <2>2
<1>10. acked' \subseteq 1..(next - 1) /\ waiting' \subseteq 1..(next - 1) BY <1>2 DEF Inv
<1>11. next' \in 1..(MaxWrites + 1) BY DEF Inv
<1> QED BY <1>1, <1>5, <1>9, <1>10, <1>11, Zenon DEF Inv

\* The handlers that send no reply
LEMMA OutcomeInv ==
  ASSUME Inv, NEW o, Become(o), next' = next, GoodOutcome(o, acked, Kept, waiting, faults)
  PROVE  Inv'
<1>1. o.took \in Nat /\ o.took <= faults /\ o.replied = FALSE /\ Good(o.x, acked, Kept, waiting)
  BY DEF GoodOutcome, OutcomeType
<1>2. Sent(o) = {} BY <1>1 DEF Sent
<1> QED BY <1>1, <1>2, BecomeInv

\* A command that writes
LEMMA WriteInv ==
  ASSUME Inv, NEW db \in DB, Write(db)
  PROVE  Inv'
<1> DEFINE units == Units(next, db, s.selected)
           r == [id |-> next, db |-> db]
           d == Append(s.data, r)
           on == s.state # "off"
           g == IF on THEN db ELSE s.selected
           b == IF s.state = "on" THEN s.buf \o units ELSE s.buf
           q == IF on /\ s.child # "none" THEN s.rewriteBuf \o units ELSE s.rewriteBuf
<1>1. s \in Server /\ Sound(s) /\ Durable(s, acked, Kept, waiting) BY DEF Inv, Good
<1>2. next \in Nat \ {0} /\ next' = next + 1 /\ next <= MaxWrites /\ db \in Int /\ MaxWrites \in Nat
  BY AofAssumption DEF Inv, Write
<1>3. units \in Seq(Unit) /\ units # <<>> BY <1>2, UnitsType, Zenon
<1>4. r \in [id : Nat, db : Int] BY <1>2
<1>5. /\ s.data \in Dataset /\ s.buf \in Seq(Unit) /\ s.rewriteBuf \in Seq(Unit)
      /\ s.selected \in DB \cup {-1} /\ s.base \in Dataset /\ s.tail \in Seq(Unit)
      /\ s.childBase \in Dataset /\ s.childDiff \in Seq(Unit) /\ s.pipe \in Seq(Unit)
  BY <1>1, ServerFields
<1>6. s' = [s EXCEPT !.selected = g, !.buf = b, !.rewriteBuf = q, !.data = d]
  <2> HIDE DEF units
  <2> QED BY <1>1, Zenon DEF Write, Server, units
<1> HIDE DEF units, r
<1>7. d \in Dataset /\ Ids(d) = Ids(s.data) \cup {next}
  <2>1. d \in Dataset /\ Len(d) = Len(s.data) + 1 /\ d[Len(d)] = r
        /\ \A i \in 1..Len(s.data) : d[i] = s.data[i]
    BY <1>4, <1>5 DEF Dataset
  <2>2. DOMAIN s.data = 1..Len(s.data) /\ DOMAIN d = 1..Len(d) /\ Len(s.data) \in Nat
    BY <1>5, <2>1 DEF Dataset
  <2>3. r.id = next BY DEF r
  <2> HIDE DEF d
  <2> QED BY <2>1, <2>2, <2>3 DEF Ids
<1>8. b \in Seq(Unit) /\ q \in Seq(Unit) /\ g \in DB \cup {-1} BY <1>3, <1>5
<1> HIDE DEF d, b, q, g
<1>9. s' \in Server BY <1>1, <1>6, <1>7, <1>8, Zenon DEF Server
<1>10. /\ s'.policy = s.policy /\ s'.state = s.state /\ s'.fd = s.fd /\ s'.data = d
       /\ s'.buf = b /\ s'.selected = g /\ s'.rdb = s.rdb /\ s'.child = s.child
       /\ s'.childBase = s.childBase /\ s'.childDiff = s.childDiff /\ s'.pipe = s.pipe
       /\ s'.rewriteBuf = q /\ s'.base = s.base /\ s'.tail = s.tail /\ s'.synced = s.synced
       /\ s'.stop = s.stop /\ s'.late = s.late
  BY <1>1, <1>6 DEF Server
<1>11. ASSUME s.state = "on"
       PROVE  Rebuilds(s.base, s.tail \o b, d, g) /\ b # <<>>
  <2>1. Rebuilds(s.base, s.tail \o s.buf, s.data, s.selected) BY <1>1, <1>11 DEF Sound
  <2>2. s.tail \o s.buf \in Seq(Unit) BY <1>5
  <2> DEFINE t == s.tail \o s.buf
  <2>3. Rebuilds(s.base, t \o units, d, db)
    <3> HIDE DEF t
    <3>1. t \in Seq(Unit) /\ Rebuilds(s.base, t, s.data, s.selected) BY <2>1, <2>2 DEF t
    <3> QED BY <1>2, <1>5, <3>1, FeedRebuilds, Zenon DEF units, d, r
  <2>5. t \o units = s.tail \o (s.buf \o units)
    <3>1. s.tail \in Seq(Unit) /\ s.buf \in Seq(Unit) /\ units \in Seq(Unit) BY <1>3, <1>5
    <3> QED BY <3>1, UnitsAssoc, Zenon
  <2>6. b = s.buf \o units /\ g = db BY <1>11 DEF b, g
  <2>7. s.buf \o units # <<>> BY <1>3, <1>5
  <2> QED BY <2>3, <2>5, <2>6, <2>7
<1>12. ASSUME s.state \in {"on", "wait"}, s.child \in {"run", "asked", "ok"}
       PROVE  Rebuilds(s.childBase, s.childDiff \o (s.pipe \o q), d, g)
  <2> DEFINE v == s.pipe \o s.rewriteBuf
             t == s.childDiff \o v
  <2>1. Rebuilds(s.childBase, t, s.data, s.selected) BY <1>1, <1>12 DEF Sound
  <2>2. v \in Seq(Unit) BY <1>5
  <2>3. t \in Seq(Unit)
    <3> HIDE DEF v
    <3> QED BY <1>5, <2>2
  <2>4. Rebuilds(s.childBase, t \o units, d, db)
    <3> HIDE DEF t
    <3> QED BY <1>2, <1>5, <2>1, <2>3, FeedRebuilds, Zenon DEF units, d, r
  <2>6. t \o units = s.childDiff \o (v \o units)
    <3>1. s.childDiff \in Seq(Unit) /\ v \in Seq(Unit) /\ units \in Seq(Unit)
      BY <1>3, <1>5, <2>2
    <3> HIDE DEF v
    <3> QED BY <3>1, UnitsAssoc, Zenon
  <2>7. v \o units = s.pipe \o (s.rewriteBuf \o units)
    <3>1. s.pipe \in Seq(Unit) /\ s.rewriteBuf \in Seq(Unit) /\ units \in Seq(Unit)
      BY <1>3, <1>5
    <3> QED BY <3>1, UnitsAssoc, Zenon
  <2>8. q = s.rewriteBuf \o units /\ g = db BY <1>12 DEF q, g
  <2> HIDE DEF v, t
  <2> QED BY <2>4, <2>6, <2>7, <2>8
<1>13. Sound(s')
  <2>1. s.child = "none" => q = s.rewriteBuf BY DEF q
  <2> QED BY <1>1, <1>10, <1>11, <1>12, <2>1 DEF Sound
<1>14. Durable(s', acked, Kept, waiting')
  <2>1. waiting' = waiting \cup {next} BY DEF Write
  <2>2. OnDisk(s') = OnDisk(s) /\ InFile(s') = InFile(s) BY <1>10 DEF OnDisk, InFile
  <2> QED BY <1>1, <1>7, <1>10, <1>11, <2>1, <2>2 DEF Durable
<1>15. /\ next' \in 1..(MaxWrites + 1) /\ faults' \in 0..MaxFaults
       /\ acked' \subseteq 1..(next' - 1) /\ waiting' \subseteq 1..(next' - 1)
  <2>1. acked' = acked /\ faults' = faults /\ waiting' = waiting \cup {next} BY DEF Write
  <2>2. 1..(next - 1) \subseteq 1..(next' - 1) /\ next \in 1..(next' - 1) BY <1>2
  <2>3. next' \in 1..(MaxWrites + 1) BY <1>2
  <2> QED BY <2>1, <2>2, <2>3, Zenon DEF Inv
<1>16. acked' = acked /\ risk' = risk BY DEF Write
<1>17. Kept' = Kept BY <1>16 DEF Kept
<1>18. risk' \subseteq acked' /\ (s'.late = "file" => risk' = acked') BY <1>10, <1>16 DEF Inv
<1> QED BY <1>9, <1>13, <1>14, <1>15, <1>16, <1>17, <1>18, Zenon DEF Inv, Good

\* The steps that execute no write and send no reply
LEMMA KeepInv ==
  ASSUME Inv, Good(s', acked, Kept, waiting), s'.late = s.late, faults' \in 0..MaxFaults,
         UNCHANGED <<waiting, acked, risk, next>>
  PROVE  Inv'
BY DEF Inv, Kept

\* beforeSleep: under "always" the replies are sent when all writes are in the file.
LEMMA BeforeSleepInv ==
  ASSUME Inv, BeforeSleep
  PROVE  Inv'
<1>1. PICK o \in FlushAppendOnlyFile(s, FALSE, faults) : Become([o EXCEPT !.replied = TRUE])
  BY Zenon DEF BeforeSleep
<1> DEFINE r == [o EXCEPT !.replied = TRUE]
<1>2. Good(s, acked, Kept, waiting) /\ faults \in Nat /\ FALSE \in BOOLEAN BY AofAssumption DEF Inv
<1>3. /\ GoodOutcome(o, acked, Kept, waiting, faults) /\ o.x.state = s.state
      /\ o.x.policy = s.policy
      /\ s.policy = "always" => o.exit \/ o.x.buf = <<>>
  BY <1>1, <1>2, FlushGood, Zenon
<1>4. o \in OutcomeType /\ o.took \in Nat /\ o.took <= faults /\ Good(o.x, acked, Kept, waiting)
  BY <1>3 DEF GoodOutcome, OutcomeType
<1>5. r.x = o.x /\ r.took = o.took /\ r.exit = o.exit BY <1>4 DEF OutcomeType
<1>6. Become(r) BY <1>1
<1> HIDE DEF r
<1>7. Sent(r) # {} => r.x.policy = "always" /\ r.x.state = "on" /\ r.x.buf = <<>>
  BY <1>3, <1>5 DEF Sent
<1>8. next' = next BY DEF BeforeSleep
<1>9. r.took \in Nat /\ r.took <= faults /\ Good(r.x, acked, Kept, waiting) BY <1>4, <1>5
<1> QED BY <1>6, <1>7, <1>8, <1>9, BecomeInv

\* A second step of the same handler takes its faults from those left by the first.
LEMMA TakeMore ==
  ASSUME NEW o, NEW a, NEW h, NEW w, NEW left \in Nat, GoodOutcome(o, a, h, w, left),
         NEW f, GoodOutcome(f, a, h, w, left - o.took)
  PROVE  GoodOutcome([f EXCEPT !.took = @ + o.took], a, h, w, left)
<1> DEFINE k == f.took + o.took
           z == [f EXCEPT !.took = k]
<1>1. o.took \in Nat /\ o.took <= left BY DEF GoodOutcome, OutcomeType
<1>2. f \in OutcomeType /\ f.took \in Nat /\ f.took <= left - o.took /\ Good(f.x, a, h, w)
  BY DEF GoodOutcome, OutcomeType
<1>3. k \in Nat /\ k <= left BY <1>1, <1>2
<1> HIDE DEF k
<1>4. z \in OutcomeType /\ z.x = f.x /\ z.took = k BY <1>2, <1>3 DEF OutcomeType
<1>5. z = [f EXCEPT !.took = @ + o.took] BY DEF k
<1> HIDE DEF z
<1>6. GoodOutcome(z, a, h, w, left) BY <1>2, <1>3, <1>4 DEF GoodOutcome
<1> QED BY <1>5, <1>6

\* A second flush in the same handler
LEMMA FlushAgain ==
  ASSUME NEW o, NEW a, NEW h, NEW w, NEW left \in Nat, GoodOutcome(o, a, h, w, left),
         NEW f \in FlushAppendOnlyFile(o.x, FALSE, left - o.took)
  PROVE  GoodOutcome([f EXCEPT !.took = @ + o.took], a, h, w, left)
<1>1. o.took \in Nat /\ o.took <= left /\ Good(o.x, a, h, w)
  BY DEF GoodOutcome, OutcomeType
<1>2. left - o.took \in Nat /\ FALSE \in BOOLEAN BY <1>1
<1>3. GoodOutcome(f, a, h, w, left - o.took) BY <1>1, <1>2, FlushGood, Zenon
<1> QED BY <1>3, TakeMore

\* serverCron
LEMMA ServerCronInv ==
  ASSUME Inv, NEW grown \in BOOLEAN, ServerCron(grown)
  PROVE  Inv'
<1> DEFINE idle == s.child = "none" /\ s.rdb = "none"
           exited == s.child \in {"ok", "err"}
           y == [s EXCEPT !.rdb = IF @ = "exited" THEN "none" ELSE @]
           first == IF idle /\ (s.scheduled \/ grown)
                    THEN RewriteAppendOnlyFileBackground(s, faults)
                    ELSE IF exited THEN BackgroundRewriteDone(s, faults)
                    ELSE {Fine(y)}
           Flush(o) == {[f EXCEPT !.took = @ + o.took] :
                          f \in FlushAppendOnlyFile(o.x, FALSE, faults - o.took)}
           Postponed(o) == IF o.x.postponed THEN Flush(o) ELSE {o}
           Retry(o) == {o} \cup (IF o.x.status = "err" /\ ~ o.exit THEN Flush(o) ELSE {})
           Fit(o) == GoodOutcome(o, acked, Kept, waiting, faults)
<1>1. Good(s, acked, Kept, waiting) /\ s \in Server /\ faults \in Nat
  BY AofAssumption DEF Inv, Good
<1>2. s.state # "down" BY DEF ServerCron, Up
<1>3. PICK o \in UNION {Retry(q) : q \in UNION {Postponed(p) : p \in first}} : Become(o)
  BY Zenon DEF ServerCron
<1>4. ASSUME NEW p, Fit(p), NEW r \in Flush(p)
      PROVE  Fit(r)
  <2>1. PICK f \in FlushAppendOnlyFile(p.x, FALSE, faults - p.took) :
          r = [f EXCEPT !.took = @ + p.took]
    BY Zenon
  <2>2. GoodOutcome(p, acked, Kept, waiting, faults) BY <1>4
  <2>3. GoodOutcome([f EXCEPT !.took = @ + p.took], acked, Kept, waiting, faults)
    BY <1>1, <2>2, FlushAgain, Zenon
  <2> QED BY <2>1, <2>3
<1>5. \A p \in first : Fit(p)
  <2> SUFFICES ASSUME NEW p \in first PROVE Fit(p) OBVIOUS
  <2>1. CASE idle /\ (s.scheduled \/ grown)
    <3>1. p \in RewriteAppendOnlyFileBackground(s, faults) BY <2>1
    <3> QED BY <1>1, <2>1, <3>1, ForkGood
  <2>2. CASE ~ (idle /\ (s.scheduled \/ grown)) /\ exited
    <3>1. p \in BackgroundRewriteDone(s, faults) BY <2>2
    <3> QED BY <1>1, <1>2, <3>1, RewriteDoneGood
  <2>3. CASE ~ (idle /\ (s.scheduled \/ grown)) /\ ~ exited
    <3>1. p = Fine(y) BY <2>3
    <3>2. y \in Server BY <1>1, Zenon DEF Server
    <3>3. /\ y.policy = s.policy /\ y.state = s.state /\ y.fd = s.fd /\ y.data = s.data
          /\ y.buf = s.buf /\ y.selected = s.selected /\ y.child = s.child
          /\ y.childBase = s.childBase /\ y.childDiff = s.childDiff /\ y.pipe = s.pipe
          /\ y.rewriteBuf = s.rewriteBuf /\ y.base = s.base /\ y.tail = s.tail
          /\ y.synced = s.synced /\ y.late = s.late /\ y.stop = s.stop /\ (s.rdb = "none" => y.rdb = "none")
      BY <1>1 DEF Server
    <3> HIDE DEF y
    <3>4. Sound(y) BY <1>1, <3>3 DEF Good, Sound
    <3>5. Durable(y, acked, Kept, waiting) BY <1>1, <3>3 DEF Good, Durable, OnDisk, InFile
    <3>6. Good(y, acked, Kept, waiting) BY <3>2, <3>4, <3>5 DEF Good
    <3> QED BY <1>1, <3>1, <3>2, <3>6, FineGood
  <2> QED BY <2>1, <2>2, <2>3
<1> HIDE DEF first, Flush, Fit
<1>6. Fit(o)
  <2>1. PICK p \in first : \E q \in Postponed(p) : o \in Retry(q) BY <1>3
  <2>2. PICK q \in Postponed(p) : o \in Retry(q) BY <2>1
  <2>3. Fit(p) BY <1>5
  <2>4. Fit(q) BY <1>4, <2>3
  <2> QED BY <1>4, <2>2, <2>4
<1>7. next' = next BY DEF ServerCron
<1> QED BY <1>3, <1>6, <1>7, OutcomeInv DEF Fit

\* BGREWRITEAOF
LEMMA BgRewriteAofInv ==
  ASSUME Inv, BgRewriteAof
  PROVE  Inv'
<1>1. /\ Good(s, acked, Kept, waiting) /\ s \in Server /\ faults \in Nat /\ s.child = "none"
      /\ next' = next /\ faults \in 0..MaxFaults
  BY AofAssumption DEF Inv, Good, BgRewriteAof
<1>2. CASE s.rdb # "none"
  <2>1. s' = [s EXCEPT !.scheduled = TRUE] /\ UNCHANGED <<waiting, acked, risk, next, faults>>
    BY <1>2 DEF BgRewriteAof
  <2>2. s' \in Server /\ SameFiles(s, s') BY <1>1, <2>1, Zenon DEF Server, SameFiles
  <2>3. s'.late = s.late BY <2>2 DEF SameFiles
  <2> QED BY <1>1, <2>1, <2>2, <2>3, SameFilesGood, KeepInv
<1>3. CASE s.rdb = "none"
  <2>1. PICK o \in RewriteAppendOnlyFileBackground(s, faults) : Become(o)
    BY <1>3 DEF BgRewriteAof
  <2>2. GoodOutcome(o, acked, Kept, waiting, faults) BY <1>1, <1>3, <2>1, ForkGood
  <2> QED BY <1>1, <2>1, <2>2, OutcomeInv
<1> QED BY <1>2, <1>3

\* The BGSAVE child
LEMMA BgSaveInv ==
  ASSUME Inv, BgSave \/ BgSaveExit
  PROVE  Inv'
<1>1. Good(s, acked, Kept, waiting) /\ s \in Server /\ faults \in 0..MaxFaults /\ MaxFaults \in Nat
  BY AofAssumption DEF Inv, Good
<1>2. PICK r \in {"run", "exited"} : s' = [s EXCEPT !.rdb = r] BY DEF BgSave, BgSaveExit
<1>3. s.child = "none"
  <2>1. CASE BgSave BY <2>1 DEF BgSave
  <2>2. CASE BgSaveExit
    <3>1. s.rdb = "run" BY <2>2 DEF BgSaveExit
    <3> QED BY <1>1, <3>1 DEF Good, Sound
  <2> QED BY <2>1, <2>2
<1>4. faults' \in 0..MaxFaults /\ UNCHANGED <<waiting, acked, risk, next>>
  BY <1>1 DEF BgSave, BgSaveExit
<1>5. s' \in Server BY <1>1, <1>2, Zenon DEF Server
<1>6. /\ s'.policy = s.policy /\ s'.state = s.state /\ s'.fd = s.fd /\ s'.data = s.data
      /\ s'.buf = s.buf /\ s'.selected = s.selected /\ s'.child = s.child
      /\ s'.childBase = s.childBase /\ s'.childDiff = s.childDiff /\ s'.pipe = s.pipe
      /\ s'.rewriteBuf = s.rewriteBuf /\ s'.base = s.base /\ s'.tail = s.tail
      /\ s'.synced = s.synced /\ s'.late = s.late
  BY <1>1, <1>2 DEF Server
<1>7. Sound(s') BY <1>1, <1>3, <1>6 DEF Good, Sound
<1>8. Durable(s', acked, Kept, waiting) BY <1>1, <1>6 DEF Good, Durable, OnDisk, InFile
<1>9. Good(s', acked, Kept, waiting) BY <1>5, <1>7, <1>8 DEF Good
<1> QED BY <1>4, <1>6, <1>9, KeepInv

\* stopAppendOnly leaves no child, and the file as it was fsynced.
LEMMA StoppedGood ==
  ASSUME NEW x, NEW a, NEW h, NEW w, Good(x, a, h, w)
  PROVE  Good(Stopped(x), a, h, w)
<1> DEFINE b == OldJobs(x)
           k == [x EXCEPT !.fd = "none", !.bio = b, !.selected = -1, !.state = "off"]
           y == IF x.child = "none" THEN k
                ELSE [k EXCEPT !.child = "none", !.childBase = <<>>, !.childDiff = <<>>,
                               !.pipe = <<>>, !.rewriteBuf = <<>>]
<1>1. x \in Server BY DEF Good
<1>2. <<>> \in Seq(Unit) /\ <<>> \in Dataset BY DEF Dataset
<1>3. b \in SUBSET {"old", "current"} BY DEF OldJobs
<1>4. Stopped(x) = y BY DEF Stopped
<1> HIDE DEF b
<1>5. k \in Server BY <1>1, <1>3, Zenon DEF Server
<1>6. /\ k.policy = x.policy /\ k.data = x.data /\ k.base = x.base /\ k.tail = x.tail
      /\ k.child = x.child /\ k.pipe = x.pipe /\ k.rewriteBuf = x.rewriteBuf
      /\ k.state = "off" /\ k.synced = x.synced /\ k.late = x.late
  BY <1>1 DEF Server
<1> HIDE DEF k
<1>7. y \in Server
  <2>1. CASE x.child = "none" BY <1>5, <2>1
  <2>2. CASE x.child # "none" BY <1>2, <1>5, <2>2, Zenon DEF Server
  <2> QED BY <2>1, <2>2
<1>8. /\ y.policy = x.policy /\ y.data = x.data /\ y.base = x.base /\ y.tail = x.tail
      /\ y.child = "none" /\ y.pipe = <<>> /\ y.rewriteBuf = <<>> /\ y.state = "off"
      /\ y.synced = x.synced /\ y.late = x.late
  <2>1. CASE x.child = "none" BY <1>6, <2>1 DEF Good, Sound
  <2>2. CASE x.child # "none" BY <1>5, <1>6, <2>2 DEF Server
  <2> QED BY <2>1, <2>2
<1> HIDE DEF y
<1>9. Sound(y)
  <2>1. Len(<<>>) <= PipeSize BY AofAssumption
  <2>2. y.synced <= Len(y.tail) BY <1>8 DEF Good, Sound
  <2> QED BY <1>8, <2>1, <2>2 DEF Sound
<1>10. Durable(y, a, h, w) BY <1>8 DEF Good, Durable, OnDisk, InFile
<1> QED BY <1>4, <1>7, <1>9, <1>10 DEF Good

\* Another state in the place of the one an outcome leaves
LEMMA SwapState ==
  ASSUME NEW o, NEW a, NEW h, NEW w, NEW left, GoodOutcome(o, a, h, w, left),
         NEW y, Good(y, a, h, w)
  PROVE  GoodOutcome([o EXCEPT !.x = y], a, h, w, left)
<1> DEFINE r == [o EXCEPT !.x = y]
<1>1. y \in Server BY DEF Good
<1>2. r \in OutcomeType /\ r.x = y /\ r.took = o.took BY <1>1 DEF GoodOutcome, OutcomeType
<1> HIDE DEF r
<1>3. GoodOutcome(r, a, h, w, left) BY <1>2 DEF GoodOutcome
<1> QED BY <1>3 DEF r

\* CONFIG SET appendonly no
LEMMA StopAppendOnlyInv ==
  ASSUME Inv, StopAppendOnly
  PROVE  Inv'
<1>1. Good(s, acked, Kept, waiting) /\ faults \in Nat /\ TRUE \in BOOLEAN
  BY AofAssumption DEF Inv
<1>2. next' = next BY Zenon DEF StopAppendOnly
<1>3. PICK o \in FlushAppendOnlyFile(s, TRUE, faults) :
        IF o.exit THEN Become(o)
        ELSE \E f \in Fsync(o.x, faults - o.took) :
               Become([f EXCEPT !.x = Stopped(@), !.took = @ + o.took])
  BY Zenon DEF StopAppendOnly
<1>4. GoodOutcome(o, acked, Kept, waiting, faults) BY <1>1, <1>3, FlushGood, Zenon
<1>5. CASE o.exit BY <1>3, <1>4, <1>5, <1>2, OutcomeInv
<1>6. CASE ~ o.exit
  <2>1. PICK f \in Fsync(o.x, faults - o.took) :
          Become([f EXCEPT !.x = Stopped(@), !.took = @ + o.took])
    BY <1>3, <1>6
  <2>2. faults - o.took \in Nat /\ Good(o.x, acked, Kept, waiting)
    BY <1>1, <1>4 DEF GoodOutcome, OutcomeType
  <2>3. GoodOutcome(f, acked, Kept, waiting, faults - o.took) BY <2>2, FsyncGood
  <2> DEFINE y == Stopped(f.x)
             g == [f EXCEPT !.x = y]
             r == [g EXCEPT !.took = @ + o.took]
  <2>4. Good(y, acked, Kept, waiting) BY <2>3, StoppedGood DEF GoodOutcome
  <2>5. GoodOutcome(g, acked, Kept, waiting, faults - o.took)
    <3> HIDE DEF y
    <3> QED BY <2>3, <2>4, SwapState
  <2>6. GoodOutcome(r, acked, Kept, waiting, faults)
    <3> HIDE DEF g
    <3> QED BY <1>1, <1>4, <2>5, TakeMore
  <2>7. r = [f EXCEPT !.x = Stopped(@), !.took = @ + o.took]
    <3> HIDE DEF y
    <3>1. r = [f EXCEPT !.x = y, !.took = @ + o.took] BY <2>3 DEF GoodOutcome, OutcomeType
    <3> QED BY <3>1 DEF y
  <2> HIDE DEF r
  <2> QED BY <1>2, <2>1, <2>6, <2>7, OutcomeInv
<1> QED BY <1>5, <1>6

\* A file that is switched off may be opened, or its number go stale.
LEMMA OffGood ==
  ASSUME NEW x, NEW a, NEW h, NEW w, Good(x, a, h, w), x.state = "off", NEW f \in {"open", "stale"}
  PROVE  Good([x EXCEPT !.fd = f], a, h, w)
<1> DEFINE y == [x EXCEPT !.fd = f]
<1>1. x \in Server BY DEF Good
<1>2. y \in Server BY <1>1, Zenon DEF Server
<1>3. /\ y.policy = x.policy /\ y.state = x.state /\ y.data = x.data
      /\ y.buf = x.buf /\ y.selected = x.selected /\ y.rdb = x.rdb /\ y.child = x.child
      /\ y.childBase = x.childBase /\ y.childDiff = x.childDiff /\ y.pipe = x.pipe
      /\ y.rewriteBuf = x.rewriteBuf /\ y.base = x.base /\ y.tail = x.tail
      /\ y.synced = x.synced /\ y.late = x.late /\ y.stop = x.stop
  BY <1>1 DEF Server
<1> HIDE DEF y
<1>4. Sound(y) BY <1>3 DEF Good, Sound
<1>5. Durable(y, a, h, w) BY <1>3 DEF Good, Durable, OnDisk, InFile
<1> QED BY <1>2, <1>4, <1>5 DEF Good, y

\* It may be about to be switched on.
LEMMA WaitGood ==
  ASSUME NEW x, NEW a, NEW h, NEW w, Good(x, a, h, w), x.state = "off", x.child = "none"
  PROVE  Good([x EXCEPT !.fd = "open", !.state = "wait"], a, h, w)
<1> DEFINE y == [x EXCEPT !.fd = "open", !.state = "wait"]
<1>1. x \in Server BY DEF Good
<1>2. y \in Server BY <1>1, Zenon DEF Server
<1>3. /\ y.policy = x.policy /\ y.state = "wait" /\ y.fd = "open" /\ y.data = x.data
      /\ y.child = "none" /\ y.pipe = x.pipe
      /\ y.rewriteBuf = x.rewriteBuf /\ y.base = x.base /\ y.tail = x.tail
      /\ y.synced = x.synced /\ y.late = x.late
  BY <1>1 DEF Server
<1> HIDE DEF y
<1>4. Sound(y) BY <1>3 DEF Good, Sound
<1>5. Durable(y, a, h, w) BY <1>3 DEF Good, Durable, OnDisk, InFile
<1> QED BY <1>2, <1>4, <1>5 DEF Good, y

\* CONFIG SET appendonly yes
LEMMA StartAppendOnlyInv ==
  ASSUME Inv, StartAppendOnly
  PROVE  Inv'
<1> DEFINE opened == [s EXCEPT !.fd = "open"]
           z == [s EXCEPT !.fd = "open", !.state = "wait"]
           forked == IF s.child # "none" THEN {Fine(s)}
                     ELSE RewriteAppendOnlyFileBackground(opened, faults)
           Then(x) == IF x.child = "run" /\ s.child = "none" THEN [x EXCEPT !.state = "wait"]
                      ELSE [x EXCEPT !.fd = "stale"]
<1>1. /\ Good(s, acked, Kept, waiting) /\ s \in Server /\ faults \in Nat /\ s.state = "off"
      /\ next' = next /\ faults \in 0..MaxFaults
  BY AofAssumption DEF Inv, Good, StartAppendOnly
<1>2. Good(opened, acked, Kept, waiting) BY <1>1, OffGood, Zenon
<1>3. s.child = "none" => Good(z, acked, Kept, waiting) BY <1>1, WaitGood, Zenon
<1>4. CASE s.rdb # "none"
  <2>1. s' = [opened EXCEPT !.scheduled = TRUE, !.state = "wait"]
        /\ UNCHANGED <<waiting, acked, risk, next, faults>>
    BY <1>4 DEF StartAppendOnly
  <2>2. s.child = "none" BY <1>1, <1>4 DEF Good, Sound
  <2>3. s' \in Server /\ SameFiles(z, s') BY <1>1, <2>1, Zenon DEF Server, SameFiles
  <2>4. s'.late = s.late BY <1>1, <2>1 DEF Server
  <2> HIDE DEF z
  <2> QED BY <1>1, <1>3, <2>1, <2>2, <2>3, <2>4, SameFilesGood, KeepInv
<1>5. CASE s.rdb = "none"
  <2>1. PICK o \in forked : Become([o EXCEPT !.x = Then(o.x)])
    BY <1>5, Zenon DEF StartAppendOnly
  <2>2. GoodOutcome(o, acked, Kept, waiting, faults)
    <3>1. CASE s.child # "none"
      <4>1. o = Fine(s) BY <2>1, <3>1
      <4> QED BY <1>1, <4>1, FineGood
    <3>2. CASE s.child = "none"
      <4>1. o \in RewriteAppendOnlyFileBackground(opened, faults) BY <2>1, <3>2
      <4>2. opened.child = "none" /\ opened.rdb = "none" BY <1>1, <1>5, <3>2 DEF Server
      <4> HIDE DEF opened
      <4> QED BY <1>1, <1>2, <4>1, <4>2, ForkGood
    <3> QED BY <3>1, <3>2
  <2>3. Good(Then(o.x), acked, Kept, waiting)
    <3>1. CASE s.child # "none"
      <4>1. o = Fine(s) BY <2>1, <3>1
      <4>2. o.x = s BY <4>1 DEF Fine, Outcome
      <4>3. Then(o.x) = [s EXCEPT !.fd = "stale"] BY <3>1, <4>2
      <4> QED BY <1>1, <4>3, OffGood
    <3>2. CASE s.child = "none" /\ o = Outcome(opened, 1, FALSE)
      <4>1. o.x = opened /\ opened.child = "none" /\ opened.state = "off"
        BY <1>1, <3>2 DEF Outcome, Server
      <4>2. Then(o.x) = [opened EXCEPT !.fd = "stale"] BY <4>1
      <4> HIDE DEF opened
      <4> QED BY <1>2, <4>1, <4>2, OffGood, Zenon
    <3>3. CASE s.child = "none" /\ o # Outcome(opened, 1, FALSE)
      <4> DEFINE v == [opened EXCEPT !.child = "run", !.childBase = opened.data,
                                     !.childDiff = <<>>, !.stop = FALSE, !.scheduled = FALSE,
                                     !.selected = -1]
                 y == [z EXCEPT !.child = "run", !.childBase = z.data,
                                !.childDiff = <<>>, !.stop = FALSE, !.scheduled = FALSE,
                                !.selected = -1]
      <4>1. o = Fine(v) BY <2>1, <3>3, Zenon DEF RewriteAppendOnlyFileBackground
      <4>2. o.x = v /\ v.child = "run" BY <1>1, <4>1 DEF Fine, Outcome, Server
      <4>3. Then(o.x) = [v EXCEPT !.state = "wait"] BY <3>3, <4>2
      <4>4. [v EXCEPT !.state = "wait"] = y BY <1>1, Zenon DEF Server
      <4>5. Fine(y) \in RewriteAppendOnlyFileBackground(z, faults)
        BY DEF RewriteAppendOnlyFileBackground
      <4>6. z.child = "none" /\ z.rdb = "none" BY <1>1, <1>5, <3>3 DEF Server
      <4>7. Fine(y).x = y BY DEF Fine, Outcome
      <4> HIDE DEF z, y, v
      <4>8. GoodOutcome(Fine(y), acked, Kept, waiting, faults)
        BY <1>1, <1>3, <3>3, <4>5, <4>6, ForkGood
      <4> QED BY <4>3, <4>4, <4>7, <4>8 DEF GoodOutcome
    <3> QED BY <3>1, <3>2, <3>3, Zenon
  <2> DEFINE x1 == Then(o.x)
  <2>4. Good(x1, acked, Kept, waiting) BY <2>3
  <2>5. Become([o EXCEPT !.x = x1]) BY <2>1
  <2> HIDE DEF x1
  <2> QED BY <1>1, <2>2, <2>4, <2>5, SwapState, OutcomeInv
<1> QED BY <1>4, <1>5

\* aofChildWriteDiffData: the pipe and the rewrite buffer stay what they are together.
LEMMA SendDiffInv ==
  ASSUME Inv, SendDiff
  PROVE  Inv'
<1> DEFINE room == PipeSize - Len(s.pipe)
           n == IF room < Len(s.rewriteBuf) THEN room ELSE Len(s.rewriteBuf)
           p == SubSeq(s.rewriteBuf, 1, n)
           q == SubSeq(s.rewriteBuf, n + 1, Len(s.rewriteBuf))
           v == s.pipe \o p
<1>1. /\ Good(s, acked, Kept, waiting) /\ s \in Server /\ faults \in 0..MaxFaults
      /\ UNCHANGED <<waiting, acked, risk, next, faults>>
      /\ s.child # "none" /\ ~ s.stop
  BY DEF Inv, Good, SendDiff
<1>2. /\ s.pipe \in Seq(Unit) /\ s.rewriteBuf \in Seq(Unit) /\ Len(s.pipe) <= PipeSize
      /\ PipeSize \in Nat
  BY <1>1, AofAssumption, ServerFields DEF Good, Sound
<1>3. n \in 0..Len(s.rewriteBuf) /\ Len(s.pipe) + n <= PipeSize
  <2> DEFINE k == Len(s.pipe)
             m == Len(s.rewriteBuf)
  <2>1. k \in Nat /\ m \in Nat /\ k <= PipeSize BY <1>2
  <2> HIDE DEF k, m
  <2>2. n = IF PipeSize - k < m THEN PipeSize - k ELSE m BY DEF k, m
  <2>3. n \in 0..m /\ k + n <= PipeSize BY <1>2, <2>1, <2>2
  <2> QED BY <2>3 DEF k, m
<1>4. s' = [s EXCEPT !.pipe = v, !.rewriteBuf = q] BY DEF SendDiff, ChildWriteDiffData
<1>5. p \in Seq(Unit) /\ q \in Seq(Unit) /\ p \o q = s.rewriteBuf /\ Len(p) = n
  <2> HIDE DEF n
  <2> QED BY <1>2, <1>3, TwoParts, Zenon
<1> HIDE DEF p, q
<1> HIDE DEF n
<1>6. v \in Seq(Unit) /\ Len(v) = Len(s.pipe) + Len(p)
  <2>1. s.pipe \in Seq(Unit) /\ p \in Seq(Unit) BY <1>2, <1>5
  <2> QED BY <2>1, ConcatProperties
<1>7. Len(v) <= PipeSize BY <1>3, <1>5, <1>6
<1>8. v \o q = s.pipe \o s.rewriteBuf
  <2>2. s.pipe \in Seq(Unit) /\ p \in Seq(Unit) /\ q \in Seq(Unit) BY <1>2, <1>5
  <2>3. v \o q = s.pipe \o (p \o q) BY <2>2, UnitsAssoc, Zenon
  <2> QED BY <1>5, <2>3
<1> HIDE DEF v
<1>9. s' \in Server BY <1>1, <1>4, <1>5, <1>6, Zenon DEF Server
<1>10. /\ s'.policy = s.policy /\ s'.state = s.state /\ s'.fd = s.fd /\ s'.data = s.data
       /\ s'.buf = s.buf /\ s'.selected = s.selected /\ s'.rdb = s.rdb /\ s'.child = s.child
       /\ s'.childBase = s.childBase /\ s'.childDiff = s.childDiff /\ s'.pipe = v
       /\ s'.rewriteBuf = q /\ s'.base = s.base /\ s'.tail = s.tail
       /\ s'.synced = s.synced /\ s'.late = s.late
  BY <1>1, <1>4 DEF Server
<1>11. Sound(s')
  <2>1. s.child # "ok" BY <1>1 DEF Good, Sound
  <2> QED BY <1>1, <1>7, <1>8, <1>10, <2>1, Zenon DEF Good, Sound
<1>12. Durable(s', acked, Kept, waiting) BY <1>1, <1>10 DEF Good, Durable, OnDisk, InFile
<1>13. Good(s', acked, Kept, waiting) BY <1>9, <1>11, <1>12 DEF Good
<1> QED BY <1>1, <1>10, <1>13, KeepInv

\* The child reads what is in the pipe, for the last time when the parent has stopped.
LEMMA ChildReadsInv ==
  ASSUME Inv, ChildReads \/ ChildFinishes
  PROVE  Inv'
<1> DEFINE t == s.childDiff \o s.pipe
<1>1. Good(s, acked, Kept, waiting) /\ s \in Server /\ faults \in 0..MaxFaults
      /\ UNCHANGED <<waiting, acked, risk, next, faults>>
  BY DEF Inv, Good, ChildReads, ChildFinishes
<1>2. PICK ch \in {"run", "ok"} :
        /\ s' = [s EXCEPT !.childDiff = t, !.pipe = <<>>, !.child = ch]
        /\ s.child \in {"run", "asked"} /\ (ch = "ok" => s.stop = TRUE)
  <2>1. CASE ChildReads
    <3>1. s' = [s EXCEPT !.childDiff = t, !.pipe = <<>>, !.child = "run"] /\ s.child = "run"
      BY <1>1, <2>1, Zenon DEF ChildReads, ReadDiffFromParent, Server
    <3> QED BY <3>1
  <2>2. CASE ChildFinishes
    <3>1. s' = [s EXCEPT !.childDiff = t, !.pipe = <<>>, !.child = "ok"] /\ s.child = "asked"
      BY <1>1, <2>2 DEF ChildFinishes, ReadDiffFromParent, Server
    <3>2. s.stop BY <2>2 DEF ChildFinishes
    <3>3. s.stop \in BOOLEAN BY <1>1 DEF Server
    <3>4. s.stop = TRUE BY <3>2, <3>3
    <3> QED BY <3>1, <3>4
  <2> QED BY <2>1, <2>2, Zenon
<1>3. /\ s.pipe \in Seq(Unit) /\ s.rewriteBuf \in Seq(Unit) /\ s.childDiff \in Seq(Unit)
  BY <1>1, ServerFields
<1>4. t \in Seq(Unit) /\ <<>> \in Seq(Unit) /\ <<>> \o s.rewriteBuf = s.rewriteBuf BY <1>3
<1>5. t \o (<<>> \o s.rewriteBuf) = s.childDiff \o (s.pipe \o s.rewriteBuf)
  <2>2. t \o s.rewriteBuf = s.childDiff \o (s.pipe \o s.rewriteBuf) BY <1>3, UnitsAssoc, Zenon
  <2> QED BY <1>4, <2>2, Zenon
<1> HIDE DEF t
<1>6. s' \in Server BY <1>1, <1>2, <1>4, Zenon DEF Server
<1>7. /\ s'.policy = s.policy /\ s'.state = s.state /\ s'.fd = s.fd /\ s'.data = s.data
      /\ s'.buf = s.buf /\ s'.selected = s.selected /\ s'.rdb = s.rdb /\ s'.child = ch
      /\ s'.childBase = s.childBase /\ s'.childDiff = t /\ s'.pipe = <<>>
      /\ s'.rewriteBuf = s.rewriteBuf /\ s'.base = s.base /\ s'.tail = s.tail
      /\ s'.synced = s.synced /\ s'.late = s.late /\ s'.stop = s.stop
  BY <1>1, <1>2 DEF Server
<1>8. Len(<<>>) <= PipeSize BY AofAssumption
<1>9. Sound(s') BY <1>1, <1>2, <1>5, <1>7, <1>8, Zenon DEF Good, Sound
<1>10. Durable(s', acked, Kept, waiting) BY <1>1, <1>2, <1>7 DEF Good, Durable, OnDisk, InFile
<1>11. Good(s', acked, Kept, waiting) BY <1>6, <1>9, <1>10 DEF Good
<1> QED BY <1>1, <1>7, <1>11, KeepInv

\* The child asks, the parent agrees, or the child fails.
LEMMA ChildTalksInv ==
  ASSUME Inv, ChildAsks \/ ChildPipeReadable \/ ChildFails
  PROVE  Inv'
<1>1. Good(s, acked, Kept, waiting) /\ s \in Server /\ faults \in 0..MaxFaults /\ MaxFaults \in Nat
  BY AofAssumption DEF Inv, Good
<1>2. /\ s.child \in {"run", "asked"} /\ faults' \in 0..MaxFaults
      /\ UNCHANGED <<waiting, acked, risk, next>>
  BY <1>1 DEF ChildAsks, ChildPipeReadable, ChildFails
<1>3. PICK ch \in {"asked", "err"} :
        s' = [s EXCEPT !.child = ch] \/ s' = [s EXCEPT !.stop = TRUE]
  BY DEF ChildAsks, ChildPipeReadable, ChildFails
<1>4. s' \in Server
  <2>1. CASE s' = [s EXCEPT !.child = ch] BY <1>1, <2>1, Zenon DEF Server
  <2>2. CASE s' = [s EXCEPT !.stop = TRUE] BY <1>1, <2>2, Zenon DEF Server
  <2> QED BY <1>3, <2>1, <2>2
<1>5. /\ s'.policy = s.policy /\ s'.state = s.state /\ s'.fd = s.fd /\ s'.data = s.data
      /\ s'.buf = s.buf /\ s'.selected = s.selected /\ s'.rdb = s.rdb
      /\ s'.child \in {"run", "asked", "err"}
      /\ s'.childBase = s.childBase /\ s'.childDiff = s.childDiff /\ s'.pipe = s.pipe
      /\ s'.rewriteBuf = s.rewriteBuf /\ s'.base = s.base /\ s'.tail = s.tail
      /\ s'.synced = s.synced /\ s'.late = s.late
  BY <1>1, <1>2, <1>3 DEF Server
<1>6. Sound(s') BY <1>1, <1>2, <1>5 DEF Good, Sound
<1>7. Durable(s', acked, Kept, waiting) BY <1>1, <1>2, <1>5 DEF Good, Durable, OnDisk, InFile
<1>8. Good(s', acked, Kept, waiting) BY <1>4, <1>6, <1>7 DEF Good
<1> QED BY <1>2, <1>5, <1>8, KeepInv

\* The background thread's fsync
LEMMA BioFsyncInv ==
  ASSUME Inv, BioFsync
  PROVE  Inv'
<1> DEFINE job == IF "old" \in s.bio THEN "old" ELSE "current"
<1>1. Good(s, acked, Kept, waiting) /\ s \in Server /\ faults \in Nat
  BY AofAssumption DEF Inv, Good
<1>2. next' = next BY Zenon DEF BioFsync
<1>3. PICK o \in IF job = "current" THEN Fsync(s, faults) ELSE {Fine(s)} :
        Become([o EXCEPT !.x.bio = @ \ {job}])
  BY Zenon DEF BioFsync
<1>4. GoodOutcome(o, acked, Kept, waiting, faults)
  <2>1. CASE job = "current" BY <1>1, <1>3, <2>1, FsyncGood
  <2>2. CASE job # "current"
    <3>1. o = Fine(s) BY <1>3, <2>2
    <3> QED BY <1>1, <3>1, FineGood
  <2> QED BY <2>1, <2>2
<1> DEFINE b == o.x.bio \ {job}
           y == [o.x EXCEPT !.bio = b]
<1>5. o \in OutcomeType /\ o.x \in Server /\ Good(o.x, acked, Kept, waiting)
  BY <1>4 DEF GoodOutcome, OutcomeType
<1>6. b \in SUBSET {"old", "current"} BY <1>5 DEF Server
<1>7. Become([o EXCEPT !.x = y]) BY <1>3
<1> HIDE DEF b
<1>8. y \in Server /\ SameFiles(o.x, y) BY <1>5, <1>6, Zenon DEF Server, SameFiles
<1> HIDE DEF y
<1>9. Good(y, acked, Kept, waiting) BY <1>5, <1>8, SameFilesGood
<1> QED BY <1>2, <1>4, <1>7, <1>9, SwapState, OutcomeInv

\* The process is killed, or ends, and is started again on the same file.
LEMMA ProcessEndsInv ==
  ASSUME Inv, Kill \/ Shutdown
  PROVE  Inv'
<1>1. Good(s, acked, Kept, waiting) /\ s \in Server /\ faults \in Nat
  BY AofAssumption DEF Inv, Good
<1>2. next' = next /\ faults > 0 BY Zenon DEF Kill, Shutdown
<1>3. CASE Kill
  <2>1. Become(Outcome(s, 1, TRUE)) BY <1>3, Zenon DEF Kill
  <2>2. 1 \in 0..faults /\ TRUE \in BOOLEAN BY <1>1, <1>2
  <2>3. GoodOutcome(Outcome(s, 1, TRUE), acked, Kept, waiting, faults)
    BY <1>1, <2>2, FaultGood, Zenon
  <2> QED BY <1>2, <2>1, <2>3, OutcomeInv
<1>4. CASE Shutdown
  <2>1. PICK o \in IF s.state = "off" THEN {Fine(s)} ELSE Fsync(s, faults - 1) :
          Become([o EXCEPT !.took = @ + 1, !.exit = TRUE])
    BY <1>4, Zenon DEF Shutdown
  <2>2. faults - 1 \in Nat BY <1>1, <1>2
  <2>3. GoodOutcome(o, acked, Kept, waiting, faults - 1)
    <3>1. CASE s.state = "off"
      <4>1. o = Fine(s) BY <2>1, <3>1
      <4> QED BY <1>1, <2>2, <4>1, FineGood
    <3>2. CASE s.state # "off"
      <4>1. o \in Fsync(s, faults - 1) BY <2>1, <3>2
      <4> QED BY <1>1, <2>2, <4>1, FsyncGood
    <3> QED BY <3>1, <3>2
  <2> DEFINE k == o.took + 1
             z == [o EXCEPT !.took = k, !.exit = TRUE]
  <2>4. o \in OutcomeType /\ o.took \in Nat /\ o.took <= faults - 1 /\ Good(o.x, acked, Kept, waiting)
    BY <2>3 DEF GoodOutcome, OutcomeType
  <2>5. k \in Nat /\ k <= faults BY <1>1, <2>4
  <2>6. Become(z) BY <2>1
  <2> HIDE DEF k
  <2>7. z \in OutcomeType /\ z.x = o.x /\ z.took = k BY <2>4, <2>5 DEF OutcomeType
  <2> HIDE DEF z
  <2>8. GoodOutcome(z, acked, Kept, waiting, faults) BY <2>4, <2>5, <2>7 DEF GoodOutcome
  <2> QED BY <1>2, <2>6, <2>8, OutcomeInv
<1> QED BY <1>3, <1>4

\* The machine stops, and the process is started again on a file that has at least what was
\* on disk: the writes that no skipped or failed fsync was for.
LEMMA PowerLossInv ==
  ASSUME Inv, PowerLoss
  PROVE  Inv'
<1>1. /\ s \in Server /\ Sound(s) /\ Durable(s, acked, Kept, waiting)
      /\ faults \in 0..MaxFaults /\ MaxFaults \in Nat
  BY AofAssumption DEF Inv, Good
<1>2. PICK cut \in s.synced..Len(s.tail) : s' = Start(s, SubSeq(s.tail, 1, cut), cut, "no")
  BY DEF PowerLoss
<1>3. /\ waiting' = {} /\ acked' = Kept /\ risk' = {} /\ next' = next /\ faults' = faults - 1
      /\ faults > 0
  BY DEF PowerLoss, Kept
<1>4. /\ s.policy \in {"always", "everysec", "no"} /\ s.skip \in BOOLEAN /\ s.base \in Dataset
      /\ s.tail \in Seq(Unit) /\ s.late \in {"no", "tail", "file"}
      /\ s.synced \in 0..Len(s.tail)
  BY <1>1, ServerFields DEF Sound
<1>5. Kept \subseteq OnDisk(s) /\ (s.policy # "always" => Kept = {})
  <2>1. CASE s.policy # "always" BY <1>1, <2>1 DEF Durable
  <2>2. CASE s.policy = "always" /\ s.late = "file"
    <3>1. Kept = {} BY <2>2 DEF Kept, Inv
    <3> QED BY <2>2, <3>1
  <2>3. CASE s.policy = "always" /\ s.late # "file" BY <1>1, <1>4, <2>3 DEF Durable
  <2> QED BY <2>1, <2>2, <2>3
<1> DEFINE t == SubSeq(s.tail, 1, cut)
<1>6. cut \in 0..Len(s.tail) /\ cut \in 0..cut BY <1>2, <1>4
<1>7. t \in Seq(Unit) /\ Len(t) = cut /\ SubSeq(t, 1, cut) = t BY <1>4, <1>6, PrefixOfPrefix
<1>8. Kept \subseteq Ids(LoadAppendOnlyFile(s.base, t).data)
  <2>1. Ids(LoadAppendOnlyFile(s.base, SubSeq(s.tail, 1, s.synced)).data)
          \subseteq Ids(LoadAppendOnlyFile(s.base, SubSeq(s.tail, 1, cut)).data)
    BY <1>2, <1>4, LoadGrows, Zenon
  <2> QED BY <1>5, <2>1, Zenon DEF OnDisk
<1> HIDE DEF t
<1> DEFINE k == Kept
<1>9. Good(Start(s, t, cut, "no"), k, k, {})
  <2>1. "no" \in {"no", "tail", "file"} /\ k \in SUBSET k OBVIOUS
  <2>2. k \subseteq Ids(LoadAppendOnlyFile(s.base, t).data) /\ (s.policy # "always" => k = {})
    BY <1>5, <1>8
  <2> HIDE DEF k
  <2> QED BY <1>4, <1>6, <1>7, <2>1, <2>2, StartGood
<1>10. s' = Start(s, t, cut, "no") BY <1>2 DEF t
<1>11. Kept' = Kept
  <2>1. Kept' = acked' \ risk' BY DEF Kept
  <2> QED BY <1>3, <2>1
<1>12. Good(s', acked', Kept', waiting') BY <1>3, <1>9, <1>10, <1>11
<1>13. s'.late = "no" BY <1>10 DEF Start
<1>14. faults' \in 0..MaxFaults BY <1>1, <1>3
<1>15. /\ acked' \subseteq 1..(next' - 1) /\ waiting' \subseteq 1..(next' - 1)
       /\ next' \in 1..(MaxWrites + 1) /\ risk' \subseteq acked'
  BY <1>3 DEF Inv, Kept
<1> QED BY <1>12, <1>13, <1>14, <1>15 DEF Inv

-----------------------------------------------------------------------------
(* The theorems                                                            *)

\* The invariant holds in every initial state ...
LEMMA InitInv == Init => Inv
<1> SUFFICES ASSUME Init PROVE Inv OBVIOUS
<1>1. PICK c \in Setting :
        s = Start([policy |-> c[1], skip |-> c[2], base |-> <<>>], <<>>, 0, "no")
  BY DEF Init
<1> DEFINE z == [policy |-> c[1], skip |-> c[2], base |-> <<>>]
<1>2. /\ <<>> \in Dataset /\ <<>> \in Seq(Unit) /\ 0 \in 0..Len(<<>>)
      /\ "no" \in {"no", "tail", "file"} /\ {} \in SUBSET {}
  BY DEF Dataset
<1>3. /\ z.policy = c[1] /\ z.skip = c[2] /\ z.base = <<>>
      /\ c[1] \in {"always", "everysec", "no"} /\ c[2] \in BOOLEAN
  BY AofAssumption
<1>4. Good(s, {}, {}, {})
  <2> HIDE DEF z
  <2>1. s = Start(z, <<>>, 0, "no") BY <1>1 DEF z
  <2> QED BY <1>2, <1>3, <2>1, StartGood
<1>5. /\ waiting = {} /\ acked = {} /\ risk = {} /\ Kept = {} /\ next \in 1..(MaxWrites + 1) /\ faults \in 0..MaxFaults
  BY AofAssumption DEF Init, Kept
<1> QED BY <1>4, <1>5 DEF Inv

\* ... and every step keeps it.
LEMMA NextInv == Inv /\ [Next]_vars => Inv'
<1> SUFFICES ASSUME Inv, [Next]_vars PROVE Inv' OBVIOUS
<1>1. CASE \E db \in DB : Write(db) BY <1>1, WriteInv
<1>2. CASE \E grown \in BOOLEAN : ServerCron(grown) BY <1>2, ServerCronInv
<1>3. CASE BeforeSleep BY <1>3, BeforeSleepInv
<1>4. CASE BgRewriteAof BY <1>4, BgRewriteAofInv
<1>5. CASE BgSave \/ BgSaveExit BY <1>5, BgSaveInv
<1>6. CASE StopAppendOnly BY <1>6, StopAppendOnlyInv
<1>7. CASE StartAppendOnly BY <1>7, StartAppendOnlyInv
<1>8. CASE SendDiff BY <1>8, SendDiffInv
<1>9. CASE ChildReads \/ ChildFinishes BY <1>9, ChildReadsInv
<1>10. CASE ChildAsks \/ ChildPipeReadable \/ ChildFails BY <1>10, ChildTalksInv
<1>11. CASE BioFsync BY <1>11, BioFsyncInv
<1>12. CASE Kill \/ Shutdown BY <1>12, ProcessEndsInv
<1>13. CASE PowerLoss BY <1>13, PowerLossInv
<1>14. CASE UNCHANGED vars BY <1>14 DEF vars, Inv, Kept
<1> QED BY <1>1, <1>2, <1>3, <1>4, <1>5, <1>6, <1>7, <1>8, <1>9, <1>10, <1>11, <1>12, <1>13, <1>14
        DEF Next

\* The server's state has its type, the pipe to the child never holds more than it can, and
\* the fsynced part of the file is a part of it.
THEOREM TypeCorrect == Spec => []TypeOK
<1>1. Inv => TypeOK
  <2> SUFFICES ASSUME Inv PROVE TypeOK OBVIOUS
  <2>1. s \in Server /\ Sound(s) BY DEF Inv, Good
  <2>2. /\ s.state \in {"off", "wait", "on", "down"} /\ s.fd \in {"none", "open", "stale"}
        /\ s.child \in {"none", "run", "asked", "ok", "err"}
        /\ s.rdb \in {"none", "run", "exited"} /\ s.selected \in DB \cup {-1}
        /\ s.synced \in Nat /\ s.tail \in Seq(Unit) /\ s.late \in {"no", "tail", "file"}
    BY <2>1, ServerFields
  <2>3. s.synced \in 0..Len(s.tail) /\ Len(s.pipe) <= PipeSize BY <2>1, <2>2 DEF Sound
  <2>4. risk \subseteq acked /\ acked \subseteq 1..MaxWrites /\ faults \in 0..MaxFaults BY AofAssumption DEF Inv
  <2> QED BY <2>2, <2>3, <2>4 DEF TypeOK
<1> QED BY <1>1, InitInv, NextInv, PTL DEF Spec

\* Before, during and after a rewrite, a failed write or a restart, the file and the buffer
\* rebuild the dataset.
THEOREM Rebuilt == Spec => []FileRebuildsDataset
<1>1. Inv => FileRebuildsDataset BY DEF Inv, Good, Sound, Rebuilds, FileRebuildsDataset
<1> QED BY <1>1, InitInv, NextInv, PTL DEF Spec

\* Under "always" a write whose reply was sent is on disk, whatever happens after, unless the
\* fsync it waited for was skipped or failed.
THEOREM AckedOnDisk == Spec => []AckedIsSynced
<1>1. Inv => AckedIsSynced
  <2> SUFFICES ASSUME Inv PROVE Kept \subseteq OnDisk(s) BY DEF AckedIsSynced, Kept, OnDisk
  <2>1. Durable(s, acked, Kept, waiting) /\ s.late \in {"no", "tail", "file"}
    BY ServerFields DEF Inv, Good
  <2>2. CASE s.late = "file"
    <3>1. Kept = {} BY <2>2 DEF Kept, Inv
    <3> QED BY <3>1
  <2>3. CASE s.late # "file" BY <2>1, <2>3 DEF Durable
  <2> QED BY <2>2, <2>3
<1> QED BY <1>1, InitInv, NextInv, PTL DEF Spec
=============================================================================
