--------------------------- MODULE DlqToolProofs ---------------------------
(***************************************************************************)
(* Proofs about DlqTool for every topic, every -max and every fault.       *)
(***************************************************************************)
EXTENDS DlqTool, FiniteSetTheorems, WellFoundedInduction, TLAPS

\* The scan has not started.
Listing == pc \in {"listEnd", "listStart", "open"}

\* A replay that has not failed yet has replayed everything it visited; no
\* record was visited before the scan; and the tool does not exit with 0 after
\* a failure.
ReplayInv ==
  /\ replayFailed \in Nat
  /\ Listing => visited = {} /\ landed = {} /\ replayFailed = 0
  /\ flags.replay /\ replayFailed = 0 => visited = landed
  /\ pc = "exited" /\ exit = 0 /\ flags.replay => replayFailed = 0

\* A run that has not started has replayed nothing and promised nothing.
LEMMA ReplayInit == Init => ReplayInv
BY DEF Init, ReplayInv, Listing

\* A visit of EachRecord: what did not land counts as failed.
LEMMA VisitStep ==
  ASSUME ReplayInv, NEW x, NEW ok, NEW failed \in Nat, NEW sent, Visit(x, ok, failed, sent),
         flags.replay /\ failed = 0 => sent = {x}
  PROVE  ReplayInv'
BY DEF ReplayInv, Listing, Visit, topicVars, exitVars

\* Every step of the scan keeps the books of the replay.
LEMMA ReplayStep == ReplayInv /\ [Next]_vars => ReplayInv'
<1> SUFFICES ASSUME ReplayInv, [Next]_vars PROVE ReplayInv'
  OBVIOUS
<1>1. CASE ListEnd \/ ListError \/ OpenClients \/ ClientError
  BY <1>1 DEF ReplayInv, Listing, ListEnd, ListError, OpenClients, ClientError, Exit, scanVars, exitVars, histVars
<1>2. CASE ListStart
  <2>1. /\ UNCHANGED <<flags, replayFailed, visited, landed>> /\ pc = "listStart"
        /\ pc' \in {"exited", "open"}
    BY <1>2 DEF ListStart, Exit, scanVars, histVars
  <2> QED  BY <2>1 DEF ReplayInv, Listing
<1>3. CASE Poll \/ PollEmpty
  BY <1>3 DEF ReplayInv, Listing, Poll, PollEmpty, exitVars, histVars
<1>4. CASE Check
  <2>1. UNCHANGED <<flags, replayFailed, visited, landed>> /\ pc = "check"
    BY <1>4 DEF Check, histVars
  <2>2. pc' = "poll" \/ (pc' = "exited" /\ exit' = ExitCode)
    BY <1>4 DEF Check, Finish, Exit
  <2> QED  BY <2>1, <2>2 DEF ReplayInv, Listing, ExitCode
<1>5. CASE Break
  <2>1. UNCHANGED <<flags, replayFailed, visited, landed>> /\ pc = "poll"
    BY <1>5 DEF Break, scanVars, histVars
  <2>2. pc' = "exited" /\ exit' = ExitCode
    BY <1>5 DEF Break, Finish, Exit
  <2> QED  BY <2>1, <2>2 DEF ReplayInv, Listing, ExitCode
<1>6. ASSUME NEW x \in todo, Skip(x) PROVE ReplayInv'
  <2>1. Visit(x, 0, SkipFails, {}) /\ SkipFails \in Nat
    BY <1>6 DEF Skip, SkipFails
  <2> QED  BY <2>1, VisitStep DEF SkipFails
<1>7. ASSUME NEW x \in todo, ReplayOk(x) PROVE ReplayInv'
  BY <1>7, VisitStep DEF ReplayOk
<1>8. ASSUME NEW x \in todo, ReplayError(x) PROVE ReplayInv'
  BY <1>8, VisitStep DEF ReplayError
<1>9. CASE Expire
  BY <1>9 DEF ReplayInv, Listing, Expire, scanVars, exitVars, histVars
<1>10. ASSUME NEW p \in Partition, Truncate(p) PROVE ReplayInv'
  BY <1>10 DEF ReplayInv, Listing, Truncate, scanVars, exitVars, histVars
<1>11. ASSUME NEW p \in Partition, NEW r, DeadLetter(p, r) PROVE ReplayInv'
  BY <1>11 DEF ReplayInv, Listing, DeadLetter, scanVars, exitVars, histVars
<1>12. CASE UNCHANGED vars
  BY <1>12 DEF ReplayInv, Listing, vars, scanVars, exitVars, histVars
<1> QED
  BY <1>1, <1>2, <1>3, <1>4, <1>5, <1>6, <1>7, <1>8, <1>9, <1>10, <1>11, <1>12
  DEF Next, Main

\* Exit code 0 of a replay means that everything the run visited is in its
\* source topic, however the run ended.
THEOREM ExitCodeIsTrue == Spec => []SuccessMeansReplayed
<1>1. Init => ReplayInv
  BY ReplayInit
<1>2. ReplayInv /\ [Next]_vars => ReplayInv'
  BY ReplayStep
<1>3. ReplayInv => SuccessMeansReplayed
  BY DEF ReplayInv, SuccessMeansReplayed
<1> QED  BY <1>1, <1>2, <1>3, PTL DEF Spec

-----------------------------------------------------------------------------
(* Induction, as in LagProbeProofs.                                        *)

\* A set of natural numbers has a least element.
LEMMA Least ==
  ASSUME NEW T, T \subseteq Nat, T # {}
  PROVE  \E n \in T : \A m \in T : n <= m
<1> DEFINE R == {ss \in Nat \X Nat : ss[1] < ss[2]}
<1>1. IsWellFoundedOn(R, Nat)
  BY NatLessThanWellFounded DEF OpToRel
<1>2. PICK x \in T : \A y \in T : ~(<<y, x>> \in R)
  BY <1>1, WFMin
<1>3. ASSUME NEW y \in T PROVE x <= y
  <2>1. ~(y < x)
    BY <1>2
  <2> QED  BY <2>1
<1> QED  BY <1>2, <1>3

\* Induction, as a fact about sets of natural numbers.
LEMMA Induct ==
  ASSUME NEW T, 0 \in T, \A n \in Nat : n \in T => n + 1 \in T
  PROVE  Nat \subseteq T
<1> SUFFICES ASSUME ~(Nat \subseteq T) PROVE FALSE
  OBVIOUS
<1> DEFINE U == Nat \ T
<1>1. U \subseteq Nat /\ U # {}
  OBVIOUS
<1> HIDE DEF U
<1>2. PICK n \in U : \A m \in U : n <= m
  BY <1>1, Least
<1>3. n \in Nat /\ n \notin T /\ n # 0
  BY <1>2 DEF U
<1>4. n - 1 \in Nat /\ n - 1 + 1 = n /\ ~(n <= n - 1)
  BY <1>3
<1>5. n - 1 \in T
  BY <1>2, <1>4 DEF U
<1> QED  BY <1>3, <1>4, <1>5

-----------------------------------------------------------------------------
(* Sums over a finite set.                                                 *)

\* The element of s that MapThenFoldSet takes next.
First(s) == CHOOSE x \in s : TRUE

\* The element taken is one of the set, and leaves a smaller one.
LEMMA FirstLeaves ==
  ASSUME NEW s, IsFiniteSet(s), s # {}
  PROVE  /\ First(s) \in s /\ IsFiniteSet(s \ {First(s)})
         /\ Cardinality(s) \in Nat \ {0}
         /\ Cardinality(s \ {First(s)}) = Cardinality(s) - 1
<1>1. First(s) \in s
  BY DEF First
<1>2. Cardinality(s) \in Nat /\ Cardinality(s) # 0
  BY FS_CardinalityType, FS_EmptySet
<1> QED  BY <1>1, <1>2, FS_RemoveElement

\* Induction over the subsets of a finite set.
LEMMA SubsetInduct ==
  ASSUME NEW S, IsFiniteSet(S), NEW T, {} \in T,
         \A s \in SUBSET S : s # {} /\ s \ {First(s)} \in T => s \in T
  PROVE  \A s \in SUBSET S : s \in T
<1> DEFINE U == {n \in Nat : \A s \in SUBSET S : Cardinality(s) = n => s \in T}
<1>0. \A s \in SUBSET S : IsFiniteSet(s) /\ Cardinality(s) \in Nat
  BY FS_Subset, FS_CardinalityType
<1>1. 0 \in U
  <2> SUFFICES ASSUME NEW s \in SUBSET S, Cardinality(s) = 0 PROVE s \in T
    OBVIOUS
  <2>1. s = {}
    BY <1>0, FS_EmptySet
  <2> QED  BY <2>1
<1>2. ASSUME NEW n \in Nat, n \in U PROVE n + 1 \in U
  <2> SUFFICES ASSUME NEW s \in SUBSET S, Cardinality(s) = n + 1 PROVE s \in T
    OBVIOUS
  <2>1. s # {}
    <3> SUFFICES ASSUME s = {} PROVE FALSE
      OBVIOUS
    <3>1. Cardinality(s) = 0
      BY FS_EmptySet
    <3> QED  BY <3>1
  <2>2. Cardinality(s \ {First(s)}) = n /\ s \ {First(s)} \in SUBSET S
    <3>1. Cardinality(s \ {First(s)}) = Cardinality(s) - 1
      BY <1>0, <2>1, FirstLeaves
    <3> QED  BY <3>1
  <2>3. s \ {First(s)} \in T
    BY <1>2, <2>2
  <2> QED  BY <2>1, <2>3
<1> HIDE DEF U
<1>3. Nat \subseteq U
  BY <1>1, <1>2, Induct
<1> SUFFICES ASSUME NEW s \in SUBSET S PROVE s \in T
  OBVIOUS
<1>4. Cardinality(s) \in U
  BY <1>0, <1>3
<1> QED  BY <1>4 DEF U

\* One step of the fold that sums f: what g makes of s.
FoldStep(f, g, s) == IF s = {} THEN 0 ELSE f[First(s)] + g[s \ {First(s)}]

IsFold(D, f, h) == h = [s \in D |-> FoldStep(f, h, s)]

UpTo(S, n) == {t \in SUBSET S : Cardinality(t) <= n}

\* The fold can be computed for the subsets with up to n elements ...
LEMMA FoldApprox ==
  ASSUME NEW S, IsFiniteSet(S), NEW f
  PROVE  \A n \in Nat : \E h : IsFold(UpTo(S, n), f, h)
<1> DEFINE D(n) == UpTo(S, n)
           T == {n \in Nat : \E h : IsFold(D(n), f, h)}
<1>0. \A s \in SUBSET S : IsFiniteSet(s) /\ Cardinality(s) \in Nat
  BY FS_Subset, FS_CardinalityType
<1>1. 0 \in T
  <2> DEFINE h == [s \in D(0) |-> 0]
  <2>1. ASSUME NEW s \in D(0) PROVE s = {}
    <3>1. Cardinality(s) = 0 /\ s \in SUBSET S
      BY <1>0, <2>1 DEF UpTo
    <3> QED  BY <1>0, <3>1, FS_EmptySet
  <2>2. ASSUME NEW s \in D(0) PROVE FoldStep(f, h, s) = 0
    BY <2>1 DEF FoldStep
  <2> HIDE DEF D
  <2>3. IsFold(D(0), f, h)
    BY <2>2 DEF IsFold
  <2> QED  BY <2>3
<1>2. ASSUME NEW n \in Nat, n \in T PROVE n + 1 \in T
  <2>1. PICK h : IsFold(D(n), f, h)
    BY <1>2
  <2> DEFINE g == [s \in D(n + 1) |-> FoldStep(f, h, s)]
  <2>2. ASSUME NEW s \in D(n) PROVE s \in D(n + 1)
    BY <1>0, <2>2 DEF UpTo
  <2>3. ASSUME NEW s \in D(n + 1), s # {} PROVE s \ {First(s)} \in D(n)
    <3>1. s \in SUBSET S /\ Cardinality(s) <= n + 1
      BY <2>3 DEF UpTo
    <3>2. Cardinality(s \ {First(s)}) = Cardinality(s) - 1 /\ Cardinality(s) \in Nat
      BY <1>0, <2>3, <3>1, FirstLeaves
    <3> QED  BY <3>1, <3>2 DEF UpTo
  <2> HIDE DEF D
  <2>4. ASSUME NEW s \in D(n) PROVE g[s] = h[s]
    BY <2>1, <2>2, <2>4 DEF IsFold
  <2> HIDE DEF g
  <2>5. ASSUME NEW s \in D(n + 1) PROVE FoldStep(f, h, s) = FoldStep(f, g, s)
    BY <2>3, <2>4 DEF FoldStep
  <2>6. IsFold(D(n + 1), f, g)
    BY <2>5 DEF g, IsFold
  <2> QED  BY <2>6
<1> HIDE DEF T
<1>3. Nat \subseteq T
  BY <1>1, <1>2, Induct
<1> QED  BY <1>3 DEF T

\* ... hence for all of them.
LEMMA FoldExists ==
  ASSUME NEW S, IsFiniteSet(S), NEW f
  PROVE  \E h : IsFold(SUBSET S, f, h)
<1>1. Cardinality(S) \in Nat /\ \A s \in SUBSET S : Cardinality(s) <= Cardinality(S)
  BY FS_Subset, FS_CardinalityType
<1>2. UpTo(S, Cardinality(S)) = SUBSET S
  BY <1>1 DEF UpTo
<1>3. \E h : IsFold(UpTo(S, Cardinality(S)), f, h)
  BY <1>1, FoldApprox
<1> QED  BY <1>2, <1>3

-----------------------------------------------------------------------------
(* The listing.                                                            *)

\* Where the listing and the scan stand on each partition.
OffsetInv ==
  /\ log \in [Partition -> Seq({"sourced", "headerless"})]
  /\ low \in [Partition -> Nat]
  /\ pos \in [Partition -> Nat]
  /\ start \in [Partition -> Nat]
  /\ end \in [Partition -> Nat \cup {NoOffset}]

\* The mark is the sum over the listed partitions, taken one after the other.
LEMMA MarkRec ==
  ASSUME NEW s \in [Partition -> Int], NEW e \in [Partition -> Int]
  PROVE  \E g : /\ g \in [SUBSET Listed -> Int]
                /\ g[{}] = 0
                /\ \A t \in SUBSET Listed : t # {} =>
                     g[t] = e[First(t)] - s[First(t)] + g[t \ {First(t)}]
                /\ totalLag(s, e) = g[Listed]
<1> DEFINE f == [p \in Listed |-> e[p] - s[p]]
           D(h) == [t \in SUBSET Listed |-> FoldStep(f, h, t)]
           g == CHOOSE h : h = D(h)
           E(h) == [t \in SUBSET Listed |->
                      IF t = {} THEN 0
                      ELSE e[First(t)] - s[First(t)] + h[t \ {First(t)}]]
<1>0. Listed \subseteq Partition /\ IsFiniteSet(Listed)
  <2>1. Listed \in SUBSET Partition
    BY DEF Listed
  <2> QED  BY <2>1, DlqToolAssumption, FS_Subset
<1> HIDE DEF f
<1>1. ASSUME NEW h PROVE D(h) = E(h)
  <2>1. ASSUME NEW t \in SUBSET Listed, t # {} PROVE f[First(t)] = e[First(t)] - s[First(t)]
    <3>1. First(t) \in Listed
      BY <2>1 DEF First
    <3> QED  BY <3>1 DEF f
  <2> QED  BY <2>1 DEF FoldStep
<1>2. totalLag(s, e) = g[Listed]
  <2>1. totalLag(s, e) = (CHOOSE h : h = [t \in SUBSET Listed |->
                    IF t = {} THEN 0
                    ELSE e[CHOOSE x \in t : TRUE] - s[CHOOSE x \in t : TRUE]
                         + h[t \ {CHOOSE x \in t : TRUE}]])[Listed]
    BY DEF totalLag, MapThenSumSet, MapThenFoldSet
  <2>2. totalLag(s, e) = (CHOOSE h : h = E(h))[Listed]
    BY <2>1 DEF First
  <2>3. \A h : h = D(h) <=> h = E(h)
    BY <1>1
  <2> HIDE DEF D, E
  <2>4. (CHOOSE h : h = D(h)) = (CHOOSE h : h = E(h))
    BY <2>3
  <2> QED  BY <2>2, <2>4
<1>3. g = D(g)
  <2>1. \E h : IsFold(SUBSET Listed, f, h)
    BY <1>0, FoldExists
  <2> QED  BY <2>1 DEF IsFold
<1> HIDE DEF g
<1>4. \A t \in SUBSET Listed : g[t] = FoldStep(f, g, t)
  BY <1>3
<1>5. g[{}] = 0
  <2>1. {} \in SUBSET Listed /\ FoldStep(f, g, {}) = 0
    BY DEF FoldStep
  <2> QED  BY <1>4, <2>1
<1>6. ASSUME NEW t \in SUBSET Listed, t # {}
      PROVE  /\ First(t) \in Listed
             /\ g[t] = e[First(t)] - s[First(t)] + g[t \ {First(t)}]
  <2>1. First(t) \in Listed
    BY <1>6 DEF First
  <2>2. f[First(t)] = e[First(t)] - s[First(t)]
    BY <2>1 DEF f
  <2>3. g[t] = f[First(t)] + g[t \ {First(t)}]
    BY <1>4, <1>6 DEF FoldStep
  <2> QED  BY <2>1, <2>2, <2>3
<1> DEFINE T == {t \in SUBSET Listed : g[t] \in Int}
<1>7. {} \in T
  BY <1>5
<1>8. ASSUME NEW t \in SUBSET Listed, t # {}, t \ {First(t)} \in T PROVE t \in T
  <2>1. e[First(t)] \in Int /\ s[First(t)] \in Int
    <3>1. First(t) \in Partition
      BY <1>0, <1>6, <1>8
    <3> QED  BY <3>1
  <2>2. g[t \ {First(t)}] \in Int
    BY <1>8
  <2>3. g[t] = e[First(t)] - s[First(t)] + g[t \ {First(t)}]
    BY <1>6, <1>8
  <2> QED  BY <2>1, <2>2, <2>3
<1> HIDE DEF T
<1>9. \A t \in SUBSET Listed : t \in T
  BY <1>0, <1>7, <1>8, SubsetInduct
<1>10. g \in [SUBSET Listed -> Int]
  BY <1>3, <1>9 DEF T
<1> QED  BY <1>2, <1>5, <1>6, <1>10

\* The mark is a number ...
LEMMA MarkIsInt == OffsetInv => totalLag(start, end) \in Int
<1> SUFFICES ASSUME OffsetInv PROVE totalLag(start, end) \in Int
  OBVIOUS
<1>1. start \in [Partition -> Int] /\ end \in [Partition -> Int]
  BY DEF OffsetInv, NoOffset
<1>2. PICK g : g \in [SUBSET Listed -> Int] /\ totalLag(start, end) = g[Listed]
  BY <1>1, MarkRec
<1> QED  BY <1>2

\* Every step keeps the offsets what they are.
LEMMA OffsetStep == OffsetInv /\ [Next]_vars => OffsetInv'
<1> SUFFICES ASSUME OffsetInv, [Next]_vars PROVE OffsetInv'
  OBVIOUS
<1>0. ASSUME NEW p \in Partition PROVE From(p) \in Nat
  BY DEF OffsetInv, From
<1>1. CASE ListEnd
  <2>1. PICK U : end' = [p \in Partition |-> IF p \in U THEN NoOffset ELSE Len(log[p])]
    BY <1>1 DEF ListEnd
  <2>2. \A p \in Partition : Len(log[p]) \in Nat
    BY DEF OffsetInv
  <2>3. end' \in [Partition -> Nat \cup {NoOffset}]
    BY <2>1, <2>2
  <2> QED  BY <1>1, <2>3 DEF OffsetInv, ListEnd, topicVars, scanVars
<1>2. CASE ListStart
  <2>1. PICK U : start' = [p \in Partition |-> IF p \in U THEN 0 ELSE low[p]]
    BY <1>2 DEF ListStart
  <2>2. start' \in [Partition -> Nat]
    BY <2>1 DEF OffsetInv
  <2> QED  BY <1>2, <2>2 DEF OffsetInv, ListStart, topicVars, scanVars
<1>3. CASE Poll
  <2>1. PICK n \in [Partition -> 0 .. MaxFetch] : pos' = [p \in Partition |-> From(p) + n[p]]
    BY <1>3 DEF Poll
  <2>2. ASSUME NEW p \in Partition PROVE From(p) + n[p] \in Nat
    <3>1. n[p] \in Nat
      BY <2>1, DlqToolAssumption
    <3> QED  BY <1>0, <3>1
  <2>3. pos' \in [Partition -> Nat]
    BY <2>1, <2>2
  <2> QED  BY <1>3, <2>3 DEF OffsetInv, Poll, topicVars, listVars
<1>4. ASSUME NEW p \in Partition, NEW r \in {"sourced", "headerless"}, DeadLetter(p, r)
      PROVE  OffsetInv'
  <2>1. Append(log[p], r) \in Seq({"sourced", "headerless"})
    BY DEF OffsetInv
  <2>2. log' = [log EXCEPT ![p] = Append(log[p], r)]
    BY <1>4 DEF DeadLetter
  <2>3. log' \in [Partition -> Seq({"sourced", "headerless"})]
    BY <2>1, <2>2 DEF OffsetInv
  <2>4. UNCHANGED <<low, pos, start, end, flags>>
    BY <1>4 DEF DeadLetter, listVars, scanVars
  <2> QED  BY <2>3, <2>4 DEF OffsetInv
<1>5. ASSUME NEW p \in Partition, Truncate(p) PROVE OffsetInv'
  <2>1. PICK n \in low[p] + 1 .. Len(log[p]) : low' = [low EXCEPT ![p] = n]
    BY <1>5 DEF Truncate
  <2>2. n \in Nat
    BY <2>1 DEF OffsetInv
  <2> QED  BY <1>5, <2>1, <2>2 DEF OffsetInv, Truncate, listVars, scanVars
<1>6. CASE UNCHANGED <<log, low, pos, start, end, flags>>
  BY <1>6 DEF OffsetInv
<1>7. ASSUME NEW x \in todo, Skip(x) \/ ReplayOk(x) \/ ReplayError(x)
      PROVE  UNCHANGED <<log, low, pos, start, end, flags>>
  BY <1>7 DEF Skip, ReplayOk, ReplayError, Visit, topicVars, listVars
<1>8. ASSUME PollEmpty \/ Check \/ Break \/ ListError \/ OpenClients \/ ClientError
             \/ Expire \/ UNCHANGED vars
      PROVE  UNCHANGED <<log, low, pos, start, end, flags>>
  BY <1>8 DEF PollEmpty, Check, Break, ListError, OpenClients, ClientError, Expire, vars,
     topicVars, listVars, scanVars
<1> QED  BY <1>1, <1>2, <1>3, <1>4, <1>5, <1>6, <1>7, <1>8 DEF Next, Main

\* The mark depends on the listing alone.
LEMMA MarkStays ==
  ASSUME end' = end
  PROVE  totalLag(start, end)' = totalLag(start', end)
<1>1. Listed' = Listed
  BY DEF Listed
<1> QED  BY <1>1 DEF totalLag, MapThenSumSet, MapThenFoldSet

-----------------------------------------------------------------------------
(* The scan.                                                               *)

\* A fetch holds at most MaxFetch records of each partition.
LEMMA FetchIsBounded ==
  ASSUME OffsetInv, NEW n \in [Partition -> 0 .. MaxFetch]
  PROVE  IsFiniteSet(Fetched(n)) /\ Cardinality(Fetched(n)) <= FetchSize
<1> DEFINE S == Fetched(n)
           Q == Partition \X (1 .. MaxFetch)
           f == [x \in S |-> <<x[1], x[2] - From(x[1])>>]
<1>0. MaxFetch \in Nat /\ IsFiniteSet(Partition)
  BY DlqToolAssumption
<1>1. \A p \in Partition : From(p) \in Nat
  BY DEF OffsetInv, From
<1>2. ASSUME NEW x \in S
      PROVE  /\ x[1] \in Partition /\ x[2] \in Nat /\ x = <<x[1], x[2]>>
             /\ x[2] - From(x[1]) \in 1 .. MaxFetch
  <2>1. PICK p \in Partition : \E i \in From(p) + 1 .. From(p) + n[p] : x = <<p, i>>
    BY <1>2 DEF Fetched
  <2>2. PICK i \in From(p) + 1 .. From(p) + n[p] : x = <<p, i>>
    BY <2>1
  <2>3. From(p) \in Nat /\ n[p] \in 0 .. MaxFetch
    BY <1>1
  <2>4. i \in Nat /\ i - From(p) \in 1 .. MaxFetch
    BY <1>0, <2>2, <2>3
  <2> QED  BY <2>2, <2>4
<1>3. f \in Injection(S, Q)
  <2> HIDE DEF S
  <2>1. f \in [S -> Q]
    BY <1>2
  <2>2. ASSUME NEW x \in S, NEW y \in S, f[x] = f[y] PROVE x = y
    <3>1. x[1] = y[1] /\ x[2] - From(x[1]) = y[2] - From(x[1])
      BY <2>2
    <3>2. From(x[1]) \in Nat /\ x[2] \in Nat /\ y[2] \in Nat
      BY <1>1, <1>2
    <3>3. x[2] = y[2]
      BY <3>1, <3>2
    <3> QED  BY <1>2, <3>1, <3>3
  <2>3. DOMAIN f = S
    OBVIOUS
  <2> HIDE DEF f, Q
  <2> QED  BY <2>1, <2>2, <2>3 DEF Injection, IsInjective
<1>4. IsFiniteSet(1 .. MaxFetch) /\ Cardinality(1 .. MaxFetch) = MaxFetch
  BY <1>0, FS_Interval
<1>5. IsFiniteSet(Q) /\ Cardinality(Q) = Cardinality(Partition) * MaxFetch
  BY <1>0, <1>4, FS_Product
<1> HIDE DEF S, Q, f
<1>6. IsFiniteSet(S) /\ Cardinality(S) <= Cardinality(Q)
  BY <1>3, <1>5, FS_Injection
<1>7. Cardinality(Partition) \in Nat
  BY <1>0, FS_CardinalityType
<1>8. Cardinality(Partition) * MaxFetch = MaxFetch * Cardinality(Partition)
  BY <1>0, <1>7
<1> QED  BY <1>5, <1>6, <1>8 DEF S, FetchSize

\* n records are at most k past the mark.
Mark == Max({0, totalLag(start, end) - 1})

Within(n, k) == n <= Mark + k

\* The books of the scan: no record is visited twice, so processed counts the
\* records visited; a fetch is only made below the mark, and what it may still
\* add is known.
ScanInv ==
  /\ processed \in Nat
  /\ IsFiniteSet(todo) /\ IsFiniteSet(visited)
  /\ processed = Cardinality(visited)
  /\ visited \cap todo = {}
  /\ visited \cup todo \subseteq {x \in Partition \X Nat : x[2] <= pos[x[1]]}
  /\ pc # "each" => todo = {}
  /\ Listing => visited = {}
  /\ pc = "poll" => Within(processed, 0)
  /\ ~Listing => Within(processed + Cardinality(todo), FetchSize)

\* Whatever the sign of the lag, the mark is a natural number at or above it.
LEMMA MarkIsNat == OffsetInv => Mark \in Nat /\ totalLag(start, end) - 1 <= Mark
<1> SUFFICES ASSUME OffsetInv PROVE Mark \in Nat /\ totalLag(start, end) - 1 <= Mark
  OBVIOUS
<1> DEFINE l == totalLag(start, end) - 1
<1>1. l \in Int
  BY MarkIsInt
<1>2. Mark = Max({0, l})
  BY DEF Mark
<1> HIDE DEF l
<1>3. \E x \in {0, l} : \A y \in {0, l} : x >= y
  BY <1>1
<1>4. Mark \in {0, l} /\ \A y \in {0, l} : Mark >= y
  BY <1>2, <1>3 DEF Max
<1>5. Mark >= 0 /\ Mark >= l /\ Mark \in Int
  BY <1>1, <1>4
<1> QED  BY <1>1, <1>5 DEF l

\* A step that leaves the listing alone leaves the mark where it is.
LEMMA BoundsStay ==
  ASSUME UNCHANGED <<start, end>>
  PROVE  totalLag(start, end)' = totalLag(start, end) /\ Mark' = Mark
<1>1. totalLag(start, end)' = totalLag(start, end)
  BY MarkStays
<1> QED  BY <1>1 DEF Mark

\* A fetch is a number of records.
LEMMA FetchSizeIsNat == FetchSize \in Nat
<1>1. MaxFetch \in Nat /\ Cardinality(Partition) \in Nat
  BY DlqToolAssumption, FS_CardinalityType
<1> QED  BY <1>1 DEF FetchSize

\* Nothing read is within any mark.
LEMMA NothingIsWithin ==
  ASSUME OffsetInv, NEW k \in Nat
  PROVE  Within(0, k)
<1>1. Mark \in Nat
  BY MarkIsNat
<1> QED  BY <1>1 DEF Within

\* Before the scan nothing is counted.
LEMMA ScanInit == Init => OffsetInv /\ ScanInv
<1> SUFFICES ASSUME Init PROVE OffsetInv /\ ScanInv
  OBVIOUS
<1>1. OffsetInv
  <2>1. <<>> \in Seq({"sourced", "headerless"})
    OBVIOUS
  <2>2. log \in [Partition -> Seq({"sourced", "headerless"})]
    BY <2>1 DEF Init
  <2> QED  BY <2>2 DEF Init, OffsetInv, NoOffset
<1>2. pc = "listEnd" /\ processed = 0 /\ todo = {} /\ visited = {}
  BY DEF Init
<1>3. IsFiniteSet({}) /\ Cardinality({}) = 0
  BY FS_EmptySet
<1> QED  BY <1>1, <1>2, <1>3 DEF ScanInv, Listing

\* A visit moves one record from the fetch to the books.
LEMMA VisitCounts ==
  ASSUME OffsetInv, ScanInv, NEW x \in todo, NEW ok, NEW failed, NEW sent,
         Visit(x, ok, failed, sent)
  PROVE  ScanInv'
<1>1. /\ UNCHANGED <<start, end, pos>>
      /\ processed' = processed + 1
      /\ visited' = visited \cup {x} /\ todo' = todo \ {x}
      /\ pc = "each" /\ pc' = IF todo = {x} THEN "check" ELSE "each"
  BY DEF Visit, listVars
<1>2. x \notin visited
  BY DEF ScanInv
<1>3. /\ IsFiniteSet(visited') /\ Cardinality(visited') = Cardinality(visited) + 1
      /\ IsFiniteSet(todo') /\ Cardinality(todo') = Cardinality(todo) - 1
  BY <1>1, <1>2, FS_AddElement, FS_RemoveElement DEF ScanInv
<1>4. processed \in Nat /\ Cardinality(todo) \in Nat
  BY FS_CardinalityType DEF ScanInv
<1>5. processed' + Cardinality(todo') = processed + Cardinality(todo)
  BY <1>1, <1>3, <1>4
<1>6. Within(processed + Cardinality(todo), FetchSize)
  BY <1>1 DEF ScanInv, Listing
<1>7. Within(processed + Cardinality(todo), FetchSize)'
  BY <1>1, <1>5, <1>6, BoundsStay DEF Within, FetchSize
<1>8. /\ processed' \in Nat /\ processed' = Cardinality(visited')
      /\ visited' \cap todo' = {}
      /\ visited' \cup todo' \subseteq {y \in Partition \X Nat : y[2] <= pos'[y[1]]}
  BY <1>1, <1>3, <1>4 DEF ScanInv
<1>9. /\ pc' # "each" => todo' = {}
      /\ pc' # "poll" /\ ~Listing'
  BY <1>1 DEF ScanInv, Listing
<1> QED  BY <1>3, <1>7, <1>8, <1>9 DEF ScanInv

\* A fetch is new to the scan, and made below the mark.
LEMMA PollCounts ==
  ASSUME OffsetInv, ScanInv, Poll
  PROVE  ScanInv'
<1>1. PICK n \in [Partition -> 0 .. MaxFetch] :
        todo' = Fetched(n) /\ pos' = [p \in Partition |-> From(p) + n[p]]
  BY DEF Poll
<1>2. /\ UNCHANGED <<start, end, processed, visited>>
      /\ pc = "poll" /\ pc' = "each"
  BY DEF Poll, listVars, histVars
<1>3. IsFiniteSet(todo') /\ Cardinality(todo') <= FetchSize
  BY <1>1, FetchIsBounded
<1>4. ASSUME NEW p \in Partition
      PROVE  pos[p] \in Nat /\ From(p) \in Nat /\ pos[p] <= From(p) /\ n[p] \in Nat
  BY DlqToolAssumption DEF OffsetInv, From
<1>5. ASSUME NEW x \in todo'
      PROVE  /\ x \in Partition \X Nat
             /\ x[2] > pos[x[1]] /\ x[2] <= pos'[x[1]]
  <2>1. PICK p \in Partition : \E i \in From(p) + 1 .. From(p) + n[p] : x = <<p, i>>
    BY <1>1, <1>5 DEF Fetched
  <2>2. PICK i \in From(p) + 1 .. From(p) + n[p] : x = <<p, i>>
    BY <2>1
  <2>3. i \in Nat /\ i > pos[p] /\ i <= From(p) + n[p]
    BY <1>4, <2>2
  <2>4. pos'[p] = From(p) + n[p]
    BY <1>1
  <2> QED  BY <2>2, <2>3, <2>4
<1>6. ASSUME NEW x \in visited
      PROVE  x \in Partition \X Nat /\ x[2] <= pos[x[1]] /\ x[2] <= pos'[x[1]]
  <2>1. x \in Partition \X Nat /\ x[2] <= pos[x[1]]
    BY <1>6 DEF ScanInv
  <2>2. x[1] \in Partition /\ x[2] \in Nat
    BY <2>1
  <2>3. pos'[x[1]] = From(x[1]) + n[x[1]]
    BY <1>1, <2>2
  <2> QED  BY <1>4, <2>1, <2>2, <2>3
<1>7. visited' \cap todo' = {}
  <2> SUFFICES ASSUME NEW x \in visited, x \in todo' PROVE FALSE
    BY <1>2
  <2>1. x[1] \in Partition /\ x[2] \in Nat
    BY <1>5
  <2>2. x[2] \in Nat /\ pos[x[1]] \in Nat /\ x[2] > pos[x[1]] /\ x[2] <= pos[x[1]]
    BY <1>4, <1>5, <1>6, <2>1
  <2> QED  BY <2>2
<1>8. visited' \cup todo' \subseteq {x \in Partition \X Nat : x[2] <= pos'[x[1]]}
  BY <1>2, <1>5, <1>6
<1>9. Within(processed + Cardinality(todo), FetchSize)'
  <2>1. processed \in Nat /\ Within(processed, 0)
    BY <1>2 DEF ScanInv
  <2>2. Cardinality(todo') \in Nat
    BY <1>3, FS_CardinalityType
  <2>3. Mark \in Nat /\ FetchSize \in Nat
    BY MarkIsNat, FetchSizeIsNat
  <2>4. Within(processed + Cardinality(todo'), FetchSize)
    BY <1>3, <2>1, <2>2, <2>3 DEF Within
  <2> QED  BY <1>2, <2>4, BoundsStay DEF Within, FetchSize
<1>10. processed' \in Nat /\ IsFiniteSet(visited') /\ processed' = Cardinality(visited')
  BY <1>2 DEF ScanInv
<1>11. pc' # "poll" /\ ~Listing'
  BY <1>2 DEF Listing
<1> QED  BY <1>2, <1>3, <1>7, <1>8, <1>9, <1>10, <1>11 DEF ScanInv

\* Between two fetches: what the next state must show for the books to be
\* kept, when they are not touched and no record is in hand.
LEMMA BetweenFetches ==
  ASSUME OffsetInv, ScanInv, UNCHANGED <<start, end, processed, visited, todo, pos>>,
         ~Listing, ~Listing', todo = {},
         pc' = "poll" => Within(processed, 0)
  PROVE  ScanInv'
<1>1. Within(processed + Cardinality(todo), FetchSize)
  BY DEF ScanInv
<1>2. Within(processed + Cardinality(todo), FetchSize)'
  BY <1>1, BoundsStay DEF Within, FetchSize
<1>3. pc' = "poll" => Within(processed, 0)'
  BY BoundsStay DEF Within
<1>4. /\ processed' \in Nat /\ IsFiniteSet(todo') /\ IsFiniteSet(visited')
      /\ processed' = Cardinality(visited') /\ visited' \cap todo' = {}
      /\ visited' \cup todo' \subseteq {x \in Partition \X Nat : x[2] <= pos'[x[1]]}
      /\ todo' = {}
  BY DEF ScanInv
<1> QED  BY <1>2, <1>3, <1>4 DEF ScanInv

\* The switch lets the scan go on only below the mark.
LEMMA CheckCounts ==
  ASSUME OffsetInv, ScanInv, Check
  PROVE  ScanInv'
<1>1. /\ UNCHANGED <<start, end, processed, visited, todo, pos>>
      /\ pc = "check" /\ todo = {}
  BY DEF Check, listVars, histVars, ScanInv
<1>2. /\ processed \in Nat /\ Mark \in Nat
      /\ totalLag(start, end) \in Int /\ totalLag(start, end) - 1 <= Mark
  BY MarkIsInt, MarkIsNat DEF ScanInv
<1>3. pc' = "exited" \/ (pc' = "poll" /\ ~Reached(totalLag(start, end)))
  BY DEF Check, Finish, Exit
<1>4. pc' = "poll" => Within(processed, 0)
  BY <1>2, <1>3 DEF Within, Reached
<1>5. ~Listing /\ ~Listing'
  BY <1>1, <1>3 DEF Listing
<1> QED  BY <1>1, <1>4, <1>5, BetweenFetches

\* The listing sets the mark before anything is read.
LEMMA ListingCounts ==
  ASSUME OffsetInv, ScanInv, OffsetInv',
         ListEnd \/ ListStart \/ ListError \/ OpenClients \/ ClientError
  PROVE  ScanInv'
<1>1. /\ UNCHANGED <<processed, visited, todo, pos>>
      /\ Listing /\ todo = {} /\ visited = {} /\ processed = 0
  BY FS_EmptySet DEF ListEnd, ListStart, ListError, OpenClients, ClientError, scanVars, histVars,
     ScanInv, Listing
<1>2. Cardinality({}) = 0 /\ IsFiniteSet({})
  BY FS_EmptySet
<1>3. Within(processed, 0)' /\ Within(processed + Cardinality(todo), FetchSize)'
  <2>1. Mark' \in Nat /\ FetchSize \in Nat
    <3>1. (Mark \in Nat /\ totalLag(start, end) - 1 <= Mark)'
      BY MarkIsNat, PTL
    <3> QED  BY <3>1, FetchSizeIsNat
  <2>2. processed' = 0 /\ Cardinality(todo') = 0
    BY <1>1, <1>2
  <2>3. 0 <= Mark' + 0 /\ 0 + 0 <= Mark' + FetchSize
    <3>1. \A m, k \in Nat : 0 <= m + 0 /\ 0 + 0 <= m + k
      OBVIOUS
    <3> QED  BY <2>1, <3>1
  <2> QED  BY <2>2, <2>3 DEF Within, FetchSize
<1>4. /\ processed' \in Nat /\ IsFiniteSet(todo') /\ IsFiniteSet(visited')
      /\ processed' = Cardinality(visited') /\ visited' \cap todo' = {}
      /\ visited' \cup todo' \subseteq {x \in Partition \X Nat : x[2] <= pos'[x[1]]}
      /\ todo' = {} /\ visited' = {}
  BY <1>1, <1>2
<1>5. pc' # "each" => todo' = {}
  BY <1>4
<1> QED  BY <1>3, <1>4, <1>5 DEF ScanInv

\* Every step keeps the books of the scan.
LEMMA ScanStep == OffsetInv /\ ScanInv /\ [Next]_vars => OffsetInv' /\ ScanInv'
<1> SUFFICES ASSUME OffsetInv, ScanInv, [Next]_vars PROVE OffsetInv' /\ ScanInv'
  OBVIOUS
<1>0. OffsetInv'
  BY OffsetStep
<1>1. CASE ListEnd \/ ListStart \/ ListError \/ OpenClients \/ ClientError
  BY <1>0, <1>1, ListingCounts
<1>2. CASE Poll
  BY <1>0, <1>2, PollCounts
<1>3. CASE PollEmpty
  <2>1. /\ UNCHANGED <<start, end, processed, visited, todo, pos>>
        /\ pc = "poll" /\ pc' = "check"
    BY <1>3 DEF PollEmpty, listVars, histVars
  <2>2. todo = {} /\ ~Listing /\ ~Listing'
    BY <2>1 DEF ScanInv, Listing
  <2> QED  BY <1>0, <2>1, <2>2, BetweenFetches
<1>4. CASE Check
  BY <1>0, <1>4, CheckCounts
<1>5. CASE Break
  <2>1. /\ UNCHANGED <<start, end, processed, visited, todo, pos>>
        /\ pc = "poll" /\ pc' = "exited"
    BY <1>5 DEF Break, Finish, Exit, listVars, scanVars, histVars
  <2>2. todo = {} /\ ~Listing /\ ~Listing'
    BY <2>1 DEF ScanInv, Listing
  <2> QED  BY <1>0, <2>1, <2>2, BetweenFetches
<1>6. ASSUME NEW x \in todo, Skip(x) PROVE ScanInv'
  <2>1. Visit(x, 0, SkipFails, {})
    BY <1>6 DEF Skip
  <2> QED  BY <2>1, VisitCounts
<1>7. ASSUME NEW x \in todo, ReplayOk(x) PROVE ScanInv'
  <2>1. Visit(x, 1, 0, {x})
    BY <1>7 DEF ReplayOk
  <2> QED  BY <2>1, VisitCounts
<1>8. ASSUME NEW x \in todo, ReplayError(x) PROVE ScanInv'
  <2>1. PICK sent : Visit(x, 0, 1, sent)
    BY <1>8 DEF ReplayError
  <2> QED  BY <2>1, VisitCounts
<1>9. ASSUME UNCHANGED <<start, end, processed, visited, todo, pos, pc>>
      PROVE  ScanInv'
  <2>1. totalLag(start, end)' = totalLag(start, end) /\ Mark' = Mark
    BY <1>9, BoundsStay
  <2> QED  BY <1>9, <2>1 DEF ScanInv, Listing, Within, FetchSize
<1>10. ASSUME \/ Expire \/ UNCHANGED vars
              \/ \E p \in Partition : \/ Truncate(p)
                                      \/ \E r \in {"sourced", "headerless"} : DeadLetter(p, r)
       PROVE  UNCHANGED <<start, end, processed, visited, todo, pos, pc>>
  BY <1>10 DEF Expire, Truncate, DeadLetter, vars, listVars, scanVars, histVars
<1> QED
  BY <1>0, <1>1, <1>2, <1>3, <1>4, <1>5, <1>6, <1>7, <1>8, <1>9, <1>10 DEF Next, Main

\* A run of dlqtool ends less than one fetch past the mark it listed, however
\* the topic grows by its own replays and whatever retention removes: it cannot
\* chase a poison record for ever.
THEOREM ScanIsBounded == Spec => []FeedbackIsBounded
<1>1. Init => OffsetInv /\ ScanInv
  BY ScanInit
<1>2. OffsetInv /\ ScanInv /\ [Next]_vars => OffsetInv' /\ ScanInv'
  BY ScanStep
<1>3. OffsetInv /\ ScanInv => FeedbackIsBounded
  <2> SUFFICES ASSUME OffsetInv, ScanInv PROVE FeedbackIsBounded
    OBVIOUS
  <2>1. /\ Cardinality(todo) \in Nat /\ processed \in Nat /\ Mark \in Nat
        /\ FetchSize \in Nat
    BY FS_CardinalityType, MarkIsNat, FetchSizeIsNat DEF ScanInv
  <2>2. Within(processed + Cardinality(todo), FetchSize)
    <3>1. CASE Listing
      <4>1. processed + Cardinality(todo) = 0
        BY <3>1, FS_EmptySet DEF ScanInv, Listing
      <4> QED  BY <2>1, <4>1, NothingIsWithin
    <3>2. CASE ~Listing
      BY <3>2 DEF ScanInv
    <3> QED  BY <3>1, <3>2
  <2>3. processed <= Mark + FetchSize
    BY <2>1, <2>2 DEF Within
  <2> QED  BY <2>3 DEF FeedbackIsBounded, Mark
<1> QED  BY <1>1, <1>2, <1>3, PTL DEF Spec
=============================================================================
