--------------------------- MODULE LagProbeProofs ---------------------------
(***************************************************************************)
(* Proofs about LagProbe for every set of partitions, every bound and      *)
(* every choice of faults.                                                 *)
(***************************************************************************)
EXTENDS LagProbe, FiniteSetTheorems, WellFoundedInduction, TLAPS

-----------------------------------------------------------------------------
(* The age of the gauge.                                                   *)

\* What a failed probe costs is paid when it ends: while Run waits the age is
\* at most the number of faults, and one tick more while a probe runs.
AgeInv ==
  /\ run \in {"wait", "fetch", "list", "exited"}
  /\ age \in Nat /\ faultCount \in Nat
  /\ age < NeverProbed =>
       /\ run = "wait" => age <= faultCount
       /\ run \in {"fetch", "list"} => age <= 1 + faultCount

\* A step of the consume loop or of the topic touches neither Run nor its age.
LEMMA OthersKeepAge ==
  ASSUME \/ \E p \in Partition : Produce(p)
         \/ Loop \/ ConsumeCommitFails \/ ConsumeFails \/ PollFails
  PROVE  /\ UNCHANGED <<run, age>>
         /\ faultCount' = faultCount \/ faultCount' = faultCount + 1
BY DEF Produce, Loop, Join, ConsumeAndCommit, PollNothing, ConsumeCommitFails, ConsumeFails,
   PollFails, Poll, NoFault, Fault, probeVars, gaugeVars

\* Every step keeps the invariant.
LEMMA AgeStep == AgeInv /\ [Next]_vars => AgeInv'
<1> SUFFICES ASSUME AgeInv, [Next]_vars PROVE AgeInv'
  OBVIOUS
<1> USE LagProbeAssumption DEF AgeInv, NeverProbed
<1>1. CASE \/ \E p \in Partition : Produce(p)
           \/ Loop \/ ConsumeCommitFails \/ ConsumeFails \/ PollFails
  BY <1>1, OthersKeepAge
<1>2. CASE Tick \/ TickUnheard
  BY <1>2 DEF Tick, TickUnheard, Older, NoFault
<1>3. CASE GroupUnknown \/ ListEnds
  <2>1. age' = 0 /\ run' = "wait"
    BY <1>3 DEF GroupUnknown, ListEnds, Store, AgeAfter, ProbeOver
  <2>2. faultCount' = faultCount \/ faultCount' = faultCount + 1
    BY <1>3 DEF GroupUnknown, ListEnds, NoFault, Fault
  <2> QED  BY <2>1, <2>2
<1>4. CASE FetchCommits
  BY <1>4 DEF FetchCommits, NoFault, gaugeVars
<1>5. CASE ProbeError \/ ProbeTimeout
  BY <1>5 DEF ProbeError, ProbeTimeout, AfterTimeout, ProbeOver, Fault, gaugeVars
<1>6. CASE Restart
  BY <1>6 DEF Restart, Fault
<1>7. CASE UNCHANGED vars
  BY <1>7 DEF vars, probeVars, gaugeVars
<1> QED  BY <1>1, <1>2, <1>3, <1>4, <1>5, <1>6, <1>7 DEF Next, Probe

\* The age gauge is honest while Run lives: after a first successful probe it
\* shows at most the tick that has just passed and one more for every fault,
\* whatever errors, timeouts, unreadable partitions and restarts come between.
THEOREM AgeIsBounded == Spec => []AgeOnlyByFailures
<1>1. Init => AgeInv
  BY LagProbeAssumption DEF Init, AgeInv, NeverProbed
<1>2. AgeInv => AgeOnlyByFailures
  BY DEF AgeInv, AgeOnlyByFailures
<1> QED  BY <1>1, <1>2, AgeStep, PTL DEF Spec

-----------------------------------------------------------------------------
(* Induction, from the well-foundedness of the natural numbers.            *)

\* A set of natural numbers has a least element.
LEMMA Least ==
  ASSUME NEW T, T \subseteq Nat, T # {}
  PROVE  \E n \in T : \A m \in T : n <= m
<1> DEFINE R == {ss \in Nat \X Nat : ss[1] < ss[2]}
<1>1. IsWellFoundedOn(R, Nat)
  BY NatLessThanWellFounded DEF OpToRel
<1>2. PICK x \in T : \A y \in T : ~(<<y, x>> \in R)
  BY <1>1, WFMin
<1>3. ASSUME NEW y \in T PROVE x <= y
  <2>1. ~(y < x)
    BY <1>2
  <2> QED  BY <2>1
<1> QED  BY <1>2, <1>3

\* Induction, as a fact about sets of natural numbers.
LEMMA Induct ==
  ASSUME NEW T, 0 \in T, \A n \in Nat : n \in T => n + 1 \in T
  PROVE  Nat \subseteq T
<1> SUFFICES ASSUME ~(Nat \subseteq T) PROVE FALSE
  OBVIOUS
<1> DEFINE U == Nat \ T
<1>1. U \subseteq Nat /\ U # {}
  OBVIOUS
<1> HIDE DEF U
<1>2. PICK n \in U : \A m \in U : n <= m
  BY <1>1, Least
<1>3. n \in Nat /\ n \notin T /\ n # 0
  BY <1>2 DEF U
<1>4. n - 1 \in Nat /\ n - 1 + 1 = n /\ ~(n <= n - 1)
  BY <1>3
<1>5. n - 1 \in T
  BY <1>2, <1>4 DEF U
<1> QED  BY <1>3, <1>4, <1>5

-----------------------------------------------------------------------------
(* Sums over a finite set.                                                 *)

\* The element of s that MapThenFoldSet takes next.
First(s) == CHOOSE x \in s : TRUE

\* The element taken is one of the set, and leaves a smaller one.
LEMMA FirstLeaves ==
  ASSUME NEW s, IsFiniteSet(s), s # {}
  PROVE  /\ First(s) \in s /\ IsFiniteSet(s \ {First(s)})
         /\ Cardinality(s) \in Nat \ {0}
         /\ Cardinality(s \ {First(s)}) = Cardinality(s) - 1
<1>1. First(s) \in s
  BY DEF First
<1>2. Cardinality(s) \in Nat /\ Cardinality(s) # 0
  BY FS_CardinalityType, FS_EmptySet
<1> QED  BY <1>1, <1>2, FS_RemoveElement

\* Induction over the subsets of a finite set.
LEMMA SubsetInduct ==
  ASSUME NEW S, IsFiniteSet(S), NEW T, {} \in T,
         \A s \in SUBSET S : s # {} /\ s \ {First(s)} \in T => s \in T
  PROVE  \A s \in SUBSET S : s \in T
<1> DEFINE U == {n \in Nat : \A s \in SUBSET S : Cardinality(s) = n => s \in T}
<1>0. \A s \in SUBSET S : IsFiniteSet(s) /\ Cardinality(s) \in Nat
  BY FS_Subset, FS_CardinalityType
<1>1. 0 \in U
  <2> SUFFICES ASSUME NEW s \in SUBSET S, Cardinality(s) = 0 PROVE s \in T
    OBVIOUS
  <2>1. s = {}
    BY <1>0, FS_EmptySet
  <2> QED  BY <2>1
<1>2. ASSUME NEW n \in Nat, n \in U PROVE n + 1 \in U
  <2> SUFFICES ASSUME NEW s \in SUBSET S, Cardinality(s) = n + 1 PROVE s \in T
    OBVIOUS
  <2>1. s # {}
    <3> SUFFICES ASSUME s = {} PROVE FALSE
      OBVIOUS
    <3>1. Cardinality(s) = 0
      BY FS_EmptySet
    <3> QED  BY <3>1
  <2>2. Cardinality(s \ {First(s)}) = n /\ s \ {First(s)} \in SUBSET S
    <3>1. Cardinality(s \ {First(s)}) = Cardinality(s) - 1
      BY <1>0, <2>1, FirstLeaves
    <3> QED  BY <3>1
  <2>3. s \ {First(s)} \in T
    BY <1>2, <2>2
  <2> QED  BY <2>1, <2>3
<1> HIDE DEF U
<1>3. Nat \subseteq U
  BY <1>1, <1>2, Induct
<1> SUFFICES ASSUME NEW s \in SUBSET S PROVE s \in T
  OBVIOUS
<1>4. Cardinality(s) \in U
  BY <1>0, <1>3
<1> QED  BY <1>4 DEF U

\* One step of the fold that sums f: what g makes of s.
FoldStep(f, g, s) == IF s = {} THEN 0 ELSE f[First(s)] + g[s \ {First(s)}]

IsFold(D, f, h) == h = [s \in D |-> FoldStep(f, h, s)]

UpTo(S, n) == {t \in SUBSET S : Cardinality(t) <= n}

\* The fold can be computed for the subsets with up to n elements ...
LEMMA FoldApprox ==
  ASSUME NEW S, IsFiniteSet(S), NEW f
  PROVE  \A n \in Nat : \E h : IsFold(UpTo(S, n), f, h)
<1> DEFINE D(n) == UpTo(S, n)
           T == {n \in Nat : \E h : IsFold(D(n), f, h)}
<1>0. \A s \in SUBSET S : IsFiniteSet(s) /\ Cardinality(s) \in Nat
  BY FS_Subset, FS_CardinalityType
<1>1. 0 \in T
  <2> DEFINE h == [s \in D(0) |-> 0]
  <2>1. ASSUME NEW s \in D(0) PROVE s = {}
    <3>1. Cardinality(s) = 0 /\ s \in SUBSET S
      BY <1>0, <2>1 DEF UpTo
    <3> QED  BY <1>0, <3>1, FS_EmptySet
  <2>2. ASSUME NEW s \in D(0) PROVE FoldStep(f, h, s) = 0
    BY <2>1 DEF FoldStep
  <2> HIDE DEF D
  <2>3. IsFold(D(0), f, h)
    BY <2>2 DEF IsFold
  <2> QED  BY <2>3
<1>2. ASSUME NEW n \in Nat, n \in T PROVE n + 1 \in T
  <2>1. PICK h : IsFold(D(n), f, h)
    BY <1>2
  <2> DEFINE g == [s \in D(n + 1) |-> FoldStep(f, h, s)]
  <2>2. ASSUME NEW s \in D(n) PROVE s \in D(n + 1)
    BY <1>0, <2>2 DEF UpTo
  <2>3. ASSUME NEW s \in D(n + 1), s # {} PROVE s \ {First(s)} \in D(n)
    <3>1. s \in SUBSET S /\ Cardinality(s) <= n + 1
      BY <2>3 DEF UpTo
    <3>2. Cardinality(s \ {First(s)}) = Cardinality(s) - 1 /\ Cardinality(s) \in Nat
      BY <1>0, <2>3, <3>1, FirstLeaves
    <3> QED  BY <3>1, <3>2 DEF UpTo
  <2> HIDE DEF D
  <2>4. ASSUME NEW s \in D(n) PROVE g[s] = h[s]
    BY <2>1, <2>2, <2>4 DEF IsFold
  <2> HIDE DEF g
  <2>5. ASSUME NEW s \in D(n + 1) PROVE FoldStep(f, h, s) = FoldStep(f, g, s)
    BY <2>3, <2>4 DEF FoldStep
  <2>6. IsFold(D(n + 1), f, g)
    BY <2>5 DEF g, IsFold
  <2> QED  BY <2>6
<1> HIDE DEF T
<1>3. Nat \subseteq T
  BY <1>1, <1>2, Induct
<1> QED  BY <1>3 DEF T

\* ... hence for all of them.
LEMMA FoldExists ==
  ASSUME NEW S, IsFiniteSet(S), NEW f
  PROVE  \E h : IsFold(SUBSET S, f, h)
<1>1. Cardinality(S) \in Nat /\ \A s \in SUBSET S : Cardinality(s) <= Cardinality(S)
  BY FS_Subset, FS_CardinalityType
<1>2. UpTo(S, Cardinality(S)) = SUBSET S
  BY <1>1 DEF UpTo
<1>3. \E h : IsFold(UpTo(S, Cardinality(S)), f, h)
  BY <1>1, FoldApprox
<1> QED  BY <1>2, <1>3

\* Sum is such a fold, and a number.
LEMMA SumRec ==
  ASSUME NEW f \in [Partition -> Int]
  PROVE  \E g : /\ g \in [SUBSET Partition -> Int]
                /\ \A s \in SUBSET Partition : g[s] = FoldStep(f, g, s)
                /\ Sum(f) = g[Partition]
<1> DEFINE D(h) == [s \in SUBSET Partition |-> FoldStep(f, h, s)]
           g == CHOOSE h : h = D(h)
<1>1. Sum(f) = g[Partition]
  <2>1. Sum(f) = (CHOOSE h : h = [s \in SUBSET Partition |->
                    IF s = {} THEN 0
                    ELSE f[CHOOSE x \in s : TRUE] + h[s \ {CHOOSE x \in s : TRUE}]])[Partition]
    BY DEF Sum, MapThenSumSet, MapThenFoldSet
  <2> QED  BY <2>1 DEF FoldStep, First
<1>2. g = D(g)
  <2>1. \E h : IsFold(SUBSET Partition, f, h)
    BY FoldExists, LagProbeAssumption
  <2> QED  BY <2>1 DEF IsFold
<1> HIDE DEF g
<1>3. \A s \in SUBSET Partition : g[s] = FoldStep(f, g, s)
  BY <1>2
<1> DEFINE T == {s \in SUBSET Partition : g[s] \in Int}
<1>4. {} \in T
  <2>1. {} \in SUBSET Partition /\ FoldStep(f, g, {}) = 0
    BY DEF FoldStep
  <2>2. g[{}] = 0
    BY <1>3, <2>1
  <2> QED  BY <2>1, <2>2
<1>5. ASSUME NEW s \in SUBSET Partition, s # {}, s \ {First(s)} \in T PROVE s \in T
  <2>1. First(s) \in Partition
    BY <1>5 DEF First
  <2>2. g[s] = f[First(s)] + g[s \ {First(s)}]
    BY <1>3, <1>5 DEF FoldStep
  <2> QED  BY <1>5, <2>1, <2>2
<1> HIDE DEF T
<1>6. \A s \in SUBSET Partition : s \in T
  <2>1. IsFiniteSet(Partition)
    BY LagProbeAssumption
  <2> QED  BY <1>4, <1>5, <2>1, SubsetInduct
<1>7. g \in [SUBSET Partition -> Int]
  BY <1>2, <1>6 DEF T
<1> QED  BY <1>1, <1>3, <1>7

\* A sum grows with what is summed.
LEMMA SumMonotone ==
  ASSUME NEW f \in [Partition -> Int], NEW h \in [Partition -> Int],
         \A p \in Partition : f[p] <= h[p]
  PROVE  Sum(f) \in Int /\ Sum(h) \in Int /\ Sum(f) <= Sum(h)
<1>1. PICK a : /\ a \in [SUBSET Partition -> Int]
               /\ \A s \in SUBSET Partition : a[s] = FoldStep(f, a, s)
               /\ Sum(f) = a[Partition]
  BY SumRec
<1>2. PICK b : /\ b \in [SUBSET Partition -> Int]
               /\ \A s \in SUBSET Partition : b[s] = FoldStep(h, b, s)
               /\ Sum(h) = b[Partition]
  BY SumRec
<1> DEFINE T == {s \in SUBSET Partition : a[s] <= b[s]}
<1>3. {} \in T
  <2>1. {} \in SUBSET Partition /\ FoldStep(f, a, {}) = 0 /\ FoldStep(h, b, {}) = 0
    BY DEF FoldStep
  <2>2. a[{}] = 0 /\ b[{}] = 0
    BY <1>1, <1>2, <2>1
  <2> QED  BY <2>1, <2>2
<1>4. ASSUME NEW s \in SUBSET Partition, s # {}, s \ {First(s)} \in T PROVE s \in T
  <2> DEFINE x == First(s)
             r == s \ {First(s)}
  <2>1. x \in Partition /\ r \in SUBSET Partition
    BY <1>4 DEF First
  <2>2. a[s] = f[x] + a[r] /\ b[s] = h[x] + b[r]
    BY <1>1, <1>2, <1>4 DEF FoldStep
  <2>3. a[r] <= b[r]
    BY <1>4
  <2> HIDE DEF x, r
  <2>4. f[x] \in Int /\ h[x] \in Int /\ f[x] <= h[x] /\ a[r] \in Int /\ b[r] \in Int
    BY <1>1, <1>2, <2>1
  <2> QED  BY <2>2, <2>3, <2>4
<1> HIDE DEF T
<1>5. Partition \in T
  <2>1. IsFiniteSet(Partition)
    BY LagProbeAssumption
  <2> QED  BY <1>3, <1>4, <2>1, SubsetInduct
<1> QED  BY <1>1, <1>2, <1>5 DEF T

\* Nothing adds up to nothing.
LEMMA SumOfZero == Sum(Zero) = 0
<1>0. Zero \in [Partition -> Int] /\ \A p \in Partition : Zero[p] = 0
  BY DEF Zero
<1>1. PICK a : /\ a \in [SUBSET Partition -> Int]
               /\ \A s \in SUBSET Partition : a[s] = FoldStep(Zero, a, s)
               /\ Sum(Zero) = a[Partition]
  BY <1>0, SumRec
<1> DEFINE T == {s \in SUBSET Partition : a[s] = 0}
<1>2. {} \in T
  <2>1. {} \in SUBSET Partition /\ FoldStep(Zero, a, {}) = 0
    BY DEF FoldStep
  <2> QED  BY <1>1, <2>1
<1>3. ASSUME NEW s \in SUBSET Partition, s # {}, s \ {First(s)} \in T PROVE s \in T
  <2>1. First(s) \in Partition
    BY <1>3 DEF First
  <2>2. a[s] = Zero[First(s)] + a[s \ {First(s)}]
    BY <1>1, <1>3 DEF FoldStep
  <2> QED  BY <1>0, <1>3, <2>1, <2>2
<1> HIDE DEF T
<1>4. Partition \in T
  <2>1. IsFiniteSet(Partition)
    BY LagProbeAssumption
  <2> QED  BY <1>2, <1>3, <2>1, SubsetInduct
<1> QED  BY <1>1, <1>4 DEF T

-----------------------------------------------------------------------------
(* The lag gauge.                                                          *)

Offsets == [Partition -> Nat]

\* Marks follow the position, which only moves forward while the process lives;
\* so do commits, and what a probe has read of them is behind them.
CommitInv ==
  /\ end \in Offsets /\ committed \in Offsets /\ pos \in Offsets /\ marks \in Offsets
  /\ snap \in Offsets /\ listed \in Offsets
  /\ \A p \in Partition : committed[p] <= marks[p] /\ marks[p] <= pos[p]
  /\ \A p \in Partition : snap[p] <= committed[p]

LagInv == CommitInv /\ totalLag \in Int /\ LagIsNotUnderstated

\* No step takes a commit back.
LEMMA CommitStep ==
  ASSUME CommitInv, [Next]_vars
  PROVE  CommitInv' /\ \A p \in Partition : committed[p] <= committed'[p]
<1> USE DEF Offsets
<1>0. /\ end \in [Partition -> Nat] /\ committed \in [Partition -> Nat]
      /\ pos \in [Partition -> Nat] /\ marks \in [Partition -> Nat]
      /\ snap \in [Partition -> Nat]
      /\ listed \in [Partition -> Nat] /\ Zero \in [Partition -> Nat]
      /\ \A p \in Partition : Zero[p] = 0
  BY DEF CommitInv, Zero
<1>1. ASSUME NEW p \in Partition, Produce(p)
      PROVE  CommitInv' /\ \A q \in Partition : committed[q] <= committed'[q]
  <2>1. UNCHANGED <<committed, pos, marks, snap, listed>> /\ end' = [end EXCEPT ![p] = end[p] + 1]
    BY <1>1 DEF Produce, loopVars, offsetVars, probeVars, gaugeVars
  <2>2. end' \in [Partition -> Nat]
    BY <1>0, <2>1
  <2> QED  BY <1>0, <2>1, <2>2 DEF CommitInv
<1>2. CASE Join \/ PollNothing \/ PollFails \/ Tick \/ TickUnheard
  <2>1. UNCHANGED <<end, committed, pos, marks, snap, listed>>
    BY <1>2 DEF Join, PollNothing, PollFails, Tick, TickUnheard, loopVars, offsetVars, probeVars, gaugeVars
  <2> QED  BY <1>0, <2>1 DEF CommitInv
<1>3. CASE ConsumeAndCommit \/ ConsumeCommitFails
  <2>1. committed' \in {committed, marks'}
    BY <1>3 DEF ConsumeAndCommit, ConsumeCommitFails
  <2>2. PICK n \in [Partition -> 0 .. MaxRecords] : Poll(n) /\ Mark(n)
    BY <1>3 DEF ConsumeAndCommit, ConsumeCommitFails
  <2>3. /\ UNCHANGED <<end, snap, listed>> /\ pos' = n
        /\ \A p \in Partition : pos[p] <= n[p]
    BY <1>0, <2>2 DEF Poll, probeVars, gaugeVars
  <2>4. marks' = [p \in Partition |-> IF n[p] > pos[p] THEN n[p] ELSE marks[p]]
    BY <2>2 DEF Mark, Polled
  <2>5. n \in [Partition -> Nat] /\ marks' \in [Partition -> Nat]
    BY <1>0, <2>2, <2>4
  <2>6. \A p \in Partition : marks[p] <= marks'[p] /\ marks'[p] <= n[p]
    BY <1>0, <2>3, <2>4, <2>5 DEF CommitInv
  <2>7. /\ committed' \in [Partition -> Nat]
        /\ \A p \in Partition : committed[p] <= committed'[p] /\ committed'[p] <= marks'[p]
    BY <1>0, <2>1, <2>5, <2>6 DEF CommitInv
  <2>8. \A p \in Partition : snap[p] <= committed'[p]
    BY <1>0, <2>7 DEF CommitInv
  <2> QED  BY <1>0, <2>3, <2>5, <2>6, <2>7, <2>8 DEF CommitInv
<1>8. CASE ConsumeFails
  <2>1. UNCHANGED <<committed, marks>>
    BY <1>8 DEF ConsumeFails
  <2>2. PICK n \in [Partition -> 0 .. MaxRecords] : Poll(n)
    BY <1>8 DEF ConsumeFails
  <2>3. /\ UNCHANGED <<end, snap, listed>> /\ pos' = n
        /\ \A p \in Partition : pos[p] <= n[p]
    BY <1>0, <2>2 DEF Poll, probeVars, gaugeVars
  <2>4. n \in [Partition -> Nat]
    BY <2>2
  <2>5. \A p \in Partition : marks[p] <= n[p]
    BY <1>0, <2>3, <2>4 DEF CommitInv
  <2> QED  BY <1>0, <2>1, <2>3, <2>4, <2>5 DEF CommitInv
<1>4. CASE FetchCommits
  <2>1. UNCHANGED <<end, committed, pos, marks, listed>> /\ snap' = committed
    BY <1>4 DEF FetchCommits, loopVars, offsetVars, gaugeVars
  <2> QED  BY <1>0, <2>1 DEF CommitInv
<1>5. CASE GroupUnknown \/ ListEnds \/ ProbeError \/ ProbeTimeout
  <2>1. UNCHANGED <<end, committed, pos, marks>> /\ snap' = Zero
    BY <1>5 DEF GroupUnknown, ListEnds, ProbeError, ProbeTimeout, ProbeOver, loopVars, offsetVars
  <2>2. listed' \in [Partition -> Nat]
    BY <1>0, <1>5 DEF GroupUnknown, ListEnds, ProbeError, ProbeTimeout, gaugeVars
  <2> QED  BY <1>0, <2>1, <2>2 DEF CommitInv
<1>6. CASE Restart
  <2>1. UNCHANGED <<end, committed>> /\ pos' = committed /\ marks' = committed
        /\ snap' = Zero /\ listed' = Zero
    BY <1>6 DEF Restart
  <2> QED  BY <1>0, <2>1 DEF CommitInv
<1>7. CASE UNCHANGED vars
  BY <1>0, <1>7 DEF vars, loopVars, offsetVars, probeVars, gaugeVars, CommitInv
<1> QED  BY <1>1, <1>2, <1>3, <1>4, <1>5, <1>6, <1>7, <1>8 DEF Next, Loop, Probe

\* What a step does to the sum when the gauge itself stays as it is.
LEMMA LagStays ==
  ASSUME LagInv, CommitInv', \A p \in Partition : committed[p] <= committed'[p],
         UNCHANGED <<totalLag, listed>>
  PROVE  LagInv'
<1> DEFINE f == [p \in Partition |-> LagSeen(p)]
           g == [p \in Partition |-> LagSeen(p)']
<1>1. /\ listed \in [Partition -> Nat] /\ committed \in [Partition -> Nat]
      /\ committed' \in [Partition -> Nat]
  BY DEF LagInv, CommitInv, Offsets
<1>2. f \in [Partition -> Int] /\ g \in [Partition -> Int]
  BY <1>1 DEF LagSeen
<1>3. \A p \in Partition : g[p] <= f[p]
  BY <1>1 DEF LagSeen
<1>4. totalLag \in Int /\ totalLag >= Sum(f)
  BY DEF LagInv, LagIsNotUnderstated
<1>5. (Sum([p \in Partition |-> LagSeen(p)]))' = Sum(g)
  BY DEF Sum, MapThenSumSet, MapThenFoldSet
<1> HIDE DEF f, g
<1>6. Sum(g) \in Int /\ Sum(f) \in Int /\ Sum(g) <= Sum(f)
  BY <1>2, <1>3, SumMonotone
<1>7. totalLag >= Sum(g)
  BY <1>4, <1>6
<1> QED  BY <1>4, <1>5, <1>7 DEF LagInv, LagIsNotUnderstated

\* A gauge that was just reset promises nothing.
LEMMA LagReset ==
  ASSUME CommitInv', totalLag' = 0, listed' = Zero
  PROVE  LagInv'
<1>1. (\A p \in Partition : LagSeen(p) = 0)'
  BY DEF LagSeen, Zero, CommitInv, Offsets
<1>2. [p \in Partition |-> LagSeen(p)]' = Zero
  BY <1>1 DEF Zero
<1>3. (Sum([p \in Partition |-> LagSeen(p)]))' = Sum(Zero)
  BY <1>2 DEF Sum, MapThenSumSet, MapThenFoldSet
<1>4. totalLag' \in Int /\ totalLag' >= Sum(Zero)
  BY SumOfZero
<1> QED  BY <1>3, <1>4 DEF LagInv, LagIsNotUnderstated

\* Every step keeps the gauge honest.
LEMMA LagStep == LagInv /\ [Next]_vars => LagInv'
<1> SUFFICES ASSUME LagInv, [Next]_vars PROVE LagInv'
  OBVIOUS
<1>0. CommitInv' /\ \A p \in Partition : committed[p] <= committed'[p]
  BY CommitStep DEF LagInv
<1>1. CASE \/ \E p \in Partition : Produce(p)
           \/ Loop \/ ConsumeCommitFails \/ ConsumeFails \/ PollFails
  <2>1. UNCHANGED <<totalLag, listed>>
    BY <1>1 DEF Produce, Loop, Join, ConsumeAndCommit, PollNothing, ConsumeCommitFails, ConsumeFails,
       PollFails, Poll, probeVars, gaugeVars
  <2> QED  BY <1>0, <2>1, LagStays
<1>2. CASE Tick \/ TickUnheard \/ FetchCommits \/ ProbeError \/ ProbeTimeout
  <2>1. UNCHANGED <<totalLag, listed>>
    BY <1>2 DEF Tick, TickUnheard, FetchCommits, ProbeError, ProbeTimeout, gaugeVars
  <2> QED  BY <1>0, <2>1, LagStays
<1>3. CASE GroupUnknown \/ Restart
  <2>1. totalLag' = 0 /\ listed' = Zero
    BY <1>3 DEF GroupUnknown, Restart, Store
  <2> QED  BY <1>0, <2>1, LagReset
<1>4. CASE ListEnds
  <2>1. PICK U \in SUBSET Partition :
          /\ totalLag' = Sum([p \in Partition |-> Counted(LagOf(p, U))])
          /\ listed' = [p \in Partition |-> IF p \in U THEN 0 ELSE end[p]]
    BY <1>4 DEF ListEnds, Store
  <2>2. committed' = committed
    BY <1>4 DEF ListEnds, loopVars, offsetVars
  <2> DEFINE f == [p \in Partition |-> Counted(LagOf(p, U))]
             g == [p \in Partition |-> LagSeen(p)']
  <2>3. /\ end \in [Partition -> Nat] /\ committed \in [Partition -> Nat]
        /\ snap \in [Partition -> Nat] /\ \A p \in Partition : snap[p] <= committed[p]
    BY DEF LagInv, CommitInv, Offsets
  <2>4. f \in [Partition -> Int] /\ \A p \in Partition :
          f[p] = IF p \in U THEN 0 ELSE IF end[p] - snap[p] > 0 THEN end[p] - snap[p] ELSE 0
    BY <2>3 DEF Counted, LagOf
  <2>5. g \in [Partition -> Int] /\ \A p \in Partition :
          g[p] = IF p \in U THEN 0
                 ELSE IF end[p] > committed[p] THEN end[p] - committed[p] ELSE 0
    BY <2>1, <2>2, <2>3 DEF LagSeen
  <2>6. (Sum([p \in Partition |-> LagSeen(p)]))' = Sum(g)
    BY DEF Sum, MapThenSumSet, MapThenFoldSet
  <2>7. totalLag' = Sum(f)
    BY <2>1
  <2> HIDE DEF f, g
  <2>8. \A p \in Partition : g[p] <= f[p]
    BY <2>3, <2>4, <2>5
  <2>9. Sum(g) \in Int /\ Sum(f) \in Int /\ Sum(g) <= Sum(f)
    BY <2>4, <2>5, <2>8, SumMonotone
  <2>10. totalLag' \in Int /\ totalLag' >= Sum(g)
    BY <2>7, <2>9
  <2> QED  BY <1>0, <2>6, <2>10 DEF LagInv, LagIsNotUnderstated
<1>5. CASE UNCHANGED vars
  <2>1. UNCHANGED <<totalLag, listed>>
    BY <1>5 DEF vars, probeVars, gaugeVars
  <2> QED  BY <1>0, <2>1, LagStays
<1> QED  BY <1>1, <1>2, <1>3, <1>4, <1>5 DEF Next, Probe

\* The lag gauge never hides uncommitted records that its last probe could see,
\* although a probe reads the commits first and the ends later, while both move,
\* and whichever partitions it could not read.
THEOREM LagIsHonest == Spec => []LagIsNotUnderstated
<1>1. Init => LagInv
  <2> SUFFICES ASSUME Init PROVE LagInv
    OBVIOUS
  <2>1. CommitInv
    BY DEF Init, CommitInv, Offsets, Zero
  <2>2. \A p \in Partition : LagSeen(p) = 0
    BY DEF Init, LagSeen, Zero
  <2>3. [p \in Partition |-> LagSeen(p)] = Zero
    BY <2>2 DEF Zero
  <2>4. totalLag = 0 /\ Sum([p \in Partition |-> LagSeen(p)]) = 0
    BY <2>3, SumOfZero DEF Init
  <2> QED  BY <2>1, <2>4 DEF LagInv, LagIsNotUnderstated
<1>2. LagInv => LagIsNotUnderstated
  BY DEF LagInv
<1> QED  BY <1>1, <1>2, LagStep, PTL DEF Spec

-----------------------------------------------------------------------------
(* The retry delay.                                                        *)

\* h is the orbit of a under F up to n.
Orbit(n, A, a, F, h) ==
  /\ h \in [0 .. n -> A]
  /\ h[0] = a
  /\ \A i \in 1 .. n : h[i] = F[h[i - 1]]

\* An orbit can be computed up to any n ...
LEMMA OrbitExists ==
  ASSUME NEW A, NEW a \in A, NEW F \in [A -> A]
  PROVE  \A n \in Nat : \E h : Orbit(n, A, a, F, h)
<1> DEFINE T == {n \in Nat : \E h : Orbit(n, A, a, F, h)}
<1>1. 0 \in T
  <2>1. Orbit(0, A, a, F, [i \in 0 .. 0 |-> a])
    BY DEF Orbit
  <2> QED  BY <2>1
<1>2. ASSUME NEW n \in Nat, n \in T PROVE n + 1 \in T
  <2>1. PICK h : Orbit(n, A, a, F, h)
    BY <1>2
  <2> DEFINE g == [i \in 0 .. n + 1 |-> IF i = n + 1 THEN F[h[n]] ELSE h[i]]
  <2>2. h \in [0 .. n -> A] /\ n \in 0 .. n /\ h[n] \in A /\ F[h[n]] \in A
    BY <2>1 DEF Orbit
  <2>3. g \in [0 .. n + 1 -> A]
    BY <2>2
  <2>4. g[0] = a
    BY <2>1 DEF Orbit
  <2>5. ASSUME NEW i \in 1 .. n + 1 PROVE g[i] = F[g[i - 1]]
    <3>1. CASE i = n + 1
      BY <3>1
    <3>2. CASE i # n + 1
      <4>1. i \in 1 .. n /\ i \in 0 .. n + 1 /\ i - 1 \in 0 .. n + 1 /\ i - 1 # n + 1
        BY <3>2
      <4>2. g[i] = h[i] /\ g[i - 1] = h[i - 1]
        BY <3>2, <4>1
      <4>3. h[i] = F[h[i - 1]]
        BY <2>1, <4>1 DEF Orbit
      <4> QED  BY <4>2, <4>3
    <3> QED  BY <3>1, <3>2
  <2>6. Orbit(n + 1, A, a, F, g)
    BY <2>3, <2>4, <2>5 DEF Orbit
  <2> QED  BY <2>6
<1> HIDE DEF T
<1>3. Nat \subseteq T
  BY <1>1, <1>2, Induct
<1> QED  BY <1>3 DEF T

\* ... in one way only ...
LEMMA OrbitUnique ==
  ASSUME NEW A, NEW a, NEW F, NEW n \in Nat, NEW m \in Nat, NEW h, NEW g,
         Orbit(n, A, a, F, h), Orbit(m, A, a, F, g)
  PROVE  \A i \in Nat : i <= n /\ i <= m => h[i] = g[i]
<1> DEFINE T == {i \in Nat : i <= n /\ i <= m => h[i] = g[i]}
<1>1. 0 \in T
  BY DEF Orbit
<1>2. ASSUME NEW i \in Nat, i \in T PROVE i + 1 \in T
  <2> SUFFICES ASSUME i + 1 <= n, i + 1 <= m PROVE h[i + 1] = g[i + 1]
    OBVIOUS
  <2>1. h[i] = g[i]
    BY <1>2
  <2>2. i + 1 \in 1 .. n /\ i + 1 \in 1 .. m /\ i + 1 - 1 = i
    OBVIOUS
  <2>3. h[i + 1] = F[h[i]] /\ g[i + 1] = F[g[i]]
    BY <2>2 DEF Orbit
  <2> QED  BY <2>1, <2>3
<1> HIDE DEF T
<1>3. Nat \subseteq T
  BY <1>1, <1>2, Induct
<1> QED  BY <1>3 DEF T

\* ... hence for ever.
LEMMA OrbitForever ==
  ASSUME NEW A, NEW a \in A, NEW F \in [A -> A]
  PROVE  \E g \in [Nat -> A] : g[0] = a /\ \A n \in Nat : g[n + 1] = F[g[n]]
<1> DEFINE B(n) == CHOOSE h : Orbit(n, A, a, F, h)
           g == [n \in Nat |-> B(n)[n]]
<1>1. \A n \in Nat : Orbit(n, A, a, F, B(n))
  BY OrbitExists
<1> HIDE DEF B
<1>2. g \in [Nat -> A]
  BY <1>1 DEF Orbit
<1>3. g[0] = a
  BY <1>1 DEF Orbit
<1>4. ASSUME NEW n \in Nat PROVE g[n + 1] = F[g[n]]
  <2>1. Orbit(n + 1, A, a, F, B(n + 1)) /\ Orbit(n, A, a, F, B(n)) /\ n + 1 \in Nat
    BY <1>1
  <2>2. B(n + 1)[n + 1] = F[B(n + 1)[n]]
    <3>1. n + 1 \in 1 .. n + 1 /\ n + 1 - 1 = n
      OBVIOUS
    <3> QED  BY <2>1, <3>1 DEF Orbit
  <2>3. B(n + 1)[n] = B(n)[n]
    <3>1. n <= n /\ n <= n + 1
      OBVIOUS
    <3> QED  BY <2>1, <3>1, OrbitUnique
  <2> QED  BY <2>2, <2>3
<1> QED  BY <1>2, <1>3, <1>4

\* The numbers a half of a Duration can hold ...
Halves == {x \in Nat : x < 268435456}

\* ... and what is left of a number that may have one bit more.
LEMMA DoubledHalf ==
  ASSUME NEW x \in Nat, x < 536870912
  PROVE  /\ x % 268435456 \in Halves
         /\ x < 268435456 => x % 268435456 = x
         /\ x >= 268435456 => x % 268435456 = x - 268435456
<1>1. x < 268435456 => x % 268435456 = x
  BY SMT
<1>2. x >= 268435456 => x % 268435456 = x - 268435456
  BY SMT
<1>3. x < 268435456 => x \in Halves
  BY SMT DEF Halves
<1>4. x >= 268435456 => x - 268435456 \in Halves
  BY SMT DEF Halves
<1>5. x < 268435456 \/ x >= 268435456
  BY SMT
<1> QED  BY <1>1, <1>2, <1>3, <1>4, <1>5, SMT

\* One bit of the shift, carry and all.
LEMMA TwiceIs ==
  ASSUME NEW h \in Halves, NEW l \in Halves
  PROVE  /\ Twice(<<h, l>>) \in Halves \X Halves
         /\ 2 * l < Half => Twice(<<h, l>>) = <<(2 * h) % Half, 2 * l>>
         /\ 2 * l >= Half => Twice(<<h, l>>) = <<(2 * h + 1) % Half, 2 * l - Half>>
<1> DEFINE c == IF 2 * l >= 268435456 THEN 1 ELSE 0
<1>1. Half = 268435456
  BY SMT DEF Half
<1>2. h \in Nat /\ h < 268435456 /\ l \in Nat /\ l < 268435456
  BY SMT DEF Halves
<1>3. /\ c \in {0, 1}
      /\ 2 * h + c \in Nat /\ 2 * h + c < 536870912
      /\ 2 * l \in Nat /\ 2 * l < 536870912
  BY <1>2, SMT
<1>4. Twice(<<h, l>>) = <<(2 * h + c) % 268435456, (2 * l) % 268435456>>
  BY SMT DEF Twice, Half
<1>5. (2 * h + c) % 268435456 \in Halves /\ (2 * l) % 268435456 \in Halves
  <2> HIDE DEF c
  <2> QED  BY <1>3, DoubledHalf, SMT
<1>6. CASE 2 * l < 268435456
  <2>1. c = 0 /\ ~(2 * l >= 268435456) /\ 2 * h + c = 2 * h
    BY <1>2, <1>6, SMT
  <2>2. (2 * l) % 268435456 = 2 * l
    BY <1>3, <1>6, DoubledHalf, SMT
  <2> HIDE DEF c
  <2> QED  BY <1>1, <1>4, <1>5, <2>1, <2>2, SMT
<1>7. CASE 2 * l >= 268435456
  <2>1. c = 1 /\ ~(2 * l < 268435456)
    BY <1>2, <1>7, SMT
  <2>2. (2 * l) % 268435456 = 2 * l - 268435456
    BY <1>3, <1>7, DoubledHalf, SMT
  <2> HIDE DEF c
  <2> QED  BY <1>1, <1>4, <1>5, <2>1, <2>2, SMT
<1> QED  BY <1>2, <1>6, <1>7, SMT

\* The shift doubles, one bit at a time.
LEMMA ShiftedRec ==
  /\ Shifted[0] = <<0, baseBackoff>>
  /\ \A n \in Nat : Shifted[n] \in Halves \X Halves
  /\ \A n \in Nat : Shifted[n + 1] = Twice(Shifted[n])
<1> DEFINE A == Halves \X Halves
           a == <<0, baseBackoff>>
           F == [d \in A |-> Twice(d)]
           D(f) == [n \in Nat |-> IF n = 0 THEN <<0, baseBackoff>> ELSE Twice(f[n - 1])]
<1>1. F \in [A -> A]
  <2>1. ASSUME NEW d \in A PROVE Twice(d) \in A
    <3>1. PICK h \in Halves, l \in Halves : d = <<h, l>>
      BY SMT
    <3> QED  BY <3>1, TwiceIs, SMT
  <2> QED  BY <2>1, SMT
<1>2. a \in A
  <2>1. 0 \in Halves /\ baseBackoff \in Halves
    BY SMT DEF Halves, baseBackoff
  <2> QED  BY <2>1
<1>3. PICK g \in [Nat -> A] : g[0] = a /\ \A n \in Nat : g[n + 1] = F[g[n]]
  <2> HIDE DEF A, F, a
  <2> QED  BY <1>1, <1>2, OrbitForever
<1>4. g = D(g)
  <2>1. ASSUME NEW n \in Nat PROVE g[n] = D(g)[n]
    <3>1. CASE n = 0
      BY <1>3, <3>1, SMT
    <3>2. CASE n # 0
      <4>1. n - 1 \in Nat /\ n - 1 + 1 = n
        BY <3>2
      <4> HIDE DEF A
      <4>2. g[n - 1] \in A /\ g[n - 1 + 1] = F[g[n - 1]]
        BY <1>3, <4>1
      <4>3. g[n] = Twice(g[n - 1])
        BY <4>1, <4>2
      <4> QED  BY <3>2, <4>3
    <3> QED  BY <3>1, <3>2
  <2> HIDE DEF A
  <2> QED  BY <1>3, <2>1
<1>5. Shifted = CHOOSE f : f = D(f)
  BY DEF Shifted
<1>6. Shifted = D(Shifted)
  BY <1>4, <1>5
<1>7. \A n \in Nat : Shifted[n] = IF n = 0 THEN a ELSE Twice(Shifted[n - 1])
  BY <1>6
<1> HIDE DEF D
<1>8. ASSUME NEW n \in Nat PROVE Shifted[n + 1] = Twice(Shifted[n])
  <2> HIDE DEF a
  <2>1. n + 1 \in Nat /\ n + 1 # 0 /\ n + 1 - 1 = n
    OBVIOUS
  <2> QED  BY <1>7, <2>1
<1>9. \A n \in Nat : Shifted[n] \in A
  <2> DEFINE T == {n \in Nat : Shifted[n] \in A}
  <2>1. 0 \in T
    <3> HIDE DEF A, a
    <3> QED  BY <1>2, <1>7
  <2>2. ASSUME NEW n \in Nat, n \in T PROVE n + 1 \in T
    <3> HIDE DEF A
    <3>1. Shifted[n] \in A /\ F[Shifted[n]] = Twice(Shifted[n])
      BY <2>2
    <3> HIDE DEF F
    <3> QED  BY <1>1, <1>8, <3>1
  <2> HIDE DEF T
  <2>3. Nat \subseteq T
    BY <2>1, <2>2, Induct
  <2> HIDE DEF A
  <2> QED  BY <2>3 DEF T
<1>10. Shifted[0] = a
  <2> HIDE DEF a
  <2> QED  BY <1>7
<1> QED  BY <1>8, <1>9, <1>10

\* A doubling that keeps within 56 bits.
LEMMA ShiftBy ==
  ASSUME NEW n \in Nat, NEW h \in Nat, NEW l \in Nat,
         Shifted[n] = <<h, l>>, 2 * h + 1 < 268435456, l < 268435456
  PROVE  /\ 2 * l < 268435456 => Shifted[n + 1] = <<2 * h, 2 * l>>
         /\ 2 * l >= 268435456 => Shifted[n + 1] = <<2 * h + 1, 2 * l - 268435456>>
<1>1. Half = 268435456
  BY SMT DEF Half
<1>2. h \in Halves /\ l \in Halves
  BY SMT DEF Halves
<1>3. /\ 2 * h \in Nat /\ 2 * h < 268435456 /\ 2 * h < 536870912
      /\ 2 * h + 1 \in Nat /\ 2 * h + 1 < 268435456 /\ 2 * h + 1 < 536870912
  BY SMT
<1>4. (2 * h) % Half = 2 * h /\ (2 * h + 1) % Half = 2 * h + 1
  BY <1>1, <1>3, DoubledHalf, SMT
<1>5. Shifted[n + 1] = Twice(<<h, l>>)
  BY ShiftedRec
<1> QED  BY <1>1, <1>2, <1>4, <1>5, TwiceIs, SMT

\* The first 28 doublings of half a second.
LEMMA ShiftedTable ==
  /\ Shifted[0] = <<0, 1953125>> /\ Shifted[1] = <<0, 3906250>>
  /\ Shifted[2] = <<0, 7812500>> /\ Shifted[3] = <<0, 15625000>>
  /\ Shifted[4] = <<0, 31250000>> /\ Shifted[5] = <<0, 62500000>>
  /\ Shifted[6] = <<0, 125000000>> /\ Shifted[7] = <<0, 250000000>>
  /\ Shifted[8] = <<1, 231564544>> /\ Shifted[9] = <<3, 194693632>>
  /\ Shifted[10] = <<7, 120951808>> /\ Shifted[11] = <<14, 241903616>>
  /\ Shifted[12] = <<29, 215371776>> /\ Shifted[13] = <<59, 162308096>>
  /\ Shifted[14] = <<119, 56180736>> /\ Shifted[15] = <<238, 112361472>>
  /\ Shifted[16] = <<476, 224722944>> /\ Shifted[17] = <<953, 181010432>>
  /\ Shifted[18] = <<1907, 93585408>> /\ Shifted[19] = <<3814, 187170816>>
  /\ Shifted[20] = <<7629, 105906176>> /\ Shifted[21] = <<15258, 211812352>>
  /\ Shifted[22] = <<30517, 155189248>> /\ Shifted[23] = <<61035, 41943040>>
  /\ Shifted[24] = <<122070, 83886080>> /\ Shifted[25] = <<244140, 167772160>>
  /\ Shifted[26] = <<488281, 67108864>> /\ Shifted[27] = <<976562, 134217728>>
  /\ Shifted[28] = <<1953125, 0>>
<1>1. Shifted[0] = <<0, 1953125>>
  BY ShiftedRec, SMT DEF baseBackoff
<1>2. Shifted[1] = <<0, 3906250>>
  BY <1>1, ShiftBy, SMT
<1>3. Shifted[2] = <<0, 7812500>>
  BY <1>2, ShiftBy, SMT
<1>4. Shifted[3] = <<0, 15625000>>
  BY <1>3, ShiftBy, SMT
<1>5. Shifted[4] = <<0, 31250000>>
  BY <1>4, ShiftBy, SMT
<1>6. Shifted[5] = <<0, 62500000>>
  BY <1>5, ShiftBy, SMT
<1>7. Shifted[6] = <<0, 125000000>>
  BY <1>6, ShiftBy, SMT
<1>8. Shifted[7] = <<0, 250000000>>
  BY <1>7, ShiftBy, SMT
<1>9. Shifted[8] = <<1, 231564544>>
  BY <1>8, ShiftBy, SMT
<1>10. Shifted[9] = <<3, 194693632>>
  BY <1>9, ShiftBy, SMT
<1>11. Shifted[10] = <<7, 120951808>>
  BY <1>10, ShiftBy, SMT
<1>12. Shifted[11] = <<14, 241903616>>
  BY <1>11, ShiftBy, SMT
<1>13. Shifted[12] = <<29, 215371776>>
  BY <1>12, ShiftBy, SMT
<1>14. Shifted[13] = <<59, 162308096>>
  BY <1>13, ShiftBy, SMT
<1>15. Shifted[14] = <<119, 56180736>>
  BY <1>14, ShiftBy, SMT
<1>16. Shifted[15] = <<238, 112361472>>
  BY <1>15, ShiftBy, SMT
<1>17. Shifted[16] = <<476, 224722944>>
  BY <1>16, ShiftBy, SMT
<1>18. Shifted[17] = <<953, 181010432>>
  BY <1>17, ShiftBy, SMT
<1>19. Shifted[18] = <<1907, 93585408>>
  BY <1>18, ShiftBy, SMT
<1>20. Shifted[19] = <<3814, 187170816>>
  BY <1>19, ShiftBy, SMT
<1>21. Shifted[20] = <<7629, 105906176>>
  BY <1>20, ShiftBy, SMT
<1>22. Shifted[21] = <<15258, 211812352>>
  BY <1>21, ShiftBy, SMT
<1>23. Shifted[22] = <<30517, 155189248>>
  BY <1>22, ShiftBy, SMT
<1>24. Shifted[23] = <<61035, 41943040>>
  BY <1>23, ShiftBy, SMT
<1>25. Shifted[24] = <<122070, 83886080>>
  BY <1>24, ShiftBy, SMT
<1>26. Shifted[25] = <<244140, 167772160>>
  BY <1>25, ShiftBy, SMT
<1>27. Shifted[26] = <<488281, 67108864>>
  BY <1>26, ShiftBy, SMT
<1>28. Shifted[27] = <<976562, 134217728>>
  BY <1>27, ShiftBy, SMT
<1>29. Shifted[28] = <<1953125, 0>>
  BY <1>28, ShiftBy, SMT
<1> QED  BY <1>1, <1>2, <1>3, <1>4, <1>5, <1>6, <1>7, <1>8, <1>9, <1>10, <1>11,
           <1>12, <1>13, <1>14, <1>15, <1>16, <1>17, <1>18, <1>19, <1>20, <1>21,
           <1>22, <1>23, <1>24, <1>25, <1>26, <1>27, <1>28, <1>29, SMT

\* From the 28th doubling on nothing is left in the low half.
LEMMA ShiftedOut ==
  \A j \in Nat : \E h \in Nat : Shifted[j + 28] = <<h, 0>>
<1> DEFINE T == {j \in Nat : \E h \in Nat : Shifted[j + 28] = <<h, 0>>}
<1>1. 0 \in T
  BY ShiftedTable, SMT
<1>2. ASSUME NEW j \in Nat, j \in T PROVE j + 1 \in T
  <2>1. PICK h \in Nat : Shifted[j + 28] = <<h, 0>>
    BY <1>2
  <2>2. j + 28 \in Nat /\ j + 28 + 1 = j + 1 + 28 /\ j + 1 \in Nat
    OBVIOUS
  <2>3. Shifted[j + 28] \in Halves \X Halves
    BY <2>2, ShiftedRec
  <2>4. h \in Halves /\ 0 \in Halves
    BY <2>1, <2>3, SMT
  <2>5. Shifted[j + 1 + 28] = Twice(<<h, 0>>)
    BY <2>1, <2>2, ShiftedRec
  <2>6. Half = 268435456
    BY SMT DEF Half
  <2>7. 2 * 0 < Half /\ 2 * 0 = 0
    BY <2>6, SMT
  <2>8. Twice(<<h, 0>>) = <<(2 * h) % Half, 0>> /\ Twice(<<h, 0>>) \in Halves \X Halves
    BY <2>4, <2>7, TwiceIs, SMT
  <2>9. (2 * h) % Half \in Nat
    BY <2>8, SMT DEF Halves
  <2> QED  BY <2>2, <2>5, <2>8, <2>9
<1> HIDE DEF T
<1>3. Nat \subseteq T
  BY <1>1, <1>2, Induct
<1> QED  BY <1>3 DEF T

\* Doubling that stops at the cap.
LEMMA SaturatedRec ==
  /\ SaturatedDoubling[1] = baseBackoff
  /\ \A n \in Nat : SaturatedDoubling[n + 2] =
       IF 2 * SaturatedDoubling[n + 1] > maxBackoff THEN maxBackoff
       ELSE 2 * SaturatedDoubling[n + 1]
<1> DEFINE A == Nat
           a == baseBackoff
           F == [x \in A |-> IF 2 * x > maxBackoff THEN maxBackoff ELSE 2 * x]
           D(f) == [n \in Nat |-> IF n <= 1 THEN baseBackoff
                                  ELSE IF 2 * f[n - 1] > maxBackoff THEN maxBackoff
                                       ELSE 2 * f[n - 1]]
<1>1. F \in [A -> A]
  BY SMT DEF maxBackoff
<1>2. a \in A
  BY SMT DEF baseBackoff
<1>3. PICK g \in [Nat -> A] : g[0] = a /\ \A n \in Nat : g[n + 1] = F[g[n]]
  <2> HIDE DEF A, F, a
  <2> QED  BY <1>1, <1>2, OrbitForever
<1> DEFINE s == [n \in Nat |-> IF n <= 1 THEN baseBackoff ELSE g[n - 1]]
<1>4. s = D(s)
  <2>1. ASSUME NEW n \in Nat PROVE s[n] = D(s)[n]
    <3>1. CASE n <= 1
      BY <3>1, SMT
    <3>2. CASE ~(n <= 1)
      <4>1. n - 1 \in Nat /\ n - 2 \in Nat /\ n - 2 + 1 = n - 1
        BY <3>2, SMT
      <4>2. s[n - 1] = g[n - 2]
        <5>1. CASE n - 1 <= 1
          BY <1>3, <4>1, <5>1, SMT
        <5>2. CASE ~(n - 1 <= 1)
          BY <4>1, <5>2, SMT
        <5> QED  BY <5>1, <5>2
      <4>3. g[n - 1] = F[g[n - 2]] /\ g[n - 2] \in Nat
        BY <1>3, <4>1
      <4>4. s[n] = g[n - 1]
        BY <3>2
      <4> HIDE DEF s
      <4> QED  BY <3>2, <4>2, <4>3, <4>4, SMT
    <3> QED  BY <3>1, <3>2
  <2>2. s = [n \in Nat |-> s[n]] /\ D(s) = [n \in Nat |-> D(s)[n]]
    OBVIOUS
  <2> HIDE DEF D, s
  <2> QED  BY <2>1, <2>2
<1>5. SaturatedDoubling = CHOOSE f : f = D(f)
  BY DEF SaturatedDoubling
<1>6. SaturatedDoubling = D(SaturatedDoubling)
  <2> HIDE DEF s
  <2> QED  BY <1>4, <1>5
<1>7. \A n \in Nat : SaturatedDoubling[n] =
        IF n <= 1 THEN baseBackoff
        ELSE IF 2 * SaturatedDoubling[n - 1] > maxBackoff THEN maxBackoff
             ELSE 2 * SaturatedDoubling[n - 1]
  BY <1>6
<1>8. ASSUME NEW n \in Nat
      PROVE  SaturatedDoubling[n + 2] =
               IF 2 * SaturatedDoubling[n + 1] > maxBackoff THEN maxBackoff
               ELSE 2 * SaturatedDoubling[n + 1]
  <2>1. n + 2 \in Nat /\ ~(n + 2 <= 1) /\ n + 2 - 1 = n + 1
    BY SMT
  <2> QED  BY <1>7, <2>1
<1>9. SaturatedDoubling[1] = baseBackoff
  BY <1>7, SMT
<1> QED  BY <1>8, <1>9

\* The cap is reached with the seventh failure.
LEMMA SaturatedTable ==
  /\ SaturatedDoubling[1] = 1953125
  /\ SaturatedDoubling[2] = 3906250 /\ SaturatedDoubling[3] = 7812500
  /\ SaturatedDoubling[4] = 15625000 /\ SaturatedDoubling[5] = 31250000
  /\ SaturatedDoubling[6] = 62500000
  /\ \A j \in Nat : SaturatedDoubling[j + 7] = 117187500
<1>0. \A n \in Nat : SaturatedDoubling[n + 2] =
        IF 2 * SaturatedDoubling[n + 1] > 117187500 THEN 117187500
        ELSE 2 * SaturatedDoubling[n + 1]
  BY SaturatedRec, SMT DEF maxBackoff
<1>1. SaturatedDoubling[1] = 1953125
  BY SaturatedRec, SMT DEF baseBackoff
<1>2. SaturatedDoubling[2] = 3906250
  BY <1>0, <1>1, SMT
<1>3. SaturatedDoubling[3] = 7812500
  BY <1>0, <1>2, SMT
<1>4. SaturatedDoubling[4] = 15625000
  BY <1>0, <1>3, SMT
<1>5. SaturatedDoubling[5] = 31250000
  BY <1>0, <1>4, SMT
<1>6. SaturatedDoubling[6] = 62500000
  BY <1>0, <1>5, SMT
<1>7. SaturatedDoubling[7] = 117187500
  BY <1>0, <1>6, SMT
<1> DEFINE T == {j \in Nat : SaturatedDoubling[j + 7] = 117187500}
<1>8. 0 \in T
  BY <1>7, SMT
<1>9. ASSUME NEW j \in Nat, j \in T PROVE j + 1 \in T
  <2>1. PICK i \in Nat : i = j + 6
    BY SMT
  <2>2. i + 2 = j + 1 + 7 /\ i + 1 = j + 7 /\ j + 1 \in Nat
    BY <2>1, SMT
  <2>3. SaturatedDoubling[i + 1] = 117187500
    BY <1>9, <2>2, SMT
  <2>4. SaturatedDoubling[i + 2] =
          IF 2 * SaturatedDoubling[i + 1] > 117187500 THEN 117187500
          ELSE 2 * SaturatedDoubling[i + 1]
    BY ONLY <1>0, i \in Nat, SMT
  <2>5. SaturatedDoubling[i + 2] = 117187500
    BY ONLY <2>3, <2>4, SMT
  <2> QED  BY <2>2, <2>5, SMT
<1> HIDE DEF T
<1>10. Nat \subseteq T
  BY <1>8, <1>9, Induct
<1>11. \A j \in Nat : SaturatedDoubling[j + 7] = 117187500
  BY <1>10, SMT DEF T
<1> QED  BY <1>1, <1>2, <1>3, <1>4, <1>5, <1>6, <1>11, SMT

\* The shift of an int64 under its two checks is doubling that stops at the
\* cap, for every number of failures: what wraps to a negative number is caught
\* by the sign, and what wraps to zero is zero in both halves.
LEMMA BackoffIsSaturated ==
  \A n \in Nat : n > 0 => backoffDuration(n) = SaturatedDoubling[n]
<1> SUFFICES ASSUME NEW n \in Nat, n > 0 PROVE backoffDuration(n) = SaturatedDoubling[n]
  OBVIOUS
<1>0. Half = 268435456
  BY SMT DEF Half
<1>1. CASE n \in 1 .. 6
  <2>1. \/ n = 1 \/ n = 2 \/ n = 3 \/ n = 4 \/ n = 5 \/ n = 6
    BY <1>1, SMT
  <2>2. PICK l \in Nat : Shifted[n - 1] = <<0, l>> /\ l = SaturatedDoubling[n]
                         /\ 0 < l /\ l <= 117187500
    BY <2>1, ShiftedTable, SaturatedTable, SMT
  <2>3. ~NotPositive(Shifted[n - 1]) /\ ~AboveCap(Shifted[n - 1])
    BY <1>0, <2>2, SMT DEF NotPositive, AboveCap, maxBackoff
  <2> QED  BY <2>2, <2>3, SMT DEF backoffDuration
<1>2. CASE n >= 7
  <2>1. SaturatedDoubling[n] = 117187500
    <3>1. n - 7 \in Nat /\ n - 7 + 7 = n
      BY <1>2, SMT
    <3> QED  BY <3>1, SaturatedTable, SMT
  <2>2. NotPositive(Shifted[n - 1]) \/ AboveCap(Shifted[n - 1])
    <3>1. CASE n <= 8
      <4>1. n = 7 \/ n = 8
        BY <1>2, <3>1, SMT
      <4> QED  BY <4>1, ShiftedTable, SMT DEF AboveCap, maxBackoff
    <3>2. CASE 9 <= n /\ n <= 16
      <4>1. n = 9 \/ n = 10 \/ n = 11 \/ n = 12 \/ n = 13 \/ n = 14 \/ n = 15 \/ n = 16
        BY <3>2, SMT
      <4>2. Shifted[n - 1][1] > 0
        BY <4>1, ShiftedTable, SMT
      <4> QED  BY <4>2 DEF AboveCap
    <3>3. CASE 17 <= n /\ n <= 22
      <4>1. n = 17 \/ n = 18 \/ n = 19 \/ n = 20 \/ n = 21 \/ n = 22
        BY <3>3, SMT
      <4>2. Shifted[n - 1][1] > 0
        BY <4>1, ShiftedTable, SMT
      <4> QED  BY <4>2 DEF AboveCap
    <3>4. CASE 23 <= n /\ n <= 28
      <4>1. n = 23 \/ n = 24 \/ n = 25 \/ n = 26 \/ n = 27 \/ n = 28
        BY <3>4, SMT
      <4>2. Shifted[n - 1][1] > 0
        BY <4>1, ShiftedTable, SMT
      <4> QED  BY <4>2 DEF AboveCap
    <3>5. CASE n >= 29
      <4>1. n - 29 \in Nat /\ n - 29 + 28 = n - 1
        BY <3>5, SMT
      <4>2. PICK h \in Nat : Shifted[n - 1] = <<h, 0>>
        BY <4>1, ShiftedOut
      <4>3. h = 0 \/ h > 0
        BY SMT
      <4> QED  BY <4>2, <4>3, SMT DEF NotPositive, AboveCap
    <3>6. \/ n <= 8
          \/ 9 <= n /\ n <= 16
          \/ 17 <= n /\ n <= 22
          \/ 23 <= n /\ n <= 28
          \/ n >= 29
      BY SMT
    <3> QED  BY <3>1, <3>2, <3>3, <3>4, <3>5, <3>6
  <2>3. backoffDuration(n) = maxBackoff
    BY <2>2, SMT DEF backoffDuration
  <2> QED  BY <2>1, <2>3, SMT DEF maxBackoff
<1>3. n \in 1 .. 6 \/ n >= 7
  BY SMT
<1> QED  BY <1>1, <1>2, <1>3

\* However often RunOnce fails in a row, past the point where the shift of an
\* int64 wraps and past the point where nothing is left of it, runLoop sleeps
\* for what unbounded doubling with a cap would give: it never spins.
THEOREM BackoffNeverSpins == Spec => []BackoffSaturates
<1> DEFINE Inv == consecutive \in Nat /\ BackoffSaturates
<1>1. Init => Inv
  BY DEF Init, BackoffSaturates
<1>2. ASSUME Inv, [Next]_vars PROVE Inv'
  <2>1. CASE Succeed
    BY <2>1 DEF Succeed, BackoffSaturates
  <2>2. CASE Fail
    <3>1. /\ consecutive' = consecutive + 1 /\ consecutive' \in Nat /\ consecutive' > 0
          /\ delay' = backoffDuration(consecutive')
      BY <1>2, <2>2 DEF Fail
    <3>2. delay' = SaturatedDoubling[consecutive']
      BY <3>1, BackoffIsSaturated
    <3> QED  BY <3>1, <3>2 DEF BackoffSaturates
  <2>3. CASE UNCHANGED <<consecutive, delay>>
    BY <1>2, <2>3 DEF BackoffSaturates
  <2>4. Succeed \/ Fail \/ UNCHANGED <<consecutive, delay>>
    BY <1>2 DEF Next, Produce, Loop, Join, ConsumeAndCommit, PollNothing, ConsumeCommitFails,
       ConsumeFails, PollFails, Tick, TickUnheard, Probe, GroupUnknown, FetchCommits, ListEnds,
       ProbeError, ProbeTimeout, Restart, loopVars, vars
  <2> QED  BY <2>1, <2>2, <2>3, <2>4
<1>3. Inv => BackoffSaturates
  OBVIOUS
<1> QED  BY <1>1, <1>2, <1>3, PTL DEF Spec
=============================================================================
