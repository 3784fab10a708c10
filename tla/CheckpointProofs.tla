-------------------------- MODULE CheckpointProofs --------------------------
(***************************************************************************)
(* Proofs about Checkpoint for every group of replicas, every log and      *)
(* every choice of faults.                                                 *)
(***************************************************************************)
EXTENDS Checkpoint, SequenceTheorems, TLAPS

-----------------------------------------------------------------------------
(* Lemmas about the operators.                                             *)

RunPCs == FlushPCs \cup {"wait", "exited"}
FinalPCs == FlushPCs \cup {"none", "done"}

\* A step of a flusher moves that flusher of that replica and no other.
LEMMA GotoMoves ==
  ASSUME TypeOK, NEW r \in Replica, NEW f \in Flusher, NEW l, Goto(r, f, l),
         f = "run" => l \in RunPCs, f = "final" => l \in FinalPCs
  PROVE  /\ run' \in [Replica -> RunPCs] /\ final' \in [Replica -> FinalPCs]
         /\ \A q \in Replica :
              /\ run'[q] = IF q = r /\ f = "run" THEN l ELSE run[q]
              /\ final'[q] = IF q = r /\ f = "final" THEN l ELSE final[q]
<1>1. run \in [Replica -> RunPCs] /\ final \in [Replica -> FinalPCs]
  BY DEF TypeOK, RunPCs, FinalPCs
<1>2. CASE f = "run"
  <2>1. run' = [run EXCEPT ![r] = l] /\ final' = final
    BY <1>2 DEF Goto
  <2> QED  BY <1>1, <1>2, <2>1
<1>3. CASE f = "final"
  <2>1. final' = [final EXCEPT ![r] = l] /\ run' = run
    BY <1>3 DEF Goto
  <2> QED  BY <1>1, <1>3, <2>1
<1> QED  BY <1>2, <1>3 DEF Flusher

\* The locals of a flusher change with its own loads only.
LEMMA LoadLsnSnap ==
  ASSUME TypeOK, NEW r \in Replica, NEW f \in Flusher, LoadLsn(r, f)
  PROVE  /\ snap' \in [Replica -> [Flusher -> Snapshot]]
         /\ \A q \in Replica, g \in Flusher :
              snap'[q][g].lsn = IF q = r /\ g = f THEN maxLSN[r] ELSE snap[q][g].lsn
<1>1. snap \in [Replica -> [Flusher -> [lsn : Nat, events : Nat]]] /\ maxLSN[r] \in Nat
  BY DEF TypeOK, Snapshot
<1>2. snap' = [snap EXCEPT ![r][f].lsn = maxLSN[r]]
  BY DEF LoadLsn, FlushedLsn
<1> DEFINE s == [snap[r][f] EXCEPT !.lsn = maxLSN[r]]
           t == [snap[r] EXCEPT ![f] = s]
<1>3. snap[r][f] \in [lsn : Nat, events : Nat] /\ snap[r] \in [Flusher -> [lsn : Nat, events : Nat]]
  BY <1>1
<1>4. s \in [lsn : Nat, events : Nat] /\ s.lsn = maxLSN[r]
  BY <1>1, <1>3
<1>5. snap' = [snap EXCEPT ![r] = t]
  BY <1>2
<1> HIDE DEF s
<1>6. t \in [Flusher -> [lsn : Nat, events : Nat]] /\ \A g \in Flusher : t[g] = IF g = f THEN s ELSE snap[r][g]
  BY ONLY <1>3, <1>4
<1> HIDE DEF t
<1>7. /\ snap' \in [Replica -> [Flusher -> [lsn : Nat, events : Nat]]]
      /\ \A q \in Replica : snap'[q] = IF q = r THEN t ELSE snap[q]
  BY ONLY <1>1, <1>5, <1>6
<1> QED  BY <1>4, <1>6, <1>7 DEF Snapshot

\* The second load of flush, of the event count, leaves every LSN as it was.
LEMMA LoadCountSnap ==
  ASSUME TypeOK, NEW r \in Replica, NEW f \in Flusher, LoadCount(r, f)
  PROVE  /\ snap' \in [Replica -> [Flusher -> Snapshot]]
         /\ \A q \in Replica, g \in Flusher : snap'[q][g].lsn = snap[q][g].lsn
<1>1. snap \in [Replica -> [Flusher -> [lsn : Nat, events : Nat]]] /\ eventCount[r] \in Nat
  BY DEF TypeOK, Snapshot
<1>2. snap' = [snap EXCEPT ![r] = [snap[r] EXCEPT ![f] =
                [snap[r][f] EXCEPT !.events = eventCount[r]]]]
  BY DEF LoadCount
<1> DEFINE s == [snap[r][f] EXCEPT !.events = eventCount[r]]
<1>3. snap[r][f] \in [lsn : Nat, events : Nat]
  BY <1>1
<1>4. s \in [lsn : Nat, events : Nat] /\ s.lsn = snap[r][f].lsn
  BY <1>1, <1>3
<1> HIDE DEF s
<1>5. snap' = [snap EXCEPT ![r] = [snap[r] EXCEPT ![f] = s]]
  BY <1>2 DEF s
<1>6. snap' \in [Replica -> [Flusher -> [lsn : Nat, events : Nat]]]
  BY <1>1, <1>4, <1>5
<1>7. \A q \in Replica, g \in Flusher : snap'[q][g].lsn = snap[q][g].lsn
  BY <1>1, <1>4, <1>5
<1> QED  BY <1>6, <1>7 DEF Snapshot

\* A flush that is over, or gone with its process, holds no snapshot.
LEMMA DropSnapshotSnap ==
  ASSUME TypeOK, NEW r \in Replica, NEW f \in Flusher, DropSnapshot(r, f)
  PROVE  /\ snap' \in [Replica -> [Flusher -> Snapshot]]
         /\ \A q \in Replica, g \in Flusher :
              snap'[q][g] = IF q = r /\ g = f THEN NoSnapshot ELSE snap[q][g]
<1>1. snap \in [Replica -> [Flusher -> Snapshot]] /\ NoSnapshot \in Snapshot
  BY DEF TypeOK, Snapshot, NoSnapshot
<1>2. snap' = [snap EXCEPT ![r][f] = NoSnapshot]
  BY DEF DropSnapshot
<1> QED  BY <1>1, <1>2

\* A process that ends drops its locals and may leave one update behind.
LEMMA GoDownLeaves ==
  ASSUME TypeOK, NEW r \in Replica, GoDown(r)
  PROVE  /\ snap' \in [Replica -> [Flusher -> Snapshot]]
         /\ \A q \in Replica, g \in Flusher :
              snap'[q][g] = IF q = r THEN NoSnapshot ELSE snap[q][g]
         /\ \A s \in late' : s \in late \/ \E g \in Flusher : s = snap[r][g]
         /\ late' \subseteq Snapshot
<1>1. snap \in [Replica -> [Flusher -> Snapshot]] /\ NoSnapshot \in Snapshot
  BY DEF TypeOK, Snapshot, NoSnapshot
<1>2. snap' = [snap EXCEPT ![r] = [f \in Flusher |-> NoSnapshot]]
  BY DEF GoDown
<1>3. \A s \in late' : s \in late \/ \E g \in Flusher : s = snap[r][g]
  BY DEF GoDown
<1>4. late' \subseteq Snapshot
  BY <1>1, <1>3 DEF TypeOK
<1> QED  BY <1>1, <1>2, <1>3, <1>4

\* The number of events a consumer has polled is a natural number.
LEMMA NextIsNat ==
  ASSUME TypeOK, NEW p \in Partition
  PROVE  next[p] \in Nat
<1>1. next \in [Partition -> Nat]
  BY DEF TypeOK
<1> QED  BY <1>1

\* So is the size of a batch.
LEMMA BatchSize ==
  ASSUME NEW n \in 1 .. MaxBatch
  PROVE  n \in Nat
<1>1. MaxBatch \in Nat
  BY CheckpointAssumption
<1> QED  BY <1>1

\* A batch that was applied: its LSNs, and the greatest of them.
LEMMA ApplyBatchHand ==
  ASSUME TypeOK, NEW r \in Replica, NEW p \in Partition, ApplyBatch(r, p)
  PROVE  \E n \in 1 .. MaxBatch, i \in DOMAIN LsnAt[p] :
           /\ next' = [next EXCEPT ![p] = next[p] + n]
           /\ next[p] + n <= Len(LsnAt[p])
           /\ i \in next[p] + 1 .. next[p] + n
           /\ \A j \in next[p] + 1 .. next[p] + n :
                j \in DOMAIN LsnAt[p] /\ LsnAt[p][j] <= LsnAt[p][i] /\ LsnAt[p][j] \in applied'
           /\ LsnAt[p][i] \in Nat
           /\ hand' = [hand EXCEPT ![r] = [part |-> p, size |-> n, lsn |-> LsnAt[p][i]]]
           /\ applied \subseteq applied' /\ applied' \subseteq Nat
           /\ UNCHANGED givenUp
<1> USE DEF PolledLsns
<1>1. PICK n \in 1 .. MaxBatch :
        /\ next[p] + n <= Len(LsnAt[p])
        /\ next' = [next EXCEPT ![p] = next[p] + n]
        /\ applied' = applied \cup {LsnAt[p][i] : i \in next[p] + 1 .. next[p] + n}
        /\ \E l \in {LsnAt[p][i] : i \in next[p] + 1 .. next[p] + n} :
             /\ \A k \in {LsnAt[p][i] : i \in next[p] + 1 .. next[p] + n} : k <= l
             /\ hand' = [hand EXCEPT ![r] = [part |-> p, size |-> n, lsn |-> l]]
  BY DEF ApplyBatch, Polled
<1>2. PICK i \in next[p] + 1 .. next[p] + n :
        /\ \A k \in {LsnAt[p][j] : j \in next[p] + 1 .. next[p] + n} : k <= LsnAt[p][i]
        /\ hand' = [hand EXCEPT ![r] = [part |-> p, size |-> n, lsn |-> LsnAt[p][i]]]
  <2>1. PICK l \in {LsnAt[p][j] : j \in next[p] + 1 .. next[p] + n} :
          /\ \A k \in {LsnAt[p][j] : j \in next[p] + 1 .. next[p] + n} : k <= l
          /\ hand' = [hand EXCEPT ![r] = [part |-> p, size |-> n, lsn |-> l]]
    BY <1>1, Zenon
  <2>2. PICK i \in next[p] + 1 .. next[p] + n : l = LsnAt[p][i]
    BY Zenon
  <2> QED  BY <2>1, <2>2, Zenon
<1>3. LsnAt[p] \in Seq(Nat \ {0}) /\ next[p] \in Nat /\ n \in Nat
  <2>1. LsnAt[p] \in Seq(Nat \ {0})
    BY CheckpointAssumption
  <2>2. next[p] \in Nat
    BY NextIsNat
  <2> QED  BY <2>1, <2>2, BatchSize
<1>4. Len(LsnAt[p]) \in Nat /\ DOMAIN LsnAt[p] = 1 .. Len(LsnAt[p])
  BY <1>3, LenProperties
<1>5. \A j \in next[p] + 1 .. next[p] + n : j \in DOMAIN LsnAt[p]
  <2>1. next[p] \in Nat /\ n \in Nat /\ next[p] + n <= Len(LsnAt[p]) /\ Len(LsnAt[p]) \in Nat
    BY <1>1, <1>3, <1>4, Zenon
  <2>2. \A j \in next[p] + 1 .. next[p] + n : j \in 1 .. Len(LsnAt[p])
    BY ONLY <2>1
  <2> QED  BY <1>4, <2>2
<1>6. \A j \in DOMAIN LsnAt[p] : LsnAt[p][j] \in Nat \ {0}
  BY <1>3, <1>4, ElementOfSeq
<1>7. \A k \in {LsnAt[p][j] : j \in next[p] + 1 .. next[p] + n} : k \in Nat
  BY <1>5, <1>6
<1>8. applied \subseteq applied' /\ applied' \subseteq Nat
  BY <1>1, <1>7 DEF TypeOK
<1>9. \A j \in next[p] + 1 .. next[p] + n :
        j \in DOMAIN LsnAt[p] /\ LsnAt[p][j] <= LsnAt[p][i] /\ LsnAt[p][j] \in applied'
  BY <1>1, <1>2, <1>5
<1>10. i \in DOMAIN LsnAt[p] /\ LsnAt[p][i] \in Nat
  BY <1>5, <1>6
<1>11. \E m \in DOMAIN LsnAt[p] :
         /\ m \in next[p] + 1 .. next[p] + n
         /\ \A j \in next[p] + 1 .. next[p] + n :
              j \in DOMAIN LsnAt[p] /\ LsnAt[p][j] <= LsnAt[p][m] /\ LsnAt[p][j] \in applied'
         /\ LsnAt[p][m] \in Nat
         /\ hand' = [hand EXCEPT ![r] = [part |-> p, size |-> n, lsn |-> LsnAt[p][m]]]
  <2> WITNESS i \in DOMAIN LsnAt[p]
  <2> QED  BY <1>2, <1>9, <1>10
<1>12. UNCHANGED givenUp
  BY DEF ApplyBatch
<1> QED  BY <1>1, <1>8, <1>11, <1>12, Zenon

\* A batch that failed: its events are given up.
LEMMA ApplyFailsLeaves ==
  ASSUME TypeOK, NEW r \in Replica, NEW p \in Partition, ApplyFails(r, p)
  PROVE  \E n \in 1 .. MaxBatch :
           /\ next' = [next EXCEPT ![p] = next[p] + n]
           /\ \A j \in next[p] + 1 .. next[p] + n : LsnAt[p][j] \in givenUp'
           /\ applied \subseteq applied' /\ applied' \subseteq Nat
           /\ givenUp \subseteq givenUp' /\ givenUp' \subseteq Nat
<1>1. PICK n \in 1 .. MaxBatch :
        /\ next[p] + n <= Len(LsnAt[p])
        /\ next' = [next EXCEPT ![p] = next[p] + n]
        /\ \E S \in SUBSET PolledLsns(p, n) : applied' = applied \cup S
        /\ givenUp' = givenUp \cup PolledLsns(p, n)
  BY DEF ApplyFails, Polled
<1>2. LsnAt[p] \in Seq(Nat \ {0}) /\ next[p] \in Nat /\ n \in Nat
  BY CheckpointAssumption, NextIsNat, BatchSize
<1>3. Len(LsnAt[p]) \in Nat
  BY <1>2, LenProperties
<1>4. \A j \in next[p] + 1 .. next[p] + n : j \in 1 .. Len(LsnAt[p])
  BY ONLY <1>1, <1>2, <1>3
<1>5. \A j \in 1 .. Len(LsnAt[p]) : LsnAt[p][j] \in Nat
  BY <1>2, ElementOfSeq
<1>6. PolledLsns(p, n) \subseteq Nat
  BY <1>4, <1>5 DEF PolledLsns
<1>7. \A j \in next[p] + 1 .. next[p] + n : LsnAt[p][j] \in PolledLsns(p, n)
  BY DEF PolledLsns
<1> QED  BY <1>1, <1>6, <1>7 DEF TypeOK

-----------------------------------------------------------------------------
(* Types.                                                                  *)

\* A new group is well typed.
LEMMA InitType == Init => TypeOK
<1>1. NoSnapshot \in Snapshot /\ NoBatch \in [part : Partition \cup {NoPartition}, size : Nat, lsn : Nat]
  BY DEF NoSnapshot, Snapshot, NoBatch
<1> SUFFICES ASSUME Init PROVE TypeOK
  OBVIOUS
<1>2. snap \in [Replica -> [Flusher -> Snapshot]]
  BY <1>1 DEF Init
<1>3. hand \in [Replica -> [part : Partition \cup {NoPartition}, size : Nat, lsn : Nat]]
  BY <1>1 DEF Init
<1> QED  BY <1>1, <1>2, <1>3 DEF Init, TypeOK, FlushPCs

\* Every step of the goroutines, of their processes and of Mongo keeps the types.
LEMMA NextType == TypeOK /\ [Next]_vars => TypeOK'
<1> SUFFICES ASSUME TypeOK, [Next]_vars PROVE TypeOK'
  OBVIOUS
<1> USE DEF RunPCs, FinalPCs
<1>1. ASSUME NEW s \in late, LateUpdate(s) PROVE TypeOK'
  BY <1>1 DEF TypeOK, LateUpdate, NoFault, loopVars, markVars, runVars
<1>2. ASSUME NEW r \in Replica, NEW p \in Partition, ApplyBatch(r, p) PROVE TypeOK'
  <2>1. PICK n \in 1 .. MaxBatch, i \in DOMAIN LsnAt[p] :
          /\ next' = [next EXCEPT ![p] = next[p] + n]
          /\ LsnAt[p][i] \in Nat
          /\ hand' = [hand EXCEPT ![r] = [part |-> p, size |-> n, lsn |-> LsnAt[p][i]]]
          /\ applied' \subseteq Nat
    BY <1>2, ApplyBatchHand
  <2>2. n \in Nat /\ next[p] + n \in Nat
    <3>1. n \in Nat /\ next[p] \in Nat
      BY BatchSize, NextIsNat
    <3> QED  BY <3>1
  <2>3. hand' \in [Replica -> [part : Partition \cup {NoPartition}, size : Nat, lsn : Nat]]
    <3>1. hand \in [Replica -> [part : Partition \cup {NoPartition}, size : Nat, lsn : Nat]]
      BY DEF TypeOK
    <3> QED  BY <2>1, <2>2, <3>1
  <2>4. next' \in [Partition -> Nat]
    <3>1. next \in [Partition -> Nat]
      BY DEF TypeOK
    <3> QED  BY <2>1, <2>2, <3>1
  <2> QED  BY <1>2, <2>1, <2>3, <2>4 DEF TypeOK, ApplyBatch, NoFault, markVars, runVars, docVars
<1>13. ASSUME NEW r \in Replica, NEW p \in Partition, ApplyFails(r, p) PROVE TypeOK'
  <2>1. PICK n \in 1 .. MaxBatch :
          /\ next' = [next EXCEPT ![p] = next[p] + n]
          /\ applied' \subseteq Nat /\ givenUp' \subseteq Nat
    BY <1>13, ApplyFailsLeaves
  <2>2. next[p] + n \in Nat
    <3>1. n \in Nat /\ next[p] \in Nat
      BY BatchSize, NextIsNat
    <3> QED  BY <3>1
  <2>3. next' \in [Partition -> Nat]
    <3>1. next \in [Partition -> Nat]
      BY DEF TypeOK
    <3> QED  BY <2>1, <2>2, <3>1
  <2> QED  BY <1>13, <2>1, <2>3 DEF TypeOK, ApplyFails, Fault, markVars, runVars, docVars
<1>14. ASSUME NEW r \in Replica, ApplyBlocks(r) PROVE TypeOK'
  BY <1>14 DEF TypeOK, ApplyBlocks, Fault, markVars, runVars, docVars
<1>15. ASSUME NEW r \in Replica, LoopTimesOut(r) \/ FinalFlush(r) PROVE TypeOK'
  <2>1. Return(r) /\ faultCount' \in Nat
    BY <1>15 DEF LoopTimesOut, FinalFlush, Fault, NoFault, TypeOK
  <2>2. NoBatch \in [part : Partition \cup {NoPartition}, size : Nat, lsn : Nat]
    BY DEF NoBatch
  <2>3. hand' \in [Replica -> [part : Partition \cup {NoPartition}, size : Nat, lsn : Nat]]
    BY <2>1, <2>2 DEF TypeOK, Return
  <2> QED  BY <2>1, <2>3 DEF TypeOK, Return, FlushPCs, markVars, runVars, docVars
<1>3. ASSUME NEW r \in Replica, Mark(r) PROVE TypeOK'
  <2>1. CASE MarkLsn(r)
    BY <2>1 DEF TypeOK, MarkLsn, NewMax, NoFault, runVars, docVars
  <2>2. CASE MarkCount(r)
    BY <2>2 DEF TypeOK, MarkCount, NoFault, runVars, docVars
  <2>3. CASE MarkDirty(r)
    BY <2>3 DEF TypeOK, MarkDirty, NoFault, runVars, docVars
  <2>4. CASE Commit(r)
    <3>1. NoBatch \in [part : Partition \cup {NoPartition}, size : Nat, lsn : Nat]
      BY DEF NoBatch
    <3>2. committed' \in [Partition -> Nat]
      BY <2>4 DEF TypeOK, Commit, NoFault
    <3>4. faultCount' \in Nat
      BY <2>4 DEF TypeOK, Commit, NoFault, Fault
    <3>3. hand' \in [Replica -> [part : Partition \cup {NoPartition}, size : Nat, lsn : Nat]]
      BY <2>4, <3>1 DEF TypeOK, Commit
    <3> QED  BY <2>4, <3>2, <3>3, <3>4 DEF TypeOK, Commit, markVars, runVars, docVars
  <2> QED  BY <1>3, <2>1, <2>2, <2>3, <2>4 DEF Mark
<1>4. ASSUME NEW r \in Replica, Tick(r) PROVE TypeOK'
  BY <1>4 DEF TypeOK, Tick, FlushPCs, NoFault, loopVars, markVars, docVars
<1>5. ASSUME NEW r \in Replica, TickUnheard(r) PROVE TypeOK'
  BY <1>5 DEF TypeOK, TickUnheard, NoFault, loopVars, markVars, runVars, docVars
<1>6. ASSUME NEW r \in Replica, NEW f \in Flusher, Flush(r, f) \/ FlushFails(r, f) PROVE TypeOK'
  <2> USE DEF FlushPCs
  <2>1. CASE LoadLsn(r, f)
    <3>1. snap' \in [Replica -> [Flusher -> Snapshot]]
      BY <2>1, LoadLsnSnap
    <3>2. run' \in [Replica -> RunPCs] /\ final' \in [Replica -> FinalPCs]
      BY <2>1, GotoMoves DEF LoadLsn
    <3> QED  BY <2>1, <3>1, <3>2 DEF TypeOK, LoadLsn, NoFault, loopVars, markVars, docVars
  <2>2. CASE LoadCount(r, f)
    <3>1. snap' \in [Replica -> [Flusher -> Snapshot]]
      BY <2>2, LoadCountSnap
    <3>2. run' \in [Replica -> RunPCs] /\ final' \in [Replica -> FinalPCs]
      BY <2>2, GotoMoves DEF LoadCount
    <3> QED  BY <2>2, <3>1, <3>2 DEF TypeOK, LoadCount, NoFault, loopVars, markVars, docVars
  <2>3. CASE Update(r, f)
    <3>1. snap' \in [Replica -> [Flusher -> Snapshot]]
      BY <2>3, DropSnapshotSnap DEF Update
    <3>2. run' \in [Replica -> RunPCs] /\ final' \in [Replica -> FinalPCs]
      BY <2>3, GotoMoves DEF Update
    <3> QED  BY <2>3, <3>1, <3>2 DEF TypeOK, Update, NoFault, loopVars, markVars
  <2>4. CASE Clear(r, f)
    <3>1. run' \in [Replica -> RunPCs] /\ final' \in [Replica -> FinalPCs]
      BY <2>4, GotoMoves DEF Clear, Flusher
    <3> QED  BY <2>4, <3>1 DEF TypeOK, Clear, NoFault, loopVars, docVars
  <2>5. CASE UpdateError(r, f)
    <3>1. snap' \in [Replica -> [Flusher -> Snapshot]]
      BY <2>5, DropSnapshotSnap DEF UpdateError
    <3>2. run' \in [Replica -> RunPCs] /\ final' \in [Replica -> FinalPCs]
      BY <2>5, GotoMoves DEF UpdateError, Flusher
    <3> QED  BY <2>5, <3>1, <3>2 DEF TypeOK, UpdateError, Fault, loopVars, markVars, docVars
  <2>6. CASE UpdateTimeout(r, f)
    <3>1. snap' \in [Replica -> [Flusher -> Snapshot]]
      BY <2>6, DropSnapshotSnap DEF UpdateTimeout
    <3>2. run' \in [Replica -> RunPCs] /\ final' \in [Replica -> FinalPCs]
      BY <2>6, GotoMoves DEF UpdateTimeout, AfterTimeout, Flusher
    <3>3. late' \subseteq Snapshot
      BY <2>6 DEF UpdateTimeout, TypeOK
    <3>4. faultCount' \in Nat
      BY <2>6 DEF UpdateTimeout, Fault, NoFault, TypeOK
    <3> QED  BY <2>6, <3>1, <3>2, <3>3, <3>4 DEF TypeOK, UpdateTimeout, loopVars, markVars
  <2> QED  BY <1>6, <2>1, <2>2, <2>3, <2>4, <2>5, <2>6 DEF Flush, FlushFails
<1>7. ASSUME NEW r \in Replica, Stop(r) PROVE TypeOK'
  BY <1>7 DEF TypeOK, Stop, Fault, loopVars, markVars, runVars, docVars
<1>8. ASSUME NEW r \in Replica, RunReturns(r) PROVE TypeOK'
  BY <1>8 DEF TypeOK, RunReturns, NoFault, loopVars, markVars, docVars
<1>10. ASSUME NEW r \in Replica, Exit(r) \/ Kill(r) PROVE TypeOK'
  <2>1. GoDown(r) /\ faultCount' \in Nat
    BY <1>10 DEF Exit, Kill, Fault, NoFault, TypeOK
  <2>2. snap' \in [Replica -> [Flusher -> Snapshot]] /\ late' \subseteq Snapshot
    BY <2>1, GoDownLeaves
  <2> QED  BY <2>1, <2>2 DEF TypeOK, GoDown, loopVars, markVars, runVars
<1>11. ASSUME NEW r \in Replica, Restart(r) PROVE TypeOK'
  <2>1. NoBatch \in [part : Partition \cup {NoPartition}, size : Nat, lsn : Nat]
    BY DEF NoBatch
  <2>2. hand' \in [Replica -> [part : Partition \cup {NoPartition}, size : Nat, lsn : Nat]]
    BY <1>11, <2>1 DEF TypeOK, Restart
  <2>3. next' \in [Partition -> Nat]
    BY <1>11 DEF TypeOK, Restart
  <2> QED  BY <1>11, <2>2, <2>3 DEF TypeOK, Restart, NoFault, docVars
<1>12. CASE UNCHANGED vars
  BY <1>12 DEF TypeOK, vars, loopVars, markVars, runVars, docVars
<1> QED
  BY <1>1, <1>2, <1>3, <1>4, <1>5, <1>6, <1>7, <1>8, <1>10, <1>11, <1>12, <1>13, <1>14,
     <1>15
  DEF Next, Shutdown

\* The variables of the goroutines, the document and the histories keep their
\* types.
THEOREM TypeCorrect == Spec => []TypeOK
<1>1. Init => TypeOK
  BY InitType
<1>2. TypeOK /\ [Next]_vars => TypeOK'
  BY NextType
<1> QED  BY <1>1, <1>2, PTL DEF Spec

-----------------------------------------------------------------------------
(* The staleness gauge.                                                    *)

\* While Run waits, the gauge is below the heartbeat and no further from
\* idleTicks than there were failures; a flush under way is one tick later.
StaleInv ==
  \A r \in Replica :
    /\ run[r] = "wait" =>
         stale[r] <= idleTicks[r] + faultCount /\ stale[r] < HeartbeatEvery + faultCount
    /\ run[r] \in FlushPCs =>
         stale[r] <= idleTicks[r] + faultCount + 1 /\ stale[r] <= HeartbeatEvery + faultCount

\* A failure elsewhere only weakens the bound.
LEMMA StaleStays ==
  ASSUME TypeOK, StaleInv, UNCHANGED <<run, idleTicks, stale>>,
         faultCount' \in Nat, faultCount <= faultCount'
  PROVE  StaleInv'
<1> SUFFICES ASSUME NEW q \in Replica
             PROVE  /\ run'[q] = "wait" =>
                         /\ stale'[q] <= idleTicks'[q] + faultCount'
                         /\ stale'[q] < HeartbeatEvery + faultCount'
                    /\ run'[q] \in FlushPCs =>
                         /\ stale'[q] <= idleTicks'[q] + faultCount' + 1
                         /\ stale'[q] <= HeartbeatEvery + faultCount'
  BY DEF StaleInv
<1>1. stale[q] \in Nat /\ idleTicks[q] \in Nat /\ faultCount \in Nat
  BY DEF TypeOK
<1>2. HeartbeatEvery \in Nat
  BY CheckpointAssumption
<1>3. faultCount' \in Nat /\ faultCount <= faultCount'
  BY <1>1
<1>4. /\ run[q] = "wait" => /\ stale[q] <= idleTicks[q] + faultCount
                            /\ stale[q] < HeartbeatEvery + faultCount
      /\ run[q] \in FlushPCs => /\ stale[q] <= idleTicks[q] + faultCount + 1
                                /\ stale[q] <= HeartbeatEvery + faultCount
  BY DEF StaleInv
<1> QED  BY <1>1, <1>2, <1>3, <1>4

\* Every step keeps the bound on the gauge.
LEMMA StaleStep == TypeOK /\ StaleInv /\ [Next]_vars => StaleInv'
<1> SUFFICES ASSUME TypeOK, StaleInv, [Next]_vars PROVE StaleInv'
  OBVIOUS
<1>0. faultCount \in Nat /\ HeartbeatEvery \in Nat \ {0}
  BY CheckpointAssumption DEF TypeOK
<1>1. ASSUME NEW s \in late, LateUpdate(s) PROVE StaleInv'
  BY <1>0, <1>1, StaleStays DEF LateUpdate, NoFault, runVars
<1>2. ASSUME NEW r \in Replica, NEW p \in Partition, ApplyBatch(r, p) PROVE StaleInv'
  BY <1>0, <1>2, StaleStays DEF ApplyBatch, NoFault, runVars
<1>13. ASSUME NEW r \in Replica, NEW p \in Partition, ApplyFails(r, p) PROVE StaleInv'
  BY <1>0, <1>13, StaleStays DEF ApplyFails, Fault, runVars
<1>14. ASSUME NEW r \in Replica, ApplyBlocks(r) PROVE StaleInv'
  BY <1>0, <1>14, StaleStays DEF ApplyBlocks, Fault, runVars
<1>15. ASSUME NEW r \in Replica, LoopTimesOut(r) PROVE StaleInv'
  BY <1>0, <1>15, StaleStays DEF LoopTimesOut, Return, Fault, runVars
<1>3. ASSUME NEW r \in Replica, Mark(r) PROVE StaleInv'
  <2>1. CASE MarkLsn(r) \/ MarkCount(r) \/ MarkDirty(r)
    BY <1>0, <2>1, StaleStays DEF MarkLsn, MarkCount, MarkDirty, NoFault, runVars
  <2>2. CASE Commit(r)
    BY <1>0, <2>2, StaleStays DEF Commit, Fault, NoFault, runVars
  <2> QED  BY <1>3, <2>1, <2>2 DEF Mark
<1>4. ASSUME NEW r \in Replica, Tick(r) PROVE StaleInv'
  <2> SUFFICES ASSUME NEW q \in Replica
               PROVE  /\ run'[q] = "wait" =>
                           /\ stale'[q] <= idleTicks'[q] + faultCount'
                           /\ stale'[q] < HeartbeatEvery + faultCount'
                      /\ run'[q] \in FlushPCs =>
                           /\ stale'[q] <= idleTicks'[q] + faultCount' + 1
                           /\ stale'[q] <= HeartbeatEvery + faultCount'
    BY DEF StaleInv
  <2>1. CASE q # r
    BY <1>4, <2>1 DEF Tick, NoFault, StaleInv, TypeOK
  <2>2. CASE q = r
    <3>1. stale[r] \in Nat /\ idleTicks[r] \in Nat /\ dirty[r] \in BOOLEAN
      BY DEF TypeOK
    <3>2. stale[r] <= idleTicks[r] + faultCount /\ stale[r] < HeartbeatEvery + faultCount
      BY <1>4 DEF Tick, StaleInv
    <3>3. stale'[r] <= stale[r] + 1 /\ stale'[r] \in Nat /\ faultCount' = faultCount
      BY <1>4, <3>1 DEF Tick, NoFault, TypeOK
    <3>4. idleTicks'[r] = IF dirty[r] THEN idleTicks[r] ELSE idleTicks[r] + 1
      BY <1>4 DEF Tick, TypeOK
    <3>5. run'[r] = IF dirty[r] \/ idleTicks[r] + 1 >= HeartbeatEvery THEN "loadLsn" ELSE "wait"
      BY <1>4 DEF Tick, FlushDue, TypeOK
    <3> QED  BY <1>0, <2>2, <3>1, <3>2, <3>3, <3>4, <3>5 DEF FlushPCs
  <2> QED  BY <2>1, <2>2
<1>5. ASSUME NEW r \in Replica, TickUnheard(r) PROVE StaleInv'
  BY <1>5 DEF TickUnheard, StaleInv, NoFault, runVars, TypeOK, FlushPCs
<1>6. ASSUME NEW r \in Replica, NEW f \in Flusher, Flush(r, f) \/ FlushFails(r, f) PROVE StaleInv'
  <2> SUFFICES ASSUME NEW q \in Replica
               PROVE  /\ run'[q] = "wait" =>
                           /\ stale'[q] <= idleTicks'[q] + faultCount'
                           /\ stale'[q] < HeartbeatEvery + faultCount'
                      /\ run'[q] \in FlushPCs =>
                           /\ stale'[q] <= idleTicks'[q] + faultCount' + 1
                           /\ stale'[q] <= HeartbeatEvery + faultCount'
    BY DEF StaleInv
  <2> USE DEF RunPCs, FinalPCs
  <2>0. stale[q] \in Nat /\ idleTicks[q] \in Nat /\ run[q] \in RunPCs
    BY DEF TypeOK
  <2>1. CASE LoadLsn(r, f) \/ LoadCount(r, f) \/ Update(r, f)
    <3>1. /\ At(r, f) \in FlushPCs
          /\ \E l \in FlushPCs : Goto(r, f, l)
      BY <2>1 DEF LoadLsn, LoadCount, Update, FlushPCs
    <3>2. (run'[q] \in FlushPCs /\ run[q] \in FlushPCs) \/ run'[q] = run[q]
      BY <3>1, GotoMoves DEF At
    <3>3. UNCHANGED <<stale, idleTicks, faultCount>>
      BY <2>1 DEF LoadLsn, LoadCount, Update, NoFault
    <3> QED  BY <2>0, <3>2, <3>3 DEF StaleInv, FlushPCs
  <2>2. CASE Clear(r, f)
    <3>1. run'[q] = IF q = r /\ f = "run" THEN "wait" ELSE run[q]
      BY <2>2, GotoMoves DEF Clear, Flusher
    <3>2. stale'[q] = IF q = r THEN 0 ELSE stale[q]
      BY <2>2 DEF Clear, TypeOK
    <3>3. idleTicks'[q] = IF q = r /\ f = "run" THEN 0 ELSE idleTicks[q]
      BY <2>2 DEF Clear, TypeOK
    <3>4. faultCount' = faultCount
      BY <2>2 DEF Clear, NoFault
    <3> QED  BY <1>0, <2>0, <3>1, <3>2, <3>3, <3>4 DEF StaleInv, FlushPCs
  <2>3. CASE UpdateError(r, f)
    <3>1. run'[q] = IF q = r /\ f = "run" THEN "wait" ELSE run[q]
      BY <2>3, GotoMoves DEF UpdateError, Flusher
    <3>2. UNCHANGED <<stale, idleTicks>> /\ faultCount' = faultCount + 1
      BY <2>3 DEF UpdateError, Fault
    <3>3. q = r /\ f = "run" => run[q] = "update"
      BY <2>3 DEF UpdateError, At
    <3> QED  BY <1>0, <2>0, <3>1, <3>2, <3>3 DEF StaleInv, FlushPCs
  <2>4. CASE UpdateTimeout(r, f)
    <3>1. run'[q] = IF q = r /\ f = "run" THEN "exited" ELSE run[q]
      BY <2>4, GotoMoves DEF UpdateTimeout, AfterTimeout, Flusher
    <3>2. UNCHANGED <<stale, idleTicks>> /\ faultCount' \in {faultCount, faultCount + 1}
      BY <2>4 DEF UpdateTimeout, Fault, NoFault
    <3> QED  BY <1>0, <2>0, <3>1, <3>2 DEF StaleInv, FlushPCs
  <2> QED  BY <1>6, <2>1, <2>2, <2>3, <2>4 DEF Flush, FlushFails
<1>7. ASSUME NEW r \in Replica, Stop(r) PROVE StaleInv'
  BY <1>0, <1>7, StaleStays DEF Stop, Fault, runVars
<1>8. ASSUME NEW r \in Replica, RunReturns(r) PROVE StaleInv'
  BY <1>8 DEF RunReturns, NoFault, StaleInv, TypeOK, FlushPCs
<1>9. ASSUME NEW r \in Replica, FinalFlush(r) PROVE StaleInv'
  BY <1>0, <1>9, StaleStays DEF FinalFlush, Return, NoFault, runVars
<1>10. ASSUME NEW r \in Replica, Exit(r) \/ Kill(r) PROVE StaleInv'
  BY <1>0, <1>10, StaleStays DEF Exit, Kill, GoDown, Fault, NoFault, runVars
<1>11. ASSUME NEW r \in Replica, Restart(r) PROVE StaleInv'
  BY <1>0, <1>11 DEF Restart, NoFault, StaleInv, TypeOK, FlushPCs
<1>12. CASE UNCHANGED vars
  BY <1>0, <1>12, StaleStays DEF vars, runVars
<1> QED
  BY <1>1, <1>2, <1>3, <1>4, <1>5, <1>6, <1>7, <1>8, <1>9, <1>10, <1>11, <1>12, <1>13,
     <1>14, <1>15
  DEF Next, Shutdown

\* The gauge of a live Run exceeds the heartbeat by no more than the flushes
\* and other steps that failed.
THEOREM StaleIsBounded == Spec => []StaleOnlyByFailures
<1>1. Init => TypeOK /\ StaleInv
  <2>1. Init => StaleInv
    BY CheckpointAssumption DEF Init, StaleInv, FlushPCs
  <2> QED  BY <2>1, InitType
<1>2. TypeOK /\ StaleInv /\ [Next]_vars => (TypeOK /\ StaleInv)'
  BY NextType, StaleStep
<1>3. TypeOK /\ StaleInv => StaleOnlyByFailures
  <2> SUFFICES ASSUME TypeOK, StaleInv, NEW r \in Replica, run[r] # "exited"
               PROVE  stale[r] <= HeartbeatEvery + faultCount
    BY DEF StaleOnlyByFailures
  <2>1. run[r] \in FlushPCs \cup {"wait"} /\ stale[r] \in Nat /\ faultCount \in Nat
    BY DEF TypeOK
  <2> QED  BY <2>1, CheckpointAssumption DEF StaleInv
<1> QED  BY <1>1, <1>2, <1>3, PTL DEF Spec

-----------------------------------------------------------------------------
(* The recovery anchor.                                                    *)

\* l is no LSN, or that of an event up to which its partition is in A.
ReachedIn(A, l) ==
  l # 0 =>
    \E p \in Partition : \E i \in DOMAIN LsnAt[p] :
      LsnAt[p][i] = l /\ \A j \in 1 .. i : LsnAt[p][j] \in A

\* The events the consume loop is done with.
Passed == applied \cup givenUp

\* Every LSN on its way to the document has been reached, and so has every
\* offset the consumers may start from.
AnchorInv ==
  /\ ReachedIn(Passed, doc.lsn)
  /\ \A s \in late : ReachedIn(Passed, s.lsn)
  /\ \A r \in Replica : ReachedIn(Passed, maxLSN[r]) /\ ReachedIn(Passed, hand[r].lsn)
  /\ \A r \in Replica, f \in Flusher : ReachedIn(Passed, snap[r][f].lsn)
  /\ \A p \in Partition : \A i \in DOMAIN LsnAt[p] :
       i <= next[p] \/ i <= committed[p] => LsnAt[p][i] \in Passed

\* What was reached stays reached when the loop goes on.
LEMMA ReachedGrows ==
  ASSUME NEW A, NEW B, A \subseteq B
  PROVE  \A l : ReachedIn(A, l) => ReachedIn(B, l)
BY DEF ReachedIn

\* LSN 0 names nothing.
LEMMA ZeroIsReached == \A A : ReachedIn(A, 0)
BY DEF ReachedIn

\* A group that has applied nothing names nothing.
LEMMA AnchorInit == Init => AnchorInv
<1> SUFFICES ASSUME Init PROVE AnchorInv
  OBVIOUS
<1>1. doc.lsn = 0 /\ late = {}
  BY DEF Init, NoSnapshot
<1>2. \A r \in Replica : maxLSN[r] = 0 /\ hand[r].lsn = 0
  BY DEF Init, NoBatch
<1>3. \A r \in Replica, f \in Flusher : snap[r][f].lsn = 0
  BY DEF Init, NoSnapshot
<1>4. ASSUME NEW p \in Partition, NEW i \in DOMAIN LsnAt[p]
      PROVE  ~(i <= next[p] \/ i <= committed[p])
  <2>1. i \in 1 .. Len(LsnAt[p])
    BY CheckpointAssumption, LenProperties
  <2> QED  BY <2>1 DEF Init
<1> QED  BY <1>1, <1>2, <1>3, <1>4, ZeroIsReached DEF AnchorInv

\* A batch the loop is done with was polled behind everything it was done with
\* before.
LEMMA PolledIsPassed ==
  ASSUME TypeOK, AnchorInv, NEW p \in Partition, NEW n \in Nat,
         next' = [next EXCEPT ![p] = next[p] + n], UNCHANGED committed,
         Passed \subseteq Passed',
         \A j \in next[p] + 1 .. next[p] + n : LsnAt[p][j] \in Passed'
  PROVE  \A q \in Partition : \A j \in DOMAIN LsnAt[q] :
           j <= next'[q] \/ j <= committed'[q] => LsnAt[q][j] \in Passed'
<1> SUFFICES ASSUME NEW q \in Partition, NEW j \in DOMAIN LsnAt[q],
                    j <= next'[q] \/ j <= committed'[q]
             PROVE  LsnAt[q][j] \in Passed'
  OBVIOUS
<1>1. next[p] \in Nat
  BY NextIsNat
<1>2. next'[q] = IF q = p THEN next[p] + n ELSE next[q]
  BY DEF TypeOK
<1>3. DOMAIN LsnAt[q] = 1 .. Len(LsnAt[q]) /\ Len(LsnAt[q]) \in Nat
  BY CheckpointAssumption, LenProperties
<1>4. CASE j <= next[q] \/ j <= committed[q]
  BY <1>4 DEF AnchorInv
<1>5. CASE ~(j <= next[q]) /\ q = p /\ j <= next[p] + n
  <2>1. j \in next[p] + 1 .. next[p] + n
    BY <1>1, <1>3, <1>5
  <2> QED  BY <1>5, <2>1
<1> QED  BY <1>2, <1>4, <1>5

\* An applied batch: what precedes it in its partition was passed before.
LEMMA AnchorApply ==
  ASSUME TypeOK, AnchorInv, NEW r \in Replica, NEW p \in Partition, ApplyBatch(r, p)
  PROVE  AnchorInv'
<1>1. PICK n \in 1 .. MaxBatch, i \in DOMAIN LsnAt[p] :
        /\ next' = [next EXCEPT ![p] = next[p] + n]
        /\ next[p] + n <= Len(LsnAt[p])
        /\ i \in next[p] + 1 .. next[p] + n
        /\ \A j \in next[p] + 1 .. next[p] + n :
             j \in DOMAIN LsnAt[p] /\ LsnAt[p][j] <= LsnAt[p][i] /\ LsnAt[p][j] \in applied'
        /\ LsnAt[p][i] \in Nat
        /\ hand' = [hand EXCEPT ![r] = [part |-> p, size |-> n, lsn |-> LsnAt[p][i]]]
        /\ applied \subseteq applied' /\ applied' \subseteq Nat
        /\ UNCHANGED givenUp
  BY ApplyBatchHand
<1>2. UNCHANGED <<committed, maxLSN, snap, doc, late>>
  BY DEF ApplyBatch, markVars, docVars
<1>3. n \in Nat /\ next[p] \in Nat
  BY BatchSize, NextIsNat
<1>4. Passed \subseteq Passed' /\ applied' \subseteq Passed'
  BY <1>1 DEF Passed
<1>5. \A q \in Partition : \A j \in DOMAIN LsnAt[q] :
        j <= next'[q] \/ j <= committed'[q] => LsnAt[q][j] \in Passed'
  BY <1>1, <1>2, <1>3, <1>4, PolledIsPassed
<1>6. ReachedIn(Passed', LsnAt[p][i])
  <2>1. DOMAIN LsnAt[p] = 1 .. Len(LsnAt[p]) /\ Len(LsnAt[p]) \in Nat
    BY CheckpointAssumption, LenProperties
  <2>2. next'[p] = next[p] + n
    BY <1>1 DEF TypeOK
  <2>3. i \in next[p] + 1 .. next[p] + n /\ i \in 1 .. Len(LsnAt[p])
    BY <1>1, <2>1
  <2>4. \A j \in 1 .. i : j \in 1 .. Len(LsnAt[p]) /\ j <= next[p] + n
    BY ONLY <1>3, <2>1, <2>3
  <2>5. \A j \in 1 .. i : LsnAt[p][j] \in Passed'
    BY <1>5, <2>1, <2>2, <2>4
  <2> QED  BY <2>5 DEF ReachedIn
<1>7. \A q \in Replica : hand'[q].lsn = IF q = r THEN LsnAt[p][i] ELSE hand[q].lsn
  BY <1>1 DEF TypeOK
<1>8. \A l : ReachedIn(Passed, l) => ReachedIn(Passed', l)
  BY <1>4, ReachedGrows
<1>9. \A q \in Replica : ReachedIn(Passed', hand'[q].lsn)
  BY <1>6, <1>7, <1>8 DEF AnchorInv
<1>10. /\ ReachedIn(Passed', doc.lsn)
       /\ \A s \in late : ReachedIn(Passed', s.lsn)
       /\ \A q \in Replica : ReachedIn(Passed', maxLSN[q])
       /\ \A q \in Replica, f \in Flusher : ReachedIn(Passed', snap[q][f].lsn)
  BY <1>8 DEF AnchorInv
<1> QED  BY <1>2, <1>5, <1>9, <1>10 DEF AnchorInv, ReachedIn

\* A batch that failed is passed too.
LEMMA AnchorFails ==
  ASSUME TypeOK, AnchorInv, NEW r \in Replica, NEW p \in Partition, ApplyFails(r, p)
  PROVE  AnchorInv'
<1>1. PICK n \in 1 .. MaxBatch :
        /\ next' = [next EXCEPT ![p] = next[p] + n]
        /\ \A j \in next[p] + 1 .. next[p] + n : LsnAt[p][j] \in givenUp'
        /\ applied \subseteq applied' /\ givenUp \subseteq givenUp'
  BY ApplyFailsLeaves
<1>2. UNCHANGED <<hand, committed, maxLSN, snap, doc, late>>
  BY DEF ApplyFails, markVars, docVars
<1>3. n \in Nat
  BY BatchSize
<1>4. Passed \subseteq Passed' /\ givenUp' \subseteq Passed'
  BY <1>1 DEF Passed
<1>5. \A q \in Partition : \A j \in DOMAIN LsnAt[q] :
        j <= next'[q] \/ j <= committed'[q] => LsnAt[q][j] \in Passed'
  BY <1>1, <1>2, <1>3, <1>4, PolledIsPassed
<1>6. \A l : ReachedIn(Passed, l) => ReachedIn(Passed', l)
  BY <1>4, ReachedGrows
<1>7. /\ ReachedIn(Passed', doc.lsn)
      /\ \A s \in late : ReachedIn(Passed', s.lsn)
      /\ \A q \in Replica : ReachedIn(Passed', maxLSN[q]) /\ ReachedIn(Passed', hand[q].lsn)
      /\ \A q \in Replica, f \in Flusher : ReachedIn(Passed', snap[q][f].lsn)
  BY <1>6 DEF AnchorInv
<1> QED  BY <1>2, <1>5, <1>7 DEF AnchorInv, ReachedIn

\* A step that passes nothing keeps the anchor honest if every LSN it stores
\* was on its way already, and every offset it starts from was in use.
LEMMA AnchorMoves ==
  ASSUME AnchorInv, UNCHANGED <<applied, givenUp>>,
         ReachedIn(Passed, doc'.lsn),
         \A s \in late' : ReachedIn(Passed, s.lsn),
         \A r \in Replica : ReachedIn(Passed, maxLSN'[r]) /\ ReachedIn(Passed, hand'[r].lsn),
         \A r \in Replica, f \in Flusher : ReachedIn(Passed, snap'[r][f].lsn),
         \A p \in Partition : /\ next'[p] \in {next[p], committed[p]}
                              /\ committed'[p] \in {next[p], committed[p]}
  PROVE  AnchorInv'
BY DEF AnchorInv, ReachedIn, Passed

\* So does every step.
LEMMA AnchorStep == TypeOK /\ AnchorInv /\ [Next]_vars => AnchorInv'
<1> SUFFICES ASSUME TypeOK, AnchorInv, [Next]_vars PROVE AnchorInv'
  OBVIOUS
<1>0. NoSnapshot.lsn = 0 /\ NoBatch.lsn = 0 /\ ReachedIn(Passed, 0)
  BY ZeroIsReached DEF NoSnapshot, NoBatch
<1>1. ASSUME NEW s \in late, LateUpdate(s) PROVE AnchorInv'
  BY <1>1, AnchorMoves DEF LateUpdate, loopVars, markVars, AnchorInv
<1>2. ASSUME NEW r \in Replica, NEW p \in Partition, ApplyBatch(r, p) PROVE AnchorInv'
  BY <1>2, AnchorApply
<1>10. ASSUME NEW r \in Replica, NEW p \in Partition, ApplyFails(r, p) PROVE AnchorInv'
  BY <1>10, AnchorFails
<1>11. ASSUME NEW r \in Replica, ApplyBlocks(r) PROVE AnchorInv'
  BY <1>11, AnchorMoves DEF ApplyBlocks, markVars, docVars, AnchorInv
<1>12. ASSUME NEW r \in Replica, LoopTimesOut(r) \/ FinalFlush(r) PROVE AnchorInv'
  <2>1. Return(r)
    BY <1>12 DEF LoopTimesOut, FinalFlush
  <2>2. \A q \in Replica : hand'[q] = hand[q] \/ hand'[q] = NoBatch
    BY <2>1 DEF Return, TypeOK
  <2>3. UNCHANGED <<doc, late, maxLSN, snap, next, committed, applied, givenUp>>
    BY <2>1 DEF Return, markVars, docVars
  <2> QED  BY <1>0, <2>2, <2>3, AnchorMoves DEF AnchorInv
<1>3. ASSUME NEW r \in Replica, Mark(r) PROVE AnchorInv'
  <2>1. CASE MarkLsn(r)
    <3>1. \A q \in Replica : maxLSN'[q] = maxLSN[q] \/ maxLSN'[q] = hand[q].lsn
      BY <2>1 DEF MarkLsn, NewMax, TypeOK
    <3> QED  BY <2>1, <3>1, AnchorMoves DEF MarkLsn, docVars, AnchorInv
  <2>2. CASE MarkCount(r) \/ MarkDirty(r)
    BY <2>2, AnchorMoves DEF MarkCount, MarkDirty, docVars, AnchorInv
  <2>3. CASE Commit(r)
    <3>1. \A p \in Partition : committed'[p] \in {next[p], committed[p]}
      BY <2>3 DEF Commit, TypeOK
    <3>2. \A q \in Replica : hand'[q] = hand[q] \/ hand'[q] = NoBatch
      BY <2>3 DEF Commit, TypeOK
    <3>3. UNCHANGED <<doc, late, maxLSN, snap, next, applied, givenUp>>
      BY <2>3 DEF Commit, markVars, docVars
    <3> QED  BY <1>0, <3>1, <3>2, <3>3, AnchorMoves DEF AnchorInv
  <2> QED  BY <1>3, <2>1, <2>2, <2>3 DEF Mark
<1>4. ASSUME NEW r \in Replica, Tick(r) \/ TickUnheard(r) PROVE AnchorInv'
  BY <1>4, AnchorMoves DEF Tick, TickUnheard, loopVars, markVars, docVars, AnchorInv
<1>5. ASSUME NEW r \in Replica, NEW f \in Flusher, Flush(r, f) \/ FlushFails(r, f) PROVE AnchorInv'
  <2>0. UNCHANGED <<maxLSN, hand, next, committed, applied, givenUp>>
    BY <1>5 DEF Flush, FlushFails, LoadLsn, LoadCount, Update, Clear, UpdateError,
                UpdateTimeout, loopVars, markVars
  <2>1. CASE LoadLsn(r, f)
    <3>1. \A q \in Replica, g \in Flusher :
            snap'[q][g].lsn = IF q = r /\ g = f THEN maxLSN[r] ELSE snap[q][g].lsn
      BY <2>1, LoadLsnSnap
    <3>2. UNCHANGED <<doc, late>>
      BY <2>1 DEF LoadLsn, docVars
    <3> QED  BY <2>0, <3>1, <3>2, AnchorMoves DEF AnchorInv
  <2>2. CASE LoadCount(r, f)
    <3>1. \A q \in Replica, g \in Flusher : snap'[q][g].lsn = snap[q][g].lsn
      BY <2>2, LoadCountSnap
    <3>2. UNCHANGED <<doc, late>>
      BY <2>2 DEF LoadCount, docVars
    <3> QED  BY <2>0, <3>1, <3>2, AnchorMoves DEF AnchorInv
  <2>3. CASE Clear(r, f)
    <3>1. UNCHANGED <<doc, late, snap>>
      BY <2>3 DEF Clear, docVars
    <3> QED  BY <2>0, <3>1, AnchorMoves DEF AnchorInv
  <2>4. CASE Update(r, f) \/ UpdateError(r, f) \/ UpdateTimeout(r, f)
    <3>1. \A q \in Replica, g \in Flusher :
            snap'[q][g] = IF q = r /\ g = f THEN NoSnapshot ELSE snap[q][g]
      BY <2>4, DropSnapshotSnap DEF Update, UpdateError, UpdateTimeout
    <3>2. doc' = doc \/ doc' = snap[r][f]
      BY <2>4 DEF Update, UpdateError, UpdateTimeout, docVars
    <3>3. \A s \in late' : s \in late \/ s = snap[r][f]
      BY <2>4 DEF Update, UpdateError, UpdateTimeout, docVars
    <3> QED  BY <1>0, <2>0, <3>1, <3>2, <3>3, AnchorMoves DEF AnchorInv
  <2> QED  BY <1>5, <2>1, <2>2, <2>3, <2>4 DEF Flush, FlushFails
<1>6. ASSUME NEW r \in Replica, Stop(r) \/ RunReturns(r) PROVE AnchorInv'
  BY <1>6, AnchorMoves DEF Stop, RunReturns, loopVars, markVars, docVars, AnchorInv
<1>7. ASSUME NEW r \in Replica, Exit(r) \/ Kill(r) PROVE AnchorInv'
  <2>1. GoDown(r)
    BY <1>7 DEF Exit, Kill
  <2>2. /\ \A q \in Replica, g \in Flusher :
             snap'[q][g] = IF q = r THEN NoSnapshot ELSE snap[q][g]
        /\ \A s \in late' : s \in late \/ \E g \in Flusher : s = snap[r][g]
    BY <2>1, GoDownLeaves
  <2>3. UNCHANGED <<doc, maxLSN, hand, next, committed, applied, givenUp>>
    BY <2>1 DEF GoDown, loopVars, markVars
  <2> QED  BY <1>0, <2>2, <2>3, AnchorMoves DEF AnchorInv
<1>8. ASSUME NEW r \in Replica, Restart(r) PROVE AnchorInv'
  <2>1. \A q \in Replica : hand'[q] = hand[q] \/ hand'[q] = NoBatch
    BY <1>8 DEF Restart, TypeOK
  <2>2. \A q \in Replica : maxLSN'[q] = maxLSN[q] \/ maxLSN'[q] = 0
    BY <1>8 DEF Restart, TypeOK
  <2>3. \A p \in Partition : next'[p] \in {next[p], committed[p]}
    BY <1>8 DEF Restart
  <2>4. UNCHANGED <<doc, late, snap, committed, applied, givenUp>>
    BY <1>8 DEF Restart, docVars
  <2> QED  BY <1>0, <2>1, <2>2, <2>3, <2>4, AnchorMoves DEF AnchorInv
<1>9. CASE UNCHANGED vars
  BY <1>9 DEF vars, loopVars, markVars, docVars, AnchorInv, ReachedIn, Passed
<1> QED
  BY <1>1, <1>2, <1>3, <1>4, <1>5, <1>6, <1>7, <1>8, <1>9, <1>10, <1>11, <1>12
  DEF Next, Shutdown

\* Whatever the number of replicas, partitions, failed batches, restarts,
\* timeouts and late updates, lastLSN is that of an event the loop has come to.
THEOREM AnchorNamesWhatWasReached == Spec => []AnchorIsReached
<1>1. Init => TypeOK /\ AnchorInv
  BY InitType, AnchorInit
<1>2. TypeOK /\ AnchorInv /\ [Next]_vars => (TypeOK /\ AnchorInv)'
  BY NextType, AnchorStep
<1>3. AnchorInv => AnchorIsReached
  BY DEF AnchorInv, AnchorIsReached, ReachedIn, Passed
<1> QED  BY <1>1, <1>2, <1>3, PTL DEF Spec
=============================================================================
