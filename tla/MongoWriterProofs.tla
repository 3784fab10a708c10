------------------------- MODULE MongoWriterProofs -------------------------
(***************************************************************************)
(* Proofs about MongoWriter for every set of documents and collections,    *)
(* every batch and every error.                                            *)
(***************************************************************************)
EXTENDS MongoWriter, FiniteSetTheorems, TLAPS

-----------------------------------------------------------------------------
(* The inductive invariant.                                                *)

\* What each phase of ApplyBatch leaves behind.
PhaseInv ==
  /\ status # "writing" => table = NoTable
  /\ status = "ok" => todo = {}
  /\ status = "idle" => noops = 0 /\ skipped = 0 /\ ~unsafe

\* A row without a delete in the batch has an image of its own, never an older
\* one than before; the events that were written are reflected in it, and when
\* the batch is replayed all of them are.
ImageInv ==
  \A k \in Key : UpsertOnly(k) =>
    /\ docs[k] >= before[k]
    /\ docs[k] \in {before[k]} \cup {evs[i].lsn : i \in EventsFor(k)}
    /\ status \in {"writing", "ok"} => \A i \in EventsFor(k) \ todo : docs[k] >= evs[i].lsn
    /\ attempt = "replay" =>
         docs[k] = before[k] /\ \A i \in EventsFor(k) : docs[k] >= evs[i].lsn

\* The models of the running bulk that Mongo has run.
Ran == Models(table) \ todo

\* No-ops are skips already counted, or models of the running bulk that no
\* result counter acknowledged.
CountInv ==
  status \in {"writing", "ok"} =>
    /\ noops <= skipped + (IF table = NoTable THEN 0 ELSE Cardinality(Ran) - Acked)
    /\ table # NoTable /\ result.duplicate > 0 => noops > 0
    /\ unsafe => noops > 0

WriterInv == TypeOK /\ PhaseInv /\ ImageInv /\ CountInv

-----------------------------------------------------------------------------
(* Lemmas about the operators.                                             *)

\* The gate on an upsert: the newer of the event and the document stays.
LEMMA UpsertKeepsNewest ==
  ASSUME NEW e, e.lsn \in Lsn, e.op # "d", NEW d \in Doc
  PROVE  /\ Effect(e, d) \in {d, e.lsn}
         /\ Effect(e, d) >= d /\ Effect(e, d) >= e.lsn
         /\ d >= e.lsn => Effect(e, d) = d
         /\ Outcome(e, d) \in {"matched", "upserted", "duplicate"}
BY DEF Effect, Outcome, UpsertMatches, Lsn, Doc, Absent, NoLsn

\* A delete leaves the document or removes it.
LEMMA DeleteRemovesOrLeaves ==
  ASSUME NEW e, e.op = "d", NEW d \in Doc
  PROVE  /\ Effect(e, d) \in {d, Absent}
         /\ Outcome(e, d) \in {"deleted", "unmatched"}
BY DEF Effect, Outcome, DeleteMatches

\* A batch is a finite sequence of events.
LEMMA BatchEvents ==
  ASSUME TypeOK
  PROVE  /\ IsFiniteSet(DOMAIN evs)
         /\ \A i \in DOMAIN evs : evs[i].key \in Key /\ evs[i].lsn \in Lsn
<1>1. PICK n \in 1 .. MaxBatch : evs \in [1 .. n -> Events]
  BY DEF TypeOK, Batches
<1>2. n \in Int /\ DOMAIN evs = 1 .. n
  BY <1>1, WriterAssumption
<1>3. IsFiniteSet(1 .. n)
  BY <1>2, FS_Interval
<1>4. \A i \in DOMAIN evs : evs[i] \in Events
  BY <1>1, <1>2
<1>5. \A e \in Events : e.key \in Key /\ e.lsn \in Lsn
  BY WriterAssumption DEF Events, Lsn
<1> QED  BY <1>2, <1>3, <1>4, <1>5

-----------------------------------------------------------------------------
\* The invariant holds of every batch that has just arrived.
LEMMA InitInv == Init => WriterInv
<1> SUFFICES ASSUME Init PROVE WriterInv
  OBVIOUS
<1>1. TypeOK
  <2>1. docs \in [Key -> Doc]
    BY WriterAssumption DEF Init, Doc, Lsn
  <2>2. NoResult \in [{"matched", "upserted", "deleted", "duplicate"} -> Nat]
    BY DEF NoResult
  <2> QED  BY <2>1, <2>2 DEF Init, TypeOK
<1>2. PhaseInv /\ CountInv
  BY DEF Init, PhaseInv, CountInv
<1>3. ImageInv
  BY <1>1 DEF Init, ImageInv, TypeOK, Doc, Lsn, Absent, NoLsn
<1> QED  BY <1>1, <1>2, <1>3 DEF WriterInv

-----------------------------------------------------------------------------
(* Each step keeps the invariant.                                          *)

\* The build loop, failed or not, keeps the invariant.
LEMMA BuildOpsInv ==
  ASSUME WriterInv, BuildOps
  PROVE  WriterInv'
<1> USE DEF WriterInv
<1>1. /\ UNCHANGED <<docs, evs, attempt, table, result, skipped, noops, unsafe, before>>
      /\ status = "idle"
      /\ status' \in {"writing", "failed"}
      /\ status' = "writing" => todo' = DOMAIN evs
      /\ status' = "failed" => todo' = todo
  BY DEF BuildOps, WriteOps
<1>2. TypeOK'
  BY <1>1 DEF TypeOK
<1>3. PhaseInv'
  BY <1>1 DEF PhaseInv
<1>4. ImageInv'
  BY <1>1 DEF ImageInv, UpsertOnly, EventsFor
<1>6. CountInv'
  BY <1>1 DEF CountInv, PhaseInv, Ran, Acked, Models
<1> QED  BY <1>2, <1>3, <1>4, <1>6

\* The start of a BulkWrite keeps the invariant.
LEMMA StartBulkInv ==
  ASSUME WriterInv, StartBulk
  PROVE  WriterInv'
<1> USE DEF WriterInv
<1>1. /\ UNCHANGED <<docs, evs, status, attempt, todo, skipped, noops, unsafe, before>>
      /\ status = "writing" /\ table = NoTable /\ result' = NoResult
      /\ \E i \in todo : table' = TableOf[evs[i].key]
  BY DEF StartBulk
<1>2. TypeOK'
  <2>1. NoResult \in [{"matched", "upserted", "deleted", "duplicate"} -> Nat]
    BY DEF NoResult
  <2>2. table' \in {TableOf[k] : k \in Key}
    BY <1>1, BatchEvents DEF TypeOK
  <2> QED  BY <1>1, <2>1, <2>2 DEF TypeOK
<1>3. PhaseInv'
  BY <1>1 DEF PhaseInv
<1>4. ImageInv'
  BY <1>1 DEF ImageInv, UpsertOnly, EventsFor
<1>5. CountInv'
  <2>1. Acked' = 0 /\ result'.duplicate = 0
    BY <1>1 DEF Acked, NoResult
  <2>2. Ran' \subseteq DOMAIN evs
    BY <1>1 DEF Ran, Models
  <2>3. Cardinality(Ran') \in Nat
    BY <2>2, BatchEvents, FS_Subset, FS_CardinalityType
  <2>4. noops \in Nat /\ skipped \in Nat /\ noops <= skipped
    BY <1>1 DEF TypeOK, CountInv
  <2> QED  BY <1>1, <2>1, <2>3, <2>4 DEF CountInv
<1> QED  BY <1>2, <1>3, <1>4, <1>5

\* Mongo runs a model: the row it is for, and one count.
LEMMA RunModelInv ==
  ASSUME WriterInv, NEW i \in todo, RunModel(i)
  PROVE  WriterInv'
<1> USE DEF WriterInv
<1> DEFINE e == evs[i]
           k0 == e.key
           out == Outcome(e, docs[k0])
<1>1. /\ UNCHANGED <<evs, status, attempt, table, skipped, unsafe, before>>
      /\ status = "writing" /\ TableOf[k0] = table
      /\ result' = [f \in DOMAIN result |-> result[f] + (IF f = out THEN 1 ELSE 0)]
      /\ noops' = noops + (IF out \in {"duplicate", "unmatched"} THEN 1 ELSE 0)
      /\ docs' = [docs EXCEPT ![k0] = Effect(e, docs[k0])]
      /\ todo' = todo \ {i}
  BY DEF RunModel
<1>2. i \in DOMAIN evs /\ k0 \in Key /\ e.lsn \in Lsn /\ docs[k0] \in Doc
  BY BatchEvents DEF TypeOK
<1>3. /\ Effect(e, docs[k0]) \in {docs[k0], e.lsn, Absent}
      /\ out \in {"matched", "upserted", "duplicate", "deleted", "unmatched"}
  BY <1>2, UpsertKeepsNewest, DeleteRemovesOrLeaves
<1>4. table # NoTable
  BY <1>1, <1>2, WriterAssumption
<1> HIDE DEF e, k0, out
<1>5. TypeOK'
  <2>1. docs' \in [Key -> Doc]
    BY <1>1, <1>2, <1>3 DEF TypeOK, Doc
  <2>2. result' \in [{"matched", "upserted", "deleted", "duplicate"} -> Nat]
    BY <1>1 DEF TypeOK
  <2> QED  BY <1>1, <2>1, <2>2 DEF TypeOK
<1>6. PhaseInv'
  BY <1>1 DEF PhaseInv
<1>7. ImageInv'
  <2> SUFFICES ASSUME NEW k \in Key, UpsertOnly(k)
               PROVE  /\ docs'[k] >= before[k]
                      /\ docs'[k] \in {before[k]} \cup {evs[j].lsn : j \in EventsFor(k)}
                      /\ \A j \in EventsFor(k) \ (todo \ {i}) : docs'[k] >= evs[j].lsn
                      /\ attempt = "replay" =>
                           docs'[k] = before[k] /\ \A j \in EventsFor(k) : docs'[k] >= evs[j].lsn
    BY <1>1 DEF ImageInv, UpsertOnly, EventsFor
  <2>1. /\ docs[k] >= before[k]
        /\ docs[k] \in {before[k]} \cup {evs[j].lsn : j \in EventsFor(k)}
        /\ \A j \in EventsFor(k) \ todo : docs[k] >= evs[j].lsn
        /\ attempt = "replay" =>
             docs[k] = before[k] /\ \A j \in EventsFor(k) : docs[k] >= evs[j].lsn
    BY <1>1 DEF ImageInv
  <2>2. CASE k # k0
    <3>1. docs'[k] = docs[k] /\ i \notin EventsFor(k)
      BY <1>1, <2>2 DEF TypeOK, EventsFor, k0, e
    <3> QED  BY <2>1, <3>1
  <2>3. CASE k = k0
    <3>1. i \in EventsFor(k) /\ e.op # "d" /\ e = evs[i]
      BY <1>2, <2>3 DEF UpsertOnly, EventsFor, k0, e
    <3>2. docs'[k] = Effect(e, docs[k])
      BY <1>1, <2>3 DEF TypeOK
    <3>3. /\ docs'[k] \in {docs[k], e.lsn}
          /\ docs'[k] >= docs[k] /\ docs'[k] >= e.lsn
          /\ docs[k] >= e.lsn => docs'[k] = docs[k]
      BY <1>2, <2>3, <3>1, <3>2, UpsertKeepsNewest
    <3>4. docs'[k] \in Int /\ docs[k] \in Int /\ before[k] \in Int
      BY <1>5 DEF TypeOK, Doc, Lsn, Absent, NoLsn
    <3>5. \A j \in DOMAIN evs : evs[j].lsn \in Int
      BY BatchEvents DEF Lsn
    <3>6. docs'[k] \in {before[k]} \cup {evs[j].lsn : j \in EventsFor(k)}
      BY <2>1, <3>1, <3>3
    <3>7. \A j \in EventsFor(k) \ (todo \ {i}) : docs'[k] >= evs[j].lsn
      <4> SUFFICES ASSUME NEW j \in EventsFor(k), j \notin todo \/ j = i
                   PROVE  docs'[k] >= evs[j].lsn
        OBVIOUS
      <4>1. CASE j = i
        BY <3>1, <3>3, <4>1
      <4>2. CASE j \notin todo
        BY <2>1, <3>3, <3>4, <3>5, <4>2 DEF EventsFor
      <4> QED  BY <4>1, <4>2
    <3>8. attempt = "replay" => docs'[k] = docs[k]
      BY <2>1, <3>1, <3>3
    <3> QED  BY <2>1, <3>3, <3>4, <3>6, <3>7, <3>8
  <2> QED  BY <2>2, <2>3
<1>9. CountInv'
  <2>1. noops \in Nat /\ skipped \in Nat /\ result.duplicate \in Nat
    BY DEF TypeOK
  <2>2. Cardinality(Ran') = Cardinality(Ran) + 1 /\ Cardinality(Ran) \in Nat
    <3>1. Ran' = Ran \cup {i} /\ i \notin Ran
      BY <1>1, <1>2 DEF Ran, Models, k0, e
    <3>2. Ran \subseteq DOMAIN evs
      BY DEF Ran, Models
    <3>3. IsFiniteSet(Ran)
      BY <3>2, BatchEvents, FS_Subset
    <3> QED  BY <3>1, <3>3, FS_AddElement, FS_CardinalityType
  <2>3. /\ Acked \in Nat
        /\ Acked' = Acked + (IF out \in {"matched", "upserted", "deleted"} THEN 1 ELSE 0)
        /\ result'.duplicate = result.duplicate + (IF out = "duplicate" THEN 1 ELSE 0)
    BY <1>1, <1>3 DEF Acked, TypeOK
  <2>4. /\ noops <= skipped + (Cardinality(Ran) - Acked)
        /\ result.duplicate > 0 => noops > 0
        /\ unsafe => noops > 0
    BY <1>1, <1>4 DEF CountInv
  <2> QED  BY <1>1, <1>3, <1>4, <2>1, <2>2, <2>3, <2>4 DEF CountInv
<1> QED  BY <1>5, <1>6, <1>7, <1>9

\* The end of a bulk: what the counters did not acknowledge is skipped.
LEMMA EndBulkInv ==
  ASSUME WriterInv, NEW wce \in BOOLEAN, EndBulk(wce)
  PROVE  WriterInv'
<1> USE DEF WriterInv
<1>1. /\ UNCHANGED <<docs, evs, attempt, todo, result, noops, before>>
      /\ status = "writing" /\ table # NoTable /\ table' = NoTable
      /\ todo \cap Models(table) = {}
      /\ unsafe' = (unsafe \/ wce)
      /\ status' \in {"writing", "ok", "failed"}
      /\ status' = "failed" => skipped' = skipped
      /\ status' # "failed" => skipped' = skipped + Skips /\ ~BulkFails(wce)
      /\ status' = "ok" => todo = {}
  BY DEF EndBulk
<1>2. /\ Cardinality(Models(table)) \in Nat /\ Acked \in Nat
      /\ noops \in Nat /\ skipped \in Nat /\ result.duplicate \in Nat
  <2>1. Models(table) \subseteq DOMAIN evs
    BY DEF Models
  <2> QED  BY <2>1, BatchEvents, FS_Subset, FS_CardinalityType DEF TypeOK, Acked
<1>3. Skips \in Nat /\ Skips >= Cardinality(Models(table)) - Acked
  BY <1>2 DEF Skips, Unacked
<1>4. TypeOK'
  <2>1. skipped' \in Nat /\ unsafe' \in BOOLEAN
    BY <1>1, <1>2, <1>3 DEF TypeOK
  <2> QED  BY <1>1, <2>1 DEF TypeOK
<1>5. PhaseInv'
  BY <1>1 DEF PhaseInv
<1>6. ImageInv'
  BY <1>1 DEF ImageInv, UpsertOnly, EventsFor
<1>7. CountInv'
  <2>1. Ran = Models(table)
    BY <1>1 DEF Ran
  <2>2. /\ noops <= skipped + (Cardinality(Models(table)) - Acked)
        /\ result.duplicate > 0 => noops > 0
        /\ unsafe => noops > 0
    BY <1>1, <2>1 DEF CountInv
  <2>3. status' # "failed" => noops <= skipped'
    BY <1>1, <1>2, <1>3, <2>2
  <2>4. status' # "failed" /\ unsafe' => noops > 0
    BY <1>1, <1>2, <2>2 DEF BulkFails
  <2>5. status' # "failed" => noops' <= skipped' + 0
    BY <1>1, <1>2, <1>4, <2>3 DEF TypeOK
  <2>6. status' # "failed" => (unsafe' => noops' > 0)
    BY <1>1, <2>4
  <2> QED  BY <1>1, <2>5, <2>6, Zenon DEF CountInv
<1> QED  BY <1>4, <1>5, <1>6, <1>7

\* The error paths of a BulkWrite keep the invariant.
LEMMA BulkErrorInv ==
  ASSUME WriterInv, BulkError
  PROVE  WriterInv'
<1> USE DEF WriterInv
<1>1. /\ UNCHANGED <<docs, evs, attempt, todo, result, skipped, noops, unsafe, before>>
      /\ status = "writing" /\ status' = "failed" /\ table' = NoTable
  BY DEF BulkError
<1>2. TypeOK' /\ PhaseInv' /\ CountInv'
  BY <1>1 DEF TypeOK, PhaseInv, CountInv
<1>4. ImageInv'
  BY <1>1 DEF ImageInv, UpsertOnly, EventsFor
<1> QED  BY <1>2, <1>4

\* The second delivery starts from what the first one left.
LEMMA RedeliverInv ==
  ASSUME WriterInv, Redeliver
  PROVE  WriterInv'
<1> USE DEF WriterInv
<1>1. /\ UNCHANGED <<docs, evs, table, result>>
      /\ status \in {"ok", "failed"} /\ status' = "idle"
      /\ attempt' = IF status = "ok" THEN "replay" ELSE "retry"
      /\ before' = docs /\ todo' = {}
      /\ skipped' = 0 /\ noops' = 0 /\ unsafe' = FALSE
  BY DEF Redeliver
<1>2. TypeOK' /\ PhaseInv' /\ CountInv'
  BY <1>1 DEF TypeOK, PhaseInv, CountInv
<1>4. ImageInv'
  <2> SUFFICES ASSUME NEW k \in Key, UpsertOnly(k)
               PROVE  /\ docs[k] >= docs[k]
                      /\ attempt' = "replay" => \A i \in EventsFor(k) : docs[k] >= evs[i].lsn
    BY <1>1 DEF ImageInv, UpsertOnly, EventsFor
  <2>1. docs[k] \in Int
    BY DEF TypeOK, Doc, Lsn, Absent, NoLsn
  <2>2. attempt' = "replay" => status = "ok" /\ todo = {}
    BY <1>1 DEF PhaseInv
  <2> QED  BY <2>1, <2>2 DEF ImageInv
<1> QED  BY <1>2, <1>4

\* Every step of ApplyBatch and of the redelivery keeps the invariant.
LEMMA NextInv == WriterInv /\ [Next]_vars => WriterInv'
<1> SUFFICES ASSUME WriterInv, [Next]_vars PROVE WriterInv'
  OBVIOUS
<1>1. CASE UNCHANGED vars
  BY <1>1 DEF vars, WriterInv, TypeOK, PhaseInv, ImageInv, UpsertOnly, EventsFor,
              CountInv, Ran, Models, Acked
<1> QED  BY <1>1, BuildOpsInv, StartBulkInv, RunModelInv, EndBulkInv, BulkErrorInv, RedeliverInv
         DEF Next

\* The invariant holds in every state.
THEOREM Invariance == Spec => []WriterInv
<1>1. Init => WriterInv
  BY InitInv
<1>2. WriterInv /\ [Next]_vars => WriterInv'
  BY NextInv
<1> QED  BY <1>1, <1>2, PTL DEF Spec

-----------------------------------------------------------------------------
\* The variables of ApplyBatch keep their types.
THEOREM TypeCorrect == Spec => []TypeOK
<1>1. WriterInv => TypeOK
  BY DEF WriterInv
<1> QED  BY <1>1, Invariance, PTL

\* After ApplyBatch returned nil, a row without a delete in the batch holds the
\* newest of its images, whatever order the bulk ran in.
THEOREM NewestWins == Spec => []NewestImageWins
<1>1. WriterInv => NewestImageWins
  BY DEF WriterInv, PhaseInv, ImageInv, NewestImageWins
<1> QED  BY <1>1, Invariance, PTL

\* The replay of a batch of upserts changes no document.
THEOREM ReplayIsIdempotent == Spec => []ReplayOfUpsertsIsNoOp
<1>1. WriterInv => ReplayOfUpsertsIsNoOp
  BY DEF WriterInv, TypeOK, ImageInv, ReplayOfUpsertsIsNoOp
<1> QED  BY <1>1, Invariance, PTL

\* The skip counter misses no event that changed nothing.
THEOREM SkipsAreCounted == Spec => []SkipsNeverUndercount
<1>1. WriterInv => SkipsNeverUndercount
  BY DEF WriterInv, TypeOK, PhaseInv, CountInv, SkipsNeverUndercount
<1> QED  BY <1>1, Invariance, PTL

\* A nil of ApplyBatch hides a missed write concern only behind an E11000.
THEOREM WriteConcernIsReported == Spec => []ConfirmedUnlessDuplicate
<1>1. WriterInv => ConfirmedUnlessDuplicate
  BY DEF WriterInv, CountInv, ConfirmedUnlessDuplicate
<1> QED  BY <1>1, Invariance, PTL
=============================================================================
