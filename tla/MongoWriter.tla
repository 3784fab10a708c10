---------------------------- MODULE MongoWriter ----------------------------
(***************************************************************************)
(* One ApplyBatch of sink/internal/writer/mongo_writer.go, followed by the *)
(* redelivery of the same batch: grouping by collection, one unordered     *)
(* BulkWrite per collection in map order, the E11000 rule of               *)
(* allDuplicateKey, and the idempotent-skip counter.                       *)
(*                                                                         *)
(* Mongo itself is external and modelled from what the code relies on: an  *)
(* unordered bulk runs its models in any order and reports every failed    *)
(* one; a network or server error may stop it anywhere; a write that the   *)
(* majority did not confirm is reported as a WriteConcernError next to the *)
(* per-model errors.                                                       *)
(***************************************************************************)
EXTENDS LsnGate, Sequences, FiniteSets

CONSTANTS
  Key,        \* document ids
  TableOf,    \* the collection of a key
  NoTable,    \* "no BulkWrite running"
  Ops,        \* the change kinds in a batch
  MaxLsn,     \* bound: LSNs in a batch and in the initial documents
  MaxBatch,   \* bound: events in a batch
  Errors      \* what a BulkWrite may run into: "server", "writeConcern"

ASSUME WriterAssumption ==
  /\ NoTable \notin {TableOf[k] : k \in Key}
  /\ Ops \subseteq CDCOp
  /\ MaxLsn \in Lsn
  /\ MaxBatch \in Nat
  /\ Errors \subseteq {"server", "writeConcern"}

VARIABLES
  docs,      \* key -> document
  evs,       \* the batch, as the decoder hands it over
  status,    \* "idle", "writing", "ok" (nil returned) or "failed"
  attempt,   \* "first" delivery, "retry" after an error, "replay" after a nil
  todo,      \* indices of the events not written yet
  table,     \* collection whose BulkWrite is running
  result,    \* counts of the running BulkWrite
  skipped,   \* migration_idempotent_skip_total of this attempt
  noops,     \* history: events of this attempt that changed nothing
  unsafe,    \* history: a write of this attempt missed its write concern
  before     \* history: the documents when this attempt started

vars == <<docs, evs, status, attempt, todo, table, result, skipped, noops,
          unsafe, before>>

\* A non-delete event without after-image exists to exercise BuildWriteOp.
Events ==
  {e \in [op : Ops, after : BOOLEAN, key : Key, lsn : 1 .. MaxLsn] :
     e.op = "d" => ~e.after}

\* A partition delivers the events of one row in LSN order.
InSourceOrder(s) ==
  \A i, j \in DOMAIN s : i < j /\ s[i].key = s[j].key => s[i].lsn < s[j].lsn

Batches ==
  {s \in UNION {[1 .. n -> Events] : n \in 1 .. MaxBatch} : InSourceOrder(s)}

NoResult == [matched |-> 0, upserted |-> 0, deleted |-> 0, duplicate |-> 0]

Init ==
  /\ docs \in [Key -> {Absent, NoLsn} \cup 1 .. MaxLsn]
  /\ evs \in Batches
  /\ status = "idle"
  /\ attempt = "first"
  /\ todo = {}
  /\ table = NoTable
  /\ result = NoResult
  /\ skipped = 0
  /\ noops = 0
  /\ unsafe = FALSE
  /\ before = docs

\* Mutant: the models are numbered from 0.
OpsFromZero == 0 .. Len(evs) - 1

\* The models ApplyBatch will write.
WriteOps == DOMAIN evs

\* The events BuildWriteOp fails on.
Unbuildable == {i \in DOMAIN evs : BuildFails(evs[i])}

\* ApplyBatch builds every WriteOp before it writes anything; one that cannot
\* be built fails the whole batch.
BuildOps ==
  /\ status = "idle"
  /\ \/ /\ Unbuildable # {}
        /\ status' = "failed"
        /\ UNCHANGED todo
     \/ /\ Unbuildable = {}
        /\ status' = "writing"
        /\ todo' = WriteOps
  /\ UNCHANGED <<docs, evs, attempt, table, result, skipped, noops, unsafe, before>>

\* The next collection of byColl.
StartBulk ==
  /\ status = "writing"
  /\ table = NoTable
  /\ \E i \in todo : table' = TableOf[evs[i].key]
  /\ result' = NoResult
  /\ UNCHANGED <<docs, evs, status, attempt, todo, skipped, noops, unsafe, before>>

Models(t) == {i \in DOMAIN evs : TableOf[evs[i].key] = t}

\* Mongo runs one model of the bulk.
RunModel(i) ==
  /\ status = "writing"
  /\ i \in todo
  /\ TableOf[evs[i].key] = table
  /\ LET out == Outcome(evs[i], docs[evs[i].key]) IN
       /\ result' = [f \in DOMAIN result |-> result[f] + (IF f = out THEN 1 ELSE 0)]
       /\ noops' = noops + (IF out \in {"duplicate", "unmatched"} THEN 1 ELSE 0)
  /\ docs' = [docs EXCEPT ![evs[i].key] = Effect(evs[i], @)]
  /\ todo' = todo \ {i}
  /\ UNCHANGED <<evs, status, attempt, table, skipped, unsafe, before>>

Acked == result.matched + result.upserted + result.deleted

\* The models of the running bulk that no counter accounts for.
Unacked ==
  IF Acked < Cardinality(Models(table)) THEN Cardinality(Models(table)) - Acked ELSE 0

\* Mutant: a bulk that ran into E11000 counts no skip.
SkipsWithoutDuplicates == IF result.duplicate > 0 THEN 0 ELSE Unacked

\* What recordSkip is told: the whole bulk if any model got E11000.
Skips == IF result.duplicate > 0 THEN Cardinality(Models(table)) ELSE Unacked

\* Mutant: write concern errors are ignored.
BulkNeverFails(wce) == FALSE

\* allDuplicateKey looks at the per-model errors only: a write concern error
\* is an error of the bulk unless E11000 errors stand next to it.
BulkFails(wce) == wce /\ result.duplicate = 0

\* The bulk is over.  Per-model errors that are all E11000 count as success
\* and the whole bulk as skipped; otherwise the counters say what was skipped.
EndBulk(wce) ==
  /\ status = "writing"
  /\ table # NoTable
  /\ todo \cap Models(table) = {}
  /\ wce => "writeConcern" \in Errors
  /\ unsafe' = (unsafe \/ wce)
  /\ IF BulkFails(wce)
     THEN /\ status' = "failed"
          /\ UNCHANGED skipped
     ELSE /\ skipped' = skipped + Skips
          /\ status' = IF todo = {} THEN "ok" ELSE "writing"
  /\ table' = NoTable
  /\ UNCHANGED <<docs, evs, attempt, todo, result, noops, before>>

\* A network or server error: the rest of the bulk may not have run, the
\* remaining collections are not written, ApplyBatch returns the error.
BulkError ==
  /\ "server" \in Errors
  /\ status = "writing"
  /\ table # NoTable
  /\ status' = "failed"
  /\ table' = NoTable
  /\ UNCHANGED <<docs, evs, attempt, todo, result, skipped, noops, unsafe, before>>

\* The batch is delivered again: after an error, or because the offsets were
\* not committed before a restart.
Redeliver ==
  /\ status \in {"ok", "failed"}
  /\ attempt = "first"
  /\ attempt' = IF status = "ok" THEN "replay" ELSE "retry"
  /\ status' = "idle"
  /\ before' = docs
  /\ todo' = {}
  /\ skipped' = 0
  /\ noops' = 0
  /\ unsafe' = FALSE
  /\ UNCHANGED <<docs, evs, table, result>>

Next ==
  \/ BuildOps \/ StartBulk \/ BulkError \/ Redeliver
  \/ \E i \in todo : RunModel(i)
  \/ \E wce \in BOOLEAN : EndBulk(wce)

Spec == Init /\ [][Next]_vars

-----------------------------------------------------------------------------
(* Correctness.                                                            *)

TypeOK ==
  /\ docs \in [Key -> Doc] /\ before \in [Key -> Doc]
  /\ evs \in Batches
  /\ status \in {"idle", "writing", "ok", "failed"}
  /\ attempt \in {"first", "retry", "replay"}
  /\ todo \subseteq DOMAIN evs
  /\ table \in {TableOf[k] : k \in Key} \cup {NoTable}
  /\ result \in [{"matched", "upserted", "deleted", "duplicate"} -> Nat]
  /\ skipped \in Nat /\ noops \in Nat
  /\ unsafe \in BOOLEAN

EventsFor(k) == {i \in DOMAIN evs : evs[i].key = k}
UpsertOnly(k) == \A i \in EventsFor(k) : evs[i].op # "d"

\* ApplyBatch returned nil: every row without a delete in the batch holds the
\* newest of its old image and the images of the batch, whatever order the
\* unordered BulkWrite ran them in and whichever of them got E11000.
NewestImageWins ==
  status = "ok" =>
    \A k \in Key : UpsertOnly(k) =>
      /\ docs[k] >= before[k]
      /\ \A i \in EventsFor(k) : docs[k] >= evs[i].lsn
      /\ docs[k] \in {before[k]} \cup {evs[i].lsn : i \in EventsFor(k)}

\* The redelivery of a batch without deletes, after ApplyBatch returned nil
\* for it, changes nothing at any moment.
ReplayOfUpsertsIsNoOp ==
  attempt = "replay" /\ (\A k \in Key : UpsertOnly(k)) => docs = before

\* migration_idempotent_skip_total never misses an event that was a no-op.
SkipsNeverUndercount == status = "ok" => skipped >= noops

\* ApplyBatch returns nil although the majority did not confirm a write only
\* where E11000 errors hid the write concern error from allDuplicateKey.
ConfirmedUnlessDuplicate == status = "ok" /\ unsafe => noops > 0
=============================================================================
