------------------------------ MODULE LsnGate ------------------------------
(***************************************************************************)
(* The LSN gate of the sink: what one CDC event does to one Mongo          *)
(* document (sink/internal/writer/writer.go and adapter.go), and the       *)
(* Mongo semantics those filters rely on.                                  *)
(*                                                                         *)
(* A document is abstracted to its sourceLsn.  An upsert $sets the whole   *)
(* row image together with the LSN of the event that carries it, so the    *)
(* LSN identifies the image; schemaVersion is a per-process constant.      *)
(***************************************************************************)
EXTENDS Integers

\* No document with this _id.
Absent == -1

\* A document that has no sourceLsn field (not written by the sink).
NoLsn == 0

\* Postgres log positions.
Lsn == Nat \ {0}

\* The states of one document.
Doc == Lsn \cup {Absent, NoLsn}

\* The Debezium change kinds.
CDCOp == {"c", "u", "r", "d"}

\* Mutant: BuildWriteOp accepts an event without an after-image.
BuildNeverFails(ev) == FALSE

\* BuildWriteOp refuses a non-delete event that has no after-image.
BuildFails(ev) == ev.op # "d" /\ ~ev.after

\* Filter of WriteOpDelete: sourceLsn < lsn.  A missing field is not $lt.
DeleteMatches(ev, doc) == doc \in Lsn /\ doc < ev.lsn

\* Mutant: the upsert filters on _id alone.
UpsertMatchesUngated(ev, doc) == doc = NoLsn \/ doc \in Lsn

\* Filter of WriteOpUpsert: sourceLsn < lsn, or no sourceLsn field.
UpsertMatches(ev, doc) == doc = NoLsn \/ (doc \in Lsn /\ doc < ev.lsn)

(***************************************************************************)
(* What Mongo answers to the WriteModel of ev on a document in state doc.  *)
(* An upsert whose filter matches nothing inserts, and the unique _id      *)
(* index refuses the insert with E11000 when the document is there after   *)
(* all ("duplicate").                                                      *)
(***************************************************************************)
Outcome(ev, doc) ==
  IF ev.op = "d"
  THEN IF DeleteMatches(ev, doc) THEN "deleted" ELSE "unmatched"
  ELSE IF UpsertMatches(ev, doc) THEN "matched"
       ELSE IF doc = Absent THEN "upserted" ELSE "duplicate"

\* The document after the WriteModel of ev ran on it.
Effect(ev, doc) ==
  IF Outcome(ev, doc) = "deleted" THEN Absent
  ELSE IF Outcome(ev, doc) \in {"matched", "upserted"} THEN ev.lsn
  ELSE doc
=============================================================================
