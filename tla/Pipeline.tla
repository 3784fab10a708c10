------------------------------ MODULE Pipeline ------------------------------
(***************************************************************************)
(* The whole pipeline: LoadGen writes the source table, Transformer copies *)
(* cdc.* to transformed.*, Sink copies transformed.* to Mongo.  The three  *)
(* modules are composed through the two topics:                            *)
(*                                                                         *)
(*   cdc   what LoadGen captures is the input log of Transformer;          *)
(*   log   what Transformer produces is the input log of Sink.             *)
(*                                                                         *)
(* Sink is given the environment the transformer really is, with several   *)
(* replicas that crash, replay part of what they produced and go on        *)
(* producing after they have lost a partition, in place of the changes and *)
(* replays it makes up when it is checked alone.                           *)
(***************************************************************************)
EXTENDS LsnGate, Sequences, FiniteSets

CONSTANTS
  Key, Partition, PartitionOf, TableOf, Email, NoEmail, NoMember, NoTable, NoPartition,
  Transformers,        \* replicas of the transformer
  Sinks,               \* replicas of the sink
  TransformerFaults,   \* faults of the transformers and
  SinkFaults,          \*   of the sinks
  MaxLsn,              \* bound: row changes
  MaxPoll,             \* bound: records per partition in one poll
  MaxFaults            \* bound: faults of each service

ASSUME PipelineAssumption ==
  /\ Key \subseteq Nat \ {0}
  /\ PartitionOf \in [Key -> Partition]
  /\ NoEmail \in Email
  /\ NoMember \notin Transformers \cup Sinks
  /\ NoPartition \notin Partition
  /\ NoTable \notin {TableOf[k] : k \in Key}
  /\ TransformerFaults \subseteq {"crash", "rebalance", "commit"}
  /\ SinkFaults \subseteq {"crash", "rebalance", "commit"}
  /\ MaxLsn \in Nat /\ MaxPoll \in Nat \ {0} /\ MaxFaults \in Nat

VARIABLES
  email, nextId, cdc,                               \* LoadGen
  out, tCommitted, tOwner, tPc, tPos, tMarks,       \* Transformer
  tTodo, tCur, tEnds, tFaultCount, tAbandoned,
  log, rows, lastLsn, docs, late, committed, owner, \* Sink
  pc, pos, marks, batch, ends, table, pending, inserting, faultCount,
  executed, abandoned, swallowed

loadVars == <<email, nextId, cdc>>
transformerVars ==
  <<out, tCommitted, tOwner, tPc, tPos, tMarks, tTodo, tCur, tEnds, tFaultCount,
    tAbandoned>>
sinkVars ==
  <<docs, late, committed, owner, pc, pos, marks, batch, ends, table, pending,
    inserting, faultCount, executed, abandoned, swallowed>>
vars == <<loadVars, transformerVars, log, rows, lastLsn, sinkVars>>

Source == INSTANCE LoadGen

\* No record is poison: what errors of the two loops lose is the subject of
\* their own modules.
Transform == INSTANCE Transformer WITH
  Member <- Transformers, Faults <- TransformerFaults, MaxRecords <- 2 * MaxLsn,
  log <- [p \in Partition |->
            [i \in 1 .. Len(cdc[p]) |-> [key |-> cdc[p][i].key, poison |-> FALSE]]],
  committed <- tCommitted, owner <- tOwner, pc <- tPc, pos <- tPos, marks <- tMarks,
  todo <- tTodo, cur <- tCur, ends <- tEnds, faultCount <- tFaultCount,
  abandoned <- tAbandoned

Sink == INSTANCE Sink WITH
  Member <- Sinks, Faults <- SinkFaults, SourceOps <- {}

Init ==
  /\ Source!Init
  /\ Transform!Init
  /\ Sink!Init

-----------------------------------------------------------------------------
\* A client of the load generator changes a row.
Write ==
  /\ Source!Next
  /\ UNCHANGED <<transformerVars, log, sinkVars>>

\* The record t produces for input x lands in transformed.*, with the key,
\* and so in the partition, it had.
Forward(t, x) ==
  /\ UNCHANGED <<loadVars, rows, lastLsn, sinkVars>>
  /\ Transform!Forward(t, x)
  /\ log' = IF out' = out THEN log
            ELSE [log EXCEPT ![x[1]] = Append(@, cdc[x[1]][x[2]])]

\* The other steps of the transformers are invisible to the sink.
QuietTransformer == UNCHANGED <<loadVars, log, rows, lastLsn, sinkVars>>

RunTransformer(t) ==
  \/ QuietTransformer /\ (Transform!Poll(t) \/ Transform!Commit(t))
  \/ \E x \in tTodo[t] : Forward(t, x)

TransformerFails(t) ==
  QuietTransformer /\ (Transform!CommitError(t) \/ Transform!Crash(t))

RestartTransformer(t) == QuietTransformer /\ Transform!Restart(t)

AssignTransformer(p, t) == QuietTransformer /\ Transform!Assign(p, t)

\* The steps of the sinks are invisible to everyone else.
QuietSink == UNCHANGED <<loadVars, transformerVars>>

RunSink(s) == QuietSink /\ Sink!RunOnce(s)

SinkFails(s) == QuietSink /\ (Sink!CommitError(s) \/ Sink!Crash(s))

RestartSink(s) == QuietSink /\ Sink!Restart(s)

AssignSink(p, s) == QuietSink /\ Sink!Assign(p, s)

Next ==
  \/ Write
  \/ \E t \in Transformers :
       \/ RunTransformer(t) \/ TransformerFails(t) \/ RestartTransformer(t)
       \/ \E p \in Partition : AssignTransformer(p, t)
  \/ \E s \in Sinks :
       \/ RunSink(s) \/ SinkFails(s) \/ RestartSink(s)
       \/ \E p \in Partition : AssignSink(p, s)

Spec == Init /\ [][Next]_vars

(***************************************************************************)
(* The fairness of the two services, as in their own modules: a live       *)
(* process runs, a dead one is restarted, a free partition is assigned.    *)
(***************************************************************************)
Fairness ==
  /\ \A t \in Transformers : WF_vars(RunTransformer(t)) /\ WF_vars(RestartTransformer(t))
  /\ \A s \in Sinks : WF_vars(RunSink(s)) /\ WF_vars(RestartSink(s))
  /\ \A p \in Partition :
       /\ WF_vars(tOwner[p] = NoMember /\ \E t \in Transformers : AssignTransformer(p, t))
       /\ WF_vars(owner[p] = NoMember /\ \E s \in Sinks : AssignSink(p, s))

FairSpec == Spec /\ Fairness

-----------------------------------------------------------------------------
(* Correctness.                                                            *)

Deleted ==
  UNION {{cdc[p][i].key : i \in {j \in 1 .. Len(cdc[p]) : cdc[p][j].op = "d"}} :
           p \in Partition}

Mirrored == \A k \in Key \ Deleted : docs[k] = rows[k]

CaughtUp ==
  /\ \A p \in Partition : committed[p] = Len(log[p])
  /\ \A s \in Sinks : pc[s] \in {"poll", "down"}

AtRest ==
  /\ CaughtUp
  /\ \A p \in Partition : tCommitted[p] = Len(cdc[p])
  /\ \A t \in Transformers : tPc[t] \in {"poll", "down"}

\* When nothing is left to do, Mongo holds exactly the rows of users that were
\* never deleted: the LSN gate of the sink undoes what crashed, replayed and
\* overtaken transformers did to the order of transformed.*.
EndToEndMirror == AtRest => Mirrored

\* A change whose offset the transformer has committed is never lost behind
\* its back: once the sink has caught up, Mongo holds it or a newer one.
EndToEndNoLoss ==
  CaughtUp =>
    \A p \in Partition : \A i \in 1 .. tCommitted[p] :
      cdc[p][i].op \in {"c", "u"} /\ cdc[p][i].key \notin Deleted
        => docs[cdc[p][i].key] >= cdc[p][i].lsn

\* When the clients fall silent, Mongo becomes and stays that table, after
\* every crash and failed commit of either service.
EventuallyEndToEnd == <>[]Mirrored
=============================================================================
