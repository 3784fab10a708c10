----------------------------- MODULE Checkpoint -----------------------------
(***************************************************************************)
(* The checkpoint document of the sink: sink/internal/checkpoint, fed by   *)
(* instrumentedWriter.ApplyBatch and shut down by main.                    *)
(*                                                                         *)
(* Three goroutines of a process touch the Checkpointer: the consume loop  *)
(* (MarkProgress after every applied batch), Run (the periodic flush) and, *)
(* when that loop has returned, main (the final Flush, beside a Run that   *)
(* may still be alive).  The atomics are separate, so each                 *)
(* load and store is a step of its own.  All replicas of the group write   *)
(* the same document, _id = groupID.                                       *)
(*                                                                         *)
(* Time is counted in ticks of the flush interval: a flush is shorter than *)
(* a tick (FlushTimeout 5s, Interval 10s).                                 *)
(***************************************************************************)
EXTENDS Integers, Sequences, FiniteSets

CONSTANTS
  Replica,         \* sink processes of the group
  Partition,       \* topic-partitions
  NoPartition,     \* the partition of no batch
  OwnerOf,         \* partition -> replica that consumes it
  LsnAt,           \* partition -> sequence of the LSNs of its events
  HeartbeatEvery,  \* Config.HeartbeatEvery
  MaxBatch,        \* bound: events per batch
  MaxStale,        \* bound: ticks the staleness gauge is followed for
  Faults,          \* what may go wrong, see the actions below
  MaxFaults        \* bound: faults in one behaviour

FaultKind == {"error", "timeout", "apply", "block", "kill", "stop"}

ASSUME CheckpointAssumption ==
  /\ NoPartition \notin Partition
  /\ OwnerOf \in [Partition -> Replica]
  /\ LsnAt \in [Partition -> Seq(Nat \ {0})]
  /\ HeartbeatEvery \in Nat \ {0}
  /\ MaxBatch \in Nat \ {0}
  /\ MaxStale \in Nat
  /\ HeartbeatEvery < MaxStale
  /\ Faults \subseteq FaultKind
  /\ MaxFaults \in Nat

VARIABLES
  proc,       \* replica -> "up", "stopping" (context canceled) or "down"
  loop,       \* replica -> where the consume loop is
  hand,       \* replica -> batch in hand: its partition, size and maximum LSN
  next,       \* partition -> events its consumer has polled
  committed,  \* partition -> events committed to the group
  maxLSN,     \* replica -> Checkpointer.maxLSN
  eventCount, \* replica -> Checkpointer.eventCount
  dirty,      \* replica -> Checkpointer.dirty
  run,        \* replica -> where Run is
  idleTicks,  \* replica -> Run's idleTicks
  final,      \* replica -> where the final Flush of main is
  snap,       \* replica -> flusher -> the values flush has loaded
  stale,      \* replica -> ticks since lastWriteAtUnixNano
  doc,        \* the checkpoint document: lastLSN and lastEvents
  late,       \* updates of the document that outlived their client
  faultCount,
  applied,    \* history: LSNs of the events written to Mongo
  givenUp     \* history: LSNs of the events of a batch that failed

loopVars == <<loop, hand, next, committed, applied, givenUp>>
markVars == <<maxLSN, eventCount, dirty>>
runVars  == <<run, idleTicks>>
docVars  == <<doc, late>>
vars == <<proc, loopVars, markVars, runVars, final, snap, stale, docVars, faultCount>>

Flusher == {"run", "final"}
Snapshot == [lsn : Nat, events : Nat]
NoSnapshot == [lsn |-> 0, events |-> 0]
NoBatch == [part |-> NoPartition, size |-> 0, lsn |-> 0]

Init ==
  /\ proc = [r \in Replica |-> "up"]
  /\ loop = [r \in Replica |-> "poll"]
  /\ hand = [r \in Replica |-> NoBatch]
  /\ next = [p \in Partition |-> 0]
  /\ committed = [p \in Partition |-> 0]
  /\ maxLSN = [r \in Replica |-> 0]
  /\ eventCount = [r \in Replica |-> 0]
  /\ dirty = [r \in Replica |-> FALSE]
  /\ run = [r \in Replica |-> "wait"]
  /\ idleTicks = [r \in Replica |-> 0]
  /\ final = [r \in Replica |-> "none"]
  /\ snap = [r \in Replica |-> [f \in Flusher |-> NoSnapshot]]
  /\ stale = [r \in Replica |-> 0]
  /\ doc = NoSnapshot
  /\ late = {}
  /\ faultCount = 0
  /\ applied = {}
  /\ givenUp = {}

Fault(f) ==
  /\ f \in Faults
  /\ faultCount < MaxFaults
  /\ faultCount' = faultCount + 1

NoFault == UNCHANGED faultCount

-----------------------------------------------------------------------------
(* The consume loop.                                                       *)

\* The consumer of p polls n events; its position moves past them.
Polled(r, p, n) ==
  /\ proc[r] = "up"
  /\ loop[r] = "poll"
  /\ OwnerOf[p] = r
  /\ next[p] + n <= Len(LsnAt[p])
  /\ next' = [next EXCEPT ![p] = next[p] + n]

PolledLsns(p, n) == {LsnAt[p][i] : i \in next[p] + 1 .. next[p] + n}

\* instrumentedWriter.ApplyBatch: the inner writer succeeded.
ApplyBatch(r, p) ==
  /\ \E n \in 1 .. MaxBatch :
       /\ Polled(r, p, n)
       /\ applied' = applied \cup PolledLsns(p, n)
       /\ \E l \in PolledLsns(p, n) :
            /\ \A k \in PolledLsns(p, n) : k <= l
            /\ hand' = [hand EXCEPT ![r] = [part |-> p, size |-> n, lsn |-> l]]
  /\ loop' = [loop EXCEPT ![r] = "markLsn"]
  /\ NoFault
  /\ UNCHANGED <<proc, committed, givenUp, markVars, runVars, final, snap, stale, docVars>>

\* Decode or the inner writer failed, with some events written or none: the
\* batch is given up without progress, and the next poll goes on behind it.
ApplyFails(r, p) ==
  /\ Fault("apply")
  /\ \E n \in 1 .. MaxBatch :
       /\ Polled(r, p, n)
       /\ \E S \in SUBSET PolledLsns(p, n) : applied' = applied \cup S
       /\ givenUp' = givenUp \cup PolledLsns(p, n)
  /\ UNCHANGED <<proc, loop, hand, committed, markVars, runVars, final, snap, stale,
                 docVars>>

\* The inner writer does not return until the context ends.
ApplyBlocks(r) ==
  /\ proc[r] = "up"
  /\ loop[r] = "poll"
  /\ Fault("block")
  /\ loop' = [loop EXCEPT ![r] = "blocked"]
  /\ UNCHANGED <<proc, hand, next, committed, applied, givenUp, markVars, runVars, final,
                 snap, stale, docVars>>

\* Mutant: the next LSN to read is stored instead of the last one applied.
NextMax(r) == IF hand[r].lsn > maxLSN[r] THEN hand[r].lsn + 1 ELSE maxLSN[r]

\* The CAS loop keeps the greatest LSN seen.
NewMax(r) == IF hand[r].lsn > maxLSN[r] THEN hand[r].lsn ELSE maxLSN[r]

\* MarkProgress, first the CAS loop on maxLSN ...
MarkLsn(r) ==
  /\ proc[r] # "down"
  /\ loop[r] = "markLsn"
  /\ maxLSN' = [maxLSN EXCEPT ![r] = NewMax(r)]
  /\ loop' = [loop EXCEPT ![r] = "markCount"]
  /\ NoFault
  /\ UNCHANGED <<proc, hand, next, committed, applied, givenUp, eventCount, dirty, runVars,
                 final, snap, stale, docVars>>

\* ... then eventCount ...
MarkCount(r) ==
  /\ proc[r] # "down"
  /\ loop[r] = "markCount"
  /\ eventCount' = [eventCount EXCEPT ![r] = @ + hand[r].size]
  /\ loop' = [loop EXCEPT ![r] = "markDirty"]
  /\ NoFault
  /\ UNCHANGED <<proc, hand, next, committed, applied, givenUp, maxLSN, dirty, runVars,
                 final, snap, stale, docVars>>

\* ... then dirty.
MarkDirty(r) ==
  /\ proc[r] # "down"
  /\ loop[r] = "markDirty"
  /\ dirty' = [dirty EXCEPT ![r] = TRUE]
  /\ loop' = [loop EXCEPT ![r] = "commit"]
  /\ NoFault
  /\ UNCHANGED <<proc, hand, next, committed, applied, givenUp, maxLSN, eventCount, runVars,
                 final, snap, stale, docVars>>

\* RunOnce commits the offsets, or fails to with an error runLoop retries.
Commit(r) ==
  /\ proc[r] = "up"
  /\ loop[r] = "commit"
  /\ \/ /\ committed' = [committed EXCEPT ![hand[r].part] = next[hand[r].part]]
        /\ NoFault
     \/ /\ Fault("error")
        /\ UNCHANGED committed
  /\ hand' = [hand EXCEPT ![r] = NoBatch]
  /\ loop' = [loop EXCEPT ![r] = "poll"]
  /\ UNCHANGED <<proc, next, applied, givenUp, markVars, runVars, final, snap, stale,
                 docVars>>

-----------------------------------------------------------------------------
(* Run and flush.                                                          *)

\* Mutant: no heartbeat; an idle Run never flushes.
FlushIfDirty(r) == dirty[r]

\* A tick flushes progress, and the HeartbeatEvery-th idle tick flushes anyway.
FlushDue(r) == dirty[r] \/ idleTicks[r] + 1 >= HeartbeatEvery

\* One interval passes while Run waits.
Tick(r) ==
  /\ proc[r] = "up"
  /\ run[r] = "wait"
  /\ idleTicks' = [idleTicks EXCEPT ![r] = IF dirty[r] THEN @ ELSE @ + 1]
  /\ run' = [run EXCEPT ![r] =
       IF FlushDue(r) THEN "loadLsn" ELSE "wait"]
  /\ stale' = [stale EXCEPT ![r] = IF @ < MaxStale THEN @ + 1 ELSE @]
  /\ NoFault
  /\ UNCHANGED <<proc, loopVars, markVars, final, snap, docVars>>

\* The same interval once Run has returned: only the gauge goes on.
TickUnheard(r) ==
  /\ proc[r] = "up"
  /\ run[r] = "exited"
  /\ stale[r] < MaxStale
  /\ stale' = [stale EXCEPT ![r] = @ + 1]
  /\ NoFault
  /\ UNCHANGED <<proc, loopVars, markVars, runVars, final, snap, docVars>>

\* Where flusher f of r is.
At(r, f) == IF f = "run" THEN run[r] ELSE final[r]

Goto(r, f, l) ==
  IF f = "run" THEN run' = [run EXCEPT ![r] = l] /\ UNCHANGED final
               ELSE final' = [final EXCEPT ![r] = l] /\ UNCHANGED run

\* The locals of flush are gone once UpdateOne has been called.
DropSnapshot(r, f) == snap' = [snap EXCEPT ![r][f] = NoSnapshot]

\* Mutant: flush takes the LSN of the batch in hand.
BatchLsn(r) == hand[r].lsn

FlushedLsn(r) == maxLSN[r]

\* flush loads maxLSN ...
LoadLsn(r, f) ==
  /\ proc[r] # "down"
  /\ At(r, f) = "loadLsn"
  /\ snap' = [snap EXCEPT ![r][f].lsn = FlushedLsn(r)]
  /\ Goto(r, f, "loadCount")
  /\ NoFault
  /\ UNCHANGED <<proc, loopVars, markVars, idleTicks, stale, docVars>>

\* ... then eventCount.
LoadCount(r, f) ==
  /\ proc[r] # "down"
  /\ At(r, f) = "loadCount"
  /\ snap' = [snap EXCEPT ![r][f].events = eventCount[r]]
  /\ Goto(r, f, "update")
  /\ NoFault
  /\ UNCHANGED <<proc, loopVars, markVars, idleTicks, stale, docVars>>

\* A canceled context fails Run's update, not the one of the final Flush.
Canceled(r, f) == f = "run" /\ proc[r] = "stopping"

\* UpdateOne replaces lastLSN and lastEvents, whatever they were.
Update(r, f) ==
  /\ proc[r] # "down"
  /\ ~Canceled(r, f)
  /\ At(r, f) = "update"
  /\ doc' = snap[r][f]
  /\ DropSnapshot(r, f)
  /\ Goto(r, f, "clear")
  /\ NoFault
  /\ UNCHANGED <<proc, loopVars, markVars, idleTicks, stale, late>>

\* lastWriteAtUnixNano and dirty after the update; Run resets idleTicks.
Clear(r, f) ==
  /\ proc[r] # "down"
  /\ At(r, f) = "clear"
  /\ dirty' = [dirty EXCEPT ![r] = FALSE]
  /\ stale' = [stale EXCEPT ![r] = 0]
  /\ idleTicks' = IF f = "run" THEN [idleTicks EXCEPT ![r] = 0] ELSE idleTicks
  /\ Goto(r, f, IF f = "run" THEN "wait" ELSE "done")
  /\ NoFault
  /\ UNCHANGED <<proc, loopVars, maxLSN, eventCount, snap, docVars>>

\* UpdateOne fails with an ordinary error: logged, dirty and idleTicks stay.
UpdateError(r, f) ==
  /\ proc[r] # "down"
  /\ ~Canceled(r, f)
  /\ At(r, f) = "update"
  /\ Fault("error")
  /\ DropSnapshot(r, f)
  /\ Goto(r, f, IF f = "run" THEN "wait" ELSE "done")
  /\ UNCHANGED <<proc, loopVars, markVars, idleTicks, stale, docVars>>

\* Mutant: a timeout ends the final Flush the way it ends Run.
ExitAfterTimeout(f) == "exited"

\* Run returns on DeadlineExceeded; main only logs it.
AfterTimeout(f) == IF f = "run" THEN "exited" ELSE "done"

\* The flush context expires, or was canceled: Run returns.  Mongo may or may
\* not carry the update out later.
UpdateTimeout(r, f) ==
  /\ proc[r] # "down"
  /\ At(r, f) = "update"
  /\ IF Canceled(r, f) THEN NoFault ELSE Fault("timeout")
  /\ late' \in {late, late \cup {snap[r][f]}}
  /\ DropSnapshot(r, f)
  /\ Goto(r, f, AfterTimeout(f))
  /\ UNCHANGED <<proc, loopVars, markVars, idleTicks, stale, doc>>

\* Mongo carries out an update nobody waits for.
LateUpdate(s) ==
  /\ doc' = s
  /\ late' = late \ {s}
  /\ NoFault
  /\ UNCHANGED <<proc, loopVars, markVars, runVars, final, snap, stale>>

-----------------------------------------------------------------------------
(* The process.                                                            *)

\* SIGTERM cancels the root context.
Stop(r) ==
  /\ proc[r] = "up"
  /\ Fault("stop")
  /\ proc' = [proc EXCEPT ![r] = "stopping"]
  /\ UNCHANGED <<loopVars, markVars, runVars, final, snap, stale, docVars>>

\* Run sees the canceled context.
RunReturns(r) ==
  /\ proc[r] = "stopping"
  /\ run[r] = "wait"
  /\ run' = [run EXCEPT ![r] = "exited"]
  /\ NoFault
  /\ UNCHANGED <<proc, loopVars, markVars, idleTicks, final, snap, stale, docVars>>

\* runLoop returns and main runs the deferred final Flush.
Return(r) ==
  /\ loop[r] \in {"poll", "blocked", "commit"}
  /\ loop' = [loop EXCEPT ![r] = "returned"]
  /\ hand' = [hand EXCEPT ![r] = NoBatch]
  /\ final' = [final EXCEPT ![r] = "loadLsn"]
  /\ UNCHANGED <<proc, next, committed, applied, givenUp, markVars, runVars, snap, stale,
                 docVars>>

\* RunOnce sees the canceled context ...
FinalFlush(r) ==
  /\ proc[r] = "stopping"
  /\ NoFault
  /\ Return(r)

\* ... or fails with DeadlineExceeded, and the root context, and with it Run,
\* lives on.
LoopTimesOut(r) ==
  /\ proc[r] = "up"
  /\ Fault("timeout")
  /\ Return(r)

\* The process is gone, with whatever Run was waiting for.
GoDown(r) ==
  /\ proc' = [proc EXCEPT ![r] = "down"]
  /\ \/ late' = late
     \/ \E f \in Flusher : At(r, f) = "update" /\ late' = late \cup {snap[r][f]}
  /\ snap' = [snap EXCEPT ![r] = [f \in Flusher |-> NoSnapshot]]
  /\ UNCHANGED <<loopVars, markVars, runVars, final, stale, doc>>

\* main returns.
Exit(r) ==
  /\ proc[r] # "down"
  /\ final[r] = "done"
  /\ NoFault
  /\ GoDown(r)

Kill(r) ==
  /\ proc[r] # "down"
  /\ Fault("kill")
  /\ GoDown(r)

\* A new process: New starts from zero, and consumption from the committed
\* offsets.
Restart(r) ==
  /\ proc[r] = "down"
  /\ proc' = [proc EXCEPT ![r] = "up"]
  /\ loop' = [loop EXCEPT ![r] = "poll"]
  /\ hand' = [hand EXCEPT ![r] = NoBatch]
  /\ next' = [p \in Partition |-> IF OwnerOf[p] = r THEN committed[p] ELSE next[p]]
  /\ maxLSN' = [maxLSN EXCEPT ![r] = 0]
  /\ eventCount' = [eventCount EXCEPT ![r] = 0]
  /\ dirty' = [dirty EXCEPT ![r] = FALSE]
  /\ run' = [run EXCEPT ![r] = "wait"]
  /\ idleTicks' = [idleTicks EXCEPT ![r] = 0]
  /\ final' = [final EXCEPT ![r] = "none"]
  /\ stale' = [stale EXCEPT ![r] = 0]
  /\ NoFault
  /\ UNCHANGED <<committed, applied, givenUp, snap, docVars>>

-----------------------------------------------------------------------------
Mark(r) == MarkLsn(r) \/ MarkCount(r) \/ MarkDirty(r) \/ Commit(r)

Flush(r, f) == LoadLsn(r, f) \/ LoadCount(r, f) \/ Update(r, f) \/ Clear(r, f)

FlushFails(r, f) == UpdateError(r, f) \/ UpdateTimeout(r, f)

Shutdown(r) == RunReturns(r) \/ FinalFlush(r) \/ Exit(r)

Next ==
  \/ \E s \in late : LateUpdate(s)
  \/ \E r \in Replica :
       \/ \E p \in Partition : ApplyBatch(r, p) \/ ApplyFails(r, p)
       \/ ApplyBlocks(r) \/ LoopTimesOut(r)
       \/ Mark(r) \/ Tick(r) \/ TickUnheard(r)
       \/ \E f \in Flusher : Flush(r, f) \/ FlushFails(r, f)
       \/ Stop(r) \/ Shutdown(r) \/ Kill(r) \/ Restart(r)

Spec == Init /\ [][Next]_vars

(***************************************************************************)
(* Weak fairness of each goroutine: the ticker fires, a flush or a         *)
(* MarkProgress that started ends, a shutdown runs to its end.  Traffic,   *)
(* faults and restarts owe nothing.                                        *)
(***************************************************************************)
Fairness ==
  \A r \in Replica :
    /\ WF_vars(Mark(r))
    /\ WF_vars(Tick(r)) /\ WF_vars(TickUnheard(r))
    /\ \A f \in Flusher : WF_vars(Flush(r, f) \/ FlushFails(r, f))
    /\ WF_vars(Shutdown(r))

FairSpec == Spec /\ Fairness

-----------------------------------------------------------------------------
(* Correctness.                                                            *)

FlushPCs == {"loadLsn", "loadCount", "update", "clear"}

TypeOK ==
  /\ proc \in [Replica -> {"up", "stopping", "down"}]
  /\ loop \in [Replica -> {"poll", "blocked", "markLsn", "markCount", "markDirty", "commit",
                       "returned"}]
  /\ hand \in [Replica -> [part : Partition \cup {NoPartition}, size : Nat, lsn : Nat]]
  /\ next \in [Partition -> Nat] /\ committed \in [Partition -> Nat]
  /\ maxLSN \in [Replica -> Nat] /\ eventCount \in [Replica -> Nat]
  /\ dirty \in [Replica -> BOOLEAN]
  /\ run \in [Replica -> FlushPCs \cup {"wait", "exited"}]
  /\ idleTicks \in [Replica -> Nat]
  /\ final \in [Replica -> FlushPCs \cup {"none", "done"}]
  /\ snap \in [Replica -> [Flusher -> Snapshot]]
  /\ stale \in [Replica -> Nat]
  /\ doc \in Snapshot /\ late \subseteq Snapshot
  /\ faultCount \in Nat
  /\ applied \subseteq Nat /\ givenUp \subseteq Nat

Lsns == UNION {{LsnAt[p][i] : i \in DOMAIN LsnAt[p]} : p \in Partition}

\* lastLSN is the LSN of an event whose whole partition up to it was applied,
\* or given up by a batch that failed: no interleaving of MarkProgress, Run,
\* the final Flush, restarts and late updates makes it run ahead of the loop.
AnchorIsReached ==
  doc.lsn # 0 =>
    \E p \in Partition : \E i \in DOMAIN LsnAt[p] :
      LsnAt[p][i] = doc.lsn /\ \A j \in 1 .. i : LsnAt[p][j] \in applied \cup givenUp

\* The document can serve as the recovery anchor of ADR-003: every event up
\* to lastLSN is in Mongo, so consumption may resume from there.
AnchorIsSafe == \A l \in Lsns : l <= doc.lsn => l \in applied

\* A sink whose Run is alive, idle or busy, never looks stale for longer than
\* HeartbeatEvery ticks and one more for each failure: idleTicks is not reset
\* by a flush that failed, so the next tick tries again.
StaleOnlyByFailures ==
  \A r \in Replica :
    proc[r] = "up" /\ run[r] # "exited" => stale[r] <= HeartbeatEvery + faultCount

\* Progress reaches the document although a flush may clear the dirty flag of
\* a MarkProgress it did not see, or a late update may set lastLSN back: the
\* heartbeat repairs it, as long as Run has not returned.
ProgressIsPersisted ==
  \A r \in Replica : \A l \in Lsns :
    proc[r] = "up" /\ maxLSN[r] = l
      ~> doc.lsn >= l \/ proc[r] # "up" \/ run[r] = "exited"

\* The staleness gauge climbs when the consume loop stalls: it passes every
\* value a sink without failures shows.
StallIsNoticed ==
  \A r \in Replica :
    proc[r] = "up" /\ loop[r] = "blocked"
      ~> stale[r] > HeartbeatEvery \/ proc[r] # "up" \/ loop[r] # "blocked"

\* Run returns when its context is canceled; errors from Mongo do not stop it.
RunOutlivesErrors == \A r \in Replica : run[r] = "exited" => proc[r] # "up"
=============================================================================
