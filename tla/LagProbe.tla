------------------------------ MODULE LagProbe ------------------------------
(***************************************************************************)
(* What an operator sees of one sink process: the lag gauge and its age    *)
(* (sink/internal/lag) next to the consume loop whose commits it measures, *)
(* and the retry delay of that loop (main.runLoop).                        *)
(*                                                                         *)
(* Run is a goroutine of its own.  A probe is two reads of the broker, the *)
(* committed offsets and then the end offsets, between which the topics    *)
(* and the group move on.  RunOnce is one step here; module Sink has its   *)
(* parts.  Time is counted in ticks of the probe interval (30s); a probe   *)
(* (ProbeTimeout 5s) is shorter than a tick.                               *)
(***************************************************************************)
EXTENDS Backoff, FiniteSets, FiniteSetsExt

CONSTANTS
  Partition,      \* partitions the process consumes
  Faults,         \* "apply", "commit", "partition", "error", "timeout", "restart"
  MaxRecords,     \* bound: records produced
  MaxAge,         \* bound: ticks the age gauge is followed for
  MaxConsecutive, \* bound: consecutive failures of RunOnce
  MaxFaults       \* bound: faults in one behaviour

ASSUME LagProbeAssumption ==
  /\ IsFiniteSet(Partition)
  /\ Faults \subseteq {"apply", "commit", "partition", "error", "timeout", "restart"}
  /\ MaxRecords \in Nat
  /\ MaxAge \in Nat
  /\ MaxConsecutive \in Nat
  /\ MaxFaults \in Nat
  /\ MaxFaults + 1 < MaxAge

VARIABLES
  end,         \* partition -> records produced
  committed,   \* partition -> committed offset of the group
  joined,      \* the broker knows the group
  pos,         \* partition -> records this process has polled
  marks,       \* partition -> the last record it has applied and marked
  consecutive, \* runLoop's count of failures in a row
  delay,       \* how long runLoop sleeps before it tries again
  run,         \* where Run is
  first,       \* Run is in its initial probe
  snap,        \* partition -> committed offset the running probe has read
  totalLag,    \* Probe.totalLag
  age,         \* ticks since lastProbeAt; NeverProbed at first
  faultCount,
  listed,      \* history: partition -> end of the last probe, 0 if unreadable
  spoiled      \* history: partitions whose last batch ended in an error

offsetVars == <<committed, pos, marks, spoiled>>
loopVars  == <<joined, offsetVars, consecutive, delay>>
gaugeVars == <<totalLag, age, listed>>
probeVars == <<run, first, snap, gaugeVars>>
vars == <<end, loopVars, probeVars, faultCount>>

\* lastProbeAt = 0 reads as a day.
NeverProbed == MaxAge

Zero == [p \in Partition |-> 0]

Init ==
  /\ end = Zero /\ committed = Zero /\ pos = Zero /\ marks = Zero
  /\ snap = Zero /\ listed = Zero /\ spoiled = {}
  /\ joined = FALSE
  /\ consecutive = 0 /\ delay = 0
  /\ run = "fetch" /\ first = TRUE
  /\ totalLag = 0 /\ age = NeverProbed
  /\ faultCount = 0

Fault(f) ==
  /\ f \in Faults
  /\ faultCount < MaxFaults
  /\ faultCount' = faultCount + 1

NoFault == UNCHANGED faultCount

Sum(f) == MapThenSumSet(LAMBDA p : f[p], Partition)

-----------------------------------------------------------------------------
(* The topic and the consume loop.                                         *)

Produce(p) ==
  /\ Sum(end) < MaxRecords
  /\ end' = [end EXCEPT ![p] = @ + 1]
  /\ NoFault
  /\ UNCHANGED <<loopVars, probeVars>>

\* The process joins the consumer group.
Join ==
  /\ ~joined
  /\ joined' = TRUE
  /\ NoFault
  /\ UNCHANGED <<end, offsetVars, consecutive, delay, probeVars>>

\* Poll returns some of the records; the next poll goes on behind them,
\* whatever becomes of these.
Poll(n) ==
  /\ joined
  /\ n \in [Partition -> 0 .. MaxRecords]
  /\ n # pos
  /\ \A p \in Partition : n[p] \in pos[p] .. end[p]
  /\ pos' = n
  /\ UNCHANGED <<end, joined, probeVars>>

\* The partitions Poll has returned records of.
Polled(n) == {p \in Partition : n[p] > pos[p]}

\* RunOnce applied the batch and marks every record of it.
Mark(n) == marks' = [p \in Partition |-> IF p \in Polled(n) THEN n[p] ELSE marks[p]]

\* RunOnce returned nil.
Succeed == consecutive' = 0 /\ delay' = 0

\* RunOnce returned an error that runLoop retries.
Fail ==
  /\ consecutive < MaxConsecutive
  /\ consecutive' = consecutive + 1
  /\ delay' = backoffDuration(consecutive + 1)

ConsumeAndCommit ==
  /\ \E n \in [Partition -> 0 .. MaxRecords] :
       /\ Poll(n)
       /\ Mark(n)
       /\ spoiled' = spoiled \ Polled(n)
  /\ committed' = marks'
  /\ Succeed
  /\ NoFault

\* CommitMarked fails, before or after the broker took the offsets.
ConsumeCommitFails ==
  /\ \E n \in [Partition -> 0 .. MaxRecords] :
       /\ Poll(n)
       /\ Mark(n)
       /\ spoiled' = spoiled \cup Polled(n)
  /\ Fault("commit")
  /\ committed' \in {committed, marks'}
  /\ Fail

\* A record cannot be decoded, or ApplyBatch fails: nothing is marked, and the
\* batch is not polled again.
ConsumeFails ==
  /\ \E n \in [Partition -> 0 .. MaxRecords] :
       /\ Poll(n)
       /\ spoiled' = spoiled \cup Polled(n)
  /\ Fault("apply")
  /\ Fail
  /\ UNCHANGED <<committed, marks>>

\* A poll that returns nothing: RunOnce returns nil and commits nothing.
PollNothing ==
  /\ joined
  /\ pos = end
  /\ Succeed
  /\ NoFault
  /\ UNCHANGED <<end, joined, offsetVars, probeVars>>

\* The broker cannot be reached.
PollFails ==
  /\ Fail
  /\ NoFault
  /\ UNCHANGED <<end, joined, offsetVars, probeVars>>

-----------------------------------------------------------------------------
(* Probe and Run.                                                          *)

Older(a) == IF a < MaxAge THEN a + 1 ELSE a

\* An interval passes and Run probes.
Tick ==
  /\ run = "wait"
  /\ run' = "fetch"
  /\ age' = Older(age)
  /\ NoFault
  /\ UNCHANGED <<end, loopVars, first, snap, totalLag, listed>>

\* An interval passes after Run has returned.
TickUnheard ==
  /\ run = "exited"
  /\ age < MaxAge
  /\ age' = Older(age)
  /\ NoFault
  /\ UNCHANGED <<end, loopVars, run, first, snap, totalLag, listed>>

ProbeOver ==
  /\ run' = "wait"
  /\ first' = FALSE
  /\ snap' = Zero

\* Mutant: lastProbeAt is stored only when the lag has changed.
AgeIfUnchanged(total) == IF total = totalLag THEN age ELSE 0

\* Storing lastProbeAt with a new total.
AgeAfter(total) == 0

Store(total) ==
  /\ totalLag' = total
  /\ age' = AgeAfter(total)

\* The broker does not know the group: lag 0.
GroupUnknown ==
  /\ run = "fetch"
  /\ ~joined
  /\ Store(0)
  /\ listed' = Zero
  /\ ProbeOver
  /\ NoFault
  /\ UNCHANGED <<end, loopVars>>

\* adm.Lag reads the committed offsets ...
FetchCommits ==
  /\ run = "fetch"
  /\ joined
  /\ snap' = committed
  /\ run' = "list"
  /\ NoFault
  /\ UNCHANGED <<end, loopVars, first, gaugeVars>>

\* Lag of p among readable partitions; kadm reports -1 for the others.
LagOf(p, U) == IF p \in U THEN -1 ELSE end[p] - snap[p]

\* Mutant: errors are summed like lags.
SumsErrors(l) == l

\* Mutant: the comparison is off by one.
CountsFromTwo(l) == IF l > 1 THEN l ELSE 0

\* l.Lag > 0
Counted(l) == IF l > 0 THEN l ELSE 0

\* ... and then the end offsets; the partitions of U cannot be read.
ListEnds ==
  /\ run = "list"
  /\ \E U \in SUBSET Partition :
       /\ IF U = {} THEN NoFault ELSE Fault("partition")
       /\ Store(Sum([p \in Partition |-> Counted(LagOf(p, U))]))
       /\ listed' = [p \in Partition |-> IF p \in U THEN 0 ELSE end[p]]
  /\ ProbeOver
  /\ UNCHANGED <<end, loopVars>>

\* Lag, FetchErr or DescribeErr: an ordinary error is logged.
ProbeError ==
  /\ run \in {"fetch", "list"}
  /\ Fault("error")
  /\ ProbeOver
  /\ UNCHANGED <<end, loopVars, gaugeVars>>

\* Run returns on DeadlineExceeded, but only logs it for its initial probe.
AfterTimeout == IF first THEN "wait" ELSE "exited"

ProbeTimeout ==
  /\ run \in {"fetch", "list"}
  /\ Fault("timeout")
  /\ run' = AfterTimeout
  /\ first' = FALSE
  /\ snap' = Zero
  /\ UNCHANGED <<end, loopVars, gaugeVars>>

\* The process is replaced: New, and consumption from the committed offsets.
Restart ==
  /\ Fault("restart")
  /\ pos' = committed /\ marks' = committed /\ spoiled' = {}
  /\ Succeed
  /\ run' = "fetch" /\ first' = TRUE /\ snap' = Zero
  /\ totalLag' = 0 /\ age' = NeverProbed /\ listed' = Zero
  /\ UNCHANGED <<end, joined, committed>>

-----------------------------------------------------------------------------
Loop == Join \/ ConsumeAndCommit \/ PollNothing

Probe == GroupUnknown \/ FetchCommits \/ ListEnds

Next ==
  \/ \E p \in Partition : Produce(p)
  \/ Loop \/ ConsumeCommitFails \/ ConsumeFails \/ PollFails
  \/ Tick \/ TickUnheard \/ Probe \/ ProbeError \/ ProbeTimeout
  \/ Restart

Spec == Init /\ [][Next]_vars

(***************************************************************************)
(* runLoop calls RunOnce for as long as the process lives and the broker   *)
(* comes back, the ticker fires, and a probe ends: with an answer, an      *)
(* error or its timeout.                                                   *)
(***************************************************************************)
Fairness ==
  /\ WF_vars(Loop \/ ConsumeCommitFails \/ ConsumeFails)
  /\ WF_vars(Tick) /\ WF_vars(TickUnheard)
  /\ WF_vars(Probe \/ ProbeError \/ ProbeTimeout)

FairSpec == Spec /\ Fairness

-----------------------------------------------------------------------------
(* Correctness.                                                            *)

\* However often RunOnce fails in a row, the shift never wraps to a delay of
\* zero or below the cap: runLoop does not spin.
BackoffSaturates == consecutive > 0 => delay = SaturatedDoubling[consecutive]

LagSeen(p) == IF listed[p] > committed[p] THEN listed[p] - committed[p] ELSE 0

\* The gauge never hides lag that was there when it was computed, although
\* the offsets are read at different times: what is still uncommitted of the
\* partitions the last probe could read is part of it.
LagIsNotUnderstated == totalLag >= Sum([p \in Partition |-> LagSeen(p)])

\* While Run lives and one probe has succeeded, the age is at most one tick
\* and one more for every fault since.
AgeOnlyByFailures ==
  run # "exited" /\ age < NeverProbed => age <= 1 + faultCount

\* "Probe failures are logged": as long as the process is not stopped, and
\* here it never is, Run goes on probing.
ProbeOutlivesErrors == run # "exited"

Behind(p) == IF p \in spoiled THEN end[p] - committed[p] ELSE 0

\* When the topic falls silent the gauge settles at the truth.  That is 0 for
\* every partition whose last batch went through.  A batch that was given up,
\* or whose commit failed, is not polled again while the process lives: the
\* gauge shows it as lag until a later commit happens to cover it.
LagSettles ==
  <>[](run = "exited" \/ totalLag = Sum([p \in Partition |-> Behind(p)]))
=============================================================================
