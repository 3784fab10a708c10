------------------------------ MODULE DlqTool ------------------------------
(***************************************************************************)
(* sink/cmd/dlqtool: one run of the tool over a dead-letter topic that is  *)
(* still being written to and truncated.  main lists the offsets of the    *)
(* topic in two admin calls, then scans it with a consumer without a group *)
(* and, with -replay, publishes every record to the topic it came from.    *)
(*                                                                         *)
(* Offsets are 1-based, as in module Sink: low[p] records of p are gone    *)
(* and Len(log[p]) is the high-water mark.  A record in hand is <<p, i>>.  *)
(* The check of -topic and the printed summary are left out.               *)
(***************************************************************************)
EXTENDS Integers, Sequences, FiniteSets, FiniteSetsExt

CONSTANTS
  Partition,  \* partitions of the dead-letter topic
  Limits,     \* bound: the values of -max looked at, 0 for none
  MaxFetch,   \* bound: records per partition in one fetch
  MaxRecords, \* bound: records ever dead-lettered
  Faults,     \* "list", "client", "retention", "produce", "timeout"
  MaxFaults   \* bound: faults in one behaviour

ASSUME DlqToolAssumption ==
  /\ IsFiniteSet(Partition)
  /\ Limits \subseteq Nat
  /\ MaxFetch \in Nat \ {0}
  /\ MaxRecords \in Nat
  /\ Faults \subseteq {"list", "client", "retention", "produce", "timeout"}
  /\ MaxFaults \in Nat

VARIABLES
  log,          \* partition -> records, "sourced" or "headerless"
  low,          \* partition -> records removed by retention
  flags,        \* the command line: -replay and -max
  expired,      \* the context of the run is over: -timeout, SIGINT, SIGTERM
  pc,           \* where main is
  end,          \* partition -> listed end offset, or NoOffset
  start,        \* partition -> listed start offset, 0 if it has none
  pos,          \* partition -> fetch position
  todo,         \* records of the fetch EachRecord has not visited
  got,          \* records of the fetch
  processed, replayed, replayFailed, emptyPolls,
  exit,         \* exit code, once pc = "exited"
  faultCount,
  visited,      \* history: records EachRecord visited
  landed,       \* history: records the source topics have
  stoppedBy     \* history: which condition ended the run

topicVars == <<log, low>>
listVars  == <<end, start>>
scanVars  == <<pos, todo, got, processed, replayed, replayFailed, emptyPolls>>
histVars  == <<visited, landed>>
exitVars  == <<exit, stoppedBy>>
vars == <<topicVars, flags, expired, pc, listVars, scanVars, exitVars,
          faultCount, histVars>>

NoOffset == -1

Init ==
  /\ log = [p \in Partition |-> <<>>]
  /\ low = [p \in Partition |-> 0]
  /\ flags \in [replay : BOOLEAN, max : Limits]
  /\ expired = FALSE
  /\ pc = "listEnd"
  /\ end = [p \in Partition |-> NoOffset]
  /\ start = [p \in Partition |-> 0]
  /\ pos = [p \in Partition |-> 0]
  /\ todo = {}
  /\ got = 0 /\ processed = 0 /\ replayed = 0 /\ replayFailed = 0 /\ emptyPolls = 0
  /\ exit = 0
  /\ faultCount = 0
  /\ visited = {} /\ landed = {}
  /\ stoppedBy = "nothing"

Fault(f) ==
  /\ f \in Faults
  /\ faultCount < MaxFaults
  /\ faultCount' = faultCount + 1

NoFault == UNCHANGED faultCount

-----------------------------------------------------------------------------
(* The environment.                                                        *)

\* A record is dead-lettered: a new one, or a replayed one that failed again.
DeadLetter(p, r) ==
  /\ pc # "exited"
  /\ MapThenSumSet(LAMBDA q : Len(log[q]), Partition) < MaxRecords
  /\ log' = [log EXCEPT ![p] = Append(@, r)]
  /\ NoFault
  /\ UNCHANGED <<low, flags, expired, pc, listVars, scanVars, exitVars, histVars>>

\* Retention removes the oldest records of p.
Truncate(p) ==
  /\ pc # "exited"
  /\ Fault("retention")
  /\ \E n \in low[p] + 1 .. Len(log[p]) : low' = [low EXCEPT ![p] = n]
  /\ UNCHANGED <<log, flags, expired, pc, listVars, scanVars, exitVars, histVars>>

\* -timeout passes, or a signal arrives.
Expire ==
  /\ pc \in {"open", "poll", "each", "check"}
  /\ ~expired
  /\ Fault("timeout")
  /\ expired' = TRUE
  /\ UNCHANGED <<topicVars, flags, pc, listVars, scanVars, exitVars, histVars>>

-----------------------------------------------------------------------------
(* topicOffsets and totalLag.                                              *)

Exit(code, cause) ==
  /\ pc' = "exited"
  /\ exit' = code
  /\ stoppedBy' = cause

\* The partitions an admin call reports an error for.
Unlisted(U) == IF U = {} THEN NoFault ELSE Fault("list")

\* ListEndOffsets.  No partition of a topic that does not exist is listed.
ListEnd ==
  /\ pc = "listEnd"
  /\ \E U \in SUBSET Partition :
       /\ Unlisted(U)
       /\ end' = [p \in Partition |-> IF p \in U THEN NoOffset ELSE Len(log[p])]
  /\ pc' = "listStart"
  /\ UNCHANGED <<topicVars, flags, expired, start, scanVars, exitVars, histVars>>

Listed == {p \in Partition : end[p] # NoOffset}

totalLag(s, e) == MapThenSumSet(LAMBDA p : e[p] - s[p], Listed)

\* ListStartOffsets; a partition it does not list starts at 0.  main exits at
\* once if the topic does not exist or is empty.
ListStart ==
  /\ pc = "listStart"
  /\ \E U \in SUBSET Partition :
       /\ Unlisted(U)
       /\ start' = [p \in Partition |-> IF p \in U THEN 0 ELSE low[p]]
  /\ IF Listed = {} THEN Exit(2, "missing")
     ELSE IF totalLag(start', end) = 0 THEN Exit(0, "empty")
     ELSE pc' = "open" /\ UNCHANGED exitVars
  /\ UNCHANGED <<topicVars, flags, expired, end, scanVars, histVars>>

\* Either admin call fails as a whole, or the client for them does.
ListError ==
  /\ pc \in {"listEnd", "listStart"}
  /\ Fault("list")
  /\ Exit(1, "error")
  /\ UNCHANGED <<topicVars, flags, expired, listVars, scanVars, histVars>>

-----------------------------------------------------------------------------
(* The scan.                                                               *)

\* NewClient for the consumer and, with -replay, for the producer.
OpenClients ==
  /\ pc = "open"
  /\ pc' = "poll"
  /\ NoFault
  /\ UNCHANGED <<topicVars, flags, expired, listVars, scanVars, exitVars, histVars>>

\* One of the two cannot be made.
ClientError ==
  /\ pc = "open"
  /\ Fault("client")
  /\ Exit(1, "error")
  /\ UNCHANGED <<topicVars, flags, expired, listVars, scanVars, histVars>>

\* The client starts at the earliest offset, and again there when retention
\* has overtaken it.
From(p) == IF pos[p] < low[p] THEN low[p] ELSE pos[p]

Fetched(n) ==
  UNION {{<<p, i>> : i \in From(p) + 1 .. From(p) + n[p]} : p \in Partition}

\* PollFetches returns records, of any partitions that have some.
Poll ==
  /\ pc = "poll"
  /\ ~expired
  /\ \E n \in [Partition -> 0 .. MaxFetch] :
       /\ \A p \in Partition : n[p] # 0 => From(p) + n[p] <= Len(log[p])
       /\ Fetched(n) # {}
       /\ todo' = Fetched(n)
       /\ got' = Cardinality(Fetched(n))
       /\ pos' = [p \in Partition |-> From(p) + n[p]]
  /\ pc' = "each"
  /\ NoFault
  /\ UNCHANGED <<topicVars, flags, expired, listVars, processed, replayed,
                 replayFailed, emptyPolls, exitVars, histVars>>

\* PollFetches returns only errors, its own 2s deadline or those of a
\* partition; they are logged.
PollEmpty ==
  /\ pc = "poll"
  /\ ~expired
  /\ got' = 0
  /\ pc' = "check"
  /\ NoFault
  /\ UNCHANGED <<topicVars, flags, expired, listVars, pos, todo, processed,
                 replayed, replayFailed, emptyPolls, exitVars, histVars>>

\* Mutant: a record that is skipped does not count as failed.
SkipsCountNothing == 0

\* A record without the source-topic header counts as a failed replay.
SkipFails == IF flags.replay THEN 1 ELSE 0

\* EachRecord visits x: what -replay makes of it.
Visit(x, ok, failed, sent) ==
  /\ pc = "each"
  /\ \A y \in todo : y[1] = x[1] => x[2] <= y[2]
  /\ processed' = processed + 1
  /\ replayed' = replayed + ok
  /\ replayFailed' = replayFailed + failed
  /\ landed' = landed \cup sent
  /\ visited' = visited \cup {x}
  /\ todo' = todo \ {x}
  /\ pc' = IF todo = {x} THEN "check" ELSE "each"
  /\ UNCHANGED <<topicVars, flags, expired, listVars, pos, got, emptyPolls, exitVars>>

RecordAt(x) == log[x[1]][x[2]]

\* Dry run, or no topic to replay to.
Skip(x) ==
  /\ ~flags.replay \/ RecordAt(x) = "headerless"
  /\ Visit(x, 0, SkipFails, {})
  /\ NoFault

\* ProduceSync succeeds.
ReplayOk(x) ==
  /\ flags.replay /\ RecordAt(x) = "sourced" /\ ~expired
  /\ Visit(x, 1, 0, {x})
  /\ NoFault

\* ProduceSync returns an error, as it must once the context is over; the
\* broker may have the record all the same.
ReplayError(x) ==
  /\ flags.replay /\ RecordAt(x) = "sourced"
  /\ IF expired THEN NoFault ELSE Fault("produce")
  /\ \E sent \in {{}, {x}} : Visit(x, 0, 1, sent)

ExitCode == IF flags.replay /\ replayFailed > 0 THEN 1 ELSE 0

Finish(cause) == Exit(ExitCode, cause)

\* Mutant: the scan goes on until it is past the mark.
PastMark(n) == processed > n

Reached(n) == processed >= n

\* Mutant: only a poll that found something is looked at.
ForgetsEmptyPoll == 0

\* Empty polls in a row, this one included.
EmptyPolls == IF got = 0 THEN emptyPolls + 1 ELSE 0

\* The switch at the end of an iteration.
Check ==
  /\ pc = "check"
  /\ IF flags.max > 0 /\ Reached(flags.max) THEN Finish("max") /\ UNCHANGED emptyPolls
     ELSE IF Reached(totalLag(start, end)) THEN Finish("target") /\ UNCHANGED emptyPolls
     ELSE /\ emptyPolls' = EmptyPolls
          /\ IF EmptyPolls >= 2 THEN Finish("idle")
             ELSE pc' = "poll" /\ UNCHANGED exitVars
  /\ NoFault
  /\ UNCHANGED <<topicVars, flags, expired, listVars, pos, todo, got, processed,
                 replayed, replayFailed, histVars>>

\* The context is over after a poll: what it fetched is dropped.
Break ==
  /\ pc = "poll"
  /\ expired
  /\ Finish("context")
  /\ NoFault
  /\ UNCHANGED <<topicVars, flags, expired, listVars, scanVars, histVars>>

-----------------------------------------------------------------------------
Main ==
  \/ ListEnd \/ ListStart \/ OpenClients \/ Poll \/ PollEmpty \/ Check \/ Break
  \/ \E x \in todo : Skip(x) \/ ReplayOk(x) \/ ReplayError(x)

Next ==
  \/ Main \/ ListError \/ ClientError \/ Expire
  \/ \E p \in Partition :
       \/ Truncate(p)
       \/ \E r \in {"sourced", "headerless"} : DeadLetter(p, r)

Spec == Init /\ [][Next]_vars

\* main runs; nothing obliges the topic to grow or the context to end.
FairSpec == Spec /\ WF_vars(Main)

-----------------------------------------------------------------------------
(* Correctness.                                                            *)

FetchSize == MaxFetch * Cardinality(Partition)

\* The topic grows by the very records the run replays and that fail again,
\* and the mark is only looked at between two fetches.  The run still ends
\* less than one fetch past the mark it listed, so a poison record that keeps
\* coming back is not replayed for ever.  (The mark can be negative, when
\* retention moves a start past the listed end; one fetch is made even then.)
FeedbackIsBounded == processed <= Max({0, totalLag(start, end) - 1}) + FetchSize

\* "cap how many to read": with -max no more records are processed.
MaxIsACap == flags.max > 0 => processed <= flags.max

\* The records the listing promised: "drain to high-water-mark at start".
Snapshot == UNION {{<<p, i>> : i \in start[p] + 1 .. end[p]} : p \in Listed}

\* A run that stops at the mark has read "every record currently in the DLQ
\* topic up to the high-water-mark at start".
DrainsToTheMark == stoppedBy = "target" => Snapshot \subseteq visited

\* Exit code 0 after a replay means that everything the run read is in its
\* source topic, also when the context ended in the middle of a fetch.
SuccessMeansReplayed ==
  pc = "exited" /\ exit = 0 /\ flags.replay => visited = landed

\* The run ends without the help of -timeout although records it counted on
\* disappear, partitions cannot be read and new records keep arriving.
Terminates == <>(pc = "exited")
=============================================================================
