------------------------------ MODULE Envelope ------------------------------
(***************************************************************************)
(* The content of a record on its way from cdc.* to a CDCEvent of the      *)
(* sink: mapper.Load and ApplyJSON of the transformer, then decoder.Decode *)
(* of the sink.  Two records of one row, an older and a newer one, are     *)
(* mapped again and again, in any order, as redelivery does, and the       *)
(* transformer may be restarted with other rule files in between.          *)
(*                                                                         *)
(* A record is abstracted to what the two functions look at.  Its image is *)
(* the function from field name to the source field whose value is there   *)
(* (payload.after, or payload.before of a delete).  ApplyJSON writes back  *)
(* a number it has parsed into a float64: Mantissa and IntBits stand for   *)
(* 53 and 63.                                                              *)
(***************************************************************************)
EXTENDS Integers, Sequences, FiniteSets

CONSTANTS
  Field,     \* fields of a row image
  FileSets,  \* the contents the rules directory may have
  Shapes,    \* the kinds of record that may arrive, without their LSN
  Lsns,      \* bound: LSNs looked at
  Mantissa,  \* precision of a float64
  IntBits,   \* an int64 is smaller than 2^IntBits
  MaxSeen    \* bound: deliveries to the sink

NoSchema == ""

\* A rule file: whether its name ends in .yml, whether it parses, its source
\* (schema and table; an empty table for an empty source) and its renaming.
RuleFile ==
  [yml : BOOLEAN, parses : BOOLEAN, schema : STRING, table : STRING,
   fields : [Field -> STRING]]

\* What the value of a record is: absent, the JSON null, not JSON, JSON
\* without a payload, or an envelope.
ValueKind == {"nil", "null", "garbage", "bare", "envelope"}

Pow2[n \in Nat] == IF n = 0 THEN 1 ELSE 2 * Pow2[n - 1]

\* A directory has finitely many files, and an LSN of Postgres is an unsigned
\* number of one bit more than an int64 has.
ASSUME EnvelopeAssumption ==
  /\ \A F \in FileSets : IsFiniteSet(F)
  /\ \A F \in FileSets : \A f \in F :
       /\ f.yml \in BOOLEAN /\ f.parses \in BOOLEAN
       /\ DOMAIN f.fields = Field
  /\ \A s \in Shapes : s.value \in ValueKind /\ s.pk \in {"id", "empty", "garbage"}
  /\ Lsns \subseteq 0 .. Pow2[IntBits + 1] - 1
  /\ Mantissa \in Nat \ {0} /\ IntBits \in Nat \ {0}
  /\ MaxSeen \in Nat

VARIABLES
  files,  \* the rules directory
  rules,  \* Mapper.byQName, as a set of rules
  pc,     \* the transformer: "boot", "run" or "fatal"
  recs,   \* the two records, the older one first
  seen    \* history: what the sink decoded, and from what

vars == <<files, rules, pc, recs, seen>>

-----------------------------------------------------------------------------
(* mapper.Load.                                                            *)

RuleFiles == {f \in files : f.yml}

\* A file that does not parse, names no source, or names the source of
\* another file.
LoadFails ==
  \E f \in RuleFiles :
    \/ ~f.parses
    \/ f.table = ""
    \/ \E g \in RuleFiles \ {f} : g.schema = f.schema /\ g.table = f.table

\* main exits when Load fails.
Load ==
  /\ pc = "boot"
  /\ IF LoadFails THEN pc' = "fatal" /\ rules' = {}
                  ELSE pc' = "run" /\ rules' = RuleFiles
  /\ UNCHANGED <<files, recs, seen>>

\* The rules are changed and the transformer is started again.
Redeploy(F) ==
  /\ pc # "boot"
  /\ F # files
  /\ files' = F
  /\ rules' = {}
  /\ pc' = "boot"
  /\ UNCHANGED <<recs, seen>>

-----------------------------------------------------------------------------
(* ApplyJSON.                                                              *)

RulesFor(s, t) == {r \in rules : r.schema = s /\ r.table = t}

\* The rules lookupByTopicTail may return: the bare one, or the first any-
\* schema match of a map iteration.
lookupByTopicTail(tail) ==
  IF RulesFor(NoSchema, tail) # {} THEN RulesFor(NoSchema, tail)
  ELSE {r \in rules : r.table = tail}

\* Mutant: the topic decides, whatever the envelope says.
LookupByTopicOnly(v) == lookupByTopicTail(v.tail)

\* The rules lookupForPayload may return; table = "" if there is no source.
lookupForPayload(v) ==
  IF v.table # "" /\ v.schema # NoSchema /\ RulesFor(v.schema, v.table) # {}
  THEN RulesFor(v.schema, v.table)
  ELSE IF v.table # "" /\ RulesFor(NoSchema, v.table) # {}
  THEN RulesFor(NoSchema, v.table)
  ELSE lookupByTopicTail(v.tail)

\* The images renameKeys may return: if two fields have one target, the one
\* the map iteration visits last stays.
renameKeys(fields) ==
  LET targets == {fields[f] : f \in Field}
  IN {image \in [targets -> Field] : \A t \in targets : fields[image[t]] = t}

\* The multiple of q nearest to n, the even one of two.
Nearest(n, q) ==
  LET lo == (n \div q) * q
  IN IF 2 * (n - lo) < q \/ (2 * (n - lo) = q /\ (n \div q) % 2 = 0)
     THEN lo ELSE lo + q

\* n rounded to b significant bits.
RoundTo(n, b) ==
  IF n < Pow2[b] THEN n
  ELSE LET e == CHOOSE i \in 1 .. IntBits : n \in Pow2[b + i - 1] .. Pow2[b + i] - 1
       IN Nearest(n, Pow2[e])

\* Mutant: numbers go through a float32.
ThroughFloat32(n) == RoundTo(n, Mantissa - 1)

\* A JSON number that is unmarshalled into an any and marshalled again.  Marshal
\* writes the shortest decimal that reads back as the float64, which above
\* 2^Mantissa may be another integer of its rounding interval than the one
\* computed here; the order of two numbers and the class of one are the same.
ThroughFloat64(n) == RoundTo(n, Mantissa)

\* Mutant: the envelope is rebuilt from the payload alone.
LosesPayload(v, image) == [v EXCEPT !.value = "bare", !.image = image]

Rewritten(v, image) ==
  [v EXCEPT !.lsn = ThroughFloat64(v.lsn), !.image = image]

\* What ApplyJSON, called from runOnce, may give; {} when it fails.
ApplyJSON(v) ==
  CASE v.value = "envelope" /\ lookupForPayload(v) # {} ->
         UNION {{Rewritten(v, image) : image \in renameKeys(r.fields)} :
                  r \in lookupForPayload(v)}
    [] v.value = "garbage" /\ lookupByTopicTail(v.tail) # {} -> {}
    [] OTHER -> {v}

-----------------------------------------------------------------------------
(* Decode.                                                                 *)

Tombstone == [class |-> "tombstone"]
Refused   == [class |-> "error"]

\* LSN.Int64() succeeds: there is a number, and it fits.
LsnParses(v) == v.value = "envelope" /\ v.hasLsn /\ v.lsn < Pow2[IntBits]

Decode(v) ==
  IF v.value \in {"nil", "null"} THEN Tombstone
  ELSE IF LsnParses(v) /\ v.pk = "id"
  THEN [class |-> "event", lsn |-> v.lsn, image |-> v.image]
  ELSE Refused

\* Record i is mapped, produced and decoded.  (What runOnce does when
\* ApplyJSON fails is in module Transformer.)
Deliver(i) ==
  /\ pc = "run"
  /\ Len(seen) < MaxSeen
  /\ \E v \in ApplyJSON(recs[i]) :
       seen' = Append(seen, [rec |-> i, rules |-> rules, event |-> Decode(v)])
  /\ UNCHANGED <<files, rules, pc, recs>>

-----------------------------------------------------------------------------
Plain == [f \in Field |-> f]

\* A record of shape s; the row image has the source's field names.
RecordOf(s, n) ==
  [value |-> s.value, schema |-> s.schema, table |-> s.table, tail |-> s.tail,
   hasLsn |-> s.hasLsn, pk |-> s.pk, lsn |-> n, image |-> Plain]

Init ==
  /\ files \in FileSets
  /\ rules = {}
  /\ pc = "boot"
  /\ \E s \in Shapes, l, n \in Lsns :
       l < n /\ recs = <<RecordOf(s, l), RecordOf(s, n)>>
  /\ seen = <<>>

Next ==
  \/ Load
  \/ \E F \in FileSets : Redeploy(F)
  \/ \E i \in {1, 2} : Deliver(i)

Spec == Init /\ [][Next]_vars

-----------------------------------------------------------------------------
(* Correctness.                                                            *)

\* With R, what a record of recs[i] becomes does not depend on map order:
\* a rule of its own or a bare one exists, or a single rule has its table,
\* and the rules rename no two fields to one name.
Unambiguous(R, v) ==
  /\ \/ \E r \in R : r.table = v.table /\ r.schema \in {v.schema, NoSchema}
     \/ Cardinality({r \in R : r.table = v.tail}) <= 1
  /\ \A r \in R : \A f, g \in Field : f # g => r.fields[f] # r.fields[g]

\* A record delivered twice under the same rules gives the sink the same
\* event, so it does not matter which copy the LSN gate lets through.
RedeliveryIsIdentical ==
  \A a, b \in DOMAIN seen :
    /\ seen[a].rec = seen[b].rec
    /\ seen[a].rules = seen[b].rules
    /\ Unambiguous(seen[a].rules, recs[seen[a].rec])
    => seen[a].event = seen[b].event

\* The newer record never reaches the LSN gate with a smaller LSN than the
\* older one, and with an equal one only beyond the precision of a float64.
\* Records of that size that are rounded and records that are not (no rule
\* yet) may change places, so the rules must not change between them.
OrderSurvivesRounding ==
  \A a, b \in DOMAIN seen :
    /\ seen[a].rec = 1 /\ seen[a].event.class = "event"
    /\ seen[b].rec = 2 /\ seen[b].event.class = "event"
    => /\ recs[2].lsn <= Pow2[Mantissa] => seen[a].event.lsn < seen[b].event.lsn
       /\ seen[a].rules = seen[b].rules => seen[a].event.lsn <= seen[b].event.lsn

\* The mapper never turns a record the sink would apply into one it refuses
\* or skips, nor the other way round, unless rounding takes the LSN out of an
\* int64.
MappingKeepsClass ==
  \A a \in DOMAIN seen :
    \/ seen[a].event.class = Decode(recs[seen[a].rec]).class
    \/ ThroughFloat64(recs[seen[a].rec].lsn) = Pow2[IntBits]
=============================================================================
