------------------------------ MODULE LoadGen ------------------------------
(***************************************************************************)
(* The load generator, the writer of the source table in every chaos run:  *)
(* the three handlers of loadgen/internal/api and the SQL statements of    *)
(* loadgen/internal/db behind them, each one transaction.  Postgres hands  *)
(* out ids (BIGSERIAL) and LSNs in increasing order, and Debezium writes   *)
(* every row change to cdc.*, a delete followed by its tombstone.          *)
(***************************************************************************)
EXTENDS LsnGate, Sequences

CONSTANTS
  Key,          \* user ids: 1 .. n
  Partition,    \* partitions of cdc.*
  PartitionOf,  \* id -> partition
  Email,        \* emails the clients send, NoEmail among them
  NoEmail,      \* the empty email
  MaxLsn        \* bound: row changes

VARIABLES
  rows,     \* id -> LSN of the row image in users, or Absent
  email,    \* id -> email of the row, NoEmail if there is no row
  nextId,   \* the id the sequence hands out next
  lastLsn,  \* the last LSN
  cdc       \* partition of cdc.* -> sequence of records

vars == <<rows, email, nextId, lastLsn, cdc>>

Init ==
  /\ rows = [k \in Key |-> Absent]
  /\ email = [k \in Key |-> NoEmail]
  /\ nextId = 1
  /\ lastLsn = 0
  /\ cdc = [p \in Partition |-> <<>>]

Event(o, k, n) == [op |-> o, after |-> o # "d", key |-> k, lsn |-> n]

\* The transaction that changes row k commits and is captured.
Captured(k, o) ==
  /\ lastLsn < MaxLsn
  /\ lastLsn' = lastLsn + 1
  /\ rows' = [rows EXCEPT ![k] = IF o = "d" THEN Absent ELSE lastLsn + 1]
  /\ cdc' = [cdc EXCEPT ![PartitionOf[k]] =
       Append(@, Event(o, k, lastLsn + 1)) \o
       (IF o = "d"
        THEN <<[op |-> "tombstone", after |-> FALSE, key |-> k, lsn |-> 0]>>
        ELSE <<>>)]

\* INSERT ... ON CONFLICT (email) DO UPDATE.
InsertUser(e) ==
  \/ \E k \in Key :
       /\ email[k] = e
       /\ Captured(k, "u")
       /\ UNCHANGED <<email, nextId>>
  \/ /\ \A k \in Key : email[k] # e
     /\ nextId \in Key
     /\ Captured(nextId, "c")
     /\ email' = [email EXCEPT ![nextId] = e]
     /\ nextId' = nextId + 1

\* UPDATE of the row TABLESAMPLE picks.  When it picks none the handler
\* answers 204 and nothing changes.
UpdateRandomUser(k) ==
  /\ rows[k] # Absent
  /\ Captured(k, "u")
  /\ UNCHANGED <<email, nextId>>

\* DELETE of the row with the lowest id.
DeleteRandomUser ==
  \E k \in Key :
    /\ rows[k] # Absent
    /\ \A j \in Key : rows[j] # Absent => k <= j
    /\ Captured(k, "d")
    /\ email' = [email EXCEPT ![k] = NoEmail]
    /\ UNCHANGED nextId

\* The handlers.  One without a valid body answers 400 and does nothing.
insert(e) == e # NoEmail /\ InsertUser(e)

updateRandom == \E k \in Key : UpdateRandomUser(k)

deleteRandom == DeleteRandomUser

Next == (\E e \in Email : insert(e)) \/ updateRandom \/ deleteRandom
=============================================================================
