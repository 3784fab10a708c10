----------------------------- MODULE MCEnvelope -----------------------------
(***************************************************************************)
(* Small instances of Envelope for TLC.                                    *)
(***************************************************************************)
EXTENDS Envelope

Fields == {"full_name", "email"}

Rename(name, mail) == [f \in Fields |-> IF f = "full_name" THEN name ELSE mail]

Camel == Rename("fullName", "email")
Clash == Rename("email", "email")

Rule(s, t, fields) ==
  [yml |-> TRUE, parses |-> TRUE, schema |-> s, table |-> t, fields |-> fields]

Public == Rule("public", "users", Camel)
Audit  == Rule("audit", "users", Rename("auditedName", "email"))
Bare   == Rule("", "users", Rename("name", "mail"))
Orders == Rule("public", "orders", Camel)

\* No rule; one schema; two schemas; one of them bare; rules whose targets
\* clash; rules for another table; and directories Load refuses or ignores.
RuleDirs ==
  {{}, {Public}, {Audit}, {Public, Audit}, {Bare, Audit},
   {Rule("public", "users", Clash)}, {Orders},
   {[Public EXCEPT !.parses = FALSE]}, {[Public EXCEPT !.table = ""], Orders},
   {Public, Rule("public", "users", Clash)},
   {[Public EXCEPT !.yml = FALSE, !.parses = FALSE], Audit}}

Shape(v, s, t) ==
  [value |-> v, schema |-> s, table |-> t, tail |-> "users", hasLsn |-> TRUE, pk |-> "id"]

User == Shape("envelope", "public", "users")

RecordShapes ==
  {User, Shape("envelope", "", "users"), Shape("envelope", "ops", "users"),
   Shape("envelope", "", ""),
   [User EXCEPT !.hasLsn = FALSE], [User EXCEPT !.pk = "empty"],
   [User EXCEPT !.pk = "garbage"]} \cup
  {Shape(v, "", "") : v \in {"nil", "null", "garbage", "bare"}}

\* Around 2^Mantissa, where rounding starts, 2^(Mantissa + 1), where it
\* steps by four, and 2^IntBits.
SomeLsns == {7, 15, 16, 17, 18, 19, 33, 34, 61, 62, 63}
=============================================================================
