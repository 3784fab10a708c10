------------------------------ MODULE Backoff ------------------------------
(***************************************************************************)
(* backoffDuration of sink/cmd/sink/main.go, with the arithmetic of Go's   *)
(* int64 nanoseconds.                                                      *)
(*                                                                         *)
(* baseBackoff and maxBackoff are multiples of 2^8 ns, and so are all      *)
(* their doublings modulo 2^64: counted in units of 2^8 ns a Duration is a *)
(* 56-bit two's complement number.  It is kept as <<high, low>>, two       *)
(* 28-bit halves, because TLC's own integers are too narrow.               *)
(***************************************************************************)
EXTENDS Integers

Half == 2^28

baseBackoff == 1953125     \* 500ms
maxBackoff  == 117187500   \* 30s

\* d << 1
Twice(d) ==
  <<(2 * d[1] + (IF 2 * d[2] >= Half THEN 1 ELSE 0)) % Half, (2 * d[2]) % Half>>

\* baseBackoff << n
Shifted[n \in Nat] == IF n = 0 THEN <<0, baseBackoff>> ELSE Twice(Shifted[n - 1])

\* d <= 0: zero, or the sign bit is set.
NotPositive(d) == d = <<0, 0>> \/ 2 * d[1] >= Half

AboveCap(d) == d[1] > 0 \/ d[2] > maxBackoff

\* Mutant: no check of the sign after the shift.
BackoffUnsigned(n) ==
  LET d == Shifted[n - 1]
  IN IF n <= 0 THEN baseBackoff
     ELSE IF ~NotPositive(d) /\ AboveCap(d) THEN maxBackoff ELSE d[2]

\* The sleep before retry n; at most maxBackoff, so the low half is the value.
backoffDuration(n) ==
  IF n <= 0 THEN baseBackoff
  ELSE LET d == Shifted[n - 1]
       IN IF NotPositive(d) \/ AboveCap(d) THEN maxBackoff ELSE d[2]

\* What it is meant to be: doubling that stops at the cap, in unbounded
\* arithmetic.
SaturatedDoubling[n \in Nat] ==
  IF n <= 1 THEN baseBackoff
  ELSE LET d == 2 * SaturatedDoubling[n - 1]
       IN IF d > maxBackoff THEN maxBackoff ELSE d
=============================================================================
