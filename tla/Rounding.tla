------------------------------ MODULE Rounding ------------------------------
(* Python's arithmetic on the amounts of a plan, in whole units: quantities  *)
(* in hundredths, orders and percentages in tenths, scores in hundredths.    *)
EXTENDS Integers, FiniteSetsExt

Magnitude(n) == IF n < 0 THEN -n ELSE n

\* n / d to the nearest integer, ties to even, d > 0.
Rounded(n, d) ==
  LET q == n \div d   r == n % d
  IN  IF 2 * r > d \/ (2 * r = d /\ q % 2 = 1) THEN q + 1 ELSE q
=============================================================================
