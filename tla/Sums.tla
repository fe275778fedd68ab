-------------------------------- MODULE Sums --------------------------------
(***************************************************************************)
(* Sums of natural-valued functions over finite sets.                      *)
(*                                                                         *)
(* Burnban sums money and request counts in SQL (SUM, COUNT) and in Go     *)
(* accumulators.  Money is a natural number of indivisible units here, and *)
(* a sum is the number of units: that makes the cardinality theorems of    *)
(* FiniteSetTheorems the algebra of sums, with no recursion.               *)
(***************************************************************************)
EXTENDS Naturals, FiniteSets

\* One pair <<x, n>> for every unit that x contributes.
Units(f, S) == UNION {{x} \X (1 .. f[x]) : x \in S}

SumOf(f, S) == Cardinality(Units(f, S))

\* a - b, floored at zero: Go's max(0, a-b).
Monus(a, b) == IF b <= a THEN a - b ELSE 0

Least(a, b) == IF a <= b THEN a ELSE b
=============================================================================
