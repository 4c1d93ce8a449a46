----------------------------- MODULE Guardrails -----------------------------
(***************************************************************************)
(* The arithmetic of the thresholds a release is judged by, offline in     *)
(* enforce_release_gate (control/evaluation.py) and on line in assess      *)
(* (control/release.py).  Rates and limits are percentages.                *)
(***************************************************************************)
EXTENDS Integers, FiniteSets, Sequences

(***************************************************************************)
(* The limits e for which 1 - (100 - e)/100, in the double precision of    *)
(* the code, comes out above e/100.  The rate of successes is rounded      *)
(* correctly, so what happens at equality depends on the limit alone.      *)
(***************************************************************************)
RoundedUp == {1, 2, 3, 4, 5, 6, 15, 16, 17, 18, 29, 30, 31, 41, 42, 43, 57, 58, 59, 82}

\* 1 - rate > limit, when `bad' of n have failed.
RateExceeds(bad, n, limit) ==
    \/ 100 * bad > limit * n
    \/ 100 * bad = limit * n /\ limit \in RoundedUp

CeilingDiv(a, b) == (a + b - 1) \div b

\* The k-th of the values in ascending order.
Ranked(values, k) ==
    LET i == CHOOSE j \in DOMAIN values :
               /\ Cardinality({m \in DOMAIN values : values[m] < values[j]}) < k
               /\ Cardinality({m \in DOMAIN values : values[m] <= values[j]}) >= k
    IN  values[i]

\* _percentile: the nearest rank of a list that is not empty.
Percentile(values, q) ==
    LET rank == CeilingDiv(q * Len(values), 100)
    IN  Ranked(values, IF rank = 0 THEN 1 ELSE rank)

=============================================================================
