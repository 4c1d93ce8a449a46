-------------------------- MODULE MCEvaluationRunner --------------------------
(* An instance of EvaluationRunner for TLC: the cfg file gives the values. *)
EXTENDS EvaluationRunner, TLC

CONSTANTS x, y

\* A dataset of a case with a schema and one with the schema {}, and a dataset
\* that stops halfway through, at a case without messages.
Cases ==
    [c \in Contents |->
       CASE c = x -> <<[id |-> "a", schema |-> "full", messages |-> TRUE],
                       [id |-> "b", schema |-> "empty", messages |-> TRUE]>>
         [] c = y -> <<[id |-> "c", schema |-> "none", messages |-> TRUE],
                       [id |-> "d", schema |-> "none", messages |-> FALSE]>>
         [] OTHER -> <<>>]

Symmetry == Permutations(Clients) \cup Permutations(Versions)

-----------------------------------------------------------------------------
(* The pure operators against their definitions.                           *)

Lists == UNION {[1..n -> 1..4] : n \in 1..5}

\* The code's _percentile: sort, then take the element of the rank.
Sorted(values) == SortSeq(values, LAMBDA a, b : a < b)

\* Nearest rank, as sorting and as counting.
ASSUME PercentileIsNearestRank ==
    \A values \in Lists : \A q \in {1, 50, 75, 99, 100} :
       LET p == Percentile(values, q)
           atMost(v) == Cardinality({i \in DOMAIN values : values[i] <= v})
       IN  /\ p = Sorted(values)[CeilingDiv(q * Len(values), 100)]
           /\ 100 * atMost(p) >= q * Len(values)
           /\ \A v \in 1..4 : 100 * atMost(v) >= q * Len(values) => p <= v

=============================================================================
