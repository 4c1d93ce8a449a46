---------------------------- MODULE CachePromise ----------------------------
(***************************************************************************)
(* What control/cache.py promises its callers, without recency, positions  *)
(* or lazy expiry.                                                         *)
(***************************************************************************)
EXTENDS CacheIdentity

VARIABLES
    held,       \* key -> how much longer its answer may be served, 0 if absent
    served      \* the outcome of the latest lookup

promised == <<held, served>>

\* What a lookup of k may return: its own answer, else the nearest ones.
Suitable(k, keys) ==
    LET near == {j \in keys : Near(j, k)}
    IN  IF k \in keys THEN {k}
        ELSE {j \in near : \A i \in near : Similarity(i, k) <= Similarity(j, k)}

Present == {k \in Keys : held[k] > 0}

-----------------------------------------------------------------------------

Init ==
    /\ held = [k \in Keys |-> 0]
    /\ served = {}

Lookup(k) ==
    /\ IF Suitable(k, Present) = {}
         THEN served' = {}
         ELSE \E j \in Suitable(k, Present) : served' = {<<k, j>>}
    /\ UNCHANGED held

\* The new answer is kept for Ttl.  One other may make way for it, unless it
\* takes the place of its own predecessor.
Store(k) ==
    /\ \E gone \in SUBSET (Present \ {k}) :
          /\ \A i, j \in gone : i = j
          /\ gone # {} => k \notin Present
          /\ Cardinality((Present \cup {k}) \ gone) <= MaxEntries
          /\ held' = [j \in Keys |-> IF j = k THEN Ttl
                                     ELSE IF j \in gone THEN 0 ELSE held[j]]
    /\ UNCHANGED served

Forget ==
    /\ held' = [k \in Keys |-> 0]
    /\ UNCHANGED served

Age ==
    /\ held' = [k \in Keys |-> IF held[k] > 0 THEN held[k] - 1 ELSE 0]
    /\ UNCHANGED served

Next == (\E k \in Keys : Lookup(k) \/ Store(k)) \/ Forget \/ Age

Spec == Init /\ [][Next]_promised

=============================================================================
