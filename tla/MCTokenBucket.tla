---------------------------- MODULE MCTokenBucket ----------------------------
(* Instances of TokenBucket for TLC: the cfg files give the values.        *)
EXTENDS TokenBucket, TLC

\* Tenants are interchangeable.
Symmetry == Permutations(Tenants)

=============================================================================
