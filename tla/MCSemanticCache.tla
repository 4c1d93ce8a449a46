-------------------------- MODULE MCSemanticCache --------------------------
(* Instances of SemanticCache for TLC: the cfg files give the values.      *)
EXTENDS SemanticCache, TLC

CONSTANTS s1, s2, red, green, blue, blank

\* Cosines in tenths: green is close to red and to blue, and a little closer
\* to red; red and blue have little in common.
CosineOf(pair) ==
    CASE Cardinality(pair) = 1  -> 10
      [] pair = {red, green}    -> 8
      [] pair = {green, blue}   -> 7
      [] OTHER                  -> 1

Cosine == [p \in Texts \X Texts |-> CosineOf({p[1], p[2]})]

\* Three texts of one scope that resemble each other unequally, one without a
\* token, and one of them in another scope.
Asked == ({s1} \X {red, green, blue, blank}) \cup {<<s2, green>>}

\* Callers are interchangeable.
Symmetry == Permutations(Callers)

=============================================================================
