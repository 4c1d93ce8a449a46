--------------------------- MODULE CacheIdentity ---------------------------
(***************************************************************************)
(* What identifies a request to the cache of control/cache.py: its scope   *)
(* (tenant, namespace, policy and generation fields), compared exactly,    *)
(* and its text, compared by the cosine of feature-hashed vectors.  The    *)
(* hashes are taken to be free of collisions.                              *)
(***************************************************************************)
EXTENDS Integers, FiniteSets

CONSTANTS
    Scopes, Texts,
    Keys,       \* the requests that are made: pairs of a scope and a text
    Blank,      \* texts without a token: their vector is empty
    Score,      \* <<text, text>> -> cosine of their vectors, in some unit
    Threshold,  \* similarity_threshold, in that unit
    Ttl,        \* ttl_seconds, in units of the clock
    MaxEntries  \* max_entries

ASSUME CacheAssumption ==
    /\ Blank \subseteq Texts
    /\ Keys \subseteq Scopes \X Texts
    /\ Score \in [Texts \X Texts -> Int]
    /\ \A a, b \in Texts : Score[<<a, b>>] = Score[<<b, a>>]
    /\ Threshold \in Nat \ {0}
    /\ Ttl \in Nat \ {0}
    /\ MaxEntries \in Nat \ {0}

\* _identity: the fingerprint is the hash of scope and text.
ScopeOf(k) == k[1]
TextOf(k) == k[2]

\* _cosine, which is 0 when a vector is empty.
Similarity(j, k) ==
    IF {TextOf(j), TextOf(k)} \cap Blank # {} THEN 0 ELSE Score[<<TextOf(j), TextOf(k)>>]

\* The answer of j may stand in for that of k.
Near(j, k) == ScopeOf(j) = ScopeOf(k) /\ Similarity(j, k) >= Threshold

=============================================================================
