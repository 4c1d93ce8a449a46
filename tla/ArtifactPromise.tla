--------------------------- MODULE ArtifactPromise ---------------------------
(***************************************************************************)
(* What ArtifactRegistry (control/registry.py) promises its callers: a     *)
(* registration takes effect at one instant, and a version that is written *)
(* keeps its content for ever.  There are no rows, clocks or errors of a   *)
(* database here.                                                          *)
(***************************************************************************)
CONSTANTS Keys, Contents, Clients

VARIABLES
    held,       \* the pairs <<key, content>> that are registered
    asked,      \* registrations begun: <<client, key, content>>
    decided,    \* those that have taken effect: <<client, key, content, outcome>>
    granted     \* the pairs a client was told are registered

promised == <<held, asked, decided, granted>>

Taken(k) == \E x \in Contents : <<k, x>> \in held

Init == held = {} /\ asked = {} /\ decided = {} /\ granted = {}

Ask(r) ==
    /\ asked' = asked \cup {r}
    /\ UNCHANGED <<held, decided, granted>>

\* A new version, the one that is there already, or a conflict.
Decide(r) ==
    /\ r \in asked
    /\ asked' = asked \ {r}
    /\ \/ /\ ~Taken(r[2])
          /\ held' = held \cup {<<r[2], r[3]>>}
          /\ decided' = decided \cup {<<r[1], r[2], r[3], "registered">>}
       \/ /\ Taken(r[2])
          /\ LET same == <<r[2], r[3]>> \in held
             IN  decided' = decided \cup
                     {<<r[1], r[2], r[3], IF same THEN "registered" ELSE "conflict">>}
          /\ UNCHANGED held
    /\ UNCHANGED granted

Tell(d) ==
    /\ d \in decided
    /\ decided' = decided \ {d}
    /\ granted' = IF d[4] = "registered" THEN granted \cup {<<d[2], d[3]>>} ELSE granted
    /\ UNCHANGED <<held, asked>>

\* A caller that gets an error instead of an answer.
Lose(r) ==
    /\ asked' = asked \ {r}
    /\ UNCHANGED <<held, decided, granted>>

LoseOutcome(d) ==
    /\ decided' = decided \ {d}
    /\ UNCHANGED <<held, asked, granted>>

\* No caller is answered: what they asked may have taken effect.
LoseAll ==
    /\ asked' = {} /\ decided' = {}
    /\ UNCHANGED <<held, granted>>

Next ==
    \/ \E c \in Clients, k \in Keys, x \in Contents : Ask(<<c, k, x>>)
    \/ \E r \in asked : Decide(r) \/ Lose(r)
    \/ \E d \in decided : Tell(d) \/ LoseOutcome(d)
    \/ LoseAll

Spec == Init /\ [][Next]_promised

=============================================================================
