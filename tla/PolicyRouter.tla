----------------------------- MODULE PolicyRouter -----------------------------
(***************************************************************************)
(* PolicyRouter.decide (control/router.py): which routes a request may     *)
(* use, and in which order they are tried.  A route is a record of id,     *)
(* enabled, capabilities, regions, window, inPrice and outPrice, latency,  *)
(* quality and modes; a request one of input and output (tokens),          *)
(* capabilities, classification, privacy, regions, maxCost and maxLatency. *)
(* Prices are per token, in the unit of maxCost; quality is a percentage.  *)
(***************************************************************************)
EXTENDS Integers, Sequences

\* An integer for each id, in the order of the ids.
CONSTANT IdRank(_)

\* No forced or preferred route.
Anywhere == "none"

\* _required_privacy
RequiredPrivacy(q) ==
    CASE q.classification = "restricted" -> "local_only"
      [] q.classification = "confidential" /\ q.privacy = "standard" -> "zero_retention"
      [] OTHER -> q.privacy

\* _predicted_cost
PredictedCost(r, q) == q.input * r.inPrice + q.output * r.outPrice

\* The constraints of the request, and none of the state of the gateway.
Satisfies(r, q) ==
    /\ r.enabled
    /\ q.capabilities \subseteq r.capabilities
    /\ RequiredPrivacy(q) \in r.modes
    /\ q.regions = {} \/ q.regions \cap r.regions # {}
    /\ q.input + q.output <= r.window
    /\ PredictedCost(r, q) <= q.maxCost
    /\ r.latency <= q.maxLatency

\* The routes without a reason for rejection, given those whose circuit
\* is available.
Candidates(routes, q, forced, available) ==
    {r \in routes : /\ Satisfies(r, q)
                    /\ forced = Anywhere \/ r.id = forced
                    /\ r.id \in available}

-----------------------------------------------------------------------------
(* Ranking.                                                                *)

\* _utility with the weights 0.55, 0.25 and 0.20, times what makes it an
\* integer: the same factor for all routes that satisfy the request.
Utility(r, q) ==
    LET budget == IF q.maxCost > 0 THEN q.maxCost ELSE 1
        spent  == IF q.maxCost > 0 THEN PredictedCost(r, q) ELSE 0
    IN  55 * r.quality * q.maxLatency * budget
          - 2500 * r.latency * budget
          - 2000 * spent * q.maxLatency

\* The sort key: utility, then cost, then id.
Precedes(r, s, q) ==
    \/ Utility(r, q) > Utility(s, q)
    \/ /\ Utility(r, q) = Utility(s, q)
       /\ \/ PredictedCost(r, q) < PredictedCost(s, q)
          \/ /\ PredictedCost(r, q) = PredictedCost(s, q)
             /\ IdRank(r.id) < IdRank(s.id)

\* Of these routes, the one the attempts begin with.
Selected(routes, q, preferred) ==
    IF \E r \in routes : r.id = preferred
      THEN CHOOSE r \in routes : r.id = preferred
      ELSE CHOOSE r \in routes : \A s \in routes \ {r} : Precedes(r, s, q)

\* The order of the attempts: the selected route, then the others as ranked.
IsOrder(order, routes, q, preferred) ==
    /\ \A i \in DOMAIN order : order[i] \in routes
    /\ \A r \in routes : \E i \in DOMAIN order : order[i] = r
    /\ order[1] = Selected(routes, q, preferred)
    /\ \A i, j \in DOMAIN order : 1 < i /\ i < j => Precedes(order[i], order[j], q)

=============================================================================
