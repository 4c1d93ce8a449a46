-------------------------- MODULE PolicyRouter_proofs --------------------------
(***************************************************************************)
(* What operators and callers rely on when they narrow a request, for      *)
(* every catalogue of routes.                                              *)
(***************************************************************************)
EXTENDS PolicyRouter, TLAPS

Modes == {"standard", "zero_retention", "local_only"}
Classifications == {"public", "internal", "confidential", "restricted"}

Route == [id : STRING, enabled : BOOLEAN, capabilities : SUBSET STRING, regions : SUBSET STRING,
          window : Nat, inPrice : Nat, outPrice : Nat, latency : Nat, quality : Nat,
          modes : SUBSET Modes]

GatewayRequest ==
    [input : Nat, output : Nat, capabilities : SUBSET STRING, classification : Classifications,
     privacy : Modes, regions : SUBSET STRING, maxCost : Nat, maxLatency : Nat]

\* The request q asks for no less than p, in every field but its privacy.
Narrows(q, p) ==
    /\ p.input <= q.input /\ p.output <= q.output
    /\ p.capabilities \subseteq q.capabilities
    /\ p.regions = {} \/ (q.regions # {} /\ q.regions \subseteq p.regions)
    /\ q.maxCost <= p.maxCost /\ q.maxLatency <= p.maxLatency

Strength(mode) ==
    CASE mode = "standard" -> 0 [] mode = "zero_retention" -> 1 [] mode = "local_only" -> 2

Severity(classification) ==
    CASE classification = "public" -> 0 [] classification = "internal" -> 1
      [] classification = "confidential" -> 2 [] classification = "restricted" -> 3

-----------------------------------------------------------------------------

LEMMA TimesMonotone ==
    ASSUME NEW a \in Nat, NEW b \in Nat, NEW c \in Nat, a <= b PROVE a * c <= b * c
<1>1. PICK d \in Nat : b = a + d
  <2>1. b - a \in Nat /\ b = a + (b - a)
    OBVIOUS
  <2> QED  BY <2>1
<1>2. (a + d) * c = a * c + d * c
  OBVIOUS
<1>3. d * c \in Nat /\ a * c \in Nat
  OBVIOUS
<1> QED  BY <1>1, <1>2, <1>3

LEMMA Product == ASSUME NEW a \in Int, NEW b \in Int PROVE a * b \in Int
  OBVIOUS

LEMMA Difference == ASSUME NEW a \in Int, NEW b \in Int, NEW c \in Int PROVE a - b - c \in Int
  OBVIOUS

\* More tokens do not cost less.
LEMMA CostGrows ==
    ASSUME NEW r \in Route, NEW p \in GatewayRequest, NEW q \in GatewayRequest,
           p.input <= q.input, p.output <= q.output
    PROVE  PredictedCost(r, p) <= PredictedCost(r, q)
<1>1. /\ p.input \in Nat /\ q.input \in Nat /\ p.output \in Nat /\ q.output \in Nat
      /\ r.inPrice \in Nat /\ r.outPrice \in Nat
  BY DEF Route, GatewayRequest
<1>2. p.input * r.inPrice <= q.input * r.inPrice /\ p.output * r.outPrice <= q.output * r.outPrice
  BY <1>1, TimesMonotone
<1>3. /\ p.input * r.inPrice \in Nat /\ q.input * r.inPrice \in Nat
      /\ p.output * r.outPrice \in Nat /\ q.output * r.outPrice \in Nat
  BY <1>1
<1> QED  BY <1>2, <1>3 DEF PredictedCost

(***************************************************************************)
(* docs/operations.md:42 warns of widening a policy.  Narrowing a request  *)
(* is always safe: with more tokens or capabilities, fewer regions or      *)
(* smaller budgets, no route becomes a candidate that was not one, however *)
(* prices, windows and latencies of the catalogue are related.             *)
(***************************************************************************)
THEOREM NarrowingAddsNoRoute ==
    ASSUME NEW routes \in SUBSET Route, NEW p \in GatewayRequest, NEW q \in GatewayRequest,
           Narrows(q, p), q.classification = p.classification, q.privacy = p.privacy,
           NEW forced, NEW available
    PROVE  Candidates(routes, q, forced, available) \subseteq Candidates(routes, p, forced, available)
<1> SUFFICES ASSUME NEW r \in routes, Satisfies(r, q) PROVE Satisfies(r, p)
  BY DEF Candidates
<1>1. r \in Route
  OBVIOUS
<1>2. RequiredPrivacy(p) = RequiredPrivacy(q)
  BY DEF RequiredPrivacy
<1>3. p.regions = {} \/ p.regions \cap r.regions # {}
  BY DEF Narrows, Satisfies
<1>4. p.input + p.output <= r.window
  BY <1>1 DEF Narrows, Satisfies, Route, GatewayRequest
<1>5. PredictedCost(r, p) <= p.maxCost
  <2>1. PredictedCost(r, p) <= PredictedCost(r, q)
    BY <1>1, CostGrows DEF Narrows
  <2>2. PredictedCost(r, p) \in Nat /\ PredictedCost(r, q) \in Nat
    BY <1>1 DEF PredictedCost, Route, GatewayRequest
  <2> QED  BY <2>1, <2>2 DEF Narrows, Satisfies, GatewayRequest
<1>6. r.latency <= p.maxLatency
  BY <1>1 DEF Narrows, Satisfies, Route, GatewayRequest
<1> QED  BY <1>2, <1>3, <1>4, <1>5, <1>6 DEF Narrows, Satisfies

\* _required_privacy is never weaker than what the request asks for, and never
\* becomes weaker when its data is classified higher or it asks for more.
LEMMA PrivacyOnlyGrows ==
    ASSUME NEW p \in GatewayRequest, NEW q \in GatewayRequest,
           Severity(p.classification) <= Severity(q.classification),
           Strength(p.privacy) <= Strength(q.privacy)
    PROVE  /\ Strength(p.privacy) <= Strength(RequiredPrivacy(p))
           /\ Strength(RequiredPrivacy(p)) <= Strength(RequiredPrivacy(q))
<1>1. p.privacy \in Modes /\ q.privacy \in Modes
  BY DEF GatewayRequest
<1>2. p.classification \in Classifications /\ q.classification \in Classifications
  BY DEF GatewayRequest
<1> QED  BY <1>1, <1>2 DEF Modes, Classifications, Strength, Severity, RequiredPrivacy

(***************************************************************************)
(* docs/testing.md:83-85: restricted data stays local.  Whichever route is *)
(* attempted, first or as a fallback, and whatever is forced or preferred  *)
(* and whichever circuits are available: for restricted data the route     *)
(* offers local processing, for confidential data at least zero retention, *)
(* and for any data something as strong as the request asks for.           *)
(***************************************************************************)
THEOREM RestrictedStaysLocal ==
    ASSUME NEW routes \in SUBSET Route, NEW q \in GatewayRequest,
           NEW forced, NEW preferred, NEW available,
           NEW order, IsOrder(order, Candidates(routes, q, forced, available), q, preferred),
           NEW i \in DOMAIN order
    PROVE  /\ order[i] \in routes
           /\ q.classification = "restricted" => "local_only" \in order[i].modes
           /\ q.classification = "confidential" =>
                 order[i].modes \cap {"zero_retention", "local_only"} # {}
           /\ \E m \in order[i].modes : Strength(q.privacy) <= Strength(m)
<1>1. order[i] \in routes /\ RequiredPrivacy(q) \in order[i].modes
  BY DEF IsOrder, Candidates, Satisfies
<1>2. q.classification = "restricted" => RequiredPrivacy(q) = "local_only"
  BY DEF RequiredPrivacy
<1>3. q.classification = "confidential" => RequiredPrivacy(q) \in {"zero_retention", "local_only"}
  BY DEF RequiredPrivacy, GatewayRequest, Modes
<1>4. Strength(q.privacy) <= Strength(RequiredPrivacy(q))
  <2>1. q.classification \in Classifications /\ q.privacy \in Modes
    BY DEF GatewayRequest
  <2>2. Severity(q.classification) <= Severity(q.classification)
    BY <2>1 DEF Classifications, Severity
  <2>3. Strength(q.privacy) <= Strength(q.privacy)
    BY <2>1 DEF Modes, Strength
  <2> QED  BY <2>2, <2>3, PrivacyOnlyGrows
<1> QED  BY <1>1, <1>2, <1>3, <1>4

(***************************************************************************)
(* docs/routing-policy.md:118-126: labelling data higher, or asking for    *)
(* more privacy, adds no candidate either, if every route that offers a    *)
(* mode offers the weaker ones too, as those of configs/models.yaml do.    *)
(* (Without that it may: the code looks for the mode itself, so a route    *)
(* that offers local_only alone refuses a standard request.)               *)
(***************************************************************************)
THEOREM StricterAddsNoRoute ==
    ASSUME NEW routes \in SUBSET Route, NEW p \in GatewayRequest, NEW q \in GatewayRequest,
           \A r \in routes : \A m \in r.modes, w \in Modes :
              Strength(w) <= Strength(m) => w \in r.modes,
           q = [p EXCEPT !.classification = q.classification, !.privacy = q.privacy],
           Severity(p.classification) <= Severity(q.classification),
           Strength(p.privacy) <= Strength(q.privacy),
           NEW forced, NEW available
    PROVE  Candidates(routes, q, forced, available) \subseteq Candidates(routes, p, forced, available)
<1> SUFFICES ASSUME NEW r \in routes, Satisfies(r, q) PROVE Satisfies(r, p)
  BY DEF Candidates
<1>1. Strength(RequiredPrivacy(p)) <= Strength(RequiredPrivacy(q)) /\ RequiredPrivacy(p) \in Modes
  BY PrivacyOnlyGrows DEF RequiredPrivacy, GatewayRequest, Modes
<1>2. RequiredPrivacy(p) \in r.modes
  BY <1>1 DEF Satisfies
<1>3. /\ q.input = p.input /\ q.output = p.output /\ q.capabilities = p.capabilities
      /\ q.regions = p.regions /\ q.maxCost = p.maxCost /\ q.maxLatency = p.maxLatency
  BY DEF GatewayRequest
<1> QED  BY <1>2, <1>3 DEF Satisfies, PredictedCost

(***************************************************************************)
(* Ranking is total and without cycles when ids have their own ranks, so   *)
(* the best route exists and the order of the attempts is one.             *)
(***************************************************************************)
THEOREM RankingIsStrict ==
    ASSUME NEW r \in Route, NEW s \in Route, NEW t \in Route, NEW q \in GatewayRequest,
           \A a \in STRING : IdRank(a) \in Int
    PROVE  /\ ~(Precedes(r, s, q) /\ Precedes(s, r, q))
           /\ Precedes(r, s, q) /\ Precedes(s, t, q) => Precedes(r, t, q)
           /\ IdRank(r.id) # IdRank(s.id) => Precedes(r, s, q) \/ Precedes(s, r, q)
<1>1. \A a \in Route : /\ PredictedCost(a, q) \in Int
                       /\ Utility(a, q) \in Int
                       /\ IdRank(a.id) \in Int
  <2> SUFFICES ASSUME NEW a \in Route
               PROVE  /\ PredictedCost(a, q) \in Int
                      /\ Utility(a, q) \in Int
                      /\ IdRank(a.id) \in Int
    OBVIOUS
  <2>1. PredictedCost(a, q) \in Int
    BY DEF PredictedCost, Route, GatewayRequest
  <2>2. a.quality \in Int /\ a.latency \in Int /\ q.maxLatency \in Int /\ q.maxCost \in Int
        /\ a.id \in STRING
    BY DEF Route, GatewayRequest
  <2> DEFINE budget == IF q.maxCost > 0 THEN q.maxCost ELSE 1
             spent  == IF q.maxCost > 0 THEN PredictedCost(a, q) ELSE 0
  <2>3. Utility(a, q) = 55 * a.quality * q.maxLatency * budget - 2500 * a.latency * budget
                          - 2000 * spent * q.maxLatency
    BY DEF Utility
  <2>4. budget \in Int /\ spent \in Int
    BY <2>1, <2>2
  <2> HIDE DEF budget, spent
  <2>5. 55 * a.quality * q.maxLatency * budget \in Int
    <3>1. 55 * a.quality \in Int
      BY <2>2
    <3>2. 55 * a.quality * q.maxLatency \in Int
      BY <2>2, <3>1, Product
    <3> QED  BY <2>4, <3>2, Product
  <2>6. 2500 * a.latency * budget \in Int /\ 2000 * spent * q.maxLatency \in Int
    <3>1. 2500 * a.latency \in Int /\ 2000 * spent \in Int
      BY <2>2, <2>4
    <3> QED  BY <2>2, <2>4, <3>1, Product
  <2>7. PICK x \in Int, y \in Int, z \in Int :
           /\ x = 55 * a.quality * q.maxLatency * budget
           /\ y = 2500 * a.latency * budget
           /\ z = 2000 * spent * q.maxLatency
    BY <2>5, <2>6
  <2>8. Utility(a, q) = x - y - z
    BY <2>3, <2>7
  <2>9. Utility(a, q) \in Int
    BY <2>8, Difference
  <2> QED  BY <2>1, <2>2, <2>9
<1> QED  BY <1>1 DEF Precedes

=============================================================================
