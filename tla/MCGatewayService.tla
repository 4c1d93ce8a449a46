-------------------------- MODULE MCGatewayService --------------------------
(* Instances of GatewayStream (and so of GatewayService) for TLC: the cfg  *)
(* files give the values.                                                  *)
EXTENDS GatewayStream

\* One route of an SSE service and one of an NDJSON service.
OpenAIAndOllama == [r \in Routes |-> IF r = Baseline THEN "openai" ELSE "ollama"]

\* Requests are interchangeable (used by runs that check safety only).
Symmetry == Permutations(Online) \cup Permutations(Streams)

-----------------------------------------------------------------------------
(* iter_sse_json against its definition, for every response of up to five  *)
(* lines: the frames hold the data lines in order, every frame but the     *)
(* last is closed by an empty line, and a response that is cut short gives *)
(* the same frames up to the one it was cut in.                            *)

Responses == UNION {[1..n -> {"", "comment", "a", "b"}] : n \in 0..5}

DataOf(lines) == SelectSeq(lines, LAMBDA l : l \notin {"", "comment"})

Closed(lines) ==
    {i \in DOMAIN lines :
        /\ lines[i] = ""
        /\ \E j \in 1..(i - 1) :
             lines[j] \in {"a", "b"} /\ \A k \in (j + 1)..(i - 1) : lines[k] = "comment"}

Open(lines) == \E j \in DOMAIN lines :
    lines[j] \in {"a", "b"} /\ \A k \in (j + 1)..Len(lines) : lines[k] = "comment"

ASSUME FramingIsFaithful ==
    \A lines \in Responses :
       LET frames == SseFrames(lines)
       IN  /\ FlattenSeq(frames) = DataOf(lines)
           /\ \A i \in DOMAIN frames : frames[i] # <<>>
           /\ Len(frames) = Cardinality(Closed(lines)) + IF Open(lines) THEN 1 ELSE 0
           /\ \A n \in 0..Len(lines) :
                LET cut == SseFrames(SubSeq(lines, 1, n))
                IN  cut = <<>> \/ IsPrefix(Front(cut), frames)

-----------------------------------------------------------------------------
(* PolicyRouter against what Decide of GatewayService assumes of it: for   *)
(* every request and every preference there is exactly one order of the    *)
(* candidates; what is forced is the only candidate; what is preferred and *)
(* eligible comes first, and the rest is best first, so that no fallback   *)
(* has a better one behind it.                                             *)

RankOf(id) == CASE id = "a" -> 1 [] id = "b" -> 2 [] id = "c" -> 3

Router == INSTANCE PolicyRouter WITH IdRank <- RankOf

CatalogueRoute(id, latency, quality, modes) ==
    [id |-> id, enabled |-> TRUE, capabilities |-> {"text"}, regions |-> {"eu"}, window |-> 8,
     inPrice |-> 1, outPrice |-> IF id = "c" THEN 2 ELSE 1, latency |-> latency,
     quality |-> quality, modes |-> modes]

Catalogues ==
    {{CatalogueRoute("a", l, 50, {"standard"}), CatalogueRoute("b", 2, q, {"standard", "local_only"}),
      CatalogueRoute("c", 2, 60, m)} :
       l \in {1, 2, 9}, q \in {50, 60}, m \in {{"standard"}, {"zero_retention"}}}

RouterRequests ==
    [input : {2}, output : {2, 9}, capabilities : {{}, {"text"}}, regions : {{}, {"eu"}, {"us"}},
     classification : {"internal", "confidential", "restricted"},
     privacy : {"standard", "local_only"}, maxCost : {5, 100}, maxLatency : {4, 10}]

ASSUME RouterFitsTheService ==
    \A routes \in Catalogues, q \in RouterRequests :
    \A forced, preferred \in {Router!Anywhere, "a", "b"}, available \in SUBSET {"a", "b", "c"} :
       LET cands == Router!Candidates(routes, q, forced, available)
           orders == {o \in SetToSeqs(cands) : Router!IsOrder(o, cands, q, preferred)}
       IN  /\ forced # Router!Anywhere => \A r \in cands : r.id = forced
           /\ cands # {} =>
                /\ Cardinality(orders) = 1
                /\ \A o \in orders : \A r \in cands : r.id = preferred => o[1] = r
           /\ q.classification = "restricted" => \A r \in cands : "local_only" \in r.modes

=============================================================================
