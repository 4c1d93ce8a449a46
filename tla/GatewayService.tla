--------------------------- MODULE GatewayService ---------------------------
(***************************************************************************)
(* GatewayService.generate (control/service.py) for several calls that     *)
(* share one event loop: online requests, the shadow calls they spawn and  *)
(* offline evaluation cases, with the circuits, the cache, the evidence    *)
(* ledger, the background release assessments and shutdown.  What          *)
(* GatewayService.stream shares with generate is here as well, for calls   *)
(* of kind stream; the attempts of those are in GatewayStream.             *)
(*                                                                         *)
(* A coroutine gives way only where it really waits: for SQLite and for a  *)
(* provider.  An action is what runs from one such point to the next, so   *)
(* the outcome of one attempt, the bookkeeping it causes and the admission *)
(* of the next candidate are a single step, as they are in the code.       *)
(*                                                                         *)
(* One release with a baseline and a candidate route is enough to tell the *)
(* lanes of traffic apart; which lane a request gets is left open, because *)
(* it depends on the release state the database returns at that moment.    *)
(* All requests are alike for the cache: one entry per namespace.  What a  *)
(* policy, a budget or a capability makes of a route is an arbitrary set   *)
(* of eligible routes, and their ranking an arbitrary order.               *)
(***************************************************************************)
EXTENDS Circuit, FiniteSets, SequencesExt

CONSTANTS
    Routes,         \* the catalogue
    Baseline,       \* baseline_route_id of the release
    Candidate,      \* candidate_route_id of the release
    NoRoute,        \* no preferred or forced route
    Online,         \* identifiers of online requests for a complete response
    Streams,        \* identifiers of online requests for a stream
    Evals,          \* identifiers of evaluation cases
    CacheModes,     \* cache modes the online requests may ask for
    LiveStates,     \* what get_live may find: "none", "active", "candidate"
    Pinned          \* routes the compatibility endpoint may force a request onto

ASSUME ServiceAssumption ==
    /\ IsFiniteSet(Routes)
    /\ Baseline \in Routes /\ Candidate \in Routes /\ NoRoute \notin Routes
    /\ Online \cap Streams = {} /\ (Online \cup Streams) \cap Evals = {}
    /\ CacheModes \subseteq {"default", "refresh", "bypass"}
    /\ LiveStates \subseteq {"none", "active", "candidate"}
    /\ Pinned \subseteq Routes

\* Every call of generate or stream that can happen; a user's request has at
\* most one shadow.
Calls == [of : Online, kind : {"online", "shadow"}]
         \cup [of : Streams, kind : {"stream", "shadow"}]
         \cup [of : Evals, kind : {"evaluation"}]

StreamCalls == [of : Streams, kind : {"stream"}]

\* The traffic of users: neither shadow nor evaluation.
User(c) == c.kind \in {"online", "stream"}

ShadowOf(c) == [c EXCEPT !.kind = "shadow"]

\* assess() of the release a canary request belongs to, as a background task.
Assessments == [of : Online \cup Streams, kind : {"assessment"}]

AssessmentOf(c) == [c EXCEPT !.kind = "assessment"]

AssessedCall(a) == [a EXCEPT !.kind = IF a.of \in Streams THEN "stream" ELSE "online"]

-----------------------------------------------------------------------------
(* Lanes: a ReleaseAssignment, and what the call derives from it.          *)

Lane(release, preferred, canary, shadow) ==
    [release |-> release, preferred |-> preferred, canary |-> canary, shadow |-> shadow]

BlankLane == Lane(FALSE, NoRoute, FALSE, FALSE)

\* What assignment() may answer for the live release found, whatever the
\* buckets of the request are.
LanesFor(live) ==
    CASE live = "none" -> {BlankLane}
      [] live = "active" -> {Lane(TRUE, Candidate, FALSE, FALSE)}
      [] live = "candidate" ->
            {Lane(TRUE, Candidate, TRUE, FALSE)}
            \cup {Lane(TRUE, Baseline, FALSE, s) : s \in BOOLEAN}

OnlineLanes == UNION {LanesFor(live) : live \in {"none", "active", "candidate"}}

\* assignment_override of a shadow call: the release id alone.
ShadowLane == Lane(TRUE, NoRoute, FALSE, FALSE)

CanaryToo(c, l) == User(c)      \* mutant: canary traffic is cached

CacheAllowed(c, l) == User(c) /\ ~l.canary

-----------------------------------------------------------------------------

VARIABLES
    circuits,   \* route -> circuit
    call,       \* call -> its local state
    cache,      \* namespace -> the call whose response is cached, or NoEntry
    rows,       \* call -> the evidence rows written for it
    assessing,  \* release assessments scheduled or running
    phase,      \* of the process: "open", "draining", "closed"
    awaited     \* background tasks aclose() is waiting for

vars == <<circuits, call, cache, rows, assessing, phase, awaited>>

NoEntry == [of |-> "none", kind |-> "none"]

NamespaceOfLane(s) ==           \* mutant: a forced call shares the default entries
    IF s.lane.release THEN <<"release", s.lane.preferred>> ELSE <<"default", NoRoute>>

\* _cache_namespace of the call s.
Namespace(s) ==
    IF s.forced # NoRoute THEN <<"forced", s.forced>>
    ELSE IF s.lane.release THEN <<"release", s.lane.preferred>>
    ELSE <<"default", NoRoute>>

Namespaces == ({"forced", "release"} \X Routes) \cup {<<"default", NoRoute>>}

(***************************************************************************)
(* pc of a call: idle (not made), resolving (the prompt), assigning (the   *)
(* lane), calling (a provider), record_ok / record_hit / record_error      *)
(* (evidence), and the ends: done (response returned), failed (typed       *)
(* error, with evidence unless an evaluation), rejected (typed error       *)
(* before any attempt), aborted (an exception generate does not handle).   *)
(* A stream also waits at its yields: sending (an event of an attempt),    *)
(* hit_start and hit_delta (those of a cached answer), closing (done).     *)
(***************************************************************************)
Waiting == {"resolving", "assigning", "calling", "record_ok", "record_hit", "record_error",
            "sending", "hit_start", "hit_delta", "closing"}
Ended == {"done", "failed", "rejected", "aborted"}

MaxCandidates == Cardinality(Routes)

CallState ==
    [pc : Waiting \cup Ended \cup {"idle"}, mode : {"default", "refresh", "bypass"},
     forced : Routes \cup {NoRoute}, lane : OnlineLanes \cup {ShadowLane},
     usesPrompt : BOOLEAN, prompts : 0..2, route : Routes \cup {NoRoute}, left : UNION {[1..n -> Routes] : n \in 0..MaxCandidates},
     candidates : 0..MaxCandidates, fallbacks : 0..MaxCandidates, failed : BOOLEAN]

Row == [success : BOOLEAN, hit : BOOLEAN, kind : {"online", "stream", "shadow"}, canary : BOOLEAN,
        namespace : Namespaces, route : Routes]

NotMade == [pc |-> "idle", mode |-> "bypass", forced |-> NoRoute, lane |-> BlankLane,
            usesPrompt |-> FALSE, prompts |-> 0, route |-> NoRoute, left |-> <<>>, candidates |-> 0,
            fallbacks |-> 0, failed |-> FALSE]

\* A call that is over: its local variables are gone.
Over(end) == [NotMade EXCEPT !.pc = end]

Init ==
    /\ circuits = [r \in Routes |-> Fresh]
    /\ call = [c \in Calls |-> NotMade]
    /\ cache = [n \in Namespaces |-> NoEntry]
    /\ rows = [c \in Calls |-> <<>>]
    /\ assessing = {}
    /\ phase = "open"
    /\ awaited = {}

At(c, pc) == call[c].pc = pc

-----------------------------------------------------------------------------
(* The attempt loop.                                                       *)

\* mutant: the candidate in hand stays in the list
AttemptAgain(s, left, i) ==
    [s EXCEPT !.pc = "calling", !.route = left[i], !.left = SubSeq(left, i, Len(left)),
              !.fallbacks = @ + i - 1, !.failed = @ \/ i > 1]

\* The call s goes on with the i-th candidate left: those before it were
\* refused by their circuits.
Attempt(s, left, i) ==
    [s EXCEPT !.pc = "calling", !.route = left[i], !.left = SubSeq(left, i + 1, Len(left)),
              !.fallbacks = @ + i - 1, !.failed = @ \/ i > 1]

\* mutant: the deadline before the first attempt leaves no error behind
GiveUpSilently(s, left, seen) ==
    [s EXCEPT !.pc = "record_error", !.left = <<>>,
              !.route = IF seen > 0 THEN left[seen] ELSE @,
              !.fallbacks = @ + seen, !.failed = @ \/ seen > 0]

\* The loop ends without a response after `seen' refusals: the list is
\* exhausted, or the deadline has passed, which is an error of its own (and
\* counts as a fallback) only when there is no earlier one.
GiveUp(s, left, seen) ==
    LET cause == IF s.failed \/ seen > 0 THEN seen ELSE 1
    IN  [s EXCEPT !.pc = "record_error", !.left = <<>>,
                  !.route = IF cause > 0 THEN left[cause] ELSE @,
                  !.fallbacks = @ + cause, !.failed = TRUE]

SettleAll(c, s) == s    \* mutant: the error of an evaluation is recorded

\* An evaluation writes no evidence: its error is raised at once.
Settle(c, s) == IF c.kind = "evaluation" THEN Over("failed") ELSE s

(***************************************************************************)
(* From where the call s of c stands, over the candidates left, with the   *)
(* circuits circs.  The deadline is first noticed before candidate cut+1   *)
(* (cut = Len(left): not noticed), so only the first cut are tried.        *)
(***************************************************************************)
Proceed(c, s, left, circs, cut) ==
    LET open == {i \in 1..cut : ~Refuses(circs[left[i]])}
    IN  IF open = {}
          THEN /\ call' = [call EXCEPT ![c] = Settle(c, GiveUp(s, left, cut))]
               /\ circuits' = circs
          ELSE LET i == Min(open)
               IN  /\ call' = [call EXCEPT ![c] = Attempt(s, left, i)]
                   /\ circuits' = [circs EXCEPT ![left[i]] = Admit(@)]

\* router.decide, then the loop.  is_available advances every circuit.
Decide(c, s) ==
    \E eligible \in SUBSET Routes :
      LET cands == {r \in eligible : IsAvailable(circuits[r])}
          advanced == [r \in Routes |-> Advance(circuits[r])]
      IN  /\ s.forced # NoRoute => eligible \subseteq {s.forced}
          /\ \/ /\ cands = {}           \* NoEligibleRouteError
                /\ call' = [call EXCEPT ![c] = Over("rejected")]
                /\ circuits' = advanced
             \/ \E order \in SetToSeqs(cands) : \E cut \in 0..Len(order) :
                  /\ cands # {}
                  /\ s.lane.preferred \in cands => order[1] = s.lane.preferred
                  /\ Proceed(c, [s EXCEPT !.candidates = Len(order)], order, advanced, cut)

\* A cached answer that is similar enough, or router.decide.
Lookup(c, s) ==
    \/ /\ CacheAllowed(c, s.lane) /\ s.mode = "default"
       /\ cache[Namespace(s)] # NoEntry
       /\ call' = [call EXCEPT ![c] =
                      [s EXCEPT !.pc = IF c.kind = "stream" THEN "hit_start" ELSE "record_hit",
                                !.route = rows[cache[Namespace(s)]][1].route]]
       /\ UNCHANGED circuits
    \/ Decide(c, s)

-----------------------------------------------------------------------------
(* The steps of a call.                                                    *)

Shared == <<cache, rows, assessing, phase, awaited>>

End(c, end) == call' = [call EXCEPT ![c] = Over(end)]

Start(c, s) ==
    /\ phase = "open" /\ At(c, "idle")
    /\ call' = [call EXCEPT ![c] = [s EXCEPT !.pc = "resolving"]]
    /\ UNCHANGED <<circuits, Shared>>

\* POST /v1/generate.
Request(c) ==
    /\ c.kind = "online"
    /\ \E uses \in BOOLEAN, mode \in CacheModes :
          Start(c, [NotMade EXCEPT !.usesPrompt = uses, !.mode = mode])

\* POST /v1/chat/completions with the name of a route as its model.
ForcedRequest(c) ==
    /\ c.kind = "online"
    /\ \E r \in Pinned : Start(c, [NotMade EXCEPT !.mode = "default", !.forced = r])

\* EvaluationRunner.run makes the call for its next case.
Evaluate(c) ==
    /\ c.kind = "evaluation"
    /\ Start(c, [NotMade EXCEPT !.forced = Candidate])

\* How often the template is in the messages after _resolve_prompt.
Prompted(c, s) == IF s.usesPrompt THEN s.prompts + 1 ELSE s.prompts

\* _resolve_prompt (and the limiter) let the call through; what is forced
\* needs no assignment.
Resolve(c) ==
    /\ At(c, "resolving")
    /\ LET s == [call[c] EXCEPT !.prompts = Prompted(c, call[c])]
       IN  IF s.forced = NoRoute
             THEN /\ call' = [call EXCEPT ![c] = [s EXCEPT !.pc = "assigning"]]
                  /\ UNCHANGED circuits
             ELSE Lookup(c, s)
    /\ UNCHANGED Shared

\* A prompt that cannot be resolved, or an empty token bucket.
Reject(c) ==
    /\ At(c, "resolving") /\ (call[c].usesPrompt \/ User(c))
    /\ End(c, "rejected")
    /\ UNCHANGED <<circuits, Shared>>

\* assignment() answers, with the lane of the moment.
Assign(c) ==
    /\ At(c, "assigning")
    /\ \E live \in LiveStates : \E l \in LanesFor(live) :
          Lookup(c, [call[c] EXCEPT !.lane = l])
    /\ UNCHANGED Shared

\* _launch_release_assessment
Assessed(c) == IF call[c].lane.canary THEN assessing \cup {AssessmentOf(c)} ELSE assessing

\* A call of generate waits for the provider.
Completing(c) == At(c, "calling") /\ c.kind # "stream"

\* mutant: the assessment is launched before the evidence is written
AnswerThenAssess(c) ==
    /\ Completing(c)
    /\ circuits' = [circuits EXCEPT ![call[c].route] = Success(@)]
    /\ IF c.kind = "evaluation" THEN End(c, "done")
                                ELSE call' = [call EXCEPT ![c].pc = "record_ok"]
    /\ assessing' = Assessed(c)
    /\ UNCHANGED <<cache, rows, phase, awaited>>

\* The provider answers, and the answer satisfies the schema.
Answer(c) ==
    /\ Completing(c)
    /\ circuits' = [circuits EXCEPT ![call[c].route] = Success(@)]
    /\ IF c.kind = "evaluation" THEN End(c, "done")
                                ELSE call' = [call EXCEPT ![c].pc = "record_ok"]
    /\ UNCHANGED Shared

\* mutant: a failed candidate goes to the end of the list, and no circuit is told
FallbackRequeues(c, circs, cuts) ==
    Proceed(c, [call[c] EXCEPT !.failed = TRUE], Append(call[c].left, call[c].route),
            circuits, Len(call[c].left) + 1)

\* The attempt failed: on to the candidates that are left.
Fallback(c, circs, cuts) ==
    \E cut \in cuts :
       Proceed(c, [call[c] EXCEPT !.fallbacks = @ + 1, !.failed = TRUE],
               call[c].left, circs, cut)

\* SchemaViolationError: the circuit is not told.
ViolateSchema(c) ==
    /\ Completing(c)
    /\ Fallback(c, circuits, 0..Len(call[c].left))
    /\ UNCHANGED Shared

\* ProviderError, or the end of the deadline, which like an
\* invalid_provider_request ends the loop (cut = 0).
FailAttempt(c) ==
    /\ Completing(c)
    /\ Fallback(c, [circuits EXCEPT ![call[c].route] = Failure(@)], 0..Len(call[c].left))
    /\ UNCHANGED Shared

\* Any exception generate does not catch, of a provider or of SQLite: no
\* circuit, evidence row, cache entry or background task knows of it.
Abort(c) ==
    /\ call[c].pc \in Waiting \ {"resolving"}
    /\ End(c, "aborted")
    /\ UNCHANGED <<circuits, Shared>>

-----------------------------------------------------------------------------
(* Evidence, cache and background tasks.                                   *)

RowOf(c, success, hit) ==
    [success |-> success, hit |-> hit, kind |-> c.kind, canary |-> call[c].lane.canary,
     namespace |-> Namespace(call[c]), route |-> call[c].route]

WriteSuccessOnly(c, success, hit) ==    \* mutant: failures leave no evidence
    rows' = IF success THEN [rows EXCEPT ![c] = Append(@, RowOf(c, success, hit))] ELSE rows

WriteRow(c, success, hit) == rows' = [rows EXCEPT ![c] = Append(@, RowOf(c, success, hit))]

\* What is left of c once its post-response work is launched: of a stream, the
\* done event.
Concluded(c) == IF c.kind = "stream" THEN [call[c] EXCEPT !.pc = "closing"] ELSE Over("done")

\* _launch_post_response: the shadow gets the request as it was resolved,
\* with its prompt reference still in it.
Launch(c) ==
    /\ call' = IF User(c) /\ call[c].lane.shadow
                 THEN [call EXCEPT ![c] = Concluded(c),
                          ![ShadowOf(c)] = [NotMade EXCEPT !.pc = "resolving", !.forced = Candidate,
                                               !.lane = ShadowLane,
                                               !.usesPrompt = call[c].usesPrompt,
                                               !.prompts = call[c].prompts]]
                 ELSE [call EXCEPT ![c] = Concluded(c)]
    /\ assessing' = IF c.kind = "shadow" THEN assessing ELSE Assessed(c)

RecordResponse(c) ==
    /\ At(c, "record_ok")
    /\ WriteRow(c, TRUE, FALSE)
    /\ cache' = IF CacheAllowed(c, call[c].lane) /\ call[c].mode # "bypass"
                  THEN [cache EXCEPT ![Namespace(call[c])] = c] ELSE cache
    /\ Launch(c)
    /\ UNCHANGED <<circuits, phase, awaited>>

\* The response of the cached entry, which cost nothing.
RecordHit(c) ==
    /\ At(c, "record_hit")
    /\ WriteRow(c, TRUE, TRUE)
    /\ Launch(c)
    /\ UNCHANGED <<circuits, cache, phase, awaited>>

RecordError(c) ==
    /\ At(c, "record_error")
    /\ WriteRow(c, FALSE, FALSE)
    /\ End(c, "failed")
    /\ assessing' = Assessed(c)
    /\ UNCHANGED <<circuits, cache, phase, awaited>>

\* The background task a is over, well or not.
EndAssessment(a) ==
    /\ a \in assessing
    /\ assessing' = assessing \ {a}
    /\ UNCHANGED <<circuits, call, cache, rows, phase, awaited>>

\* TTL, LRU or clear() removes the entry.
Evict(n) ==
    /\ cache[n] # NoEntry
    /\ cache' = [cache EXCEPT ![n] = NoEntry]
    /\ UNCHANGED <<circuits, call, rows, assessing, phase, awaited>>

\* A unit of the circuits' clock passes (it is read only while calls run).
Tick ==
    /\ circuits' = [r \in Routes |-> Elapse(circuits[r])]
    /\ UNCHANGED <<call, Shared>>

-----------------------------------------------------------------------------
(* Shutdown.                                                               *)

\* mutant: a task that raised is never discarded
RunningOrRaised == {c \in Calls : call[c].pc \in Waiting \cup {"aborted"}}

Running == {c \in Calls : call[c].pc \in Waiting}

BackgroundOfAssessments == assessing    \* mutant: shadow tasks are not tracked

\* _background: the tasks that have not finished.
Background == {c \in Running : c.kind = "shadow"} \cup assessing

\* The server stops taking requests and has finished those in flight; then
\* lifespan calls aclose, which gathers the background tasks of that moment.
BeginShutdown ==
    /\ phase = "open"
    /\ \A c \in Running : c.kind = "shadow"
    /\ phase' = "draining"
    /\ awaited' = Background
    /\ UNCHANGED <<circuits, call, cache, rows, assessing>>

\* gather is done: the providers' clients are closed.
CloseProviders ==
    /\ phase = "draining"
    /\ awaited \cap Background = {}
    /\ phase' = "closed"
    /\ awaited' = {}
    /\ UNCHANGED <<circuits, call, cache, rows, assessing>>

-----------------------------------------------------------------------------

Step(c) ==
    \/ Resolve(c) \/ Reject(c) \/ Assign(c) \/ Answer(c) \/ ViolateSchema(c)
    \/ FailAttempt(c) \/ RecordResponse(c) \/ RecordHit(c) \/ RecordError(c)

Next ==
    \/ \E c \in Calls :
         \/ Request(c) \/ ForcedRequest(c) \/ Evaluate(c) \/ Resolve(c) \/ Reject(c) \/ Assign(c) \/ Answer(c)
         \/ ViolateSchema(c) \/ FailAttempt(c) \/ Abort(c) \/ RecordResponse(c)
         \/ RecordHit(c) \/ RecordError(c)
    \/ \E a \in Assessments : EndAssessment(a)
    \/ \E n \in Namespaces : Evict(n)
    \/ Tick
    \/ BeginShutdown
    \/ CloseProviders

Spec == Init /\ [][Next]_vars

(***************************************************************************)
(* Every coroutine the loop can run is run: a provider attempt ends at its *)
(* timeout at the latest and SQLite answers.  Nothing is assumed about     *)
(* exceptions, arrivals, evictions, the clock or the decision to close.    *)
(***************************************************************************)
Fairness ==
    /\ \A c \in Calls : WF_vars(Step(c))
    /\ \A a \in Assessments : WF_vars(EndAssessment(a))
    /\ WF_vars(CloseProviders)

FairSpec == Spec /\ Fairness

-----------------------------------------------------------------------------
(* Safety                                                                  *)

\* Types of the state, with at most one evidence row more than the code writes.
TypeOK ==
    /\ circuits \in [Routes -> Circuits]
    /\ call \in [Calls -> CallState]
    /\ cache \in [Namespaces -> Calls \cup {NoEntry}]
    /\ \A c \in Calls : rows[c] = <<>> \/ (Len(rows[c]) = 1 /\ rows[c][1] \in Row)
    /\ assessing \subseteq Assessments
    /\ phase \in {"open", "draining", "closed"}
    /\ awaited \subseteq Calls \cup Assessments

(***************************************************************************)
(* The two asserts after the loop (service.py:241-242) and the fallback    *)
(* count of the evidence: while attempt k of a decision runs, k-1          *)
(* candidates are counted as fallbacks, refused ones included; a call that *)
(* reports an error has one, with its route, and counted at least one      *)
(* fallback and never more than it had candidates.                         *)
(***************************************************************************)
FallbackAccounting ==
    \A c \in Calls :
       LET s == call[c]
       IN  /\ s.pc \in {"calling", "sending", "record_ok"} =>
                /\ s.fallbacks + 1 + Len(s.left) = s.candidates
                /\ s.failed <=> s.fallbacks > 0
           /\ s.pc = "record_error" /\ c.kind # "stream" =>
                /\ s.failed /\ s.route # NoRoute
                /\ s.fallbacks \in 1..s.candidates

(***************************************************************************)
(* docs/request-lifecycle.md: a call leaves exactly one evidence row when  *)
(* it ends with a response or a typed error after routing, none when it    *)
(* was rejected before or aborted, and an evaluation none at all.  Only a  *)
(* stream whose client leaves while its row is committed may be aborted    *)
(* with a row; the done event of a stream comes after its row.             *)
(***************************************************************************)
EvidenceIsComplete ==
    \A c \in Calls :
       IF c.kind # "evaluation" /\ call[c].pc \in {"done", "failed", "closing"}
         THEN Len(rows[c]) = 1
         ELSE rows[c] = <<>> \/ (c \in StreamCalls /\ At(c, "aborted"))

(***************************************************************************)
(* docs/architecture.md:209: evidence precedes release assessment, so the  *)
(* request that crosses a threshold is visible to the assessment it        *)
(* starts; and only canary requests start one.                             *)
(***************************************************************************)
EvidenceBeforeAssessment ==
    \A a \in assessing :
       LET c == AssessedCall(a)
       IN  rows[c] # <<>> /\ rows[c][1].canary

(***************************************************************************)
(* docs/release-engineering.md:286-290: an entry was made by a user's      *)
(* successful answer of a provider, in the lane that reads it and not in   *)
(* the canary cohort; canary, shadow and evaluation calls never see a      *)
(* cached answer, so the samples are the routes' own.                      *)
(***************************************************************************)
CacheLaneIsolation ==
    /\ \A n \in Namespaces : cache[n] # NoEntry =>
          LET w == rows[cache[n]][1]
          IN  w.kind \in {"online", "stream"} /\ w.success /\ ~w.hit /\ ~w.canary /\ w.namespace = n
    /\ \A c \in Calls : rows[c] # <<>> /\ rows[c][1].hit =>
          rows[c][1].kind \in {"online", "stream"} /\ ~rows[c][1].canary

(***************************************************************************)
(* docs/request-lifecycle.md:129-131: a call forced onto a route is        *)
(* answered by that route or not at all, from the cache as from providers, *)
(* and a shadow measures exactly the candidate.                            *)
(***************************************************************************)
ForcedIsServedByItsRoute ==
    \A c \in Calls :
       /\ call[c].forced # NoRoute
            /\ call[c].pc \in {"calling", "sending", "record_ok", "hit_start", "hit_delta",
                               "record_hit", "closing"} =>
             call[c].route = call[c].forced
       /\ c.kind = "shadow" /\ rows[c] # <<>> => rows[c][1].route = Candidate

(***************************************************************************)
(* docs/request-lifecycle.md:289: aclose waits for the tracked tasks and   *)
(* then closes the clients: once they are closed, no call and no           *)
(* assessment is running that could still need one.                        *)
(***************************************************************************)
NoWorkAfterClose == phase = "closed" => Running = {} /\ assessing = {}

-----------------------------------------------------------------------------
(* Liveness, under FairSpec                                                *)

\* Every call that was made ends: the loop over the candidates terminates
\* however the circuits and the providers behave.
EveryCallEnds == \A c \in Calls : call[c].pc = "resolving" ~> call[c].pc \in Ended

\* Shutdown is not held up for ever: aclose gets to close the clients.
ShutdownCompletes == phase = "draining" ~> phase = "closed"

-----------------------------------------------------------------------------
(* What the documentation says, and the code does not do                   *)

(***************************************************************************)
(* docs/release-engineering.md:131-140: shadow execution copies the user's *)
(* request and changes execution fields only (the table lists them), so    *)
(* the candidate sees the input the user's route saw.                      *)
(***************************************************************************)
ShadowSeesParentInput ==
    \A c \in Calls : At(c, "calling") => call[c].prompts <= 1

=============================================================================
