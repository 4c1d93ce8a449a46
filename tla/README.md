# Verification of the Aegis multi-model gateway

TLA+ modules that model the gateway of this repository (`src/aegis_gateway`), TLC
configurations that check them on small instances, and proofs checked by TLAPS.
`PROJECT.json` maps every definition to the lines it stands for; paths there start with
`src/` for the root of the repository.

## The system

One asyncio process serves requests. Its parts, their state and what connects them:

| Component | State | Operations | What makes it correct | Modelled |
|---|---|---|---|---|
| Circuit breakers (`control/circuit_breaker.py`) | one circuit per route: state, failures, `opened_at`, probe flag | `is_available`, `before_request`, `record_success`, `record_failure`, `snapshots` | no admission before the recovery interval, one probe per half-open period, a route always gets another chance | yes |
| Rate limiter (`control/rate_limit.py`) | one bucket per tenant | `consume` | grants exactly what burst and rate allow; the retry delay it tells is right to half a millisecond | yes |
| Gateway service, complete responses (`control/service.py`) | local state of each call; the set of background tasks | `generate`, shadows, assessments, `aclose` | fallback in order, complete evidence, isolated cache lanes, orderly shutdown | yes |
| Gateway service, streaming | as above, plus what the client has received | `stream`, and the response it feeds | no fallback after a delta, evidence before `done`, the end told is the end recorded | yes |
| Semantic cache (`control/cache.py`) | LRU of entries with scope, vector and expiry | `get`, `put`, `clear`, `size` | never crosses a scope, bounded, never stale | yes |
| Policy router (`control/router.py`) | the catalogue | `decide` | hard filters before preference and utility, restricted data stays local, one order | yes |
| Releases (`control/release.py`, `control/registry.py`) | tables `releases`, `rollback_events` | `create`, `start_canary`, `promote`, `rollback`, `assess`, `assignment` | a promotion leaves one active release of its name, breaches are acted on, rollbacks are accounted for | yes |
| Artifacts (`control/registry.py`) | table `artifacts` | `put`, `get` | a version never changes; the latest is the latest | yes |
| Evaluation (`control/evaluation.py`) | none of its own | `run`, `enforce_release_gate` | every case has a result; the gate follows the thresholds | yes |
| Evidence (`control/registry.py`) | tables `request_metrics`, `evaluation_runs` | `record_metric`, `put_evaluation`, `summary` | append-only; summaries are right | partly |
| Provider adapters (`providers/`) | HTTP clients | `complete`, `stream`, `health` | every failure becomes a typed error, every frame its events | partly |
| Telemetry (`control/telemetry.py`) | Prometheus counters | `record`, `event` | mirrors the evidence | partly |
| API and lifecycle (`api/app.py`, `runtime.py`) | none | HTTP handlers, start, shutdown | operations reach the right component | partly |
| Domain types, configuration, errors | none | validation | | no |

**Interaction.** A handler calls `generate` or `stream`, which asks in turn the artifact registry
(prompt), the limiter, the release manager (lane), the cache, the router (which asks the breakers),
then loops over candidates: breaker, provider, breaker; then evidence, cache, background shadow and
assessment. A stream gives every event to its client on the way. Operators act on the same release
tables through the control API, an assessment acts on the rows the calls wrote, and a canary starts
behind an evaluation that makes calls of its own.

**Where the difficulty is.** Coroutines interleave only at real waits: SQLite, provider calls
and yields of a stream. The in-memory components hold an `asyncio.Lock` around code that has no
await, so each of their methods is one step. What is hard is everything that spans waits: an
attempt whose verdict arrives in another state of its circuit; a client that leaves at a yield;
a lane chosen before a release changed; operations that read in one transaction and write in
another; background tasks at shutdown; a crash between two transactions. `PROJECT.json` lists
these hazards at their lines with the properties that cover them; those that no property covers
have a note that says why.

## The modules

| Module | Models | Composed from |
|---|---|---|
| `Circuit` | one circuit as a value, each method as an operator | |
| `CircuitBreaker` | circuits and the provider attempts around them | `Circuit` |
| `TokenBucket` | the limiter | |
| `GatewayService` | `generate` for several calls, with circuits, cache, evidence, background tasks, shutdown | `Circuit` |
| `ProviderAdapter` | events, framing and error codes of the adapters | |
| `GatewayStream` | `stream` beside `generate`, and the clients of the responses | `GatewayService`, `ProviderAdapter` |
| `StreamCompletion` | `GatewayStream` with the done events it ignores | `GatewayStream` |
| `PolicyRouter` | filters, cost, utility and order of `decide` | |
| `ReleaseControl` | releases under operators, canary traffic, assessments and crashes | `Guardrails` |
| `Guardrails` | error rate and percentile against their limits | |
| `ArtifactPromise` | abstract specification of the artifact registry | |
| `ArtifactRegistry` | `put` and `get` as transactions, with errors and crashes; implements `ArtifactPromise` | `ArtifactPromise` |
| `EvaluationRunner` | evaluation runs and the release gate over a registry in use | `ArtifactRegistry`, `Guardrails` |
| `CacheIdentity` | what identifies a request to the cache: scope, text, similarity | |
| `CachePromise` | abstract specification of the cache | `CacheIdentity` |
| `SemanticCache` | the LRU cache and the calls that use it; implements `CachePromise` | `CacheIdentity`, `CachePromise` |
| `*_proofs` | theorems about the module of that name | that module, TLAPS |
| `MC*` | instances for TLC; the values are in the cfg files | the module of that name |

Definitions called a *mutant* in their comment are plausible mistakes in the definition that
follows them. No specification uses them: they serve to confirm that each property fails when
the code is wrong in that way.

### Circuit and CircuitBreaker

`_advance`, `is_available`, `before_request`, `record_success` and `record_failure` are `Advance`,
`IsAvailable`, `Refuses`/`Admit`, `Success` and `Failure`. The code only compares
`clock() - opened_at` with the recovery interval, so `openFor` counts the time since
`opened_at` up to that interval; `failures` stops at the threshold, after which no test of it
changes. In `CircuitBreaker` an attempt occupies a slot from `Begin` (admitted) to `Succeed`,
`Fail` or `Abandon`. `Abandon` is the end without a verdict: a schema violation, which the
service deliberately keeps away from the circuit, an exception its loop does not catch, or a
client that leaves. `admitted`, `probes` and `overtaken` are history.

### TokenBucket

`Grant` and `Reject` are the two outcomes of `consume`. Tokens and time are integers; the
rounding of floats is not modelled, except in the delay a refusal tells: it is printed with three
decimals, so `RetryAfter` is the nearest number of milliseconds, either one at a tie, and
a millisecond is `Resolution` units of time. A caller that comes back exactly as told may therefore be
refused again. `spent[k][s]` is what tenant `k` was granted since time `s`, so one
invariant speaks of every window. `promise` is the retry delay last told to the tenant.

### GatewayService

`call[c]` holds the local variables of a coroutine: `pc` is the wait it is at, `left` the
candidates not yet tried, `fallbacks` and `failed` the `fallback_count` and whether
`last_error` is set. `Proceed` is the attempt loop from one provider call to the next, including
the candidates refused by their circuits and the deadline noticed on the way (`cut`). What the policy
filters and the ranking say is arbitrary here; that a forced call has no other candidate, and that a
preferred candidate goes first, is the code's. The release state an assignment finds is read
from the database, which operators change at any time, so each assignment finds any of
`LiveStates`. `BeginShutdown` waits for the requests in flight, as the HTTP server does before
it ends the lifespan; `CloseProviders` is the rest of `aclose`.

### GatewayStream, ProviderAdapter and StreamCompletion

Calls of kind `stream` share with `generate` all steps but those of the attempt. `stream[c]` is
what the generator holds of the response and, as history, what the client has got of it. The
generator is suspended at each `yield`: `sending` for an event of an attempt, `hit_start` and
`hit_delta` for those of a cached answer, `closing` for `done`. `Take`, `TakeHit` and `TakeDone`
are the client that takes the event, `Leave` the one that goes away, at any of these or at another wait; a
commit that SQLite has begun is finished, but nothing after it happens. Between events the
attempt may get another one (`ReadEvent`), end (`Finish`), fail (`ProviderFails`,
`StreamViolatesSchema`) or run out of time (`StreamTimesOut`). `_bounded_stream` holds
`asyncio.timeout` around its own yields: when the deadline passes while the client is being
served, it cancels the task that sends, which is `Leave`.

`ProviderAdapter` has for each adapter the events of each kind of frame, `iter_sse_json` as a
fold over lines (`SseFrames`), and the error code of each failure. Asking a streamed refusal for
its body before it was read raises `httpx.ResponseNotRead`, so its status is lost
(`RefusalError`): an invalid request, which ends a complete call, goes on to the next candidate
in a stream.

`StreamCompletion` adds only which streams have read a `done` event from their provider.

### PolicyRouter

`Satisfies` is the constraints of the request, `Candidates` adds force and circuits. `Utility`
is `_utility` times a common denominator, so that it is an integer; a factor above zero that is the
same for every route of a request leaves the order alone. `MCGatewayService` ties the module to
`Decide` of `GatewayService`: the assumption `RouterFitsTheService` says that for the catalogues
and requests listed there the router leaves exactly one order, that a forced route is
the only candidate, and a preferred candidate the first. TLC evaluates it with every run of
that module, as it does `FramingIsFaithful`, which compares `SseFrames` with a definition that
does not read line by line.

### ReleaseControl and Guardrails

An action is one SQLite transaction. A promotion is a single one (the name it reads first never
changes); `assess`, `rollback` and `start-canary` are coroutines with a program counter, and
everything they have read may be stale. `Outcome` commits the evidence row of a canary request;
its call waits for that commit and then goes on to `LaunchAssessment`. `Vanish` is a request that
fails without evidence, `Raise` a transaction or a gate that raises, or a client that leaves its stream
between the commit and the launch, `Crash` the death of the process: the tables stay.
A release is created in any of `InitialStates`, `active` among them.
Every row counts as good or bad; the p99 and schema guardrails read the same rows in the same
transaction as the error rate and are not modelled separately. `rollbacks`, `lost`, `due` and `fresh`
(the releases created since the latest promotion of their name) are history.

`RateExceeds` is `1 - rate > limit` as the double precision of the code has it: for the
percentages in `RoundedUp` (the default 5 among them, since `1 - 0.95` is above `0.05`) a rate that
equals the limit exceeds it. `Percentile` is `_percentile`, compared in `MCEvaluationRunner`
with sorting and with counting (`PercentileIsNearestRank`).

### ArtifactPromise, ArtifactRegistry and EvaluationRunner

`put` is an `INSERT` and, if the primary key refuses it, a `SELECT` in another connection to
compare the hash. `Insert`, `ReturnNew` and `Compare` are its steps, `FailPut` an error of the
database, `Crash` the death of the process. `created_at` is stamped when the call begins, before it waits
for the lock. `receipts` (what callers were told is registered) and `since` (which registrations
began after which were reported) are history. Two things are assumed of the clock: it is not set back,
and the connection of `put` takes longer than its resolution of a microsecond.

`ArtifactPromise` has no rows or transactions: a registration is asked for, takes effect at one
instant, and is told or lost. `ArtifactRegistry` implements it with the instant at the `INSERT`,
also when it fails: by then it is settled whether the call will find its own content or another.

In `EvaluationRunner` a job is a request for an evaluation, alone or for `start-canary`: it
loads a version of the dataset, makes a call per case, stores the run, and is judged. Others register
versions meanwhile. A case is answered with some quality and latency, or raises. Of its schema it
matters whether there is none, `{}` or another: the service tests for `None`, so an answer to a case
with `{}` is judged, but the run tests for truth (`evaluation.py:99`), so such a case has no compliance
when its call raises (`ErrorOf`). A case without messages raises before its call and outside the
`try`, which ends the run with nothing stored (`FailJob`).

### CacheIdentity, CachePromise and SemanticCache

A key is a scope and a text; the cosine of two texts is the constant `Score`, except that a text
without tokens resembles nothing (`_cosine`). `SemanticCache` keeps `_entries` as a sequence in
the order of the `OrderedDict`, each entry with the time it has left, since the code only compares
`expires_at` with the clock. `Get`, `Put`, `Clear` and `Size` are the methods; `Get` also starts
the provider call of a miss, `Refresh` that of `cache_mode` refresh, and `Fail` ends one without
an answer. The bypass mode never reaches the cache. `recent` is history: the keys used last, as many as
there are places, with the time left of each.

`CachePromise` forgets positions, recency and lazy expiry: a map from keys to the time their
answer may still be served. A lookup returns the exact answer, else one of the nearest in the scope; an
insertion of a new key may push out one other; nothing else removes an unexpired answer but a
clear. `SemanticCache` implements it with `held` as the time left of the entry in the table.

## What the runs show

| Run | Instance | Result |
|---|---|---|
| `circuit_breaker` | 2 routes, 3 attempts, threshold 2, recovery 2 | consistent circuits; one probe per half-open period; one probe in charge; no early admission; a route that lost its probe stays lost, any other is available again and again |
| `one_probe_runs` | 1 route, 3 attempts | **violated**: two probes can run at once |
| `always_recovers` | 1 route, 2 attempts | **violated**: a route can be lost for ever |
| `token_bucket` | 2 tenants, burst 3, rate 2, calls of 1 or 3, a millisecond of 2 instants, time 0..3 | both bounds on every window, a delay right to half a millisecond |
| `gateway_service` | a request, a stream and their shadows, 2 routes with different adapters, canary or no release, one forced route | fallback accounting; complete evidence, before assessment; cache lanes; forced routes; nothing running after close; one voice per stream, told as recorded |
| `gateway_ends` | a stream with shadow, an evaluation, all cache modes and release states | every call ends; shutdown completes; evaluations leave no evidence |
| `shadow_input` | 1 request and its shadow | **violated**: the template is rendered twice |
| `stream_completion` | 1 stream, 1 route | **violated**: a stream without a `done` event of its provider is completed |
| `release_control` | 2 releases of one name created in draft or active, 2 coroutines, 3 canary rows per release, 4 commands, calls that leave, crashes | one promoted release; rollbacks accounted for; enough samples; breaches acted on |
| `auto_rollback` | 1 release | **violated**: an assessment rolls back a release promoted meanwhile |
| `semantic_cache` | 2 scopes, 4 texts of unequal similarity, 5 keys, room for 2, 2 calls, time to live 2 | well-formed LRU, the recently used is kept, the promise is kept |
| `evaluation` | 2 versions of a dataset, cases with a schema, with `{}`, with none and without messages, 2 administrators, 1 evaluation or canary start, errors and crashes | immutable artifacts, the latest is the latest, atomic registration; runs are about the version they name; a gate that opens was right |

### The violations

1. *Two probes.* Attempts A and B start while the circuit is closed. A's failures open it, it
   turns half-open, C becomes the probe. B's late verdict clears the probe flag
   (`circuit_breaker.py:84`, `:78`). After a failure and another recovery interval a second probe runs
   beside C. `docs/reliability.md:100` says only one may run. What does hold is
   `OneProbePerEpisode` and `OneCurrentProbe`.
2. *A lost route.* The probe's answer violates the response schema. No verdict is recorded,
   the circuit stays half-open with the flag set, and no later call or clock tick changes that
   (`OrphanIsForever`, also proved). `docs/reliability.md:96-97` has only success and failure.
3. *Shadow input.* The shadow copies the resolved request with its prompt reference, and
   `generate` resolves it again. `docs/release-engineering.md:131-140` lists what changes.
4. *Rollback of an active release.* `assess` tests the state in one transaction and writes in
   another. `docs/release-engineering.md:40-41` keeps the guardrail for candidates.
5. *Completion.* `stream` takes an attempt for a success when the adapter has no more events; the
   `done` event has no branch, and no adapter raises when it is missing. A response the upstream
   cuts short is recorded, cached and closed with `done`. `docs/request-lifecycle.md:228` has
   "provider done and schema valid".

### Bounds

- Attempts: three are the fewest in which a stale attempt, a probe and a second probe meet.
  Threshold 2 and recovery 2 make "one short of the bound" a state of its own.
- Token bucket: four instants drain, refill and drain a bucket of 3 at rate 2; 3 is not a
  multiple of 2, so a refill is cut off half-way. In a millisecond of two instants a bucket gains four
  tokens, so the delays of one, two and three missing tokens are rounded down, at a tie and up: the
  time told comes too early or too late. `MaxTime` stops the model's clock.
- Gateway: a request and a stream reach every pair of lanes for one cache entry, and each makes
  entries for the other; two routes make one fallback, an SSE and an NDJSON adapter give different
  events; threshold 1 lets one failure change what the next call finds. 1.2 million states.
- Releases: `MaxRows` 3 with `MinCanarySamples` 2 lets a breach appear and be lifted again;
  four commands create two releases and bring both to any pair of states a promotion can meet.
  `MaxInFlight` and `MaxCommands` bound traffic and operators.
- Cache: five keys and room for two make every insertion choose a victim, in either scope. Green
  resembles red more than blue and those two not at all, so the first match, the last and the best
  differ; with a time to live of 2 an entry used later can expire earlier.
- Evaluation: two versions and two administrators are enough for every race of two registrations
  of a key or of a name; a dataset of a case with a schema and one with `{}` tells an error from a bad
  answer and the two schemas from each other, with `MinSchema` 60 between one of two and all; another has
  no schemas and stops at a case without messages. `MaxTime` 2 leaves one instant
  between two registrations. The limits of 50 percent are met exactly but are not in
  `RoundedUp`: the smallest instance that would round (1 failure in 20 cases) is out of reach.

Symmetry is used only in runs without liveness properties; `semantic_cache` and `evaluation`
check refinements under it, which are safety and treat the permuted identifiers alike. Deadlock is
not checked where a system may stop: all calls made and the process closed, or all commands used up.

### Fairness

`CircuitBreaker`: the clock advances and every attempt ends, because it runs under
`asyncio.timeout(remaining)`. `GatewayService` and `GatewayStream`: every waiting call takes its next
step, every assessment ends, and `gather` returns when its tasks are done; nothing is assumed about
exceptions, arrivals, evictions, the clock or the decision to shut down. A provider may send events
for as long as it likes, so an attempt of a stream alternates between two waits, and neither is
enabled for good. `asyncio.timeout` is around both, and ends the attempt at the provider's wait or the
call at the client's: that is the one strong fairness, on the two outcomes together. At the yields outside an
attempt the client takes the event or leaves. `ReleaseControl`: a coroutine whose transaction can run
is resumed, and a call whose evidence is committed goes on to launch its assessment unless it
raises or its client leaves; gates, operators, traffic and crashes owe nothing.

## What is proved

Checked by `tlapm` for every value of the constants allowed by the `ASSUME`s. Every safety invariant
the runs check is stated by a theorem of its component, and so are the action properties and both
refinements.

- **CircuitBreaker_proofs**, of one circuit: each method keeps `Consistent`; a refusal changes
  nothing; a route is reported available exactly when it would admit. Of the calls around them:
  `TypeOK`, `CircuitsConsistent`, `OneProbePerEpisode`, `OneCurrentProbe`, `AdmissionIsRested`,
  `OrphanIsForever`. The inductive invariant `IInv` adds
  two facts: the probe flag is set whenever a probe was admitted in the current half-open period
  (`FlagCountsProbes`), and a probe that was not overtaken holds the flag (`ProbeHoldsFlag`).
  Without them a state with one probe running and a cleared flag would admit a second.
- **TokenBucket_proofs**: `TypeOK`, `NeverOverLimit`, `NeverTooStrict`, `RetryAfterIsClose`. The
  invariant ties the tokens left to the allowance left in every window, with equality in one. For the
  delay it adds that what the bucket will hold at the time told differs from the amount refused by at most
  half of what a millisecond yields (`PromiseClose`, with the difference as `Excess`) until it holds that amount; refills and time keep this.
- **GatewayStream_proofs**, of evidence, cache and shutdown: `EvidenceIsComplete`,
  `EvidenceBeforeAssessment`, `CacheLaneIsolation`, `ToldAsRecorded`, `NoWorkAfterClose` and
  `OneVoice`, for any number of requests, streams, evaluations and routes. The inductive invariant
  `Inv` adds where calls of each
  kind can be (`ForcedApart`, `Places`), that a shadow is idle until its parent is recorded
  (`ParentFirst`), that a cached answer has its row (`CachedIsRecorded`), and that while the process drains
  only shadows run and all background tasks are awaited (`Draining`): a shadow launches nothing,
  which is why gathering once is enough. Every step of a call is either a move that leaves the
  evidence alone (`MoveKeepsInv`) or writes one row (`RecordKeepsInv`); the rest of the proof
  sorts the actions into these two. `OneVoice` needs `Voice` beside it: text on its way has set
  `emitted`, so that a failure finds either no text or no way to another route.
- **GatewayStream_proofs**, of routes and accounting: `TypeOK`, `StreamTypeOK`, `FallbackAccounting`
  and `ForcedIsServedByItsRoute`, again for any number of routes. The invariant `Sane` says of
  each call (`SoundCalls`) that a forced one has its own route in hand and no other among those left
  (`OnRoute`), that nothing is counted before the first attempt (`Unrouted`), and that fallbacks,
  the route in hand and those left make up the candidates until a stream is interrupted (`Counted`);
  of each row (`SoundRows`) that it names the route its call was forced onto. The attempt loop is one
  lemma (`ProceedIsSound`) about what the loop makes of a list of candidates of any length.
- **ReleaseControl_proofs**: `RollbackHasSamples` (rows only grow, so an aged verdict still has
  its samples), `RollbacksAccounted`, `AtMostOnePromoted` and `TypeOK`. `POST /v1/control/releases` accepts
  any state, so two active releases can be created; `AtMostOnePromoted` says that this is the only way, and that
  the next promotion of the name ends it. For the accounts, the coroutines between a rollback and its event (`Pending`)
  are a finite set that a rollback enters, an event or an error leaves and a crash empties, each time
  with the counter that keeps the balance. Beside the types, the order `get_live` sorts by
  has every release that was created in one place, wherever updates move it (`Latest`, `TouchMoves`).
- **ArtifactRegistry_proofs**: `TypeOK`, `ReceiptsStayTrue`, `LatestIsNotSuperseded`, and the
  refinement `PromiseKept`: initial states map to initial states and every step to a step of
  `ArtifactPromise` or a stutter. `Inv` adds that what a call has inserted is there (`StoredIsThere`)
  and that registrations one after the other are stamped in that order (`InOrder`).
- **EvaluationRunner_proofs**: `EvalTypeOK`, `RunsNameTheirDataset` and `GateIsSound`. The first half
  is the arithmetic of the gate, about lists of any length: the percentile is one of the values,
  with at least its share of them at or below it (`RankedIsRanked`), so at most one case in a
  hundred is slower than the limit it meets (`FewAreSlow`), and what passes the gate keeps every
  limit (`PassedTheGate`). The second half follows a job from loading to the gate:
  `EvalInv` adds that a job holds one registered version, with a result for each case it has done,
  in their order and judged by a schema as the case has one, `{}` or none (`JobFits`), that a stored run is
  complete (`RunFits`), and that a gate is reached and a canary started only with the run in the table.
- **SemanticCache_proofs**: `TypeOK`, `RecentlyUsedIsKept` and the refinement `PromiseKept`, for any
  capacity, time to live, similarity and number of calls. The inductive invariant `IInv` joins the
  table to the history of use: what was used after an entry is found after it in the history as well
  (`SameOrder`), so when the first entry is evicted, the max_entries others have all come after it,
  and there is no place for it in the history (`EvictionSparesTheRecent`). Expiry, hits, insertions
  and eviction are reduced to two operations on sequences, keeping some positions (`Thinned`) and
  moving one entry to the end (`Moved`). For the refinement, a hit must be the exact or a nearest answer
  among those not expired (`HitIsSuitable`), a miss must have none (`MissIsJustified`), and an
  insertion may push out one other answer, and none when it replaces its own (`PutRefines`).
- **PolicyRouter_proofs**: a request that asks for more never gets another candidate; every
  route attempted for restricted data offers local processing and for confidential data zero retention
  (`RestrictedStaysLocal`); a stricter classification or privacy mode adds no candidate, if each
  route that offers a mode offers the weaker ones too, as in `configs/models.yaml`
  (`StricterAddsNoRoute`); the sort key is a strict order, so the order of
  attempts is determined. For every catalogue with integer prices, latencies and qualities.

Only model-checked: every liveness property (temporal reasoning under fairness and `ENABLED` are
beyond the prover), that `Percentile` and `SseFrames` agree with their reference definitions and
that the router fits the service, which TLC evaluates on the instances listed. What a recursive function or a
fold computes (the mean of the qualities, the frames of a stream of lines) is not proved for
every input: the library's induction theorems take an operator as a parameter, which the installed
provers cannot instantiate. Where counting is enough, the proofs do without: positions of a
sequence are numbered by the cardinality of the sets before them, least and greatest elements come
from the well-foundedness of the naturals, and the eviction of the cache is a pigeonhole argument. For
that reason `SemanticCache` filters its table with `Keep` and `ReleaseControl` moves a release
to the front with `Place`, both defined by positions. The five violated properties have
counterexamples, not proofs.

## Not modelled

Request payloads, serialisation, authentication, the console, configuration and logging are I/O or
declarative. Prices, latencies, utilities and tokens are integers; of floating-point arithmetic
only the comparison of rates is kept. Embeddings are reduced to their pairwise cosines, texts to
the route they come from, the checks of an evaluation case to a quality. Health checks,
listings and Prometheus counters change nothing that another part reads. `summarize_metrics`
is modelled as far as a decision depends on it; the limit of 100,000 rows it reads is not.

## Plan

1. `ReleaseControl` with a canary period: evidence summed over earlier canaries of the same
   release, a canary start that overtakes a rollback, `updated_at` taken before the write lock.
2. An abstract gate (at most one probe per episode, no admission before rest) refined by
   `CircuitBreaker`; an abstract ledger refined by `GatewayStream`.
3. The abstract gate and ledger proved to be implemented, as the registry and the cache are.
4. The entries of a cache whose clear, or whose refresh, overtakes a call in flight
   (`SemanticCache` has both behaviours; the documents say little of what is promised).
