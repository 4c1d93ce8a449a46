--------------------------- MODULE EvaluationRunner ---------------------------
(***************************************************************************)
(* Offline evaluation (control/evaluation.py) over the artifact registry:  *)
(* a run loads a dataset, calls the candidate once per case, stores its    *)
(* results, and the gate of start-canary (api/app.py) decides on them.     *)
(* Versions are registered meanwhile, and the process may die at any time. *)
(*                                                                         *)
(* What the calls do is in GatewayService; here a call answers, with a     *)
(* quality and a latency, or raises.  The thresholds of a release are      *)
(* never updated, so it does not matter when they are read.                *)
(***************************************************************************)
EXTENDS ArtifactRegistry, Guardrails

CONSTANTS
    Dataset,            \* dataset_name of all requests
    CasesOf,            \* content -> its cases
    Jobs,               \* requests for an evaluation or a canary start
    Qualities,          \* percentages _quality may come to
    Latencies,          \* latency_ms, in some unit
    MinQuality, MinSchema, MaxErrorPercent, MaxP99

\* EvaluationCase.  Of the response schema it matters whether there is one and
\* whether it is {}, of the messages whether there are any.
Case == [id : STRING, schema : {"none", "empty", "full"}, messages : BOOLEAN]

ASSUME EvaluationAssumption ==
    /\ Dataset \in Names
    /\ CasesOf \in [Contents -> Seq(Case)]
    /\ Qualities \subseteq 0..100 /\ Latencies \subseteq Nat \ {0}
    /\ {MinQuality, MinSchema, MaxErrorPercent} \subseteq 0..100 /\ MaxP99 \in Nat

VARIABLES
    job,        \* request -> its local state
    runs,       \* the rows of evaluation_runs
    started     \* history: requests whose gate let the canary start

evalVars == <<job, runs, started>>

\* EvaluationCaseResult
Result == [case : STRING, passed : BOOLEAN, quality : 0..100,
           schema : {"none", "valid", "invalid"}, latency : {0} \cup Latencies]

\* loaded: the artifact, once it is read.
Job == [pc : {"idle", "loading", "running", "storing", "gating", "ended"},
        start : BOOLEAN, loaded : SUBSET Row, results : Seq(Result)]

Idle == [pc |-> "idle", start |-> FALSE, loaded |-> {}, results |-> <<>>]

Ended == [Idle EXCEPT !.pc = "ended"]

EvalInit ==
    /\ Init
    /\ job = [j \in Jobs |-> Idle]
    /\ runs = {}
    /\ started = {}

-----------------------------------------------------------------------------
(* The run.                                                                *)

Become(j, s) == job' = [job EXCEPT ![j] = s]

\* POST /v1/control/evaluations, or start-canary.
Begin(j, start) ==
    /\ job[j].pc = "idle"
    /\ Become(j, [Idle EXCEPT !.pc = "loading", !.start = start])
    /\ UNCHANGED <<runs, started>>

\* get of a version, or of the latest, and the check of its cases.
Load(j) ==
    /\ job[j].pc = "loading"
    /\ \E found \in {RowsOf(<<Dataset, v>>) : v \in Versions} \cup {Latest(Dataset)} :
         \/ \E a \in found :
              /\ CasesOf[a.content] # <<>>
              /\ Become(j, [job[j] EXCEPT !.pc = "running", !.loaded = {a}])
         \/ /\ \A a \in found : CasesOf[a.content] = <<>>     \* not found, or invalid
            /\ Become(j, Ended)
    /\ UNCHANGED <<runs, started>>

ErrorUnjudged(c) ==             \* mutant: a case that raised has no schema compliance
    [case |-> c.id, passed |-> FALSE, quality |-> 0, schema |-> "none", latency |-> 0]

\* The call of this case raised.  Its compliance is unknown without a schema,
\* and with the schema {} as well: here the code tests whether it is true.
ErrorOf(c) == [case |-> c.id, passed |-> FALSE, quality |-> 0,
               schema |-> IF c.schema = "full" THEN "invalid" ELSE "none", latency |-> 0]

\* It answered, which it does only when the answer satisfies the schema.  The
\* service tests whether there is one: {} is satisfied by any JSON.
AnswerOf(c, quality, latency) ==
    [case |-> c.id, passed |-> quality = 100, quality |-> quality,
     schema |-> IF c.schema = "none" THEN "none" ELSE "valid", latency |-> latency]

\* What may become of a case.
OutcomesOf(c) == {ErrorOf(c)} \cup {AnswerOf(c, q, l) : q \in Qualities, l \in Latencies}

AfterCaseShort(s, cases) ==     \* mutant: the last of several cases is left out
    IF Len(s.results) + 1 >= Len(cases) THEN [s EXCEPT !.pc = "storing"] ELSE s

\* After the last case the run is stored.
AfterCase(s, cases) ==
    IF Len(s.results) = Len(cases) THEN [s EXCEPT !.pc = "storing"] ELSE s

\* The case that a job with these results has come to.
NextCase(cases, results) == cases[Len(results) + 1]

\* The next case of the dataset of j.
RunCase(j) ==
    /\ job[j].pc = "running"
    /\ \E a \in job[j].loaded :
         LET cases == CasesOf[a.content]
             case == NextCase(cases, job[j].results)
         IN  /\ case.messages
             /\ \E r \in OutcomesOf(case) :
                  Become(j, AfterCase([job[j] EXCEPT !.results = Append(@, r)], cases))
    /\ UNCHANGED <<runs, started>>

\* mutant: a run of the latest version names what is the latest at its end
RunOfLatest(j) ==
    {[job |-> j, version |-> b.key[2], results |-> job[j].results] : b \in Latest(Dataset)}

\* The EvaluationRun of j.
RunOf(j) ==
    {[job |-> j, version |-> a.key[2], results |-> job[j].results] : a \in job[j].loaded}

\* put_evaluation
StoreRun(j) ==
    /\ job[j].pc = "storing"
    /\ runs' = runs \cup RunOf(j)
    /\ Become(j, IF job[j].start THEN [job[j] EXCEPT !.pc = "gating"] ELSE Ended)
    /\ UNCHANGED started

-----------------------------------------------------------------------------
(* The gate.                                                               *)

Count(results, Test(_)) == Cardinality({i \in DOMAIN results : Test(results[i])})

TotalQuality(results) ==
    LET total[n \in 0..Len(results)] == IF n = 0 THEN 0 ELSE total[n - 1] + results[n].quality
    IN  total[Len(results)]

\* schema_compliance is None, or below the limit.
SchemaFails(results) ==
    LET known == Count(results, LAMBDA r : r.schema # "none")
        valid == Count(results, LAMBDA r : r.schema = "valid")
    IN  known > 0 /\ 100 * valid < MinSchema * known

\* enforce_release_gate
Rejects(results) ==
    LET n == Len(results)
    IN  \/ TotalQuality(results) < MinQuality * n
        \/ SchemaFails(results)
        \/ Percentile([i \in 1..n |-> results[i].latency], 99) > MaxP99
        \/ RateExceeds(Count(results, LAMBDA r : ~r.passed), n, MaxErrorPercent)

\* The release becomes a candidate (ReleaseControl!GatePasses), or
\* EvaluationGateError.
Gate(j) ==
    /\ job[j].pc = "gating"
    /\ started' = IF Rejects(job[j].results) THEN started ELSE started \cup {j}
    /\ Become(j, Ended)
    /\ UNCHANGED runs

\* A read or a write of the database raises; or there is no request to make of
\* the next case, which has no message: that raises outside the try, and the
\* results of the cases before it are dropped.
FailJob(j) ==
    /\ \/ job[j].pc \in {"loading", "storing"}
       \/ /\ job[j].pc = "running"
          /\ \E a \in job[j].loaded : ~NextCase(CasesOf[a.content], job[j].results).messages
    /\ Become(j, Ended)
    /\ UNCHANGED <<runs, started>>

-----------------------------------------------------------------------------

\* The death of the process ends all jobs; what was stored stays.
CrashJobs == job' = [j \in Jobs |-> IF job[j].pc = "idle" THEN Idle ELSE Ended]

EvalNext ==
    \/ /\ \E j \in Jobs : \/ \E start \in BOOLEAN : Begin(j, start)
                          \/ Load(j) \/ RunCase(j) \/ StoreRun(j) \/ Gate(j) \/ FailJob(j)
       /\ UNCHANGED vars
    \/ Crash /\ CrashJobs /\ UNCHANGED <<runs, started>>
    \/ Serve /\ UNCHANGED evalVars

EvalSpec == EvalInit /\ [][EvalNext]_<<vars, evalVars>>

-----------------------------------------------------------------------------

(***************************************************************************)
(* Types of the runs and the jobs; and a job that stores or judges results *)
(* has those of every case it loaded.                                      *)
(***************************************************************************)
EvalTypeOK ==
    /\ job \in [Jobs -> Job]
    /\ \A j \in Jobs : job[j].pc \in {"storing", "gating"} =>
          \A a \in job[j].loaded : Len(job[j].results) = Len(CasesOf[a.content])
    /\ runs \subseteq [job : Jobs, version : Versions, results : Seq(Result)]
    /\ started \subseteq Jobs

(***************************************************************************)
(* docs/data-model.md:191: the evidence of a run can be interpreted for    *)
(* ever: the version it names is registered, and its results are those of  *)
(* the cases that are in that version now, one for each and in order.      *)
(***************************************************************************)
RunsNameTheirDataset ==
    \A r \in runs : \E a \in RowsOf(<<Dataset, r.version>>) :
       /\ Len(r.results) = Len(CasesOf[a.content])
       /\ \A i \in DOMAIN r.results : r.results[i].case = CasesOf[a.content][i].id

(***************************************************************************)
(* docs/release-engineering.md:167: a canary starts only behind a stored   *)
(* run of its dataset.  Of all cases of the version the run names, errors  *)
(* included, no more than the limit have failed, no more than one in a     *)
(* hundred were slower than the limit, and of those with a schema no more  *)
(* than the limit were left without a valid answer.  A case with the       *)
(* schema {} counts among the last only if it was answered: when its call  *)
(* raises, evaluation.py:99 takes {} for no schema.                        *)
(***************************************************************************)
GateIsSound ==
    \A j \in started : \E r \in runs :
       /\ r.job = j
       /\ \E a \in RowsOf(<<Dataset, r.version>>) :
            LET cases == CasesOf[a.content]
                n == Len(cases)
                passed == {i \in 1..n : r.results[i].passed}
                slow == {i \in 1..n : r.results[i].latency > MaxP99}
                answered == {i \in 1..n : r.results[i].latency > 0}
                schemas == {i \in 1..n : \/ cases[i].schema = "full"
                                         \/ cases[i].schema = "empty" /\ i \in answered}
                valid == {i \in schemas : r.results[i].schema = "valid"}
            IN  /\ 100 * (n - Cardinality(passed)) <= MaxErrorPercent * n
                /\ 100 * Cardinality(slow) <= n
                /\ 100 * Cardinality(valid) >= MinSchema * Cardinality(schemas)

=============================================================================
