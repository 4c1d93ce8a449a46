--------------------------- MODULE CircuitBreaker ---------------------------
(***************************************************************************)
(* The circuit breakers of one gateway process and the provider attempts   *)
(* that use them (control/circuit_breaker.py, called from the two attempt  *)
(* loops of control/service.py).                                           *)
(*                                                                         *)
(* An attempt calls before_request, then waits for a provider: any number  *)
(* of other attempts run meanwhile, and the wait may last longer than the  *)
(* recovery interval (max_latency_ms goes up to 600 s, recovery_seconds    *)
(* is 30 s by default).  It ends in one of three ways: record_success,     *)
(* record_failure, or without telling the circuit anything.  The last      *)
(* happens when the answer violates the JSON schema (SchemaViolationError) *)
(* and when the request is cancelled or fails with an exception the loop   *)
(* does not catch.                                                         *)
(***************************************************************************)
EXTENDS Circuit

CONSTANTS
    Routes,     \* route ids
    Attempts,   \* slots for attempts that run at the same time
    Idle        \* a slot that runs no attempt

ASSUME BreakerAssumption == Idle \notin Routes

VARIABLES
    circuits,   \* route -> circuit: CircuitBreakers._circuits
    at,         \* slot -> the route its attempt runs on, or Idle
    admitted,   \* slot -> the state before_request returned to it
    probes,     \* history: route -> probes admitted since it turned half-open
    overtaken   \* history: running probes whose half-open period another
                \* attempt's verdict has ended

vars == <<circuits, at, admitted, probes, overtaken>>

TypeOK ==
    /\ circuits \in [Routes -> Circuits]
    /\ at \in [Attempts -> Routes \cup {Idle}]
    /\ admitted \in [Attempts -> {"closed", "half_open"}]
    /\ probes \in [Routes -> Nat]
    /\ overtaken \subseteq Attempts

\* Attempts in flight that were admitted as the probe of a half-open circuit.
Probing(r) == {a \in Attempts : at[a] = r /\ admitted[a] = "half_open"}

-----------------------------------------------------------------------------

Init ==
    /\ circuits = [r \in Routes |-> Fresh]
    /\ at = [a \in Attempts |-> Idle]
    /\ admitted = [a \in Attempts |-> "closed"]
    /\ probes = [r \in Routes |-> 0]
    /\ overtaken = {}

\* is_available, as router.decide calls it for every route it considers.
Check(r) ==
    /\ circuits' = [circuits EXCEPT ![r] = Advance(@)]
    /\ UNCHANGED <<at, admitted, probes, overtaken>>

\* snapshots: every circuit is advanced while it is listed.
Snapshots ==
    /\ circuits' = [r \in Routes |-> Advance(circuits[r])]
    /\ UNCHANGED <<at, admitted, probes, overtaken>>

\* before_request lets the attempt through.
Begin(a, r) ==
    /\ at[a] = Idle
    /\ ~Refuses(circuits[r])
    /\ circuits' = [circuits EXCEPT ![r] = Admit(@)]
    /\ at' = [at EXCEPT ![a] = r]
    /\ admitted' = [admitted EXCEPT ![a] = circuits'[r].state]
    /\ probes' = [probes EXCEPT ![r] = IF circuits'[r].state = "half_open" THEN @ + 1 ELSE @]
    /\ UNCHANGED overtaken

\* before_request raises CircuitOpenError: the attempt is not made.
Refuse(r) ==
    /\ Refuses(circuits[r])
    /\ circuits' = [circuits EXCEPT ![r] = Advance(@)]
    /\ UNCHANGED <<at, admitted, probes, overtaken>>

\* The attempt is over; c is what its verdict makes of the circuit.
Record(a, c) ==
    /\ circuits' = [circuits EXCEPT ![at[a]] = c]
    /\ at' = [at EXCEPT ![a] = Idle]
    /\ admitted' = [admitted EXCEPT ![a] = "closed"]
    /\ probes' = [probes EXCEPT ![at[a]] = 0]
    /\ overtaken' = (overtaken \cup Probing(at[a])) \ {a}

\* record_success after a provider answer that satisfies the schema.
Succeed(a) == at[a] # Idle /\ Record(a, Success(circuits[at[a]]))

\* record_failure after a ProviderError or the end of the request's deadline.
Fail(a) == at[a] # Idle /\ Record(a, Failure(circuits[at[a]]))

\* The attempt ends without a verdict.
Abandon(a) ==
    /\ at[a] # Idle
    /\ at' = [at EXCEPT ![a] = Idle]
    /\ admitted' = [admitted EXCEPT ![a] = "closed"]
    /\ overtaken' = overtaken \ {a}
    /\ UNCHANGED <<circuits, probes>>

\* Time passes on the monotonic clock.
Tick ==
    /\ circuits' = [r \in Routes |-> Elapse(circuits[r])]
    /\ UNCHANGED <<at, admitted, probes, overtaken>>

Finish(a) == Succeed(a) \/ Fail(a) \/ Abandon(a)

Next ==
    \/ \E r \in Routes : Check(r) \/ Refuse(r)
    \/ \E a \in Attempts, r \in Routes : Begin(a, r)
    \/ \E a \in Attempts : Succeed(a) \/ Fail(a) \/ Abandon(a)
    \/ Snapshots
    \/ Tick

Spec == Init /\ [][Next]_vars

(***************************************************************************)
(* The clock does not stop, and every attempt ends: it runs under          *)
(* asyncio.timeout(remaining).  Nothing is assumed about new requests.     *)
(***************************************************************************)
Fairness == WF_vars(Tick) /\ \A a \in Attempts : WF_vars(Finish(a))

FairSpec == Spec /\ Fairness

-----------------------------------------------------------------------------
(* Safety                                                                  *)

(***************************************************************************)
(* What the fields of a circuit say of each other in every reachable       *)
(* state: opened_at is set exactly while the circuit is not closed, a      *)
(* closed circuit is below the threshold, a half-open one has waited the   *)
(* whole recovery interval, and only a half-open one has a probe.          *)
(***************************************************************************)
CircuitsConsistent == \A r \in Routes : Consistent(circuits[r])

(***************************************************************************)
(* A half-open period admits at most one probe, however many requests, in  *)
(* whatever order, ask for it while the first is still waiting.            *)
(***************************************************************************)
OneProbePerEpisode == \A r \in Routes : probes[r] <= 1

(***************************************************************************)
(* Of the probes in flight on a route, at most one decides the current     *)
(* half-open period: any other was overtaken by a verdict of an attempt    *)
(* that was not the probe.  This is what is left of "only one half-open    *)
(* probe may run" (see OneProbeRuns).                                      *)
(***************************************************************************)
OneCurrentProbe ==
    \A r \in Routes : \A a, b \in Probing(r) \ overtaken : a = b

(***************************************************************************)
(* A step that admits an attempt on a route finds the circuit closed, or   *)
(* finds that Recovery units have passed since the latest failure that     *)
(* left it open: an open circuit never lets a request through early.       *)
(***************************************************************************)
AdmissionIsRested ==
    [][\A a \in Attempts, r \in Routes :
          at[a] = Idle /\ at'[a] = r =>
             \/ circuits[r].state = "closed"
             \/ circuits[r].openFor = Recovery]_vars

\* No attempt is left that could ever settle the probe of the circuit.
Orphaned(r) ==
    /\ circuits[r].state = "half_open"
    /\ circuits[r].probe
    /\ \A a \in Attempts : at[a] # r

(***************************************************************************)
(* A route whose probe ended without a verdict, with no other attempt in   *)
(* flight, stays out of service until the process restarts: no call, and   *)
(* no passage of time, brings it back.                                     *)
(***************************************************************************)
OrphanIsForever == [][\A r \in Routes : Orphaned(r) => Orphaned(r)']_vars

-----------------------------------------------------------------------------
(* Liveness, under FairSpec                                                *)

(***************************************************************************)
(* Again and again a route is available, unless it was orphaned: an open   *)
(* circuit always gets its probe, and a probe that ends with a verdict     *)
(* always leads to another chance.                                         *)
(***************************************************************************)
RecoversOrOrphaned ==
    \A r \in Routes : []<>(IsAvailable(circuits[r]) \/ Orphaned(r))

-----------------------------------------------------------------------------
(* What the documentation says of the breaker, and the code does not do    *)

(***************************************************************************)
(* docs/reliability.md:100: "Only one half-open probe may run."            *)
(***************************************************************************)
OneProbeRuns == \A r \in Routes : \A a, b \in Probing(r) : a = b

(***************************************************************************)
(* docs/reliability.md:93-97 and docs/operations.md:92: half-open leads to *)
(* open or to closed, so a route is available again and again.             *)
(***************************************************************************)
AlwaysRecovers == \A r \in Routes : []<>IsAvailable(circuits[r])

=============================================================================
