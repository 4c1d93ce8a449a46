------------------------------- MODULE Circuit -------------------------------
(***************************************************************************)
(* One circuit of control/circuit_breaker.py as a value, and each method   *)
(* of CircuitBreakers as an operator on it.  Every method body runs under  *)
(* an asyncio.Lock and contains no await, so on the single event loop of   *)
(* the gateway a call is one indivisible step: an operator here.           *)
(*                                                                         *)
(* opened_at is kept as openFor, the number of clock units that have       *)
(* passed since it was set, because the code only ever reads it in         *)
(* "clock() - opened_at >= recovery"; counting stops at Recovery, where    *)
(* that test has become true for good.  consecutive_failures stops at      *)
(* FailureThreshold, beyond which no test of it changes.  A route that     *)
(* has no entry in the dictionary behaves as a Fresh circuit (setdefault). *)
(***************************************************************************)
EXTENDS Integers

CONSTANTS
    FailureThreshold,   \* consecutive failures that open the circuit
    Recovery            \* clock units an open circuit waits before a probe

ASSUME CircuitAssumption ==
    /\ FailureThreshold \in Nat \ {0}
    /\ Recovery \in Nat \ {0}

NotOpened == -1         \* opened_at is None

CircuitState == {"closed", "open", "half_open"}

Circuits ==
    [state : CircuitState, failures : 0..FailureThreshold,
     openFor : (0..Recovery) \cup {NotOpened}, probe : BOOLEAN]

Fresh == [state |-> "closed", failures |-> 0, openFor |-> NotOpened, probe |-> FALSE]

-----------------------------------------------------------------------------
(* Mutants of the operators below: plausible mistakes in the code.         *)

AdvanceEarly(c) ==              \* ">= recovery" off by one
    IF c.state = "open" /\ c.openFor # NotOpened /\ c.openFor >= Recovery - 1
      THEN [c EXCEPT !.state = "half_open", !.probe = FALSE]
      ELSE c

AdvanceNever(c) == c            \* the open state is never left by time

AdvanceRetrips(c) ==            \* the probe flag is also dropped in HALF_OPEN
    IF c.state # "closed" /\ c.openFor >= Recovery
      THEN [c EXCEPT !.state = "half_open", !.probe = FALSE]
      ELSE c

-----------------------------------------------------------------------------

\* _advance: an open circuit whose recovery interval is over turns half-open.
Advance(c) ==
    IF c.state = "open" /\ c.openFor # NotOpened /\ c.openFor >= Recovery
      THEN [c EXCEPT !.state = "half_open", !.probe = FALSE]
      ELSE c

\* is_available: would a request be let through?
IsAvailable(c) ==
    LET a == Advance(c)
    IN  a.state = "closed" \/ (a.state = "half_open" /\ ~a.probe)

\* before_request raises CircuitOpenError.
Refuses(c) ==
    LET a == Advance(c)
    IN  a.state = "open" \/ (a.state = "half_open" /\ a.probe)

AdmitUnmarked(c) == Advance(c)  \* mutant: the probe is not marked in flight

\* before_request returns: in HALF_OPEN the caller becomes the probe.
Admit(c) ==
    LET a == Advance(c)
    IN  IF a.state = "half_open" THEN [a EXCEPT !.probe = TRUE] ELSE a

\* record_success: closed, whatever the state was.
Success(c) == Fresh

FailureNeverTrips(c) ==         \* mutant: the threshold is not looked at
    LET f == [c EXCEPT !.probe = FALSE, !.failures = @ + 1]
    IN  IF c.state = "half_open" THEN [f EXCEPT !.state = "open", !.openFor = 0] ELSE f

FailureKeepsProbe(c) ==         \* mutant: the probe flag survives the failure
    LET n == IF c.failures < FailureThreshold THEN c.failures + 1 ELSE FailureThreshold
        f == [c EXCEPT !.failures = n]
    IN  IF c.state = "half_open" \/ n >= FailureThreshold
          THEN [f EXCEPT !.state = "open", !.openFor = 0]
          ELSE f

\* record_failure: no _advance first; (re)opens in HALF_OPEN or at the threshold.
Failure(c) ==
    LET n == IF c.failures < FailureThreshold THEN c.failures + 1 ELSE FailureThreshold
        f == [c EXCEPT !.probe = FALSE, !.failures = n]
    IN  IF c.state = "half_open" \/ n >= FailureThreshold
          THEN [f EXCEPT !.state = "open", !.openFor = 0]
          ELSE f

\* One unit of the monotonic clock passes.
Elapse(c) ==
    IF c.openFor # NotOpened /\ c.openFor < Recovery
      THEN [c EXCEPT !.openFor = @ + 1]
      ELSE c

-----------------------------------------------------------------------------

\* What the fields of a circuit say of each other between calls.
Consistent(c) ==
    /\ c.state = "closed" <=> c.openFor = NotOpened
    /\ c.state = "closed" => c.failures < FailureThreshold
    /\ c.state = "half_open" => c.openFor = Recovery
    /\ c.probe => c.state = "half_open"

=============================================================================
