------------------------ MODULE CircuitBreaker_proofs ------------------------
(* What holds of CircuitBreaker for every set of routes and attempts,      *)
(* every threshold and every recovery interval.                            *)
EXTENDS CircuitBreaker, TLAPS

-----------------------------------------------------------------------------
(* The methods of one circuit.                                             *)

(***************************************************************************)
(* The filter of router.decide and the admission test agree: is_available  *)
(* answers true exactly when before_request, called in the same state,     *)
(* does not raise.                                                         *)
(***************************************************************************)
LEMMA AvailableIffAdmitted ==
    ASSUME NEW c \in Circuits
    PROVE  IsAvailable(c) <=> ~Refuses(c)
  BY DEF IsAvailable, Refuses, Advance, Circuits, CircuitState

(* A refused admission leaves the circuit as it was.                       *)
LEMMA RefusalChangesNothing ==
    ASSUME NEW c \in Circuits, c.probe => c.state = "half_open", Refuses(c)
    PROVE  Advance(c) = c
  BY DEF Refuses, Advance, Circuits, CircuitState

(* Every method maps a consistent circuit to a consistent circuit.         *)
LEMMA FreshConsistent == Fresh \in Circuits /\ Consistent(Fresh)
  BY CircuitAssumption DEF Fresh, Circuits, CircuitState, Consistent, NotOpened

LEMMA AdvanceConsistent ==
    ASSUME NEW c \in Circuits, Consistent(c)
    PROVE  Advance(c) \in Circuits /\ Consistent(Advance(c))
<1>1. CASE c.state = "open" /\ c.openFor # NotOpened /\ c.openFor >= Recovery
  <2>1. Advance(c) = [c EXCEPT !.state = "half_open", !.probe = FALSE]
    BY <1>1 DEF Advance
  <2>2. c.openFor = Recovery
    BY <1>1, CircuitAssumption DEF Circuits, NotOpened
  <2>. QED  BY <1>1, <2>1, <2>2 DEF Circuits, CircuitState, Consistent, NotOpened
<1>2. CASE ~(c.state = "open" /\ c.openFor # NotOpened /\ c.openFor >= Recovery)
  BY <1>2 DEF Advance
<1>. QED  BY <1>1, <1>2

LEMMA AdmitConsistent ==
    ASSUME NEW c \in Circuits, Consistent(c), ~Refuses(c)
    PROVE  /\ Admit(c) \in Circuits
           /\ Consistent(Admit(c))
           /\ Admit(c).state \in {"closed", "half_open"}
           /\ Admit(c).probe <=> Admit(c).state = "half_open"
           /\ ~c.probe
           /\ c.state = "closed" \/ c.openFor = Recovery
<1> DEFINE d == Advance(c)
<1>1. d \in Circuits /\ Consistent(d) /\ ~(d.state = "open") /\ ~(d.state = "half_open" /\ d.probe)
  BY AdvanceConsistent DEF Refuses
<1>2. Admit(c) = IF d.state = "half_open" THEN [d EXCEPT !.probe = TRUE] ELSE d
  BY DEF Admit
<1>3. ~c.probe
  BY <1>1 DEF Advance, Consistent
<1>4. c.state = "closed" \/ c.openFor = Recovery
  BY <1>1, CircuitAssumption DEF Advance, Circuits, CircuitState, Consistent, NotOpened
<1>5. CASE d.state = "half_open"
  <2>1. Admit(c) = [d EXCEPT !.probe = TRUE]
    BY <1>2, <1>5
  <2>. HIDE DEF d
  <2>. QED  BY <1>1, <1>3, <1>4, <1>5, <2>1 DEF Circuits, CircuitState, Consistent
<1>6. CASE d.state = "closed"
  <2>1. Admit(c) = d
    BY <1>2, <1>6
  <2>. HIDE DEF d
  <2>. QED  BY <1>1, <1>3, <1>4, <1>6, <2>1 DEF Circuits, CircuitState, Consistent
<1>. HIDE DEF d
<1>. QED  BY <1>1, <1>5, <1>6 DEF Circuits, CircuitState

LEMMA SuccessConsistent ==
    ASSUME NEW c \in Circuits
    PROVE  Success(c) \in Circuits /\ Consistent(Success(c)) /\ ~Success(c).probe
  BY FreshConsistent DEF Success, Fresh

LEMMA FailureConsistent ==
    ASSUME NEW c \in Circuits, Consistent(c)
    PROVE  Failure(c) \in Circuits /\ Consistent(Failure(c)) /\ ~Failure(c).probe
<1> DEFINE n == IF c.failures < FailureThreshold THEN c.failures + 1 ELSE FailureThreshold
           f == [c EXCEPT !.probe = FALSE, !.failures = n]
<1>1. n \in 0..FailureThreshold /\ (n < FailureThreshold => n = c.failures + 1)
  BY CircuitAssumption DEF Circuits
<1>2. /\ f \in Circuits /\ ~f.probe /\ f.failures = n
      /\ f.state = c.state /\ f.openFor = c.openFor
  <2>. HIDE DEF n
  <2>. QED  BY <1>1 DEF Circuits
<1>3. CASE c.state = "half_open" \/ n >= FailureThreshold
  <2>1. Failure(c) = [f EXCEPT !.state = "open", !.openFor = 0]
    BY <1>3 DEF Failure
  <2>2. f \in Circuits /\ ~f.probe
    BY <1>2
  <2>. HIDE DEF f, n
  <2>3. 0 \in 0..Recovery /\ "open" \in CircuitState
    BY CircuitAssumption DEF CircuitState
  <2>4. Failure(c) \in Circuits
    BY <2>1, <2>2, <2>3 DEF Circuits
  <2>5. Failure(c).state = "open" /\ Failure(c).openFor = 0 /\ Failure(c).probe = f.probe
    BY <2>1, <2>2 DEF Circuits
  <2>. QED  BY <2>2, <2>4, <2>5 DEF Consistent, NotOpened
<1>4. CASE ~(c.state = "half_open" \/ n >= FailureThreshold)
  <2>1. Failure(c) = f
    BY <1>4 DEF Failure
  <2>. HIDE DEF f, n
  <2>. QED  BY <1>1, <1>2, <1>4, <2>1, CircuitAssumption DEF Circuits, CircuitState, Consistent, NotOpened
<1>. QED  BY <1>3, <1>4

LEMMA ElapseConsistent ==
    ASSUME NEW c \in Circuits, Consistent(c)
    PROVE  /\ Elapse(c) \in Circuits
           /\ Consistent(Elapse(c))
           /\ Elapse(c).state = c.state /\ Elapse(c).probe = c.probe
  BY CircuitAssumption DEF Elapse, Circuits, CircuitState, Consistent, NotOpened

(* _advance never touches a probe flag that is set.                        *)
LEMMA AdvanceKeepsProbe ==
    ASSUME NEW c \in Circuits, Consistent(c)
    PROVE  /\ Advance(c).probe = c.probe
           /\ c.state = "half_open" => Advance(c) = c
  BY DEF Advance, Circuits, CircuitState, Consistent

-----------------------------------------------------------------------------
(* The inductive invariant.                                                *)

\* The probe flag counts the probes admitted in the current half-open period.
FlagCountsProbes ==
    \A r \in Routes : probes[r] = IF circuits[r].probe THEN 1 ELSE 0

\* A probe nobody has overtaken still holds the flag of its circuit.
ProbeHoldsFlag ==
    \A r \in Routes : \A a \in Probing(r) \ overtaken : circuits[r].probe

\* The inductive invariant.
IInv ==
    /\ TypeOK
    /\ CircuitsConsistent
    /\ FlagCountsProbes
    /\ ProbeHoldsFlag
    /\ OneCurrentProbe

-----------------------------------------------------------------------------

(* The invariant holds when the process starts.                            *)
LEMMA InitIInv == Init => IInv
<1> SUFFICES ASSUME Init PROVE IInv
  OBVIOUS
<1>1. TypeOK
  BY FreshConsistent DEF Init, TypeOK
<1>2. CircuitsConsistent /\ FlagCountsProbes
  BY FreshConsistent DEF Init, CircuitsConsistent, FlagCountsProbes, Fresh
<1>3. ProbeHoldsFlag /\ OneCurrentProbe
  BY DEF Init, ProbeHoldsFlag, OneCurrentProbe, Probing
<1>. QED  BY <1>1, <1>2, <1>3 DEF IInv

(* A step that changes circuits only in ways that keep them consistent and *)
(* keep their probe flags, and nothing else, keeps the invariant: the      *)
(* checks, the snapshots, the refusals and the passage of time.            *)
LEMMA QuietStep ==
    ASSUME IInv,
           UNCHANGED <<at, admitted, probes, overtaken>>,
           circuits' \in [Routes -> Circuits],
           \A r \in Routes : Consistent(circuits'[r]) /\ circuits'[r].probe = circuits[r].probe
    PROVE  IInv'
<1>1. TypeOK' /\ CircuitsConsistent'
  BY DEF IInv, TypeOK, CircuitsConsistent
<1>2. FlagCountsProbes'
  BY DEF IInv, FlagCountsProbes
<1>4. ProbeHoldsFlag' /\ OneCurrentProbe'
  BY DEF IInv, ProbeHoldsFlag, OneCurrentProbe, Probing
<1>. QED  BY <1>1, <1>2, <1>4 DEF IInv

(* A verdict ends the half-open period: it clears the flag, and every      *)
(* other probe in flight on the route is overtaken by it.                  *)
LEMMA RecordStep ==
    ASSUME IInv, NEW a \in Attempts, at[a] # Idle,
           NEW c \in Circuits, Consistent(c), ~c.probe,
           Record(a, c)
    PROVE  IInv'
<1>0. PICK r \in Routes : r = at[a]
  BY DEF IInv, TypeOK
<1>1. r # Idle
  BY <1>0
<1>2. /\ circuits' = [circuits EXCEPT ![r] = c]
      /\ at' = [at EXCEPT ![a] = Idle]
      /\ admitted' = [admitted EXCEPT ![a] = "closed"]
      /\ probes' = [probes EXCEPT ![r] = 0]
      /\ overtaken' = (overtaken \cup Probing(r)) \ {a}
  BY <1>0 DEF Record
<1>3. TypeOK'
  BY <1>1, <1>2 DEF IInv, TypeOK, Probing
<1>4. CircuitsConsistent' /\ FlagCountsProbes'
  BY <1>1, <1>2 DEF IInv, TypeOK, CircuitsConsistent, FlagCountsProbes
<1>5. \A q \in Routes : (Probing(q) \ overtaken)' \subseteq Probing(q) \ overtaken
  BY <1>1, <1>2, BreakerAssumption DEF IInv, TypeOK, Probing
<1>6. (Probing(r) \ overtaken)' = {}
  BY <1>1, <1>2, BreakerAssumption DEF IInv, TypeOK, Probing
<1>7. \A q \in Routes : q # r => circuits'[q] = circuits[q]
  BY <1>2 DEF IInv, TypeOK
<1>8. ProbeHoldsFlag'
  BY <1>5, <1>6, <1>7 DEF IInv, ProbeHoldsFlag
<1>9. OneCurrentProbe'
  BY <1>5 DEF IInv, OneCurrentProbe
<1>. QED  BY <1>3, <1>4, <1>8, <1>9 DEF IInv

(* An admission is a probe only if the flag was free, and then no probe    *)
(* that has not been overtaken is in flight.                               *)
LEMMA BeginStep ==
    ASSUME IInv, NEW a \in Attempts, NEW r \in Routes, Begin(a, r)
    PROVE  IInv'
<1> DEFINE c == Admit(circuits[r])
<1>1. /\ at[a] = Idle /\ at' = [at EXCEPT ![a] = r]
      /\ circuits' = [circuits EXCEPT ![r] = c]
      /\ circuits'[r] = c
      /\ admitted' = [admitted EXCEPT ![a] = c.state]
      /\ probes' = [probes EXCEPT ![r] = IF c.state = "half_open" THEN @ + 1 ELSE @]
      /\ overtaken' = overtaken
  BY DEF Begin, IInv, TypeOK
<1>2. /\ c \in Circuits /\ Consistent(c)
      /\ c.state \in {"closed", "half_open"}
      /\ c.probe <=> c.state = "half_open"
      /\ ~circuits[r].probe
  BY AdmitConsistent DEF Begin, IInv, TypeOK, CircuitsConsistent
<1>. HIDE DEF c
<1>3. TypeOK'
  BY <1>1, <1>2 DEF IInv, TypeOK
<1>4. CircuitsConsistent'
  BY <1>1, <1>2 DEF IInv, TypeOK, CircuitsConsistent
<1>5. FlagCountsProbes'
  BY <1>1, <1>2 DEF IInv, TypeOK, FlagCountsProbes
<1>6. Probing(r) \ overtaken = {}
  BY <1>2 DEF IInv, ProbeHoldsFlag
<1>7. \A q \in Routes : q # r => Probing(q)' = Probing(q) /\ circuits'[q] = circuits[q]
  BY <1>1, BreakerAssumption DEF IInv, TypeOK, Probing
<1>8. (Probing(r) \ overtaken)' \subseteq {a}
  BY <1>1, <1>6 DEF IInv, TypeOK, Probing
<1>9. (Probing(r) \ overtaken)' # {} => c.state = "half_open"
  BY <1>1, <1>6 DEF IInv, TypeOK, Probing
<1>10. ProbeHoldsFlag'
  BY <1>1, <1>2, <1>7, <1>9 DEF IInv, ProbeHoldsFlag
<1>11. OneCurrentProbe'
  BY <1>1, <1>7, <1>8 DEF IInv, OneCurrentProbe
<1>. QED  BY <1>3, <1>4, <1>5, <1>10, <1>11 DEF IInv

(* An attempt that ends without a verdict leaves the circuit alone.        *)
LEMMA AbandonStep ==
    ASSUME IInv, NEW a \in Attempts, Abandon(a)
    PROVE  IInv'
<1>1. TypeOK'
  BY DEF IInv, TypeOK, Abandon
<1>2. CircuitsConsistent' /\ FlagCountsProbes'
  BY DEF IInv, CircuitsConsistent, FlagCountsProbes, Abandon
<1>3. \A q \in Routes : (Probing(q) \ overtaken)' \subseteq Probing(q) \ overtaken
  BY BreakerAssumption DEF IInv, TypeOK, Probing, Abandon
<1>4. ProbeHoldsFlag' /\ OneCurrentProbe'
  BY <1>3 DEF IInv, ProbeHoldsFlag, OneCurrentProbe, Abandon
<1>. QED  BY <1>1, <1>2, <1>4 DEF IInv

(* Every step keeps the invariant.                                         *)
LEMMA NextIInv == IInv /\ [Next]_vars => IInv'
<1> SUFFICES ASSUME IInv, [Next]_vars PROVE IInv'
  OBVIOUS
<1>. USE DEF TypeOK, CircuitsConsistent
<1>1. ASSUME NEW r \in Routes, Check(r) PROVE IInv'
  <2>1. /\ circuits' \in [Routes -> Circuits]
        /\ \A q \in Routes : Consistent(circuits'[q]) /\ circuits'[q].probe = circuits[q].probe
    BY <1>1, AdvanceConsistent, AdvanceKeepsProbe DEF Check, IInv
  <2>. QED  BY <1>1, <2>1, QuietStep DEF Check
<1>2. ASSUME NEW r \in Routes, Refuse(r) PROVE IInv'
  <2>1. /\ circuits' \in [Routes -> Circuits]
        /\ \A q \in Routes : Consistent(circuits'[q]) /\ circuits'[q].probe = circuits[q].probe
    BY <1>2, AdvanceConsistent, AdvanceKeepsProbe DEF Refuse, IInv
  <2>. QED  BY <1>2, <2>1, QuietStep DEF Refuse
<1>3. ASSUME NEW a \in Attempts, NEW r \in Routes, Begin(a, r) PROVE IInv'
  BY <1>3, BeginStep
<1>4. ASSUME NEW a \in Attempts, Succeed(a) PROVE IInv'
  <2>1. circuits[at[a]] \in Circuits /\ at[a] # Idle
    BY <1>4 DEF Succeed, IInv
  <2>. QED  BY <1>4, <2>1, SuccessConsistent, RecordStep DEF Succeed
<1>5. ASSUME NEW a \in Attempts, Fail(a) PROVE IInv'
  <2>1. circuits[at[a]] \in Circuits /\ Consistent(circuits[at[a]]) /\ at[a] # Idle
    BY <1>5 DEF Fail, IInv
  <2>. QED  BY <1>5, <2>1, FailureConsistent, RecordStep DEF Fail
<1>6. ASSUME NEW a \in Attempts, Abandon(a) PROVE IInv'
  BY <1>6, AbandonStep
<1>7. ASSUME Snapshots PROVE IInv'
  <2>1. /\ circuits' \in [Routes -> Circuits]
        /\ \A q \in Routes : Consistent(circuits'[q]) /\ circuits'[q].probe = circuits[q].probe
    BY <1>7, AdvanceConsistent, AdvanceKeepsProbe DEF Snapshots, IInv
  <2>. QED  BY <1>7, <2>1, QuietStep DEF Snapshots
<1>8. ASSUME Tick PROVE IInv'
  <2>1. /\ circuits' \in [Routes -> Circuits]
        /\ \A q \in Routes : Consistent(circuits'[q]) /\ circuits'[q].probe = circuits[q].probe
    BY <1>8, ElapseConsistent DEF Tick, IInv
  <2>. QED  BY <1>8, <2>1, QuietStep DEF Tick
<1>9. ASSUME UNCHANGED vars PROVE IInv'
  BY <1>9, QuietStep DEF vars, IInv
<1>. QED  BY <1>1, <1>2, <1>3, <1>4, <1>5, <1>6, <1>7, <1>8, <1>9 DEF Next

(* The inductive invariant holds in every reachable state.                 *)
THEOREM Invariance == Spec => []IInv
  BY InitIInv, NextIInv, PTL DEF Spec

-----------------------------------------------------------------------------

(* The variables keep their types, the counters their bounds.              *)
THEOREM TypeCorrect == Spec => []TypeOK
  BY Invariance, PTL DEF IInv

(* opened_at, the failure count, the state and the probe flag of every     *)
(* circuit agree in every reachable state.                                 *)
THEOREM CircuitsStayConsistent == Spec => []CircuitsConsistent
  BY Invariance, PTL DEF IInv

(* A half-open period never admits a second probe.                         *)
THEOREM AtMostOneProbe == Spec => []OneProbePerEpisode
<1>1. IInv => OneProbePerEpisode
  BY DEF IInv, FlagCountsProbes, OneProbePerEpisode
<1>. QED  BY Invariance, <1>1, PTL

(* Two probes in flight on one route: one of them has been overtaken.      *)
THEOREM AtMostOneCurrentProbe == Spec => []OneCurrentProbe
  BY Invariance, PTL DEF IInv

(* No attempt is admitted through a circuit that is not closed before the  *)
(* recovery interval since the latest failure is over.                     *)
THEOREM NoEarlyAdmission == Spec => AdmissionIsRested
<1> DEFINE Rested ==
      \A a \in Attempts, r \in Routes :
          at[a] = Idle /\ at'[a] = r =>
             \/ circuits[r].state = "closed"
             \/ circuits[r].openFor = Recovery
<1>1. IInv /\ [Next]_vars => [Rested]_vars
  <2> SUFFICES ASSUME IInv, Next, NEW a \in Attempts, NEW r \in Routes,
                      at[a] = Idle, at'[a] = r
               PROVE  circuits[r].state = "closed" \/ circuits[r].openFor = Recovery
    OBVIOUS
  <2>1. r # Idle /\ at'[a] # at[a]
    BY BreakerAssumption
  <2>2. ~(\E q \in Routes : Check(q) \/ Refuse(q)) /\ ~Snapshots /\ ~Tick
    BY <2>1 DEF Check, Refuse, Snapshots, Tick
  <2>3. ~(\E b \in Attempts : Succeed(b) \/ Fail(b) \/ Abandon(b))
    BY <2>1 DEF Succeed, Fail, Abandon, Record, IInv, TypeOK
  <2>4. PICK b \in Attempts, q \in Routes : Begin(b, q)
    BY <2>2, <2>3 DEF Next
  <2>5. q = r
    BY <2>1, <2>4 DEF Begin, IInv, TypeOK
  <2>. QED  BY <2>4, <2>5, AdmitConsistent DEF Begin, IInv, TypeOK, CircuitsConsistent
<1>. QED  BY Invariance, <1>1, PTL DEF Spec, AdmissionIsRested

(* A route whose probe ended without a verdict, with no other attempt in   *)
(* flight on it, is refused for as long as the process lives.              *)
THEOREM OrphansStay == Spec => OrphanIsForever
<1> DEFINE Stays == \A r \in Routes : Orphaned(r) => Orphaned(r)'
<1>1. IInv /\ [Next]_vars => [Stays]_vars
  <2> SUFFICES ASSUME IInv, Next, NEW r \in Routes, Orphaned(r) PROVE Orphaned(r)'
    OBVIOUS
  <2>. USE DEF TypeOK, CircuitsConsistent
  <2>0. /\ circuits[r] \in Circuits /\ Consistent(circuits[r])
        /\ circuits[r].state = "half_open" /\ circuits[r].probe
        /\ \A b \in Attempts : at[b] # r
    BY DEF IInv, Orphaned
  <2>1. Advance(circuits[r]) = circuits[r] /\ Refuses(circuits[r])
    BY <2>0, AdvanceKeepsProbe DEF Refuses
  <2>2. ASSUME NEW q \in Routes, Check(q) \/ Refuse(q) PROVE Orphaned(r)'
    BY <2>0, <2>1, <2>2 DEF Check, Refuse, Orphaned, IInv
  <2>3. ASSUME NEW b \in Attempts, NEW q \in Routes, Begin(b, q) PROVE Orphaned(r)'
    <3>1. q # r
      BY <2>1, <2>3 DEF Begin
    <3>. QED  BY <2>0, <2>3, <3>1 DEF Begin, Orphaned, IInv
  <2>4. ASSUME NEW b \in Attempts, NEW c, at[b] # Idle, Record(b, c) PROVE Orphaned(r)'
    BY <2>0, <2>4, BreakerAssumption DEF Record, Orphaned, IInv
  <2>5. ASSUME NEW b \in Attempts, Succeed(b) \/ Fail(b) PROVE Orphaned(r)'
    BY <2>4, <2>5 DEF Succeed, Fail
  <2>6. ASSUME NEW b \in Attempts, Abandon(b) PROVE Orphaned(r)'
    BY <2>0, <2>6, BreakerAssumption DEF Abandon, Orphaned, IInv
  <2>7. ASSUME Snapshots PROVE Orphaned(r)'
    BY <2>0, <2>1, <2>7 DEF Snapshots, Orphaned
  <2>8. ASSUME Tick PROVE Orphaned(r)'
    BY <2>0, <2>8, ElapseConsistent DEF Tick, Orphaned
  <2>. QED  BY <2>2, <2>3, <2>5, <2>6, <2>7, <2>8 DEF Next
<1>. QED  BY Invariance, <1>1, PTL DEF Spec, OrphanIsForever

=============================================================================
