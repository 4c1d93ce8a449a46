------------------------ MODULE ReleaseControl_proofs ------------------------
(***************************************************************************)
(* The invariants of ReleaseControl, for every set of releases, names,     *)
(* coroutines and thresholds.  The inductive invariant Inv leaves out the  *)
(* order of updated_at (recency): of the others only the types depend on   *)
(* it, and their part of it is Latest.                                     *)
(***************************************************************************)
EXTENDS ReleaseControl, FiniteSetTheorems, TLAPS

ReleaseStates == {"absent", "draft", "candidate", "active", "rolled_back", "rejected"}

\* The part of the state the invariants are about.
Types ==
    /\ state \in [Releases -> ReleaseStates]
    /\ good \in [Releases -> Nat]
    /\ bad \in [Releases -> Nat]
    /\ task \in [Tasks -> Coroutines \cup {Free}]

Inv == Types /\ RollbackHasSamples

-----------------------------------------------------------------------------

\* Replacing the coroutine in one slot by one that is not about to set.
LEMMA OtherStep ==
    ASSUME Inv, NEW t \in Tasks, NEW c \in Coroutines \cup {Free},
           c = Free \/ c.pc # "set" \/ c.kind # "assess",
           task' = [task EXCEPT ![t] = c], UNCHANGED <<state, good, bad>>
    PROVE  Inv'
  BY DEF Inv, Types, RollbackHasSamples, Doing

\* A step that leaves coroutines and rows alone.
LEMMA StateStep ==
    ASSUME Inv, state' \in [Releases -> ReleaseStates], UNCHANGED <<good, bad, task>>
    PROVE  Inv'
  BY DEF Inv, Types, RollbackHasSamples, Doing

\* The promotion of r leaves well-formed states.
LEMMA ActivateType ==
    ASSUME state \in [Releases -> ReleaseStates], NEW r \in Releases
    PROVE  Activate(r) \in [Releases -> ReleaseStates]
  BY DEF Activate, ReleaseStates

\* A new coroutine is well-formed.
LEMMA NewCoroutine ==
    ASSUME NEW kind \in Kinds, NEW pc \in Steps, NEW r \in Releases
    PROVE  Coroutine(kind, pc, r) \in Coroutines
           /\ Coroutine(kind, pc, r).pc = pc /\ Coroutine(kind, pc, r).kind = kind
  BY DEF Coroutine, Coroutines

\* The rows of a release only grow.
LEMMA RecordGrows ==
    ASSUME Types, NEW r \in Releases, NEW ok \in BOOLEAN, Record(r, ok)
    PROVE  /\ state' = state
           /\ good' \in [Releases -> Nat] /\ bad' \in [Releases -> Nat]
           /\ \A s \in Releases : good[s] + bad[s] <= good'[s] + bad'[s]
  BY DEF Types, Record

-----------------------------------------------------------------------------

LEMMA InvInit == Init => Inv
  BY DEF Init, Inv, Types, RollbackHasSamples, ReleaseStates, Doing

LEMMA InvNext == ASSUME ReleaseAssumption PROVE Inv /\ [Next]_vars => Inv'
<1> SUFFICES ASSUME Inv, [Next]_vars PROVE Inv'
  OBVIOUS
<1> USE ReleaseAssumption DEF Inv
<1>1. ASSUME NEW r \in Releases, Create(r) PROVE Inv'
  <2>1. state' \in [Releases -> ReleaseStates]
    BY <1>1 DEF Create, Types, ReleaseStates, ReleaseAssumption
  <2> QED  BY <1>1, <2>1, StateStep DEF Create
<1>2. ASSUME NEW r \in Releases, Promote(r) PROVE Inv'
  BY <1>2, StateStep, ActivateType DEF Promote, SetStates, Types
<1>3. ASSUME NEW r \in Releases, Vanish(r) PROVE Inv'
  BY <1>3, StateStep DEF Vanish, Types
<1>4. ASSUME NEW t \in Tasks, NEW r \in Releases,
             StartCanary(t, r) \/ Rollback(t, r) \/ Assess(t, r)
      PROVE  Inv'
  <2>1. CASE StartCanary(t, r)
    <3>1. Coroutine("start", "gate", r) \in Coroutines /\ Coroutine("start", "gate", r).pc = "gate"
      BY NewCoroutine DEF Steps, Kinds
    <3> QED  BY <2>1, <3>1, OtherStep DEF StartCanary, Launch
  <2>2. CASE Rollback(t, r)
    <3>1. /\ Coroutine("rollback", "set", r) \in Coroutines
          /\ Coroutine("rollback", "set", r).kind = "rollback"
      BY NewCoroutine DEF Steps, Kinds
    <3> QED  BY <2>2, <3>1, OtherStep DEF Rollback, Launch
  <2>3. CASE Assess(t, r)
    <3>1. Coroutine("assess", "load", r) \in Coroutines /\ Coroutine("assess", "load", r).pc = "load"
      BY NewCoroutine DEF Steps, Kinds
    <3> QED  BY <2>3, <3>1, OtherStep DEF Assess, Launch
  <2> QED  BY <1>4, <2>1, <2>2, <2>3
<1>5. ASSUME NEW n, Arrive(n) PROVE Inv'
  BY <1>5, StateStep DEF Arrive, Types
<1>6. ASSUME NEW t \in Tasks, NEW r \in Releases, NEW ok \in BOOLEAN, Outcome(t, r, ok)
      PROVE  Inv'
  <2>1. /\ state' = state
        /\ good' \in [Releases -> Nat] /\ bad' \in [Releases -> Nat]
        /\ \A s \in Releases : good[s] + bad[s] <= good'[s] + bad'[s]
    BY <1>6, RecordGrows DEF Outcome
  <2> DEFINE c == Coroutine(IF ok THEN "response" ELSE "error", "launch", r)
  <2>2. c \in Coroutines /\ c.pc = "launch"
    BY NewCoroutine DEF Steps, Kinds
  <2>3. task' = [task EXCEPT ![t] = c]
    BY <1>6 DEF Outcome
  <2> HIDE DEF c
  <2>4. Types'
    BY <2>1, <2>2, <2>3 DEF Types
  <2>5. ASSUME NEW u \in Tasks, Doing(u, "set")', task'[u].kind = "assess"
        PROVE  good'[task'[u].release] + bad'[task'[u].release] >= MinCanarySamples
    <3>1. u # t
      BY <2>2, <2>3, <2>5 DEF Doing, Types
    <3>2. task'[u] = task[u] /\ task[u] \in Coroutines
      BY <2>3, <2>5, <3>1 DEF Types, Doing
    <3>3. good[task[u].release] + bad[task[u].release] >= MinCanarySamples
      BY <2>5, <3>2 DEF RollbackHasSamples, Doing
    <3>4. task[u].release \in Releases
      BY <3>2 DEF Coroutines
    <3> QED  BY <2>1, <3>2, <3>3, <3>4 DEF Types
  <2> QED  BY <2>4, <2>5 DEF RollbackHasSamples
<1>7. ASSUME NEW t \in Tasks, Load(t) PROVE Inv'
  <2>1. task[t] \in Coroutines
    BY <1>7 DEF Load, Doing, Types
  <2>2. [task[t] EXCEPT !.pc = "summarize"] \in Coroutines
        /\ [task[t] EXCEPT !.pc = "summarize"].pc = "summarize"
    BY <2>1 DEF Coroutines, Steps
  <2> QED  BY <1>7, <2>2, OtherStep DEF Load, GoTo, Finish
<1>15. ASSUME NEW t \in Tasks, LaunchAssessment(t) PROVE Inv'
  <2> DEFINE r == task[t].release
  <2>1. r \in Releases
    BY <1>15 DEF LaunchAssessment, Doing, Types, Coroutines
  <2>2. Coroutine("assess", "load", r) \in Coroutines /\ Coroutine("assess", "load", r).pc = "load"
    BY <2>1, NewCoroutine DEF Steps, Kinds
  <2> QED  BY <1>15, <2>2, OtherStep DEF LaunchAssessment
<1>8. ASSUME NEW t \in Tasks, Summarize(t) PROVE Inv'
  <2> DEFINE r == task[t].release
  <2>1. task[t] \in Coroutines /\ r \in Releases
    BY <1>8 DEF Summarize, Doing, Types, Coroutines
  <2>2. CASE Breach(good[r], bad[r])
    <3>1. good[r] + bad[r] >= MinCanarySamples
      BY <2>2 DEF Breach
    <3>2. task' = [task EXCEPT ![t].pc = "set"] /\ UNCHANGED <<state, good, bad>>
      BY <1>8, <2>2 DEF Summarize, GoTo
    <3>3. Types'
      BY <2>1, <3>2 DEF Types, Coroutines, Steps
    <3>4. task'[t].release = r
      BY <2>1, <3>2 DEF Types, Coroutines
    <3>5. \A u \in Tasks : u # t => task'[u] = task[u]
      BY <3>2 DEF Types
    <3> QED  BY <3>1, <3>2, <3>3, <3>4, <3>5 DEF RollbackHasSamples, Doing
  <2>3. CASE ~Breach(good[r], bad[r])
    BY <1>8, <2>3, OtherStep DEF Summarize, Finish
  <2> QED  BY <2>2, <2>3
<1>9. ASSUME NEW t \in Tasks, SetRolledBack(t) PROVE Inv'
  <2>1. task[t] \in Coroutines /\ task[t].release \in Releases
    BY <1>9 DEF SetRolledBack, Doing, Types, Coroutines
  <2>2. /\ task' = [task EXCEPT ![t].pc = "event"]
        /\ state' = [state EXCEPT ![task[t].release] = "rolled_back"]
        /\ UNCHANGED <<good, bad>>
    BY <1>9 DEF SetRolledBack, GoTo, SetStates
  <2>3. Types'
    BY <2>1, <2>2 DEF Types, Coroutines, Steps, ReleaseStates
  <2>4. task'[t].pc = "event" /\ \A u \in Tasks : u # t => task'[u] = task[u]
    BY <2>1, <2>2 DEF Types, Coroutines
  <2> QED  BY <2>2, <2>3, <2>4 DEF RollbackHasSamples, Doing
<1>10. ASSUME NEW t \in Tasks, RecordEvent(t) PROVE Inv'
  BY <1>10, OtherStep DEF RecordEvent, Finish
<1>11. ASSUME NEW t \in Tasks, GatePasses(t) PROVE Inv'
  <2>1. task[t] \in Coroutines /\ task[t].release \in Releases
    BY <1>11 DEF GatePasses, Doing, Types, Coroutines
  <2>2. /\ task' = [task EXCEPT ![t] = Free]
        /\ state' = [state EXCEPT ![task[t].release] = "candidate"]
        /\ UNCHANGED <<good, bad>>
    BY <1>11 DEF GatePasses, Finish, SetStates
  <2> QED  BY <2>1, <2>2 DEF Types, ReleaseStates, RollbackHasSamples, Doing
<1>12. ASSUME NEW t \in Tasks, Raise(t) PROVE Inv'
  BY <1>12, OtherStep DEF Raise, Finish
<1>13. CASE Crash
  BY <1>13 DEF Crash, Types, RollbackHasSamples, Doing
<1>14. CASE UNCHANGED vars
  BY <1>14 DEF vars, Types, RollbackHasSamples, Doing
<1> QED
  BY <1>1, <1>2, <1>3, <1>4, <1>5, <1>6, <1>7, <1>8, <1>9, <1>10, <1>11, <1>12, <1>13, <1>14,
     <1>15
  DEF Next

(***************************************************************************)
(* No automatic rollback is decided on fewer canary samples than the       *)
(* release asks for (assess in release.py), for any number of concurrent   *)
(* assessments, requests and crashes: rows are only ever added.            *)
(***************************************************************************)
THEOREM SamplesBeforeRollback == ASSUME ReleaseAssumption PROVE Spec => []RollbackHasSamples
<1>1. Inv => RollbackHasSamples
  BY DEF Inv
<1> QED  BY <1>1, InvInit, InvNext, PTL DEF Spec

-----------------------------------------------------------------------------

\* set_state(ACTIVE) leaves one active release of the name, and changes no
\* other name.
LEMMA ActivateKeepsOne ==
    ASSUME NEW r \in Releases, state \in [Releases -> ReleaseStates], AtMostOnePromoted,
           state' = Activate(r), fresh' = {s \in fresh : NameOf[s] # NameOf[r]}
    PROVE  AtMostOnePromoted'
<1> SUFFICES ASSUME NEW p \in Releases \ fresh', NEW q \in Releases \ fresh',
                    state'[p] = "active", state'[q] = "active", NameOf[p] = NameOf[q]
             PROVE  p = q
  BY DEF AtMostOnePromoted
<1>1. \A s \in Releases : state'[s] = "active" =>
         s = r \/ (NameOf[s] # NameOf[r] /\ state[s] = "active")
  BY DEF Activate, ReleaseStates
<1>2. CASE NameOf[p] = NameOf[r]
  BY <1>1, <1>2
<1>3. CASE NameOf[p] # NameOf[r]
  <2>1. p \notin fresh /\ q \notin fresh
    BY <1>3
  <2>2. state[p] = "active" /\ state[q] = "active"
    BY <1>1, <1>3
  <2> QED  BY <2>1, <2>2 DEF AtMostOnePromoted
<1> QED  BY <1>2, <1>3

\* Setting any other state makes no release active.
LEMMA OtherStateKeepsOne ==
    ASSUME NEW r \in Releases, NEW st \in ReleaseStates \ {"active"},
           state \in [Releases -> ReleaseStates], AtMostOnePromoted,
           state' = [state EXCEPT ![r] = st], fresh' = fresh
    PROVE  AtMostOnePromoted'
  BY DEF AtMostOnePromoted

LEMMA OnePromotedNext ==
    ASSUME ReleaseAssumption
    PROVE  Inv /\ AtMostOnePromoted /\ [Next]_vars => AtMostOnePromoted'
<1> SUFFICES ASSUME Inv, AtMostOnePromoted, [Next]_vars PROVE AtMostOnePromoted'
  OBVIOUS
<1>0. state \in [Releases -> ReleaseStates]
  BY DEF Inv, Types
<1>1. ASSUME NEW r \in Releases, Create(r) PROVE AtMostOnePromoted'
  <2>1. PICK st \in InitialStates : state' = [state EXCEPT ![r] = st]
    BY <1>1 DEF Create
  <2>2. fresh' = fresh \cup {r} /\ \A s \in Releases \ {r} : state'[s] = state[s]
    BY <1>0, <1>1, <2>1 DEF Create
  <2> QED  BY <2>2 DEF AtMostOnePromoted
<1>2. ASSUME NEW r \in Releases, Promote(r) PROVE AtMostOnePromoted'
  BY <1>0, <1>2, ActivateKeepsOne DEF Promote, SetStates
<1>3. ASSUME NEW t \in Tasks, SetRolledBack(t) \/ GatePasses(t) PROVE AtMostOnePromoted'
  <2>1. task[t].release \in Releases
    BY <1>3 DEF SetRolledBack, GatePasses, Doing, Inv, Types, Coroutines
  <2> DEFINE r == task[t].release
  <2>2. /\ \/ state' = [state EXCEPT ![r] = "rolled_back"]
           \/ state' = [state EXCEPT ![r] = "candidate"]
        /\ fresh' = fresh
    BY <1>3 DEF SetRolledBack, GatePasses, SetStates
  <2>3. {"rolled_back", "candidate"} \subseteq ReleaseStates \ {"active"}
    BY DEF ReleaseStates
  <2> HIDE DEF r
  <2> QED  BY <1>0, <2>1, <2>2, <2>3, OtherStateKeepsOne DEF r
<1>4. CASE UNCHANGED <<state, fresh>>
  BY <1>4 DEF AtMostOnePromoted
<1>5. UNCHANGED <<state, fresh>>
      \/ (\E r \in Releases : Create(r) \/ Promote(r))
      \/ (\E t \in Tasks : SetRolledBack(t) \/ GatePasses(t))
  BY DEF Next, vars, Vanish, StartCanary, Rollback, Assess, Launch, Arrive, Outcome, Record,
         LaunchAssessment, Load, Summarize, RecordEvent, Raise, Crash
<1> QED  BY <1>1, <1>2, <1>3, <1>4, <1>5

(***************************************************************************)
(* All the active releases of a name but at most one were created active   *)
(* after its latest promotion (set_state in registry.py), in whatever      *)
(* order creations in any state, promotions, rollbacks, canary starts and  *)
(* crashes happen.                                                         *)
(***************************************************************************)
THEOREM OnePromotedPerName ==
    ASSUME ReleaseAssumption PROVE Spec => []AtMostOnePromoted
<1>1. Init => AtMostOnePromoted
  BY DEF Init, AtMostOnePromoted
<1> QED  BY <1>1, InvInit, InvNext, OnePromotedNext, PTL DEF Spec

-----------------------------------------------------------------------------

\* The coroutines between the rollback of r and its event.
Pending(r) == {t \in Tasks : Unlogged(t, r)}

Counters ==
    /\ events \in [Releases -> Nat]
    /\ rollbacks \in [Releases -> Nat]
    /\ lost \in [Releases -> Nat]

Accounts == Counters /\ \A r \in Releases : rollbacks[r] = events[r] + lost[r] + Cardinality(Pending(r))

\* There are finitely many of them.
LEMMA PendingFinite ==
    ASSUME ReleaseAssumption, NEW r
    PROVE  IsFiniteSet(Pending(r)) /\ Cardinality(Pending(r)) \in Nat
<1>1. Pending(r) \in SUBSET Tasks
  BY DEF Pending
<1> QED  BY <1>1, FS_Subset, FS_CardinalityType DEF ReleaseAssumption

\* A step that neither reaches nor leaves the place before the event.
LEMMA SamePending ==
    ASSUME Accounts, UNCHANGED <<events, rollbacks, lost>>,
           \A u \in Tasks, r \in Releases : Unlogged(u, r)' <=> Unlogged(u, r)
    PROVE  Accounts'
<1>1. \A r \in Releases : Pending(r)' = Pending(r)
  BY DEF Pending
<1> QED  BY <1>1 DEF Accounts, Counters

\* Nor does replacing a coroutine that is not there by one that is not.
LEMMA ElsewhereStep ==
    ASSUME Types, Accounts, UNCHANGED <<events, rollbacks, lost>>,
           NEW t \in Tasks, ~Doing(t, "event"), NEW c, c = Free \/ c.pc # "event",
           task' = [task EXCEPT ![t] = c]
    PROVE  Accounts'
<1>1. \A u \in Tasks : u # t => task'[u] = task[u]
  BY DEF Types
<1>2. task'[t] = c
  BY DEF Types
<1>3. \A u \in Tasks, r \in Releases : Unlogged(u, r)' <=> Unlogged(u, r)
  BY <1>1, <1>2 DEF Unlogged, Doing
<1> QED  BY <1>3, SamePending

\* The coroutine in t leaves the place before the event of its release, and
\* one of the two counters takes it over.
LEMMA LeavesPending ==
    ASSUME ReleaseAssumption, Types, Accounts, NEW t \in Tasks, Doing(t, "event"),
           task' = [task EXCEPT ![t] = Free], UNCHANGED rollbacks, Counters',
           \A r \in Releases : events'[r] + lost'[r]
                               = events[r] + lost[r] + IF Unlogged(t, r) THEN 1 ELSE 0
    PROVE  Accounts'
<1> SUFFICES ASSUME NEW r \in Releases
             PROVE  rollbacks'[r] = events'[r] + lost'[r] + Cardinality(Pending(r)')
  BY DEF Accounts
<1>1. Pending(r)' = Pending(r) \ {t}
  <2>1. \A u \in Tasks : u # t => task'[u] = task[u]
    BY DEF Types
  <2>2. task'[t] = Free
    BY DEF Types
  <2> QED  BY <2>1, <2>2 DEF Pending, Unlogged, Doing
<1>2. Cardinality(Pending(r) \ {t})
        = IF t \in Pending(r) THEN Cardinality(Pending(r)) - 1 ELSE Cardinality(Pending(r))
  BY PendingFinite, FS_RemoveElement
<1>3. t \in Pending(r) <=> Unlogged(t, r)
  BY DEF Pending
<1>4. rollbacks[r] = events[r] + lost[r] + Cardinality(Pending(r))
  BY DEF Accounts
<1>5. /\ events[r] \in Nat /\ lost[r] \in Nat /\ Cardinality(Pending(r)) \in Nat
      /\ events'[r] \in Nat /\ lost'[r] \in Nat
  BY PendingFinite DEF Accounts, Counters
<1>6. Cardinality(Pending(r)') = Cardinality(Pending(r) \ {t})
  BY <1>1
<1>7. events'[r] + lost'[r] = events[r] + lost[r] + IF Unlogged(t, r) THEN 1 ELSE 0
  OBVIOUS
<1> HIDE DEF Pending
<1>8. rollbacks'[r] = rollbacks[r]
  OBVIOUS
<1>9. CASE Unlogged(t, r)
  <2>1. Cardinality(Pending(r)') = Cardinality(Pending(r)) - 1
    BY <1>2, <1>3, <1>6, <1>9
  <2>2. events'[r] + lost'[r] = events[r] + lost[r] + 1
    BY <1>7, <1>9
  <2> QED  BY <1>4, <1>5, <1>8, <2>1, <2>2
<1>10. CASE ~Unlogged(t, r)
  <2>1. Cardinality(Pending(r)') = Cardinality(Pending(r))
    BY <1>2, <1>3, <1>6, <1>10
  <2>2. events'[r] + lost'[r] = events[r] + lost[r]
    BY <1>5, <1>7, <1>10
  <2> QED  BY <1>4, <1>5, <1>8, <2>1, <2>2
<1> QED  BY <1>9, <1>10

LEMMA AccountsInit == Init => Accounts
<1> SUFFICES ASSUME Init PROVE Accounts
  OBVIOUS
<1>1. ASSUME NEW r \in Releases PROVE Cardinality(Pending(r)) = 0
  <2>1. Pending(r) = {}
    BY DEF Init, Pending, Unlogged, Doing
  <2> QED  BY <2>1, FS_EmptySet
<1> QED  BY <1>1 DEF Init, Accounts, Counters

LEMMA AccountsNext == ASSUME ReleaseAssumption PROVE Inv /\ Accounts /\ [Next]_vars => Accounts'
<1> SUFFICES ASSUME Types, Accounts, [Next]_vars PROVE Accounts'
  BY DEF Inv
<1> USE ReleaseAssumption
<1>1. ASSUME NEW t \in Tasks, NEW r \in Releases,
             StartCanary(t, r) \/ Rollback(t, r) \/ Assess(t, r)
      PROVE  Accounts'
  <2>1. PICK kind \in {"start", "rollback", "assess"}, pc \in {"gate", "set", "load"} :
          Launch(t, kind, pc, r)
    BY <1>1 DEF StartCanary, Rollback, Assess
  <2>2. Coroutine(kind, pc, r).pc # "event"
    BY DEF Coroutine
  <2>3. ~Doing(t, "event")
    BY <2>1 DEF Launch, Doing
  <2> QED  BY <2>1, <2>2, <2>3, ElsewhereStep DEF Launch
<1>2. ASSUME NEW t \in Tasks, NEW r \in Releases, NEW ok \in BOOLEAN, Outcome(t, r, ok)
      PROVE  Accounts'
  <2>1. Coroutine(IF ok THEN "response" ELSE "error", "launch", r).pc # "event"
    BY DEF Coroutine
  <2>2. ~Doing(t, "event")
    BY <1>2 DEF Outcome, Doing
  <2> QED  BY <1>2, <2>1, <2>2, ElsewhereStep DEF Outcome, Record
<1>3. ASSUME NEW t \in Tasks, Load(t) \/ Summarize(t) \/ GatePasses(t) PROVE Accounts'
  <2>1. task[t] \in Coroutines /\ ~Doing(t, "event")
    BY <1>3 DEF Load, Summarize, GatePasses, Doing, Types
  <2>2. PICK c : /\ task' = [task EXCEPT ![t] = c]
                 /\ c = Free \/ c.pc # "event"
    <3>1. [task[t] EXCEPT !.pc = "summarize"].pc # "event"
          /\ [task[t] EXCEPT !.pc = "set"].pc # "event"
      BY <2>1 DEF Coroutines
    <3> QED  BY <1>3, <3>1 DEF Load, Summarize, GatePasses, GoTo, Finish
  <2> QED  BY <1>3, <2>1, <2>2, ElsewhereStep DEF Load, Summarize, GatePasses
<1>10. ASSUME NEW t \in Tasks, LaunchAssessment(t) PROVE Accounts'
  <2>1. Coroutine("assess", "load", task[t].release).pc # "event"
    BY DEF Coroutine
  <2>2. ~Doing(t, "event")
    BY <1>10 DEF LaunchAssessment, Doing
  <2> QED  BY <1>10, <2>1, <2>2, ElsewhereStep DEF LaunchAssessment
<1>4. ASSUME NEW t \in Tasks, SetRolledBack(t) PROVE Accounts'
  <2> DEFINE q == task[t].release
  <2>1. task[t] \in Coroutines /\ q \in Releases
    BY <1>4 DEF SetRolledBack, Doing, Types, Coroutines
  <2>2. /\ task' = [task EXCEPT ![t].pc = "event"]
        /\ rollbacks' = [rollbacks EXCEPT ![q] = @ + 1] /\ UNCHANGED <<events, lost>>
    BY <1>4 DEF SetRolledBack, GoTo
  <2>3. Counters'
    BY <2>1, <2>2 DEF Accounts, Counters
  <2>4. task'[t] \in Coroutines /\ task'[t].pc = "event" /\ task'[t].release = q
    BY <2>1, <2>2 DEF Types, Coroutines, Steps
  <2>5. \A u \in Tasks : u # t => task'[u] = task[u]
    BY <2>2 DEF Types
  <2>6. task'[t] # Free /\ ~Doing(t, "event")
    BY <1>4, <2>1, <2>4 DEF SetRolledBack, Doing, Coroutines, Free
  <2>7. ASSUME NEW r \in Releases
        PROVE  rollbacks'[r] = events'[r] + lost'[r] + Cardinality(Pending(r)')
    <3>1. rollbacks[r] = events[r] + lost[r] + Cardinality(Pending(r))
      BY DEF Accounts
    <3>2. /\ rollbacks[r] \in Nat /\ events[r] \in Nat /\ lost[r] \in Nat
          /\ IsFiniteSet(Pending(r)) /\ Cardinality(Pending(r)) \in Nat
      BY PendingFinite DEF Accounts, Counters
    <3>3. CASE r = q
      <4>1. Pending(r)' = Pending(r) \cup {t} /\ t \notin Pending(r)
        BY <2>4, <2>5, <2>6, <3>3 DEF Pending, Unlogged, Doing
      <4>2. Cardinality(Pending(r)') = Cardinality(Pending(r)) + 1
        BY <3>2, <4>1, FS_AddElement
      <4>3. rollbacks'[r] = rollbacks[r] + 1
        BY <2>1, <2>2, <3>3 DEF Accounts, Counters
      <4> QED  BY <2>2, <3>1, <3>2, <4>2, <4>3
    <3>4. CASE r # q
      <4>1. Pending(r)' = Pending(r)
        BY <2>4, <2>5, <2>6, <3>4 DEF Pending, Unlogged, Doing
      <4>2. rollbacks'[r] = rollbacks[r]
        BY <2>1, <2>2, <3>4 DEF Accounts, Counters
      <4> QED  BY <2>2, <3>1, <4>1, <4>2
    <3> QED  BY <3>3, <3>4
  <2> QED  BY <2>3, <2>7 DEF Accounts
<1>5. ASSUME NEW t \in Tasks, RecordEvent(t) PROVE Accounts'
  <2> DEFINE q == task[t].release
  <2>1. Doing(t, "event") /\ q \in Releases
    BY <1>5 DEF RecordEvent, Doing, Types, Coroutines
  <2>2. /\ task' = [task EXCEPT ![t] = Free]
        /\ events' = [events EXCEPT ![q] = @ + 1] /\ UNCHANGED <<rollbacks, lost>>
    BY <1>5 DEF RecordEvent, Finish
  <2>3. Counters'
    BY <2>1, <2>2 DEF Accounts, Counters
  <2>4. \A r \in Releases : events'[r] + lost'[r]
                            = events[r] + lost[r] + IF Unlogged(t, r) THEN 1 ELSE 0
    BY <2>1, <2>2 DEF Accounts, Counters, Unlogged
  <2> HIDE DEF q
  <2> QED  BY <2>1, <2>2, <2>3, <2>4, LeavesPending
<1>6. ASSUME NEW t \in Tasks, Raise(t) PROVE Accounts'
  <2>1. /\ task' = [task EXCEPT ![t] = Free] /\ UNCHANGED <<rollbacks, events>>
        /\ lost' = [r \in Releases |-> lost[r] + IF Unlogged(t, r) THEN 1 ELSE 0]
    BY <1>6 DEF Raise, Finish
  <2>2. CASE Doing(t, "event")
    <3>1. Counters'
      BY <2>1 DEF Accounts, Counters
    <3>2. \A r \in Releases : events'[r] + lost'[r]
                              = events[r] + lost[r] + IF Unlogged(t, r) THEN 1 ELSE 0
      BY <2>1 DEF Accounts, Counters
    <3> QED  BY <2>1, <2>2, <3>1, <3>2, LeavesPending
  <2>3. CASE ~Doing(t, "event")
    <3>1. lost' = lost
      BY <2>1, <2>3 DEF Unlogged, Accounts, Counters
    <3> QED  BY <2>1, <2>3, <3>1, ElsewhereStep
  <2> QED  BY <2>2, <2>3
<1>7. CASE Crash
  <2>1. /\ task' = [t \in Tasks |-> Free] /\ UNCHANGED <<rollbacks, events>>
        /\ lost' = [r \in Releases |-> lost[r] + Cardinality(Pending(r))]
    BY <1>7 DEF Crash, Pending
  <2>2. ASSUME NEW r \in Releases PROVE Cardinality(Pending(r)') = 0
    <3>1. Pending(r)' = {}
      BY <2>1 DEF Pending, Unlogged, Doing
    <3> QED  BY <3>1, FS_EmptySet
  <2>3. \A r \in Releases : Cardinality(Pending(r)) \in Nat
    BY PendingFinite
  <2>4. Counters'
    BY <2>1, <2>3 DEF Accounts, Counters
  <2>5. \A r \in Releases :
          rollbacks'[r] = events'[r] + lost'[r] + Cardinality(Pending(r)')
    BY <2>1, <2>2, <2>3 DEF Accounts, Counters
  <2> QED  BY <2>4, <2>5 DEF Accounts
<1>8. CASE UNCHANGED <<task, events, rollbacks, lost>>
  BY <1>8, SamePending DEF Unlogged, Doing
<1>9. \/ UNCHANGED <<task, events, rollbacks, lost>>
      \/ \E t \in Tasks, r \in Releases : StartCanary(t, r) \/ Rollback(t, r) \/ Assess(t, r)
      \/ \E t \in Tasks, r \in Releases, ok \in BOOLEAN : Outcome(t, r, ok)
      \/ \E t \in Tasks :
           \/ LaunchAssessment(t) \/ Load(t) \/ Summarize(t) \/ GatePasses(t)
           \/ SetRolledBack(t) \/ RecordEvent(t) \/ Raise(t)
      \/ Crash
  BY DEF Next, vars, Create, Promote, Vanish, Arrive
<1> QED  BY <1>1, <1>2, <1>3, <1>4, <1>5, <1>6, <1>7, <1>8, <1>9, <1>10

(***************************************************************************)
(* Every rollback a coroutine commits (assess and rollback in release.py)  *)
(* has one event, or a coroutine that is about to write it, or one that    *)
(* died between the two transactions: for any number of concurrent         *)
(* coroutines, whatever they decide and whenever the process crashes.      *)
(***************************************************************************)
THEOREM EveryRollbackAccounted ==
    ASSUME ReleaseAssumption PROVE Spec => []RollbacksAccounted
<1>1. Accounts => RollbacksAccounted
  BY DEF Accounts, RollbacksAccounted, Pending
<1> QED  BY <1>1, InvInit, InvNext, AccountsInit, AccountsNext, PTL DEF Spec

-----------------------------------------------------------------------------

\* The order of updated_at: every release that was created, once.
Latest ==
    /\ recency \in Seq(Releases)
    /\ \A i, j \in 1..Len(recency) : recency[i] = recency[j] => i = j
    /\ \A r \in Releases : state[r] # "absent" <=> \E i \in 1..Len(recency) : recency[i] = r

\* What the invariants above do not need to know of the state.
Bounds ==
    /\ inFlight \in [Releases -> Nat]
    /\ commands \in Nat
    /\ due \subseteq Releases /\ fresh \subseteq Releases

Typed == Latest /\ Bounds

\* A release that is updated takes the first place, and no other loses its own.
LEMMA TouchMoves ==
    ASSUME NEW r \in Releases, Latest
    PROVE  /\ Touch(r) \in Seq(Releases)
           /\ \A i, j \in 1..Len(Touch(r)) : Touch(r)[i] = Touch(r)[j] => i = j
           /\ \A s \in Releases : (\E i \in 1..Len(Touch(r)) : Touch(r)[i] = s)
                                  <=> (s = r \/ \E i \in 1..Len(recency) : recency[i] = s)
  <1> DEFINE n == Len(recency)
             p == Place(r)
             t == Touch(r)
             m == IF p <= n THEN n ELSE p
  <1>1. /\ n \in Nat /\ DOMAIN recency = 1..n
        /\ \A i \in 1..n : recency[i] \in Releases
    BY DEF Latest
  <1>2. /\ p \in 1..n + 1
        /\ p <= n => recency[p] = r
        /\ p = n + 1 => \A i \in 1..n : recency[i] # r
    BY <1>1 DEF Place
  <1>3. \A i \in 1..n : recency[i] = r => i = p
    BY <1>1, <1>2 DEF Latest
  <1>4. /\ t = [i \in 1..m |-> IF i = 1 THEN r ELSE IF i <= p THEN recency[i - 1] ELSE recency[i]]
        /\ m \in Nat /\ m >= n /\ m >= p
    <2>1. 1..n \cup {p} = 1..m
      BY <1>1, <1>2
    <2> QED
      BY <1>1, <1>2, <2>1 DEF Touch
  <1> HIDE DEF n, p, t, m
  <1>5. /\ DOMAIN t = 1..m
        /\ t[1] = r
        /\ \A i \in 2..p : t[i] = recency[i - 1]
        /\ \A i \in p + 1..m : t[i] = recency[i]
    BY <1>1, <1>2, <1>4
  <1>6. m = IF p = n + 1 THEN n + 1 ELSE n
    BY <1>1, <1>2 DEF m
  <1>7. \A i \in 1..m : t[i] \in Releases
    <2>1. \A i \in 2..p : i - 1 \in 1..n
      BY <1>1, <1>2
    <2>2. \A i \in p + 1..m : i \in 1..n
      BY <1>1, <1>2, <1>6
    <2> QED
      BY <1>1, <1>2, <1>4, <1>5, <2>1, <2>2
  <1>8. t \in Seq(Releases) /\ Len(t) = m
    BY <1>4, <1>7
  <1>9. \A i \in 2..m : \E k \in 1..n :
           t[i] = recency[k] /\ k # p /\ i = IF k < p THEN k + 1 ELSE k
    <2> SUFFICES ASSUME NEW i \in 2..m
                 PROVE  \E k \in 1..n :
                           t[i] = recency[k] /\ k # p /\ i = IF k < p THEN k + 1 ELSE k
      OBVIOUS
    <2>1. CASE i <= p
      <3>1. i - 1 \in 1..n /\ t[i] = recency[i - 1] /\ i - 1 < p
        BY <1>1, <1>2, <1>5, <2>1
      <3> QED
        BY <1>2, <3>1
    <2>2. CASE i > p
      <3>1. i \in 1..n /\ t[i] = recency[i]
        BY <1>1, <1>2, <1>5, <1>6, <2>2
      <3> QED
        BY <1>2, <2>2, <3>1
    <2> QED
      BY <1>2, <2>1, <2>2
  <1>10. ASSUME NEW i \in 1..m, NEW j \in 1..m, t[i] = t[j] PROVE i = j
    <2>1. \A l \in 2..m : t[l] # r
      BY <1>3, <1>9
    <2>2. CASE i = 1 \/ j = 1
      BY <1>5, <1>10, <2>1, <2>2
    <2>3. CASE i \in 2..m /\ j \in 2..m
      <3>1. \A k, l \in 1..n : recency[k] = recency[l] => k = l
        BY DEF Latest, n
      <3> QED
        BY <1>9, <1>10, <2>3, <3>1
    <2> QED
      BY <1>4, <2>2, <2>3
  <1>11. ASSUME NEW k \in 1..n, k # p PROVE \E i \in 1..m : t[i] = recency[k]
    <2>1. CASE k < p
      <3>1. k + 1 \in 2..p /\ k + 1 \in 1..m
        BY <1>1, <1>2, <1>4, <2>1
      <3> QED
        BY <1>5, <3>1
    <2>2. CASE k > p
      <3>1. k \in p + 1..m /\ k \in 1..m
        BY <1>1, <1>2, <1>4, <2>2
      <3> QED
        BY <1>5, <3>1
    <2> QED
      BY <1>2, <1>11, <2>1, <2>2
  <1>12. ASSUME NEW s \in Releases
         PROVE  (\E i \in 1..m : t[i] = s) <=> (s = r \/ \E i \in 1..n : recency[i] = s)
    <2>1. 1 \in 1..m
      BY <1>2, <1>4
    <2>2. ASSUME NEW i \in 1..m, t[i] = s PROVE s = r \/ \E k \in 1..n : recency[k] = s
      BY <1>4, <1>5, <1>9, <2>2
    <2>3. ASSUME NEW k \in 1..n, recency[k] = s PROVE \E i \in 1..m : t[i] = s
      BY <1>2, <1>5, <1>11, <2>1, <2>3
    <2> QED
      BY <1>5, <2>1, <2>2, <2>3
  <1> QED
    BY <1>8, <1>10, <1>12 DEF t, n

\* set_state: the order keeps to the releases there are.
LEMMA UpdateKeepsLatest ==
    ASSUME Latest, NEW r \in Releases, recency' = Touch(r), state'[r] # "absent",
           \A s \in Releases \ {r} : state'[s] = "absent" <=> state[s] = "absent"
    PROVE  Latest'
  <1>1. /\ recency' \in Seq(Releases)
        /\ \A i, j \in 1..Len(recency') : recency'[i] = recency'[j] => i = j
        /\ \A s \in Releases : (\E i \in 1..Len(recency') : recency'[i] = s)
                               <=> (s = r \/ \E i \in 1..Len(recency) : recency[i] = s)
    <2>1. /\ Touch(r) \in Seq(Releases)
          /\ \A i, j \in 1..Len(Touch(r)) : Touch(r)[i] = Touch(r)[j] => i = j
          /\ \A s \in Releases : (\E i \in 1..Len(Touch(r)) : Touch(r)[i] = s)
                                 <=> (s = r \/ \E i \in 1..Len(recency) : recency[i] = s)
      BY TouchMoves
    <2> QED
      BY <2>1
  <1>2. \A s \in Releases : state'[s] # "absent" <=> (s = r \/ state[s] # "absent")
    OBVIOUS
  <1> QED
    BY <1>1, <1>2 DEF Latest

LEMMA SetStatesKeepsTyped ==
    ASSUME Types, Latest, due \subseteq Releases, NEW r \in Releases,
           NEW st \in [Releases -> ReleaseStates], SetStates(st, r), st[r] # "absent",
           \A s \in Releases \ {r} : st[s] = "absent" <=> state[s] = "absent"
    PROVE  Latest' /\ due' \subseteq Releases
  <1>1. Latest'
    BY UpdateKeepsLatest DEF SetStates
  <1>2. due' \subseteq due
    BY DEF SetStates, StillDue
  <1> QED
    BY <1>1, <1>2

LEMMA TypedNext ==
    ASSUME ReleaseAssumption PROVE Inv /\ Typed /\ [Next]_vars => Typed'
  <1> SUFFICES ASSUME Types, Latest, Bounds, [Next]_vars PROVE Typed'
    BY DEF Inv, Typed
  <1>1. ASSUME NEW r \in Releases, Create(r) PROVE Typed'
    <2>1. PICK st \in InitialStates : state' = [state EXCEPT ![r] = st]
      BY <1>1 DEF Create
    <2>2. st # "absent"
      BY <2>1, ReleaseAssumption DEF ReleaseAssumption
    <2>3. Latest'
      BY <1>1, <2>1, <2>2, UpdateKeepsLatest DEF Create, Types
    <2> QED
      BY <1>1, <2>3 DEF Create, Command, Bounds, Typed
  <1>2. ASSUME NEW r \in Releases, Promote(r) PROVE Typed'
    <2>1. Activate(r) \in [Releases -> ReleaseStates] /\ Activate(r)[r] # "absent"
          /\ \A s \in Releases \ {r} : Activate(r)[s] = "absent" <=> state[s] = "absent"
      BY ActivateType DEF Types, Activate
    <2>2. Latest' /\ due' \subseteq Releases
      BY <1>2, <2>1, SetStatesKeepsTyped DEF Promote, Bounds
    <2> QED
      BY <1>2, <2>2 DEF Promote, Command, Bounds, Typed
  <1>3. ASSUME NEW t \in Tasks, SetRolledBack(t) \/ GatePasses(t) PROVE Typed'
    <2> DEFINE r == task[t].release
               to(st) == [state EXCEPT ![r] = st]
    <2>1. r \in Releases
      BY <1>3 DEF SetRolledBack, GatePasses, Doing, Types, Coroutines
    <2>2. PICK st \in {"rolled_back", "candidate"} : SetStates(to(st), r)
      BY <1>3 DEF SetRolledBack, GatePasses
    <2> HIDE DEF r
    <2>3. /\ to(st) \in [Releases -> ReleaseStates] /\ to(st)[r] # "absent"
          /\ \A s \in Releases \ {r} : to(st)[s] = "absent" <=> state[s] = "absent"
      BY <2>1 DEF Types, ReleaseStates
    <2>4. Latest' /\ due' \subseteq Releases
      BY <2>1, <2>2, <2>3, SetStatesKeepsTyped DEF Bounds
    <2> QED
      BY <1>3, <2>4 DEF SetRolledBack, GatePasses, Bounds, Typed
  <1>4. ASSUME UNCHANGED <<state, recency>>, Bounds' PROVE Typed'
    BY <1>4 DEF Latest, Typed
  <1>5. ASSUME NEW t \in Tasks, NEW r \in Releases,
               StartCanary(t, r) \/ Rollback(t, r) \/ Assess(t, r)
        PROVE  Typed'
    BY <1>4, <1>5 DEF StartCanary, Rollback, Assess, Launch, Command, Bounds
  <1>6. ASSUME NEW n, Arrive(n) PROVE Typed'
    <2>1. PICK r : inFlight' = [inFlight EXCEPT ![r] = @ + 1]
      BY <1>6 DEF Arrive
    <2>2. inFlight \in [Releases -> Nat]
      BY DEF Bounds
    <2>3. inFlight' = [s \in Releases |-> IF s = r THEN inFlight[s] + 1 ELSE inFlight[s]]
      BY <2>1, <2>2
    <2>4. inFlight' \in [Releases -> Nat]
      BY <2>2, <2>3
    <2> QED
      BY <1>4, <1>6, <2>4 DEF Arrive, Bounds
  <1>7. ASSUME NEW r \in Releases, Vanish(r) PROVE Typed'
    BY <1>4, <1>7 DEF Vanish, Bounds
  <1>8. ASSUME NEW t \in Tasks, NEW r \in Releases, NEW ok \in BOOLEAN, Outcome(t, r, ok)
        PROVE  Typed'
    <2>1. due' \subseteq Releases
      BY <1>8 DEF Outcome, Record, StillDue, Bounds
    <2>2. inFlight' \in [Releases -> Nat]
      BY <1>8 DEF Outcome, Record, Bounds
    <2>3. UNCHANGED <<state, recency, commands, fresh>>
      BY <1>8 DEF Outcome, Record
    <2> QED
      BY <1>4, <2>1, <2>2, <2>3 DEF Bounds
  <1>9. ASSUME NEW t \in Tasks,
               LaunchAssessment(t) \/ Load(t) \/ Summarize(t) \/ RecordEvent(t) \/ Raise(t)
        PROVE  Typed'
    BY <1>4, <1>9 DEF LaunchAssessment, Load, Summarize, RecordEvent, Raise, Bounds
  <1>10. ASSUME Crash \/ UNCHANGED vars PROVE Typed'
    BY <1>4, <1>10 DEF Crash, vars, Bounds
  <1> QED
    BY <1>1, <1>2, <1>3, <1>5, <1>6, <1>7, <1>8, <1>9, <1>10 DEF Next

(***************************************************************************)
(* The types of the tables and the coroutines of release.py and            *)
(* registry.py, and the order get_live sorts by: every release that was    *)
(* created has one place in it, whatever is updated when.                  *)
(***************************************************************************)
THEOREM TypeCorrect == ASSUME ReleaseAssumption PROVE Spec => []TypeOK
  <1>1. Init => Typed
    <2>1. <<>> \in Seq(Releases) /\ Len(<<>>) = 0
      OBVIOUS
    <2> QED
      BY <2>1 DEF Init, Typed, Latest, Bounds
  <1>2. Inv /\ Accounts /\ Typed => TypeOK
    BY DEF Inv, Types, ReleaseStates, Accounts, Counters, Typed, Latest, Bounds, TypeOK
  <1> QED
    BY <1>1, <1>2, InvInit, InvNext, AccountsInit, AccountsNext, TypedNext, PTL DEF Spec

=============================================================================
