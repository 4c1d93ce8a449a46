--------------------------- MODULE ReleaseControl ---------------------------
(***************************************************************************)
(* The life of releases: ReleaseManager (control/release.py) over the      *)
(* tables of control/registry.py, driven by the control API (api/app.py)   *)
(* and by the canary requests of GatewayService.                           *)
(*                                                                         *)
(* Every operation is a coroutine that reads and writes the database in    *)
(* separate transactions, so an action is one transaction, and everything  *)
(* a coroutine read before may be stale when it writes.  set_state is one  *)
(* transaction: the name it reads first, for a promotion, never changes.   *)
(* The database survives a crash of the process, the coroutines do not.    *)
(*                                                                         *)
(* Of the guardrails only the error rate is modelled; the p99 and schema   *)
(* rules read the same rows in the same transaction.                       *)
(***************************************************************************)
EXTENDS Guardrails

CONSTANTS
    Releases,           \* release ids
    NameOf,             \* release -> its logical name
    Tasks,              \* slots for coroutines that run at the same time
    InitialStates,      \* states the body of a create request may carry
    MinCanarySamples,   \* min_canary_samples
    MaxErrorPercent,    \* max_error_rate, in percent
    MaxRows,            \* bound: canary rows per release
    MaxInFlight,        \* bound: canary requests in flight per release
    MaxCommands         \* bound: commands of operators

ASSUME ReleaseAssumption ==
    /\ IsFiniteSet(Releases) /\ IsFiniteSet(Tasks)
    /\ InitialStates \subseteq {"draft", "candidate", "active", "rolled_back", "rejected"}
    /\ MinCanarySamples \in Nat \ {0}
    /\ MaxErrorPercent \in 0..100
    /\ MaxRows \in Nat /\ MaxInFlight \in Nat /\ MaxCommands \in Nat

VARIABLES
    state,      \* releases.state; "absent" before the insert
    recency,    \* the existing releases by updated_at, latest first
    good,       \* release -> its successful canary rows in request_metrics
    bad,        \* release -> its failed canary rows
    events,     \* release -> its rows in rollback_events
    inFlight,   \* release -> canary requests assigned to it and not recorded
    task,       \* slot -> the coroutine in it
    commands,   \* operator commands accepted so far
    rollbacks,  \* history: release -> rollbacks committed by a coroutine
    lost,       \* history: release -> rollbacks whose coroutine died before the event
    due,        \* history: candidates a recorded canary row has put in breach,
                \* while nothing has changed that since
    fresh       \* history: releases created since the latest promotion of their name

vars == <<state, recency, good, bad, events, inFlight, task, commands, rollbacks, lost, due,
          fresh>>

\* What a coroutine is about to do.
Steps == {"launch", "load", "summarize", "set", "event", "gate"}

Free == [kind |-> "none"]

Coroutine(kind, pc, r) == [kind |-> kind, pc |-> pc, release |-> r]

\* A canary call after its evidence is committed (one that was answered, one
\* that failed), assess, rollback and start-canary.
Kinds == {"response", "error", "assess", "rollback", "start"}

Coroutines == [kind : Kinds, pc : Steps, release : Releases]

Doing(t, pc) == task[t] # Free /\ task[t].pc = pc

-----------------------------------------------------------------------------

Init ==
    /\ state = [r \in Releases |-> "absent"]
    /\ recency = <<>>
    /\ good = [r \in Releases |-> 0]
    /\ bad = [r \in Releases |-> 0]
    /\ events = [r \in Releases |-> 0]
    /\ inFlight = [r \in Releases |-> 0]
    /\ task = [t \in Tasks |-> Free]
    /\ commands = 0
    /\ rollbacks = [r \in Releases |-> 0]
    /\ lost = [r \in Releases |-> 0]
    /\ due = {}
    /\ fresh = {}

TouchAgain(r) == <<r>> \o recency       \* mutant: the old position is kept too

\* Where r stands in that order; at the end if it is new.
Place(r) ==
    IF \E i \in DOMAIN recency : recency[i] = r
      THEN CHOOSE i \in DOMAIN recency : recency[i] = r
      ELSE Len(recency) + 1

\* The release r is updated now: it comes first, and what was before it follows.
Touch(r) ==
    [n \in 1..Len(recency) \cup {Place(r)} |->
        IF n = 1 THEN r ELSE IF n <= Place(r) THEN recency[n - 1] ELSE recency[n]]

\* get_live: a candidate of that name before an active one, then the latest.
Live(name) ==
    LET named(st) == SelectSeq(recency, LAMBDA r : NameOf[r] = name /\ state[r] = st)
    IN  named("candidate") \o named("active")

\* mutant: the threshold is applied from the first sample on
BreachAtOnce(g, b) == RateExceeds(b, g + b, MaxErrorPercent)

\* assess: enough samples, and 1 - success_rate > max_error_rate.
Breach(g, b) ==
    /\ g + b >= MinCanarySamples
    /\ RateExceeds(b, g + b, MaxErrorPercent)

\* due, once the release states are st and the rows g and b.
StillDue(candidates, st, g, b) ==
    {r \in candidates : st[r] = "candidate" /\ Breach(g[r], b[r])}

-----------------------------------------------------------------------------
(* set_state.                                                              *)

ActivateAlone(r) == [state EXCEPT ![r] = "active"]   \* mutant: others stay active

\* The states after r is promoted: one UPDATE for its namesakes, one for r.
Activate(r) ==
    [s \in Releases |->
        IF s = r THEN "active"
        ELSE IF NameOf[s] = NameOf[r] /\ state[s] = "active" THEN "rolled_back"
        ELSE state[s]]

SetStates(st, r) ==
    /\ state' = st
    /\ recency' = Touch(r)
    /\ due' = StillDue(due, st, good, bad)

-----------------------------------------------------------------------------
(* Commands of operators.                                                  *)

Command == commands < MaxCommands /\ commands' = commands + 1

\* create: in the state the body carries, any state, beside whatever is active.
\* (Its updated_at is taken to be left at its default, the present.)
Create(r) ==
    /\ state[r] = "absent" /\ Command
    /\ \E st \in InitialStates : state' = [state EXCEPT ![r] = st]
    /\ recency' = Touch(r)
    /\ fresh' = fresh \cup {r}
    /\ UNCHANGED <<good, bad, events, inFlight, task, rollbacks, lost, due>>

\* promote: from whatever state the release is in.
Promote(r) ==
    /\ state[r] # "absent" /\ Command
    /\ SetStates(Activate(r), r)
    /\ fresh' = {s \in fresh : NameOf[s] # NameOf[r]}
    /\ UNCHANGED <<good, bad, events, inFlight, task, rollbacks, lost>>

\* start-canary, rollback and assess requests run as coroutines.
Launch(t, kind, pc, r) ==
    /\ task[t] = Free /\ state[r] # "absent" /\ Command
    /\ task' = [task EXCEPT ![t] = Coroutine(kind, pc, r)]
    /\ UNCHANGED <<state, recency, good, bad, events, inFlight, rollbacks, lost, due, fresh>>

StartCanary(t, r) == Launch(t, "start", "gate", r)
Rollback(t, r) == Launch(t, "rollback", "set", r)
Assess(t, r) == Launch(t, "assess", "load", r)

-----------------------------------------------------------------------------
(* Canary traffic.                                                         *)

\* assignment() puts a request into the canary cohort of the live release.
Arrive(name) ==
    /\ Live(name) # <<>>
    /\ LET r == Head(Live(name))
       IN  /\ state[r] = "candidate"
           /\ inFlight[r] < MaxInFlight
           /\ inFlight' = [inFlight EXCEPT ![r] = @ + 1]
    /\ UNCHANGED <<state, recency, good, bad, events, task, commands, rollbacks, lost, due, fresh>>

\* The evidence row of the request is committed.
Record(r, ok) ==
    /\ inFlight[r] > 0
    /\ good[r] + bad[r] < MaxRows
    /\ inFlight' = [inFlight EXCEPT ![r] = @ - 1]
    /\ good' = IF ok THEN [good EXCEPT ![r] = @ + 1] ELSE good
    /\ bad' = IF ok THEN bad ELSE [bad EXCEPT ![r] = @ + 1]
    /\ due' = StillDue(due \cup {r}, state, good', bad')
    /\ UNCHANGED <<state, recency, events, commands, rollbacks, lost, fresh>>

\* Its call goes on from there.
Outcome(t, r, ok) ==
    /\ task[t] = Free
    /\ Record(r, ok)
    /\ task' = [task EXCEPT ![t] = Coroutine(IF ok THEN "response" ELSE "error", "launch", r)]

\* The request fails in a way that leaves no evidence.
Vanish(r) ==
    /\ inFlight[r] > 0
    /\ inFlight' = [inFlight EXCEPT ![r] = @ - 1]
    /\ UNCHANGED <<state, recency, good, bad, events, task, commands, rollbacks, lost, due, fresh>>

-----------------------------------------------------------------------------
(* The transactions of the coroutines.                                     *)

LaunchAfterResponse(t) ==       \* mutant: an error launches no assessment
    /\ Doing(t, "launch")
    /\ task' = [task EXCEPT ![t] = IF task[t].kind = "response"
                                    THEN Coroutine("assess", "load", task[t].release)
                                    ELSE Free]
    /\ UNCHANGED <<state, recency, good, bad, events, inFlight, commands, rollbacks, lost, due, fresh>>

\* The call launches assess, after an error as after a response, and ends.
LaunchAssessment(t) ==
    /\ Doing(t, "launch")
    /\ task' = [task EXCEPT ![t] = Coroutine("assess", "load", task[t].release)]
    /\ UNCHANGED <<state, recency, good, bad, events, inFlight, commands, rollbacks, lost, due, fresh>>

GoTo(t, pc) == task' = [task EXCEPT ![t].pc = pc]
Finish(t) == task' = [task EXCEPT ![t] = Free]

\* assess: releases.get.
Load(t) ==
    /\ Doing(t, "load")
    /\ IF state[task[t].release] = "candidate" THEN GoTo(t, "summarize") ELSE Finish(t)
    /\ UNCHANGED <<state, recency, good, bad, events, inFlight, commands, rollbacks, lost, due, fresh>>

\* assess: evidence.summary, and the verdict on it.
Summarize(t) ==
    /\ Doing(t, "summarize")
    /\ LET r == task[t].release
       IN  IF Breach(good[r], bad[r]) THEN GoTo(t, "set") ELSE Finish(t)
    /\ UNCHANGED <<state, recency, good, bad, events, inFlight, commands, rollbacks, lost, due, fresh>>

EventUncommitted(t) ==          \* mutant: the event is written without the update
    /\ Doing(t, "set")
    /\ GoTo(t, "event")
    /\ UNCHANGED <<state, recency, good, bad, events, inFlight, commands, rollbacks, lost, due, fresh>>

\* assess and rollback: set_state(ROLLED_BACK), from whatever state it is in now.
SetRolledBack(t) ==
    /\ Doing(t, "set")
    /\ GoTo(t, "event")
    /\ LET r == task[t].release
       IN  /\ SetStates([state EXCEPT ![r] = "rolled_back"], r)
           /\ rollbacks' = [rollbacks EXCEPT ![r] = @ + 1]
    /\ UNCHANGED <<good, bad, events, inFlight, commands, lost, fresh>>

\* assess and rollback: record_rollback.
RecordEvent(t) ==
    /\ Doing(t, "event")
    /\ Finish(t)
    /\ events' = [events EXCEPT ![task[t].release] = @ + 1]
    /\ UNCHANGED <<state, recency, good, bad, inFlight, commands, rollbacks, lost, due, fresh>>

\* start-canary: the evaluation of the candidate passes the gate, then set_state.
GatePasses(t) ==
    /\ Doing(t, "gate")
    /\ Finish(t)
    /\ SetStates([state EXCEPT ![task[t].release] = "candidate"], task[t].release)
    /\ UNCHANGED <<good, bad, events, inFlight, commands, rollbacks, lost, fresh>>

Unlogged(t, r) == Doing(t, "event") /\ task[t].release = r

\* The coroutine will see the rows of r there are now, or has seen enough.
Assessing(t, r) ==
    /\ task[t] # Free /\ task[t].release = r
    /\ task[t].kind \in {"response", "error", "assess"} /\ task[t].pc # "event"

\* A transaction raises (or the gate does), or the client of a stream leaves
\* while its evidence is committed: the coroutine ends there.
Raise(t) ==
    /\ task[t] # Free
    /\ Finish(t)
    /\ lost' = [r \in Releases |-> lost[r] + IF Unlogged(t, r) THEN 1 ELSE 0]
    /\ due' = {r \in due : \E u \in Tasks \ {t} : Assessing(u, r)}
    /\ UNCHANGED <<state, recency, good, bad, events, inFlight, commands, rollbacks, fresh>>

\* The process dies and starts again.
Crash ==
    /\ task' = [t \in Tasks |-> Free]
    /\ inFlight' = [r \in Releases |-> 0]
    /\ lost' = [r \in Releases |-> lost[r] + Cardinality({t \in Tasks : Unlogged(t, r)})]
    /\ due' = {}
    /\ UNCHANGED <<state, recency, good, bad, events, commands, rollbacks, fresh>>

-----------------------------------------------------------------------------

Next ==
    \/ \E r \in Releases : Create(r) \/ Promote(r) \/ Vanish(r)
    \/ \E t \in Tasks, r \in Releases : StartCanary(t, r) \/ Rollback(t, r) \/ Assess(t, r)
    \/ \E n \in {NameOf[r] : r \in Releases} : Arrive(n)
    \/ \E t \in Tasks, r \in Releases, ok \in BOOLEAN : Outcome(t, r, ok)
    \/ \E t \in Tasks :
         \/ LaunchAssessment(t) \/ Load(t) \/ Summarize(t) \/ SetRolledBack(t)
         \/ RecordEvent(t) \/ GatePasses(t) \/ Raise(t)
    \/ Crash

Spec == Init /\ [][Next]_vars

\* A coroutine the database answers is resumed; evaluations may take for ever.
Fairness ==
    \A t \in Tasks : WF_vars(\/ LaunchAssessment(t) \/ Load(t) \/ Summarize(t)
                            \/ SetRolledBack(t) \/ RecordEvent(t))

FairSpec == Spec /\ Fairness

-----------------------------------------------------------------------------
(* Safety                                                                  *)

TypeOK ==
    /\ state \in [Releases -> {"absent", "draft", "candidate", "active",
                               "rolled_back", "rejected"}]
    /\ recency \in Seq(Releases)
    /\ \A i, j \in 1..Len(recency) : recency[i] = recency[j] => i = j
    /\ \A r \in Releases : state[r] # "absent" <=> \E i \in 1..Len(recency) : recency[i] = r
    /\ good \in [Releases -> Nat] /\ bad \in [Releases -> Nat]
    /\ events \in [Releases -> Nat] /\ inFlight \in [Releases -> Nat]
    /\ task \in [Tasks -> Coroutines \cup {Free}]
    /\ commands \in Nat
    /\ rollbacks \in [Releases -> Nat] /\ lost \in [Releases -> Nat]
    /\ due \subseteq Releases /\ fresh \subseteq Releases

(***************************************************************************)
(* docs/data-model.md:215-216: a promotion replaces the active release of  *)
(* its name in the same transaction.  So of the active releases of a name  *)
(* all but at most one were created active after its latest promotion (a   *)
(* create request may carry any state, and replaces nothing), whatever     *)
(* assessments, rollbacks, canary starts and crashes happen around it.     *)
(***************************************************************************)
AtMostOnePromoted ==
    \A r, s \in Releases \ fresh :
       state[r] = "active" /\ state[s] = "active" /\ NameOf[r] = NameOf[s] => r = s

(***************************************************************************)
(* docs/data-model.md:301-303: the event of a rollback is written after    *)
(* the rollback itself, once, and is missing only for the coroutines that  *)
(* died, or have yet to run, between the two transactions.                 *)
(***************************************************************************)
RollbacksAccounted ==
    \A r \in Releases :
       rollbacks[r] = events[r] + lost[r] + Cardinality({t \in Tasks : Unlogged(t, r)})

(***************************************************************************)
(* docs/release-engineering.md:186: no automatic rollback is decided on    *)
(* fewer canary samples than the release asks for, however much its        *)
(* verdict has aged when it is carried out.                                *)
(***************************************************************************)
RollbackHasSamples ==
    \A t \in Tasks : Doing(t, "set") /\ task[t].kind = "assess" =>
       good[task[t].release] + bad[task[t].release] >= MinCanarySamples

-----------------------------------------------------------------------------
(* Liveness, under FairSpec                                                *)

(***************************************************************************)
(* docs/release-engineering.md:203: when a recorded canary outcome, a      *)
(* response or an error, puts a candidate in breach, the candidate is      *)
(* rolled back unless it stops being a candidate, later rows lift the      *)
(* breach, or every call and assessment that could still act on it dies:   *)
(* a stream whose client leaves after the commit and before the launch     *)
(* (service.py:403-411, 461-470) launches no assessment, and unless        *)
(* another is under way the breach is left until the next outcome.         *)
(***************************************************************************)
BreachIsActedOn == \A r \in Releases : r \in due ~> r \notin due

-----------------------------------------------------------------------------
(* What the documentation says, and the code does not do                   *)

(***************************************************************************)
(* docs/release-engineering.md:40-41 and docs/data-model.md:227-228: the   *)
(* live guardrail takes a candidate out of service; an active release is   *)
(* rolled back by its replacement or by an operator only.                  *)
(***************************************************************************)
AutoRollbackSparesActive ==
    [][\A t \in Tasks :
          task[t] # Free /\ task[t].kind = "assess" /\ task[t].pc = "set"
            /\ task'[t] # Free /\ task'[t].pc = "event"
          => state[task[t].release] # "active"]_vars

=============================================================================
