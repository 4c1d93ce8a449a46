--------------------------- MODULE ArtifactRegistry ---------------------------
(***************************************************************************)
(* ArtifactRegistry (control/registry.py): versions of prompts, datasets,  *)
(* catalogues and policies in one table of SQLite, whose primary key does  *)
(* the work.  put is two transactions when the version exists, an INSERT   *)
(* that fails and a SELECT to compare; others run between them, and the    *)
(* process may die between any two steps.                                  *)
(*                                                                         *)
(* A content stands for its canonical JSON, and its hash for the content.  *)
(* A name stands for a kind and a name: no query ever crosses either.      *)
(***************************************************************************)
EXTENDS Integers, FiniteSets

CONSTANTS
    Names, Versions, Contents,
    Clients,        \* administrators with a request in flight
    MaxTime         \* bound: ticks of the clock

ASSUME RegistryAssumption == MaxTime \in Nat

Keys == Names \X Versions

\* A row of the table artifacts; created is created_at, whose ISO form sorts
\* like the time it stands for.
Row == [key : Keys, content : Contents, created : 0..MaxTime]

(***************************************************************************)
(* A call of put.  It is inserting until the INSERT is decided, stored     *)
(* once it has committed, comparing once it has raised IntegrityError.     *)
(* created is the time it was begun; earlier (history): the keys whose     *)
(* registration had been reported by then.                                 *)
(***************************************************************************)
Put == [client : Clients, stage : {"inserting", "stored", "comparing"},
        key : Keys, content : Contents, created : 0..MaxTime, earlier : SUBSET Keys]

VARIABLES
    artifacts,  \* the rows of the table
    puts,       \* the calls of put that are running
    clock,      \* datetime.now(UTC), which is not set back
    receipts,   \* history: the artifacts put has returned
    since       \* history: pairs of keys <<k, l>>: k was reported as registered
                \* before the registration that made l was begun

vars == <<artifacts, puts, clock, receipts, since>>

Init ==
    /\ artifacts = {}
    /\ puts = {}
    /\ clock = 0
    /\ receipts = {}
    /\ since = {}

-----------------------------------------------------------------------------
(* Queries.                                                                *)

RowsOf(k) == {a \in artifacts : a.key = k}

RowsNamed(n) == {a \in artifacts : a.key[1] = n}

OldestOf(n) ==      \* mutant: ORDER BY created_at
    {a \in RowsNamed(n) : \A b \in RowsNamed(n) : a.created <= b.created}

\* get without a version: one of these, if there is one.
Latest(n) ==
    {a \in RowsNamed(n) : \A b \in RowsNamed(n) : b.created <= a.created}

-----------------------------------------------------------------------------
(* put                                                                     *)

\* POST /v1/control/artifacts
BeginPut(c, k, x) ==
    /\ \A p \in puts : p.client # c
    /\ puts' = puts \cup {[client |-> c, stage |-> "inserting", key |-> k, content |-> x,
                           created |-> clock, earlier |-> {r.key : r \in receipts}]}
    /\ UNCHANGED <<artifacts, clock, receipts, since>>

To(p, stage) == puts' = (puts \ {p}) \cup {[p EXCEPT !.stage = stage]}

NewRow(p) == [key |-> p.key, content |-> p.content, created |-> p.created]

\* mutant: INSERT OR REPLACE
Overwrite(p) ==
    /\ artifacts' = (artifacts \ RowsOf(p.key)) \cup {NewRow(p)}
    /\ To(p, "stored")

\* mutant: the table has no primary key
StoreAnyway(p) ==
    /\ artifacts' = artifacts \cup {NewRow(p)}
    /\ To(p, "stored")

\* The INSERT and its commit, or IntegrityError.
Store(p) ==
    \/ /\ RowsOf(p.key) = {}
       /\ artifacts' = artifacts \cup {NewRow(p)}
       /\ To(p, "stored")
    \/ /\ RowsOf(p.key) # {}
       /\ To(p, "comparing")
       /\ UNCHANGED artifacts

\* It takes longer than the resolution of the clock to connect.
Insert(p) ==
    /\ p.stage = "inserting" /\ p.created < clock
    /\ Store(p)
    /\ since' = IF RowsOf(p.key) = {} THEN since \cup (p.earlier \X {p.key}) ELSE since
    /\ UNCHANGED <<clock, receipts>>

\* The connection, the lock or the SELECT fails: the caller gets an error.
FailPut(p) ==
    /\ p.stage # "stored"
    /\ puts' = puts \ {p}
    /\ UNCHANGED <<artifacts, clock, receipts, since>>

Return(p, rows) ==
    /\ puts' = puts \ {p}
    /\ receipts' = receipts \cup rows
    /\ UNCHANGED <<artifacts, clock, since>>

\* What was inserted is returned as it was sent.
ReturnNew(p) ==
    /\ p.stage = "stored"
    /\ Return(p, {NewRow(p)})

\* mutant: whatever is there is returned
CompareNothing(p) ==
    /\ p.stage = "comparing"
    /\ Return(p, RowsOf(p.key))

\* The row that is there has the same hash, or RegistryConflictError.
Compare(p) ==
    /\ p.stage = "comparing"
    /\ Return(p, {a \in RowsOf(p.key) : a.content = p.content})

-----------------------------------------------------------------------------

\* The process dies and is started again on the same database.
Crash ==
    /\ puts' = {}
    /\ UNCHANGED <<artifacts, clock, receipts, since>>

Tick ==
    /\ clock < MaxTime
    /\ clock' = clock + 1
    /\ UNCHANGED <<artifacts, puts, receipts, since>>

\* The steps of a process that lives.
Serve ==
    \/ \E c \in Clients, k \in Keys, x \in Contents : BeginPut(c, k, x)
    \/ \E p \in puts : Insert(p) \/ FailPut(p) \/ ReturnNew(p) \/ Compare(p)
    \/ Tick

Next == Serve \/ Crash

Spec == Init /\ [][Next]_vars

-----------------------------------------------------------------------------

(***************************************************************************)
(* Types; the primary key holds; and a call that is past its INSERT finds  *)
(* a row of its key, so put never fails with artifact_not_found.           *)
(***************************************************************************)
TypeOK ==
    /\ artifacts \subseteq Row
    /\ puts \subseteq Put
    /\ clock \in 0..MaxTime
    /\ receipts \subseteq Row
    /\ since \subseteq Keys \X Keys
    /\ \A a, b \in artifacts : a.key = b.key => a = b
    /\ \A p, q \in puts : p.client = q.client => p = q
    /\ \A p \in puts : p.stage # "inserting" => RowsOf(p.key) # {}

(***************************************************************************)
(* docs/data-model.md:191: release evidence is interpretable only if a     *)
(* version cannot change.  An artifact a client has been given is in the   *)
(* table ever after, whatever was registered beside it, answered late or   *)
(* never, or lost in a crash.                                              *)
(***************************************************************************)
ReceiptsStayTrue == receipts \subseteq artifacts

(***************************************************************************)
(* docs/data-model.md:195: a version whose registration was reported       *)
(* before that of another began is not the latest once the other is there. *)
(* Of two that overlap, either may be: created_at is taken before the      *)
(* INSERT.                                                                 *)
(***************************************************************************)
LatestIsNotSuperseded ==
    \A n \in Names : \A a \in Latest(n), b \in RowsNamed(n) : <<a.key, b.key>> \notin since

-----------------------------------------------------------------------------

\* The outcome of a call past its INSERT is settled already, although the
\* code has not looked yet.
Outcome(p) ==
    IF p.stage = "stored" \/ \E a \in RowsOf(p.key) : a.content = p.content
      THEN "registered" ELSE "conflict"

Pairs(rows) == {<<a.key, a.content>> : a \in rows}

Promise == INSTANCE ArtifactPromise WITH
    held    <- Pairs(artifacts),
    asked   <- {<<p.client, p.key, p.content>> : p \in {q \in puts : q.stage = "inserting"}},
    decided <- {<<p.client, p.key, p.content, Outcome(p)>> :
                  p \in {q \in puts : q.stage # "inserting"}},
    granted <- Pairs(receipts)

\* The two transactions of put are together as good as one.
PromiseKept == Promise!Spec

=============================================================================
