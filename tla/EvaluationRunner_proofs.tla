------------------------ MODULE EvaluationRunner_proofs ------------------------
(***************************************************************************)
(* What stands behind a canary that was started: the arithmetic of the     *)
(* gate, and the way from a dataset to the run it judges, for every        *)
(* dataset, every list of results and every threshold.                     *)
(***************************************************************************)
EXTENDS EvaluationRunner, ArtifactRegistry_proofs, FiniteSetTheorems

-----------------------------------------------------------------------------
(* Least and greatest values.                                              *)

LEMMA LeastIsThere ==
    ASSUME NEW S \in SUBSET Nat, S # {}
    PROVE  \E x \in S : \A y \in S : x <= y
  <1> DEFINE Less == {p \in Nat \X Nat : p[1] < p[2]}
  <1>1. IsWellFoundedOn(Less, Nat)
    BY NatLessThanWellFounded DEF OpToRel
  <1> HIDE DEF Less
  <1>2. PICK x \in S : \A y \in S : ~ (<<y, x>> \in Less)
    BY <1>1, WFMin
  <1>3. ASSUME NEW y \in S PROVE x <= y
    <2>1. x \in Nat /\ y \in Nat /\ <<y, x>> \notin Less
      BY <1>2
    <2> QED
      BY <2>1 DEF Less
  <1> QED
    BY <1>3

\* Of finitely many values there is a least and a greatest one.
LEMMA ExtremesAreThere ==
    ASSUME NEW D, D # {}, IsFiniteSet(D), NEW v, \A i \in D : v[i] \in Nat
    PROVE  /\ \E i \in D : \A m \in D : v[i] <= v[m]
           /\ \E i \in D : \A m \in D : v[m] <= v[i]
  <1>1. \E i \in D : \A m \in D : v[i] <= v[m]
    <2> DEFINE S == {v[i] : i \in D}
    <2>1. S \in SUBSET Nat /\ S # {}
      OBVIOUS
    <2>2. PICK x \in S : \A y \in S : x <= y
      <3> HIDE DEF S
      <3> QED
        BY <2>1, LeastIsThere
    <2> QED
      BY <2>2
  <1>2. \E i \in D : \A m \in D : v[m] <= v[i]
    <2> DEFINE Above(i) == {m \in D : v[m] > v[i]}
               S == {Cardinality(Above(i)) : i \in D}
    <2>1. \A i \in D : IsFiniteSet(Above(i)) /\ Cardinality(Above(i)) \in Nat
      <3>1. \A i \in D : Above(i) \in SUBSET D
        OBVIOUS
      <3> HIDE DEF Above
      <3> QED
        BY <3>1, FS_Subset, FS_CardinalityType
    <2>2. S \in SUBSET Nat /\ S # {}
      BY <2>1
    <2>3. PICK x \in S : \A y \in S : x <= y
      <3> HIDE DEF S
      <3> QED
        BY <2>2, LeastIsThere
    <2>4. PICK i \in D : \A m \in D : Cardinality(Above(i)) <= Cardinality(Above(m))
      BY <2>3
    <2>5. ASSUME NEW m \in D, v[m] > v[i] PROVE FALSE
      <3>1. Above(m) \subseteq Above(i) /\ m \in Above(i) /\ m \notin Above(m)
        BY <2>5
      <3> HIDE DEF Above
      <3>2. Cardinality(Above(m)) <= Cardinality(Above(i)) /\ Cardinality(Above(i)) # Cardinality(Above(m))
        BY <2>1, <3>1, FS_Subset
      <3> QED
        BY <2>1, <2>4, <3>2
    <2>6. ASSUME NEW m \in D PROVE v[m] <= v[i]
      <3>1. ~(v[m] > v[i])
        BY <2>5
      <3> QED
        BY <3>1
    <2> QED
      BY <2>6
  <1> QED
    BY <1>1, <1>2

LEMMA Upto == ASSUME NEW n \in Nat PROVE IsFiniteSet(1..n) /\ Cardinality(1..n) = n
  <1>1. IsFiniteSet(1..n) /\ Cardinality(1..n) = IF 1 > n THEN 0 ELSE n - 1 + 1
    BY FS_Interval
  <1>2. (IF 1 > n THEN 0 ELSE n - 1 + 1) = n
    OBVIOUS
  <1> QED
    BY <1>1, <1>2

-----------------------------------------------------------------------------
(* The arithmetic of the gate.                                             *)

\* How many of the values are at most x, or below it.
AtMost(v, x) == {m \in DOMAIN v : v[m] <= x}
Below(v, x) == {m \in DOMAIN v : v[m] < x}

LEMMA Parts ==
    ASSUME NEW v, IsFiniteSet(DOMAIN v), NEW x
    PROVE  /\ IsFiniteSet(AtMost(v, x)) /\ Cardinality(AtMost(v, x)) \in Nat
           /\ IsFiniteSet(Below(v, x)) /\ Cardinality(Below(v, x)) \in Nat
  <1>1. AtMost(v, x) \in SUBSET DOMAIN v /\ Below(v, x) \in SUBSET DOMAIN v
    BY DEF AtMost, Below
  <1> QED
    BY <1>1, FS_Subset, FS_CardinalityType

\* Ranked is the value it is named for: fewer than k are below it, and k at
\* most it.
LEMMA RankedIsRanked ==
    ASSUME NEW n \in Nat, NEW v \in [1..n -> Nat], NEW k \in 1..n
    PROVE  /\ \E j \in 1..n : Ranked(v, k) = v[j]
           /\ Cardinality(Below(v, Ranked(v, k))) < k
           /\ Cardinality(AtMost(v, Ranked(v, k))) >= k
  <1>1. /\ DOMAIN v = 1..n /\ IsFiniteSet(1..n) /\ Cardinality(1..n) = n /\ 1..n # {}
    BY Upto
  <1>2. \A x : /\ IsFiniteSet(AtMost(v, x)) /\ Cardinality(AtMost(v, x)) \in Nat
               /\ IsFiniteSet(Below(v, x)) /\ Cardinality(Below(v, x)) \in Nat
    BY <1>1, Parts
  <1> DEFINE S == {j \in 1..n : Cardinality(AtMost(v, v[j])) >= k}
  <1>3. S # {}
    <2>1. PICK j \in 1..n : \A m \in 1..n : v[m] <= v[j]
      BY <1>1, ExtremesAreThere
    <2>2. AtMost(v, v[j]) = 1..n
      BY <1>1, <2>1 DEF AtMost
    <2> QED
      BY <1>1, <2>2
  <1>4. IsFiniteSet(S)
    BY <1>1, FS_Subset
  <1>5. PICK j \in S : \A m \in S : v[j] <= v[m]
    <2>1. S \subseteq 1..n
      OBVIOUS
    <2> HIDE DEF S
    <2> QED
      BY <1>3, <1>4, <2>1, ExtremesAreThere
  <1>6. Cardinality(Below(v, v[j])) < k
    <2>1. CASE Below(v, v[j]) = {}
      BY <2>1, FS_EmptySet
    <2>2. CASE Below(v, v[j]) # {}
      <3>1. PICK i \in Below(v, v[j]) : \A m \in Below(v, v[j]) : v[m] <= v[i]
        <4>1. \A i \in Below(v, v[j]) : v[i] \in Nat
          BY <1>1 DEF Below
        <4> QED
          BY <1>2, <2>2, <4>1, ExtremesAreThere
      <3>2. i \in 1..n /\ v[i] < v[j]
        BY <1>1, <3>1 DEF Below
      <3>3. AtMost(v, v[i]) = Below(v, v[j])
        <4>1. \A m \in 1..n : v[m] < v[j] <=> v[m] <= v[i]
          BY <1>1, <3>1, <3>2 DEF Below
        <4> QED
          BY <1>1, <4>1 DEF Below, AtMost
      <3>4. i \notin S
        BY <1>5, <3>2
      <3> QED
        BY <1>2, <3>2, <3>3, <3>4
    <2> QED
      BY <2>1, <2>2
  <1> DEFINE Right(i) ==
        /\ Cardinality({m \in DOMAIN v : v[m] < v[i]}) < k
        /\ Cardinality({m \in DOMAIN v : v[m] <= v[i]}) >= k
  <1>7. j \in DOMAIN v /\ Right(j)
    BY <1>1, <1>5, <1>6 DEF AtMost, Below
  <1> DEFINE c == CHOOSE i \in DOMAIN v : Right(i)
  <1>8. c \in DOMAIN v /\ Right(c)
    BY <1>7
  <1>9. Ranked(v, k) = v[c]
    BY DEF Ranked
  <1> QED
    BY <1>1, <1>8, <1>9 DEF AtMost, Below

\* A percentile is one of the values.
LEMMA PercentileIsAValue ==
    ASSUME NEW n \in Nat \ {0}, NEW v \in [1..n -> Nat]
    PROVE  Percentile(v, 99) \in Nat
  <1> DEFINE rank == CeilingDiv(99 * n, 100)
  <1>1. rank \in 1..n /\ Len(v) = n
    BY DEF CeilingDiv
  <1>2. Percentile(v, 99) = Ranked(v, rank)
    BY <1>1 DEF Percentile
  <1> HIDE DEF rank
  <1>3. \E j \in 1..n : Ranked(v, rank) = v[j]
    BY <1>1, RankedIsRanked
  <1> QED
    BY <1>2, <1>3

\* Of n values, at most one in a hundred is above the 99th percentile, and
\* so above any limit that one meets.
LEMMA FewAreSlow ==
    ASSUME NEW n \in Nat \ {0}, NEW v \in [1..n -> Nat], NEW limit \in Nat,
           Percentile(v, 99) <= limit
    PROVE  100 * Cardinality({i \in 1..n : v[i] > limit}) <= n
  <1> DEFINE rank == CeilingDiv(99 * n, 100)
             p == Ranked(v, rank)
             slow == {i \in 1..n : v[i] > limit}
  <1>1. rank \in 1..n /\ 100 * rank >= 99 * n
    BY DEF CeilingDiv
  <1>2. Len(v) = n
    OBVIOUS
  <1>3. Percentile(v, 99) = p
    BY <1>1, <1>2 DEF Percentile
  <1> HIDE DEF rank
  <1>4. (\E j \in 1..n : p = v[j]) /\ Cardinality(AtMost(v, p)) >= rank
    BY <1>1, RankedIsRanked
  <1>5. p \in Nat /\ p <= limit
    BY <1>3, <1>4
  <1> HIDE DEF p
  <1>6. slow \in SUBSET (1..n) /\ AtMost(v, p) \in SUBSET (1..n) /\ slow \cap AtMost(v, p) = {}
    BY <1>5 DEF AtMost
  <1> HIDE DEF slow
  <1>7. /\ IsFiniteSet(1..n) /\ Cardinality(1..n) = n
        /\ IsFiniteSet(slow) /\ Cardinality(slow) \in Nat
        /\ IsFiniteSet(AtMost(v, p)) /\ Cardinality(AtMost(v, p)) \in Nat
    BY <1>6, Upto, FS_Subset, FS_CardinalityType
  <1>8. Cardinality(slow) + Cardinality(AtMost(v, p)) <= n
    <2>1. Cardinality(slow \cup AtMost(v, p))
            = Cardinality(slow) + Cardinality(AtMost(v, p)) - Cardinality(slow \cap AtMost(v, p))
      BY <1>7, FS_Union
    <2>2. Cardinality(slow \cap AtMost(v, p)) = 0
      BY <1>6, FS_EmptySet
    <2>3. Cardinality(slow \cup AtMost(v, p)) <= n
      BY <1>6, <1>7, FS_Subset
    <2> QED
      BY <1>7, <2>1, <2>2, <2>3
  <1> QED
    BY <1>1, <1>4, <1>7, <1>8 DEF slow

\* The cases of a list of results that are of some kind.
Passed(results) == {i \in DOMAIN results : results[i].passed}
Judged(results) == {i \in DOMAIN results : results[i].schema # "none"}
Valid(results) == {i \in DOMAIN results : results[i].schema = "valid"}

\* What a list of results that the gate lets pass is like.
LEMMA PassedTheGate ==
    ASSUME EvaluationAssumption, NEW results \in Seq(Result), results # <<>>, ~Rejects(results)
    PROVE  LET n == Len(results)
           IN  /\ 100 * (n - Cardinality(Passed(results))) <= MaxErrorPercent * n
               /\ 100 * Cardinality({i \in 1..n : results[i].latency > MaxP99}) <= n
               /\ 100 * Cardinality(Valid(results)) >= MinSchema * Cardinality(Judged(results))
  <1> DEFINE n == Len(results)
  <1>1. n \in Nat \ {0} /\ DOMAIN results = 1..n /\ \A i \in 1..n : results[i] \in Result
    OBVIOUS
  <1>2. /\ MaxErrorPercent \in Nat /\ MinSchema \in Nat /\ MaxP99 \in Nat
        /\ \A l \in Latencies : l \in Nat
    <2>1. {MinQuality, MinSchema, MaxErrorPercent} \subseteq 0..100 /\ MaxP99 \in Nat
      BY DEF EvaluationAssumption
    <2>2. Latencies \subseteq Nat \ {0}
      BY DEF EvaluationAssumption
    <2>3. MinSchema \in 0..100 /\ MaxErrorPercent \in 0..100
      BY <2>1
    <2> QED
      BY <2>1, <2>2, <2>3
  <1> HIDE DEF n
  <1>3. IsFiniteSet(1..n) /\ Cardinality(1..n) = n
    BY <1>1, Upto
  <1>4. 100 * (n - Cardinality(Passed(results))) <= MaxErrorPercent * n
    <2> DEFINE F == {i \in DOMAIN results : ~results[i].passed}
               P == Passed(results)
    <2>1. ~RateExceeds(Cardinality(F), n, MaxErrorPercent)
      BY DEF Rejects, Count, n
    <2>2. F = (1..n) \ P /\ P \in SUBSET (1..n)
      BY <1>1 DEF Passed
    <2> HIDE DEF F, P
    <2>3. /\ IsFiniteSet(P) /\ Cardinality(P) \in Nat /\ Cardinality((1..n) \cap P) = Cardinality(P)
      <3>1. (1..n) \cap P = P
        BY <2>2
      <3> QED
        BY <1>3, <2>2, <3>1, FS_Subset, FS_CardinalityType
    <2>4. Cardinality(F) = n - Cardinality(P)
      <3>1. Cardinality((1..n) \ P) = Cardinality(1..n) - Cardinality((1..n) \cap P)
        BY <1>3, FS_Difference
      <3> QED
        BY <1>3, <2>2, <2>3, <3>1
    <2>5. ~(100 * Cardinality(F) > MaxErrorPercent * n)
      BY <2>1 DEF RateExceeds
    <2>6. MaxErrorPercent * n \in Int /\ 100 * Cardinality(F) \in Int
      BY <1>1, <1>2, <2>3, <2>4
    <2>7. 100 * Cardinality(F) <= MaxErrorPercent * n
      BY <2>5, <2>6
    <2> QED
      BY <2>4, <2>7 DEF P
  <1>5. 100 * Cardinality({i \in 1..n : results[i].latency > MaxP99}) <= n
    <2> DEFINE v == [i \in 1..n |-> results[i].latency]
    <2>1. v \in [1..n -> Nat]
      <3>1. ASSUME NEW i \in 1..n PROVE results[i].latency \in Nat
        <4>1. results[i] \in Result
          BY <1>1
        <4>2. results[i].latency = 0 \/ results[i].latency \in Latencies
          BY <4>1 DEF Result
        <4>3. 0 \in Nat
          OBVIOUS
        <4> QED
          BY <1>2, <4>2, <4>3, Zenon
      <3> QED
        BY <3>1
    <2>2. ~(Percentile(v, 99) > MaxP99)
      BY DEF Rejects, n
    <2>3. \A i \in 1..n : v[i] = results[i].latency
      OBVIOUS
    <2>4. {i \in 1..n : results[i].latency > MaxP99} = {i \in 1..n : v[i] > MaxP99}
      BY <2>3
    <2> HIDE DEF v
    <2>5. Percentile(v, 99) \in Nat
      BY <1>1, <2>1, PercentileIsAValue
    <2>6. Percentile(v, 99) <= MaxP99
      BY <1>2, <2>2, <2>5
    <2>7. 100 * Cardinality({i \in 1..n : v[i] > MaxP99}) <= n
      BY <1>1, <1>2, <2>1, <2>6, FewAreSlow
    <2> QED
      BY <2>4, <2>7
  <1>6. 100 * Cardinality(Valid(results)) >= MinSchema * Cardinality(Judged(results))
    <2> DEFINE V == Valid(results)
               J == Judged(results)
    <2>1. ~(Cardinality(J) > 0 /\ 100 * Cardinality(V) < MinSchema * Cardinality(J))
      BY DEF Rejects, SchemaFails, Count, Judged, Valid
    <2>2. V \in SUBSET (1..n) /\ J \in SUBSET (1..n)
      BY <1>1 DEF Valid, Judged
    <2> HIDE DEF V, J
    <2>3. Cardinality(V) \in Nat /\ Cardinality(J) \in Nat
      BY <1>3, <2>2, FS_Subset, FS_CardinalityType
    <2>4. CASE Cardinality(J) = 0
      <3>1. MinSchema * Cardinality(J) = 0
        BY <1>2, <2>4
      <3> QED
        BY <2>3, <3>1 DEF V, J
    <2>5. CASE Cardinality(J) > 0
      <3>1. MinSchema * Cardinality(J) \in Int
        BY <1>2, <2>3
      <3>2. 100 * Cardinality(V) >= MinSchema * Cardinality(J)
        BY <2>1, <2>3, <2>5, <3>1
      <3> QED
        BY <3>2 DEF V, J
    <2> QED
      BY <2>3, <2>4, <2>5
  <1> QED
    BY <1>4, <1>5, <1>6 DEF n

-----------------------------------------------------------------------------
(* The inductive invariant.                                                *)

\* A result that a case may have: whether it is judged by its schema.
FitsCase(case, result) ==
    /\ result.case = case.id
    /\ case.schema = "none" => result.schema = "none"
    /\ case.schema = "empty" => result.schema = IF result.latency > 0 THEN "valid" ELSE "none"
    /\ case.schema = "full" => result.schema # "none"

\* Results that are those of the first of these cases, in order.
FitsCases(cases, results) ==
    /\ Len(results) <= Len(cases)
    /\ \A i \in DOMAIN results : FitsCase(cases[i], results[i])

\* A job that is past loading holds a registered version of the dataset, and
\* results of its cases: of some while it runs them, then of all.
JobFits(s) ==
    /\ s.pc \in {"idle", "loading"} => s.results = <<>>
    /\ s.pc \in {"running", "storing", "gating"} =>
         \E a \in artifacts :
            LET cases == CasesOf[a.content]
            IN  /\ s.loaded = {a} /\ a.key[1] = Dataset
                /\ cases # <<>> /\ FitsCases(cases, s.results)
                /\ Len(s.results) < Len(cases) <=> s.pc = "running"

\* A run has a result for every case of the version it names.
RunFits(r) ==
    \E a \in RowsOf(<<Dataset, r.version>>) :
       LET cases == CasesOf[a.content]
       IN  cases # <<>> /\ FitsCases(cases, r.results) /\ Len(r.results) = Len(cases)

EvalTyped ==
    /\ job \in [Jobs -> Job]
    /\ runs \subseteq [job : Jobs, version : Versions, results : Seq(Result)]
    /\ started \subseteq Jobs

Supported ==
    /\ \A j \in Jobs : JobFits(job[j])
    /\ \A r \in runs : RunFits(r)
    /\ \A j \in Jobs : job[j].pc = "gating" => RunOf(j) \subseteq runs
    /\ \A j \in started : \E r \in runs : r.job = j /\ ~Rejects(r.results)

EvalInv == EvalTyped /\ Supported

\* No row of the registry is ever removed.
LEMMA RowsStay == [Next]_vars => artifacts \subseteq artifacts'
  BY DEF Next, Serve, BeginPut, Insert, Store, FailPut, ReturnNew, Compare, Return, Tick, Crash, vars

\* Seen from a job or a run, more rows change nothing.
LEMMA MoreRows ==
    ASSUME artifacts \subseteq artifacts'
    PROVE  /\ \A s : JobFits(s) => JobFits(s)'
           /\ \A r : RunFits(r) => RunFits(r)'
  BY DEF JobFits, RunFits, RowsOf

\* A step of one job, which may store its run or let its canary start.
LEMMA JobStep ==
    ASSUME EvalInv, NEW j \in Jobs, NEW s \in Job, Become(j, s), UNCHANGED artifacts,
           JobFits(s),
           runs \subseteq runs', started \subseteq started',
           \A r \in runs' \ runs :
              r \in [job : Jobs, version : Versions, results : Seq(Result)] /\ RunFits(r),
           \A i \in started' \ started :
              i \in Jobs /\ \E r \in runs' : r.job = i /\ ~Rejects(r.results),
           s.pc = "gating" => \A a \in s.loaded :
              [job |-> j, version |-> a.key[2], results |-> s.results] \in runs'
    PROVE  EvalInv'
  <1>1. /\ job' \in [Jobs -> Job] /\ job'[j] = s
        /\ \A i \in Jobs : i # j => job'[i] = job[i]
    BY DEF EvalInv, EvalTyped, Become
  <1>2. EvalTyped'
    BY <1>1 DEF EvalInv, EvalTyped
  <1>3. (\A t : JobFits(t)' <=> JobFits(t)) /\ (\A r : RunFits(r)' <=> RunFits(r))
    BY DEF JobFits, RunFits, RowsOf
  <1>4. ASSUME NEW i \in Jobs PROVE JobFits(job[i])'
    <2>1. JobFits(job[i]) /\ (job'[i] = s \/ job'[i] = job[i])
      BY <1>1 DEF EvalInv, Supported
    <2> QED
      BY <2>1 DEF JobFits
  <1>5. ASSUME NEW r \in runs' PROVE RunFits(r)'
    BY <1>3, <1>5 DEF EvalInv, Supported
  <1>6. ASSUME NEW i \in Jobs, job'[i].pc = "gating" PROVE RunOf(i)' \subseteq runs'
    <2>1. CASE i = j
      BY <1>1, <1>6, <2>1 DEF RunOf
    <2>2. CASE i # j
      BY <1>1, <1>6, <2>2 DEF RunOf, EvalInv, Supported
    <2> QED
      BY <2>1, <2>2
  <1>7. ASSUME NEW i \in started' PROVE \E r \in runs' : r.job = i /\ ~Rejects(r.results)
    BY <1>7 DEF EvalInv, Supported
  <1> QED
    BY <1>2, <1>4, <1>5, <1>6, <1>7 DEF EvalInv, Supported

-----------------------------------------------------------------------------
(* The steps of a job.                                                     *)

LEMMA IdleIsAJob ==
    /\ Idle \in Job /\ Ended \in Job /\ JobFits(Idle) /\ JobFits(Ended)
    /\ Idle.pc = "idle" /\ Ended.pc = "ended" /\ Idle.results = <<>> /\ Ended.results = <<>>
  <1>1. <<>> \in Seq(Result)
    OBVIOUS
  <1>2. Idle \in Job /\ Idle.pc = "idle" /\ Idle.results = <<>>
    BY <1>1 DEF Idle, Job
  <1>3. Ended \in Job /\ Ended.pc = "ended" /\ Ended.results = <<>>
    BY <1>2 DEF Ended, Job
  <1> QED
    BY <1>2, <1>3 DEF JobFits

LEMMA EndStep ==
    ASSUME EvalInv, NEW j \in Jobs, Become(j, Ended), UNCHANGED <<artifacts, runs, started>>
    PROVE  EvalInv'
  BY IdleIsAJob, JobStep

LEMMA BeginStep ==
    ASSUME EvalInv, NEW j \in Jobs, NEW start \in BOOLEAN, Begin(j, start), UNCHANGED artifacts
    PROVE  EvalInv'
  <1> DEFINE s == [Idle EXCEPT !.pc = "loading", !.start = start]
  <1>1. s \in Job /\ s.pc = "loading" /\ s.results = <<>>
    BY IdleIsAJob DEF Job, Idle
  <1>2. Become(j, s) /\ UNCHANGED <<runs, started>>
    BY DEF Begin
  <1> HIDE DEF s
  <1>3. JobFits(s)
    BY <1>1 DEF JobFits
  <1> QED
    BY <1>1, <1>2, <1>3, JobStep

\* Rows have their types.
LEMMA RowsAreTyped ==
    ASSUME EvaluationAssumption, Inv, NEW a \in artifacts
    PROVE  /\ a \in Row /\ a.key \in Names \X Versions
           /\ CasesOf[a.content] \in Seq(Case)
  <1>1. a \in Row
    BY DEF Inv, TypeOK
  <1>2. a.key \in Names \X Versions /\ a.content \in Contents
    BY <1>1 DEF Row, Keys
  <1> QED
    BY <1>1, <1>2 DEF EvaluationAssumption

LEMMA LoadStep ==
    ASSUME EvaluationAssumption, Inv, EvalInv, NEW j \in Jobs, Load(j), UNCHANGED artifacts
    PROVE  EvalInv'
  <1>1. CASE Become(j, Ended)
    BY <1>1, EndStep DEF Load
  <1>2. CASE ~Become(j, Ended)
    <2>1. PICK found \in {RowsOf(<<Dataset, v>>) : v \in Versions} \cup {Latest(Dataset)} :
            \E a \in found :
              /\ CasesOf[a.content] # <<>>
              /\ Become(j, [job[j] EXCEPT !.pc = "running", !.loaded = {a}])
      BY <1>2 DEF Load
    <2>2. PICK a \in found :
              /\ CasesOf[a.content] # <<>>
              /\ Become(j, [job[j] EXCEPT !.pc = "running", !.loaded = {a}])
      BY <2>1
    <2>3. a \in artifacts /\ a.key[1] = Dataset
      BY <2>1 DEF RowsOf, Latest, RowsNamed
    <2> DEFINE s == [job[j] EXCEPT !.pc = "running", !.loaded = {a}]
    <2>4. job[j] \in Job /\ job[j].results = <<>>
      BY DEF EvalInv, EvalTyped, Supported, JobFits, Load
    <2>5. a \in Row /\ CasesOf[a.content] \in Seq(Case)
      BY <2>3, RowsAreTyped
    <2>6. s \in Job /\ s.pc = "running" /\ s.loaded = {a} /\ s.results = <<>>
      BY <2>4, <2>5 DEF Job
    <2> HIDE DEF s
    <2>7. JobFits(s)
      <3>1. Len(s.results) < Len(CasesOf[a.content]) /\ FitsCases(CasesOf[a.content], s.results)
        BY <2>2, <2>5, <2>6 DEF FitsCases
      <3> QED
        BY <2>2, <2>3, <2>6, <3>1 DEF JobFits
    <2>8. Become(j, s) /\ UNCHANGED <<runs, started>>
      BY <2>2 DEF Load, s
    <2> QED
      BY <2>6, <2>7, <2>8, JobStep
  <1> QED
    BY <1>1, <1>2

\* What a call makes of a case.
LEMMA ResultOfCase ==
    ASSUME EvaluationAssumption, NEW c \in Case,
           NEW r \in OutcomesOf(c)
    PROVE  r \in Result /\ FitsCase(c, r)
  <1>1. c.id \in STRING /\ c.schema \in {"none", "empty", "full"}
    BY DEF Case
  <1>2. CASE r = ErrorOf(c)
    BY <1>1, <1>2 DEF ErrorOf, Result, FitsCase
  <1>3. ASSUME NEW q \in Qualities, NEW l \in Latencies, r = AnswerOf(c, q, l)
        PROVE  r \in Result /\ FitsCase(c, r)
    <2>1. q \in 0..100 /\ (q = 100) \in BOOLEAN /\ l > 0
      BY DEF EvaluationAssumption
    <2> QED
      BY <1>1, <1>3, <2>1 DEF AnswerOf, Result, FitsCase
  <1> QED
    BY <1>2, <1>3 DEF OutcomesOf

\* A result more.
LEMMA OneMoreCase ==
    ASSUME NEW cases \in Seq(Case), NEW results \in Seq(Result),
           FitsCases(cases, results), Len(results) < Len(cases),
           NEW r \in Result, FitsCase(cases[Len(results) + 1], r)
    PROVE  /\ Append(results, r) \in Seq(Result) /\ FitsCases(cases, Append(results, r))
           /\ Len(Append(results, r)) = Len(results) + 1
  <1> DEFINE more == Append(results, r)
  <1>1. /\ more \in Seq(Result) /\ Len(more) = Len(results) + 1
        /\ DOMAIN more = 1..Len(results) + 1
        /\ \A i \in 1..Len(results) : more[i] = results[i]
        /\ more[Len(results) + 1] = r
    OBVIOUS
  <1>2. ASSUME NEW i \in DOMAIN more
        PROVE  FitsCase(cases[i], more[i])
    <2>1. CASE i = Len(results) + 1
      BY <1>1, <2>1
    <2>2. CASE i \in 1..Len(results)
      BY <1>1, <2>2 DEF FitsCases
    <2> QED
      BY <1>1, <2>1, <2>2
  <1> QED
    BY <1>1, <1>2 DEF FitsCases

LEMMA NextOf ==
    ASSUME NEW C, NEW cases \in Seq(C), NEW n \in Nat, n < Len(cases)
    PROVE  cases[n + 1] \in C
  OBVIOUS

LEMMA WithResults ==
    ASSUME NEW s \in Job, NEW more \in Seq(Result)
    PROVE  LET t == [s EXCEPT !.results = more]
           IN  t \in Job /\ t.pc = s.pc /\ t.results = more /\ t.loaded = s.loaded
  BY DEF Job

LEMMA CaseStep ==
    ASSUME EvaluationAssumption, Inv, EvalInv, NEW j \in Jobs, RunCase(j), UNCHANGED artifacts
    PROVE  EvalInv'
  <1>1. job[j].pc = "running" /\ job[j] \in Job /\ JobFits(job[j])
    BY DEF RunCase, EvalInv, EvalTyped, Supported
  <1>2. PICK a \in artifacts :
          /\ job[j].loaded = {a} /\ a.key[1] = Dataset
          /\ CasesOf[a.content] # <<>> /\ FitsCases(CasesOf[a.content], job[j].results)
          /\ Len(job[j].results) < Len(CasesOf[a.content])
    BY <1>1 DEF JobFits
  <1> DEFINE cases == CasesOf[a.content]
             results == job[j].results
             case == cases[Len(results) + 1]
  <1>3. cases \in Seq(Case) /\ results \in Seq(Result)
    BY <1>1, RowsAreTyped DEF Job
  <1>4. case \in Case
    <2>1. Len(results) < Len(cases)
      BY <1>2
    <2>2. Len(results) \in Nat
      BY <1>3
    <2> HIDE DEF cases, results
    <2> QED
      BY <1>3, <2>1, <2>2, NextOf
  <1>5. PICK r \in OutcomesOf(case) :
           Become(j, AfterCase([job[j] EXCEPT !.results = Append(@, r)], cases))
    BY <1>2 DEF RunCase, NextCase
  <1>6. r \in Result /\ FitsCase(case, r)
    BY <1>4, <1>5, ResultOfCase
  <1> DEFINE more == Append(results, r)
             t == [job[j] EXCEPT !.results = more]
             s == AfterCase(t, cases)
  <1>7. /\ more \in Seq(Result) /\ FitsCases(cases, more) /\ Len(more) = Len(results) + 1
    BY <1>2, <1>3, <1>6, OneMoreCase
  <1> HIDE DEF more
  <1>8. t \in Job /\ t.pc = "running" /\ t.results = more /\ t.loaded = {a}
    <2>1. job[j].loaded = {a} /\ more \in Seq(Result)
      BY <1>2, <1>7
    <2> QED
      BY <1>1, <2>1, WithResults
  <1> HIDE DEF t
  <1>9. /\ s \in Job /\ s.results = more /\ s.loaded = {a}
        /\ s.pc = IF Len(more) = Len(cases) THEN "storing" ELSE "running"
    BY <1>8 DEF AfterCase, Job
  <1>10. Become(j, s) /\ UNCHANGED <<runs, started>>
    BY <1>5 DEF RunCase, t, more
  <1> HIDE DEF s
  <1>11. JobFits(s)
    <2>1. Len(more) <= Len(cases) /\ Len(more) \in Nat /\ Len(cases) \in Nat
      BY <1>3, <1>7 DEF FitsCases
    <2>2. Len(more) < Len(cases) <=> s.pc = "running"
      BY <1>9, <2>1
    <2> QED
      BY <1>2, <1>7, <1>9, <2>2 DEF JobFits
  <1>12. s.pc # "gating"
    BY <1>9
  <1> HIDE DEF cases
  <1> QED
    BY <1>9, <1>10, <1>11, <1>12, JobStep

LEMMA StoreStep ==
    ASSUME EvaluationAssumption, Inv, EvalInv, NEW j \in Jobs, StoreRun(j), UNCHANGED artifacts
    PROVE  EvalInv'
  <1>1. job[j].pc = "storing" /\ job[j] \in Job /\ JobFits(job[j])
    BY DEF StoreRun, EvalInv, EvalTyped, Supported
  <1>2. PICK a \in artifacts :
          /\ job[j].loaded = {a} /\ a.key[1] = Dataset
          /\ CasesOf[a.content] # <<>> /\ FitsCases(CasesOf[a.content], job[j].results)
          /\ ~(Len(job[j].results) < Len(CasesOf[a.content]))
    BY <1>1 DEF JobFits
  <1> DEFINE run == [job |-> j, version |-> a.key[2], results |-> job[j].results]
             t == [job[j] EXCEPT !.pc = "gating"]
             s == IF job[j].start THEN t ELSE Ended
  <1>3. runs' = runs \cup {run} /\ Become(j, s) /\ UNCHANGED started
    BY <1>2 DEF StoreRun, RunOf
  <1>4. /\ a.key \in Names \X Versions /\ job[j].results \in Seq(Result)
        /\ CasesOf[a.content] \in Seq(Case)
    BY <1>1, RowsAreTyped DEF Job
  <1>5. Len(job[j].results) = Len(CasesOf[a.content])
    BY <1>2, <1>4 DEF FitsCases
  <1>6. run \in [job : Jobs, version : Versions, results : Seq(Result)]
    BY <1>4
  <1>7. RunFits(run)
    <2>1. a \in RowsOf(<<Dataset, run.version>>)
      BY <1>2, <1>4 DEF RowsOf
    <2> QED
      BY <1>2, <1>5, <2>1 DEF RunFits
  <1>8. /\ t \in Job /\ t.pc = "gating" /\ t.loaded = {a} /\ t.results = job[j].results
    BY <1>1, <1>2 DEF Job
  <1> HIDE DEF t
  <1>9. JobFits(t)
    BY <1>2, <1>5, <1>8 DEF JobFits
  <1>10. s \in Job /\ JobFits(s) /\ (s.pc = "gating" => s = t)
    BY <1>8, <1>9, IdleIsAJob
  <1>11. s.pc = "gating" => \A b \in s.loaded :
           [job |-> j, version |-> b.key[2], results |-> s.results] \in runs'
    BY <1>3, <1>8, <1>10
  <1> HIDE DEF s, run
  <1> QED
    BY <1>3, <1>6, <1>7, <1>10, <1>11, JobStep

LEMMA GateStep ==
    ASSUME EvaluationAssumption, Inv, EvalInv, NEW j \in Jobs, Gate(j), UNCHANGED artifacts
    PROVE  EvalInv'
  <1>1. job[j].pc = "gating" /\ JobFits(job[j]) /\ RunOf(j) \subseteq runs
    BY DEF Gate, EvalInv, Supported
  <1>2. PICK a \in artifacts : job[j].loaded = {a}
    BY <1>1 DEF JobFits
  <1>3. [job |-> j, version |-> a.key[2], results |-> job[j].results] \in runs
    BY <1>1, <1>2 DEF RunOf
  <1>4. /\ started \subseteq started' /\ runs' = runs /\ Become(j, Ended)
        /\ \A i \in started' \ started : i = j /\ ~Rejects(job[j].results)
    BY DEF Gate
  <1>5. \A i \in started' \ started :
           i \in Jobs /\ \E r \in runs' : r.job = i /\ ~Rejects(r.results)
    BY <1>3, <1>4
  <1> QED
    BY <1>4, <1>5, IdleIsAJob, JobStep

\* The process dies: the jobs are gone, the runs are not.
LEMMA CrashStep ==
    ASSUME EvalInv, CrashJobs, UNCHANGED <<artifacts, runs, started>>
    PROVE  EvalInv'
  <1>1. \A j \in Jobs : job'[j] = Idle \/ job'[j] = Ended
    BY DEF CrashJobs
  <1>2. job' \in [Jobs -> Job]
    BY IdleIsAJob DEF CrashJobs
  <1>3. (\A t : JobFits(t)' <=> JobFits(t)) /\ (\A r : RunFits(r)' <=> RunFits(r))
    BY DEF JobFits, RunFits, RowsOf
  <1>4. ASSUME NEW j \in Jobs PROVE JobFits(job[j])' /\ job'[j].pc # "gating"
    <2>1. JobFits(job'[j]) /\ job'[j].pc # "gating"
      BY <1>1, IdleIsAJob
    <2> QED
      BY <2>1 DEF JobFits
  <1>5. EvalTyped'
    BY <1>2 DEF EvalInv, EvalTyped
  <1> QED
    BY <1>3, <1>4, <1>5 DEF EvalInv, Supported

\* The registry goes on: rows are only added.
LEMMA ServeStep ==
    ASSUME EvalInv, [Next]_vars, UNCHANGED evalVars
    PROVE  EvalInv'
  <1>1. UNCHANGED <<job, runs, started>>
    BY DEF evalVars
  <1>2. (\A s : JobFits(s) => JobFits(s)') /\ (\A r : RunFits(r) => RunFits(r)')
    BY RowsStay, MoreRows
  <1>3. ASSUME NEW j \in Jobs PROVE JobFits(job[j])'
    <2>1. JobFits(job[j])
      BY DEF EvalInv, Supported
    <2> DEFINE s == job[j]
    <2>2. job'[j] = s
      BY <1>1
    <2> HIDE DEF s
    <2> QED
      BY <1>1, <2>1, <2>2, RowsStay DEF JobFits, s
  <1> QED
    BY <1>1, <1>2, <1>3 DEF EvalInv, EvalTyped, Supported, RunOf

LEMMA EvalStep ==
    ASSUME EvaluationAssumption, Inv, EvalInv, [EvalNext]_<<vars, evalVars>>
    PROVE  Inv' /\ EvalInv'
  <1>1. [Next]_vars
    BY DEF EvalNext, Next, vars
  <1>2. Inv'
    BY <1>1, InvNext
  <1>3. ASSUME NEW j \in Jobs, UNCHANGED vars,
               \/ \E start \in BOOLEAN : Begin(j, start)
               \/ Load(j) \/ RunCase(j) \/ StoreRun(j) \/ Gate(j) \/ FailJob(j)
        PROVE  EvalInv'
    <2>1. UNCHANGED artifacts
      BY <1>3 DEF vars
    <2>2. CASE FailJob(j)
      BY <2>1, <2>2, EndStep DEF FailJob
    <2> QED
      BY <1>3, <2>1, <2>2, BeginStep, LoadStep, CaseStep, StoreStep, GateStep
  <1>4. ASSUME Crash, CrashJobs, UNCHANGED <<runs, started>> PROVE EvalInv'
    <2>1. UNCHANGED <<artifacts, runs, started>>
      BY <1>4 DEF Crash
    <2> QED
      BY <1>4, <2>1, CrashStep
  <1>5. ASSUME UNCHANGED evalVars PROVE EvalInv'
    BY <1>1, <1>5, ServeStep
  <1> QED
    BY <1>2, <1>3, <1>4, <1>5 DEF EvalNext

\* Whatever datasets, jobs, administrators and crashes there are: what a job
\* holds and what is stored stay those of a registered version, and a canary
\* was started only on a stored run its gate did not reject.
THEOREM EvaluationInvariance == EvalSpec => [](Inv /\ EvalInv)
  <1>1. EvalInit => Inv /\ EvalInv
    <2> SUFFICES ASSUME EvalInit PROVE Inv /\ EvalInv
      OBVIOUS
    <2>1. Inv
      BY InvInit DEF EvalInit
    <2>2. EvalTyped
      BY IdleIsAJob DEF EvalInit, EvalTyped
    <2>3. Supported
      BY IdleIsAJob DEF EvalInit, Supported
    <2> QED
      BY <2>1, <2>2, <2>3 DEF EvalInv
  <1>2. (Inv /\ EvalInv) /\ [EvalNext]_<<vars, evalVars>> => (Inv /\ EvalInv)'
    BY EvalStep, EvaluationAssumption
  <1> QED
    BY <1>1, <1>2, PTL DEF EvalSpec

-----------------------------------------------------------------------------
(* The theorems.                                                           *)

(***************************************************************************)
(* The types of jobs and runs, for any number of jobs: a job that stores   *)
(* or judges its results has one for every case, whatever dataset it read, *)
(* which calls raised, and what the registry did meanwhile.                *)
(***************************************************************************)
THEOREM JobsAreTyped == EvalSpec => []EvalTypeOK
  <1>1. Inv /\ EvalInv => EvalTypeOK
    <2> SUFFICES ASSUME Inv, EvalInv PROVE EvalTypeOK
      OBVIOUS
    <2>1. ASSUME NEW j \in Jobs, job[j].pc \in {"storing", "gating"}, NEW b \in job[j].loaded
          PROVE  Len(job[j].results) = Len(CasesOf[b.content])
      <3>1. PICK a \in artifacts :
              /\ job[j].loaded = {a} /\ FitsCases(CasesOf[a.content], job[j].results)
              /\ ~(Len(job[j].results) < Len(CasesOf[a.content]))
        BY <2>1 DEF EvalInv, Supported, JobFits
      <3>2. /\ job[j].results \in Seq(Result)
            /\ CasesOf[a.content] \in Seq(Case)
        BY RowsAreTyped, EvaluationAssumption DEF EvalInv, EvalTyped, Job
      <3>3. Len(job[j].results) = Len(CasesOf[a.content])
        BY <3>1, <3>2 DEF FitsCases
      <3> QED
        BY <2>1, <3>1, <3>3
    <2> QED
      BY <2>1 DEF EvalTypeOK, EvalInv, EvalTyped
  <1> QED
    BY <1>1, EvaluationInvariance, PTL

(***************************************************************************)
(* docs/data-model.md:191: what a stored run says can be read for ever. It *)
(* is about the version it names, case by case, whoever registers what     *)
(* beside it and wherever the process dies.                                *)
(***************************************************************************)
THEOREM RunsStayReadable == EvalSpec => []RunsNameTheirDataset
  <1>1. Inv /\ EvalInv => RunsNameTheirDataset
    <2> SUFFICES ASSUME EvalInv, NEW r \in runs
                 PROVE  \E a \in RowsOf(<<Dataset, r.version>>) :
                          /\ Len(r.results) = Len(CasesOf[a.content])
                          /\ \A i \in DOMAIN r.results :
                                r.results[i].case = CasesOf[a.content][i].id
      BY DEF RunsNameTheirDataset
    <2>1. RunFits(r)
      BY DEF EvalInv, Supported
    <2> QED
      BY <2>1 DEF RunFits, FitsCases, FitsCase
  <1> QED
    BY <1>1, EvaluationInvariance, PTL

(***************************************************************************)
(* docs/release-engineering.md:167, for every dataset and every threshold: *)
(* a canary was started only behind a stored run of a registered version   *)
(* that has no more failures, slow cases and invalid answers than the      *)
(* limits allow, counted over the cases of that version; one with the      *)
(* schema {} whose call raised is not among those counted by schema.       *)
(***************************************************************************)
THEOREM NoCanaryWithoutEvidence == EvalSpec => []GateIsSound
  <1>1. Inv /\ EvalInv => GateIsSound
    <2> SUFFICES ASSUME Inv, EvalInv, NEW j \in started
                 PROVE  \E r \in runs :
                   /\ r.job = j
                   /\ \E a \in RowsOf(<<Dataset, r.version>>) :
                        LET cases == CasesOf[a.content]
                            n == Len(cases)
                            passed == {i \in 1..n : r.results[i].passed}
                            slow == {i \in 1..n : r.results[i].latency > MaxP99}
                            answered == {i \in 1..n : r.results[i].latency > 0}
                            schemas == {i \in 1..n : \/ cases[i].schema = "full"
                                                     \/ cases[i].schema = "empty" /\ i \in answered}
                            valid == {i \in schemas : r.results[i].schema = "valid"}
                        IN  /\ 100 * (n - Cardinality(passed)) <= MaxErrorPercent * n
                            /\ 100 * Cardinality(slow) <= n
                            /\ 100 * Cardinality(valid) >= MinSchema * Cardinality(schemas)
      BY DEF GateIsSound
    <2>1. PICK r \in runs : r.job = j /\ ~Rejects(r.results)
      BY DEF EvalInv, Supported
    <2>2. PICK a \in RowsOf(<<Dataset, r.version>>) :
            /\ CasesOf[a.content] # <<>> /\ FitsCases(CasesOf[a.content], r.results)
            /\ Len(r.results) = Len(CasesOf[a.content])
      BY DEF EvalInv, Supported, RunFits
    <2> DEFINE cases == CasesOf[a.content]
               n == Len(cases)
               passed == {i \in 1..n : r.results[i].passed}
               slow == {i \in 1..n : r.results[i].latency > MaxP99}
               answered == {i \in 1..n : r.results[i].latency > 0}
               schemas == {i \in 1..n : \/ cases[i].schema = "full"
                                        \/ cases[i].schema = "empty" /\ i \in answered}
               valid == {i \in schemas : r.results[i].schema = "valid"}
    <2>3. /\ r.results \in Seq(Result) /\ cases \in Seq(Case)
      BY RowsAreTyped, EvaluationAssumption DEF EvalInv, EvalTyped, RowsOf
    <2>4. DOMAIN r.results = 1..n /\ r.results # <<>> /\ Len(r.results) = n
      BY <2>2, <2>3
    <2>5. passed = Passed(r.results)
      BY <2>4 DEF Passed
    <2>6. schemas = Judged(r.results)
      <3>1. ASSUME NEW i \in 1..n
            PROVE  i \in schemas <=> r.results[i].schema # "none"
        <4>1. FitsCase(cases[i], r.results[i]) /\ cases[i] \in Case
          BY <2>2, <2>3, <2>4 DEF FitsCases
        <4> QED
          BY <4>1 DEF FitsCase, Case
      <3> QED
        BY <2>4, <3>1 DEF Judged
    <2>7. valid = Valid(r.results)
      BY <2>4, <2>6 DEF Valid, Judged
    <2>8. /\ 100 * (n - Cardinality(Passed(r.results))) <= MaxErrorPercent * n
          /\ 100 * Cardinality(slow) <= n
          /\ 100 * Cardinality(Valid(r.results)) >= MinSchema * Cardinality(Judged(r.results))
      BY <2>1, <2>3, <2>4, PassedTheGate, EvaluationAssumption
    <2> QED
      BY <2>1, <2>5, <2>6, <2>7, <2>8
  <1> QED
    BY <1>1, EvaluationInvariance, PTL

=============================================================================
