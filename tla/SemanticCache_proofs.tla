------------------------- MODULE SemanticCache_proofs -------------------------
(***************************************************************************)
(* What the cache keeps and serves, for every capacity, time to live and   *)
(* similarity of texts, and any number of calls.                           *)
(***************************************************************************)
EXTENDS SemanticCache, FiniteSetTheorems, TLAPS

-----------------------------------------------------------------------------
(* What is left of a sequence when some of its positions are kept.         *)

LEMMA Upto == ASSUME NEW n \in Nat PROVE IsFiniteSet(1..n) /\ Cardinality(1..n) = n
  <1>1. IsFiniteSet(1..n) /\ Cardinality(1..n) = IF 1 > n THEN 0 ELSE n - 1 + 1
    BY FS_Interval
  <1>2. (IF 1 > n THEN 0 ELSE n - 1 + 1) = n
    OBVIOUS
  <1> QED
    BY <1>1, <1>2

Rank(kept, i) == Cardinality({j \in kept : j <= i})

\* Counting from the left numbers the positions without a gap.
LEMMA RanksAreNumbers ==
    ASSUME NEW kept \in SUBSET Nat, IsFiniteSet(kept)
    PROVE  /\ Cardinality(kept) \in Nat
           /\ \A i \in kept : Rank(kept, i) \in 1..Cardinality(kept)
           /\ \A i, j \in kept : i < j => Rank(kept, i) < Rank(kept, j)
           /\ \A n \in 1..Cardinality(kept) : \E i \in kept : Rank(kept, i) = n
  <1> DEFINE Till(i) == {j \in kept : j <= i}
             N == Cardinality(kept)
  <1>1. N \in Nat
    BY FS_CardinalityType
  <1>2. ASSUME NEW i \in kept
        PROVE  /\ Till(i) \in SUBSET kept /\ IsFiniteSet(Till(i)) /\ Cardinality(Till(i)) \in 1..N
               /\ Rank(kept, i) = Cardinality(Till(i))
    <2>1. Till(i) \in SUBSET kept /\ i \in Till(i)
      OBVIOUS
    <2>2. Rank(kept, i) = Cardinality(Till(i))
      BY DEF Rank
    <2> HIDE DEF Till
    <2>3. IsFiniteSet(Till(i)) /\ Cardinality(Till(i)) <= N /\ Cardinality(Till(i)) \in Nat
      BY <2>1, FS_Subset, FS_CardinalityType
    <2>4. Cardinality(Till(i)) # 0
      BY <2>1, <2>3, FS_EmptySet
    <2> QED
      BY <1>1, <2>1, <2>2, <2>3, <2>4
  <1>3. ASSUME NEW i \in kept, NEW j \in kept, i < j PROVE Rank(kept, i) < Rank(kept, j)
    <2>1. Till(i) \in SUBSET Till(j) /\ j \in Till(j) /\ j \notin Till(i)
      <3>1. i \in Nat /\ j \in Nat /\ ~(j <= i) /\ j <= j
        BY <1>3
      <3>2. ASSUME NEW k \in kept, k <= i PROVE k <= j
        BY <1>3, <3>1, <3>2
      <3> QED
        BY <3>1, <3>2
    <2>2. /\ IsFiniteSet(Till(j)) /\ Rank(kept, i) = Cardinality(Till(i))
          /\ Rank(kept, j) = Cardinality(Till(j))
          /\ Cardinality(Till(i)) \in 1..N /\ Cardinality(Till(j)) \in 1..N
      BY <1>2
    <2> HIDE DEF Till
    <2>3. Cardinality(Till(i)) <= Cardinality(Till(j)) /\ Cardinality(Till(i)) # Cardinality(Till(j))
      BY <2>1, <2>2, FS_Subset
    <2> QED
      BY <1>1, <2>2, <2>3
  <1> DEFINE rank == [i \in kept |-> Rank(kept, i)]
  <1>4. rank \in Injection(kept, 1..N)
    <2>1. rank \in [kept -> 1..N]
      BY <1>2
    <2>2. ASSUME NEW i \in kept, NEW j \in kept, i # j PROVE rank[i] # rank[j]
      <3>1. i < j \/ j < i
        BY <2>2
      <3>2. rank[i] \in Nat /\ rank[j] \in Nat
        BY <1>1, <2>1
      <3> QED
        BY <1>3, <3>1, <3>2
    <2> HIDE DEF rank
    <2> QED
      BY <2>1, <2>2 DEF Injection, IsInjective
  <1>5. rank \in Surjection(kept, 1..N)
    <2> HIDE DEF rank
    <2> QED
      BY <1>1, <1>4, Upto, FS_Injection
  <1>6. \A n \in 1..N : \E i \in kept : rank[i] = n
    <2> HIDE DEF rank
    <2> QED
      BY <1>5 DEF Surjection
  <1> QED
    BY <1>1, <1>2, <1>3, <1>6

\* The positions that are kept, from left to right.
LEMMA NthAreInOrder ==
    ASSUME NEW kept \in SUBSET Nat, IsFiniteSet(kept)
    PROVE  /\ \A n \in 1..Cardinality(kept) : Nth(kept, n) \in kept
           /\ \A m, n \in 1..Cardinality(kept) : m < n => Nth(kept, m) < Nth(kept, n)
           /\ \A i \in kept : \E n \in 1..Cardinality(kept) : Nth(kept, n) = i
  <1>1. ASSUME NEW n \in 1..Cardinality(kept)
        PROVE  Nth(kept, n) \in kept /\ Rank(kept, Nth(kept, n)) = n
    <2>1. \E i \in kept : Rank(kept, i) = n
      BY RanksAreNumbers
    <2>2. Nth(kept, n) = CHOOSE i \in kept : Rank(kept, i) = n
      BY DEF Nth, Rank
    <2> QED
      BY <2>1, <2>2
  <1>2. ASSUME NEW m \in 1..Cardinality(kept), NEW n \in 1..Cardinality(kept), m < n
        PROVE  Nth(kept, m) < Nth(kept, n)
    <2> DEFINE i == Nth(kept, m)
               j == Nth(kept, n)
    <2>1. i \in kept /\ j \in kept /\ Rank(kept, i) = m /\ Rank(kept, j) = n
      BY <1>1
    <2> HIDE DEF i, j
    <2>2. i \in Nat /\ j \in Nat /\ m \in Nat /\ n \in Nat
      BY <2>1, RanksAreNumbers
    <2>3. ~(j < i) /\ i # j
      BY <1>2, <2>1, <2>2, RanksAreNumbers
    <2> QED
      BY <2>2, <2>3 DEF i, j
  <1>3. ASSUME NEW i \in kept PROVE \E n \in 1..Cardinality(kept) : Nth(kept, n) = i
    <2> DEFINE n == Rank(kept, i)
               j == Nth(kept, n)
    <2>1. n \in 1..Cardinality(kept)
      BY RanksAreNumbers
    <2>2. j \in kept /\ Rank(kept, j) = n
      BY <1>1, <2>1
    <2> HIDE DEF j
    <2>3. i \in Nat /\ j \in Nat /\ ~(i < j) /\ ~(j < i)
      <3>1. n \in Nat
        BY <2>1, RanksAreNumbers
      <3> QED
        BY <2>2, <3>1, RanksAreNumbers
    <2>4. i = j
      BY <2>3
    <2> QED
      BY <2>1, <2>4 DEF j
  <1> QED
    BY <1>1, <1>2, <1>3

LEMMA KeptInOrder ==
    ASSUME NEW E, NEW es \in Seq(E), NEW kept \in SUBSET DOMAIN es
    PROVE  /\ Keep(es, kept) \in Seq(E)
           /\ Len(Keep(es, kept)) = Cardinality(kept) /\ Cardinality(kept) <= Len(es)
           /\ \A n \in DOMAIN Keep(es, kept) :
                 Nth(kept, n) \in kept /\ Keep(es, kept)[n] = es[Nth(kept, n)]
           /\ \A m, n \in DOMAIN Keep(es, kept) : m < n => Nth(kept, m) < Nth(kept, n)
           /\ \A i \in kept : \E n \in DOMAIN Keep(es, kept) : Nth(kept, n) = i
  <1> DEFINE N == Cardinality(kept)
  <1>1. /\ DOMAIN es = 1..Len(es) /\ IsFiniteSet(DOMAIN es)
        /\ Cardinality(DOMAIN es) = Len(es) /\ DOMAIN es \in SUBSET Nat
    BY Upto
  <1>2. kept \in SUBSET Nat /\ IsFiniteSet(kept) /\ N \in Nat /\ N <= Len(es)
    BY <1>1, FS_Subset, FS_CardinalityType
  <1>3. /\ \A n \in 1..N : Nth(kept, n) \in kept
        /\ \A m, n \in 1..N : m < n => Nth(kept, m) < Nth(kept, n)
        /\ \A i \in kept : \E n \in 1..N : Nth(kept, n) = i
    BY <1>2, NthAreInOrder
  <1>4. Keep(es, kept) = [n \in 1..N |-> es[Nth(kept, n)]]
    BY DEF Keep
  <1> HIDE DEF N
  <1>5. \A n \in 1..N : es[Nth(kept, n)] \in E
    BY <1>1, <1>3
  <1>6. Keep(es, kept) \in Seq(E) /\ Len(Keep(es, kept)) = N /\ DOMAIN Keep(es, kept) = 1..N
    BY <1>2, <1>4, <1>5
  <1> QED
    BY <1>2, <1>3, <1>4, <1>6 DEF N

-----------------------------------------------------------------------------
(* The inductive invariant.                                                *)

Distinct(es) == \A i, j \in DOMAIN es : es[i].key = es[j].key => i = j

\* What was used after an entry is found after it in the history, too.
SameOrder(es, used) ==
    \A i, j \in DOMAIN es : \A n \in DOMAIN used :
       i < j /\ used[n].key = es[i].key =>
          \E m \in DOMAIN used : n < m /\ used[m].key = es[j].key

\* Every answer of the history that has not expired is there.
Covered(es, used) ==
    \A n \in DOMAIN used : used[n].left > 0 => \E i \in DOMAIN es : es[i] = used[n]

TableFits(es, used) ==
    /\ es \in Seq(Entry) /\ Len(es) <= MaxEntries
    /\ used \in Seq(Entry) /\ Len(used) <= MaxEntries
    /\ Distinct(es)
    /\ SameOrder(es, used)
    /\ Covered(es, used)

IInv ==
    /\ TableFits(entries, recent)
    /\ pending \in [Callers -> SUBSET Keys]
    /\ served \in SUBSET [asked : Keys, key : Keys]

-----------------------------------------------------------------------------
(* Sequences of entries.                                                   *)

\* t is s without some of its elements: its n-th was the at[n]-th.
Thinned(t, s, at) ==
    /\ at \in [DOMAIN t -> DOMAIN s]
    /\ \A n \in DOMAIN t : t[n] = s[at[n]]
    /\ \A m, n \in DOMAIN t : m < n => at[m] < at[n]

\* These positions are kept, and no others.
KeptBy(t, es, kept, at) ==
    /\ Thinned(t, es, at)
    /\ \A n \in DOMAIN t : at[n] \in kept
    /\ \A i \in kept : \E n \in DOMAIN t : at[n] = i

LEMMA KeepThins ==
    ASSUME NEW E, NEW es \in Seq(E), NEW kept \in SUBSET DOMAIN es
    PROVE  /\ Keep(es, kept) \in Seq(E)
           /\ Len(Keep(es, kept)) = Cardinality(kept) /\ Cardinality(kept) \in 0..Len(es)
           /\ \E at : KeptBy(Keep(es, kept), es, kept, at)
  <1> DEFINE at == [n \in DOMAIN Keep(es, kept) |-> Nth(kept, n)]
  <1>1. Thinned(Keep(es, kept), es, at)
    BY KeptInOrder DEF Thinned
  <1>2. /\ \A n \in DOMAIN Keep(es, kept) : at[n] \in kept
        /\ \A i \in kept : \E n \in DOMAIN Keep(es, kept) : at[n] = i
    BY KeptInOrder
  <1> HIDE DEF at
  <1>3. /\ Keep(es, kept) \in Seq(E)
        /\ Len(Keep(es, kept)) = Cardinality(kept) /\ Cardinality(kept) <= Len(es)
    BY KeptInOrder
  <1>4. Len(Keep(es, kept)) \in Nat
    BY <1>3
  <1>5. KeptBy(Keep(es, kept), es, kept, at)
    BY <1>1, <1>2 DEF KeptBy
  <1> QED
    BY <1>3, <1>4, <1>5

LEMMA ThinnedStaysDistinct ==
    ASSUME NEW t, NEW s, NEW at, Thinned(t, s, at), Distinct(s),
           DOMAIN t \in SUBSET Nat, DOMAIN s \in SUBSET Nat
    PROVE  Distinct(t)
  <1> SUFFICES ASSUME NEW i \in DOMAIN t, NEW j \in DOMAIN t, t[i].key = t[j].key
               PROVE  i = j
    BY DEF Distinct
  <1>1. at[i] = at[j] /\ at[i] \in DOMAIN s
    BY DEF Thinned, Distinct
  <1>2. ~(i < j) /\ ~(j < i)
    BY <1>1 DEF Thinned
  <1> QED
    BY <1>2

LEMMA ThinnedKeepsOrder ==
    ASSUME NEW t, NEW s, NEW at, Thinned(t, s, at), NEW used, SameOrder(s, used)
    PROVE  SameOrder(t, used)
  BY DEF Thinned, SameOrder

\* t is s with e as the last: the n others that stay are before it, in order.
Moved(t, s, e, n, at) ==
    /\ n \in 0..Len(s) /\ DOMAIN t = 1..n + 1 /\ t[n + 1] = e
    /\ at \in [1..n -> DOMAIN s]
    /\ \A i \in 1..n : t[i] = s[at[i]] /\ t[i].key # e.key
    /\ \A i, j \in 1..n : i < j => at[i] < at[j]
    /\ \A i \in DOMAIN s : s[i].key # e.key => \E j \in 1..n : at[j] = i

LEMMA MoveToEndMoves ==
    ASSUME NEW es \in Seq(Entry), NEW e \in Entry
    PROVE  /\ MoveToEnd(es, e) \in Seq(Entry)
           /\ \E n \in Nat : \E at : Moved(MoveToEnd(es, e), es, e, n, at)
  <1> DEFINE kept == {i \in DOMAIN es : es[i].key # e.key}
             w == Keep(es, kept)
  <1>1. kept \in SUBSET DOMAIN es /\ \A i \in DOMAIN es : i \in kept <=> es[i].key # e.key
    OBVIOUS
  <1>2. MoveToEnd(es, e) = Append(w, e)
    BY DEF MoveToEnd
  <1> HIDE DEF kept
  <1>3. w \in Seq(Entry) /\ Len(w) \in 0..Len(es)
    BY <1>1, KeepThins
  <1>4. PICK at : KeptBy(w, es, kept, at)
    BY <1>1, KeepThins
  <1> HIDE DEF w
  <1> DEFINE n == Len(w)
             t == Append(w, e)
  <1>5. /\ t \in Seq(Entry) /\ DOMAIN t = 1..n + 1 /\ t[n + 1] = e
        /\ DOMAIN w = 1..n /\ \A i \in 1..n : t[i] = w[i]
    BY <1>3
  <1> HIDE DEF t
  <1>6. at \in [1..n -> DOMAIN es] /\ \A i \in 1..n : w[i] = es[at[i]] /\ at[i] \in kept
    BY <1>4, <1>5 DEF KeptBy, Thinned
  <1>7. \A i, j \in 1..n : i < j => at[i] < at[j]
    BY <1>4, <1>5 DEF KeptBy, Thinned
  <1>8. \A i \in kept : \E j \in 1..n : at[j] = i
    BY <1>4, <1>5 DEF KeptBy
  <1>9. \A i \in 1..n : t[i] = es[at[i]] /\ t[i].key # e.key
    BY <1>1, <1>5, <1>6
  <1> HIDE DEF n
  <1>10. Moved(t, es, e, n, at)
    BY <1>1, <1>3, <1>5, <1>6, <1>7, <1>8, <1>9 DEF Moved, n
  <1>11. n \in Nat
    BY <1>3 DEF n
  <1> QED
    BY <1>2, <1>5, <1>10, <1>11 DEF t

LEMMA MovedStaysDistinct ==
    ASSUME NEW es \in Seq(Entry), NEW e \in Entry, Distinct(es)
    PROVE  Distinct(MoveToEnd(es, e))
  <1> DEFINE t == MoveToEnd(es, e)
  <1>1. PICK n \in Nat : \E at : Moved(t, es, e, n, at)
    BY MoveToEndMoves
  <1>2. PICK at : Moved(t, es, e, n, at)
    BY <1>1
  <1> HIDE DEF t
  <1>3. ASSUME NEW i \in DOMAIN t, NEW j \in DOMAIN t, t[i].key = t[j].key, i < j PROVE FALSE
    <2>1. i \in 1..n /\ (j \in 1..n \/ j = n + 1)
      BY <1>2, <1>3 DEF Moved
    <2>2. j # n + 1
      BY <1>2, <1>3, <2>1 DEF Moved
    <2>3. at[i] < at[j] /\ at[i] = at[j] /\ at[i] \in DOMAIN es
      BY <1>2, <1>3, <2>1, <2>2 DEF Distinct, Moved
    <2>4. at[i] \in Int
      BY <2>3
    <2> QED
      BY <2>3, <2>4
  <1>4. ASSUME NEW i \in DOMAIN t, NEW j \in DOMAIN t, t[i].key = t[j].key PROVE i = j
    <2>1. ~(i < j) /\ ~(j < i)
      BY <1>3, <1>4
    <2>2. i \in Int /\ j \in Int
      BY <1>2 DEF Moved
    <2> QED
      BY <2>1, <2>2
  <1> QED
    BY <1>4 DEF Distinct, t

\* Used now in both, it is the last in both.
LEMMA MovedKeepsOrder ==
    ASSUME NEW es \in Seq(Entry), NEW used \in Seq(Entry), NEW e \in Entry,
           SameOrder(es, used)
    PROVE  SameOrder(MoveToEnd(es, e), MoveToEnd(used, e))
  <1> DEFINE t == MoveToEnd(es, e)
             u == MoveToEnd(used, e)
  <1>1. PICK n \in Nat : \E at : Moved(t, es, e, n, at)
    BY MoveToEndMoves
  <1>2. PICK at : Moved(t, es, e, n, at)
    BY <1>1
  <1>3. PICK l \in Nat : \E bt : Moved(u, used, e, l, bt)
    BY MoveToEndMoves
  <1>4. PICK bt : Moved(u, used, e, l, bt)
    BY <1>3
  <1> HIDE DEF t, u
  <1>5. ASSUME NEW i \in DOMAIN t, NEW j \in DOMAIN t, NEW m \in DOMAIN u,
               i < j, u[m].key = t[i].key
        PROVE  \E o \in DOMAIN u : m < o /\ u[o].key = t[j].key
    <2>1. i \in 1..n /\ (j \in 1..n \/ j = n + 1) /\ (m \in 1..l \/ m = l + 1)
      BY <1>2, <1>4, <1>5 DEF Moved
    <2>2. m \in 1..l
      BY <1>2, <1>4, <1>5, <2>1 DEF Moved
    <2>3. CASE j = n + 1
      <3>1. l + 1 \in DOMAIN u /\ m < l + 1 /\ u[l + 1].key = t[j].key
        BY <1>2, <1>4, <2>2, <2>3 DEF Moved
      <3> QED
        BY <3>1
    <2>4. CASE j \in 1..n
      <3>1. /\ at[i] \in DOMAIN es /\ at[j] \in DOMAIN es /\ bt[m] \in DOMAIN used
            /\ at[i] < at[j] /\ used[bt[m]].key = es[at[i]].key
        BY <1>2, <1>4, <1>5, <2>1, <2>2, <2>4 DEF Moved
      <3>2. PICK o \in DOMAIN used : bt[m] < o /\ used[o].key = es[at[j]].key
        BY <3>1 DEF SameOrder
      <3>3. used[o].key = t[j].key /\ t[j].key # e.key
        BY <1>2, <2>4, <3>2 DEF Moved
      <3>4. PICK p \in 1..l : bt[p] = o
        BY <1>4, <3>3 DEF Moved
      <3>5. ~(p < m) /\ p # m
        <4>1. bt[m] \in Int /\ bt[p] \in Int
          BY <3>1, <3>4
        <4> QED
          BY <1>4, <2>2, <3>2, <3>4, <4>1 DEF Moved
      <3>6. p \in DOMAIN u /\ m < p /\ u[p].key = t[j].key
        BY <1>4, <2>2, <3>3, <3>4, <3>5 DEF Moved
      <3> QED
        BY <3>6
    <2> QED
      BY <2>1, <2>3, <2>4
  <1> QED
    BY <1>5 DEF SameOrder, t, u

LEMMA MovedStaysCovered ==
    ASSUME NEW es \in Seq(Entry), NEW used \in Seq(Entry), NEW e \in Entry,
           Covered(es, used)
    PROVE  Covered(MoveToEnd(es, e), MoveToEnd(used, e))
  <1> DEFINE t == MoveToEnd(es, e)
             u == MoveToEnd(used, e)
  <1>1. PICK n \in Nat : \E at : Moved(t, es, e, n, at)
    BY MoveToEndMoves
  <1>2. PICK at : Moved(t, es, e, n, at)
    BY <1>1
  <1>3. PICK l \in Nat : \E bt : Moved(u, used, e, l, bt)
    BY MoveToEndMoves
  <1>4. PICK bt : Moved(u, used, e, l, bt)
    BY <1>3
  <1> HIDE DEF t, u
  <1>5. n + 1 \in DOMAIN t /\ t[n + 1] = e
    BY <1>2 DEF Moved
  <1>6. ASSUME NEW m \in DOMAIN u, u[m].left > 0 PROVE \E i \in DOMAIN t : t[i] = u[m]
    <2>1. m = l + 1 \/ m \in 1..l
      BY <1>4 DEF Moved
    <2>2. CASE m = l + 1
      BY <1>4, <1>5, <2>2 DEF Moved
    <2>3. CASE m \in 1..l
      <3>1. bt[m] \in DOMAIN used /\ u[m] = used[bt[m]] /\ u[m].key # e.key
        BY <1>4, <2>3 DEF Moved
      <3>2. PICK i \in DOMAIN es : es[i] = u[m]
        BY <1>6, <3>1 DEF Covered
      <3>3. PICK j \in 1..n : at[j] = i
        BY <1>2, <3>1, <3>2 DEF Moved
      <3>4. j \in DOMAIN t /\ t[j] = u[m]
        BY <1>2, <3>2, <3>3 DEF Moved
      <3> QED
        BY <3>4
    <2> QED
      BY <2>1, <2>2, <2>3
  <1> QED
    BY <1>6 DEF Covered, t, u

LEMMA MovedLength ==
    ASSUME NEW es \in Seq(Entry), NEW e \in Entry
    PROVE  /\ Len(MoveToEnd(es, e)) \in 1..Len(es) + 1
           /\ (\E i \in DOMAIN es : es[i].key = e.key) => Len(MoveToEnd(es, e)) <= Len(es)
  <1> DEFINE kept == {i \in DOMAIN es : es[i].key # e.key}
             w == Keep(es, kept)
  <1>1. kept \in SUBSET DOMAIN es /\ \A i \in DOMAIN es : i \in kept <=> es[i].key # e.key
    OBVIOUS
  <1>2. MoveToEnd(es, e) = Append(w, e)
    BY DEF MoveToEnd
  <1> HIDE DEF kept
  <1>3. w \in Seq(Entry) /\ Len(w) = Cardinality(kept) /\ Cardinality(kept) \in 0..Len(es)
    BY <1>1, KeepThins
  <1> HIDE DEF w
  <1>4. Len(MoveToEnd(es, e)) = Cardinality(kept) + 1
    BY <1>2, <1>3
  <1>5. ASSUME NEW i \in DOMAIN es, es[i].key = e.key PROVE Cardinality(kept) < Len(es)
    <2>1. IsFiniteSet(DOMAIN es) /\ Cardinality(DOMAIN es) = Len(es) /\ Len(es) \in Nat
      BY Upto
    <2>2. kept \in SUBSET DOMAIN es /\ i \notin kept
      BY <1>1, <1>5
    <2>3. Cardinality(kept) <= Len(es) /\ Cardinality(kept) # Len(es)
      BY <2>1, <2>2, FS_Subset
    <2> QED
      BY <1>3, <2>1, <2>3
  <1>6. Len(es) \in Nat /\ Cardinality(kept) \in Nat
    BY <1>3
  <1> QED
    BY <1>3, <1>4, <1>5, <1>6

\* v is t without its first element.
Shifted(v, t) ==
    /\ v \in Seq(Entry) /\ Len(v) = Len(t) - 1
    /\ \A n \in DOMAIN v : v[n] = t[n + 1]

LEMMA TailShifts ==
    ASSUME NEW t \in Seq(Entry), t # <<>> PROVE Shifted(Tail(t), t)
  BY DEF Shifted

\* One insertion never evicts more than one entry, the first.
LEMMA TrimShifts ==
    ASSUME CacheAssumption, NEW t \in Seq(Entry), Len(t) <= MaxEntries + 1
    PROVE  /\ Len(t) <= MaxEntries => Trim(t) = t
           /\ Len(t) > MaxEntries => Len(t) = MaxEntries + 1 /\ Shifted(Trim(t), t)
  <1>1. MaxEntries \in Nat \ {0} /\ Len(t) \in Nat
    BY DEF CacheAssumption
  <1>2. CASE Len(t) <= MaxEntries
    BY <1>1, <1>2 DEF Trim
  <1>3. CASE Len(t) > MaxEntries
    <2>1. Len(t) = MaxEntries + 1
      BY <1>1, <1>3
    <2>2. Trim(t) = SubSeq(t, 2, Len(t))
      BY <1>1, <1>3, <2>1 DEF Trim
    <2>3. Shifted(SubSeq(t, 2, Len(t)), t)
      BY <1>1, <2>1 DEF Shifted
    <2> QED
      BY <1>1, <1>3, <2>1, <2>2, <2>3
  <1> QED
    BY <1>1, <1>2, <1>3

LEMMA ShiftThins ==
    ASSUME NEW t \in Seq(Entry), NEW v, Shifted(v, t)
    PROVE  \E at : Thinned(v, t, at)
  <1> DEFINE at == [n \in DOMAIN v |-> n + 1]
  <1>1. DOMAIN v = 1..Len(v) /\ DOMAIN t = 1..Len(t) /\ Len(v) = Len(t) - 1 /\ Len(v) \in Nat /\ Len(t) \in Nat
    BY DEF Shifted
  <1>2. at \in [DOMAIN v -> DOMAIN t]
    BY <1>1
  <1>3. \A m, n \in DOMAIN v : m < n => at[m] < at[n]
    BY <1>1
  <1>4. \A n \in DOMAIN v : v[n] = t[at[n]]
    BY DEF Shifted
  <1> HIDE DEF at
  <1> QED
    BY <1>2, <1>3, <1>4 DEF Thinned

\* The history forgets its first.
LEMMA ForgettingKeepsOrder ==
    ASSUME NEW t, NEW u \in Seq(Entry), SameOrder(t, u), NEW v, Shifted(v, u)
    PROVE  SameOrder(t, v)
  <1> SUFFICES ASSUME NEW i \in DOMAIN t, NEW j \in DOMAIN t, NEW n \in DOMAIN v,
                      i < j, v[n].key = t[i].key
               PROVE  \E m \in DOMAIN v : n < m /\ v[m].key = t[j].key
    BY DEF SameOrder
  <1>1. DOMAIN v = 1..Len(v) /\ DOMAIN u = 1..Len(u) /\ Len(v) = Len(u) - 1 /\ Len(v) \in Nat /\ Len(u) \in Nat
    BY DEF Shifted
  <1>2. n + 1 \in DOMAIN u /\ u[n + 1].key = t[i].key
    BY <1>1 DEF Shifted
  <1>3. PICK m \in DOMAIN u : n + 1 < m /\ u[m].key = t[j].key
    BY <1>2 DEF SameOrder
  <1>4. m - 1 \in DOMAIN v /\ n < m - 1 /\ (m - 1) + 1 = m
    BY <1>1, <1>3
  <1>5. v[m - 1] = u[(m - 1) + 1]
    BY <1>4 DEF Shifted
  <1>6. v[m - 1].key = t[j].key
    BY <1>3, <1>4, <1>5
  <1> QED
    BY <1>4, <1>6

LEMMA ForgettingStaysCovered ==
    ASSUME NEW t, NEW u \in Seq(Entry), Covered(t, u), NEW v, Shifted(v, u)
    PROVE  Covered(t, v)
  <1>1. ASSUME NEW n \in DOMAIN v PROVE n + 1 \in DOMAIN u /\ v[n] = u[n + 1]
    BY DEF Shifted
  <1> QED
    BY <1>1 DEF Covered

\* More distinct keys come after an entry than there is room for: it has left
\* the history before it leaves the table.
LEMMA EvictionSparesTheRecent ==
    ASSUME CacheAssumption, NEW t \in Seq(Entry), NEW u \in Seq(Entry),
           Distinct(t), SameOrder(t, u), Covered(t, u),
           Len(t) <= MaxEntries + 1, Len(u) <= MaxEntries + 1
    PROVE  Covered(Trim(t), IF Len(u) > MaxEntries THEN Tail(u) ELSE u)
  <1> DEFINE v == IF Len(u) > MaxEntries THEN Tail(u) ELSE u
  <1>1. MaxEntries \in Nat \ {0} /\ Len(t) \in Nat /\ Len(u) \in Nat
    BY DEF CacheAssumption
  <1>2. CASE Len(t) <= MaxEntries
    <2>1. Trim(t) = t
      BY <1>2, TrimShifts
    <2>2. CASE Len(u) > MaxEntries
      <3>1. u # <<>>
        BY <1>1, <2>2
      <3>2. Shifted(Tail(u), u)
        BY <3>1, TailShifts
      <3> QED
        BY <2>1, <2>2, <3>2, ForgettingStaysCovered
    <2>3. CASE ~(Len(u) > MaxEntries)
      BY <2>1, <2>3
    <2> QED
      BY <2>2, <2>3
  <1>3. CASE Len(t) > MaxEntries
    <2>1. Len(t) = MaxEntries + 1 /\ Shifted(Trim(t), t)
      BY <1>3, TrimShifts
    <2>2. ASSUME NEW n \in DOMAIN u, u[n] = t[1] PROVE n = 1 /\ Len(u) > MaxEntries
      <3> DEFINE S == 2..MaxEntries + 1
                 T == n + 1..Len(u)
                 f == [j \in S |-> CHOOSE m \in T : u[m].key = t[j].key]
      <3>1. DOMAIN t = 1..MaxEntries + 1 /\ DOMAIN u = 1..Len(u) /\ n \in 1..Len(u)
        BY <2>1
      <3>2. ASSUME NEW j \in S PROVE \E m \in T : u[m].key = t[j].key
        <4>1. 1 \in DOMAIN t /\ j \in DOMAIN t /\ 1 < j /\ u[n].key = t[1].key
          BY <1>1, <2>2, <3>1
        <4>2. PICK m \in DOMAIN u : n < m /\ u[m].key = t[j].key
          BY <4>1 DEF SameOrder
        <4>3. m \in T
          BY <1>1, <3>1, <4>2
        <4> QED
          BY <4>2, <4>3
      <3>3. \A j \in S : f[j] \in T /\ u[f[j]].key = t[j].key
        BY <3>2
      <3>4. f \in [S -> T]
        BY <3>3
      <3> HIDE DEF f
      <3>5. ASSUME NEW i \in S, NEW j \in S, f[i] = f[j] PROVE i = j
        <4>1. t[i].key = t[j].key
          BY <3>3, <3>5
        <4>2. i \in DOMAIN t /\ j \in DOMAIN t
          BY <1>1, <3>1
        <4> QED
          BY <4>1, <4>2 DEF Distinct
      <3>6. f \in Injection(S, T)
        BY <3>4, <3>5 DEF Injection, IsInjective
      <3>7. /\ IsFiniteSet(T) /\ Cardinality(S) = MaxEntries
            /\ Cardinality(T) = IF n + 1 > Len(u) THEN 0 ELSE Len(u) - (n + 1) + 1
        <4>1. IsFiniteSet(T) /\ Cardinality(T) = IF n + 1 > Len(u) THEN 0 ELSE Len(u) - (n + 1) + 1
          <5>1. n + 1 \in Int /\ Len(u) \in Int
            BY <1>1, <3>1
          <5> QED
            BY <5>1, FS_Interval
        <4>2. Cardinality(S) = IF 2 > MaxEntries + 1 THEN 0 ELSE (MaxEntries + 1) - 2 + 1
          BY <1>1, FS_Interval
        <4>3. (IF 2 > MaxEntries + 1 THEN 0 ELSE (MaxEntries + 1) - 2 + 1) = MaxEntries
          BY <1>1
        <4> QED
          BY <4>1, <4>2, <4>3
      <3>8. Cardinality(S) <= Cardinality(T)
        BY <3>6, <3>7, FS_Injection
      <3> HIDE DEF S, T
      <3> QED
        BY <1>1, <3>1, <3>7, <3>8
    <2>3. ASSUME NEW i \in DOMAIN t, i # 1 PROVE i - 1 \in DOMAIN Trim(t) /\ Trim(t)[i - 1] = t[i]
      <3>1. DOMAIN Trim(t) = 1..Len(t) - 1 /\ DOMAIN t = 1..Len(t)
        BY <2>1 DEF Shifted
      <3>2. i - 1 \in DOMAIN Trim(t) /\ (i - 1) + 1 = i
        BY <1>1, <2>3, <3>1
      <3>3. Trim(t)[i - 1] = t[(i - 1) + 1]
        BY <2>1, <3>2 DEF Shifted
      <3> QED
        BY <3>2, <3>3
    <2>4. ASSUME NEW n \in DOMAIN u, u[n].left > 0, u[n] # t[1]
          PROVE  \E i \in DOMAIN Trim(t) : Trim(t)[i] = u[n]
      <3>1. PICK i \in DOMAIN t : t[i] = u[n]
        BY <2>4 DEF Covered
      <3>2. i # 1
        BY <2>4, <3>1
      <3> QED
        BY <2>3, <3>1, <3>2
    <2>5. CASE Len(u) > MaxEntries
      <3>1. Shifted(v, u)
        <4>1. u # <<>>
          BY <1>1, <2>5
        <4> QED
          BY <2>5, <4>1, TailShifts
      <3> HIDE DEF v
      <3>2. ASSUME NEW n \in DOMAIN v
            PROVE  n + 1 \in DOMAIN u /\ v[n] = u[n + 1] /\ n + 1 # 1
        BY <1>1, <3>1 DEF Shifted
      <3>3. ASSUME NEW n \in DOMAIN v, v[n].left > 0
            PROVE  \E i \in DOMAIN Trim(t) : Trim(t)[i] = v[n]
        <4>1. n + 1 \in DOMAIN u /\ v[n] = u[n + 1] /\ n + 1 # 1
          BY <3>2
        <4>2. u[n + 1] # t[1]
          BY <2>2, <4>1
        <4> QED
          BY <2>4, <3>3, <4>1, <4>2
      <3> QED
        BY <3>3 DEF Covered, v
    <2>6. CASE ~(Len(u) > MaxEntries)
      <3>1. \A n \in DOMAIN u : u[n] # t[1]
        BY <2>2, <2>6
      <3>2. v = u
        BY <2>6
      <3> QED
        BY <2>4, <3>1, <3>2 DEF Covered
    <2> QED
      BY <2>5, <2>6
  <1> QED
    BY <1>1, <1>2, <1>3

-----------------------------------------------------------------------------
(* The methods.                                                            *)

LEMMA Limits ==
    ASSUME CacheAssumption
    PROVE  Ttl \in Nat \ {0} /\ MaxEntries \in Nat \ {0}
  BY DEF CacheAssumption

LEMMA UnexpiredKeeps ==
    ASSUME NEW es \in Seq(Entry), NEW used, Distinct(es), SameOrder(es, used), Covered(es, used)
    PROVE  LET t == Unexpired(es)
           IN  /\ t \in Seq(Entry) /\ Len(t) <= Len(es)
               /\ Distinct(t) /\ SameOrder(t, used) /\ Covered(t, used)
               /\ \A n \in DOMAIN t : t[n].left > 0 /\ \E i \in DOMAIN es : es[i] = t[n]
               /\ \A i \in DOMAIN es : es[i].left > 0 => \E n \in DOMAIN t : t[n] = es[i]
  <1> DEFINE kept == {i \in DOMAIN es : es[i].left > 0}
             t == Keep(es, kept)
  <1>1. kept \in SUBSET DOMAIN es /\ \A i \in DOMAIN es : i \in kept <=> es[i].left > 0
    OBVIOUS
  <1>2. Unexpired(es) = t
    BY DEF Unexpired
  <1> HIDE DEF kept
  <1>3. t \in Seq(Entry) /\ Len(t) = Cardinality(kept) /\ Cardinality(kept) \in 0..Len(es)
    BY <1>1, KeepThins
  <1>4. PICK at : KeptBy(t, es, kept, at)
    BY <1>1, KeepThins
  <1> HIDE DEF t
  <1>5. Len(t) <= Len(es) /\ DOMAIN t \in SUBSET Nat /\ DOMAIN es \in SUBSET Nat
    BY <1>3
  <1>6. Distinct(t) /\ SameOrder(t, used)
    BY <1>4, <1>5, ThinnedStaysDistinct, ThinnedKeepsOrder DEF KeptBy
  <1>7. \A n \in DOMAIN t : t[n].left > 0 /\ \E i \in DOMAIN es : es[i] = t[n]
    BY <1>1, <1>4 DEF KeptBy, Thinned
  <1>8. \A i \in DOMAIN es : es[i].left > 0 => \E n \in DOMAIN t : t[n] = es[i]
    BY <1>1, <1>4 DEF KeptBy, Thinned
  <1>9. Covered(t, used)
    BY <1>8 DEF Covered
  <1> QED
    BY <1>2, <1>3, <1>5, <1>6, <1>7, <1>8, <1>9

LEMMA OlderIsShorter ==
    ASSUME CacheAssumption, NEW es \in Seq(Entry)
    PROVE  /\ Older(es) \in Seq(Entry) /\ Len(Older(es)) = Len(es) /\ DOMAIN Older(es) = DOMAIN es
           /\ \A i \in DOMAIN es :
                 /\ Older(es)[i].key = es[i].key
                 /\ Older(es)[i].left = IF es[i].left > 0 THEN es[i].left - 1 ELSE 0
  <1> DEFINE old(e) == [e EXCEPT !.left = IF @ > 0 THEN @ - 1 ELSE 0]
  <1>1. ASSUME NEW e \in Entry
        PROVE  old(e) \in Entry /\ old(e).key = e.key /\ old(e).left = IF e.left > 0 THEN e.left - 1 ELSE 0
    <2>1. e.left \in 0..Ttl /\ Ttl \in Nat
      BY Limits DEF Entry
    <2>2. (IF e.left > 0 THEN e.left - 1 ELSE 0) \in 0..Ttl
      BY <2>1
    <2> QED
      BY <2>2 DEF Entry
  <1>2. Older(es) = [i \in DOMAIN es |-> old(es[i])]
    BY DEF Older
  <1> HIDE DEF old
  <1>3. \A i \in DOMAIN es : es[i] \in Entry
    OBVIOUS
  <1>4. \A i \in DOMAIN es : Older(es)[i] = old(es[i]) /\ old(es[i]) \in Entry
    BY <1>1, <1>2, <1>3
  <1>5. Older(es) \in Seq(Entry) /\ Len(Older(es)) = Len(es) /\ DOMAIN Older(es) = DOMAIN es
    <2>1. DOMAIN es = 1..Len(es) /\ Len(es) \in Nat
      OBVIOUS
    <2> QED
      BY <1>2, <1>4, <2>1
  <1> QED
    BY <1>1, <1>3, <1>4, <1>5

LEMMA MaxIsTheLast ==
    ASSUME NEW S \in SUBSET Nat, IsFiniteSet(S), S # {}
    PROVE  Max(S) \in S /\ \A i \in S : i <= Max(S)
  <1>1. Cardinality(S) \in Nat /\ Cardinality(S) # 0
    BY FS_CardinalityType, FS_EmptySet
  <1>2. PICK x \in S : Rank(S, x) = Cardinality(S)
    BY <1>1, RanksAreNumbers
  <1>3. ASSUME NEW i \in S PROVE x >= i
    <2>1. Rank(S, i) \in 1..Cardinality(S) /\ (x < i => Rank(S, x) < Rank(S, i))
      BY RanksAreNumbers
    <2>2. ~(x < i)
      BY <1>1, <1>2, <2>1
    <2> QED
      BY <2>2
  <1>4. Max(S) = CHOOSE y \in S : \A i \in S : y >= i
    BY DEF Max
  <1>5. Max(S) \in S /\ \A i \in S : Max(S) >= i
    BY <1>3, <1>4
  <1> QED
    BY <1>5

\* A lookup settles on an entry of the table: that of the very request, or
\* one of those that score best in its scope; and it finds none only when
\* there is neither.
LEMMA FoundIsSuitable ==
    ASSUME NEW es \in Seq(Entry), NEW k \in Keys
    PROVE  /\ \A i \in Found(es, k) :
                 /\ i \in DOMAIN es
                 /\ \/ es[i].key = k
                    \/ /\ \A j \in DOMAIN es : es[j].key # k
                       /\ Near(es[i].key, k)
                       /\ \A j \in DOMAIN es : Near(es[j].key, k) =>
                             Similarity(es[j].key, k) <= Similarity(es[i].key, k)
           /\ Found(es, k) = {} =>
                 /\ \A i \in DOMAIN es : es[i].key # k
                 /\ \A i \in DOMAIN es : Near(es[i].key, k) =>
                       \E j \in DOMAIN es : /\ Near(es[j].key, k)
                                            /\ ~(Similarity(es[j].key, k) <= Similarity(es[i].key, k))
  <1> DEFINE exact == {i \in DOMAIN es : es[i].key = k}
             score(i) == Similarity(es[i].key, k)
             best == {i \in Similar(es, k) : \A j \in Similar(es, k) : score(j) <= score(i)}
  <1>1. Found(es, k) = IF exact # {} THEN exact ELSE IF best # {} THEN {Max(best)} ELSE {}
    BY DEF Found
  <1>2. best \in SUBSET DOMAIN es
    BY DEF Similar
  <1>3. best # {} => Max(best) \in best
    <2>1. IsFiniteSet(DOMAIN es) /\ DOMAIN es \in SUBSET Nat
      BY Upto
    <2> HIDE DEF best
    <2>2. IsFiniteSet(best) /\ best \in SUBSET Nat
      BY <1>2, <2>1, FS_Subset
    <2> QED
      BY <2>2, MaxIsTheLast
  <1>4. ASSUME NEW i \in best
        PROVE  /\ i \in DOMAIN es /\ Near(es[i].key, k)
               /\ \A j \in DOMAIN es : Near(es[j].key, k) =>
                     Similarity(es[j].key, k) <= Similarity(es[i].key, k)
    BY DEF Similar
  <1>5. ASSUME NEW i \in DOMAIN es, Near(es[i].key, k), i \notin best
        PROVE  \E j \in DOMAIN es : /\ Near(es[j].key, k)
                                    /\ ~(Similarity(es[j].key, k) <= Similarity(es[i].key, k))
    BY <1>5 DEF Similar
  <1>6. \A i \in exact : i \in DOMAIN es /\ es[i].key = k
    OBVIOUS
  <1>7. exact = {} => \A i \in DOMAIN es : es[i].key # k
    OBVIOUS
  <1> HIDE DEF exact, best
  <1> QED
    BY <1>1, <1>3, <1>4, <1>5, <1>6, <1>7

-----------------------------------------------------------------------------
(* Every step keeps the invariant.                                         *)

\* A put or a hit: the entry becomes the last in both, and each may lose its
\* first.
LEMMA UseKeepsTable ==
    ASSUME CacheAssumption, NEW es, TableFits(es, recent), NEW e \in Entry
    PROVE  TableFits(Trim(MoveToEnd(es, e)), Used(e))
  <1> DEFINE t == MoveToEnd(es, e)
             u == MoveToEnd(recent, e)
             v == IF Len(u) > MaxEntries THEN Tail(u) ELSE u
  <1>1. /\ es \in Seq(Entry) /\ recent \in Seq(Entry) /\ Distinct(es)
        /\ SameOrder(es, recent) /\ Covered(es, recent)
        /\ Len(es) <= MaxEntries /\ Len(recent) <= MaxEntries
    BY DEF TableFits
  <1>2. t \in Seq(Entry) /\ u \in Seq(Entry)
    BY <1>1, MoveToEndMoves
  <1>3. Distinct(t) /\ SameOrder(t, u) /\ Covered(t, u)
    BY <1>1, MovedStaysDistinct, MovedKeepsOrder, MovedStaysCovered
  <1>4. Len(t) \in 1..Len(es) + 1 /\ Len(u) \in 1..Len(recent) + 1
    BY <1>1, MovedLength
  <1>5. MaxEntries \in Nat /\ Len(t) <= MaxEntries + 1 /\ Len(u) <= MaxEntries + 1
    <2>1. Len(es) \in Nat /\ Len(recent) \in Nat /\ MaxEntries \in Nat
      BY <1>1, Limits
    <2> QED
      BY <1>1, <1>4, <2>1
  <1>6. Used(e) = v
    BY DEF Used
  <1> HIDE DEF t, u
  <1>7. u # <<>> /\ Len(t) \in Nat /\ Len(u) \in Nat
    BY <1>2, <1>4
  <1>8. Covered(Trim(t), v)
    BY <1>2, <1>3, <1>5, EvictionSparesTheRecent
  <1>9. Trim(t) \in Seq(Entry) /\ Len(Trim(t)) <= MaxEntries
        /\ Distinct(Trim(t)) /\ SameOrder(Trim(t), u)
    <2>1. CASE Len(t) <= MaxEntries
      BY <1>2, <1>3, <1>5, <2>1, TrimShifts
    <2>2. CASE Len(t) > MaxEntries
      <3>1. Len(t) = MaxEntries + 1 /\ Shifted(Trim(t), t)
        BY <1>2, <1>5, <2>2, TrimShifts
      <3>2. PICK at : Thinned(Trim(t), t, at)
        BY <1>2, <3>1, ShiftThins
      <3>3. Trim(t) \in Seq(Entry) /\ Len(Trim(t)) = Len(t) - 1
        BY <3>1 DEF Shifted
      <3>4. DOMAIN Trim(t) \in SUBSET Nat /\ DOMAIN t \in SUBSET Nat
        BY <1>2, <3>3
      <3>5. Distinct(Trim(t)) /\ SameOrder(Trim(t), u)
        BY <1>3, <3>2, <3>4, ThinnedStaysDistinct, ThinnedKeepsOrder
      <3> QED
        BY <1>5, <3>1, <3>3, <3>5
    <2> QED
      BY <1>5, <1>7, <2>1, <2>2
  <1>10. v \in Seq(Entry) /\ Len(v) <= MaxEntries /\ SameOrder(Trim(t), v)
    <2>1. CASE Len(u) > MaxEntries
      <3>1. Shifted(v, u)
        BY <1>2, <1>7, <2>1, TailShifts
      <3> HIDE DEF v
      <3>2. SameOrder(Trim(t), v)
        BY <1>2, <1>9, <3>1, ForgettingKeepsOrder
      <3> QED
        BY <1>5, <1>7, <3>1, <3>2 DEF Shifted
    <2>2. CASE ~(Len(u) > MaxEntries)
      BY <1>2, <1>5, <1>7, <1>9, <2>2
    <2> QED
      BY <2>1, <2>2
  <1> HIDE DEF v
  <1> QED
    BY <1>6, <1>8, <1>9, <1>10 DEF TableFits, t

LEMMA UnexpiredFits ==
    ASSUME CacheAssumption, NEW es, TableFits(es, recent)
    PROVE  TableFits(Unexpired(es), recent)
  <1>1. /\ es \in Seq(Entry) /\ Distinct(es) /\ SameOrder(es, recent) /\ Covered(es, recent)
        /\ Len(es) <= MaxEntries /\ MaxEntries \in Nat
    BY Limits DEF TableFits
  <1>2. /\ Unexpired(es) \in Seq(Entry) /\ Len(Unexpired(es)) <= Len(es)
        /\ Distinct(Unexpired(es)) /\ SameOrder(Unexpired(es), recent) /\ Covered(Unexpired(es), recent)
    BY <1>1, UnexpiredKeeps
  <1>3. Len(Unexpired(es)) <= MaxEntries
    BY <1>1, <1>2
  <1> QED
    BY <1>2, <1>3 DEF TableFits

LEMMA OlderFits ==
    ASSUME CacheAssumption, NEW es, TableFits(es, recent)
    PROVE  TableFits(Older(es), Older(recent))
  <1>1. es \in Seq(Entry) /\ recent \in Seq(Entry)
    BY DEF TableFits
  <1> DEFINE t == Older(es)
             u == Older(recent)
  <1>2. /\ t \in Seq(Entry) /\ Len(t) = Len(es) /\ DOMAIN t = DOMAIN es
        /\ \A i \in DOMAIN es : t[i].key = es[i].key
    BY <1>1, OlderIsShorter
  <1>3. /\ u \in Seq(Entry) /\ Len(u) = Len(recent) /\ DOMAIN u = DOMAIN recent
        /\ \A i \in DOMAIN recent :
              /\ u[i].key = recent[i].key
              /\ u[i].left = IF recent[i].left > 0 THEN recent[i].left - 1 ELSE 0
    BY <1>1, OlderIsShorter
  <1>4. ASSUME NEW n \in DOMAIN recent, u[n].left > 0 PROVE \E i \in DOMAIN es : t[i] = u[n]
    <2>1. recent[n].left > 0
      BY <1>3, <1>4
    <2>2. PICK i \in DOMAIN es : es[i] = recent[n]
      BY <2>1 DEF TableFits, Covered
    <2>3. t[i] = u[n]
      BY <2>2 DEF Older
    <2> QED
      BY <2>3
  <1> HIDE DEF t, u
  <1>5. Distinct(t)
    BY <1>2 DEF Distinct, TableFits
  <1>6. SameOrder(t, u)
    BY <1>2, <1>3 DEF SameOrder, TableFits
  <1>7. Covered(t, u)
    BY <1>2, <1>3, <1>4 DEF Covered
  <1> QED
    BY <1>2, <1>3, <1>5, <1>6, <1>7 DEF TableFits, t, u

\* What a hit finds in the table is not expired.
LEMMA FoundIsThere ==
    ASSUME CacheAssumption, IInv, NEW k \in Keys, NEW i \in Found(Unexpired(entries), k)
    PROVE  LET es == Unexpired(entries)
           IN  /\ TableFits(es, recent) /\ i \in DOMAIN es /\ es[i] \in Entry /\ es[i].left > 0
               /\ Touch(es, i) = Trim(MoveToEnd(es, es[i]))
  <1> DEFINE es == Unexpired(entries)
  <1>1. TableFits(es, recent) /\ es \in Seq(Entry) /\ Len(es) <= MaxEntries
    BY UnexpiredFits DEF IInv, TableFits
  <1>2. \A n \in DOMAIN es : es[n].left > 0
    BY UnexpiredKeeps DEF IInv, TableFits
  <1> HIDE DEF es
  <1>3. i \in DOMAIN es
    BY <1>1, FoundIsSuitable DEF es
  <1>4. es[i] \in Entry
    BY <1>1, <1>3
  <1> DEFINE t == MoveToEnd(es, es[i])
  <1>5. t \in Seq(Entry) /\ Len(t) <= Len(es)
    BY <1>1, <1>3, <1>4, MoveToEndMoves, MovedLength
  <1>6. Touch(es, i) = t
    BY DEF Touch
  <1> HIDE DEF t
  <1>7. Trim(t) = t
    <2>1. Len(t) \in Nat /\ Len(es) \in Nat /\ MaxEntries \in Nat
      BY <1>1, <1>5, Limits
    <2>2. Len(t) <= MaxEntries
      BY <1>1, <1>5, <2>1
    <2> QED
      BY <1>5, <2>1, <2>2, TrimShifts
  <1> QED
    BY <1>1, <1>2, <1>3, <1>4, <1>6, <1>7 DEF es, t

LEMMA InitIInv == ASSUME CacheAssumption, Init PROVE IInv
  <1>1. <<>> \in Seq(Entry) /\ Len(<<>>) <= MaxEntries
    BY Limits
  <1> QED
    BY <1>1 DEF Init, IInv, TableFits, Distinct, SameOrder, Covered

LEMMA NextIInv == ASSUME CacheAssumption, IInv, [Next]_vars PROVE IInv'
  <1>1. TableFits(entries, recent)
    BY DEF IInv
  <1>2. pending \in [Callers -> SUBSET Keys] /\ served \in SUBSET [asked : Keys, key : Keys]
    BY DEF IInv
  <1> DEFINE es == Unexpired(entries)
  <1>3. ASSUME NEW c \in Callers, NEW k \in Keys, Get(c, k), Found(es, k) = {} PROVE IInv'
    <2>1. entries' = es /\ served' = {} /\ pending' = [pending EXCEPT ![c] = {k}] /\ recent' = recent
      BY <1>3 DEF Get
    <2>2. TableFits(es, recent)
      BY <1>1, UnexpiredFits
    <2> HIDE DEF es
    <2> QED
      BY <1>2, <2>1, <2>2 DEF IInv
  <1>4. ASSUME NEW c \in Callers, NEW k \in Keys, Get(c, k), Found(es, k) # {} PROVE IInv'
    <2>1. PICK i \in Found(es, k) :
            /\ entries' = Touch(es, i)
            /\ served' = {[asked |-> k, key |-> es[i].key]}
            /\ recent' = Used(es[i])
            /\ UNCHANGED pending
      BY <1>4 DEF Get
    <2>2. TableFits(es, recent) /\ es[i] \in Entry /\ Touch(es, i) = Trim(MoveToEnd(es, es[i]))
      BY <2>1, FoundIsThere
    <2> HIDE DEF es
    <2>3. TableFits(entries', recent')
      BY <2>1, <2>2, UseKeepsTable
    <2>4. es[i].key \in Keys
      BY <2>2 DEF Entry
    <2> QED
      BY <1>2, <2>1, <2>3, <2>4 DEF IInv
  <1>5. ASSUME NEW c \in Callers, NEW k \in Keys, Refresh(c, k) PROVE IInv'
    BY <1>1, <1>2, <1>5 DEF Refresh, IInv
  <1>6. ASSUME NEW c \in Callers, Put(c) PROVE IInv'
    <2>1. PICK k \in pending[c] :
            /\ entries' = Trim(MoveToEnd(entries, [key |-> k, left |-> Ttl]))
            /\ pending' = [pending EXCEPT ![c] = {}]
            /\ recent' = Used([key |-> k, left |-> Ttl])
            /\ UNCHANGED served
      BY <1>6 DEF Put
    <2> DEFINE e == [key |-> k, left |-> Ttl]
    <2>2. e \in Entry
      BY <1>2, Limits DEF Entry
    <2> HIDE DEF e
    <2>3. TableFits(entries', recent')
      BY <1>1, <2>1, <2>2, UseKeepsTable DEF e
    <2> QED
      BY <1>2, <2>1, <2>3 DEF IInv
  <1>7. ASSUME NEW c \in Callers, Fail(c) PROVE IInv'
    BY <1>1, <1>2, <1>7 DEF Fail, IInv
  <1>8. CASE Clear
    <2>1. TableFits(<<>>, <<>>)
      BY Limits DEF TableFits, Distinct, SameOrder, Covered
    <2> QED
      BY <1>2, <1>8, <2>1 DEF Clear, IInv
  <1>9. CASE Size
    <2>1. TableFits(es, recent)
      BY <1>1, UnexpiredFits
    <2> QED
      BY <1>2, <1>9, <2>1 DEF Size, IInv
  <1>10. CASE Tick
    <2>1. TableFits(Older(entries), Older(recent))
      BY <1>1, OlderFits
    <2> QED
      BY <1>2, <1>10, <2>1 DEF Tick, IInv
  <1>11. CASE UNCHANGED vars
    BY <1>1, <1>2, <1>11 DEF vars, IInv
  <1> QED
    BY <1>3, <1>4, <1>5, <1>6, <1>7, <1>8, <1>9, <1>10, <1>11 DEF Next

\* However lookups, insertions, expiry and clears mix, the table has one entry
\* per key and no more than its capacity, and agrees with the order of use.
THEOREM Invariance == Spec => []IInv
  <1>1. Init => IInv
    BY InitIInv, CacheAssumption
  <1>2. IInv /\ [Next]_vars => IInv'
    BY NextIInv, CacheAssumption
  <1> QED
    BY <1>1, <1>2, PTL DEF Spec

\* The OrderedDict holds one entry per fingerprint, at most max_entries of
\* them after every method, for every capacity and any number of calls.
THEOREM TypeCorrect == Spec => []TypeOK
  <1>1. IInv => TypeOK
    BY DEF IInv, TableFits, Distinct, TypeOK
  <1> QED
    BY <1>1, Invariance, PTL

(***************************************************************************)
(* An answer that has not expired makes way only after max_entries other   *)
(* keys have been put or hit since its own last use, for every capacity    *)
(* and time to live: expired entries, overwritten answers and lookups that *)
(* find a similar one never cost it its place.                             *)
(***************************************************************************)
THEOREM TheRecentStay == Spec => []RecentlyUsedIsKept
  <1>1. IInv => RecentlyUsedIsKept
    BY DEF IInv, TableFits, Covered, RecentlyUsedIsKept
  <1> QED
    BY <1>1, Invariance, PTL

-----------------------------------------------------------------------------
(* The table implements the promise.                                       *)

\* How much longer the answer of k is served from es.
LeftIn(es, k) ==
    IF \E i \in DOMAIN es : es[i].key = k
      THEN es[CHOOSE i \in DOMAIN es : es[i].key = k].left ELSE 0

LEMMA HeldIsLeft == Held = [k \in Keys |-> LeftIn(entries, k)]
  BY DEF Held, LeftIn

LEMMA LeftIsThatOfTheEntry ==
    ASSUME NEW es, Distinct(es)
    PROVE  /\ \A i \in DOMAIN es : LeftIn(es, es[i].key) = es[i].left
           /\ \A k : (\A i \in DOMAIN es : es[i].key # k) => LeftIn(es, k) = 0
  <1>1. ASSUME NEW i \in DOMAIN es PROVE LeftIn(es, es[i].key) = es[i].left
    <2> DEFINE c == CHOOSE j \in DOMAIN es : es[j].key = es[i].key
    <2>1. c \in DOMAIN es /\ es[c].key = es[i].key
      OBVIOUS
    <2>2. LeftIn(es, es[i].key) = es[c].left
      BY DEF LeftIn
    <2> HIDE DEF c
    <2>3. c = i
      BY <2>1 DEF Distinct
    <2> QED
      BY <2>2, <2>3
  <1>2. \A k : (\A i \in DOMAIN es : es[i].key # k) => LeftIn(es, k) = 0
    BY DEF LeftIn
  <1> QED
    BY <1>1, <1>2

\* Nothing that could be served is lost with what has expired.
LEMMA ExpiryLosesNothing ==
    ASSUME NEW es \in Seq(Entry), Distinct(es), NEW k
    PROVE  /\ LeftIn(Unexpired(es), k) = LeftIn(es, k)
           /\ LeftIn(es, k) > 0 <=> \E i \in DOMAIN Unexpired(es) : Unexpired(es)[i].key = k
  <1> DEFINE t == Unexpired(es)
  <1>1. SameOrder(es, <<>>) /\ Covered(es, <<>>)
    BY DEF SameOrder, Covered
  <1>2. /\ Distinct(t)
        /\ \A n \in DOMAIN t : t[n].left > 0 /\ \E i \in DOMAIN es : es[i] = t[n]
        /\ \A i \in DOMAIN es : es[i].left > 0 => \E n \in DOMAIN t : t[n] = es[i]
    BY <1>1, UnexpiredKeeps
  <1> HIDE DEF t
  <1>3. \A i \in DOMAIN es : es[i].left = 0 \/ es[i].left > 0
    <2>1. ASSUME NEW i \in DOMAIN es PROVE es[i].left = 0 \/ es[i].left > 0
      <3>1. es[i] \in Entry
        OBVIOUS
      <3>2. es[i].left \in 0..Ttl
        BY <3>1 DEF Entry
      <3> QED
        BY <3>2
    <2> QED
      BY <2>1
  <1>4. CASE \E n \in DOMAIN t : t[n].key = k
    <2>1. PICK n \in DOMAIN t : t[n].key = k
      BY <1>4
    <2>2. PICK i \in DOMAIN es : es[i] = t[n]
      BY <1>2
    <2>3. LeftIn(t, k) = t[n].left /\ LeftIn(es, k) = t[n].left /\ t[n].left > 0
      BY <1>2, <2>1, <2>2, LeftIsThatOfTheEntry
    <2> QED
      BY <1>4, <2>3 DEF t
  <1>5. CASE \A n \in DOMAIN t : t[n].key # k
    <2>1. LeftIn(t, k) = 0
      BY <1>2, <1>5, LeftIsThatOfTheEntry
    <2>2. LeftIn(es, k) = 0
      <3>1. CASE \E i \in DOMAIN es : es[i].key = k
        <4>1. PICK i \in DOMAIN es : es[i].key = k
          BY <3>1
        <4>2. ~(es[i].left > 0)
          BY <1>2, <1>5, <4>1
        <4>3. es[i].left = 0
          BY <1>3, <4>2
        <4> QED
          BY <4>1, <4>3, LeftIsThatOfTheEntry
      <3>2. CASE \A i \in DOMAIN es : es[i].key # k
        BY <3>2, LeftIsThatOfTheEntry
      <3> QED
        BY <3>1, <3>2
    <2> QED
      BY <1>5, <2>1, <2>2 DEF t
  <1> QED
    BY <1>4, <1>5

LEMMA MoveChangesOneAnswer ==
    ASSUME NEW es \in Seq(Entry), NEW e \in Entry, Distinct(es), NEW k
    PROVE  LeftIn(MoveToEnd(es, e), k) = IF k = e.key THEN e.left ELSE LeftIn(es, k)
  <1> DEFINE t == MoveToEnd(es, e)
  <1>1. PICK n \in Nat : \E at : Moved(t, es, e, n, at)
    BY MoveToEndMoves
  <1>2. PICK at : Moved(t, es, e, n, at)
    BY <1>1
  <1>3. Distinct(t)
    BY MovedStaysDistinct
  <1> HIDE DEF t
  <1>4. n + 1 \in DOMAIN t /\ t[n + 1] = e
    BY <1>2 DEF Moved
  <1>5. CASE k = e.key
    BY <1>3, <1>4, <1>5, LeftIsThatOfTheEntry DEF t
  <1>6. ASSUME k # e.key, NEW i \in DOMAIN es, es[i].key = k
        PROVE  LeftIn(t, k) = LeftIn(es, k)
    <2>1. PICK j \in 1..n : at[j] = i
      BY <1>2, <1>6 DEF Moved
    <2>2. j \in DOMAIN t /\ t[j] = es[i]
      BY <1>2, <2>1 DEF Moved
    <2> QED
      BY <1>3, <1>6, <2>2, LeftIsThatOfTheEntry
  <1>7. ASSUME k # e.key, \A i \in DOMAIN es : es[i].key # k
        PROVE  LeftIn(t, k) = LeftIn(es, k)
    <2>1. ASSUME NEW j \in DOMAIN t PROVE t[j].key # k
      <3>1. j = n + 1 \/ (j \in 1..n /\ at[j] \in DOMAIN es /\ t[j] = es[at[j]])
        BY <1>2 DEF Moved
      <3> QED
        BY <1>4, <1>7, <3>1
    <2> QED
      BY <1>3, <1>7, <2>1, LeftIsThatOfTheEntry
  <1> QED
    BY <1>5, <1>6, <1>7 DEF t

\* An eviction takes answers away and changes no other.
LEMMA TrimOnlyTakesAway ==
    ASSUME CacheAssumption, NEW t \in Seq(Entry), Len(t) <= MaxEntries + 1, Distinct(t), NEW k
    PROVE  LET w == Trim(t)
           IN  LeftIn(w, k) = IF \E i \in DOMAIN w : w[i].key = k THEN LeftIn(t, k) ELSE 0
  <1> DEFINE w == Trim(t)
  <1>1. MaxEntries \in Nat /\ Len(t) \in Nat
    BY Limits
  <1>2. CASE Len(t) <= MaxEntries
    <2>1. w = t
      BY <1>2, TrimShifts
    <2> HIDE DEF w
    <2> QED
      BY <2>1, LeftIsThatOfTheEntry DEF w
  <1>3. CASE Len(t) > MaxEntries
    <2>1. Shifted(w, t)
      BY <1>3, TrimShifts
    <2> HIDE DEF w
    <2>2. PICK at : Thinned(w, t, at)
      BY <2>1, ShiftThins
    <2>3. DOMAIN w \in SUBSET Nat /\ DOMAIN t \in SUBSET Nat
      BY <2>1 DEF Shifted
    <2>4. Distinct(w)
      BY <2>2, <2>3, ThinnedStaysDistinct
    <2>5. ASSUME NEW i \in DOMAIN w, w[i].key = k PROVE LeftIn(w, k) = LeftIn(t, k)
      <3>1. at[i] \in DOMAIN t /\ w[i] = t[at[i]]
        BY <2>2 DEF Thinned
      <3> QED
        BY <2>4, <2>5, <3>1, LeftIsThatOfTheEntry
    <2> QED
      BY <2>4, <2>5, LeftIsThatOfTheEntry DEF w
  <1> QED
    BY <1>1, <1>2, <1>3

\* The two specifications compare requests in the same way.
LEMMA SameNearness ==
    \A j, k : /\ Promise!Near(j, k) <=> Near(j, k)
              /\ Promise!Similarity(j, k) = Similarity(j, k)
  BY DEF Promise!Near, Promise!Similarity, Promise!ScopeOf, Promise!TextOf,
         Near, Similarity, ScopeOf, TextOf

LEMMA PresentIsUnexpired ==
    ASSUME IInv, NEW k \in Keys
    PROVE  /\ k \in Promise!Present <=>
                \E i \in DOMAIN Unexpired(entries) : Unexpired(entries)[i].key = k
           /\ k \in Promise!Present <=> LeftIn(entries, k) > 0
  <1>1. k \in Promise!Present <=> LeftIn(entries, k) > 0
    BY HeldIsLeft DEF Promise!Present
  <1>2. entries \in Seq(Entry) /\ Distinct(entries)
    BY DEF IInv, TableFits
  <1> QED
    BY <1>1, <1>2, ExpiryLosesNothing

LEMMA HitIsSuitable ==
    ASSUME CacheAssumption, IInv, NEW k \in Keys, NEW i \in Found(Unexpired(entries), k)
    PROVE  Unexpired(entries)[i].key \in Promise!Suitable(k, Promise!Present)
  <1> DEFINE es == Unexpired(entries)
             h == es[i].key
             P == Promise!Present
  <1>1. es \in Seq(Entry) /\ i \in DOMAIN es /\ h \in Keys
    BY FoundIsThere DEF TableFits, Entry
  <1>2. \A j \in Keys : j \in P <=> \E n \in DOMAIN es : es[n].key = j
    BY PresentIsUnexpired
  <1>3. P \in SUBSET Keys
    BY DEF Promise!Present
  <1>4. \/ h = k
        \/ /\ \A n \in DOMAIN es : es[n].key # k
           /\ Near(h, k)
           /\ \A n \in DOMAIN es : Near(es[n].key, k) => Similarity(es[n].key, k) <= Similarity(h, k)
    <2> HIDE DEF es
    <2> QED
      BY <1>1, FoundIsSuitable DEF es
  <1> HIDE DEF es, P
  <1>5. h \in P
    BY <1>1, <1>2
  <1> DEFINE near == {j \in P : Promise!Near(j, k)}
             nearest == {j \in near : \A l \in near : Promise!Similarity(l, k) <= Promise!Similarity(j, k)}
  <1>6. Promise!Suitable(k, P) = IF k \in P THEN {k} ELSE nearest
    BY DEF Promise!Suitable
  <1> HIDE DEF near, nearest
  <1>7. ASSUME h = k PROVE h \in Promise!Suitable(k, P)
    BY <1>5, <1>7, <1>6
  <1>8. ASSUME h # k PROVE h \in Promise!Suitable(k, P)
    <2>1. k \notin P
      BY <1>2, <1>4, <1>8
    <2>2. \A j \in P : Near(j, k) => Similarity(j, k) <= Similarity(h, k)
      BY <1>2, <1>3, <1>4, <1>8
    <2>3. h \in near
      BY <1>4, <1>5, <1>8, SameNearness DEF near
    <2>4. \A j \in near : Promise!Similarity(j, k) <= Promise!Similarity(h, k)
      BY <2>2, SameNearness DEF near
    <2> HIDE DEF h
    <2>5. h \in nearest
      BY <2>3, <2>4 DEF nearest
    <2> QED
      BY <1>6, <2>1, <2>5
  <1> QED
    BY <1>7, <1>8 DEF P, es

LEMMA MissIsJustified ==
    ASSUME CacheAssumption, IInv, NEW k \in Keys, Found(Unexpired(entries), k) = {}
    PROVE  Promise!Suitable(k, Promise!Present) = {}
  <1> DEFINE es == Unexpired(entries)
             P == Promise!Present
  <1>1. es \in Seq(Entry) /\ \A n \in DOMAIN es : es[n].key \in Keys
    <2>1. TableFits(es, recent)
      BY UnexpiredFits DEF IInv
    <2> HIDE DEF es
    <2>2. \A n \in DOMAIN es : es[n] \in Entry
      BY <2>1 DEF TableFits
    <2> QED
      BY <2>1, <2>2 DEF TableFits, Entry
  <1>2. \A j \in Keys : j \in P <=> \E n \in DOMAIN es : es[n].key = j
    BY PresentIsUnexpired
  <1>3. P \in SUBSET Keys
    BY DEF Promise!Present
  <1>4. /\ \A n \in DOMAIN es : es[n].key # k
        /\ \A n \in DOMAIN es : Near(es[n].key, k) =>
              \E m \in DOMAIN es : /\ Near(es[m].key, k)
                                   /\ ~(Similarity(es[m].key, k) <= Similarity(es[n].key, k))
    <2> HIDE DEF es
    <2> QED
      BY <1>1, FoundIsSuitable DEF es
  <1> HIDE DEF es, P
  <1>5. k \notin P
    BY <1>2, <1>4
  <1>6. ASSUME NEW j \in P, Near(j, k)
        PROVE  \E l \in P : Near(l, k) /\ ~(Similarity(l, k) <= Similarity(j, k))
    <2>1. PICK n \in DOMAIN es : es[n].key = j
      BY <1>2, <1>3
    <2>2. PICK m \in DOMAIN es : /\ Near(es[m].key, k)
                                 /\ ~(Similarity(es[m].key, k) <= Similarity(j, k))
      BY <1>4, <1>6, <2>1
    <2>3. es[m].key \in P
      BY <1>1, <1>2
    <2> QED
      BY <2>2, <2>3
  <1> DEFINE near == {j \in P : Promise!Near(j, k)}
  <1>7. ASSUME NEW j \in near PROVE \E l \in near : ~(Promise!Similarity(l, k) <= Promise!Similarity(j, k))
    BY <1>6, SameNearness
  <1>8. Promise!Suitable(k, P) = {j \in near : \A l \in near : Promise!Similarity(l, k) <= Promise!Similarity(j, k)}
    BY <1>5 DEF Promise!Suitable
  <1> HIDE DEF near
  <1> QED
    BY <1>7, <1>8 DEF P

LEMMA InitRefines == Init => Promise!Init
  BY DEF Init, Promise!Init, Held

LEMMA SameSize == ASSUME NEW S PROVE Promise!Cardinality(S) = Cardinality(S)
  BY DEF Promise!Cardinality, Cardinality

LEMMA PutRefines ==
    ASSUME CacheAssumption, IInv, NEW c \in Callers, Put(c)
    PROVE  \E k \in Keys : Promise!Store(k)
  <1>1. PICK k \in pending[c] :
          /\ entries' = Trim(MoveToEnd(entries, [key |-> k, left |-> Ttl]))
          /\ UNCHANGED served
    BY DEF Put
  <1>2. k \in Keys /\ entries \in Seq(Entry) /\ Distinct(entries) /\ TableFits(entries, recent)
    BY DEF IInv, TableFits
  <1> DEFINE e == [key |-> k, left |-> Ttl]
             t == MoveToEnd(entries, e)
             Here(j) == \E i \in DOMAIN entries' : entries'[i].key = j
             gone == {j \in Promise!Present \ {k} : ~Here(j)}
  <1>3. e \in Entry /\ e.key = k /\ e.left = Ttl
    BY <1>2, Limits DEF Entry
  <1> HIDE DEF e
  <1>4. /\ t \in Seq(Entry) /\ Len(t) \in 1..Len(entries) + 1 /\ Distinct(t)
        /\ \A j : LeftIn(t, j) = IF j = k THEN Ttl ELSE LeftIn(entries, j)
        /\ \E n \in Nat : \E at : Moved(t, entries, e, n, at)
    BY <1>2, <1>3, MoveToEndMoves, MovedLength, MovedStaysDistinct, MoveChangesOneAnswer
  <1>5. entries' = Trim(t)
    BY <1>1 DEF e
  <1>6. /\ Len(entries) <= MaxEntries /\ Len(entries) \in Nat /\ MaxEntries \in Nat \ {0}
        /\ Len(t) <= MaxEntries + 1 /\ Len(t) \in Nat
    <2>1. Len(entries) <= MaxEntries /\ Len(entries) \in Nat /\ MaxEntries \in Nat \ {0}
      BY <1>2, Limits DEF TableFits
    <2> HIDE DEF t
    <2> QED
      BY <1>4, <2>1
  <1>7. \A j : LeftIn(entries', j) = IF Here(j) THEN LeftIn(t, j) ELSE 0
    <2> HIDE DEF t
    <2> QED
      BY <1>4, <1>5, <1>6, TrimOnlyTakesAway
  <1>8. TableFits(entries', Used(e))
    BY <1>2, <1>3, <1>5, UseKeepsTable
  <1>9. Here(k)
    <2>1. PICK n \in Nat : \E at : Moved(t, entries, e, n, at)
      BY <1>4
    <2>2. DOMAIN t = 1..n + 1 /\ t[n + 1] = e
      BY <2>1 DEF Moved
    <2> HIDE DEF t
    <2>3. n + 1 = Len(t)
      BY <1>4, <2>2
    <2>4. CASE Len(t) <= MaxEntries
      <3>1. entries' = t
        BY <1>4, <1>5, <1>6, <2>4, TrimShifts
      <3> QED
        BY <1>3, <2>2, <3>1
    <2>5. CASE Len(t) > MaxEntries
      <3>1. Len(t) = MaxEntries + 1 /\ Shifted(entries', t)
        BY <1>4, <1>5, <1>6, <2>5, TrimShifts
      <3>2. n = MaxEntries /\ n \in 1..Len(entries')
        BY <1>4, <1>6, <2>3, <3>1 DEF Shifted
      <3>3. n \in DOMAIN entries' /\ entries'[n] = t[n + 1]
        BY <3>1, <3>2 DEF Shifted
      <3> QED
        BY <1>3, <2>2, <3>3
    <2> QED
      BY <1>6, <2>4, <2>5
  <1>10. \A j \in Keys : LeftIn(entries', j) = IF j = k THEN Ttl
                                              ELSE IF j \in gone THEN 0 ELSE LeftIn(entries, j)
    <2>1. ASSUME NEW j \in Keys, j # k, j \notin gone, ~Here(j) PROVE LeftIn(entries, j) = 0
      <3>1. j \notin Promise!Present
        BY <2>1
      <3>2. ~(LeftIn(entries, j) > 0)
        BY <3>1, PresentIsUnexpired
      <3>3. LeftIn(entries, j) \in Nat
        <4>1. CASE \E i \in DOMAIN entries : entries[i].key = j
          <5>1. PICK i \in DOMAIN entries : entries[i].key = j
            BY <4>1
          <5>2. entries[i] \in Entry
            BY <1>2, <5>1
          <5>3. entries[i].left \in Nat
            BY <5>2 DEF Entry
          <5> QED
            BY <1>2, <5>1, <5>3, LeftIsThatOfTheEntry
        <4>2. CASE \A i \in DOMAIN entries : entries[i].key # j
          BY <1>2, <4>2, LeftIsThatOfTheEntry
        <4> QED
          BY <4>1, <4>2
      <3> QED
        BY <3>2, <3>3
    <2>2. \A j \in gone : ~Here(j) /\ j # k
      OBVIOUS
    <2> HIDE DEF gone, Here, t
    <2> QED
      BY <1>4, <1>7, <1>9, <2>1, <2>2
  <1>11. Cardinality((Promise!Present \cup {k}) \ gone) <= MaxEntries
    <2> DEFINE left == (Promise!Present \cup {k}) \ gone
               D == DOMAIN entries'
               keys == {entries'[i].key : i \in D}
    <2>1. left \in SUBSET keys
      BY <1>9
    <2>2. D = 1..Len(entries') /\ Len(entries') \in Nat /\ Len(entries') <= MaxEntries
      BY <1>8 DEF TableFits
    <2>3. IsFiniteSet(D) /\ Cardinality(D) = Len(entries')
      BY <2>2, Upto
    <2> DEFINE f == [i \in D |-> entries'[i].key]
    <2>4. f \in Surjection(D, keys)
      BY DEF Surjection
    <2> HIDE DEF f, keys, D, left
    <2>5. IsFiniteSet(keys) /\ Cardinality(keys) <= Cardinality(D)
      BY <2>3, <2>4, FS_Surjection
    <2>6. Cardinality(left) <= Cardinality(keys) /\ Cardinality(left) \in Nat /\ Cardinality(keys) \in Nat
      BY <2>1, <2>5, FS_Subset, FS_CardinalityType
    <2> QED
      BY <1>6, <2>2, <2>3, <2>5, <2>6 DEF left
  <1>12. gone \in SUBSET (Promise!Present \ {k})
    OBVIOUS
  <1>13. Held' = [j \in Keys |-> IF j = k THEN Ttl ELSE IF j \in gone THEN 0 ELSE Held[j]]
    <2>1. Held' = [j \in Keys |-> LeftIn(entries', j)]
      BY HeldIsLeft DEF LeftIn, Held
    <2>2. \A j \in Keys : Held[j] = LeftIn(entries, j)
      BY HeldIsLeft
    <2> HIDE DEF gone
    <2> QED
      BY <1>10, <2>1, <2>2
  <1> DEFINE told == {<<a.asked, a.key>> : a \in served}
  <1>14. told' = told
    BY <1>1
  <1>15. ASSUME NEW j \in gone
         PROVE  Len(t) > MaxEntries /\ t[1].key = j /\ 1 \in DOMAIN t
    <2>1. j # k /\ j \in Keys /\ ~Here(j) /\ LeftIn(entries, j) > 0
      BY PresentIsUnexpired DEF Promise!Present
    <2> HIDE DEF t
    <2>2. LeftIn(t, j) > 0
      BY <1>4, <2>1
    <2>3. PICK i \in DOMAIN t : t[i].key = j
      BY <1>4, <2>2, LeftIsThatOfTheEntry
    <2>4. Len(t) > MaxEntries
      <3>1. ASSUME Len(t) <= MaxEntries PROVE entries' = t
        BY <1>4, <1>5, <1>6, <3>1, TrimShifts
      <3> QED
        BY <1>6, <2>1, <2>3, <3>1
    <2>5. Shifted(entries', t)
      BY <1>4, <1>5, <1>6, <2>4, TrimShifts
    <2>6. i - 1 \notin DOMAIN entries'
      <3>1. i \in Nat
        BY <1>4, <2>3
      <3>2. ASSUME i - 1 \in DOMAIN entries' PROVE entries'[i - 1] = t[i]
        <4>1. entries'[i - 1] = t[i - 1 + 1]
          BY <2>5, <3>2 DEF Shifted
        <4>2. i - 1 + 1 = i
          BY <3>1
        <4> QED
          BY <4>1, <4>2
      <3> QED
        BY <2>1, <2>3, <3>2
    <2>7. i = 1
      BY <1>4, <1>6, <2>3, <2>5, <2>6 DEF Shifted
    <2> QED
      BY <2>3, <2>4, <2>7
  <1>16. /\ \A i, j \in gone : i = j
         /\ gone # {} => k \notin Promise!Present
    <2>1. ASSUME k \in Promise!Present PROVE Len(t) <= MaxEntries
      <3>1. LeftIn(entries, k) > 0
        BY <1>2, <2>1, PresentIsUnexpired
      <3>2. \E i \in DOMAIN entries : entries[i].key = e.key
        BY <1>2, <1>3, <3>1, LeftIsThatOfTheEntry
      <3>3. Len(t) <= Len(entries)
        BY <1>2, <1>3, <3>2, MovedLength
      <3> HIDE DEF t
      <3> QED
        BY <1>6, <3>3
    <2> HIDE DEF gone, t
    <2> QED
      BY <1>6, <1>15, <2>1
  <1> HIDE DEF gone
  <1>17. Promise!Store(k)
    <2> DEFINE Leaves(g) ==
                 /\ \A i, j \in g : i = j
                 /\ g # {} => k \notin Promise!Present
                 /\ Cardinality((Promise!Present \cup {k}) \ g) <= MaxEntries
                 /\ Held' = [j \in Keys |-> IF j = k THEN Ttl ELSE IF j \in g THEN 0 ELSE Held[j]]
    <2>1. \E g \in SUBSET (Promise!Present \ {k}) : Leaves(g)
      BY <1>11, <1>12, <1>13, <1>16
    <2>2. Promise!Store(k) <=> (\E g \in SUBSET (Promise!Present \ {k}) : Leaves(g)) /\ told' = told
      BY SameSize DEF Promise!Store
    <2> HIDE DEF told, Leaves
    <2> QED
      BY <1>14, <2>1, <2>2
  <1> QED
    BY <1>2, <1>17

LEMMA StepRefines ==
    ASSUME CacheAssumption, IInv, [Next]_vars
    PROVE  [Promise!Next]_(Promise!promised)
  <1> DEFINE es == Unexpired(entries)
             told == {<<a.asked, a.key>> : a \in served}
  <1>1. entries \in Seq(Entry) /\ Distinct(entries)
    BY DEF IInv, TableFits
  <1>2. entries' = es => Held' = Held
    <2>1. ASSUME entries' = es PROVE \A k \in Keys : LeftIn(entries', k) = LeftIn(entries, k)
      BY <1>1, <2>1, ExpiryLosesNothing
    <2>2. Held' = [k \in Keys |-> LeftIn(entries', k)]
      BY DEF Held, LeftIn
    <2> QED
      BY <2>1, <2>2, HeldIsLeft
  <1>3. ASSUME NEW c \in Callers, NEW k \in Keys, Get(c, k), Found(es, k) = {} PROVE Promise!Next
    <2>1. entries' = es /\ served' = {}
      BY <1>3 DEF Get
    <2>2. told' = {}
      BY <2>1
    <2>3. Promise!Suitable(k, Promise!Present) = {}
      BY <1>3, MissIsJustified
    <2> QED
      BY <1>2, <2>1, <2>2, <2>3 DEF Promise!Next, Promise!Lookup
  <1>4. ASSUME NEW c \in Callers, NEW k \in Keys, Get(c, k), Found(es, k) # {} PROVE Promise!Next
    <2>1. PICK i \in Found(es, k) :
            /\ entries' = Touch(es, i)
            /\ served' = {[asked |-> k, key |-> es[i].key]}
      BY <1>4 DEF Get
    <2>2. es[i].key \in Promise!Suitable(k, Promise!Present)
      BY HitIsSuitable
    <2>3. told' = {<<k, es[i].key>>}
      BY <2>1
    <2>4. es \in Seq(Entry) /\ Distinct(es) /\ i \in DOMAIN es /\ es[i] \in Entry
      BY FoundIsThere DEF TableFits
    <2>5. \A j : LeftIn(entries', j) = LeftIn(entries, j)
      <3>1. entries' = MoveToEnd(es, es[i])
        BY <2>1 DEF Touch
      <3>2. \A j : LeftIn(es, j) = LeftIn(entries, j)
        BY <1>1, ExpiryLosesNothing
      <3> HIDE DEF es
      <3>3. \A j : LeftIn(entries', j) = IF j = es[i].key THEN es[i].left ELSE LeftIn(es, j)
        BY <2>4, <3>1, MoveChangesOneAnswer
      <3> QED
        BY <2>4, <3>2, <3>3, LeftIsThatOfTheEntry
    <2>6. Held' = Held
      <3>1. Held' = [j \in Keys |-> LeftIn(entries', j)]
        BY DEF Held, LeftIn
      <3> QED
        BY <2>5, <3>1, HeldIsLeft
    <2> QED
      BY <2>2, <2>3, <2>6 DEF Promise!Next, Promise!Lookup
  <1>5. ASSUME NEW c \in Callers, NEW k \in Keys, Refresh(c, k) PROVE UNCHANGED <<Held, told>>
    BY <1>5 DEF Refresh, Held
  <1>6. ASSUME NEW c \in Callers, Put(c) PROVE Promise!Next
    BY <1>6, PutRefines DEF Promise!Next
  <1>7. ASSUME NEW c \in Callers, Fail(c) PROVE UNCHANGED <<Held, told>>
    BY <1>7 DEF Fail, Held
  <1>8. CASE Clear
    BY <1>8 DEF Clear, Promise!Next, Promise!Forget, Held
  <1>9. ASSUME Size PROVE UNCHANGED <<Held, told>>
    <2>1. entries' = es /\ served' = served
      BY <1>9 DEF Size
    <2>2. Held' = Held
      BY <1>2, <2>1
    <2>3. told' = told
      BY <2>1
    <2> QED
      BY <2>2, <2>3
  <1>10. CASE Tick
    <2>1. entries' = Older(entries) /\ UNCHANGED served
      BY <1>10 DEF Tick
    <2>2. /\ DOMAIN entries' = DOMAIN entries
          /\ \A i \in DOMAIN entries :
                /\ entries'[i].key = entries[i].key
                /\ entries'[i].left = IF entries[i].left > 0 THEN entries[i].left - 1 ELSE 0
      BY <1>1, <2>1, OlderIsShorter
    <2>3. Distinct(entries')
      BY <1>1, <2>2 DEF Distinct
    <2>4. ASSUME NEW k \in Keys
          PROVE  LeftIn(entries', k) = IF LeftIn(entries, k) > 0 THEN LeftIn(entries, k) - 1 ELSE 0
      <3>1. CASE \E i \in DOMAIN entries : entries[i].key = k
        BY <1>1, <2>2, <2>3, <3>1, LeftIsThatOfTheEntry
      <3>2. CASE \A i \in DOMAIN entries : entries[i].key # k
        BY <1>1, <2>2, <2>3, <3>2, LeftIsThatOfTheEntry
      <3> QED
        BY <3>1, <3>2
    <2>5. Held' = [k \in Keys |-> LeftIn(entries', k)]
      BY DEF Held, LeftIn
    <2>6. Held' = [k \in Keys |-> IF Held[k] > 0 THEN Held[k] - 1 ELSE 0]
      BY <2>4, <2>5, HeldIsLeft
    <2> QED
      BY <2>1, <2>6 DEF Promise!Next, Promise!Age
  <1>11. ASSUME UNCHANGED vars PROVE UNCHANGED <<Held, told>>
    BY <1>11 DEF vars, Held
  <1> QED
    BY <1>2, <1>3, <1>4, <1>5, <1>6, <1>7, <1>8, <1>9, <1>10, <1>11 DEF Next, Promise!promised

(***************************************************************************)
(* cache.py behaves like a map with expiry that forgets on its own only    *)
(* when it is full: every step of the OrderedDict, its lazy expiry and its *)
(* order included, is a step of CachePromise or a stutter, for every       *)
(* capacity, time to live and similarity.                                  *)
(***************************************************************************)
THEOREM CacheKeepsItsPromise == Spec => PromiseKept
  <1>1. Init => Promise!Init
    BY InitRefines
  <1>2. IInv /\ [Next]_vars => [Promise!Next]_(Promise!promised)
    BY StepRefines, CacheAssumption
  <1> QED
    BY <1>1, <1>2, Invariance, PTL DEF Spec, PromiseKept, Promise!Spec

=============================================================================
