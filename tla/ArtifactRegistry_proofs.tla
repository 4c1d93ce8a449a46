------------------------ MODULE ArtifactRegistry_proofs ------------------------
(***************************************************************************)
(* The properties of ArtifactRegistry, for every set of names, versions,   *)
(* contents and clients.  Inv adds to them what a step depends on: where   *)
(* the row of a call past its INSERT is, and that creation times follow    *)
(* the order in which registrations were reported and begun.               *)
(***************************************************************************)
EXTENDS ArtifactRegistry, TLAPS

\* A call that has committed finds its own row.
StoredIsThere == \A p \in puts : p.stage = "stored" => NewRow(p) \in artifacts

(***************************************************************************)
(* Rows and calls are of the past; what a call knew to be registered is    *)
(* older than it, and what it then made is younger.                        *)
(***************************************************************************)
InOrder ==
    /\ \A a \in artifacts : a.created < clock
    /\ \A p \in puts : p.created <= clock
    /\ \A p \in puts : \A k \in p.earlier : \E a \in artifacts : a.key = k /\ a.created < p.created
    /\ \A k, l \in Keys : <<k, l>> \in since =>
          \E a, b \in artifacts : a.key = k /\ b.key = l /\ a.created < b.created

Inv == TypeOK /\ ReceiptsStayTrue /\ StoredIsThere /\ InOrder

-----------------------------------------------------------------------------

LEMMA InvInit == Init => Inv
  BY RegistryAssumption
  DEF Init, Inv, TypeOK, ReceiptsStayTrue, StoredIsThere, InOrder, RegistryAssumption

\* A call ends; what it returns is in the table.
LEMMA PutEnds ==
    ASSUME Inv, NEW p \in puts, puts' = puts \ {p}, receipts' \subseteq artifacts,
           UNCHANGED <<artifacts, clock, since>>
    PROVE  Inv'
  BY DEF Inv, TypeOK, ReceiptsStayTrue, StoredIsThere, InOrder, RowsOf, NewRow

\* A call begins.
LEMMA PutBegins ==
    ASSUME Inv, NEW c \in Clients, NEW k \in Keys, NEW x \in Contents, BeginPut(c, k, x)
    PROVE  Inv'
<1> DEFINE q == [client |-> c, stage |-> "inserting", key |-> k, content |-> x,
                 created |-> clock, earlier |-> {r.key : r \in receipts}]
<1> USE DEF Inv
<1>1. puts' = puts \cup {q} /\ UNCHANGED <<artifacts, clock, receipts, since>>
  BY DEF BeginPut
<1>2. q \in Put
  <2>1. {r.key : r \in receipts} \in SUBSET Keys
    BY DEF TypeOK, Row
  <2> QED  BY <2>1 DEF Put, TypeOK
<1>3. TypeOK'
  <2>1. q.client = c /\ q.stage = "inserting" /\ \A p \in puts : p.client # c
    BY DEF BeginPut
  <2> HIDE DEF q
  <2>2. \A r, s \in puts' : r.client = s.client => r = s
    BY <1>1, <2>1 DEF TypeOK
  <2>3. \A r \in puts' : r.stage # "inserting" => RowsOf(r.key)' # {}
    BY <1>1, <2>1 DEF TypeOK, RowsOf
  <2> QED  BY <1>1, <1>2, <2>2, <2>3 DEF TypeOK
<1>4. \A l \in q.earlier : \E a \in artifacts : a.key = l /\ a.created < q.created
  BY DEF ReceiptsStayTrue, InOrder
<1>5. InOrder'
  <2>1. clock <= clock
    BY RegistryAssumption DEF TypeOK, RegistryAssumption
  <2>2. \A p \in puts' : p.created <= clock
    BY <1>1, <2>1 DEF InOrder
  <2>3. \A p \in puts' : \A l \in p.earlier :
           \E a \in artifacts : a.key = l /\ a.created < p.created
    BY <1>1, <1>4 DEF InOrder
  <2> QED  BY <1>1, <2>2, <2>3 DEF InOrder
<1> QED  BY <1>1, <1>3, <1>5 DEF ReceiptsStayTrue, StoredIsThere, NewRow

\* A call that goes on is still the only one of its client.
LEMMA OneCall ==
    ASSUME TypeOK, NEW p \in puts, NEW q, q.client = p.client, puts' = (puts \ {p}) \cup {q}
    PROVE  \A r, s \in puts' : r.client = s.client => r = s
<1>1. \A r \in puts \ {p} : r.client # q.client
  BY DEF TypeOK
<1>2. \A r, s \in puts : r.client = s.client => r = s
  BY DEF TypeOK
<1> QED  BY <1>1, <1>2

\* The INSERT of a call commits: its key was free.
LEMMA RowInserted ==
    ASSUME Inv, NEW p \in puts, p.stage = "inserting", p.created < clock, RowsOf(p.key) = {},
           artifacts' = artifacts \cup {NewRow(p)}, To(p, "stored"),
           since' = since \cup (p.earlier \X {p.key}), UNCHANGED <<clock, receipts>>
    PROVE  Inv'
<1> DEFINE q == [p EXCEPT !.stage = "stored"]
<1> USE DEF Inv
<1>1. p \in Put /\ q \in Put
  BY DEF TypeOK, Put
<1>2. q.client = p.client /\ q.stage = "stored" /\ q.key = p.key /\ q.content = p.content
      /\ q.created = p.created /\ q.earlier = p.earlier
  BY <1>1 DEF Put
<1>3. NewRow(p) \in Row /\ NewRow(q) = NewRow(p) /\ NewRow(p).key = p.key
      /\ NewRow(p).created = p.created
  BY <1>1, <1>2 DEF NewRow, Put, Row
<1>4. puts' = (puts \ {p}) \cup {q}
  BY DEF To
<1>5. \A a \in artifacts : a.key # p.key
  BY DEF RowsOf
<1>6. TypeOK'
  <2>1. artifacts' \subseteq Row /\ puts' \subseteq Put
    BY <1>1, <1>3, <1>4 DEF TypeOK
  <2>2. since' \subseteq Keys \X Keys
    BY <1>1 DEF TypeOK, Put
  <2>3. \A a, b \in artifacts' : a.key = b.key => a = b
    BY <1>3, <1>5 DEF TypeOK
  <2>4. \A r, s \in puts' : r.client = s.client => r = s
    BY <1>2, <1>4, OneCall
  <2>5. \A r \in puts' : r.stage # "inserting" => RowsOf(r.key)' # {}
    BY <1>2, <1>3, <1>4 DEF TypeOK, RowsOf
  <2> QED  BY <2>1, <2>2, <2>3, <2>4, <2>5 DEF TypeOK
<1>7. StoredIsThere'
  BY <1>3, <1>4 DEF StoredIsThere, NewRow
<1>8. InOrder'
  <2>1. \A a \in artifacts' : a.created < clock
    BY <1>3 DEF InOrder
  <2> HIDE DEF q
  <2>2. \A r \in puts' : \E o \in puts : o.created = r.created /\ o.earlier = r.earlier
    BY <1>2, <1>4
  <2>3. /\ \A r \in puts' : r.created <= clock
        /\ \A r \in puts' : \A k \in r.earlier :
              \E a \in artifacts' : a.key = k /\ a.created < r.created
    <3>1. \A o \in puts : \A k \in o.earlier :
             \E a \in artifacts' : a.key = k /\ a.created < o.created
      BY DEF InOrder
    <3>2. \A o \in puts : o.created <= clock
      BY DEF InOrder
    <3>3. ASSUME NEW r \in puts'
          PROVE  /\ r.created <= clock
                 /\ \A k \in r.earlier : \E a \in artifacts' : a.key = k /\ a.created < r.created
      <4>1. PICK o \in puts : o.created = r.created /\ o.earlier = r.earlier
        BY <2>2
      <4> QED  BY <3>1, <3>2, <4>1
    <3> QED  BY <3>3
  <2>4. ASSUME NEW k \in Keys, NEW l \in Keys, <<k, l>> \in since'
        PROVE  \E a, b \in artifacts' : a.key = k /\ b.key = l /\ a.created < b.created
    <3>1. CASE <<k, l>> \in since
      BY <3>1 DEF InOrder
    <3>2. CASE <<k, l>> \in p.earlier \X {p.key}
      <4>1. k \in p.earlier /\ l = p.key
        BY <3>2
      <4>2. PICK a \in artifacts : a.key = k /\ a.created < p.created
        BY <4>1 DEF InOrder
      <4> QED  BY <4>1, <4>2, <1>3
    <3> QED  BY <2>4, <3>1, <3>2
  <2> QED  BY <2>1, <2>3, <2>4 DEF InOrder
<1> QED  BY <1>6, <1>7, <1>8 DEF ReceiptsStayTrue

\* The INSERT of a call raises IntegrityError: its key is taken.
LEMMA RowRefused ==
    ASSUME Inv, NEW p \in puts, p.stage = "inserting", RowsOf(p.key) # {},
           To(p, "comparing"), UNCHANGED <<artifacts, clock, receipts, since>>
    PROVE  Inv'
<1> DEFINE q == [p EXCEPT !.stage = "comparing"]
<1> USE DEF Inv
<1>1. p \in Put /\ q \in Put
  BY DEF TypeOK, Put
<1>2. q.client = p.client /\ q.stage = "comparing" /\ q.key = p.key
      /\ q.created = p.created /\ q.earlier = p.earlier
  BY <1>1 DEF Put
<1>3. puts' = (puts \ {p}) \cup {q}
  BY DEF To
<1>4. TypeOK'
  <2>1. \A r, s \in puts' : r.client = s.client => r = s
    BY <1>2, <1>3, OneCall
  <2>2. \A r \in puts' : r.stage # "inserting" => RowsOf(r.key)' # {}
    BY <1>2, <1>3 DEF TypeOK, RowsOf
  <2> QED  BY <1>1, <1>3, <2>1, <2>2 DEF TypeOK
<1>5. StoredIsThere'
  BY <1>2, <1>3 DEF StoredIsThere, NewRow
<1>6. InOrder'
  <2> HIDE DEF q
  <2>1. \A r \in puts' : \E o \in puts : o.created = r.created /\ o.earlier = r.earlier
    BY <1>2, <1>3
  <2>2. \A o \in puts : /\ o.created <= clock
                        /\ \A k \in o.earlier :
                              \E a \in artifacts : a.key = k /\ a.created < o.created
    BY DEF InOrder
  <2>3. ASSUME NEW r \in puts'
        PROVE  /\ r.created <= clock
               /\ \A k \in r.earlier : \E a \in artifacts : a.key = k /\ a.created < r.created
    <3>1. PICK o \in puts : o.created = r.created /\ o.earlier = r.earlier
      BY <2>1
    <3> QED  BY <2>2, <3>1
  <2> QED  BY <2>3 DEF InOrder
<1> QED  BY <1>4, <1>5, <1>6 DEF ReceiptsStayTrue

LEMMA InvNext == Inv /\ [Next]_vars => Inv'
<1> SUFFICES ASSUME Inv, [Next]_vars PROVE Inv'
  OBVIOUS
<1>1. ASSUME NEW c \in Clients, NEW k \in Keys, NEW x \in Contents, BeginPut(c, k, x)
      PROVE  Inv'
  BY <1>1, PutBegins
<1>2. ASSUME NEW p \in puts, Insert(p) PROVE Inv'
  BY <1>2, RowInserted, RowRefused DEF Insert, Store
<1>3. ASSUME NEW p \in puts, FailPut(p) PROVE Inv'
  BY <1>3, PutEnds DEF FailPut, Inv, ReceiptsStayTrue
<1>4. ASSUME NEW p \in puts, ReturnNew(p) PROVE Inv'
  <2>1. receipts' \subseteq artifacts
    BY <1>4 DEF ReturnNew, Return, Inv, ReceiptsStayTrue, StoredIsThere
  <2> QED  BY <1>4, <2>1, PutEnds DEF ReturnNew, Return
<1>5. ASSUME NEW p \in puts, Compare(p) PROVE Inv'
  <2>1. receipts' \subseteq artifacts
    BY <1>5 DEF Compare, Return, RowsOf, Inv, ReceiptsStayTrue
  <2> QED  BY <1>5, <2>1, PutEnds DEF Compare, Return
<1>6. CASE Crash
  BY <1>6 DEF Crash, Inv, TypeOK, ReceiptsStayTrue, StoredIsThere, InOrder, RowsOf
<1>7. CASE Tick
  <2>1. TypeOK'
    BY <1>7, RegistryAssumption DEF Tick, Inv, TypeOK, RowsOf, RegistryAssumption
  <2>2. InOrder'
    <3>1. clock \in Int /\ (\A a \in artifacts : a.created \in Int)
          /\ (\A p \in puts : p.created \in Int)
      BY RegistryAssumption DEF Inv, TypeOK, Row, Put, RegistryAssumption
    <3> QED  BY <1>7, <3>1 DEF Tick, Inv, InOrder
  <2> QED  BY <1>7, <2>1, <2>2 DEF Tick, Inv, ReceiptsStayTrue, StoredIsThere, NewRow
<1>8. CASE UNCHANGED vars
  BY <1>8 DEF vars, Inv, TypeOK, ReceiptsStayTrue, StoredIsThere, InOrder, RowsOf, NewRow
<1> QED  BY <1>1, <1>2, <1>3, <1>4, <1>5, <1>6, <1>7, <1>8 DEF Next, Serve

LEMMA Invariance == Spec => []Inv
  BY InvInit, InvNext, PTL DEF Spec

-----------------------------------------------------------------------------

(***************************************************************************)
(* The table keeps its primary key whatever runs beside it, and the second *)
(* transaction of put always finds the row the first one collided with.    *)
(***************************************************************************)
THEOREM TypeCorrect == Spec => []TypeOK
<1>1. Inv => TypeOK
  BY DEF Inv
<1> QED  BY <1>1, Invariance, PTL

(***************************************************************************)
(* What a client of put has been given stays registered for ever.          *)
(***************************************************************************)
THEOREM Immutable == Spec => []ReceiptsStayTrue
<1>1. Inv => ReceiptsStayTrue
  BY DEF Inv
<1> QED  BY <1>1, Invariance, PTL

(***************************************************************************)
(* get without a version never answers with one that was reported before   *)
(* the registration of another of that name began.                         *)
(***************************************************************************)
THEOREM LatestIsLatest == Spec => []LatestIsNotSuperseded
<1>1. ASSUME Inv PROVE LatestIsNotSuperseded
  <2> SUFFICES ASSUME NEW n \in Names, NEW a \in Latest(n), NEW b \in RowsNamed(n),
                      <<a.key, b.key>> \in since
               PROVE  FALSE
    BY DEF LatestIsNotSuperseded
  <2>1. a \in artifacts /\ b \in artifacts /\ b.created <= a.created
    BY DEF Latest, RowsNamed
  <2>2. a.key \in Keys /\ b.key \in Keys /\ a.created \in Int /\ b.created \in Int
    BY <1>1, <2>1, RegistryAssumption DEF Inv, TypeOK, Row, RegistryAssumption
  <2>3. PICK d \in artifacts, e \in artifacts :
           d.key = a.key /\ e.key = b.key /\ d.created < e.created
    BY <1>1, <2>2 DEF Inv, InOrder
  <2>4. d = a /\ e = b
    BY <1>1, <2>1, <2>3 DEF Inv, TypeOK
  <2> QED  BY <2>1, <2>2, <2>3, <2>4
<1> QED  BY <1>1, Invariance, PTL

-----------------------------------------------------------------------------
(* The refinement.                                                         *)

Inserting == {q \in puts : q.stage = "inserting"}
Settled == {q \in puts : q.stage # "inserting"}
Asked == {<<p.client, p.key, p.content>> : p \in Inserting}
Decided == {<<p.client, p.key, p.content, Outcome(p)>> : p \in Settled}

\* A row is held by the promise under its key and content.
LEMMA HeldIsThere ==
    ASSUME Inv, NEW k, NEW x
    PROVE  /\ <<k, x>> \in Pairs(artifacts) <=> \E a \in artifacts : a.key = k /\ a.content = x
           /\ Promise!Taken(k) <=> RowsOf(k) # {}
<1>1. <<k, x>> \in Pairs(artifacts) <=> \E a \in artifacts : a.key = k /\ a.content = x
  BY DEF Pairs
<1>2. ASSUME NEW a \in artifacts, a.key = k PROVE Promise!Taken(k)
  <2>1. a.content \in Contents /\ <<k, a.content>> \in Pairs(artifacts)
    BY <1>2 DEF Pairs, Inv, TypeOK, Row
  <2> QED  BY <2>1 DEF Promise!Taken
<1>3. ASSUME Promise!Taken(k) PROVE \E a \in artifacts : a.key = k
  BY <1>3 DEF Promise!Taken, Pairs
<1> QED  BY <1>1, <1>2, <1>3 DEF RowsOf

\* Of a call that ends nothing remains: no other has its client.
LEMMA GoneFromAsked ==
    ASSUME Inv, NEW p \in puts
    PROVE  {<<q.client, q.key, q.content>> : q \in Inserting \ {p}}
             = Asked \ {<<p.client, p.key, p.content>>}
<1>1. \A q \in puts : q.client = p.client => q = p
  BY DEF Inv, TypeOK
<1> QED  BY <1>1 DEF Asked, Inserting

LEMMA GoneFromDecided ==
    ASSUME Inv, NEW p \in puts
    PROVE  {<<q.client, q.key, q.content, Outcome(q)>> : q \in Settled \ {p}}
             = Decided \ {<<p.client, p.key, p.content, Outcome(p)>>}
<1>1. \A q \in puts : q.client = p.client => q = p
  BY DEF Inv, TypeOK
<1> QED  BY <1>1 DEF Decided, Settled

\* A call ends after its INSERT.
LEMMA SettledEnds ==
    ASSUME Inv, NEW p \in puts, p.stage # "inserting", puts' = puts \ {p}, UNCHANGED artifacts
    PROVE  Asked' = Asked /\ Decided' = Decided \ {<<p.client, p.key, p.content, Outcome(p)>>}
<1>1. Inserting' = Inserting /\ Settled' = Settled \ {p}
  BY DEF Inserting, Settled
<1>2. \A q : Outcome(q)' = Outcome(q)
  BY DEF Outcome, RowsOf
<1> QED  BY <1>1, <1>2, GoneFromDecided DEF Asked, Decided

LEMMA InitRefines == Init => Promise!Init
  BY DEF Init, Promise!Init, Pairs

LEMMA StepRefines == Inv /\ [Next]_vars => [Promise!Next]_(Promise!promised)
<1> SUFFICES ASSUME Inv, [Next]_vars PROVE [Promise!Next]_(Promise!promised)
  OBVIOUS
<1>1. ASSUME NEW c \in Clients, NEW k \in Keys, NEW x \in Contents, BeginPut(c, k, x)
      PROVE  Promise!Ask(<<c, k, x>>)
  <2>1. PICK q : q.client = c /\ q.stage = "inserting" /\ q.key = k /\ q.content = x
                 /\ puts' = puts \cup {q}
    BY <1>1 DEF BeginPut
  <2>2. UNCHANGED <<artifacts, receipts>>
    BY <1>1 DEF BeginPut
  <2>3. Inserting' = Inserting \cup {q} /\ Settled' = Settled
    BY <2>1 DEF Inserting, Settled
  <2>4. Asked' = Asked \cup {<<c, k, x>>}
    BY <2>1, <2>3 DEF Asked
  <2>5. Decided' = Decided
    BY <2>2, <2>3 DEF Decided, Outcome, RowsOf
  <2> QED  BY <2>2, <2>4, <2>5 DEF Promise!Ask, Asked, Decided, Inserting, Settled, Pairs
<1>2. ASSUME NEW p \in puts, Insert(p) PROVE Promise!Decide(<<p.client, p.key, p.content>>)
  <2> DEFINE r == <<p.client, p.key, p.content>>
  <2>1. p \in Inserting /\ r \in Asked
    BY <1>2 DEF Insert, Inserting, Asked
  <2>2. PICK q : /\ q.client = p.client /\ q.key = p.key /\ q.content = p.content
                 /\ q.stage = IF RowsOf(p.key) = {} THEN "stored" ELSE "comparing"
                 /\ puts' = (puts \ {p}) \cup {q}
    <3>1. p \in Put
      BY DEF Inv, TypeOK
    <3> QED  BY <1>2, <3>1 DEF Insert, Store, To, Put
  <2>3. Inserting' = Inserting \ {p} /\ Settled' = Settled \cup {q}
    BY <1>2, <2>2 DEF Inserting, Settled, Insert
  <2>4. Asked' = Asked \ {r}
    BY <2>3, GoneFromAsked DEF Asked
  <2>5. \A o \in Settled : Outcome(o)' = Outcome(o)
    <3>1. ASSUME NEW o \in Settled, RowsOf(p.key) = {} PROVE RowsOf(o.key)' = RowsOf(o.key)
      <4>1. o.key # p.key
        BY <3>1 DEF Settled, Inv, TypeOK
      <4> QED  BY <1>2, <3>1, <4>1 DEF Insert, Store, RowsOf, NewRow
    <3>2. RowsOf(p.key) # {} => UNCHANGED artifacts
      BY <1>2 DEF Insert, Store
    <3> QED  BY <3>1, <3>2 DEF Outcome, RowsOf
  <2>6. Decided' = Decided \cup {<<p.client, p.key, p.content, Outcome(q)'>>}
    BY <2>2, <2>3, <2>5 DEF Decided
  <2>7. UNCHANGED receipts
    BY <1>2 DEF Insert
  <2>8. CASE RowsOf(p.key) = {}
    <3>1. Outcome(q)' = "registered"
      BY <2>2, <2>8 DEF Outcome
    <3>2. Pairs(artifacts)' = Pairs(artifacts) \cup {<<p.key, p.content>>}
      <4>1. artifacts' = artifacts \cup {NewRow(p)}
        BY <1>2, <2>8 DEF Insert, Store
      <4>2. NewRow(p).key = p.key /\ NewRow(p).content = p.content
        BY DEF NewRow
      <4> QED  BY <4>1, <4>2 DEF Pairs
    <3>3. ~Promise!Taken(p.key)
      BY <2>8, HeldIsThere
    <3> QED  BY <2>1, <2>4, <2>6, <2>7, <3>1, <3>2, <3>3
             DEF Promise!Decide, Asked, Decided, Inserting, Settled, Pairs
  <2>9. CASE RowsOf(p.key) # {}
    <3>1. UNCHANGED artifacts
      BY <1>2, <2>9 DEF Insert, Store
    <3>2. Outcome(q)' = IF <<p.key, p.content>> \in Pairs(artifacts)
                          THEN "registered" ELSE "conflict"
      <4>1. <<p.key, p.content>> \in Pairs(artifacts)
              <=> \E a \in RowsOf(p.key) : a.content = p.content
        BY HeldIsThere DEF RowsOf
      <4> QED  BY <2>2, <2>9, <3>1, <4>1 DEF Outcome, RowsOf
    <3>3. Promise!Taken(p.key)
      BY <2>9, HeldIsThere
    <3> QED  BY <2>1, <2>4, <2>6, <2>7, <3>1, <3>2, <3>3
             DEF Promise!Decide, Asked, Decided, Inserting, Settled, Pairs
  <2> QED  BY <2>8, <2>9
<1>3. ASSUME NEW p \in puts, FailPut(p) PROVE Promise!Next
  <2>1. puts' = puts \ {p} /\ UNCHANGED <<artifacts, receipts>>
    BY <1>3 DEF FailPut
  <2>2. CASE p.stage = "inserting"
    <3> DEFINE r == <<p.client, p.key, p.content>>
    <3>1. Inserting' = Inserting \ {p} /\ Settled' = Settled /\ r \in Asked
      BY <2>1, <2>2 DEF Inserting, Settled, Asked
    <3>2. Asked' = Asked \ {r}
      BY <3>1, GoneFromAsked DEF Asked
    <3>3. Decided' = Decided
      BY <2>1, <3>1 DEF Decided, Outcome, RowsOf
    <3>4. Promise!Lose(r)
      BY <2>1, <3>2, <3>3 DEF Promise!Lose, Asked, Decided, Inserting, Settled, Pairs
    <3> QED  BY <3>1, <3>4 DEF Promise!Next, Asked, Inserting
  <2>3. CASE p.stage # "inserting"
    <3>0. PICK d : d = <<p.client, p.key, p.content, Outcome(p)>>
      OBVIOUS
    <3>1. d \in Decided /\ Asked' = Asked /\ Decided' = Decided \ {d}
      BY <2>1, <2>3, <3>0, SettledEnds DEF Decided, Settled
    <3>2. Promise!LoseOutcome(d)
      BY <2>1, <3>1 DEF Promise!LoseOutcome, Asked, Decided, Inserting, Settled, Pairs
    <3>3. \E o \in Decided : Promise!Tell(o) \/ Promise!LoseOutcome(o)
      BY <3>1, <3>2
    <3> QED  BY <3>3 DEF Promise!Next, Decided, Settled
  <2> QED  BY <2>2, <2>3
<1>4. ASSUME NEW p \in puts, ReturnNew(p) \/ Compare(p)
      PROVE  \E o \in Decided : Promise!Tell(o)
  <2>0. PICK d : d = <<p.client, p.key, p.content, Outcome(p)>>
    OBVIOUS
  <2>1. puts' = puts \ {p} /\ UNCHANGED artifacts /\ p.stage # "inserting"
    BY <1>4 DEF ReturnNew, Compare, Return
  <2>2. d \in Decided /\ Asked' = Asked /\ Decided' = Decided \ {d}
    BY <2>0, <2>1, SettledEnds DEF Decided, Settled
  <2>3. Pairs(receipts)' = IF d[4] = "registered" THEN Pairs(receipts) \cup {<<d[2], d[3]>>}
                                                  ELSE Pairs(receipts)
    <3>1. CASE ReturnNew(p)
      <4>1. NewRow(p).key = p.key /\ NewRow(p).content = p.content
        BY DEF NewRow
      <4>2. receipts' = receipts \cup {NewRow(p)} /\ Outcome(p) = "registered"
        BY <3>1 DEF ReturnNew, Return, Outcome
      <4> QED  BY <2>0, <4>1, <4>2 DEF Pairs
    <3>2. CASE Compare(p)
      <4> DEFINE same == {a \in RowsOf(p.key) : a.content = p.content}
      <4>1. receipts' = receipts \cup same /\ p.stage = "comparing"
        BY <3>2 DEF Compare, Return
      <4>2. \A a \in same : a.key = p.key /\ a.content = p.content
        BY DEF RowsOf
      <4>3. Outcome(p) = IF same # {} THEN "registered" ELSE "conflict"
        BY <4>1 DEF Outcome
      <4> HIDE DEF same
      <4> QED  BY <2>0, <4>1, <4>2, <4>3 DEF Pairs
    <3> QED  BY <1>4, <3>1, <3>2
  <2>4. Promise!Tell(d)
    BY <2>1, <2>2, <2>3 DEF Promise!Tell, Asked, Decided, Inserting, Settled, Pairs
  <2> QED  BY <2>2, <2>4
<1>5. ASSUME Crash PROVE Promise!LoseAll
  BY <1>5 DEF Crash, Promise!LoseAll, Pairs
<1>6. ASSUME UNCHANGED <<artifacts, puts, receipts>> PROVE UNCHANGED Promise!promised
  BY <1>6 DEF Promise!promised, Pairs, Outcome, RowsOf
<1>7. CASE \E c \in Clients, k \in Keys, x \in Contents : BeginPut(c, k, x)
  <2>1. PICK c \in Clients, k \in Keys, x \in Contents : BeginPut(c, k, x)
    BY <1>7
  <2>2. Promise!Ask(<<c, k, x>>)
    BY <1>1, <2>1
  <2>3. \E k1 \in Keys, x1 \in Contents : Promise!Ask(<<c, k1, x1>>)
    BY <2>2
  <2> QED  BY <2>3 DEF Promise!Next
<1>8. CASE \E p \in puts : Insert(p)
  <2>1. PICK p \in puts : Insert(p)
    BY <1>8
  <2>2. <<p.client, p.key, p.content>> \in Asked
    BY <2>1 DEF Insert, Asked, Inserting
  <2> QED  BY <1>2, <2>1, <2>2 DEF Promise!Next, Asked, Inserting
<1>9. CASE \E p \in puts : FailPut(p)
  BY <1>3, <1>9
<1>10. CASE \E p \in puts : ReturnNew(p) \/ Compare(p)
  <2>1. \E o \in Decided : Promise!Tell(o)
    BY <1>4, <1>10
  <2> QED  BY <2>1 DEF Promise!Next, Decided, Settled
<1>11. CASE Crash
  BY <1>5, <1>11 DEF Promise!Next
<1>12. CASE Tick \/ UNCHANGED vars
  BY <1>6, <1>12 DEF Tick, vars
<1> QED  BY <1>7, <1>8, <1>9, <1>10, <1>11, <1>12 DEF Next, Serve

(***************************************************************************)
(* put, with its two transactions and whatever runs between them, does     *)
(* what a registration that takes effect at one instant would do.          *)
(***************************************************************************)
THEOREM PutIsAtomic == Spec => PromiseKept
  BY Invariance, InitRefines, StepRefines, PTL DEF Spec, PromiseKept, Promise!Spec

=============================================================================
