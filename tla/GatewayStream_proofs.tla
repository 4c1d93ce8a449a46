------------------------- MODULE GatewayStream_proofs -------------------------
(***************************************************************************)
(* What GatewayService and GatewayStream guarantee for any number of       *)
(* requests, streams, evaluations and routes.                              *)
(***************************************************************************)
EXTENDS GatewayStream, FiniteSetTheorems, TLAPS

(***************************************************************************)
(* The inductive invariant.  The properties speak of evidence, cache and   *)
(* background tasks; what makes them inductive is where calls of each kind *)
(* can be, and that a shadow does not exist before its parent is recorded. *)
(***************************************************************************)

\* The fields of a call the invariant speaks of.
Fields == {"pc", "forced", "lane", "route"}

Shape ==
    /\ DOMAIN call = Calls /\ DOMAIN rows = Calls /\ DOMAIN cache = Namespaces
    /\ \A c \in Calls : Fields \subseteq DOMAIN call[c]

\* Calls that are not a user's are forced and never in the canary cohort.
ForcedApart ==
    \A c \in Calls : ~User(c) =>
       /\ ~call[c].lane.canary
       /\ call[c].pc \in Waiting => call[c].forced # NoRoute
       /\ call[c].pc # "assigning"

\* Which waits a call of each kind can be at.
Places ==
    \A c \in Calls :
       /\ c.kind = "evaluation" => call[c].pc \notin {"record_ok", "record_hit", "record_error"}
       /\ call[c].pc \in {"sending", "hit_start", "hit_delta", "closing"} => c \in StreamCalls
       /\ call[c].pc \in {"hit_start", "hit_delta", "record_hit"} =>
             User(c) /\ ~call[c].lane.canary

ParentFirst ==
    \A c \in Calls :
       User(c) /\ call[c].pc \notin {"done", "closing", "aborted"} => At(ShadowOf(c), "idle")

CachedIsRecorded ==
    \A n \in Namespaces :
       cache[n] # NoEntry => cache[n] \in Calls /\ rows[cache[n]] # <<>>

AssessedAreUsers == \A a \in assessing : AssessedCall(a) \in Calls

Draining ==
    /\ phase # "open" => \A c \in Running : c.kind = "shadow"
    /\ phase = "draining" => Background \subseteq awaited

Inv ==
    /\ Shape /\ ForcedApart /\ Places /\ ParentFirst /\ CachedIsRecorded /\ AssessedAreUsers
    /\ Draining /\ EvidenceIsComplete /\ EvidenceBeforeAssessment /\ CacheLaneIsolation
    /\ ToldAsRecorded /\ NoWorkAfterClose

-----------------------------------------------------------------------------
(* Calls, their shadows and their assessments.                             *)

\* The shadow of a user's call is a call of its own, and of no other.
LEMMA ShadowIsAnother ==
    ASSUME ServiceAssumption, NEW c \in Calls, User(c)
    PROVE  /\ ShadowOf(c) \in Calls /\ ShadowOf(c).kind = "shadow"
           /\ \A d \in Calls : User(d) /\ ShadowOf(d) = ShadowOf(c) => d = c
  BY DEF User, Calls, ShadowOf, ServiceAssumption

\* A call has one of four kinds, and an assessment leads back to its call.
LEMMA KindsOfCalls ==
    ASSUME ServiceAssumption, NEW c \in Calls
    PROVE  /\ c.kind \in {"online", "stream", "shadow", "evaluation"}
           /\ c \in StreamCalls <=> c.kind = "stream"
           /\ User(c) => AssessedCall(AssessmentOf(c)) = c
  BY DEF User, Calls, StreamCalls, AssessedCall, AssessmentOf, ServiceAssumption

\* The first row of a call is its only one.
LEMMA OneRow ==
    ASSUME NEW r
    PROVE  /\ Len(Append(<<>>, r)) = 1 /\ Append(<<>>, r)[1] = r /\ Append(<<>>, r) # <<>>
           /\ DOMAIN Append(<<>>, r) = {1}
  OBVIOUS

\* There is nothing to ask of an empty ledger.
LEMMA NoRows == \A i \in DOMAIN <<>> : FALSE
  OBVIOUS

\* The invariant holds when the service is made.
LEMMA InitInv == ASSUME ServiceAssumption PROVE StreamInit => Inv
  <1> SUFFICES ASSUME StreamInit PROVE Inv
    OBVIOUS
  <1> USE DEF StreamInit, Init
  <1>1. \A c \in Calls : call[c] = NotMade /\ rows[c] = <<>>
    OBVIOUS
  <1>2. Fields \subseteq DOMAIN NotMade /\ NotMade.pc = "idle" /\ ~NotMade.lane.canary
    BY DEF Fields, NotMade, BlankLane, Lane
  <1>3. Running = {}
    BY <1>1, <1>2 DEF Running, Waiting
  <1>4. Shape /\ ForcedApart /\ Places
    BY <1>1, <1>2 DEF Shape, ForcedApart, Places, Waiting
  <1>5. ParentFirst
    BY <1>1, <1>2, ShadowIsAnother DEF ParentFirst, At
  <1>6. CachedIsRecorded /\ CacheLaneIsolation
    BY <1>1 DEF CachedIsRecorded, CacheLaneIsolation
  <1>7. AssessedAreUsers /\ EvidenceBeforeAssessment
    BY DEF AssessedAreUsers, EvidenceBeforeAssessment
  <1>8. Draining /\ NoWorkAfterClose
    BY DEF Draining, NoWorkAfterClose
  <1>9. EvidenceIsComplete
    BY <1>1, <1>2 DEF EvidenceIsComplete
  <1>10. ToldAsRecorded
    BY <1>1, <1>2 DEF ToldAsRecorded, StreamCalls, Calls, At
  <1> QED
    BY <1>4, <1>5, <1>6, <1>7, <1>8, <1>9, <1>10 DEF Inv

-----------------------------------------------------------------------------
(* Steps of a call that leave the evidence alone.                          *)

Enters(c, t) ==
    /\ At(c, "idle") /\ phase = "open" /\ c.kind # "shadow"
    /\ t.pc = "resolving" /\ ~t.lane.canary
    /\ c.kind = "evaluation" => t.forced # NoRoute

Ends(c, t) ==
    /\ call[c].pc \in Waiting
    /\ \/ t = Over("aborted")
       \/ t = Over("rejected") /\ call[c].pc \in {"resolving", "assigning"}
       \/ t \in {Over("done"), Over("failed")} /\ c.kind = "evaluation"
       \/ t = Over("done") /\ At(c, "closing")

GoesOn(c, t) ==
    /\ call[c].pc \in Waiting \ {"closing"}
    /\ t.pc \in Waiting \ {"resolving", "closing"}
    /\ t.forced = call[c].forced
    /\ t.lane = call[c].lane \/ At(c, "assigning")
    /\ t.pc = "assigning" => t.forced = NoRoute
    /\ t.pc \in {"record_ok", "record_error"} => c.kind # "evaluation"
    /\ t.pc \in {"sending", "hit_start", "hit_delta"} => c \in StreamCalls
    /\ t.pc \in {"hit_start", "hit_delta", "record_hit"} => User(c) /\ ~t.lane.canary

Move(c, t) == Fields \subseteq DOMAIN t /\ (Enters(c, t) \/ Ends(c, t) \/ GoesOn(c, t))

Moves(c) == \E t : Move(c, t) /\ call' = [call EXCEPT ![c] = t]

\* What is left of a call that is over.
LEMMA OverIsOver ==
    ASSUME NEW e
    PROVE  /\ Fields \subseteq DOMAIN Over(e)
           /\ Over(e).pc = e /\ ~Over(e).lane.canary
  BY DEF Fields, Over, NotMade, BlankLane, Lane

\* A step that leaves the evidence alone keeps the invariant.
LEMMA MoveKeepsInv ==
    ASSUME ServiceAssumption, Inv, NEW c \in Calls, Moves(c), UNCHANGED Shared
    PROVE  Inv'
  <1>1. PICK t : Move(c, t) /\ call' = [call EXCEPT ![c] = t]
    BY DEF Moves
  <1>2. /\ cache' = cache /\ rows' = rows /\ assessing' = assessing
        /\ phase' = phase /\ awaited' = awaited
    BY DEF Shared
  <1>3. /\ DOMAIN call' = Calls /\ call'[c] = t
        /\ \A d \in Calls : d # c => call'[d] = call[d]
    BY <1>1 DEF Inv, Shape
  <1>4. Shape'
    BY <1>1, <1>2, <1>3 DEF Inv, Shape, Move
  <1>5. /\ call[c].pc \in Waiting \cup {"idle"}
        /\ call[c].pc = "idle" => phase = "open" /\ c.kind # "shadow"
    BY <1>1 DEF Move, Enters, Ends, GoesOn, At, Waiting
  <1>6. rows[c] # <<>> => At(c, "closing")
    BY <1>5 DEF Inv, EvidenceIsComplete, At, Waiting
  <1>7. ForcedApart'
    <2>1. ~User(c) => /\ ~t.lane.canary
                      /\ t.pc \in Waiting => t.forced # NoRoute
                      /\ t.pc # "assigning"
      <3>1. CASE Enters(c, t)
        BY <3>1, KindsOfCalls DEF Enters, User
      <3>2. CASE Ends(c, t)
        BY <3>2, OverIsOver DEF Ends, Waiting
      <3>3. CASE GoesOn(c, t)
        BY <3>3 DEF GoesOn, Inv, ForcedApart, At
      <3> QED
        BY <1>1, <3>1, <3>2, <3>3 DEF Move
    <2> QED
      BY <1>3, <2>1 DEF ForcedApart, Inv
  <1>8. Places'
    <2>1. /\ c.kind = "evaluation" => t.pc \notin {"record_ok", "record_hit", "record_error"}
          /\ t.pc \in {"sending", "hit_start", "hit_delta", "closing"} => c \in StreamCalls
          /\ t.pc \in {"hit_start", "hit_delta", "record_hit"} => User(c) /\ ~t.lane.canary
      <3>1. CASE Enters(c, t)
        BY <3>1 DEF Enters
      <3>2. CASE Ends(c, t)
        BY <3>2, OverIsOver DEF Ends
      <3>3. CASE GoesOn(c, t)
        BY <3>3 DEF GoesOn, User
      <3> QED
        BY <1>1, <3>1, <3>2, <3>3 DEF Move
    <2> QED
      BY <1>3, <2>1 DEF Places, Inv
  <1>9. ParentFirst'
    <2> SUFFICES ASSUME NEW d \in Calls, User(d), call'[d].pc \notin {"done", "closing", "aborted"}
                 PROVE  call'[ShadowOf(d)].pc = "idle"
      BY DEF ParentFirst, At
    <2>1. call[d].pc \notin {"done", "closing", "aborted"}
      <3>1. CASE d # c
        BY <3>1, <1>3
      <3>2. CASE d = c /\ At(c, "closing")
        <4>1. t = Over("aborted") \/ t = Over("done") \/ c.kind = "evaluation"
          BY <1>1, <3>2 DEF Move, Enters, Ends, GoesOn, At
        <4> QED
          BY <4>1, <3>2, <1>3, OverIsOver DEF User
      <3>3. CASE d = c /\ ~At(c, "closing")
        BY <3>3, <1>5 DEF At, Waiting
      <3> QED
        BY <3>1, <3>2, <3>3
    <2>2. At(ShadowOf(d), "idle")
      BY <2>1 DEF Inv, ParentFirst
    <2>3. ShadowOf(d) # c
      BY <2>2, <1>5, ShadowIsAnother DEF At
    <2> QED
      BY <2>2, <2>3, <1>3, ShadowIsAnother DEF At
  <1>10. CachedIsRecorded' /\ CacheLaneIsolation'
    BY <1>2 DEF Inv, CachedIsRecorded, CacheLaneIsolation
  <1>11. AssessedAreUsers' /\ EvidenceBeforeAssessment'
    BY <1>2 DEF Inv, AssessedAreUsers, EvidenceBeforeAssessment
  <1>12. Running' \subseteq Running \cup {c} /\ (phase # "open" => c \in Running)
    BY <1>3, <1>5 DEF Running, Waiting
  <1>13. Draining'
    BY <1>2, <1>12 DEF Inv, Draining, Background
  <1>14. NoWorkAfterClose'
    BY <1>2, <1>12 DEF Inv, NoWorkAfterClose
  <1>15. EvidenceIsComplete'
    <2>1. IF c.kind # "evaluation" /\ t.pc \in {"done", "failed", "closing"}
            THEN Len(rows[c]) = 1
            ELSE rows[c] = <<>> \/ (c \in StreamCalls /\ t.pc = "aborted")
      <3>1. CASE Enters(c, t)
        BY <3>1, <1>6 DEF Enters, At
      <3>2. CASE Ends(c, t)
        BY <3>2, <1>6, OverIsOver DEF Ends, Inv, EvidenceIsComplete, Places, At
      <3>3. CASE GoesOn(c, t)
        BY <3>3, <1>6 DEF GoesOn, Waiting, At
      <3> QED
        BY <1>1, <3>1, <3>2, <3>3 DEF Move
    <2> QED
      BY <1>2, <1>3, <2>1 DEF EvidenceIsComplete, Inv, At
  <1>16. ToldAsRecorded'
    <2>1. ASSUME c \in StreamCalls
          PROVE  /\ t.pc # "closing"
                 /\ t.pc = "done" => rows[c] # <<>> /\ rows[c][1].success
                 /\ t.pc \in {"failed", "rejected"} => rows[c] = <<>>
      <3>1. CASE Enters(c, t)
        BY <3>1 DEF Enters
      <3>2. CASE Ends(c, t)
        BY <2>1, <3>2, <1>6, OverIsOver, KindsOfCalls DEF Ends, Inv, ToldAsRecorded, At
      <3>3. CASE GoesOn(c, t)
        BY <3>3 DEF GoesOn, Waiting
      <3> QED
        BY <1>1, <3>1, <3>2, <3>3 DEF Move
    <2> QED
      BY <1>2, <1>3, <2>1, NoRows, KindsOfCalls DEF ToldAsRecorded, Inv, At, StreamCalls, Calls
  <1> QED
    BY <1>4, <1>7, <1>8, <1>9, <1>10, <1>11, <1>13, <1>14, <1>15, <1>16 DEF Inv

-----------------------------------------------------------------------------
(* Steps that write the evidence of a call.                                *)

\* The row r tells what the call c is and how it ends in t.
Tells(c, t, r) ==
    /\ r.kind = c.kind /\ r.canary = call[c].lane.canary /\ r.namespace = Namespace(call[c])
    /\ r.route = call[c].route
    /\ r.hit => User(c) /\ ~call[c].lane.canary
    /\ t.pc \in {"done", "closing"} => r.success
    /\ t.pc = "failed" => ~r.success
    /\ t.pc = "closing" => t.route = call[c].route

Recorded(c, t, r) ==
    /\ call[c].pc \in {"record_ok", "record_hit", "record_error"}
    /\ Fields \subseteq DOMAIN t /\ (~User(c) => ~t.lane.canary)
    /\ \/ t.pc \in {"done", "failed"}
       \/ t.pc \in {"closing", "aborted"} /\ c \in StreamCalls
    /\ Tells(c, t, r)
    /\ rows' = [rows EXCEPT ![c] = Append(@, r)]

\* What c launches: a forced call outside the canary cohort, after a success.
Spawns(c, t, u) ==
    /\ User(c) /\ t.pc \in {"done", "closing"}
    /\ Fields \subseteq DOMAIN u
    /\ u.pc = "resolving" /\ ~u.lane.canary /\ u.forced # NoRoute

CallsAfter(c, t) ==
    /\ DOMAIN call' = Calls /\ call'[c] = t
    /\ \A d \in Calls \ {c} :
          call'[d] = call[d] \/ (d = ShadowOf(c) /\ Spawns(c, t, call'[d]))

AssessedAfter(c) ==
    \/ assessing' = assessing
    \/ User(c) /\ call[c].lane.canary /\ assessing' = assessing \cup {AssessmentOf(c)}

\* The cache has an entry of c at most in the namespace of its row.
CachedAfter(c, r) ==
    \/ cache' = cache
    \/ /\ User(c) /\ r.success /\ ~r.hit /\ ~r.canary
       /\ cache' = [cache EXCEPT ![r.namespace] = c]

\* A step that writes the evidence of a call keeps the invariant.
LEMMA RecordKeepsInv ==
    ASSUME ServiceAssumption, Inv, NEW c \in Calls, NEW t, NEW r,
           Recorded(c, t, r), CallsAfter(c, t), AssessedAfter(c), CachedAfter(c, r),
           UNCHANGED <<phase, awaited>>
    PROVE  Inv'
  <1>1. /\ DOMAIN call' = Calls /\ call'[c] = t
        /\ \A d \in Calls : d # c => \/ call'[d] = call[d]
                                     \/ d = ShadowOf(c) /\ Spawns(c, t, call'[d])
    BY DEF CallsAfter
  <1>2. call[c].pc \in Waiting \ {"closing"} /\ c.kind # "evaluation" /\ rows[c] = <<>>
    BY DEF Recorded, Inv, EvidenceIsComplete, Places, At, Waiting
  <1>3. /\ DOMAIN rows' = Calls
        /\ Len(rows'[c]) = 1 /\ rows'[c][1] = r /\ rows'[c] # <<>> /\ DOMAIN rows'[c] = {1}
        /\ \A d \in Calls : d # c => rows'[d] = rows[d]
    BY <1>2, OneRow DEF Recorded, Inv, Shape
  <1>4. phase' = phase /\ awaited' = awaited
    OBVIOUS
  \* A spawned shadow was idle, and so had no row.
  <1>5. ASSUME NEW d \in Calls, d # c, Spawns(c, t, call'[d]), d = ShadowOf(c)
        PROVE  /\ d.kind = "shadow" /\ ~User(d) /\ d \notin StreamCalls
               /\ At(d, "idle") /\ rows[d] = <<>> /\ User(c) /\ c \in Running
    <2>1. d.kind = "shadow" /\ User(c)
      BY <1>5, ShadowIsAnother DEF Spawns
    <2>2. ~User(d) /\ d \notin StreamCalls
      BY <2>1, KindsOfCalls DEF User
    <2>3. call[c].pc \notin {"done", "closing", "aborted"} /\ c \in Running
      BY <1>2 DEF Waiting, Running
    <2>4. At(d, "idle")
      BY <2>1, <2>3, <1>5 DEF Inv, ParentFirst
    <2>5. rows[d] = <<>>
      BY <2>2, <2>4 DEF Inv, EvidenceIsComplete, At
    <2> QED
      BY <2>1, <2>2, <2>3, <2>4, <2>5
  <1>6. Shape'
    <2>1. Fields \subseteq DOMAIN t /\ DOMAIN cache' = Namespaces
      BY DEF Inv, Shape, CachedAfter, Recorded
    <2>2. \A d \in Calls : Fields \subseteq DOMAIN call'[d]
      BY <1>1, <2>1 DEF Inv, Shape, Spawns
    <2> QED
      BY <1>1, <1>3, <2>1, <2>2 DEF Shape
  <1>7. t.pc \in {"done", "failed", "closing", "aborted"}
    BY DEF Recorded
  <1>8. ForcedApart'
    <2> SUFFICES ASSUME NEW d \in Calls, ~User(d)
                 PROVE  /\ ~call'[d].lane.canary
                        /\ call'[d].pc \in Waiting => call'[d].forced # NoRoute
                        /\ call'[d].pc # "assigning"
      BY DEF ForcedApart
    <2>1. CASE d = c
      <3>1. t.pc = "closing" => User(c)
        BY KindsOfCalls DEF Recorded, User
      <3> QED
        BY <2>1, <3>1, <1>1, <1>7 DEF Recorded, Waiting
    <2>2. CASE d # c /\ call'[d] = call[d]
      BY <2>2 DEF Inv, ForcedApart
    <2>3. CASE d # c /\ Spawns(c, t, call'[d])
      BY <2>3 DEF Spawns
    <2> QED
      BY <2>1, <2>2, <2>3, <1>1
  <1>9. Places'
    <2> SUFFICES ASSUME NEW d \in Calls
                 PROVE  LET p == call'[d].pc IN
                        /\ d.kind = "evaluation" =>
                              p \notin {"record_ok", "record_hit", "record_error"}
                        /\ p \in {"sending", "hit_start", "hit_delta", "closing"} =>
                              d \in StreamCalls
                        /\ p \in {"hit_start", "hit_delta", "record_hit"} =>
                              User(d) /\ ~call'[d].lane.canary
      BY DEF Places
    <2>1. CASE d = c
      BY <2>1, <1>1, <1>7 DEF Recorded
    <2>2. CASE d # c /\ call'[d] = call[d]
      BY <2>2 DEF Inv, Places
    <2>3. CASE d # c /\ Spawns(c, t, call'[d])
      BY <2>3 DEF Spawns
    <2> QED
      BY <2>1, <2>2, <2>3, <1>1
  <1>10. ParentFirst'
    <2> SUFFICES ASSUME NEW d \in Calls, User(d), call'[d].pc \notin {"done", "closing", "aborted"}
                 PROVE  call'[ShadowOf(d)].pc = "idle"
      BY DEF ParentFirst, At
    <2>1. ShadowOf(d) \in Calls /\ ShadowOf(d).kind = "shadow" /\ ShadowOf(d) # d
      BY ShadowIsAnother DEF User
    <2>2. CASE d = c
      <3>1. t.pc \notin {"done", "closing"}
        BY <2>2, <1>1
      <3>2. call'[ShadowOf(c)] = call[ShadowOf(c)]
        BY <3>1, <2>1, <2>2, <1>1 DEF Spawns
      <3>3. At(ShadowOf(c), "idle")
        BY <2>2, <1>2 DEF Inv, ParentFirst, Waiting
      <3> QED
        BY <2>2, <3>2, <3>3 DEF At
    <2>3. CASE d # c
      <3>1. call'[d] = call[d]
        BY <2>3, <1>1, <1>5
      <3>2. At(ShadowOf(d), "idle")
        BY <3>1 DEF Inv, ParentFirst
      <3>3. ShadowOf(d) # c
        BY <3>2, <1>2 DEF At, Waiting
      <3>4. ~Spawns(c, t, call'[ShadowOf(d)]) \/ ShadowOf(d) # ShadowOf(c)
        BY <2>3, ShadowIsAnother DEF Spawns
      <3> QED
        BY <3>2, <3>3, <3>4, <2>1, <1>1 DEF At
    <2> QED
      BY <2>2, <2>3
  <1>11. CachedIsRecorded' /\ CacheLaneIsolation'
    <2>1. ASSUME NEW n \in Namespaces, cache'[n] # NoEntry
          PROVE  /\ cache'[n] \in Calls /\ rows'[cache'[n]] # <<>>
                 /\ LET w == rows'[cache'[n]][1] IN
                      /\ w.kind \in {"online", "stream"} /\ w.success /\ ~w.hit /\ ~w.canary
                      /\ w.namespace = n
      <3>1. CASE cache'[n] = cache[n]
        <4>1. cache[n] \in Calls /\ rows[cache[n]] # <<>> /\ cache[n] # c
          BY <2>1, <3>1, <1>2 DEF Inv, CachedIsRecorded
        <4>2. rows'[cache[n]] = rows[cache[n]]
          BY <4>1, <1>3
        <4> QED
          BY <2>1, <3>1, <4>1, <4>2 DEF Inv, CacheLaneIsolation
      <3>2. CASE cache'[n] # cache[n]
        <4>1. User(c) /\ r.success /\ ~r.hit /\ ~r.canary /\ n = r.namespace /\ cache'[n] = c
          BY <3>2 DEF CachedAfter, Inv, Shape
        <4>2. r.kind \in {"online", "stream"}
          BY <4>1 DEF Recorded, Tells, User
        <4> QED
          BY <4>1, <4>2, <1>3
      <3> QED
        BY <3>1, <3>2
    <2>2. ASSUME NEW d \in Calls, rows'[d] # <<>>, rows'[d][1].hit
          PROVE  rows'[d][1].kind \in {"online", "stream"} /\ ~rows'[d][1].canary
      <3>1. CASE d = c
        BY <2>2, <3>1, <1>3 DEF Recorded, Tells, User
      <3>2. CASE d # c
        BY <2>2, <3>2, <1>3 DEF Inv, CacheLaneIsolation
      <3> QED
        BY <3>1, <3>2
    <2>3. CachedIsRecorded'
      BY <2>1 DEF CachedIsRecorded
    <2>4. CacheLaneIsolation'
      BY <2>1, <2>2 DEF CacheLaneIsolation
    <2> QED
      BY <2>3, <2>4
  <1>12. AssessedAreUsers' /\ EvidenceBeforeAssessment'
    <2> SUFFICES ASSUME NEW a \in assessing'
                 PROVE  /\ AssessedCall(a) \in Calls
                        /\ rows'[AssessedCall(a)] # <<>> /\ rows'[AssessedCall(a)][1].canary
      BY DEF AssessedAreUsers, EvidenceBeforeAssessment
    <2>1. CASE a \in assessing
      <3>1. /\ AssessedCall(a) \in Calls /\ AssessedCall(a) # c
            /\ rows[AssessedCall(a)] # <<>> /\ rows[AssessedCall(a)][1].canary
        BY <2>1, <1>2 DEF Inv, AssessedAreUsers, EvidenceBeforeAssessment
      <3> QED
        BY <3>1, <1>3
    <2>2. CASE a \notin assessing
      <3>1. User(c) /\ call[c].lane.canary /\ a = AssessmentOf(c)
        BY <2>2 DEF AssessedAfter
      <3>2. AssessedCall(a) = c /\ r.canary
        BY <3>1, KindsOfCalls DEF Recorded, Tells
      <3> QED
        BY <3>2, <1>3
    <2> QED
      BY <2>1, <2>2
  <1>13. phase # "open" => ~User(c) /\ phase # "closed"
    BY <1>2 DEF Inv, Draining, NoWorkAfterClose, Running, User
  <1>14. ~User(c) => Running' \subseteq Running /\ assessing' = assessing
    <2>1. c \in Running
      BY <1>2 DEF Running
    <2>2. ~User(c) => \A d \in Calls : d # c => call'[d] = call[d]
      BY <1>1 DEF Spawns
    <2> QED
      BY <2>1, <2>2 DEF AssessedAfter, Running
  <1>15. Draining' /\ NoWorkAfterClose'
    BY <1>4, <1>13, <1>14 DEF Inv, Draining, NoWorkAfterClose, Background
  <1>16. EvidenceIsComplete'
    <2> SUFFICES ASSUME NEW d \in Calls
                 PROVE  IF d.kind # "evaluation" /\ call'[d].pc \in {"done", "failed", "closing"}
                          THEN Len(rows'[d]) = 1
                          ELSE rows'[d] = <<>> \/ (d \in StreamCalls /\ call'[d].pc = "aborted")
      BY DEF EvidenceIsComplete, At
    <2>1. CASE d = c
      BY <2>1, <1>1, <1>2, <1>3 DEF Recorded
    <2>2. CASE d # c /\ call'[d] = call[d]
      BY <2>2, <1>3 DEF Inv, EvidenceIsComplete, At
    <2>3. CASE d # c /\ d = ShadowOf(c) /\ Spawns(c, t, call'[d])
      <3>1. rows'[d] = <<>>
        BY <2>3, <1>3, <1>5
      <3> QED
        BY <2>3, <3>1 DEF Spawns
    <2> QED
      BY <2>1, <2>2, <2>3, <1>1
  <1>17. ToldAsRecorded'
    <2> SUFFICES ASSUME NEW d \in StreamCalls
                 PROVE  /\ call'[d].pc = "closing" =>
                              rows'[d] # <<>> /\ rows'[d][1].route = call'[d].route
                        /\ call'[d].pc \in {"closing", "done"} =>
                              rows'[d] # <<>> /\ rows'[d][1].success
                        /\ call'[d].pc \in {"failed", "rejected"} =>
                              \A i \in DOMAIN rows'[d] : ~rows'[d][i].success
      BY DEF ToldAsRecorded, At
    <2>1. d \in Calls
      BY DEF StreamCalls, Calls
    <2>2. CASE d = c
      BY <2>2, <1>1, <1>3, <1>7 DEF Recorded, Tells
    <2>3. CASE d # c
      <3>1. call'[d] = call[d] /\ rows'[d] = rows[d]
        BY <2>1, <2>3, <1>1, <1>3, <1>5
      <3> QED
        BY <3>1 DEF Inv, ToldAsRecorded, At
    <2> QED
      BY <2>2, <2>3
  <1> QED
    BY <1>6, <1>8, <1>9, <1>10, <1>11, <1>12, <1>15, <1>16, <1>17 DEF Inv

-----------------------------------------------------------------------------
(* The steps of a call are moves, or write evidence.                       *)

\* From where the call stands, with the fields the loop does not touch.
Stands(c, s) ==
    /\ Fields \subseteq DOMAIN s /\ s.forced = call[c].forced
    /\ s.lane = call[c].lane \/ At(c, "assigning")

\* A call that no local change was made to.
LEMMA CallStands ==
    ASSUME Inv, NEW c \in Calls
    PROVE  Fields \subseteq DOMAIN call[c] /\ Stands(c, call[c])
  BY DEF Inv, Shape, Stands

\* The witness of Moves.
LEMMA MovesBy ==
    ASSUME NEW c \in Calls, NEW t, Move(c, t), call' = [call EXCEPT ![c] = t]
    PROVE  Moves(c)
  BY DEF Moves

\* The attempt loop, entered or gone on with, is a move.
LEMMA ProceedMoves ==
    ASSUME NEW c \in Calls, NEW s, NEW left, NEW circs, NEW cut,
           Stands(c, s), call[c].pc \in Waiting \ {"closing"},
           Proceed(c, s, left, circs, cut)
    PROVE  Moves(c)
  <1>1. CASE call' = [call EXCEPT ![c] = Settle(c, GiveUp(s, left, cut))]
    <2>1. /\ Fields \subseteq DOMAIN GiveUp(s, left, cut)
          /\ GiveUp(s, left, cut).pc = "record_error"
          /\ GiveUp(s, left, cut).forced = s.forced /\ GiveUp(s, left, cut).lane = s.lane
      BY DEF GiveUp, Stands, Fields
    <2>2. CASE c.kind = "evaluation"
      <3>1. Move(c, Over("failed"))
        BY <2>2, OverIsOver DEF Move, Ends
      <3> QED
        BY <1>1, <2>2, <3>1, MovesBy DEF Settle
    <2>3. CASE c.kind # "evaluation"
      <3>1. Move(c, GiveUp(s, left, cut))
        BY <2>1, <2>3 DEF Move, GoesOn, Stands, Waiting
      <3> QED
        BY <1>1, <2>3, <3>1, MovesBy DEF Settle
    <2> QED
      BY <2>2, <2>3
  <1>2. ASSUME NEW i, call' = [call EXCEPT ![c] = Attempt(s, left, i)]
        PROVE  Moves(c)
    <2>1. /\ Fields \subseteq DOMAIN Attempt(s, left, i)
          /\ Attempt(s, left, i).pc = "calling"
          /\ Attempt(s, left, i).forced = s.forced /\ Attempt(s, left, i).lane = s.lane
      BY DEF Attempt, Stands, Fields
    <2>2. Move(c, Attempt(s, left, i))
      BY <2>1 DEF Move, GoesOn, Stands, Waiting
    <2> QED
      BY <1>2, <2>2, MovesBy
  <1> QED
    BY <1>1, <1>2 DEF Proceed

\* And so is the fallback after a failed attempt.
LEMMA FallbackMoves ==
    ASSUME Inv, NEW c \in Calls, NEW circs, NEW cuts,
           call[c].pc \in Waiting \ {"closing"}, Fallback(c, circs, cuts)
    PROVE  Moves(c)
  <1> DEFINE s == [call[c] EXCEPT !.fallbacks = @ + 1, !.failed = TRUE]
  <1>1. Stands(c, s)
    BY CallStands DEF Stands, Fields
  <1>2. PICK cut \in cuts : Proceed(c, s, call[c].left, circs, cut)
    BY DEF Fallback
  <1> QED
    BY <1>1, <1>2, ProceedMoves

\* A cache hit and the router's decision are moves.
LEMMA LookupMoves ==
    ASSUME ServiceAssumption, Inv, NEW c \in Calls, NEW s,
           Stands(c, s), call[c].pc \in {"resolving", "assigning"}, Lookup(c, s)
    PROVE  Moves(c)
  <1>1. call[c].pc \in Waiting \ {"closing"}
    BY DEF Waiting
  <1>2. CASE Decide(c, s)
    <2>1. CASE call' = [call EXCEPT ![c] = Over("rejected")]
      <3>1. Move(c, Over("rejected"))
        BY <1>1, OverIsOver DEF Move, Ends
      <3> QED
        BY <2>1, <3>1, MovesBy
    <2>2. ASSUME NEW order, NEW circs, NEW cut,
                 Proceed(c, [s EXCEPT !.candidates = Len(order)], order, circs, cut)
          PROVE  Moves(c)
      <3>1. Stands(c, [s EXCEPT !.candidates = Len(order)])
        BY DEF Stands, Fields
      <3> QED
        BY <1>1, <2>2, <3>1, ProceedMoves
    <2> QED
      BY <1>2, <2>1, <2>2 DEF Decide
  <1>3. CASE ~Decide(c, s)
    <2> DEFINE t == [s EXCEPT !.pc = IF c.kind = "stream" THEN "hit_start" ELSE "record_hit",
                              !.route = rows[cache[Namespace(s)]][1].route]
    <2>1. CacheAllowed(c, s.lane) /\ call' = [call EXCEPT ![c] = t]
      BY <1>3 DEF Lookup
    <2>2. /\ Fields \subseteq DOMAIN t /\ t.forced = s.forced /\ t.lane = s.lane
          /\ t.pc = IF c.kind = "stream" THEN "hit_start" ELSE "record_hit"
      BY DEF Stands, Fields
    <2>3. Move(c, t)
      <3> HIDE DEF t
      <3>1. User(c) /\ ~t.lane.canary
        BY <2>1, <2>2 DEF CacheAllowed
      <3>2. t.pc = "hit_start" => c \in StreamCalls
        BY <2>2, KindsOfCalls
      <3> QED
        BY <1>1, <2>2, <3>1, <3>2 DEF Move, GoesOn, Stands, Waiting
    <2> QED
      BY <2>1, <2>3, MovesBy
  <1> QED
    BY <1>2, <1>3

\* A new call is a move.
LEMMA StartMoves ==
    ASSUME NEW c \in Calls, NEW s, Start(c, s), c.kind # "shadow",
           Fields \subseteq DOMAIN s, ~s.lane.canary, c.kind = "evaluation" => s.forced # NoRoute
    PROVE  Moves(c) /\ UNCHANGED Shared
  <1> DEFINE t == [s EXCEPT !.pc = "resolving"]
  <1>1. /\ Fields \subseteq DOMAIN t /\ t.pc = "resolving"
        /\ t.forced = s.forced /\ t.lane = s.lane
    BY DEF Fields
  <1>2. Move(c, t)
    BY <1>1 DEF Move, Enters, Start
  <1> QED
    BY <1>2, MovesBy DEF Start

\* What a call may start with.
LEMMA Starters ==
    ASSUME NEW uses, NEW mode, NEW r
    PROVE  /\ Fields \subseteq DOMAIN [NotMade EXCEPT !.usesPrompt = uses, !.mode = mode]
           /\ ~[NotMade EXCEPT !.usesPrompt = uses, !.mode = mode].lane.canary
           /\ Fields \subseteq DOMAIN [NotMade EXCEPT !.mode = mode, !.forced = r]
           /\ ~[NotMade EXCEPT !.mode = mode, !.forced = r].lane.canary
           /\ Fields \subseteq DOMAIN [NotMade EXCEPT !.forced = r]
           /\ ~[NotMade EXCEPT !.forced = r].lane.canary
           /\ [NotMade EXCEPT !.forced = r].forced = r
  BY DEF Fields, NotMade, BlankLane, Lane

\* The steps of any call that write no evidence.
LEMMA QuietSteps ==
    ASSUME ServiceAssumption, Inv, NEW c \in Calls,
           \/ Request(c) \/ ForcedRequest(c) \/ Evaluate(c)
           \/ Resolve(c) \/ Reject(c) \/ Assign(c)
           \/ Answer(c) \/ ViolateSchema(c) \/ FailAttempt(c) \/ Abort(c)
    PROVE  Moves(c) /\ UNCHANGED Shared
  <1>1. CASE Request(c)
    BY <1>1, StartMoves, Starters DEF Request
  <1>2. CASE ForcedRequest(c)
    BY <1>2, StartMoves, Starters DEF ForcedRequest
  <1>3. CASE Evaluate(c)
    BY <1>3, StartMoves, Starters DEF Evaluate, ServiceAssumption
  <1>4. CASE Resolve(c)
    <2> DEFINE s == [call[c] EXCEPT !.prompts = Prompted(c, call[c])]
               t == [s EXCEPT !.pc = "assigning"]
    <2>1. Stands(c, s)
      BY CallStands DEF Stands, Fields
    <2>2. CASE s.forced = NoRoute
      <3>1. /\ Fields \subseteq DOMAIN t /\ t.pc = "assigning"
            /\ t.forced = s.forced /\ t.lane = s.lane
        BY <2>1 DEF Stands, Fields
      <3>2. Move(c, t)
        <4> HIDE DEF t, s
        <4> QED
          BY <1>4, <2>1, <2>2, <3>1 DEF Move, GoesOn, Stands, Resolve, Waiting, At
      <3> QED
        BY <1>4, <2>2, <3>2, MovesBy DEF Resolve
    <2>3. CASE s.forced # NoRoute
      <3>1. Lookup(c, s) /\ call[c].pc \in {"resolving", "assigning"}
        BY <1>4, <2>3 DEF Resolve, At
      <3> QED
        BY <1>4, <2>1, <3>1, LookupMoves DEF Resolve
    <2> QED
      BY <2>2, <2>3
  <1>5. CASE Reject(c)
    <2>1. Move(c, Over("rejected"))
      BY <1>5, OverIsOver DEF Move, Ends, Reject, At, Waiting
    <2> QED
      BY <1>5, <2>1, MovesBy DEF Reject, End
  <1>6. CASE Assign(c)
    <2>1. PICK l : Lookup(c, [call[c] EXCEPT !.lane = l])
      BY <1>6 DEF Assign
    <2>2. Stands(c, [call[c] EXCEPT !.lane = l])
      BY <1>6, CallStands DEF Stands, Fields, Assign
    <2>3. call[c].pc \in {"resolving", "assigning"}
      BY <1>6 DEF Assign, At
    <2> QED
      BY <1>6, <2>1, <2>2, <2>3, LookupMoves DEF Assign
  <1>7. CASE Answer(c)
    <2>1. CASE c.kind = "evaluation"
      <3>1. Move(c, Over("done"))
        BY <1>7, <2>1, OverIsOver DEF Move, Ends, Answer, Completing, At, Waiting
      <3> QED
        BY <1>7, <2>1, <3>1, MovesBy DEF Answer, End
    <2>2. CASE c.kind # "evaluation"
      <3> DEFINE t == [call[c] EXCEPT !.pc = "record_ok"]
      <3>1. /\ Fields \subseteq DOMAIN t /\ t.pc = "record_ok"
            /\ t.forced = call[c].forced /\ t.lane = call[c].lane
        BY CallStands DEF Fields
      <3>2. Move(c, t)
        <4> HIDE DEF t
        <4> QED
          BY <1>7, <2>2, <3>1 DEF Move, GoesOn, Answer, Completing, At, Waiting
      <3> QED
        BY <1>7, <2>2, <3>2, MovesBy DEF Answer
    <2> QED
      BY <2>1, <2>2
  <1>8. CASE ViolateSchema(c)
    <2>1. call[c].pc \in Waiting \ {"closing"}
      BY <1>8 DEF ViolateSchema, Completing, At, Waiting
    <2> QED
      BY <1>8, <2>1, FallbackMoves DEF ViolateSchema
  <1>9. CASE FailAttempt(c)
    <2>1. call[c].pc \in Waiting \ {"closing"}
      BY <1>9 DEF FailAttempt, Completing, At, Waiting
    <2> QED
      BY <1>9, <2>1, FallbackMoves DEF FailAttempt
  <1>10. CASE Abort(c)
    <2>1. Move(c, Over("aborted"))
      BY <1>10, OverIsOver DEF Move, Ends, Abort
    <2> QED
      BY <1>10, <2>1, MovesBy DEF Abort, End
  <1> QED
    BY <1>1, <1>2, <1>3, <1>4, <1>5, <1>6, <1>7, <1>8, <1>9, <1>10

\* The steps of a stream that write no evidence.
LEMMA QuietStreamSteps ==
    ASSUME ServiceAssumption, Inv, NEW c \in StreamCalls,
           \/ OpenStream(c) \/ OpenForcedStream(c) \/ ReadEvent(c) \/ Take(c) \/ Finish(c)
           \/ StreamViolatesSchema(c) \/ ProviderFails(c) \/ StreamTimesOut(c) \/ TakeHit(c)
           \/ TakeDone(c)
    PROVE  c \in Calls /\ Moves(c) /\ UNCHANGED Shared
  <1>1. c \in Calls /\ c.kind = "stream" /\ User(c)
    BY DEF StreamCalls, Calls, User
  <1>2. Fields \subseteq DOMAIN call[c]
    BY <1>1, CallStands
  \* A step that only moves the pc of an attempt or of a cached answer.
  <1>3. ASSUME NEW pc, call' = [call EXCEPT ![c].pc = pc],
               call[c].pc \in Waiting \ {"closing"}, pc \in {"calling", "sending", "record_ok"}
        PROVE  Moves(c)
    <2> DEFINE t == [call[c] EXCEPT !.pc = pc]
    <2>1. /\ Fields \subseteq DOMAIN t /\ t.pc = pc
          /\ t.forced = call[c].forced /\ t.lane = call[c].lane
      BY <1>2 DEF Fields
    <2>2. Move(c, t)
      <3> HIDE DEF t
      <3> QED
        BY <1>1, <1>3, <2>1 DEF Move, GoesOn, Waiting
    <2> QED
      BY <1>1, <1>3, <2>2, MovesBy
  <1>4. ASSUME NEW circs, NEW cuts, Reading(c), NextOrInterrupt(c, circs, cuts)
        PROVE  Moves(c)
    <2>1. call[c].pc \in Waiting \ {"closing"}
      BY <1>4 DEF Reading, At, Waiting
    <2>2. CASE Interrupt(c)
      <3> DEFINE t == [call[c] EXCEPT !.pc = "record_error", !.failed = TRUE, !.left = <<>>]
      <3>1. /\ Fields \subseteq DOMAIN t /\ t.pc = "record_error"
            /\ t.forced = call[c].forced /\ t.lane = call[c].lane
        BY <1>2 DEF Fields
      <3>2. call' = [call EXCEPT ![c] = t]
        BY <2>2 DEF Interrupt
      <3>3. Move(c, t)
        <4> HIDE DEF t
        <4> QED
          BY <1>1, <2>1, <3>1 DEF Move, GoesOn, Waiting
      <3> QED
        BY <1>1, <3>2, <3>3, MovesBy
    <2>3. CASE Fallback(c, circs, cuts)
      BY <1>1, <2>1, <2>3, FallbackMoves
    <2> QED
      BY <1>4, <2>2, <2>3 DEF NextOrInterrupt
  <1>5. CASE OpenStream(c) \/ OpenForcedStream(c)
    BY <1>1, <1>5, StartMoves, Starters DEF OpenStream, OpenForcedStream
  <1>6. CASE ReadEvent(c) \/ Finish(c)
    <2>1. call[c].pc \in Waiting \ {"closing"}
      BY <1>6 DEF ReadEvent, Finish, Reading, At, Waiting
    <2>2. /\ UNCHANGED Shared
          /\ \/ call' = [call EXCEPT ![c].pc = "sending"]
             \/ call' = [call EXCEPT ![c].pc = "record_ok"]
      BY <1>6 DEF ReadEvent, Finish, Yield
    <2> QED
      BY <1>1, <1>3, <2>1, <2>2
  <1>7. CASE Take(c)
    <2>1. call[c].pc \in Waiting \ {"closing"}
      BY <1>7 DEF Take, At, Waiting
    <2> QED
      BY <1>1, <1>3, <1>7, <2>1 DEF Take
  <1>8. CASE StreamViolatesSchema(c)
    BY <1>1, <1>4, <1>8 DEF StreamViolatesSchema
  <1>9. CASE ProviderFails(c)
    <2>1. PICK cuts : FailStream(c, cuts)
      BY <1>9 DEF ProviderFails
    <2> QED
      BY <1>1, <1>4, <2>1 DEF FailStream
  <1>10. CASE StreamTimesOut(c)
    BY <1>1, <1>4, <1>10 DEF StreamTimesOut, FailStream
  <1>11. CASE TakeHit(c)
    <2>1. PICK pc \in {"hit_delta", "record_hit"} :
             call[c].pc \in {"hit_start", "hit_delta"} /\ call' = [call EXCEPT ![c].pc = pc]
      BY <1>11 DEF TakeHit, At
    <2> DEFINE t == [call[c] EXCEPT !.pc = pc]
    <2>2. /\ Fields \subseteq DOMAIN t /\ t.pc = pc
          /\ t.forced = call[c].forced /\ t.lane = call[c].lane
      BY <1>2 DEF Fields
    <2>3. ~call[c].lane.canary
      BY <1>1, <2>1 DEF Inv, Places
    <2>4. Move(c, t)
      <3> HIDE DEF t
      <3> QED
        BY <1>1, <2>1, <2>2, <2>3 DEF Move, GoesOn, Waiting
    <2>5. call' = [call EXCEPT ![c] = t]
      BY <2>1
    <2> QED
      BY <1>1, <1>11, <2>4, <2>5, MovesBy DEF TakeHit
  <1>12. CASE TakeDone(c)
    <2>1. Move(c, Over("done"))
      BY <1>12, OverIsOver DEF Move, Ends, TakeDone, At, Waiting
    <2> QED
      BY <1>1, <1>12, <2>1, MovesBy DEF TakeDone, End
  <1> QED
    BY <1>5, <1>6, <1>7, <1>8, <1>9, <1>10, <1>11, <1>12

-----------------------------------------------------------------------------
(* The steps that write evidence.                                          *)

\* The row the code writes tells what the call is.
LEMMA RowTells ==
    ASSUME NEW c \in Calls, NEW success, NEW hit, NEW t,
           hit => User(c) /\ ~call[c].lane.canary,
           t.pc \in {"done", "closing"} => success,
           t.pc = "failed" => ~success,
           t.pc = "closing" => t.route = call[c].route
    PROVE  Tells(c, t, RowOf(c, success, hit))
  BY DEF Tells, RowOf

\* _launch_post_response leaves the calls and assessments RecordKeepsInv asks for.
LEMMA LaunchRecords ==
    ASSUME ServiceAssumption, Inv, NEW c \in Calls, Launch(c), c.kind # "evaluation",
           call[c].pc \in {"record_ok", "record_hit"}
    PROVE  LET t == Concluded(c)
           IN  /\ CallsAfter(c, t) /\ AssessedAfter(c)
               /\ Fields \subseteq DOMAIN t /\ (~User(c) => ~t.lane.canary)
               /\ t.pc = IF c.kind = "stream" THEN "closing" ELSE "done"
               /\ t.pc = "closing" => t.route = call[c].route
  <1> DEFINE t == Concluded(c)
             u == [NotMade EXCEPT !.pc = "resolving", !.forced = Candidate,
                                  !.lane = ShadowLane,
                                  !.usesPrompt = call[c].usesPrompt,
                                  !.prompts = call[c].prompts]
  <1>1. /\ Fields \subseteq DOMAIN t /\ (~User(c) => ~t.lane.canary)
        /\ t.pc = IF c.kind = "stream" THEN "closing" ELSE "done"
        /\ t.pc = "closing" => t.route = call[c].route
    <2>1. CASE c.kind = "stream"
      BY <2>1, CallStands DEF Concluded, Fields, User
    <2>2. CASE c.kind # "stream"
      BY <2>2, OverIsOver DEF Concluded
    <2> QED
      BY <2>1, <2>2
  <1>2. /\ Fields \subseteq DOMAIN u /\ u.pc = "resolving"
        /\ ~u.lane.canary /\ u.forced # NoRoute
    BY DEF Fields, NotMade, ShadowLane, Lane, ServiceAssumption
  <1>3. CallsAfter(c, t)
    <2> HIDE DEF t, u
    <2>1. CASE call' = [call EXCEPT ![c] = t]
      BY <2>1 DEF CallsAfter, Inv, Shape
    <2>2. CASE User(c) /\ call' = [call EXCEPT ![c] = t, ![ShadowOf(c)] = u]
      <3>1. ShadowOf(c) \in Calls /\ ShadowOf(c) # c
        BY <2>2, ShadowIsAnother DEF User
      <3>2. /\ DOMAIN call' = Calls /\ call'[c] = t /\ call'[ShadowOf(c)] = u
            /\ \A d \in Calls : d # c /\ d # ShadowOf(c) => call'[d] = call[d]
        BY <2>2, <3>1 DEF Inv, Shape
      <3>3. Spawns(c, t, u)
        BY <1>1, <1>2, <2>2 DEF Spawns
      <3> QED
        BY <3>2, <3>3 DEF CallsAfter
    <2> QED
      BY <2>1, <2>2 DEF Launch, t, u
  <1>4. AssessedAfter(c)
    BY KindsOfCalls DEF Launch, Assessed, AssessedAfter, User
  <1> QED
    BY <1>1, <1>3, <1>4

\* The three ways a call writes its evidence.
LEMMA EvidenceSteps ==
    ASSUME ServiceAssumption, Inv, NEW c \in Calls,
           RecordResponse(c) \/ RecordHit(c) \/ RecordError(c)
    PROVE  Inv'
  <1>1. c.kind # "evaluation" /\ UNCHANGED <<phase, awaited>>
    BY DEF RecordResponse, RecordHit, RecordError, Inv, Places, At
  <1>2. CASE RecordResponse(c)
    <2> DEFINE t == Concluded(c)
               r == RowOf(c, TRUE, FALSE)
    <2>1. /\ CallsAfter(c, t) /\ AssessedAfter(c)
          /\ Fields \subseteq DOMAIN t /\ (~User(c) => ~t.lane.canary)
          /\ t.pc = IF c.kind = "stream" THEN "closing" ELSE "done"
          /\ t.pc = "closing" => t.route = call[c].route
      BY <1>1, <1>2, LaunchRecords DEF RecordResponse, At
    <2>2. Tells(c, t, r)
      BY <2>1, RowTells
    <2>3. Recorded(c, t, r)
      BY <1>2, <2>1, <2>2, KindsOfCalls DEF Recorded, RecordResponse, At, WriteRow
    <2>4. CachedAfter(c, r)
      BY <1>2 DEF RecordResponse, CachedAfter, CacheAllowed, RowOf
    <2> QED
      BY <1>1, <2>1, <2>3, <2>4, RecordKeepsInv
  <1>3. CASE RecordHit(c)
    <2> DEFINE t == Concluded(c)
               r == RowOf(c, TRUE, TRUE)
    <2>1. /\ CallsAfter(c, t) /\ AssessedAfter(c)
          /\ Fields \subseteq DOMAIN t /\ (~User(c) => ~t.lane.canary)
          /\ t.pc = IF c.kind = "stream" THEN "closing" ELSE "done"
          /\ t.pc = "closing" => t.route = call[c].route
      BY <1>1, <1>3, LaunchRecords DEF RecordHit, At
    <2>2. User(c) /\ ~call[c].lane.canary
      BY <1>3 DEF RecordHit, At, Inv, Places
    <2>3. Tells(c, t, r)
      BY <2>1, <2>2, RowTells
    <2>4. Recorded(c, t, r)
      BY <1>3, <2>1, <2>3, KindsOfCalls DEF Recorded, RecordHit, At, WriteRow
    <2>5. CachedAfter(c, r)
      BY <1>3 DEF RecordHit, CachedAfter
    <2> QED
      BY <1>1, <2>1, <2>4, <2>5, RecordKeepsInv
  <1>4. CASE RecordError(c)
    <2> DEFINE t == Over("failed")
               r == RowOf(c, FALSE, FALSE)
    <2>1. Tells(c, t, r)
      BY OverIsOver, RowTells
    <2>2. Recorded(c, t, r)
      BY <1>4, <2>1, OverIsOver DEF Recorded, RecordError, At, WriteRow
    <2>3. CallsAfter(c, t)
      BY <1>4 DEF RecordError, End, CallsAfter, Inv, Shape
    <2>4. AssessedAfter(c) /\ CachedAfter(c, r)
      BY <1>4 DEF RecordError, Assessed, AssessedAfter, CachedAfter, Inv, ForcedApart
    <2> QED
      BY <1>1, <2>2, <2>3, <2>4, RecordKeepsInv
  <1> QED
    BY <1>2, <1>3, <1>4

\* A client that leaves, at most with its row on the way into the database.
LEMMA LeaveStep ==
    ASSUME ServiceAssumption, Inv, NEW c \in StreamCalls, Leave(c)
    PROVE  Inv'
  <1> DEFINE t == Over("aborted")
  <1>1. c \in Calls /\ User(c)
    BY DEF StreamCalls, Calls, User
  <1>2. /\ call' = [call EXCEPT ![c] = t] /\ call[c].pc \in Waiting
        /\ UNCHANGED <<cache, assessing, phase, awaited>>
    BY DEF Leave, End
  <1>3. CASE UNCHANGED rows
    <2>1. Move(c, t)
      BY <1>2, OverIsOver DEF Move, Ends
    <2>2. UNCHANGED Shared
      BY <1>2, <1>3 DEF Shared
    <2> QED
      BY <1>1, <1>2, <2>1, <2>2, MovesBy, MoveKeepsInv
  <1>4. ASSUME NEW success, NEW hit, WriteRow(c, success, hit), hit => At(c, "record_hit"),
               call[c].pc \in {"record_ok", "record_hit", "record_error"}
        PROVE  Inv'
    <2> DEFINE r == RowOf(c, success, hit)
    <2>1. hit => User(c) /\ ~call[c].lane.canary
      BY <1>1, <1>4 DEF Inv, Places, At
    <2>2. Tells(c, t, r)
      BY <1>1, <2>1, OverIsOver, RowTells
    <2>3. Recorded(c, t, r)
      BY <1>4, <2>2, OverIsOver DEF Recorded, WriteRow
    <2>4. CallsAfter(c, t)
      <3> HIDE DEF t
      <3> QED
        BY <1>1, <1>2 DEF CallsAfter, Inv, Shape
    <2>5. AssessedAfter(c) /\ CachedAfter(c, r)
      BY <1>2 DEF AssessedAfter, CachedAfter
    <2> QED
      BY <1>1, <1>2, <2>3, <2>4, <2>5, RecordKeepsInv
  <1> QED
    BY <1>3, <1>4 DEF Leave, At

-----------------------------------------------------------------------------
(* The steps that move no call.                                            *)

\* An assessment that ends, an eviction and the clock.
LEMMA BackgroundSteps ==
    ASSUME Inv,
           \/ \E a \in Assessments : EndAssessment(a)
           \/ \E n \in Namespaces : Evict(n)
           \/ Tick
    PROVE  Inv'
  <1>1. /\ call' = call /\ rows' = rows /\ phase' = phase /\ awaited' = awaited
        /\ assessing' \subseteq assessing /\ DOMAIN cache' = DOMAIN cache
        /\ \A n \in Namespaces : cache'[n] \in {cache[n], NoEntry}
    BY DEF EndAssessment, Evict, Tick, Shared, Inv, Shape
  <1>2. Shape' /\ ForcedApart' /\ Places' /\ ParentFirst'
    BY <1>1 DEF Inv, Shape, ForcedApart, Places, ParentFirst, At
  <1>3. CachedIsRecorded' /\ CacheLaneIsolation'
    <2>1. \A n \in Namespaces : cache'[n] # NoEntry => cache'[n] = cache[n]
      BY <1>1
    <2> QED
      BY <1>1, <2>1 DEF Inv, CachedIsRecorded, CacheLaneIsolation
  <1>4. AssessedAreUsers' /\ EvidenceBeforeAssessment'
    BY <1>1 DEF Inv, AssessedAreUsers, EvidenceBeforeAssessment
  <1>5. Running' = Running
    BY <1>1 DEF Running
  <1>6. Draining' /\ NoWorkAfterClose'
    BY <1>1, <1>5 DEF Inv, Draining, NoWorkAfterClose, Background
  <1>7. EvidenceIsComplete' /\ ToldAsRecorded'
    BY <1>1 DEF Inv, EvidenceIsComplete, ToldAsRecorded, At
  <1> QED
    BY <1>2, <1>3, <1>4, <1>6, <1>7 DEF Inv

\* aclose waits for all that is left, so nothing is left when it closes.
LEMMA ShutdownSteps ==
    ASSUME Inv, BeginShutdown \/ CloseProviders
    PROVE  Inv'
  <1>1. UNCHANGED <<call, cache, rows, assessing>>
    BY DEF BeginShutdown, CloseProviders
  <1>2. /\ Shape' /\ ForcedApart' /\ Places' /\ ParentFirst' /\ CachedIsRecorded'
        /\ AssessedAreUsers' /\ EvidenceBeforeAssessment' /\ CacheLaneIsolation'
    BY <1>1 DEF Inv, Shape, ForcedApart, Places, ParentFirst, CachedIsRecorded, At,
                AssessedAreUsers, EvidenceBeforeAssessment, CacheLaneIsolation
  <1>3. EvidenceIsComplete' /\ ToldAsRecorded'
    BY <1>1 DEF Inv, EvidenceIsComplete, ToldAsRecorded, At
  <1>4. Running' = Running /\ Background' = Background
    BY <1>1 DEF Running, Background
  <1>5. Draining' /\ NoWorkAfterClose'
    <2>1. CASE BeginShutdown
      BY <2>1, <1>1, <1>4 DEF BeginShutdown, Draining, NoWorkAfterClose
    <2>2. CASE CloseProviders
      <3>1. Background = {} /\ \A c \in Running : c.kind = "shadow"
        BY <2>2 DEF CloseProviders, Inv, Draining
      <3>2. Running = {} /\ assessing = {}
        BY <3>1 DEF Background
      <3> QED
        BY <2>2, <3>2, <1>1, <1>4 DEF CloseProviders, Draining, NoWorkAfterClose
    <2> QED
      BY <2>1, <2>2
  <1> QED
    BY <1>2, <1>3, <1>5 DEF Inv

\* Every step keeps the invariant.
LEMMA NextKeepsInv ==
    ASSUME ServiceAssumption, Inv, [StreamNext]_StreamVars
    PROVE  Inv'
  <1>1. ASSUME NEW c \in Calls,
               \/ Request(c) \/ ForcedRequest(c) \/ Evaluate(c)
               \/ Resolve(c) \/ Reject(c) \/ Assign(c)
               \/ Answer(c) \/ ViolateSchema(c) \/ FailAttempt(c) \/ Abort(c)
        PROVE  Inv'
    BY <1>1, QuietSteps, MoveKeepsInv
  <1>2. ASSUME NEW c \in Calls, RecordResponse(c) \/ RecordHit(c) \/ RecordError(c)
        PROVE  Inv'
    BY <1>2, EvidenceSteps
  <1>3. CASE Next
    BY <1>1, <1>2, <1>3, BackgroundSteps, ShutdownSteps DEF Next
  <1>4. ASSUME NEW c \in StreamCalls,
               \/ OpenStream(c) \/ OpenForcedStream(c) \/ ReadEvent(c) \/ Take(c) \/ Finish(c)
               \/ StreamViolatesSchema(c) \/ ProviderFails(c) \/ StreamTimesOut(c) \/ TakeHit(c)
               \/ TakeDone(c)
        PROVE  Inv'
    BY <1>4, QuietStreamSteps, MoveKeepsInv
  <1>5. ASSUME NEW c \in StreamCalls, Leave(c)
        PROVE  Inv'
    BY <1>5, LeaveStep
  <1>6. CASE UNCHANGED StreamVars
    <2>1. UNCHANGED <<call, cache, rows, assessing, phase, awaited>>
      BY <1>6 DEF StreamVars, vars
    <2>2. UNCHANGED <<Running, Background>>
      BY <2>1 DEF Running, Background
    <2> QED
      BY <2>1, <2>2 DEF Inv, Shape, ForcedApart, Places, ParentFirst, CachedIsRecorded, At,
                AssessedAreUsers, EvidenceBeforeAssessment, CacheLaneIsolation, Draining,
                EvidenceIsComplete, ToldAsRecorded, NoWorkAfterClose
  <1> QED
    BY <1>3, <1>4, <1>5, <1>6 DEF StreamNext

\* Whatever calls are made of the service, its inductive invariant holds.
THEOREM Invariance == StreamSpec => []Inv
  <1>1. Inv /\ [StreamNext]_StreamVars => Inv'
    BY NextKeepsInv, ServiceAssumption
  <1>2. StreamInit => Inv
    BY InitInv, ServiceAssumption
  <1> QED
    BY <1>1, <1>2, PTL DEF StreamSpec

-----------------------------------------------------------------------------
(* What follows from it.                                                   *)

(***************************************************************************)
(* docs/request-lifecycle.md: whatever the number of calls and routes, a   *)
(* call leaves one evidence row exactly if it ended with a response or a   *)
(* typed error after routing (a stream whose client left may have one).    *)
(***************************************************************************)
THEOREM RowsAreComplete == StreamSpec => []EvidenceIsComplete
  <1>1. Inv => EvidenceIsComplete
    BY DEF Inv
  <1> QED
    BY <1>1, Invariance, PTL

(***************************************************************************)
(* docs/architecture.md:209: an assessment is only ever scheduled for a    *)
(* canary request whose own evidence is already in the ledger.             *)
(***************************************************************************)
THEOREM AssessmentFollowsEvidence == StreamSpec => []EvidenceBeforeAssessment
  <1>1. Inv => EvidenceBeforeAssessment
    BY DEF Inv
  <1> QED
    BY <1>1, Invariance, PTL

(***************************************************************************)
(* docs/release-engineering.md:286-290: the cache holds only answers of    *)
(* users' requests outside the canary cohort, in the lane that made them,  *)
(* and serves only such requests.                                          *)
(***************************************************************************)
THEOREM LanesShareNoAnswers == StreamSpec => []CacheLaneIsolation
  <1>1. Inv => CacheLaneIsolation
    BY DEF Inv
  <1> QED
    BY <1>1, Invariance, PTL

(***************************************************************************)
(* docs/request-lifecycle.md:177-187: what a client of a stream is told at *)
(* its end is what the ledger says of it.                                  *)
(***************************************************************************)
THEOREM EndsAgreeWithEvidence == StreamSpec => []ToldAsRecorded
  <1>1. Inv => ToldAsRecorded
    BY DEF Inv
  <1> QED
    BY <1>1, Invariance, PTL

(***************************************************************************)
(* docs/request-lifecycle.md:289: aclose, which gathers the background     *)
(* tasks it finds once, misses none: no task it does not wait for can      *)
(* start while it waits.                                                   *)
(***************************************************************************)
THEOREM ClosedIsQuiet == StreamSpec => []NoWorkAfterClose
  <1>1. Inv => NoWorkAfterClose
    BY DEF Inv
  <1> QED
    BY <1>1, Invariance, PTL

-----------------------------------------------------------------------------
(* One voice.  Beside Inv it takes what a response can be at each wait: in *)
(* particular that text which is on its way has set emitted, so that no    *)
(* failure after it can go on to another route.                            *)

\* The response s of a call of which pc and route are given.
Fits(pc, route, s) ==
    /\ {"event", "emitted", "accepted", "deltas"} \subseteq DOMAIN s
    /\ pc \in Ended \cup {"idle", "resolving", "assigning"} =>
          s.deltas = {} /\ ~s.emitted /\ ~s.accepted
    /\ pc \in {"calling", "sending"} => (s.deltas # {} => s.emitted)
    /\ pc = "sending" => \/ s.event = "start"
                         \/ s.event = "delta" /\ s.emitted /\ s.accepted
    /\ pc \in {"hit_start", "hit_delta"} => s.deltas = {}
    /\ pc = "hit_delta" => s.accepted
    /\ s.deltas # {} => s.deltas = {route} /\ s.accepted

Voice ==
    /\ DOMAIN stream = StreamCalls
    /\ \A c \in StreamCalls : Fits(call[c].pc, call[c].route, stream[c])

\* The two invariants together say what the decision record says.
LEMMA VoiceIsOne == ASSUME Inv, Voice PROVE OneVoice
  <1> SUFFICES ASSUME NEW c \in StreamCalls, NEW r \in stream[c].deltas
               PROVE  /\ stream[c].deltas = {r}
                      /\ call[c].pc \in Waiting => call[c].route = r /\ stream[c].accepted
                      /\ rows[c] # <<>> => rows[c][1].route = r
    BY DEF OneVoice
  <1>1. stream[c].deltas = {r} /\ call[c].route = r /\ stream[c].accepted
    BY DEF Voice, Fits
  <1>2. call[c].pc \notin Ended \cup {"idle", "resolving", "assigning"}
    BY DEF Voice, Fits
  <1>3. rows[c] # <<>> => At(c, "closing")
    <2>1. c \in Calls
      BY DEF StreamCalls, Calls
    <2> QED
      BY <1>2, <2>1 DEF Inv, EvidenceIsComplete, At, Ended
  <1>4. rows[c] # <<>> => rows[c][1].route = r
    BY <1>1, <1>3 DEF Inv, ToldAsRecorded
  <1> QED
    BY <1>1, <1>4

\* The response that is gone fits every end.
LEMMA NothingFits ==
    ASSUME NEW pc \in Ended, NEW route
    PROVE  Fits(pc, route, NoResponse)
  BY DEF Fits, NoResponse, Ended

\* A response without text, of a call that has not begun to send.
LEMMA SilenceFits ==
    ASSUME NEW pc, NEW route, NEW s, pc \notin {"sending", "hit_delta"},
           {"event", "emitted", "accepted", "deltas"} \subseteq DOMAIN s,
           s.deltas = {}, ~s.emitted, ~s.accepted
    PROVE  Fits(pc, route, s)
  BY DEF Fits

\* Where the attempt loop leaves a call.
LEMMA ProceedGoesTo ==
    ASSUME Inv, NEW c \in Calls, NEW s, NEW left, NEW circs, NEW cut,
           Fields \subseteq DOMAIN s, Proceed(c, s, left, circs, cut)
    PROVE  call'[c].pc \in {"calling", "record_error", "failed"}
  <1>1. PICK t : call' = [call EXCEPT ![c] = t] /\ t.pc \in {"calling", "record_error", "failed"}
    <2>1. CASE call' = [call EXCEPT ![c] = Settle(c, GiveUp(s, left, cut))]
      <3>1. GiveUp(s, left, cut).pc = "record_error"
        BY DEF GiveUp, Fields
      <3>2. Settle(c, GiveUp(s, left, cut)).pc \in {"calling", "record_error", "failed"}
        BY <3>1, OverIsOver DEF Settle
      <3> QED
        BY <2>1, <3>2
    <2>2. ASSUME NEW i, call' = [call EXCEPT ![c] = Attempt(s, left, i)]
          PROVE  \E t : /\ call' = [call EXCEPT ![c] = t]
                        /\ t.pc \in {"calling", "record_error", "failed"}
      <3>1. Attempt(s, left, i).pc = "calling"
        BY DEF Attempt, Fields
      <3> QED
        BY <2>2, <3>1
    <2> QED
      BY <2>1, <2>2 DEF Proceed
  <1> QED
    BY <1>1 DEF Inv, Shape

\* Where the lookup leaves a call.
LEMMA LookupGoesTo ==
    ASSUME Inv, NEW c \in Calls, NEW s, Fields \subseteq DOMAIN s, Lookup(c, s)
    PROVE  call'[c].pc \notin {"sending", "hit_delta"}
  <1>1. CASE Decide(c, s)
    <2>1. CASE call' = [call EXCEPT ![c] = Over("rejected")]
      BY <2>1, OverIsOver DEF Inv, Shape
    <2>2. ASSUME NEW order, NEW circs, NEW cut,
                 Proceed(c, [s EXCEPT !.candidates = Len(order)], order, circs, cut)
          PROVE  call'[c].pc \notin {"sending", "hit_delta"}
      <3>1. Fields \subseteq DOMAIN [s EXCEPT !.candidates = Len(order)]
        OBVIOUS
      <3> QED
        BY <2>2, <3>1, ProceedGoesTo
    <2> QED
      BY <1>1, <2>1, <2>2 DEF Decide
  <1>2. CASE ~Decide(c, s)
    <2> DEFINE t == [s EXCEPT !.pc = IF c.kind = "stream" THEN "hit_start" ELSE "record_hit",
                              !.route = rows[cache[Namespace(s)]][1].route]
    <2>1. call' = [call EXCEPT ![c] = t]
      BY <1>2 DEF Lookup
    <2>2. t.pc \in {"hit_start", "record_hit"}
      BY DEF Fields
    <2> QED
      <3> HIDE DEF t
      <3> QED
        BY <2>1, <2>2 DEF Inv, Shape
  <1> QED
    BY <1>1, <1>2

\* What a step that has no word about the response does to a stream.
LEMMA SilentSteps ==
    ASSUME ServiceAssumption, Inv, NEW c \in StreamCalls,
           Next \/ \E d \in StreamCalls : TakeDone(d) \/ Leave(d)
    PROVE  \/ call'[c] = call[c]
           \/ call'[c].pc \in Ended
           \/ /\ call[c].pc \in {"resolving", "assigning"}
              /\ call'[c].pc \notin {"sending", "hit_delta"}
           \/ /\ call[c].pc \in {"record_ok", "record_hit"}
              /\ call'[c].pc = "closing" /\ call'[c].route = call[c].route
  <1>1. c \in Calls /\ c.kind = "stream"
    BY DEF StreamCalls, Calls
  <1>2. DOMAIN call = Calls
    BY DEF Inv, Shape
  <1>3. ASSUME NEW e \in Ended, NEW d, call' = [call EXCEPT ![d] = Over(e)]
        PROVE  call'[c] = call[c] \/ call'[c].pc \in Ended
    BY <1>1, <1>2, <1>3, OverIsOver
  \* Steps of another call.
  <1>4. ASSUME NEW d \in Calls, d # c, Moves(d)
        PROVE  call'[c] = call[c]
    BY <1>1, <1>2, <1>4 DEF Moves
  <1>5. ASSUME NEW d \in Calls, d # c, RecordResponse(d) \/ RecordHit(d)
        PROVE  call'[c] = call[c]
    <2>1. d.kind # "evaluation" /\ Launch(d) /\ call[d].pc \in {"record_ok", "record_hit"}
      BY <1>5 DEF RecordResponse, RecordHit, Inv, Places, At
    <2>2. CallsAfter(d, Concluded(d))
      BY <2>1, LaunchRecords
    <2>3. c # ShadowOf(d) \/ ~User(d)
      BY <1>1, <1>5, ShadowIsAnother
    <2> QED
      BY <1>1, <1>5, <2>2, <2>3 DEF CallsAfter, Spawns
  \* Steps of c itself.
  <1>6. ASSUME RecordResponse(c) \/ RecordHit(c)
        PROVE  /\ call[c].pc \in {"record_ok", "record_hit"}
               /\ call'[c].pc = "closing" /\ call'[c].route = call[c].route
    <2>1. Launch(c) /\ call[c].pc \in {"record_ok", "record_hit"}
      BY <1>6 DEF RecordResponse, RecordHit, At
    <2>2. /\ CallsAfter(c, Concluded(c))
          /\ Concluded(c).pc = "closing" /\ Concluded(c).route = call[c].route
      BY <1>1, <2>1, LaunchRecords
    <2> QED
      BY <2>1, <2>2 DEF CallsAfter
  <1>7. ASSUME Resolve(c) \/ Assign(c)
        PROVE  /\ call[c].pc \in {"resolving", "assigning"}
               /\ call'[c].pc \notin {"sending", "hit_delta"}
    <2>1. Fields \subseteq DOMAIN call[c]
      BY <1>1, CallStands
    <2>2. CASE Assign(c)
      <3>1. PICK l : Lookup(c, [call[c] EXCEPT !.lane = l])
        BY <2>2 DEF Assign
      <3> QED
        BY <1>1, <2>1, <2>2, <3>1, LookupGoesTo DEF Assign, At
    <2>3. CASE Resolve(c)
      <3> DEFINE s == [call[c] EXCEPT !.prompts = Prompted(c, call[c])]
                 t == [s EXCEPT !.pc = "assigning"]
      <3>1. CASE call' = [call EXCEPT ![c] = t]
        <4>1. t.pc = "assigning"
          BY <2>1 DEF Fields
        <4> QED
          <5> HIDE DEF t
          <5> QED
            BY <1>1, <1>2, <2>3, <3>1, <4>1 DEF Resolve, At
      <3>2. CASE Lookup(c, s)
        BY <1>1, <2>1, <2>3, <3>2, LookupGoesTo DEF Resolve, At
      <3> QED
        BY <2>3, <3>1, <3>2 DEF Resolve
    <2> QED
      BY <1>7, <2>2, <2>3
  <1>8. ASSUME NEW d \in Calls,
               \/ Request(d) \/ ForcedRequest(d) \/ Evaluate(d)
               \/ Resolve(d) \/ Reject(d) \/ Assign(d)
               \/ Answer(d) \/ ViolateSchema(d) \/ FailAttempt(d) \/ Abort(d)
               \/ RecordResponse(d) \/ RecordHit(d) \/ RecordError(d)
        PROVE  \/ call'[c] = call[c]
               \/ call'[c].pc \in Ended
               \/ /\ call[c].pc \in {"resolving", "assigning"}
                  /\ call'[c].pc \notin {"sending", "hit_delta"}
               \/ /\ call[c].pc \in {"record_ok", "record_hit"}
                  /\ call'[c].pc = "closing" /\ call'[c].route = call[c].route
    <2>1. CASE Reject(d) \/ Abort(d) \/ RecordError(d)
      BY <1>3, <2>1 DEF Reject, Abort, RecordError, End, Ended
    <2>2. CASE RecordResponse(d) \/ RecordHit(d)
      BY <1>5, <1>6, <2>2
    <2>3. CASE d # c /\ ~(RecordResponse(d) \/ RecordHit(d) \/ RecordError(d))
      BY <1>4, <1>8, <2>3, QuietSteps
    <2>4. CASE d = c /\ (Resolve(c) \/ Assign(c))
      BY <1>7, <2>4
    <2>5. ~(Request(c) \/ ForcedRequest(c) \/ Evaluate(c) \/ Answer(c) \/ ViolateSchema(c)
            \/ FailAttempt(c))
      BY <1>1 DEF Request, ForcedRequest, Evaluate, Answer, ViolateSchema, FailAttempt, Completing
    <2> QED
      BY <1>8, <2>1, <2>2, <2>3, <2>4, <2>5
  <1>9. CASE Next
    <2>1. ASSUME UNCHANGED call
          PROVE  call'[c] = call[c]
      BY <2>1
    <2>2. CASE \/ \E a \in Assessments : EndAssessment(a)
               \/ \E n \in Namespaces : Evict(n)
               \/ Tick \/ BeginShutdown \/ CloseProviders
      BY <2>1, <2>2 DEF EndAssessment, Evict, Tick, BeginShutdown, CloseProviders
    <2> QED
      BY <1>8, <1>9, <2>2 DEF Next
  <1>10. CASE \E d \in StreamCalls : TakeDone(d) \/ Leave(d)
    BY <1>3, <1>10 DEF TakeDone, Leave, End, Ended
  <1> QED
    BY <1>9, <1>10

\* Such a step keeps the responses fitting.
LEMMA SilentStepsKeepVoice ==
    ASSUME ServiceAssumption, Inv, Voice, stream' = StreamAfter,
           Next \/ \E d \in StreamCalls : TakeDone(d) \/ Leave(d)
    PROVE  Voice'
  <1>1. DOMAIN stream' = StreamCalls
    BY DEF StreamAfter
  <1>2. ASSUME NEW c \in StreamCalls
        PROVE  Fits(call'[c].pc, call'[c].route, stream'[c])
    <2>1. stream'[c] = IF call'[c].pc \in Ended THEN NoResponse ELSE stream[c]
      BY DEF StreamAfter
    <2>2. CASE call'[c].pc \in Ended
      BY <2>1, <2>2, NothingFits
    <2>3. CASE call'[c].pc \notin Ended /\ call'[c] = call[c]
      BY <2>1, <2>3 DEF Voice
    <2>4. CASE /\ call'[c].pc \notin Ended
               /\ call[c].pc \in {"resolving", "assigning"}
               /\ call'[c].pc \notin {"sending", "hit_delta"}
      <3>1. /\ {"event", "emitted", "accepted", "deltas"} \subseteq DOMAIN stream[c]
            /\ stream[c].deltas = {} /\ ~stream[c].emitted /\ ~stream[c].accepted
        BY <2>4 DEF Voice, Fits
      <3> QED
        BY <2>1, <2>4, <3>1, SilenceFits
    <2>5. CASE /\ call[c].pc \in {"record_ok", "record_hit"}
               /\ call'[c].pc = "closing" /\ call'[c].route = call[c].route
      <3>1. Fits("closing", call[c].route, stream[c])
        BY <2>5 DEF Voice, Fits, Ended
      <3> QED
        BY <2>1, <2>5, <3>1 DEF Ended
    <2> QED
      BY <2>2, <2>3, <2>4, <2>5, SilentSteps
  <1> QED
    BY <1>1, <1>2 DEF Voice

\* A step of c that moves pc and response together.
LEMMA OneResponse ==
    ASSUME Inv, Voice, NEW c \in StreamCalls, NEW t, NEW s,
           call' = [call EXCEPT ![c] = t],
           stream' = [stream EXCEPT ![c] = s] \/ (stream' = stream /\ s = stream[c]),
           Fits(t.pc, t.route, s)
    PROVE  Voice'
  <1>1. StreamCalls \subseteq Calls
    BY DEF StreamCalls, Calls
  <1>2. \A d \in StreamCalls : \/ d = c /\ call'[d] = t /\ stream'[d] = s
                               \/ d # c /\ call'[d] = call[d] /\ stream'[d] = stream[d]
    BY <1>1 DEF Inv, Shape, Voice
  <1> QED
    BY <1>2 DEF Voice

\* A stream is opened without a response.
LEMMA OpeningKeepsVoice ==
    ASSUME Inv, Voice, NEW c \in StreamCalls, OpenStream(c) \/ OpenForcedStream(c)
    PROVE  Voice'
  <1>1. PICK s : Start(c, s) /\ Fields \subseteq DOMAIN s
    BY Starters DEF OpenStream, OpenForcedStream
  <1> DEFINE t == [s EXCEPT !.pc = "resolving"]
  <1>2. t.pc = "resolving"
    BY <1>1 DEF Fields
  <1>3. /\ {"event", "emitted", "accepted", "deltas"} \subseteq DOMAIN stream[c]
        /\ stream[c].deltas = {} /\ ~stream[c].emitted /\ ~stream[c].accepted
    BY <1>1 DEF Start, At, Voice, Fits
  <1>4. Fits(t.pc, t.route, stream[c])
    BY <1>2, <1>3, SilenceFits
  <1>5. call' = [call EXCEPT ![c] = t] /\ stream' = stream
    BY <1>1 DEF Start, OpenStream, OpenForcedStream
  <1> QED
    <2> HIDE DEF t
    <2> QED
      BY <1>4, <1>5, OneResponse

\* Events of an attempt, and its success.
LEMMA AttemptKeepsVoice ==
    ASSUME Inv, Voice, NEW c \in StreamCalls, ReadEvent(c) \/ Take(c) \/ Finish(c)
    PROVE  Voice'
  <1>1. c \in Calls
    BY DEF StreamCalls, Calls
  <1>2. Fields \subseteq DOMAIN call[c]
    BY <1>1, CallStands
  <1> DEFINE MovedTo(pc) == [call[c] EXCEPT !.pc = pc]
  <1>3. \A pc : MovedTo(pc).pc = pc /\ MovedTo(pc).route = call[c].route
    BY <1>2 DEF Fields
  <1>4. CASE ReadEvent(c)
    <2>1. PICK event \in NextEvents(c) \cap {"start", "delta"} : Yield(c, event)
      BY <1>4 DEF ReadEvent
    <2> DEFINE s == [stream[c] EXCEPT !.event = event, !.emitted = @ \/ event = "delta"]
    <2>2. Fits("calling", call[c].route, stream[c])
      BY <1>4 DEF ReadEvent, Reading, At, Voice
    <2>3. event = "delta" => stream[c].accepted
      BY <2>1 DEF NextEvents, Opening, ToSet
    <2>4. /\ {"event", "emitted", "accepted", "deltas"} \subseteq DOMAIN s
          /\ s.event = event /\ s.accepted = stream[c].accepted /\ s.deltas = stream[c].deltas
          /\ s.emitted <=> (stream[c].emitted \/ event = "delta")
      BY <2>2 DEF Fits
    <2>5. Fits("sending", call[c].route, s)
      <3> HIDE DEF s
      <3> QED
        BY <2>1, <2>2, <2>3, <2>4 DEF Fits, Ended
    <2>6. /\ call' = [call EXCEPT ![c] = MovedTo("sending")]
          /\ stream' = [stream EXCEPT ![c] = s]
      BY <2>1 DEF Yield
    <2> QED
      <3> HIDE DEF s, MovedTo
      <3> QED
        BY <1>3, <2>5, <2>6, OneResponse
  <1>5. CASE Take(c)
    <2> DEFINE s == Taken(stream[c], call[c].route)
    <2>1. Fits("sending", call[c].route, stream[c])
      BY <1>5 DEF Take, At, Voice
    <2>2. CASE stream[c].event = "start"
      <3>1. /\ {"event", "emitted", "accepted", "deltas"} \subseteq DOMAIN s
            /\ s.accepted /\ s.deltas = stream[c].deltas /\ s.emitted = stream[c].emitted
        BY <2>1, <2>2 DEF Fits, Taken
      <3> QED
        <4> HIDE DEF s
        <4>1. Fits("calling", call[c].route, s)
          BY <2>1, <3>1 DEF Fits, Ended
        <4>2. /\ call' = [call EXCEPT ![c] = MovedTo("calling")]
              /\ stream' = [stream EXCEPT ![c] = s]
          BY <1>5 DEF Take, s
        <4> HIDE DEF MovedTo
        <4> QED
          BY <1>3, <4>1, <4>2, OneResponse
    <2>3. CASE stream[c].event # "start"
      <3>1. /\ {"event", "emitted", "accepted", "deltas"} \subseteq DOMAIN s
            /\ s.accepted = stream[c].accepted /\ s.emitted = stream[c].emitted
            /\ s.deltas = stream[c].deltas \cup {call[c].route}
        BY <2>1, <2>3 DEF Fits, Taken
      <3>2. stream[c].emitted /\ stream[c].accepted
        BY <2>1, <2>3 DEF Fits
      <3> QED
        <4> HIDE DEF s
        <4>1. s.deltas = {call[c].route}
          BY <2>1, <3>1 DEF Fits
        <4>2. Fits("calling", call[c].route, s)
          BY <2>1, <3>1, <3>2, <4>1 DEF Fits, Ended
        <4>3. /\ call' = [call EXCEPT ![c] = MovedTo("calling")]
              /\ stream' = [stream EXCEPT ![c] = s]
          BY <1>5 DEF Take, s
        <4> HIDE DEF MovedTo
        <4> QED
          BY <1>3, <4>2, <4>3, OneResponse
    <2> QED
      BY <2>2, <2>3
  <1>6. CASE Finish(c)
    <2>1. Fits("record_ok", call[c].route, stream[c])
      BY <1>6 DEF Finish, Reading, At, Voice, Fits, Ended
    <2>2. call' = [call EXCEPT ![c] = MovedTo("record_ok")] /\ stream' = stream
      BY <1>6 DEF Finish
    <2> HIDE DEF MovedTo
    <2> QED
      BY <1>3, <2>1, <2>2, OneResponse
  <1> QED
    BY <1>4, <1>5, <1>6

\* A failure goes on to another route only from a response without text.
LEMMA FailuresKeepVoice ==
    ASSUME Inv, Voice, NEW c \in StreamCalls, NEW circs, NEW cuts,
           Reading(c), NextOrInterrupt(c, circs, cuts)
    PROVE  Voice'
  <1>1. c \in Calls /\ c.kind = "stream"
    BY DEF StreamCalls, Calls
  <1>2. Fields \subseteq DOMAIN call[c]
    BY <1>1, CallStands
  <1>3. Fits("calling", call[c].route, stream[c])
    BY DEF Reading, At, Voice
  <1>4. CASE stream[c].emitted
    <2> DEFINE t == [call[c] EXCEPT !.pc = "record_error", !.failed = TRUE, !.left = <<>>]
    <2>1. t.pc = "record_error" /\ t.route = call[c].route
      BY <1>2 DEF Fields
    <2>2. call' = [call EXCEPT ![c] = t] /\ stream' = stream
      BY <1>4 DEF NextOrInterrupt, Interrupt
    <2>3. Fits("record_error", call[c].route, stream[c])
      BY <1>3 DEF Fits, Ended
    <2> HIDE DEF t
    <2> QED
      BY <2>1, <2>2, <2>3, OneResponse
  <1>5. CASE ~stream[c].emitted
    <2> DEFINE u == [call[c] EXCEPT !.fallbacks = @ + 1, !.failed = TRUE]
               s == [stream[c] EXCEPT !.accepted = FALSE]
    <2>1. Fallback(c, circs, cuts) /\ stream' = [stream EXCEPT ![c] = s]
      BY <1>5 DEF NextOrInterrupt
    <2>2. PICK cut \in cuts : Proceed(c, u, call[c].left, circs, cut)
      BY <2>1 DEF Fallback
    <2>3. Fields \subseteq DOMAIN u
      BY <1>2
    <2>4. call'[c].pc \in {"calling", "record_error", "failed"}
      <3> HIDE DEF u
      <3> QED
        BY <1>1, <2>2, <2>3, ProceedGoesTo
    <2>5. call[c].pc \in Waiting \ {"closing"}
      BY DEF Reading, At, Waiting
    <2>6. PICK t : call' = [call EXCEPT ![c] = t]
      BY <1>1, <2>1, <2>5, FallbackMoves DEF Moves
    <2>7. t = call'[c]
      BY <1>1, <2>6 DEF Inv, Shape
    <2>8. /\ {"event", "emitted", "accepted", "deltas"} \subseteq DOMAIN s
          /\ s.deltas = {} /\ ~s.emitted /\ ~s.accepted
      BY <1>3, <1>5 DEF Fits
    <2>9. Fits(t.pc, t.route, s)
      <3> HIDE DEF s
      <3> QED
        BY <2>4, <2>7, <2>8, SilenceFits
    <2> QED
      <3> HIDE DEF s
      <3> QED
        BY <2>1, <2>6, <2>9, OneResponse
  <1> QED
    BY <1>4, <1>5

\* A cached answer has one route.
LEMMA HitsKeepVoice ==
    ASSUME Inv, Voice, NEW c \in StreamCalls, TakeHit(c)
    PROVE  Voice'
  <1>1. Fields \subseteq DOMAIN call[c]
    BY CallStands DEF StreamCalls, Calls
  <1> DEFINE MovedTo(pc) == [call[c] EXCEPT !.pc = pc]
  <1>2. \A pc : MovedTo(pc).pc = pc /\ MovedTo(pc).route = call[c].route
    BY <1>1 DEF Fields
  <1>3. CASE At(c, "hit_start")
    <2> DEFINE s == [stream[c] EXCEPT !.accepted = TRUE]
    <2>1. /\ call' = [call EXCEPT ![c] = MovedTo("hit_delta")]
          /\ stream' = [stream EXCEPT ![c] = s]
      BY <1>3 DEF TakeHit, At
    <2>2. Fits("hit_delta", call[c].route, s)
      <3>1. Fits("hit_start", call[c].route, stream[c])
        BY <1>3 DEF At, Voice
      <3> QED
        BY <3>1 DEF Fits, Ended
    <2> HIDE DEF s, MovedTo
    <2> QED
      BY <1>2, <2>1, <2>2, OneResponse
  <1>4. CASE At(c, "hit_delta")
    <2> DEFINE s == [stream[c] EXCEPT !.deltas = @ \cup {call[c].route}]
    <2>1. /\ call' = [call EXCEPT ![c] = MovedTo("record_hit")]
          /\ stream' = [stream EXCEPT ![c] = s]
      BY <1>4 DEF TakeHit, At
    <2>2. Fits("record_hit", call[c].route, s)
      <3>1. Fits("hit_delta", call[c].route, stream[c])
        BY <1>4 DEF At, Voice
      <3> QED
        BY <3>1 DEF Fits, Ended
    <2> HIDE DEF s, MovedTo
    <2> QED
      BY <1>2, <2>1, <2>2, OneResponse
  <1> QED
    BY <1>3, <1>4 DEF TakeHit

\* Every step keeps the responses fitting.
LEMMA NextKeepsVoice ==
    ASSUME ServiceAssumption, Inv, Voice, [StreamNext]_StreamVars
    PROVE  Voice'
  <1>1. CASE (Next \/ \E d \in StreamCalls : TakeDone(d) \/ Leave(d)) /\ stream' = StreamAfter
    BY <1>1, SilentStepsKeepVoice
  <1>2. ASSUME NEW c \in StreamCalls, OpenStream(c) \/ OpenForcedStream(c)
        PROVE  Voice'
    BY <1>2, OpeningKeepsVoice
  <1>3. ASSUME NEW c \in StreamCalls, ReadEvent(c) \/ Take(c) \/ Finish(c)
        PROVE  Voice'
    BY <1>3, AttemptKeepsVoice
  <1>4. ASSUME NEW c \in StreamCalls,
               StreamViolatesSchema(c) \/ ProviderFails(c) \/ StreamTimesOut(c)
        PROVE  Voice'
    <2>1. \E circs, cuts : Reading(c) /\ NextOrInterrupt(c, circs, cuts)
      BY <1>4 DEF StreamViolatesSchema, ProviderFails, StreamTimesOut, FailStream
    <2> QED
      BY <2>1, FailuresKeepVoice
  <1>5. ASSUME NEW c \in StreamCalls, TakeHit(c)
        PROVE  Voice'
    BY <1>5, HitsKeepVoice
  <1>6. CASE UNCHANGED StreamVars
    BY <1>6 DEF StreamVars, vars, Voice
  <1> QED
    BY <1>1, <1>2, <1>3, <1>4, <1>5, <1>6 DEF StreamNext

(***************************************************************************)
(* docs/decisions/0002-no-midstream-provider-switch.md, for any number of  *)
(* routes, streams and other calls: what a client reads is the text of one *)
(* route, and neither a failure nor a cached answer ever mixes two.        *)
(***************************************************************************)
THEOREM NoMidstreamSwitch == StreamSpec => []OneVoice
  <1>1. StreamInit => Inv /\ Voice
    <2> SUFFICES ASSUME StreamInit PROVE Inv /\ Voice
      OBVIOUS
    <2>1. Inv
      BY InitInv, ServiceAssumption
    <2>2. ASSUME NEW c \in StreamCalls
          PROVE  Fits(call[c].pc, call[c].route, stream[c])
      <3>1. call[c].pc = "idle"
        BY DEF StreamInit, Init, StreamCalls, Calls, NotMade
      <3>2. stream[c] = NoResponse
        BY DEF StreamInit
      <3> QED
        BY <3>1, <3>2 DEF Fits, NoResponse
    <2> QED
      BY <2>1, <2>2 DEF Voice, StreamInit
  <1>2. Inv /\ Voice /\ [StreamNext]_StreamVars => Inv' /\ Voice'
    BY NextKeepsInv, NextKeepsVoice, ServiceAssumption
  <1>3. Inv /\ Voice => OneVoice
    BY VoiceIsOne
  <1> QED
    BY <1>1, <1>2, <1>3, PTL DEF StreamSpec

-----------------------------------------------------------------------------

(***************************************************************************)
(* Types and accounting of the calls, for any number of routes: where a    *)
(* call stands among its candidates, which route it has in hand, and what  *)
(* its evidence row says of that.  Their inductive invariant is Sane.      *)
(***************************************************************************)

\* The waits at which a call has a route in hand.
HasRoute == {"calling", "sending", "record_ok", "record_hit", "record_error",
             "hit_start", "hit_delta", "closing"}

Attempting == {"calling", "sending", "record_ok"}

\* What never changes from the assignment of a call on.
Origin(c, s) ==
    /\ User(c) => s.lane \in OnlineLanes /\ s.prompts <= 1
    /\ c.kind = "shadow" /\ s.pc \in Waiting => s.forced = Candidate

\* Nothing is counted before the first attempt.
Unrouted(c, s) ==
    /\ s.pc \in {"idle", "resolving", "assigning"} =>
          s.fallbacks = 0 /\ ~s.failed /\ s.left = <<>>
    /\ s.pc \in {"idle", "resolving"} => s.prompts <= IF User(c) THEN 0 ELSE 1

\* The route in hand; a forced call has no other, now or later.
OnRoute(s) ==
    s.pc \in HasRoute =>
       /\ s.route \in Routes
       /\ s.forced # NoRoute =>
            s.route = s.forced /\ \A i \in 1..Len(s.left) : s.left[i] = s.forced

\* FallbackAccounting, with what a stream is left with when it is interrupted.
Counted(c, s) ==
    /\ s.pc \in Attempting =>
          /\ s.fallbacks + 1 + Len(s.left) = s.candidates
          /\ s.failed <=> s.fallbacks > 0
    /\ s.pc = "record_error" =>
          /\ s.failed /\ s.fallbacks <= s.candidates
          /\ c.kind # "stream" => s.fallbacks > 0

Sound(c, s) == s \in CallState /\ Origin(c, s) /\ Unrouted(c, s) /\ OnRoute(s) /\ Counted(c, s)

\* A row of a forced call names the route it was forced onto.
RowFits(c, r) ==
    /\ r \in Row
    /\ r.namespace[1] = "forced" => r.route = r.namespace[2]
    /\ c.kind = "shadow" => r.route = Candidate

SoundCalls == call \in [Calls -> CallState] /\ \A c \in Calls : Sound(c, call[c])

SoundRows == \A c \in Calls : rows[c] # <<>> => Len(rows[c]) = 1 /\ RowFits(c, rows[c][1])

SoundShared ==
    /\ circuits \in [Routes -> Circuits]
    /\ cache \in [Namespaces -> Calls \cup {NoEntry}]
    /\ assessing \subseteq Assessments
    /\ phase \in {"open", "draining", "closed"}
    /\ awaited \subseteq Calls \cup Assessments

Sane == SoundCalls /\ SoundRows /\ SoundShared

-----------------------------------------------------------------------------
(* Helpers.                                                                *)

LEMMA MinIsThere == ASSUME NEW S \in SUBSET Nat, S # {} PROVE Min(S) \in S
  <1> DEFINE Less == {p \in Nat \X Nat : p[1] < p[2]}
  <1>1. IsWellFoundedOn(Less, Nat)
    BY NatLessThanWellFounded DEF OpToRel
  <1> HIDE DEF Less
  <1>2. \E x \in S : \A y \in S : ~ (<<y, x>> \in Less)
    BY <1>1, WFMin
  <1>3. \E x \in S : \A y \in S : x <= y
    <2>1. PICK x \in S : \A y \in S : ~ (<<y, x>> \in Less)
      BY <1>2
    <2>2. ASSUME NEW y \in S PROVE x <= y
      <3>1. x \in Nat /\ y \in Nat /\ <<y, x>> \notin Less
        BY <2>1
      <3> QED
        BY <3>1 DEF Less
    <2> QED
      BY <2>1, <2>2
  <1> QED
    BY <1>3 DEF Min

\* There are finitely many routes, and no set of candidates is larger.
LEMMA CandidatesFit ==
    ASSUME ServiceAssumption
    PROVE  /\ MaxCandidates \in Nat
           /\ \A S \in SUBSET Routes :
                 /\ Cardinality(S) \in 0..MaxCandidates
                 /\ S # {} => Cardinality(S) > 0
  <1>1. MaxCandidates \in Nat
    BY FS_CardinalityType DEF ServiceAssumption, MaxCandidates
  <1>2. ASSUME NEW S \in SUBSET Routes
        PROVE  Cardinality(S) \in 0..MaxCandidates /\ (S # {} => Cardinality(S) > 0)
    <2>1. IsFiniteSet(S) /\ Cardinality(S) <= MaxCandidates
      BY FS_Subset DEF ServiceAssumption, MaxCandidates
    <2>2. Cardinality(S) \in Nat /\ (S # {} => Cardinality(S) # 0)
      BY <2>1, FS_CardinalityType, FS_EmptySet
    <2> QED
      BY <1>1, <2>1, <2>2
  <1> QED
    BY <1>1, <1>2

\* The lists of candidates a call can have left.
Lefts == UNION {[1..n -> Routes] : n \in 0..MaxCandidates}

LEMMA LeftsAreSeqs ==
    ASSUME ServiceAssumption, NEW x
    PROVE  x \in Lefts <=> x \in Seq(Routes) /\ Len(x) <= MaxCandidates
  <1>1. MaxCandidates \in Nat
    BY CandidatesFit
  <1>2. ASSUME x \in Lefts PROVE x \in Seq(Routes) /\ Len(x) <= MaxCandidates
    <2>1. PICK n \in 0..MaxCandidates : x \in [1..n -> Routes]
      BY <1>2 DEF Lefts
    <2> QED
      BY <1>1, <2>1
  <1>3. ASSUME x \in Seq(Routes), Len(x) <= MaxCandidates PROVE x \in Lefts
    <2>1. Len(x) \in 0..MaxCandidates /\ x \in [1..Len(x) -> Routes]
      BY <1>1, <1>3
    <2> QED
      BY <2>1 DEF Lefts
  <1> QED
    BY <1>2, <1>3

\* The lanes there are.
LEMMA LanesAreTyped ==
    ASSUME ServiceAssumption
    PROVE  /\ BlankLane \in OnlineLanes
           /\ \A live \in LiveStates : LanesFor(live) \subseteq OnlineLanes
           /\ \A l \in OnlineLanes : l.release => l.preferred \in Routes
           /\ \A l \in OnlineLanes \cup {ShadowLane} : l.canary \in BOOLEAN
  <1>1. OnlineLanes = LanesFor("none") \cup LanesFor("active") \cup LanesFor("candidate")
    BY DEF OnlineLanes
  <1>2. /\ LanesFor("none") = {BlankLane}
        /\ LanesFor("active") = {Lane(TRUE, Candidate, FALSE, FALSE)}
        /\ LanesFor("candidate") = {Lane(TRUE, Candidate, TRUE, FALSE),
                                    Lane(TRUE, Baseline, FALSE, TRUE),
                                    Lane(TRUE, Baseline, FALSE, FALSE)}
    BY DEF LanesFor
  <1>3. \A live \in LiveStates : LanesFor(live) \subseteq OnlineLanes
    BY <1>1 DEF ServiceAssumption
  <1>4. BlankLane \in OnlineLanes
    BY <1>1, <1>2
  <1>5. \A l \in OnlineLanes : l.release => l.preferred \in Routes
    BY <1>1, <1>2 DEF BlankLane, Lane, ServiceAssumption
  <1>6. \A l \in OnlineLanes \cup {ShadowLane} : l.canary \in BOOLEAN
    <2>1. \A l \in OnlineLanes \cup {ShadowLane} : l.canary = TRUE \/ l.canary = FALSE
      BY <1>1, <1>2 DEF BlankLane, ShadowLane, Lane
    <2> QED
      BY <2>1
  <1> QED
    BY <1>3, <1>4, <1>5, <1>6

\* A call that is not made.
LEMMA NotMadeIsTyped == ASSUME ServiceAssumption PROVE NotMade \in CallState
  <1>1. MaxCandidates \in Nat
    BY CandidatesFit
  <1>2. <<>> \in Lefts
    <2>1. <<>> \in [1..0 -> Routes] /\ 0 \in 0..MaxCandidates
      BY <1>1
    <2> QED
      BY <2>1 DEF Lefts
  <1> QED
    BY <1>1, <1>2, LanesAreTyped DEF NotMade, CallState, Lefts

\* A call that is not made and one that is over.
LEMMA RestIsSound ==
    ASSUME ServiceAssumption, NEW c \in Calls, NEW e \in Ended
    PROVE  /\ NotMade \in CallState /\ Sound(c, NotMade)
           /\ Over(e) \in CallState /\ Sound(c, Over(e))
  <1>3. BlankLane \in OnlineLanes
    BY LanesAreTyped
  <1>4. NotMade \in CallState
    BY NotMadeIsTyped
  <1>5. Over(e) \in CallState
    BY <1>4 DEF CallState, Over
  <1>6. Sound(c, NotMade)
    BY <1>3, <1>4 DEF Sound, Origin, Unrouted, OnRoute, Counted, NotMade, HasRoute,
                      Attempting, Waiting
  <1>7. /\ Over(e).pc = e /\ Over(e).lane = BlankLane /\ Over(e).prompts = 0
        /\ e \notin HasRoute \cup Attempting \cup Waiting \cup {"idle"}
    BY DEF Over, NotMade, Ended, HasRoute, Attempting, Waiting
  <1>8. Sound(c, Over(e))
    BY <1>3, <1>5, <1>7 DEF Sound, Origin, Unrouted, OnRoute, Counted, Waiting, HasRoute
  <1> QED
    BY <1>4, <1>5, <1>6, <1>8

-----------------------------------------------------------------------------
(* The attempt loop.                                                       *)

\* The call s is about to go on with the candidates left.
Ready(c, s, left) ==
    /\ s \in CallState /\ left \in Lefts
    /\ User(c) => s.lane \in OnlineLanes /\ s.prompts <= 1
    /\ c.kind = "shadow" => s.forced = Candidate
    /\ s.fallbacks + Len(left) = s.candidates
    /\ s.failed <=> s.fallbacks > 0
    /\ s.failed => s.route \in Routes
    /\ ~s.failed => Len(left) > 0
    /\ s.forced # NoRoute =>
          /\ s.failed => s.route = s.forced
          /\ \A i \in 1..Len(left) : left[i] = s.forced

\* What SubSeq leaves of a list of candidates.
LEMMA Rest ==
    ASSUME ServiceAssumption, NEW left \in Lefts, NEW i \in 1..Len(left)
    PROVE  /\ SubSeq(left, i + 1, Len(left)) \in Lefts
           /\ Len(SubSeq(left, i + 1, Len(left))) = Len(left) - i
           /\ \A j \in 1..(Len(left) - i) : SubSeq(left, i + 1, Len(left))[j] = left[i + j]
  <1>1. left \in Seq(Routes) /\ Len(left) <= MaxCandidates /\ MaxCandidates \in Nat
    BY LeftsAreSeqs, CandidatesFit
  <1> DEFINE rest == SubSeq(left, i + 1, Len(left))
  <1>2. /\ rest \in Seq(Routes) /\ Len(rest) = Len(left) - i
        /\ \A j \in 1..(Len(left) - i) : rest[j] = left[i + j]
    BY <1>1
  <1>3. rest \in Lefts
    <2>1. Len(left) - i <= MaxCandidates
      BY <1>1
    <2> HIDE DEF rest
    <2> QED
      BY <1>2, <2>1, LeftsAreSeqs
  <1> QED
    BY <1>2, <1>3

\* The i-th candidate left is tried.
LEMMA AttemptIsSound ==
    ASSUME ServiceAssumption, NEW c \in Calls, NEW s, NEW left, Ready(c, s, left),
           NEW i \in 1..Len(left)
    PROVE  Sound(c, Attempt(s, left, i))
  <1> DEFINE t == Attempt(s, left, i)
             rest == SubSeq(left, i + 1, Len(left))
  <1>1. /\ rest \in Lefts /\ Len(rest) = Len(left) - i
        /\ \A j \in 1..(Len(left) - i) : rest[j] = left[i + j]
    BY Rest DEF Ready
  <1>2. /\ left \in Seq(Routes) /\ Len(left) \in 1..MaxCandidates /\ MaxCandidates \in Nat
        /\ left[i] \in Routes
    BY LeftsAreSeqs, CandidatesFit DEF Ready
  <1>3. /\ s.fallbacks \in Nat /\ s.candidates \in 0..MaxCandidates
        /\ s.fallbacks + i - 1 \in 0..MaxCandidates
    BY <1>2 DEF Ready, CallState
  <1>4. (s.failed \/ i > 1) \in BOOLEAN
    OBVIOUS
  <1> HIDE DEF rest
  <1>5. /\ t.pc = "calling" /\ t.route = left[i] /\ t.left = rest
        /\ t.fallbacks = s.fallbacks + i - 1 /\ t.failed = (s.failed \/ i > 1)
        /\ t.candidates = s.candidates /\ t.forced = s.forced /\ t.lane = s.lane
        /\ t.prompts = s.prompts
    BY DEF Attempt, Ready, CallState, rest
  <1>6. t \in CallState
    BY <1>1, <1>2, <1>3, <1>4 DEF Attempt, Ready, CallState, rest, Waiting, Lefts
  <1> HIDE DEF t
  <1>7. Origin(c, t)
    BY <1>5 DEF Origin, Ready
  <1>8. Unrouted(c, t)
    BY <1>5 DEF Unrouted
  <1>9. OnRoute(t)
    BY <1>1, <1>2, <1>5 DEF OnRoute, Ready
  <1>10. Counted(c, t)
    <2>1. s.fallbacks + Len(left) = s.candidates /\ (s.failed <=> s.fallbacks > 0)
      BY DEF Ready
    <2>2. t.fallbacks + 1 + Len(t.left) = t.candidates
      <3>1. Len(t.left) = Len(left) - i /\ t.fallbacks = s.fallbacks + i - 1
        BY <1>1, <1>5
      <3> QED
        BY <1>2, <1>3, <1>5, <2>1, <3>1
    <2>3. t.failed <=> t.fallbacks > 0
      <3>1. s.fallbacks + i - 1 > 0 <=> s.fallbacks > 0 \/ i > 1
        BY <1>2, <1>3
      <3> QED
        BY <1>5, <2>1, <3>1
    <2> QED
      BY <1>5, <2>2, <2>3 DEF Counted
  <1> QED
    BY <1>6, <1>7, <1>8, <1>9, <1>10 DEF Sound, t

\* The loop ends without a response.
LEMMA GiveUpIsSound ==
    ASSUME ServiceAssumption, NEW c \in Calls, NEW s, NEW left, Ready(c, s, left),
           NEW seen \in 0..Len(left)
    PROVE  Sound(c, GiveUp(s, left, seen))
  <1> DEFINE t == GiveUp(s, left, seen)
             cause == IF s.failed \/ seen > 0 THEN seen ELSE 1
             route == IF cause > 0 THEN left[cause] ELSE s.route
  <1>1. /\ left \in Seq(Routes) /\ Len(left) \in 0..MaxCandidates /\ MaxCandidates \in Nat
    BY LeftsAreSeqs, CandidatesFit DEF Ready
  <1>2. cause \in 0..Len(left) /\ (cause = 0 => s.failed)
    BY <1>1 DEF Ready
  <1>3. route \in Routes /\ (s.forced # NoRoute => route = s.forced)
    BY <1>1, <1>2 DEF Ready
  <1>4. /\ s.fallbacks \in Nat /\ s.candidates \in 0..MaxCandidates
        /\ s.fallbacks + cause \in 1..s.candidates
    BY <1>1, <1>2 DEF Ready, CallState
  <1>5. <<>> \in Lefts
    <2>1. <<>> \in [1..0 -> Routes] /\ 0 \in 0..MaxCandidates
      BY <1>1
    <2> QED
      BY <2>1 DEF Lefts
  <1>6. t = [s EXCEPT !.pc = "record_error", !.left = <<>>, !.route = route,
                      !.fallbacks = s.fallbacks + cause, !.failed = TRUE]
    BY DEF GiveUp
  <1> HIDE DEF cause, route, t
  <1>7. /\ t.pc = "record_error" /\ t.route = route /\ t.left = <<>>
        /\ t.fallbacks = s.fallbacks + cause /\ t.failed
        /\ t.candidates = s.candidates /\ t.forced = s.forced /\ t.lane = s.lane
        /\ t.prompts = s.prompts
    BY <1>6 DEF Ready, CallState
  <1>8. t \in CallState
    <2>1. s.fallbacks + cause \in 0..MaxCandidates
      BY <1>1, <1>4
    <2> QED
      BY <1>3, <1>5, <1>6, <2>1 DEF Ready, CallState, Waiting, Lefts
  <1>9. Origin(c, t) /\ Unrouted(c, t)
    BY <1>7 DEF Origin, Unrouted, Ready
  <1>10. OnRoute(t)
    BY <1>3, <1>7 DEF OnRoute
  <1>11. Counted(c, t)
    BY <1>4, <1>7 DEF Counted, Attempting
  <1> QED
    BY <1>8, <1>9, <1>10, <1>11 DEF Sound, t

\* What an admission makes of the circuits is a circuit again.
LEMMA CircuitTypes ==
    ASSUME NEW k \in Circuits
    PROVE  /\ Advance(k) \in Circuits /\ Admit(k) \in Circuits /\ Success(k) \in Circuits
           /\ Failure(k) \in Circuits /\ Elapse(k) \in Circuits
  <1> USE CircuitAssumption DEF CircuitAssumption, Circuits, CircuitState, NotOpened
  <1>1. Advance(k) \in Circuits
    BY DEF Advance
  <1>2. Admit(k) \in Circuits
    BY <1>1 DEF Admit
  <1>3. Success(k) \in Circuits
    BY DEF Success, Fresh
  <1>4. Failure(k) \in Circuits
    <2> DEFINE n == IF k.failures < FailureThreshold THEN k.failures + 1 ELSE FailureThreshold
               f == [k EXCEPT !.probe = FALSE, !.failures = n]
    <2>1. n \in 0..FailureThreshold
      OBVIOUS
    <2> HIDE DEF n
    <2>2. f \in Circuits
      BY <2>1
    <2> HIDE DEF f
    <2>3. [f EXCEPT !.state = "open", !.openFor = 0] \in Circuits
      <3>1. 0 \in (0..Recovery) \cup {-1}
        OBVIOUS
      <3> QED
        BY <2>2, <3>1
    <2> QED
      BY <2>2, <2>3 DEF Failure, n, f
  <1>5. Elapse(k) \in Circuits
    BY DEF Elapse
  <1> QED
    BY <1>1, <1>2, <1>3, <1>4, <1>5

\* A step of the call c alone, which leaves sound what it was.
SoundMove(c) == \E t : Sound(c, t) /\ call' = [call EXCEPT ![c] = t]

LEMMA SoundMoveBy ==
    ASSUME NEW c, NEW t, Sound(c, t), call' = [call EXCEPT ![c] = t]
    PROVE  SoundMove(c)
  BY DEF SoundMove

\* An evaluation ends where others record an error.
LEMMA SettleIsSound ==
    ASSUME ServiceAssumption, NEW c \in Calls, NEW s, Sound(c, s)
    PROVE  Sound(c, Settle(c, s))
  BY RestIsSound DEF Settle, Ended

LEMMA ProceedIsSound ==
    ASSUME ServiceAssumption, NEW c \in Calls, NEW s, NEW left, Ready(c, s, left),
           NEW circs \in [Routes -> Circuits], NEW cut \in 0..Len(left),
           Proceed(c, s, left, circs, cut)
    PROVE  SoundMove(c) /\ circuits' \in [Routes -> Circuits]
  <1> DEFINE open == {i \in 1..cut : ~Refuses(circs[left[i]])}
             i == Min(open)
  <1>1. Len(left) \in Nat
    BY LeftsAreSeqs DEF Ready
  <1>2. CASE open = {}
    <2>1. /\ call' = [call EXCEPT ![c] = Settle(c, GiveUp(s, left, cut))]
          /\ circuits' = circs
      BY <1>2 DEF Proceed
    <2>2. Sound(c, Settle(c, GiveUp(s, left, cut)))
      BY GiveUpIsSound, SettleIsSound
    <2> QED
      BY <2>1, <2>2, SoundMoveBy
  <1>3. CASE open # {}
    <2>1. /\ call' = [call EXCEPT ![c] = Attempt(s, left, i)]
          /\ circuits' = [circs EXCEPT ![left[i]] = Admit(@)]
      BY <1>3 DEF Proceed
    <2>2. i \in 1..Len(left)
      <3>1. open \in SUBSET Nat /\ open \subseteq 1..Len(left)
        BY <1>1
      <3> HIDE DEF open
      <3> QED
        BY <1>3, <3>1, MinIsThere
    <2>3. Sound(c, Attempt(s, left, i))
      <3> HIDE DEF i
      <3> QED
        BY <2>2, AttemptIsSound
    <2>4. circuits' \in [Routes -> Circuits]
      <3> HIDE DEF i
      <3>1. ASSUME NEW r \in Routes
            PROVE  Admit(circs[r]) \in Circuits
        BY CircuitTypes
      <3> QED
        BY <2>1, <3>1
    <2> QED
      BY <2>1, <2>3, <2>4, SoundMoveBy
  <1> QED
    BY <1>2, <1>3

\* A failed attempt.
LEMMA FallbackIsSound ==
    ASSUME ServiceAssumption, NEW c \in Calls, Sound(c, call[c]),
           call[c].pc \in {"calling", "sending"}, NEW circs \in [Routes -> Circuits],
           NEW cuts \in SUBSET (0..Len(call[c].left)), Fallback(c, circs, cuts)
    PROVE  SoundMove(c) /\ circuits' \in [Routes -> Circuits]
  <1> DEFINE s == [call[c] EXCEPT !.fallbacks = @ + 1, !.failed = TRUE]
             left == call[c].left
  <1>1. PICK cut \in cuts : Proceed(c, s, left, circs, cut)
    BY DEF Fallback
  <1>2. left \in Lefts /\ left \in Seq(Routes) /\ Len(left) \in Nat /\ MaxCandidates \in Nat
    BY LeftsAreSeqs, CandidatesFit DEF Sound, CallState, Lefts
  <1>3. /\ call[c].fallbacks \in Nat /\ call[c].candidates \in 0..MaxCandidates
        /\ call[c].fallbacks + 1 + Len(left) = call[c].candidates
    BY <1>2 DEF Sound, CallState, Counted, Attempting
  <1>4. call[c].fallbacks + 1 \in 0..MaxCandidates
    BY <1>2, <1>3
  <1>5. /\ s \in CallState /\ s.fallbacks = call[c].fallbacks + 1 /\ s.failed
        /\ s.candidates = call[c].candidates /\ s.route = call[c].route
        /\ s.forced = call[c].forced /\ s.lane = call[c].lane /\ s.prompts = call[c].prompts
    BY <1>4 DEF Sound, CallState
  <1>6. Ready(c, s, left)
    <2> HIDE DEF s, left
    <2>1. /\ User(c) => s.lane \in OnlineLanes /\ s.prompts <= 1
          /\ c.kind = "shadow" => s.forced = Candidate
      BY <1>5 DEF Sound, Origin, Waiting
    <2>2. /\ s.route \in Routes
          /\ s.forced # NoRoute =>
               s.route = s.forced /\ \A i \in 1..Len(left) : left[i] = s.forced
      BY <1>5 DEF Sound, OnRoute, HasRoute, left
    <2>3. s.fallbacks + Len(left) = s.candidates /\ s.fallbacks > 0
      BY <1>2, <1>3, <1>5
    <2> QED
      BY <1>2, <1>5, <2>1, <2>2, <2>3 DEF Ready
  <1>7. cut \in 0..Len(left)
    OBVIOUS
  <1> HIDE DEF s, left
  <1> QED
    BY <1>1, <1>6, <1>7, ProceedIsSound

\* A call that is about to be routed.
Early(c, s) ==
    /\ s \in CallState /\ s.fallbacks = 0 /\ ~s.failed /\ s.left = <<>>
    /\ User(c) => s.lane \in OnlineLanes /\ s.prompts <= 1
    /\ c.kind = "shadow" => s.forced = Candidate

LEMMA DecideIsSound ==
    ASSUME ServiceAssumption, circuits \in [Routes -> Circuits],
           NEW c \in Calls, NEW s, Early(c, s), Decide(c, s)
    PROVE  SoundMove(c) /\ circuits' \in [Routes -> Circuits]
  <1>1. PICK eligible \in SUBSET Routes :
          LET cands == {r \in eligible : IsAvailable(circuits[r])}
              advanced == [r \in Routes |-> Advance(circuits[r])]
          IN  /\ s.forced # NoRoute => eligible \subseteq {s.forced}
              /\ \/ /\ cands = {}
                    /\ call' = [call EXCEPT ![c] = Over("rejected")]
                    /\ circuits' = advanced
                 \/ \E order \in SetToSeqs(cands) : \E cut \in 0..Len(order) :
                      /\ cands # {}
                      /\ s.lane.preferred \in cands => order[1] = s.lane.preferred
                      /\ Proceed(c, [s EXCEPT !.candidates = Len(order)], order, advanced, cut)
    BY DEF Decide
  <1> DEFINE cands == {r \in eligible : IsAvailable(circuits[r])}
             advanced == [r \in Routes |-> Advance(circuits[r])]
  <1>2. advanced \in [Routes -> Circuits]
    BY CircuitTypes
  <1>3. cands \in SUBSET Routes
    OBVIOUS
  <1> HIDE DEF advanced
  <1>4. CASE call' = [call EXCEPT ![c] = Over("rejected")] /\ circuits' = advanced
    BY <1>2, <1>4, RestIsSound, SoundMoveBy DEF Ended
  <1>5. ASSUME NEW order \in SetToSeqs(cands), NEW cut \in 0..Len(order), cands # {},
               Proceed(c, [s EXCEPT !.candidates = Len(order)], order, advanced, cut)
        PROVE  SoundMove(c) /\ circuits' \in [Routes -> Circuits]
    <2> DEFINE u == [s EXCEPT !.candidates = Len(order)]
    <2>1. /\ Cardinality(cands) \in 1..MaxCandidates /\ MaxCandidates \in Nat
      <3>1. Cardinality(cands) \in 0..MaxCandidates /\ Cardinality(cands) > 0 /\ MaxCandidates \in Nat
        BY <1>3, <1>5, CandidatesFit
      <3> QED
        BY <3>1
    <2>2. order \in [1..Cardinality(cands) -> cands]
      BY <1>5 DEF SetToSeqs
    <2>3. order \in Seq(Routes) /\ Len(order) = Cardinality(cands)
      <3> DEFINE n == Cardinality(cands)
      <3>1. n \in Nat
        BY <2>1
      <3>2. order \in [1..n -> Routes]
        BY <1>3, <2>2
      <3> HIDE DEF n
      <3>3. order \in Seq(Routes) /\ Len(order) = n
        BY <3>1, <3>2
      <3> QED
        BY <3>3 DEF n
    <2>4. order \in Lefts
      BY <2>1, <2>3, LeftsAreSeqs
    <2>5. s.forced # NoRoute => \A i \in 1..Len(order) : order[i] = s.forced
      BY <1>1, <2>2, <2>3
    <2>6. /\ u \in CallState /\ u.fallbacks = 0 /\ ~u.failed
          /\ u.candidates = Len(order) /\ u.forced = s.forced /\ u.lane = s.lane
          /\ u.prompts = s.prompts
      BY <2>1, <2>3 DEF Early, CallState
    <2>7. Ready(c, u, order)
      <3> HIDE DEF u, cands
      <3> QED
        BY <2>1, <2>3, <2>4, <2>5, <2>6 DEF Ready, Early
    <2> HIDE DEF u
    <2> QED
      BY <1>2, <1>5, <2>7, ProceedIsSound DEF u
  <1> QED
    BY <1>1, <1>4, <1>5 DEF advanced

-----------------------------------------------------------------------------
(* The steps of a call.                                                    *)

\* The namespace of a call that is forced or has been assigned a lane.
LEMMA NamespaceIsTyped ==
    ASSUME ServiceAssumption, NEW s \in CallState, s.forced # NoRoute \/ s.lane \in OnlineLanes
    PROVE  /\ Namespace(s) \in Namespaces
           /\ s.forced # NoRoute => Namespace(s) = <<"forced", s.forced>>
           /\ Namespace(s)[1] = "forced" => s.forced # NoRoute /\ s.forced = Namespace(s)[2]
  <1>1. CASE s.forced # NoRoute
    <2>1. Namespace(s) = <<"forced", s.forced>> /\ s.forced \in Routes
      BY <1>1 DEF Namespace, CallState
    <2> QED
      BY <2>1 DEF Namespaces
  <1>2. CASE s.forced = NoRoute /\ s.lane.release
    <2>1. Namespace(s) = <<"release", s.lane.preferred>> /\ s.lane.preferred \in Routes
      BY <1>2, LanesAreTyped DEF Namespace
    <2> QED
      BY <1>2, <2>1 DEF Namespaces
  <1>3. CASE s.forced = NoRoute /\ ~s.lane.release
    <2>1. Namespace(s) = <<"default", NoRoute>>
      BY <1>3 DEF Namespace
    <2> QED
      BY <1>3, <2>1 DEF Namespaces
  <1> QED
    BY <1>1, <1>2, <1>3

\* A cached answer has the route its namespace demands.
LEMMA HitIsSound ==
    ASSUME ServiceAssumption, Inv, Sane, NEW c \in Calls, NEW s, Early(c, s),
           s.forced # NoRoute \/ s.lane \in OnlineLanes,
           cache[Namespace(s)] # NoEntry,
           NEW pc \in {"hit_start", "record_hit"}
    PROVE  Sound(c, [s EXCEPT !.pc = pc, !.route = rows[cache[Namespace(s)]][1].route])
  <1> DEFINE n == Namespace(s)
             w == rows[cache[n]][1]
             t == [s EXCEPT !.pc = pc, !.route = w.route]
  <1>1. s \in CallState
    BY DEF Early
  <1>2. n \in Namespaces /\ (s.forced # NoRoute => n = <<"forced", s.forced>>)
    BY <1>1, NamespaceIsTyped
  <1>3. cache[n] \in Calls /\ rows[cache[n]] # <<>> /\ w.namespace = n
    BY <1>2 DEF Inv, CachedIsRecorded, CacheLaneIsolation
  <1>4. RowFits(cache[n], w)
    BY <1>3 DEF Sane, SoundRows
  <1>5. w.route \in Routes /\ (s.forced # NoRoute => w.route = s.forced)
    BY <1>2, <1>3, <1>4 DEF RowFits, Row
  <1> HIDE DEF w, n
  <1>6. t \in CallState
    BY <1>1, <1>5 DEF CallState, Waiting
  <1>7. /\ t.pc = pc /\ t.route = w.route /\ t.left = <<>> /\ t.forced = s.forced
        /\ t.lane = s.lane /\ t.prompts = s.prompts
    BY <1>1 DEF CallState, Early
  <1> HIDE DEF t
  <1>8. Origin(c, t)
    BY <1>7 DEF Origin, Early
  <1>9. Unrouted(c, t) /\ Counted(c, t)
    BY <1>7 DEF Unrouted, Counted, Attempting
  <1>10. OnRoute(t)
    BY <1>5, <1>7 DEF OnRoute
  <1> QED
    BY <1>6, <1>8, <1>9, <1>10 DEF Sound, t, w, n

LEMMA LookupIsSound ==
    ASSUME ServiceAssumption, Inv, Sane, NEW c \in Calls, NEW s, Early(c, s),
           s.forced # NoRoute \/ s.lane \in OnlineLanes, Lookup(c, s)
    PROVE  SoundMove(c) /\ circuits' \in [Routes -> Circuits]
  <1>1. circuits \in [Routes -> Circuits]
    BY DEF Sane, SoundShared
  <1>2. CASE Decide(c, s)
    BY <1>1, <1>2, DecideIsSound
  <1>3. CASE ~Decide(c, s)
    <2> DEFINE pc == IF c.kind = "stream" THEN "hit_start" ELSE "record_hit"
               t == [s EXCEPT !.pc = pc, !.route = rows[cache[Namespace(s)]][1].route]
    <2>1. cache[Namespace(s)] # NoEntry /\ call' = [call EXCEPT ![c] = t] /\ circuits' = circuits
      BY <1>3 DEF Lookup
    <2>2. pc \in {"hit_start", "record_hit"}
      OBVIOUS
    <2> HIDE DEF pc
    <2>3. Sound(c, t)
      BY <2>1, <2>2, HitIsSound
    <2> HIDE DEF t
    <2> QED
      BY <1>1, <2>1, <2>3, SoundMoveBy
  <1> QED
    BY <1>2, <1>3

\* A call with a route in hand moves on.
LEMMA OnwardIsSound ==
    ASSUME ServiceAssumption, NEW c \in Calls, Sound(c, call[c]), call[c].pc \in HasRoute,
           NEW pc \in HasRoute \ {"record_error"},
           pc \in Attempting => call[c].pc \in Attempting
    PROVE  Sound(c, [call[c] EXCEPT !.pc = pc])
  <1> DEFINE s == call[c]
             t == [s EXCEPT !.pc = pc]
  <1>1. s \in CallState /\ pc \in Waiting /\ s.pc \in Waiting
    BY DEF Sound, HasRoute, Waiting
  <1>2. t \in CallState
    BY <1>1 DEF CallState
  <1>3. /\ t.pc = pc /\ t.route = s.route /\ t.left = s.left /\ t.forced = s.forced
        /\ t.lane = s.lane /\ t.prompts = s.prompts /\ t.fallbacks = s.fallbacks
        /\ t.failed = s.failed /\ t.candidates = s.candidates
    BY <1>1 DEF CallState
  <1> HIDE DEF t
  <1>4. Origin(c, t)
    BY <1>1, <1>3 DEF Origin, Sound
  <1>5. Unrouted(c, t)
    BY <1>3 DEF Unrouted, HasRoute
  <1>6. OnRoute(t)
    BY <1>3 DEF OnRoute, Sound
  <1>7. Counted(c, t)
    BY <1>3 DEF Counted, Sound
  <1> QED
    BY <1>2, <1>4, <1>5, <1>6, <1>7 DEF Sound, t

\* What a call may start with.
Blank(s) ==
    /\ s \in CallState /\ s.left = <<>> /\ s.lane = BlankLane /\ s.prompts = 0
    /\ s.fallbacks = 0 /\ ~s.failed

LEMMA BlankStarters ==
    ASSUME ServiceAssumption
    PROVE  /\ \A uses \in BOOLEAN, mode \in CacheModes :
                 Blank([NotMade EXCEPT !.usesPrompt = uses, !.mode = mode])
           /\ \A r \in Routes : /\ Blank([NotMade EXCEPT !.mode = "default", !.forced = r])
                                /\ Blank([NotMade EXCEPT !.forced = r])
  <1>1. Blank(NotMade)
    BY NotMadeIsTyped DEF NotMade, Blank
  <1>2. CacheModes \subseteq {"default", "refresh", "bypass"}
    BY DEF ServiceAssumption
  <1> QED
    BY <1>1, <1>2 DEF Blank, CallState

LEMMA StartIsSound ==
    ASSUME ServiceAssumption, NEW c \in Calls, c.kind # "shadow",
           NEW s, Blank(s), Start(c, s)
    PROVE  SoundMove(c) /\ circuits' = circuits /\ UNCHANGED Shared
  <1> DEFINE t == [s EXCEPT !.pc = "resolving"]
  <1>1. t \in CallState
    BY DEF Blank, CallState, Waiting
  <1>2. /\ t.pc = "resolving" /\ t.left = <<>> /\ t.lane = BlankLane /\ t.prompts = 0
        /\ t.fallbacks = 0 /\ ~t.failed
    BY DEF Blank, CallState
  <1> HIDE DEF t
  <1>3. Sound(c, t)
    BY <1>1, <1>2, LanesAreTyped DEF Sound, Origin, Unrouted, OnRoute, Counted, HasRoute, Attempting
  <1> QED
    BY <1>3, SoundMoveBy DEF Start, t

\* A stream is interrupted with the route it has in hand.
LEMMA InterruptIsSound ==
    ASSUME ServiceAssumption, NEW c \in Calls, c.kind = "stream", Sound(c, call[c]),
           call[c].pc = "calling"
    PROVE  Sound(c, [call[c] EXCEPT !.pc = "record_error", !.failed = TRUE, !.left = <<>>])
  <1> DEFINE s == call[c]
             t == [s EXCEPT !.pc = "record_error", !.failed = TRUE, !.left = <<>>]
  <1>1. s \in CallState /\ <<>> \in Lefts
    <2>1. NotMade \in CallState
      BY RestIsSound DEF Ended
    <2> QED
      BY <2>1 DEF Sound, CallState, NotMade, Lefts
  <1>2. t \in CallState
    BY <1>1 DEF CallState, Lefts, Waiting
  <1>3. /\ t.pc = "record_error" /\ t.route = s.route /\ t.left = <<>> /\ t.forced = s.forced
        /\ t.lane = s.lane /\ t.prompts = s.prompts /\ t.fallbacks = s.fallbacks
        /\ t.failed /\ t.candidates = s.candidates
    BY <1>1 DEF CallState
  <1> HIDE DEF t
  <1>4. Origin(c, t) /\ Unrouted(c, t)
    BY <1>3 DEF Origin, Unrouted, Sound
  <1>5. OnRoute(t)
    BY <1>3 DEF OnRoute, Sound, HasRoute
  <1>6. Counted(c, t)
    <2>1. /\ s.fallbacks + 1 + Len(s.left) = s.candidates
          /\ s.fallbacks \in Int /\ s.candidates \in Int
      BY <1>1 DEF Sound, Counted, Attempting, CallState
    <2>2. Len(s.left) \in Nat
      BY <1>1, LeftsAreSeqs DEF CallState, Lefts
    <2> QED
      BY <1>3, <2>1, <2>2 DEF Counted, Attempting
  <1> QED
    BY <1>2, <1>4, <1>5, <1>6 DEF Sound, t

\* What the steps of a call that write no evidence have in common.
Quiet(c) == SoundMove(c) /\ circuits' \in [Routes -> Circuits] /\ UNCHANGED Shared

\* The call of c ends without evidence.
LEMMA EndIsSound ==
    ASSUME ServiceAssumption, NEW c \in Calls, NEW e \in Ended, End(c, e)
    PROVE  SoundMove(c)
  BY RestIsSound, SoundMoveBy DEF End

\* The prompt is resolved once more than it was.
LEMMA ResolvedIsEarly ==
    ASSUME ServiceAssumption, NEW c \in Calls, Sound(c, call[c]), At(c, "resolving")
    PROVE  LET s == [call[c] EXCEPT !.prompts = Prompted(c, call[c])]
           IN  Early(c, s) /\ s.forced = call[c].forced /\ s.prompts \in 0..2
  <1> DEFINE p == Prompted(c, call[c])
             s == [call[c] EXCEPT !.prompts = p]
  <1>1. call[c] \in CallState /\ call[c].pc = "resolving"
    BY DEF Sound, At
  <1>2. p \in 0..2 /\ (User(c) => p <= 1)
    <2>1. call[c].prompts \in 0..2 /\ call[c].prompts <= IF User(c) THEN 0 ELSE 1
      BY <1>1 DEF Sound, Unrouted, CallState
    <2> QED
      BY <2>1 DEF Prompted
  <1> HIDE DEF p
  <1>3. /\ s \in CallState /\ s.prompts = p /\ s.forced = call[c].forced /\ s.lane = call[c].lane
        /\ s.fallbacks = call[c].fallbacks /\ s.failed = call[c].failed /\ s.left = call[c].left
    BY <1>1, <1>2 DEF CallState
  <1> HIDE DEF s
  <1>4. /\ call[c].fallbacks = 0 /\ ~call[c].failed /\ call[c].left = <<>>
        /\ User(c) => call[c].lane \in OnlineLanes
        /\ c.kind = "shadow" => call[c].forced = Candidate
    BY <1>1 DEF Sound, Unrouted, Origin, Waiting
  <1> QED
    BY <1>2, <1>3, <1>4 DEF Early, s, p

LEMMA ResolveIsSound ==
    ASSUME ServiceAssumption, Inv, Sane, NEW c \in Calls, Resolve(c)
    PROVE  Quiet(c)
  <1> DEFINE s == [call[c] EXCEPT !.prompts = Prompted(c, call[c])]
             t == [s EXCEPT !.pc = "assigning"]
  <1>1. Sound(c, call[c]) /\ At(c, "resolving") /\ circuits \in [Routes -> Circuits]
    BY DEF Sane, SoundCalls, SoundShared, Resolve
  <1>2. Early(c, s) /\ s.forced = call[c].forced /\ s.prompts \in 0..2
    BY <1>1, ResolvedIsEarly
  <1>3. \/ s.forced = NoRoute /\ call' = [call EXCEPT ![c] = t] /\ circuits' = circuits
        \/ s.forced # NoRoute /\ Lookup(c, s)
    BY DEF Resolve
  <1>4. UNCHANGED Shared
    BY DEF Resolve
  <1> HIDE DEF s
  <1>5. CASE s.forced # NoRoute
    BY <1>2, <1>3, <1>4, <1>5, LookupIsSound DEF Quiet
  <1>6. CASE s.forced = NoRoute
    <2>1. t \in CallState
      BY <1>2 DEF Early, CallState, Waiting
    <2>2. /\ t.pc = "assigning" /\ t.left = <<>> /\ t.lane = s.lane /\ t.prompts = s.prompts
          /\ t.fallbacks = 0 /\ ~t.failed /\ t.forced = s.forced
      BY <1>2 DEF Early, CallState
    <2> HIDE DEF t
    <2>3. Sound(c, t)
      BY <1>2, <2>1, <2>2 DEF Sound, Origin, Unrouted, OnRoute, Counted, HasRoute, Attempting, Early
    <2> QED
      BY <1>1, <1>3, <1>4, <1>6, <2>3, SoundMoveBy DEF Quiet
  <1> QED
    BY <1>5, <1>6

LEMMA AssignIsSound ==
    ASSUME ServiceAssumption, Inv, Sane, NEW c \in Calls, Assign(c)
    PROVE  Quiet(c)
  <1>0. PICK live \in LiveStates :
          \E l \in LanesFor(live) : Lookup(c, [call[c] EXCEPT !.lane = l])
    BY DEF Assign
  <1>1. PICK l \in LanesFor(live) : Lookup(c, [call[c] EXCEPT !.lane = l])
    BY <1>0
  <1>2. l \in OnlineLanes
    BY LanesAreTyped
  <1> DEFINE s == [call[c] EXCEPT !.lane = l]
  <1>3. Sound(c, call[c]) /\ call[c].pc = "assigning"
    BY DEF Sane, SoundCalls, Assign, At
  <1>4. /\ s \in CallState /\ s.lane = l /\ s.forced = call[c].forced /\ s.left = call[c].left
        /\ s.fallbacks = call[c].fallbacks /\ s.failed = call[c].failed
        /\ s.prompts = call[c].prompts
    BY <1>2, <1>3 DEF Sound, CallState
  <1> HIDE DEF s
  <1>5. Early(c, s)
    BY <1>2, <1>3, <1>4 DEF Early, Sound, Origin, Unrouted, Waiting
  <1>6. SoundMove(c) /\ circuits' \in [Routes -> Circuits]
    BY <1>1, <1>2, <1>4, <1>5, LookupIsSound DEF s
  <1> QED
    BY <1>6 DEF Quiet, Assign

\* The steps of any call that write no evidence.
LEMMA QuietStepsAreSound ==
    ASSUME ServiceAssumption, Inv, Sane, NEW c \in Calls,
           \/ Request(c) \/ ForcedRequest(c) \/ Evaluate(c)
           \/ Resolve(c) \/ Reject(c) \/ Assign(c)
           \/ Answer(c) \/ ViolateSchema(c) \/ FailAttempt(c) \/ Abort(c)
    PROVE  Quiet(c)
  <1>1. /\ circuits \in [Routes -> Circuits] /\ Sound(c, call[c])
    BY DEF Sane, SoundCalls, SoundShared
  <1>2. ASSUME NEW s, Blank(s), Start(c, s), c.kind # "shadow"
        PROVE  Quiet(c)
    BY <1>1, <1>2, StartIsSound DEF Quiet
  <1>3. CASE Request(c)
    BY <1>2, <1>3, BlankStarters DEF Request, ServiceAssumption
  <1>4. CASE ForcedRequest(c) \/ Evaluate(c)
    BY <1>2, <1>4, BlankStarters DEF ForcedRequest, Evaluate, ServiceAssumption
  <1>5. CASE Resolve(c) \/ Assign(c)
    BY <1>5, ResolveIsSound, AssignIsSound
  <1>6. CASE Reject(c) \/ Abort(c)
    BY <1>1, <1>6, EndIsSound DEF Quiet, Reject, Abort, Ended
  <1>7. CASE Answer(c)
    <2>1. call[c].pc = "calling" /\ call[c].route \in Routes
      BY <1>1, <1>7 DEF Answer, Completing, At, Sound, OnRoute, HasRoute
    <2>2. circuits' \in [Routes -> Circuits]
      <3>1. circuits' = [circuits EXCEPT ![call[c].route] = Success(@)]
        BY <1>7 DEF Answer
      <3> QED
        BY <1>1, <2>1, <3>1, CircuitTypes
    <2>3. SoundMove(c)
      <3>1. CASE c.kind = "evaluation"
        BY <1>7, <3>1, EndIsSound DEF Answer, Ended
      <3>2. CASE c.kind # "evaluation"
        <4>1. Sound(c, [call[c] EXCEPT !.pc = "record_ok"])
          BY <1>1, <2>1, OnwardIsSound DEF HasRoute, Attempting
        <4> QED
          BY <1>7, <3>2, <4>1, SoundMoveBy DEF Answer
      <3> QED
        BY <3>1, <3>2
    <2> QED
      BY <1>7, <2>2, <2>3 DEF Quiet, Answer
  <1>8. CASE ViolateSchema(c) \/ FailAttempt(c)
    <2>1. call[c].pc = "calling" /\ call[c].route \in Routes
      BY <1>1, <1>8 DEF ViolateSchema, FailAttempt, Completing, At, Sound, OnRoute, HasRoute
    <2>2. [circuits EXCEPT ![call[c].route] = Failure(@)] \in [Routes -> Circuits]
      BY <1>1, <2>1, CircuitTypes
    <2>3. PICK circs \in [Routes -> Circuits] : Fallback(c, circs, 0..Len(call[c].left))
      BY <1>1, <1>8, <2>2 DEF ViolateSchema, FailAttempt
    <2> QED
      BY <1>1, <1>8, <2>1, <2>3, FallbackIsSound DEF Quiet, ViolateSchema, FailAttempt
  <1> QED
    BY <1>2, <1>3, <1>4, <1>5, <1>6, <1>7, <1>8

\* The steps of a stream that write no evidence.
LEMMA QuietStreamStepsAreSound ==
    ASSUME ServiceAssumption, Inv, Sane, NEW c \in StreamCalls,
           \/ OpenStream(c) \/ OpenForcedStream(c) \/ ReadEvent(c) \/ Take(c) \/ Finish(c)
           \/ StreamViolatesSchema(c) \/ ProviderFails(c) \/ StreamTimesOut(c) \/ TakeHit(c)
           \/ TakeDone(c)
    PROVE  c \in Calls /\ Quiet(c)
  <1>1. c \in Calls /\ c.kind = "stream"
    BY DEF StreamCalls, Calls
  <1>2. circuits \in [Routes -> Circuits] /\ Sound(c, call[c])
    BY <1>1 DEF Sane, SoundCalls, SoundShared
  <1>3. ASSUME NEW s, Blank(s), Start(c, s)
        PROVE  Quiet(c)
    BY <1>1, <1>2, <1>3, StartIsSound DEF Quiet
  <1>4. CASE OpenStream(c) \/ OpenForcedStream(c)
    BY <1>1, <1>3, <1>4, BlankStarters DEF OpenStream, OpenForcedStream, ServiceAssumption
  <1>5. CASE ReadEvent(c) \/ Take(c)
    <2>1. call[c].pc \in {"calling", "sending"} /\ circuits' = circuits /\ UNCHANGED Shared
      BY <1>5 DEF ReadEvent, Take, Reading, At
    <2>2. PICK pc \in {"calling", "sending"} : call' = [call EXCEPT ![c].pc = pc]
      BY <1>5 DEF ReadEvent, Take, Yield
    <2>3. Sound(c, [call[c] EXCEPT !.pc = pc])
      BY <1>1, <1>2, <2>1, OnwardIsSound DEF HasRoute, Attempting
    <2> QED
      BY <1>1, <1>2, <2>1, <2>2, <2>3, SoundMoveBy DEF Quiet
  <1>6. CASE TakeHit(c)
    <2>1. call[c].pc \in {"hit_start", "hit_delta"} /\ circuits' = circuits /\ UNCHANGED Shared
      BY <1>6 DEF TakeHit, At
    <2>2. PICK pc \in {"hit_delta", "record_hit"} : call' = [call EXCEPT ![c].pc = pc]
      BY <1>6 DEF TakeHit
    <2>3. Sound(c, [call[c] EXCEPT !.pc = pc])
      BY <1>1, <1>2, <2>1, OnwardIsSound DEF HasRoute, Attempting
    <2> QED
      BY <1>1, <1>2, <2>1, <2>2, <2>3, SoundMoveBy DEF Quiet
  <1>7. CASE Finish(c)
    <2>1. call[c].pc = "calling" /\ call[c].route \in Routes
      BY <1>2, <1>7 DEF Finish, Reading, At, Sound, OnRoute, HasRoute
    <2>2. circuits' \in [Routes -> Circuits]
      <3>1. circuits' = [circuits EXCEPT ![call[c].route] = Success(@)]
        BY <1>7 DEF Finish
      <3> QED
        BY <1>2, <2>1, <3>1, CircuitTypes
    <2>3. Sound(c, [call[c] EXCEPT !.pc = "record_ok"])
      BY <1>1, <1>2, <2>1, OnwardIsSound DEF HasRoute, Attempting
    <2> QED
      BY <1>1, <1>7, <2>2, <2>3, SoundMoveBy DEF Quiet, Finish
  <1>8. CASE StreamViolatesSchema(c) \/ ProviderFails(c) \/ StreamTimesOut(c)
    <2>1. call[c].pc = "calling" /\ call[c].route \in Routes /\ UNCHANGED Shared
      BY <1>2, <1>8 DEF StreamViolatesSchema, ProviderFails, StreamTimesOut, FailStream,
                        Reading, At, Sound, OnRoute, HasRoute
    <2>2. [circuits EXCEPT ![call[c].route] = Failure(@)] \in [Routes -> Circuits]
      BY <1>2, <2>1, CircuitTypes
    <2>3. Len(call[c].left) \in Nat
      BY <1>2, LeftsAreSeqs DEF Sound, CallState, Lefts
    <2>4. {0} \subseteq 0..Len(call[c].left)
      BY <2>3
    <2>5. PICK circs \in [Routes -> Circuits], cuts \in SUBSET (0..Len(call[c].left)) :
             NextOrInterrupt(c, circs, cuts)
      BY <1>2, <1>8, <2>2, <2>4 DEF StreamViolatesSchema, ProviderFails, StreamTimesOut, FailStream
    <2>6. CASE Fallback(c, circs, cuts)
      BY <1>1, <1>2, <2>1, <2>6, FallbackIsSound DEF Quiet
    <2>7. CASE ~Fallback(c, circs, cuts)
      <3> DEFINE t == [call[c] EXCEPT !.pc = "record_error", !.failed = TRUE, !.left = <<>>]
      <3>1. call' = [call EXCEPT ![c] = t] /\ circuits' = circs
        BY <2>5, <2>7 DEF NextOrInterrupt, Interrupt
      <3>2. Sound(c, t)
        BY <1>1, <1>2, <2>1, InterruptIsSound
      <3> HIDE DEF t
      <3> QED
        BY <1>1, <2>1, <3>1, <3>2, SoundMoveBy DEF Quiet
    <2> QED
      BY <2>6, <2>7
  <1>9. CASE TakeDone(c)
    BY <1>1, <1>2, <1>9, EndIsSound DEF Quiet, TakeDone, Ended
  <1> QED
    BY <1>1, <1>3, <1>4, <1>5, <1>6, <1>7, <1>8, <1>9

-----------------------------------------------------------------------------
(* The steps that write evidence.                                          *)

Recording(c) == c.kind # "evaluation" /\ call[c].pc \in {"record_ok", "record_hit", "record_error"}

\* A row says what its call had in hand.
LEMMA RowOfFits ==
    ASSUME ServiceAssumption, Inv, Sane, NEW c \in Calls, Recording(c),
           NEW success \in BOOLEAN, NEW hit \in BOOLEAN
    PROVE  RowFits(c, RowOf(c, success, hit))
  <1> DEFINE s == call[c]
  <1>1. /\ s \in CallState /\ s.route \in Routes
        /\ s.forced # NoRoute => s.route = s.forced
        /\ User(c) => s.lane \in OnlineLanes
        /\ c.kind = "shadow" => s.forced = Candidate
    BY DEF Sane, SoundCalls, Sound, Origin, OnRoute, HasRoute, Recording, Waiting
  <1>2. c.kind \in {"online", "stream", "shadow"}
    BY KindsOfCalls DEF Recording
  <1>3. s.forced # NoRoute \/ s.lane \in OnlineLanes
    BY <1>1, <1>2 DEF User, ServiceAssumption
  <1>4. /\ Namespace(s) \in Namespaces
        /\ Namespace(s)[1] = "forced" => s.forced # NoRoute /\ s.forced = Namespace(s)[2]
    BY <1>1, <1>3, NamespaceIsTyped
  <1>5. s.lane.canary \in BOOLEAN
    BY <1>1, LanesAreTyped DEF CallState
  <1> DEFINE r == RowOf(c, success, hit)
  <1>6. /\ r \in Row /\ r.namespace = Namespace(s) /\ r.route = s.route
    BY <1>1, <1>2, <1>4, <1>5 DEF RowOf, Row
  <1> HIDE DEF r
  <1>7. c.kind = "shadow" => r.route = Candidate
    BY <1>1, <1>6 DEF ServiceAssumption
  <1> QED
    BY <1>1, <1>4, <1>6, <1>7 DEF RowFits, r

LEMMA WriteRowIsSound ==
    ASSUME ServiceAssumption, Inv, Sane, NEW c \in Calls, Recording(c),
           NEW success \in BOOLEAN, NEW hit \in BOOLEAN, WriteRow(c, success, hit)
    PROVE  SoundRows'
  <1>1. rows[c] = <<>> /\ DOMAIN rows = Calls
    BY DEF Inv, Shape, EvidenceIsComplete, Recording, At
  <1> DEFINE r == RowOf(c, success, hit)
  <1>2. RowFits(c, r)
    BY RowOfFits
  <1> HIDE DEF r
  <1>3. /\ rows'[c] = Append(<<>>, r)
        /\ \A d \in Calls : d # c => rows'[d] = rows[d]
    BY <1>1 DEF WriteRow, r
  <1>4. Len(rows'[c]) = 1 /\ rows'[c][1] = r
    BY <1>3, OneRow
  <1> QED
    BY <1>2, <1>3, <1>4 DEF Sane, SoundRows, RowFits

\* A move of one call leaves the others sound.
LEMMA MoveKeepsCalls ==
    ASSUME Sane, NEW c \in Calls, SoundMove(c)
    PROVE  SoundCalls'
  <1>1. PICK t : Sound(c, t) /\ call' = [call EXCEPT ![c] = t]
    BY DEF SoundMove
  <1>2. t \in CallState /\ call \in [Calls -> CallState]
    BY <1>1 DEF Sane, SoundCalls, Sound
  <1>3. call' \in [Calls -> CallState]
    BY <1>1, <1>2
  <1>4. ASSUME NEW d \in Calls PROVE Sound(d, call'[d])
    <2>1. call'[d] = IF d = c THEN t ELSE call[d]
      BY <1>1, <1>2
    <2> QED
      BY <1>1, <2>1 DEF Sane, SoundCalls
  <1> QED
    BY <1>3, <1>4 DEF SoundCalls

\* Only a user's call in the canary cohort starts an assessment.
LEMMA AssessedIsTyped ==
    ASSUME ServiceAssumption, Inv, Sane, NEW c \in Calls
    PROVE  Assessed(c) \subseteq Assessments
  <1>1. assessing \subseteq Assessments
    BY DEF Sane, SoundShared
  <1>2. call[c].lane.canary => User(c)
    BY DEF Inv, ForcedApart
  <1>3. User(c) => AssessmentOf(c) \in Assessments
    BY DEF User, Calls, AssessmentOf, Assessments, ServiceAssumption
  <1> QED
    BY <1>1, <1>2, <1>3 DEF Assessed

\* The shadow of a user's call has its prompt, and the candidate to go to.
LEMMA ShadowIsSound ==
    ASSUME ServiceAssumption, Sane, NEW c \in Calls, User(c), call[c].pc \in Waiting
    PROVE  Sound(ShadowOf(c), [NotMade EXCEPT !.pc = "resolving", !.forced = Candidate,
                                   !.lane = ShadowLane, !.usesPrompt = call[c].usesPrompt,
                                   !.prompts = call[c].prompts])
  <1> DEFINE u == [NotMade EXCEPT !.pc = "resolving", !.forced = Candidate,
                       !.lane = ShadowLane, !.usesPrompt = call[c].usesPrompt,
                       !.prompts = call[c].prompts]
             d == ShadowOf(c)
  <1>1. d \in Calls /\ d.kind = "shadow" /\ ~User(d)
    BY ShadowIsAnother DEF User
  <1>2. call[c].usesPrompt \in BOOLEAN /\ call[c].prompts \in 0..2 /\ call[c].prompts <= 1
    BY DEF Sane, SoundCalls, Sound, CallState, Origin
  <1>3. NotMade \in CallState
    BY NotMadeIsTyped
  <1>4. u \in CallState
    BY <1>2, <1>3 DEF CallState, Waiting, ServiceAssumption
  <1>5. /\ u.pc = "resolving" /\ u.forced = Candidate /\ u.prompts = call[c].prompts
        /\ u.left = <<>> /\ u.fallbacks = 0 /\ ~u.failed
    BY DEF NotMade
  <1> HIDE DEF u, d
  <1>6. Sound(d, u)
    BY <1>1, <1>2, <1>4, <1>5 DEF Sound, Origin, Unrouted, OnRoute, Counted, HasRoute, Attempting
  <1> QED
    BY <1>6 DEF u, d

LEMMA LaunchIsSound ==
    ASSUME ServiceAssumption, Inv, Sane, NEW c \in Calls, Recording(c),
           call[c].pc # "record_error", Launch(c)
    PROVE  SoundCalls' /\ assessing' \subseteq Assessments
  <1>1. Sound(c, Concluded(c))
    <2>1. CASE c.kind = "stream"
      <3>1. Sound(c, call[c]) /\ call[c].pc \in HasRoute
        BY DEF Sane, SoundCalls, Recording, HasRoute
      <3>2. Sound(c, [call[c] EXCEPT !.pc = "closing"])
        BY <3>1, OnwardIsSound DEF HasRoute, Attempting
      <3> QED
        BY <2>1, <3>2 DEF Concluded
    <2>2. CASE c.kind # "stream"
      BY <2>2, RestIsSound DEF Concluded, Ended
    <2> QED
      BY <2>1, <2>2
  <1>2. assessing' \subseteq Assessments
    BY AssessedIsTyped DEF Launch, Sane, SoundShared
  <1>3. CASE ~(User(c) /\ call[c].lane.shadow)
    <2>1. call' = [call EXCEPT ![c] = Concluded(c)]
      BY <1>3 DEF Launch
    <2> QED
      BY <1>1, <1>2, <2>1, MoveKeepsCalls, SoundMoveBy
  <1>4. CASE User(c) /\ call[c].lane.shadow
    <2> DEFINE u == [NotMade EXCEPT !.pc = "resolving", !.forced = Candidate,
                         !.lane = ShadowLane, !.usesPrompt = call[c].usesPrompt,
                         !.prompts = call[c].prompts]
               d == ShadowOf(c)
               t == Concluded(c)
    <2>1. Sound(d, u) /\ d \in Calls
      BY <1>4, ShadowIsSound, ShadowIsAnother DEF Recording, Waiting
    <2>2. call' = [call EXCEPT ![c] = t, ![d] = u]
      BY <1>4 DEF Launch
    <2> HIDE DEF u, d, t
    <2>3. Sound(c, t)
      BY <1>1 DEF t
    <2>4. t \in CallState /\ u \in CallState /\ call \in [Calls -> CallState]
      BY <2>1, <2>3 DEF Sane, SoundCalls, Sound
    <2>5. call' \in [Calls -> CallState]
      BY <2>2, <2>4
    <2>6. ASSUME NEW e \in Calls PROVE Sound(e, call'[e])
      <3>1. call'[e] = IF e = d THEN u ELSE IF e = c THEN t ELSE call[e]
        BY <2>1, <2>2, <2>4
      <3> QED
        BY <2>1, <2>3, <3>1 DEF Sane, SoundCalls
    <2> QED
      BY <1>2, <2>5, <2>6 DEF SoundCalls
  <1> QED
    BY <1>3, <1>4

\* The steps that write evidence.
LEMMA EvidenceStepsAreSane ==
    ASSUME ServiceAssumption, Inv, Sane, NEW c \in Calls,
           RecordResponse(c) \/ RecordHit(c) \/ RecordError(c)
    PROVE  Sane'
  <1>1. Recording(c)
    BY DEF RecordResponse, RecordHit, RecordError, Recording, At, Inv, Places
  <1>2. SoundRows'
    BY <1>1, WriteRowIsSound DEF RecordResponse, RecordHit, RecordError
  <1>3. SoundCalls' /\ assessing' \subseteq Assessments
    <2>1. CASE RecordError(c)
      <3>1. SoundMove(c)
        BY <2>1, EndIsSound DEF RecordError, Ended
      <3> QED
        BY <2>1, <3>1, MoveKeepsCalls, AssessedIsTyped DEF RecordError
    <2>2. CASE RecordResponse(c) \/ RecordHit(c)
      <3>1. Launch(c) /\ call[c].pc # "record_error"
        BY <2>2 DEF RecordResponse, RecordHit, At
      <3> QED
        BY <1>1, <3>1, LaunchIsSound
    <2> QED
      BY <2>1, <2>2
  <1>4. cache' \in [Namespaces -> Calls \cup {NoEntry}]
    BY DEF Sane, SoundShared, RecordResponse, RecordHit, RecordError
  <1>5. UNCHANGED <<circuits, phase, awaited>>
    BY DEF RecordResponse, RecordHit, RecordError
  <1> QED
    BY <1>2, <1>3, <1>4, <1>5 DEF Sane, SoundShared

\* A client that leaves, with or without the row of its call.
LEMMA LeaveIsSane ==
    ASSUME ServiceAssumption, Inv, Sane, NEW c \in StreamCalls, Leave(c)
    PROVE  Sane'
  <1>1. c \in Calls /\ c.kind = "stream"
    BY DEF StreamCalls, Calls
  <1>2. SoundCalls'
    BY <1>1, EndIsSound, MoveKeepsCalls DEF Leave, Ended
  <1>3. SoundRows'
    <2>1. CASE UNCHANGED rows
      BY <2>1 DEF Sane, SoundRows, RowFits
    <2>2. CASE ~UNCHANGED rows
      <3>1. Recording(c)
        BY <1>1, <2>2 DEF Leave, Recording, At
      <3> QED
        BY <1>1, <2>2, <3>1, WriteRowIsSound DEF Leave
    <2> QED
      BY <2>1, <2>2
  <1>4. UNCHANGED <<circuits, cache, assessing, phase, awaited>>
    BY DEF Leave
  <1> QED
    BY <1>2, <1>3, <1>4 DEF Sane, SoundShared

\* Steps without evidence.
LEMMA QuietIsSane ==
    ASSUME Sane, NEW c \in Calls, Quiet(c)
    PROVE  Sane'
  <1>1. SoundCalls'
    BY MoveKeepsCalls DEF Quiet
  <1>2. UNCHANGED <<cache, rows, assessing, phase, awaited>> /\ circuits' \in [Routes -> Circuits]
    BY DEF Quiet, Shared
  <1>3. SoundRows'
    BY <1>2 DEF Sane, SoundRows, RowFits
  <1> QED
    BY <1>1, <1>2, <1>3 DEF Sane, SoundShared

\* Steps of no call.
LEMMA BackgroundIsSane ==
    ASSUME Sane,
           \/ \E a \in Assessments : EndAssessment(a)
           \/ \E n \in Namespaces : Evict(n)
           \/ Tick \/ BeginShutdown \/ CloseProviders
    PROVE  Sane'
  <1>1. UNCHANGED <<call, rows>>
    BY DEF EndAssessment, Evict, Tick, BeginShutdown, CloseProviders, Shared
  <1>2. SoundCalls' /\ SoundRows'
    BY <1>1 DEF Sane, SoundCalls, Sound, Origin, Unrouted, OnRoute, Counted, SoundRows, RowFits
  <1>3. circuits' \in [Routes -> Circuits]
    <2>1. CASE Tick
      BY <2>1, CircuitTypes DEF Tick, Sane, SoundShared
    <2>2. CASE ~Tick
      BY <2>2 DEF EndAssessment, Evict, BeginShutdown, CloseProviders, Sane, SoundShared
    <2> QED
      BY <2>1, <2>2
  <1>4. cache' \in [Namespaces -> Calls \cup {NoEntry}]
    BY DEF EndAssessment, Evict, Tick, BeginShutdown, CloseProviders, Shared, Sane, SoundShared
  <1>5. assessing' \subseteq Assessments /\ phase' \in {"open", "draining", "closed"}
    BY DEF EndAssessment, Evict, Tick, BeginShutdown, CloseProviders, Shared, Sane, SoundShared
  <1>6. awaited' \subseteq Calls \cup Assessments
    BY DEF EndAssessment, Evict, Tick, BeginShutdown, CloseProviders, Shared, Sane, SoundShared,
           Background, Running
  <1> QED
    BY <1>2, <1>3, <1>4, <1>5, <1>6 DEF Sane, SoundShared

LEMMA NextKeepsSane ==
    ASSUME ServiceAssumption, Inv, Sane, [StreamNext]_StreamVars
    PROVE  Sane'
  <1>1. ASSUME NEW c \in Calls,
               \/ Request(c) \/ ForcedRequest(c) \/ Evaluate(c)
               \/ Resolve(c) \/ Reject(c) \/ Assign(c)
               \/ Answer(c) \/ ViolateSchema(c) \/ FailAttempt(c) \/ Abort(c)
        PROVE  Sane'
    BY <1>1, QuietStepsAreSound, QuietIsSane
  <1>2. ASSUME NEW c \in StreamCalls,
               \/ OpenStream(c) \/ OpenForcedStream(c) \/ ReadEvent(c) \/ Take(c) \/ Finish(c)
               \/ StreamViolatesSchema(c) \/ ProviderFails(c) \/ StreamTimesOut(c) \/ TakeHit(c)
               \/ TakeDone(c)
        PROVE  Sane'
    BY <1>2, QuietStreamStepsAreSound, QuietIsSane
  <1>3. ASSUME NEW c \in Calls, RecordResponse(c) \/ RecordHit(c) \/ RecordError(c)
        PROVE  Sane'
    BY <1>3, EvidenceStepsAreSane
  <1>4. ASSUME NEW c \in StreamCalls, Leave(c) PROVE Sane'
    BY <1>4, LeaveIsSane
  <1>5. CASE \/ \E a \in Assessments : EndAssessment(a)
             \/ \E n \in Namespaces : Evict(n)
             \/ Tick \/ BeginShutdown \/ CloseProviders
    BY <1>5, BackgroundIsSane
  <1>6. CASE UNCHANGED StreamVars
    BY <1>6 DEF StreamVars, vars, Sane, SoundCalls, Sound, Origin, Unrouted, OnRoute, Counted,
                SoundRows, RowFits, SoundShared
  <1>7. CASE Next
    BY <1>1, <1>3, <1>5, <1>7 DEF Next
  <1> QED
    BY <1>2, <1>4, <1>6, <1>7 DEF StreamNext

LEMMA InitSane == ASSUME ServiceAssumption, StreamInit PROVE Sane
  <1> USE DEF StreamInit, Init
  <1>1. SoundCalls
    <2>1. \A c \in Calls : Sound(c, NotMade)
      BY RestIsSound DEF Ended
    <2> QED
      BY <2>1, NotMadeIsTyped DEF SoundCalls
  <1>2. SoundRows
    BY DEF SoundRows
  <1>3. SoundShared
    <2>1. Fresh \in Circuits
      BY CircuitAssumption DEF CircuitAssumption, Fresh, Circuits, CircuitState, NotOpened
    <2> QED
      BY <2>1 DEF SoundShared
  <1> QED
    BY <1>1, <1>2, <1>3 DEF Sane

-----------------------------------------------------------------------------
(* The responses.                                                          *)

LEMMA NextKeepsResponses ==
    ASSUME ServiceAssumption, Sane, StreamTypeOK, [StreamNext]_StreamVars
    PROVE  StreamTypeOK'
  <1> USE DEF StreamTypeOK
  <1>1. NoResponse \in Response
    BY DEF NoResponse, Response
  <1>2. CASE stream' = StreamAfter
    BY <1>1, <1>2 DEF StreamAfter
  \* A step that gives c another response.
  <1>3. ASSUME NEW c \in StreamCalls, NEW s \in Response, stream' = [stream EXCEPT ![c] = s]
        PROVE  StreamTypeOK'
    BY <1>3
  <1>4. ASSUME NEW c \in StreamCalls, call[c].pc \in HasRoute
        PROVE  call[c].route \in Routes
    <2>1. c \in Calls
      BY DEF StreamCalls, Calls
    <2> QED
      BY <1>4, <2>1 DEF Sane, SoundCalls, Sound, OnRoute
  <1>5. ASSUME NEW c \in StreamCalls, ReadEvent(c)
        PROVE  StreamTypeOK'
    <2>1. PICK event \in {"start", "delta"} : Yield(c, event)
      BY <1>5 DEF ReadEvent
    <2> DEFINE e == stream[c].emitted \/ event = "delta"
               s == [stream[c] EXCEPT !.event = event, !.emitted = e]
    <2>2. e \in BOOLEAN
      OBVIOUS
    <2>3. stream' = [stream EXCEPT ![c] = s]
      BY <2>1 DEF Yield
    <2> HIDE DEF e
    <2>4. s \in Response
      BY <2>2 DEF Response
    <2> HIDE DEF s
    <2> QED
      BY <1>3, <2>3, <2>4
  <1>6. ASSUME NEW c \in StreamCalls, Take(c)
        PROVE  StreamTypeOK'
    <2> DEFINE s == Taken(stream[c], call[c].route)
    <2>1. stream' = [stream EXCEPT ![c] = s]
      BY <1>6 DEF Take
    <2>2. call[c].route \in Routes
      BY <1>4, <1>6 DEF Take, At, HasRoute
    <2>3. s \in Response
      BY <2>2 DEF Taken, Response
    <2> HIDE DEF s
    <2> QED
      BY <1>3, <2>1, <2>3
  <1>7. ASSUME NEW c \in StreamCalls, TakeHit(c)
        PROVE  StreamTypeOK'
    <2>1. call[c].route \in Routes
      BY <1>4, <1>7 DEF TakeHit, At, HasRoute
    <2>2. /\ [stream[c] EXCEPT !.accepted = TRUE] \in Response
          /\ [stream[c] EXCEPT !.deltas = @ \cup {call[c].route}] \in Response
      BY <2>1 DEF Response
    <2>3. \/ stream' = [stream EXCEPT ![c] = [stream[c] EXCEPT !.accepted = TRUE]]
          \/ stream' = [stream EXCEPT ![c] = [stream[c] EXCEPT !.deltas = @ \cup {call[c].route}]]
      BY <1>7 DEF TakeHit
    <2> QED
      BY <1>3, <2>2, <2>3
  <1>8. ASSUME NEW c \in StreamCalls,
               StreamViolatesSchema(c) \/ ProviderFails(c) \/ StreamTimesOut(c)
        PROVE  StreamTypeOK'
    <2>1. [stream[c] EXCEPT !.accepted = FALSE] \in Response
      BY DEF Response
    <2>2. \/ stream' = stream
          \/ stream' = [stream EXCEPT ![c] = [stream[c] EXCEPT !.accepted = FALSE]]
      BY <1>8 DEF StreamViolatesSchema, ProviderFails, StreamTimesOut, FailStream, NextOrInterrupt
    <2> QED
      BY <1>3, <2>1, <2>2
  <1>9. CASE \/ UNCHANGED StreamVars
             \/ \E c \in StreamCalls : OpenStream(c) \/ OpenForcedStream(c) \/ Finish(c)
    BY <1>9 DEF StreamVars, OpenStream, OpenForcedStream, Finish
  <1> QED
    BY <1>2, <1>5, <1>6, <1>7, <1>8, <1>9 DEF StreamNext

-----------------------------------------------------------------------------
(* The theorems.                                                           *)

\* The local variables of every call, the evidence, the cache and the
\* background tasks stay consistent with each other, for any number of
\* routes, calls and candidates.
THEOREM CallsAreSound == StreamSpec => [](Inv /\ Sane /\ StreamTypeOK)
  <1>1. StreamInit => Inv /\ Sane /\ StreamTypeOK
    <2>1. NoResponse \in Response
      BY DEF NoResponse, Response
    <2>2. StreamInit => StreamTypeOK
      BY <2>1 DEF StreamInit, StreamTypeOK
    <2> QED
      BY <2>2, InitInv, InitSane, ServiceAssumption
  <1>2. (Inv /\ Sane /\ StreamTypeOK) /\ [StreamNext]_StreamVars => (Inv /\ Sane /\ StreamTypeOK)'
    BY NextKeepsInv, NextKeepsSane, NextKeepsResponses, ServiceAssumption
  <1> QED
    BY <1>1, <1>2, PTL DEF StreamSpec

\* The state of the service keeps its types, for any number of routes and
\* calls: no list of candidates outgrows the catalogue, and no call has more
\* than one evidence row.
THEOREM ServiceTypes == StreamSpec => []TypeOK
  <1>1. Sane => TypeOK
    <2> SUFFICES ASSUME Sane PROVE TypeOK
      OBVIOUS
    <2>1. \A c \in Calls : rows[c] = <<>> \/ (Len(rows[c]) = 1 /\ rows[c][1] \in Row)
      BY DEF Sane, SoundRows, RowFits
    <2> QED
      BY <2>1 DEF TypeOK, Sane, SoundCalls, SoundShared
  <1>2. Inv /\ Sane /\ StreamTypeOK => TypeOK
    BY <1>1
  <1> QED
    BY <1>2, CallsAreSound, PTL

\* What a client of a stream has received keeps its types, in every
\* interleaving of deltas, failures, takes and departures.
THEOREM ResponseTypes == StreamSpec => []StreamTypeOK
  BY CallsAreSound, PTL

(***************************************************************************)
(* The asserts after the attempt loop (service.py:241-242) never fail, and *)
(* the fallbacks a call reports are the candidates it left behind, however *)
(* many candidates there are, in whatever order their circuits refuse them *)
(* and wherever the deadline cuts the loop.                                *)
(***************************************************************************)
THEOREM EveryCandidateIsCounted == StreamSpec => []FallbackAccounting
  <1>1. Sane => FallbackAccounting
    <2> SUFFICES ASSUME Sane, NEW c \in Calls
                 PROVE  /\ call[c].pc \in {"calling", "sending", "record_ok"} =>
                             /\ call[c].fallbacks + 1 + Len(call[c].left) = call[c].candidates
                             /\ call[c].failed <=> call[c].fallbacks > 0
                        /\ call[c].pc = "record_error" /\ c.kind # "stream" =>
                             /\ call[c].failed /\ call[c].route # NoRoute
                             /\ call[c].fallbacks \in 1..call[c].candidates
      BY DEF FallbackAccounting
    <2>1. Sound(c, call[c])
      BY DEF Sane, SoundCalls
    <2>2. call[c].fallbacks \in Int /\ call[c].candidates \in Int
      BY <2>1 DEF Sound, CallState
    <2>3. call[c].pc = "record_error" => call[c].route \in Routes
      BY <2>1 DEF Sound, OnRoute, HasRoute
    <2> QED
      BY <2>1, <2>2, <2>3, ServiceAssumption DEF Sound, Counted, Attempting, ServiceAssumption
  <1>2. Inv /\ Sane /\ StreamTypeOK => FallbackAccounting
    BY <1>1
  <1> QED
    BY <1>2, CallsAreSound, PTL

(***************************************************************************)
(* docs/request-lifecycle.md:129-131, for any catalogue: neither a         *)
(* fallback nor the cache ever gives a forced call the answer of another   *)
(* route, and what a shadow leaves in the evidence is about the candidate. *)
(***************************************************************************)
THEOREM ForcedCallsKeepTheirRoute == StreamSpec => []ForcedIsServedByItsRoute
  <1>1. Sane => ForcedIsServedByItsRoute
    <2> SUFFICES ASSUME Sane, NEW c \in Calls
                 PROVE  /\ call[c].forced # NoRoute /\ call[c].pc \in HasRoute =>
                             call[c].route = call[c].forced
                        /\ c.kind = "shadow" /\ rows[c] # <<>> => rows[c][1].route = Candidate
      BY DEF ForcedIsServedByItsRoute, HasRoute
    <2>1. Sound(c, call[c])
      BY DEF Sane, SoundCalls
    <2> QED
      BY <2>1 DEF Sound, OnRoute, Sane, SoundRows, RowFits
  <1>2. Inv /\ Sane /\ StreamTypeOK => ForcedIsServedByItsRoute
    BY <1>1
  <1> QED
    BY <1>2, CallsAreSound, PTL

=============================================================================
