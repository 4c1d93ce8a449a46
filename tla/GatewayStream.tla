---------------------------- MODULE GatewayStream ----------------------------
(***************************************************************************)
(* GatewayService.stream (control/service.py) beside generate, and the     *)
(* client at the other end of the response: api/app.py turns every event   *)
(* stream yields into a server-sent event, and waits until it is taken.    *)
(*                                                                         *)
(* While the generator is suspended at a yield the provider is not read,   *)
(* and the client may go away.  The deadline of an attempt runs on         *)
(* meanwhile (_bounded_stream holds asyncio.timeout around its yields);    *)
(* when it passes there, the task that is sending is cancelled and not the *)
(* attempt, so for the call it is as if the client had left.               *)
(***************************************************************************)
EXTENDS GatewayService, ProviderAdapter

CONSTANT AdapterOf      \* route -> the adapter of its provider

ASSUME StreamAssumption == AdapterOf \in [Routes -> Adapters]

VARIABLE stream         \* streamed call -> its response

(***************************************************************************)
(* event: what the generator has yielded and the client has not taken;     *)
(* emitted: the local variable of the attempt; accepted (history): the     *)
(* client has a start of the route of the attempt; deltas (history): the   *)
(* routes whose text the client has.  All is gone when the call is over,   *)
(* and how it is over says how the response ended: done with a done event, *)
(* failed or rejected with an error event (a typed error; any other breaks *)
(* the connection), aborted with a closed connection.                      *)
(***************************************************************************)
Response ==
    [event : {"none", "start", "delta"}, emitted : BOOLEAN, accepted : BOOLEAN,
     deltas : SUBSET Routes]

NoResponse == [event |-> "none", emitted |-> FALSE, accepted |-> FALSE, deltas |-> {}]

StreamInit == Init /\ stream = [c \in StreamCalls |-> NoResponse]

-----------------------------------------------------------------------------
(* Admission: POST /v1/generate with stream, and /v1/chat/completions.     *)

OpenStream(c) ==
    /\ \E uses \in BOOLEAN, mode \in CacheModes :
          Start(c, [NotMade EXCEPT !.usesPrompt = uses, !.mode = mode])
    /\ UNCHANGED stream

OpenForcedStream(c) ==
    /\ \E r \in Pinned : Start(c, [NotMade EXCEPT !.mode = "default", !.forced = r])
    /\ UNCHANGED stream

-----------------------------------------------------------------------------
(* An attempt.                                                             *)

\* The attempt of the stream c is waiting for its provider.
Reading(c) == At(c, "calling")

\* What the adapter may make of the next frame.
NextEvents(c) ==
    IF stream[c].accepted
      THEN LET es == Events(AdapterOf[call[c].route])
           IN  UNION {ToSet(es[f]) : f \in DOMAIN es}
      ELSE ToSet(Opening(AdapterOf[call[c].route]))

Yield(c, event) ==
    /\ call' = [call EXCEPT ![c].pc = "sending"]
    /\ stream' = [stream EXCEPT ![c].event = event,
                                ![c].emitted = @ \/ event = "delta"]

\* mutant: every event is passed on to the client
ReadEveryEvent(c) ==
    /\ Reading(c)
    /\ \E event \in NextEvents(c) : Yield(c, event)
    /\ UNCHANGED <<circuits, Shared>>

\* async for event in _bounded_stream: start and delta are yielded; usage is
\* kept for the response and done is ignored, so they change nothing here.
ReadEvent(c) ==
    /\ Reading(c)
    /\ \E event \in NextEvents(c) \cap {"start", "delta"} : Yield(c, event)
    /\ UNCHANGED <<circuits, Shared>>

\* The client has taken the event s.event of this route.
Taken(s, route) ==
    IF s.event = "start"
      THEN [s EXCEPT !.event = "none", !.accepted = TRUE]
      ELSE [s EXCEPT !.event = "none", !.deltas = @ \cup {route}]

\* The client takes the event, and the generator goes on.
Take(c) ==
    /\ At(c, "sending")
    /\ call' = [call EXCEPT ![c].pc = "calling"]
    /\ stream' = [stream EXCEPT ![c] = Taken(@, call[c].route)]
    /\ UNCHANGED <<circuits, Shared>>

\* mutant: the done event is sent before the evidence is written
FinishUnrecorded(c) ==
    /\ Reading(c) /\ stream[c].accepted
    /\ circuits' = [circuits EXCEPT ![call[c].route] = Success(@)]
    /\ call' = [call EXCEPT ![c].pc = "closing"]
    /\ UNCHANGED <<stream, Shared>>

\* The adapter's generator is exhausted, whatever its last event was, and the
\* text satisfies the schema.
Finish(c) ==
    /\ Reading(c) /\ stream[c].accepted
    /\ circuits' = [circuits EXCEPT ![call[c].route] = Success(@)]
    /\ call' = [call EXCEPT ![c].pc = "record_ok"]
    /\ UNCHANGED <<stream, Shared>>

\* mutant: a failure falls back whether or not text was yielded
NextOrInterruptUnchecked(c, circs, cuts) ==
    /\ Fallback(c, circs, cuts)
    /\ stream' = [stream EXCEPT ![c].emitted = FALSE, ![c].accepted = FALSE]

\* The failure of the attempt is the end of the call, with the route in hand.
Interrupt(c) ==
    call' = [call EXCEPT ![c].pc = "record_error", ![c].failed = TRUE, ![c].left = <<>>]

\* The attempt failed: an error if text was yielded, else the next candidate.
NextOrInterrupt(c, circs, cuts) ==
    IF stream[c].emitted
      THEN Interrupt(c) /\ circuits' = circs /\ UNCHANGED stream
      ELSE /\ Fallback(c, circs, cuts)
           /\ stream' = [stream EXCEPT ![c].accepted = FALSE]

\* SchemaViolationError of the assembled text: the circuit is not told.
StreamViolatesSchema(c) ==
    /\ Reading(c) /\ stream[c].accepted
    /\ NextOrInterrupt(c, circuits, 0..Len(call[c].left))
    /\ UNCHANGED Shared

FailStream(c, cuts) ==
    /\ Reading(c)
    /\ NextOrInterrupt(c, [circuits EXCEPT ![call[c].route] = Failure(@)], cuts)
    /\ UNCHANGED Shared

\* ProviderError: an invalid_provider_request breaks the loop.
ProviderFails(c) ==
    /\ Reading(c)
    /\ LET a == AdapterOf[call[c].route]
       IN  \E code \in IF stream[c].accepted THEN StreamErrors(a) ELSE OpenErrors(a, TRUE) :
              FailStream(c, IF code = "invalid_provider_request" THEN {0}
                                                                 ELSE 0..Len(call[c].left))

\* asyncio.timeout ends the wait for the provider; there is no time for more.
StreamTimesOut(c) == FailStream(c, {0})

-----------------------------------------------------------------------------
(* A cached answer: a start and one delta, then its evidence.              *)

TakeHit(c) ==
    /\ \/ /\ At(c, "hit_start")
          /\ call' = [call EXCEPT ![c].pc = "hit_delta"]
          /\ stream' = [stream EXCEPT ![c].accepted = TRUE]
       \/ /\ At(c, "hit_delta")
          /\ call' = [call EXCEPT ![c].pc = "record_hit"]
          /\ stream' = [stream EXCEPT ![c].deltas = @ \cup {call[c].route}]
    /\ UNCHANGED <<circuits, Shared>>

-----------------------------------------------------------------------------
(* The end of the response.                                                *)

\* The client takes the done event.
TakeDone(c) ==
    /\ At(c, "closing")
    /\ End(c, "done")
    /\ UNCHANGED <<circuits, Shared>>

\* The client leaves: the generator is closed, or its task cancelled, where it
\* is, and nothing is told to the circuit.  SQLite finishes a commit it has
\* begun, but what would follow it does not happen.
Leave(c) ==
    /\ call[c].pc \in Waiting
    /\ \/ UNCHANGED rows
       \/ At(c, "record_ok") /\ WriteRow(c, TRUE, FALSE)
       \/ At(c, "record_hit") /\ WriteRow(c, TRUE, TRUE)
       \/ At(c, "record_error") /\ WriteRow(c, FALSE, FALSE)
    /\ End(c, "aborted")
    /\ UNCHANGED <<circuits, cache, assessing, phase, awaited>>

-----------------------------------------------------------------------------

\* A call that is over takes its response with it.
StreamAfter == [c \in StreamCalls |-> IF call'[c].pc \in Ended THEN NoResponse ELSE stream[c]]

StreamNext ==
    \/ (Next \/ \E c \in StreamCalls : TakeDone(c) \/ Leave(c)) /\ stream' = StreamAfter
    \/ \E c \in StreamCalls :
         \/ OpenStream(c) \/ OpenForcedStream(c) \/ ReadEvent(c) \/ Take(c) \/ Finish(c)
         \/ StreamViolatesSchema(c) \/ ProviderFails(c) \/ StreamTimesOut(c) \/ TakeHit(c)

StreamVars == <<vars, stream>>

StreamSpec == StreamInit /\ [][StreamNext]_StreamVars

(***************************************************************************)
(* A provider may send events for as long as it likes; what ends the       *)
(* attempt is its deadline, which is noticed while waiting for the         *)
(* provider and while waiting for the client, hence the strong fairness.   *)
(* At the other yields the client takes the event or leaves.               *)
(***************************************************************************)
StreamFairness ==
    /\ \A c \in Calls : WF_StreamVars(Step(c) /\ stream' = StreamAfter)
    /\ \A c \in StreamCalls :
         /\ SF_StreamVars(\/ StreamTimesOut(c)
                          \/ At(c, "sending") /\ Leave(c) /\ stream' = StreamAfter)
         /\ WF_StreamVars(TakeHit(c) \/ (TakeDone(c) /\ stream' = StreamAfter))
    /\ \A a \in Assessments : WF_StreamVars(EndAssessment(a) /\ UNCHANGED stream)
    /\ WF_StreamVars(CloseProviders /\ UNCHANGED stream)

StreamFairSpec == StreamSpec /\ StreamFairness

-----------------------------------------------------------------------------
(* Safety                                                                  *)

\* Types of the responses.
StreamTypeOK == stream \in [StreamCalls -> Response]

(***************************************************************************)
(* docs/decisions/0002-no-midstream-provider-switch.md: the first delta is *)
(* a commit point.  All text a client gets is of one route, which its      *)
(* client was told of by a start; that route is the only one tried from    *)
(* then on, and the one the done event and the evidence name, whether the  *)
(* stream is completed, interrupted or invalid.                            *)
(***************************************************************************)
OneVoice ==
    \A c \in StreamCalls : \A r \in stream[c].deltas :
       /\ stream[c].deltas = {r}
       /\ call[c].pc \in Waiting => call[c].route = r /\ stream[c].accepted
       /\ rows[c] # <<>> => rows[c][1].route = r

(***************************************************************************)
(* docs/request-lifecycle.md:177-187: how the response of a stream ends    *)
(* agrees with what is recorded.  The done event is sent when the evidence *)
(* has a success of the route the event names; an error event, when it has *)
(* a failure, or nothing because no route was tried; and a client that     *)
(* leaves never leaves a success behind that its route did not deliver.    *)
(***************************************************************************)
ToldAsRecorded ==
    \A c \in StreamCalls :
       /\ At(c, "closing") => rows[c] # <<>> /\ rows[c][1].route = call[c].route
       /\ call[c].pc \in {"closing", "done"} => rows[c] # <<>> /\ rows[c][1].success
       /\ call[c].pc \in {"failed", "rejected"} => \A i \in DOMAIN rows[c] : ~rows[c][i].success

=============================================================================
