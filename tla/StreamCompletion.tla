-------------------------- MODULE StreamCompletion --------------------------
(***************************************************************************)
(* GatewayStream with a record of what its specification abstracts from:   *)
(* the done events of the adapters, which stream() (control/service.py)    *)
(* reads and ignores.                                                      *)
(***************************************************************************)
EXTENDS GatewayStream

VARIABLE finished       \* history: the streams whose attempt has read a done event

CompletionInit == StreamInit /\ finished = {}

\* The done event of the attempt's provider is read: no branch takes it.
ReadDone(c) ==
    /\ Reading(c) /\ "done" \in NextEvents(c)
    /\ finished' = finished \cup {c}
    /\ UNCHANGED StreamVars

SameAttempt(c) == call'[c].pc \in {"calling", "sending", "record_ok"}
                  /\ call'[c].route = call[c].route

CompletionNext ==
    \/ StreamNext /\ finished' = {c \in finished : SameAttempt(c)}
    \/ \E c \in StreamCalls : ReadDone(c)

CompletionSpec == CompletionInit /\ [][CompletionNext]_<<StreamVars, finished>>

(***************************************************************************)
(* docs/request-lifecycle.md:228, the only way to Completed: a stream is   *)
(* taken for a success when its provider is done and the schema valid.     *)
(***************************************************************************)
CompletedMeansDone ==
    \A c \in StreamCalls : At(c, "record_ok") => c \in finished

=============================================================================
