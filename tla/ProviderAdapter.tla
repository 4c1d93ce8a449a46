--------------------------- MODULE ProviderAdapter ---------------------------
(***************************************************************************)
(* What the adapters of providers/ make of an upstream service: the events *)
(* a frame of its stream is translated to, and the error code an upstream  *)
(* failure ends with.  A request's payload, usage figures and texts are    *)
(* left out; frames are told apart only as far as the adapters do.         *)
(***************************************************************************)
EXTENDS Integers, SequencesExt

Adapters == {"openai", "anthropic", "ollama", "mock"}

\* The services behind the adapters that speak HTTP.
Remote == Adapters \ {"mock"}

-----------------------------------------------------------------------------
(* Errors.                                                                 *)

Statuses == {400, 401, 403, 408, 422, 429, 500, 503, 504}

\* raise_for_provider_status, once the body of the response has been read.
StatusError(status) ==
    CASE status \in {401, 403} -> "provider_auth_error"
      [] status = 429 -> "provider_rate_limited"
      [] status \in {408, 504} -> "provider_timeout"
      [] status >= 500 /\ status # 504 -> "provider_unavailable"
      [] status < 500 /\ status \notin {401, 403, 408, 429} -> "invalid_provider_request"

\* normalize_transport_error, for an exception that is no ProviderError.
Normalized(exception) ==
    CASE exception = "httpx.TimeoutException" -> "provider_timeout"
      [] exception = "httpx.HTTPError" -> "provider_transport_error"
      [] OTHER -> "provider_adapter_error"

\* What a refusal with this status is reported as.  _safe_error_detail asks for
\* the body of the response; that of a streamed one has not been read, httpx
\* raises ResponseNotRead (no ValueError, no HTTPError), and the status is lost.
RefusalError(status, streamed) ==
    IF streamed THEN Normalized("httpx.ResponseNotRead") ELSE StatusError(status)

\* _headers of the services that want a key, and the faults the mock injects.
LocalErrors(a) ==
    CASE a \in {"openai", "anthropic"} -> {"provider_not_configured"}
      [] a = "ollama" -> {}
      [] a = "mock" -> {"provider_rate_limited", "provider_timeout",
                        "provider_auth_error", "provider_error"}

\* A call, or a stream before its first event, can fail with.
OpenErrors(a, streamed) ==
    LocalErrors(a) \cup
    IF a \in Remote
      THEN {RefusalError(s, streamed) : s \in Statuses}
           \cup {Normalized(e) : e \in {"httpx.TimeoutException", "httpx.HTTPError", "ValueError"}}
      ELSE {}

\* A stream can fail with once it is open: a terminal error frame, a frame that
\* is no JSON or has no such fields, or the transport.
StreamErrors(a) ==
    IF a \in Remote
      THEN {"provider_stream_error"}
           \cup {Normalized(e) : e \in {"httpx.TimeoutException", "httpx.HTTPError", "ValueError"}}
      ELSE {}

-----------------------------------------------------------------------------
(* Events of a stream.  Each adapter yields a start of its own when the    *)
(* response is accepted, before it reads a frame.                          *)

Opening(a) == <<"start">>

\* OpenAIAdapter.stream
OpenAIEvents ==
    [created |-> <<"start">>, output_text_delta |-> <<"delta">>,
     completed |-> <<"usage", "done">>, other |-> <<>>]

\* AnthropicAdapter.stream
AnthropicEvents ==
    [message_start |-> <<"start">>, text_delta |-> <<"delta">>, message_delta |-> <<"usage">>,
     message_stop |-> <<"done">>, other |-> <<>>]

\* OllamaAdapter.stream: the last line may carry text as well.
OllamaEvents ==
    [content |-> <<"delta">>, done |-> <<"usage", "done">>,
     content_done |-> <<"delta", "usage", "done">>, other |-> <<>>]

\* MockAdapter.stream: the text in chunks, then the end.
MockEvents == [chunk |-> <<"delta">>, end |-> <<"usage", "done">>]

Events(a) ==
    CASE a = "openai" -> OpenAIEvents
      [] a = "anthropic" -> AnthropicEvents
      [] a = "ollama" -> OllamaEvents
      [] a = "mock" -> MockEvents

-----------------------------------------------------------------------------
(* Framing: the lines of a server-sent event stream, as sequences of       *)
(* "" (an empty line), "comment" (no data) and data lines.                 *)

\* One line of iter_sse_json: the data lines held, and the frames made so far.
ReadLine(s, line) ==
    CASE line = "" /\ s.held # <<>> -> [held |-> <<>>, frames |-> Append(s.frames, s.held)]
      [] line \in {"", "comment"} /\ ~(line = "" /\ s.held # <<>>) -> s
      [] OTHER -> [s EXCEPT !.held = Append(@, line)]

\* iter_sse_json: what is held when the response ends is a frame too.
SseFrames(lines) ==
    LET end == FoldLeft(ReadLine, [held |-> <<>>, frames |-> <<>>], lines)
    IN  IF end.held = <<>> THEN end.frames ELSE Append(end.frames, end.held)

=============================================================================
