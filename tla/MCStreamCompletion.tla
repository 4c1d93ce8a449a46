------------------------- MODULE MCStreamCompletion -------------------------
(* Instance of StreamCompletion for TLC: the cfg file gives the values.    *)
EXTENDS StreamCompletion

AllOpenAI == [r \in Routes |-> "openai"]

=============================================================================
