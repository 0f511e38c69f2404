------------------------------ MODULE LLMStream ------------------------------
(***************************************************************************)
(* One streaming chat: the handler ChatStream (internal/api/handlers/llm.go), *)
(* gateway.ChatStream, and the goroutine that a provider client            *)
(* (internal/llm/openai.go, anthropic.go, ollama.go) starts to feed the     *)
(* handler's channel.  The goroutine sends without looking at any context: *)
(* it ends only if somebody reads what it sends.                           *)
(***************************************************************************)
EXTENDS Naturals, Sequences

CONSTANTS
    Kinds,      \* the provider clients, and "unknown" for one not configured
    Capacity,   \* size of the channel (64 in the code)
    MaxParts,   \* bound on the text parts of an answer
    Stacks      \* middleware that may stand in front of the handler

ASSUME CapacityAssumption == Capacity \in Nat \ {0}
ASSUME MaxPartsAssumption == MaxParts \in Nat

VARIABLES
    stack,     \* the middleware in front of the handler
    kind,      \* the client that serves this request
    handler,   \* the HTTP handler's goroutine
    producer,  \* the client's goroutine
    held,      \* the chunk it is sending
    chan,      \* the channel
    parts,     \* text parts received from the provider
    ending,    \* how the provider's reply ended
    refused,   \* has Ollama reported an error in the body of its reply?
    here,      \* is the HTTP client still connected?
    expired,   \* is the server's write deadline (60 s, cmd/api/main.go) over?
    wrote      \* chunks the HTTP client received

streamVars == <<stack, kind, handler, producer, held, chan, parts, ending, refused, here, expired, wrote>>

Text(n) == [type |-> "text", part |-> n]
Final(type) == [type |-> type, part |-> 0]
IsFinal(chunk) == chunk.type \in {"done", "error"}

\* The part that stands for an error of Ollama: an empty text.
Blank(n) == [type |-> "blank", part |-> n]
Part(n) == IF refused /\ n = parts THEN Blank(n) ELSE Text(n)

\* What the handler writes arrives; otherwise its error is ignored.
Arrives == here /\ ~expired

\* http.ResponseWriter, which the Logging middleware's responseWriter embeds, has
\* no Flush: behind it the handler's writer is no http.Flusher.
Flushable == "Logging" \notin stack

HandlerOver == {"unsupported", "bad gateway", "ended"}

-----------------------------------------------------------------------------

StreamInit ==
    /\ stack \in Stacks
    /\ kind \in Kinds
    /\ handler = "start"
    /\ producer = "none"
    /\ held = Final("done")
    /\ chan = <<>>
    /\ parts = 0
    /\ ending = "none"
    /\ refused = FALSE
    /\ here = TRUE
    /\ expired = FALSE
    /\ wrote = <<>>

ClientLeaves ==
    /\ here /\ handler \notin HandlerOver
    /\ here' = FALSE
    /\ UNCHANGED <<stack, kind, handler, producer, held, chan, parts, ending, refused, expired, wrote>>

DeadlinePasses ==
    /\ ~expired /\ handler \notin HandlerOver
    /\ expired' = TRUE
    /\ UNCHANGED <<stack, kind, handler, producer, held, chan, parts, ending, refused, here, wrote>>

Unsupported ==
    /\ handler = "start" /\ ~Flushable
    /\ handler' = "unsupported"
    /\ UNCHANGED <<stack, kind, producer, held, chan, parts, ending, refused, here, expired, wrote>>

\* gateway.Provider does not find the provider, it cannot be reached, or OpenAI
\* refuses.  The client for Anthropic learns of either only when it reads the
\* stream, and the one for Ollama never looks at the status of a reply.
OpenFails ==
    /\ handler = "start" /\ Flushable
    /\ kind # "anthropic"
    /\ handler' = "bad gateway"
    /\ UNCHANGED <<stack, kind, producer, held, chan, parts, ending, refused, here, expired, wrote>>

Open ==
    /\ handler = "start" /\ Flushable
    /\ kind # "unknown"
    /\ handler' = "reading"
    /\ producer' = "recv"
    /\ UNCHANGED <<stack, kind, held, chan, parts, ending, refused, here, expired, wrote>>

(***************************************************************************)
(* The client's goroutine.                                                 *)
(***************************************************************************)
ReceiveText ==
    /\ producer = "recv"
    /\ parts < MaxParts /\ ~refused
    /\ parts' = parts + 1
    /\ held' = Text(parts')
    /\ producer' = "send"
    /\ UNCHANGED <<stack, kind, handler, chan, ending, refused, here, expired, wrote>>

\* Ollama refuses the request, or gives up in the middle: its error object has none
\* of the fields that are looked for, and is decoded as a part without text.
ReceiveRefusal ==
    /\ producer = "recv" /\ kind = "ollama"
    /\ parts < MaxParts /\ ~refused
    /\ refused' = TRUE
    /\ parts' = parts + 1
    /\ held' = Blank(parts')
    /\ producer' = "send"
    /\ UNCHANGED <<stack, kind, handler, chan, ending, here, expired, wrote>>

\* The reply ends: with the provider's end marker, cut off without one, or in an
\* error, as it does when the context is done.
Ends == {"marker", "cut", "error"}

Last(type) == held' = Final(type) /\ producer' = "last"

\* Faulty variant: an error ends the stream as the end marker does.
ReceiveEndAlike ==
    /\ producer = "recv"
    /\ ending' \in Ends
    /\ Last("done")
    /\ UNCHANGED <<stack, kind, handler, chan, parts, refused, here, expired, wrote>>

\* For openai.go and ollama.go the end of the body is the end of the answer;
\* anthropic.go leaves its loop without an error and closes the channel.
ReceiveEnd ==
    /\ producer = "recv"
    /\ ending' \in Ends
    /\ IF ending' = "cut" /\ kind = "anthropic"
         THEN producer' = "closed" /\ UNCHANGED held
         ELSE Last(IF ending' = "error" THEN "error" ELSE "done")
    /\ UNCHANGED <<stack, kind, handler, chan, parts, refused, here, expired, wrote>>

\* Faulty variant: a chunk that does not fit is dropped.
SendOrDrop ==
    /\ producer \in {"send", "last"}
    /\ chan' = IF Len(chan) < Capacity THEN Append(chan, held) ELSE chan
    /\ producer' = IF producer = "last" THEN "closed" ELSE "recv"
    /\ UNCHANGED <<stack, kind, handler, held, parts, ending, refused, here, expired, wrote>>

Send ==
    /\ producer \in {"send", "last"}
    /\ Len(chan) < Capacity
    /\ chan' = Append(chan, held)
    /\ producer' = IF producer = "last" THEN "closed" ELSE "recv"
    /\ UNCHANGED <<stack, kind, handler, held, parts, ending, refused, here, expired, wrote>>

(***************************************************************************)
(* The handler's loop over the channel.  The error of a write to a client  *)
(* that left, or after the deadline, is ignored, and the loop goes on.     *)
(***************************************************************************)
\* Faulty variant: the handler returns when a write fails.
ForwardWhileHere ==
    /\ handler = "reading" /\ chan # <<>>
    /\ chan' = Tail(chan)
    /\ wrote' = IF Arrives THEN Append(wrote, Head(chan)) ELSE wrote
    /\ handler' = IF IsFinal(Head(chan)) \/ ~Arrives THEN "ended" ELSE "reading"
    /\ UNCHANGED <<stack, kind, producer, held, parts, ending, refused, here, expired>>

Forward ==
    /\ handler = "reading" /\ chan # <<>>
    /\ chan' = Tail(chan)
    /\ wrote' = IF Arrives THEN Append(wrote, Head(chan)) ELSE wrote
    /\ handler' = IF IsFinal(Head(chan)) THEN "ended" ELSE "reading"
    /\ UNCHANGED <<stack, kind, producer, held, parts, ending, refused, here, expired>>

RangeEnds ==
    /\ handler = "reading" /\ chan = <<>>
    /\ producer = "closed"
    /\ handler' = "ended"
    /\ UNCHANGED <<stack, kind, producer, held, chan, parts, ending, refused, here, expired, wrote>>

Over == handler \in HandlerOver /\ producer \in {"none", "closed"} /\ UNCHANGED streamVars

HandlerStep == Unsupported \/ OpenFails \/ Open \/ Forward \/ RangeEnds
ProducerStep == ReceiveText \/ ReceiveRefusal \/ ReceiveEnd \/ Send

StreamNext == ClientLeaves \/ DeadlinePasses \/ HandlerStep \/ ProducerStep \/ Over

StreamSpec == StreamInit /\ [][StreamNext]_streamVars

\* Both goroutines run; the provider's next event comes, be it an error.
FairStreamSpec == StreamSpec /\ WF_streamVars(HandlerStep) /\ WF_streamVars(ProducerStep)

-----------------------------------------------------------------------------
(***************************************************************************)
(* Properties.                                                             *)
(***************************************************************************)

\* The HTTP client receives the parts of the answer in order and without a gap,
\* and nothing after the final chunk.
WroteInOrder ==
    \A i \in DOMAIN wrote :
        wrote[i] \in {Text(i), Blank(i)} \/ (IsFinal(wrote[i]) /\ i = Len(wrote))

\* A client that stayed, served in time, has every part when the handler returns,
\* and the end as the goroutine saw it: an error of a read is never passed off as
\* an end.  What tells an error of Ollama from an answer is only its last, empty
\* part; a cut Anthropic stream has no final chunk.
EndIsTold ==
    handler = "ended" /\ Arrives =>
        LET final == IF ending = "error" THEN <<Final("error")>>
                     ELSE IF ending = "cut" /\ kind = "anthropic" THEN <<>>
                     ELSE <<Final("done")>>
        IN wrote = [i \in 1..parts |-> Part(i)] \o final

\* The goroutine always ends, although it looks at no context and even when the
\* client has left: the handler reads on to the end.
ProducerEnds == (producer = "recv") ~> (producer = "closed")

\* README.md:176: "POST /api/v1/llm/chat/stream", "Streaming chat (SSE)".
StreamingSupported == handler # "unsupported"
=============================================================================
