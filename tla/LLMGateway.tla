----------------------------- MODULE LLMGateway -----------------------------
(***************************************************************************)
(* One Chat call of the LLM gateway (internal/llm/gateway.go): retries with *)
(* a growing backoff, then the fallback provider.  The gateway is read-only *)
(* after NewGateway, so concurrent calls do not affect each other and one  *)
(* call stands for all of them.                                            *)
(*                                                                         *)
(* The provider clients (openai.go, anthropic.go, ollama.go) are reduced to *)
(* how a ChatCompletion ends.  Lenient ones decode the body of any reply as *)
(* an answer, whatever its HTTP status; the others return an error for it. *)
(* None of them asks whether an answer says anything: one without a choice *)
(* or a block of text is a success with an empty content.                  *)
(***************************************************************************)
EXTENDS Integers

CONSTANTS
    Providers,     \* provider names
    Lenient,       \* those that do not look at the HTTP status (ollama.go)
    NoProvider,    \* the empty LLM_FALLBACK_PROVIDER
    RetrySettings  \* values of LLM_MAX_RETRIES to consider

ASSUME LenientAssumption == Lenient \subseteq Providers
ASSUME NoProviderAssumption == NoProvider \notin Providers
ASSUME RetrySettingsAssumption == RetrySettings \subseteq Int

VARIABLES
    configured,  \* keys of gateway.providers
    primary,     \* req.Provider, or the default provider
    fallback,    \* gateway.fallbackProvider
    maxRetries,  \* gateway.maxRetries
    health,      \* of each provider: up, flaky or down
    speaks,      \* providers that know req.Model
    pc,          \* where the call is
    current,     \* providerName of the running chatWithRetry
    attempt,     \* its loop counter
    content,     \* of the answer: none, real, blank, refusal (blank as well)
    cancelled,   \* is the request's context done?
    doomed,      \* was it done when the running ChatCompletion began?
    calls,       \* ghost: ChatCompletion calls begun, per provider
    late         \* ghost: those begun after the context was done

settings == <<configured, primary, fallback, maxRetries, health, speaks>>
vars == <<settings, pc, current, attempt, content, cancelled, doomed, calls, late>>

Finished == {"ok", "error"}

HasFallback == fallback # NoProvider /\ fallback # primary
Targets == {primary} \cup (IF HasFallback THEN {fallback} ELSE {})

\* Attempts a chatWithRetry makes when nothing succeeds.
Attempts == IF maxRetries < 0 THEN 0 ELSE maxRetries + 1

\* What a provider may send back: an answer or a refusal (an HTTP error status).
MayAnswer(p) == p \in speaks /\ health[p] # "down"
MayRefuse(p) == p \notin speaks \/ health[p] # "up"

\* Faulty variant: the fallback is not tried.
GiveUpAlways ==
    pc' = "error" /\ UNCHANGED current

\* chatWithRetry returned an error: the fallback's turn, once.
GiveUp ==
    IF HasFallback /\ current = primary
    THEN pc' = "lookup" /\ current' = fallback
    ELSE pc' = "error" /\ UNCHANGED current

-----------------------------------------------------------------------------

Init ==
    /\ configured \in SUBSET Providers
    /\ primary \in Providers
    /\ fallback \in Providers \cup {NoProvider}
    /\ maxRetries \in RetrySettings
    /\ health \in [Providers -> {"up", "flaky", "down"}]
    /\ speaks \in SUBSET Providers
    /\ pc = "lookup"
    /\ current = primary
    /\ attempt = 0
    /\ content = "none"
    /\ cancelled = FALSE /\ doomed = FALSE
    /\ calls = [p \in Providers |-> 0]
    /\ late = 0

\* The client goes away, or a deadline of the caller passes.
Cancel ==
    /\ pc \notin Finished
    /\ ~cancelled
    /\ cancelled' = TRUE
    /\ UNCHANGED <<settings, pc, current, attempt, content, doomed, calls, late>>

\* Faulty variant: a negative LLM_MAX_RETRIES still makes the first attempt.
LookupOnce ==
    /\ pc = "lookup"
    /\ attempt' = 0
    /\ IF current \in configured
         THEN pc' = "begin" /\ UNCHANGED current
         ELSE GiveUp
    /\ UNCHANGED <<settings, content, cancelled, doomed, calls, late>>

\* Provider(name), and the loop condition on entry.
Lookup ==
    /\ pc = "lookup"
    /\ attempt' = 0
    /\ IF current \in configured /\ 0 <= maxRetries
         THEN pc' = "begin" /\ UNCHANGED current
         ELSE GiveUp
    /\ UNCHANGED <<settings, content, cancelled, doomed, calls, late>>

BeginCall ==
    /\ pc = "begin"
    /\ pc' = "call"
    /\ doomed' = cancelled
    /\ calls' = [calls EXCEPT ![current] = @ + 1]
    /\ late' = IF cancelled THEN late + 1 ELSE late
    /\ UNCHANGED <<settings, current, attempt, content, cancelled>>

Succeed(c) ==
    /\ pc = "call" /\ ~doomed
    /\ pc' = "ok"
    /\ content' = c
    /\ UNCHANGED <<settings, current, attempt, cancelled, doomed, calls, late>>

Answered == MayAnswer(current) /\ \E c \in {"real", "blank"} : Succeed(c)

\* Faulty variant: no client looks at the status.
RefusalAlwaysTaken == MayRefuse(current) /\ Succeed("refusal")

\* A lenient client decodes a refusal as an answer without content.
RefusalTaken == current \in Lenient /\ MayRefuse(current) /\ Succeed("refusal")

\* Faulty variant: the backoff sleeps through the end of the context.
CallFailsUncancelled ==
    /\ pc = "call"
    /\ doomed \/ cancelled \/ MayRefuse(current)
    /\ IF attempt < maxRetries
         THEN /\ attempt' = attempt + 1
              /\ pc' = "backoff" /\ UNCHANGED current
         ELSE GiveUp /\ UNCHANGED attempt
    /\ UNCHANGED <<settings, content, cancelled, doomed, calls, late>>

\* Faulty variant: the first error ends the round.
CallFailsAtOnce ==
    /\ pc = "call"
    /\ doomed \/ cancelled \/ MayRefuse(current)
    /\ GiveUp
    /\ UNCHANGED <<settings, attempt, content, cancelled, doomed, calls, late>>

\* A call fails because of the provider or of the context, for sure when that was
\* done before.  The select of the next round sees a context that is done before
\* its timer has begun, and the round ends there.
CallFails ==
    /\ pc = "call"
    /\ doomed \/ cancelled \/ MayRefuse(current)
    /\ \/ /\ attempt < maxRetries /\ ~cancelled
          /\ attempt' = attempt + 1
          /\ pc' = "backoff" /\ UNCHANGED current
       \/ /\ attempt >= maxRetries \/ cancelled
          /\ GiveUp /\ UNCHANGED attempt
    /\ UNCHANGED <<settings, content, cancelled, doomed, calls, late>>

\* Faulty variant: the select waits for the context only.
TimerFiresNever ==
    /\ pc = "backoff" /\ cancelled
    /\ pc' = "begin"
    /\ UNCHANGED <<settings, current, attempt, content, cancelled, doomed, calls, late>>

\* The select of the backoff: when both are ready Go picks either.
TimerFires ==
    /\ pc = "backoff"
    /\ pc' = "begin"
    /\ UNCHANGED <<settings, current, attempt, content, cancelled, doomed, calls, late>>

BackoffCut ==
    /\ pc = "backoff"
    /\ cancelled
    /\ GiveUp
    /\ UNCHANGED <<settings, attempt, content, cancelled, doomed, calls, late>>

Terminated == pc \in Finished /\ UNCHANGED vars

Progress ==
    \/ Lookup \/ BeginCall \/ Answered \/ RefusalTaken \/ CallFails
    \/ TimerFires \/ BackoffCut

Next == Progress \/ Cancel \/ Terminated

Spec == Init /\ [][Next]_vars

\* A call of a provider returns and a timer fires.
FairSpec == Spec /\ WF_vars(Progress)

-----------------------------------------------------------------------------
(***************************************************************************)
(* Properties.                                                             *)
(***************************************************************************)

TypeOK ==
    /\ configured \subseteq Providers
    /\ primary \in Providers
    /\ fallback \in Providers \cup {NoProvider}
    /\ maxRetries \in RetrySettings
    /\ health \in [Providers -> {"up", "flaky", "down"}]
    /\ speaks \subseteq Providers
    /\ pc \in {"lookup", "begin", "call", "backoff"} \cup Finished
    /\ current \in Targets
    /\ attempt \in {0} \cup 1..maxRetries
    /\ content \in {"none", "real", "blank", "refusal"}
    /\ cancelled \in BOOLEAN /\ doomed \in BOOLEAN
    /\ calls \in [Providers -> Nat]
    /\ late \in Nat

\* A Chat costs LLM_MAX_RETRIES + 1 calls of the primary and as many of the
\* fallback at most, none when the setting is negative, and no other provider is
\* ever called.
CallBudget ==
    \A p \in Providers :
        /\ calls[p] <= Attempts
        /\ calls[p] > 0 => p \in Targets \cap configured

\* The fallback is called only when the primary is not configured, has used all
\* its attempts, or was cut short by the end of the context.
FallbackComesLast ==
    HasFallback /\ calls[fallback] > 0 =>
        primary \notin configured \/ calls[primary] = Attempts \/ cancelled

\* An error means that nothing was left to try.
ErrorIsExhausted ==
    pc = "error" =>
        \A p \in Targets : p \notin configured \/ calls[p] = Attempts \/ cancelled

\* After the context is done two calls may still begin (the backoff's select picks
\* the timer, then the fallback's first attempt looks at no context), never more.
CancelStops == late <= 2

\* Whatever failed before, what a Chat returns was said by a configured provider of
\* its own that can answer, be it nothing (retries and fallback are for errors only);
\* or it is a refusal, and then of a client that ignores the status.
AnswersAreGenuine ==
    pc = "ok" =>
        /\ current \in Targets \cap configured
        /\ MayAnswer(current) \/ content = "refusal"
        /\ content = "refusal" => current \in Lenient

\* Every Chat returns.
ChatReturns == <>(pc \in Finished)

=============================================================================
