------------------------------ MODULE LLMRouter ------------------------------
(***************************************************************************)
(* Requests to language models: the gateway's rate limit                   *)
(* (plugins/llmrouter/gateway.go), the choice of a model, the retries, the *)
(* fallbacks and the upgrade of the router (router.go, retry.go), the      *)
(* circuit breaker of each model (circuitbreaker.go) and what a provider   *)
(* answers (claude.go, glm.go, openai_compatible.go).  A read of a circuit *)
(* and a record of an outcome are one step each, under their locks; the    *)
(* requests of several callers interleave between them.  The router never  *)
(* calls CircuitBreaker.Allow, so a circuit is closed or open.  The delays *)
(* between attempts, the metrics and the texts are left out.               *)
(***************************************************************************)
EXTENDS Naturals, Sequences, FiniteSets

CONSTANTS
    Models,          \* keys of Config.ProviderConfigs
    Registered,      \* the models with a provider
    NoModel,         \* a request that names no model
    TaskTypes, Prefers,  \* Prefers[t]: the models whose TaskPreferences name t
    PrimaryProvider, \* not empty: without it LLMRouter is disabled and answers nothing
    FallbackOrder,
    CostRank,        \* the order of CostPer1KTokens
    Upgrades,        \* Upgrades[m]: what UpgradeModel makes of m; m itself for
                     \* every m when EnableAdaptiveRouting is off
    MaxAttempts, MinRequests,
    Callers,
    BurstSize,
    MaxRequests      \* bound: requests made in all

ASSUME LLMAssumption ==
    /\ Registered \subseteq Models /\ PrimaryProvider \in Models /\ NoModel \notin Models
    /\ Prefers \in [TaskTypes -> SUBSET Models] /\ Upgrades \in [Models -> Models]
    /\ FallbackOrder \in Seq(Models) /\ MaxAttempts \in Nat \ {0} /\ IsFiniteSet(Registered)

UpgradeAfter == 3    \* tryUpgrade: fails >= 3

VARIABLES
    circuit,   \* circuit[m]: the breaker of m: open or not, requests, failed requests
    fails,     \* Router.consecutiveFails, as far as it is compared: 0 .. UpgradeAfter
    tokens,    \* whole tokens of the gateway's bucket
    made,      \* requests made so far
    call       \* call[c]: where the caller's request is

llmVars == <<circuit, fails, tokens, made, call>>

NoCall == [at |-> "none", kind |-> "complete", asked |-> NoModel, type |-> CHOOSE t \in TaskTypes : TRUE,
           model |-> NoModel, attempt |-> 0, todo |-> <<>>, err |-> FALSE, ended |-> FALSE,
           tried |-> {}, result |-> "none"]

LLMInit ==
    /\ circuit = [m \in Models |-> [open |-> FALSE, total |-> 0, failed |-> 0]]
    /\ fails = [m \in Models |-> 0] /\ tokens = BurstSize /\ made = 0
    /\ call = [c \in Callers |-> NoCall]

IsModelAvailable(m) == m \notin Models \/ ~circuit[m].open
With(r, fields) == [f \in DOMAIN r |-> IF f \in DOMAIN fields THEN fields[f] ELSE r[f]]
Step(c, fields) == call' = [call EXCEPT ![c] = With(call[c], fields)]

-----------------------------------------------------------------------------
(* The circuit breaker of each model, and the two counters of the router.    *)

(* updateStateLocked: half of at least MinRequests failed; an open circuit   *)
(* counts on and stays open.                                                 *)
Record(m, failed) ==
    LET total == circuit[m].total + 1
        bad == circuit[m].failed + (IF failed THEN 1 ELSE 0)
    IN circuit' = [circuit EXCEPT ![m] =
           [open |-> @.open \/ (total >= MinRequests /\ 2 * bad >= total),
            total |-> total, failed |-> bad]]

HandleSuccess(m) == Record(m, FALSE) /\ fails' = [fails EXCEPT ![m] = 0]

HandleFailure(m) ==
    /\ Record(m, TRUE)
    /\ fails' = [fails EXCEPT ![m] = IF @ < UpgradeAfter THEN @ + 1 ELSE @]

-----------------------------------------------------------------------------
(* A request passes the gateway's bucket, and the router picks a model.      *)

(* RateLimiter.Allow: a request without a token ends at once.                *)
Allow(c, fields) ==
    /\ call[c].at = "none" /\ made < MaxRequests
    /\ made' = made + 1
    /\ \/ tokens > 0 /\ tokens' = tokens - 1 /\ Step(c, fields)
       \/ tokens = 0 /\ UNCHANGED tokens /\ Step(c, [at |-> "done", result |-> "limited"])
    /\ UNCHANGED <<circuit, fails>>

GatewayComplete(c, asked, type) ==
    Allow(c, [at |-> "select", kind |-> "complete", asked |-> asked, type |-> type])
GatewayStream(c, asked, type) ==
    Allow(c, [at |-> "select", kind |-> "stream", asked |-> asked, type |-> type])
GatewayEmbed(c) == Allow(c, [at |-> "select", kind |-> "embed"])

Refill == tokens < BurstSize /\ tokens' = tokens + 1 /\ UNCHANGED <<circuit, fails, made, call>>

SelectByTaskType(t) ==
    LET fit == {m \in Prefers[t] : IsModelAvailable(m)}
    IN IF fit = {} THEN {PrimaryProvider} ELSE fit

SelectByCost ==
    LET up == {m \in Models : IsModelAvailable(m)}
    IN IF up = {} THEN {PrimaryProvider}
       ELSE {m \in up : \A n \in up : CostRank[m] <= CostRank[n]}

Candidates(r) ==
    IF r.asked # NoModel /\ IsModelAvailable(r.asked) THEN {r.asked}
    ELSE SelectByTaskType(r.type)

(* The model is chosen; one without a provider ends the request at once.     *)
Selects(c, kind, models, next) ==
    /\ call[c].at = "select" /\ call[c].kind = kind
    /\ \E m \in models :
          Step(c, IF m \in Registered THEN [at |-> next, model |-> m]
                  ELSE [at |-> "done", model |-> m, result |-> "unregistered"])
    /\ UNCHANGED <<circuit, fails, tokens, made>>

SelectForComplete(c) == Selects(c, "complete", Candidates(call[c]), "check")
SelectForStream(c) == Selects(c, "stream", Candidates(call[c]), "asking")
SelectForEmbed(c) == Selects(c, "embed", SelectByCost, "loop")

FindAlternativeModel(m) == {x \in Registered \ {m} : IsModelAvailable(x)}

(* The circuit is read again: it may have opened since the model was chosen. *)
CheckModel(c) ==
    LET m == call[c].model
        others == FindAlternativeModel(m)
    IN /\ call[c].at = "check"
       /\ \E x \in IF IsModelAvailable(m) \/ others = {} THEN {m} ELSE others :
             Step(c, [at |-> "loop", model |-> x])
       /\ UNCHANGED <<circuit, fails, tokens, made>>

-----------------------------------------------------------------------------
(* Attempts.                                                                 *)

(* The caller goes away or the gateway's timeout fires.                      *)
ContextEnds(c) ==
    /\ call[c].at \notin {"none", "done", "panicked"} /\ ~call[c].ended
    /\ Step(c, [ended |-> TRUE])
    /\ UNCHANGED <<circuit, fails, tokens, made>>

(* FallbackOrder, or every other provider in the order of a Go map.          *)
Orders(m) ==
    LET others == Registered \ {m}
    IN IF FallbackOrder # <<>> THEN {FallbackOrder}
       ELSE {s \in [1 .. Cardinality(others) -> others] :
                \A x \in others : \E i \in DOMAIN s : s[i] = x}

(* Mutant: Embed, when it gives up, selects again. *)
EmbedSelectsAgain(c, err, tried) ==
    IF call[c].kind = "complete"
    THEN \E order \in Orders(call[c].model) :
            Step(c, [at |-> "fallback", todo |-> order, err |-> err, tried |-> tried])
    ELSE Step(c, [at |-> "select", attempt |-> 0])

(* DoWithRetry has given up: Complete falls back, Embed returns the last     *)
(* error, which is nil when the context ended before the first attempt.      *)
GivesUp(c, err, tried) ==
    IF call[c].kind = "complete"
    THEN \E order \in Orders(call[c].model) :
            Step(c, [at |-> "fallback", todo |-> order, err |-> err, tried |-> tried])
    ELSE Step(c, [at |-> "done", err |-> err, result |-> IF err THEN "error" ELSE "nothing"])

RetryLoop(c) ==
    /\ call[c].at = "loop"
    /\ \/ call[c].ended /\ GivesUp(c, call[c].err, call[c].tried)
       \/ ~call[c].ended /\ Step(c, [at |-> "asking"])
    /\ UNCHANGED <<circuit, fails, tokens, made>>

(* The provider answers; Embed records nothing in the circuits.              *)
ProviderAnswers(c) ==
    /\ call[c].at = "asking" /\ call[c].kind # "stream" /\ ~call[c].ended
    /\ IF call[c].kind = "complete" THEN HandleSuccess(call[c].model) ELSE UNCHANGED <<circuit, fails>>
    /\ Step(c, [at |-> "done", result |-> "response"])
    /\ UNCHANGED <<tokens, made>>

(* The network, a 5xx or an unreadable answer may be retried; a 4xx may not. *)
Retryable(c) == IF call[c].ended THEN {TRUE} ELSE BOOLEAN

ProviderFails(c) ==
    LET m == call[c].model
        tried == call[c].tried \cup {m}
    IN /\ call[c].at = "asking" /\ call[c].kind # "stream"
       /\ IF call[c].kind = "complete" THEN HandleFailure(m) ELSE UNCHANGED <<circuit, fails>>
       /\ \E retryable \in Retryable(c) :
             IF retryable /\ call[c].attempt + 1 < MaxAttempts
             THEN Step(c, [at |-> "loop", attempt |-> call[c].attempt + 1, err |-> TRUE, tried |-> tried])
             ELSE GivesUp(c, TRUE, tried)
       /\ UNCHANGED <<tokens, made>>

(* A stream is tried once.  One that breaks off ends like a complete one.    *)
ProviderStreams(c) ==
    /\ call[c].at = "asking" /\ call[c].kind = "stream"
    /\ \E r \in {"response", "error"} : Step(c, [at |-> "done", result |-> r])
    /\ UNCHANGED <<circuit, fails, tokens, made>>

-----------------------------------------------------------------------------
(* tryFallback and tryUpgrade.                                               *)

(* Mutant: the first model that cannot be asked ends the list. *)
FallbackSkipsRest(c) ==
    /\ call[c].at = "fallback" /\ call[c].todo # <<>>
    /\ LET m == Head(call[c].todo)
           asks == m # call[c].model /\ IsModelAvailable(m) /\ m \in Registered
       IN Step(c, IF asks THEN [at |-> "askingFallback"] ELSE [todo |-> <<>>])
    /\ UNCHANGED <<circuit, fails, tokens, made>>

(* The next model of the list is asked, if it is another one, has a provider *)
(* and its circuit is not open now.                                          *)
TryFallback(c) ==
    /\ call[c].at = "fallback" /\ call[c].todo # <<>>
    /\ LET m == Head(call[c].todo)
           asks == m # call[c].model /\ IsModelAvailable(m) /\ m \in Registered
       IN Step(c, IF asks THEN [at |-> "askingFallback"] ELSE [todo |-> Tail(call[c].todo)])
    /\ UNCHANGED <<circuit, fails, tokens, made>>

FallbackAnswers(c) ==
    /\ call[c].at = "askingFallback" /\ ~call[c].ended
    /\ HandleSuccess(Head(call[c].todo))
    /\ Step(c, [at |-> "done", result |-> "response"])
    /\ UNCHANGED <<tokens, made>>

(* One attempt each; an ended context counts against the model it was to ask.*)
FallbackFails(c) ==
    LET m == Head(call[c].todo)
    IN /\ call[c].at = "askingFallback"
       /\ HandleFailure(m)
       /\ Step(c, [at |-> "fallback", todo |-> Tail(call[c].todo), tried |-> call[c].tried \cup {m}])
       /\ UNCHANGED <<tokens, made>>

(* Complete returns its last error: none at all when the context ended       *)
(* before the first attempt.                                                 *)
LastError(c) == [at |-> "done", result |-> IF call[c].err THEN "error" ELSE "nothing"]

(* tryUpgrade reads the circuit of the model one tier up ...                 *)
TryUpgrade(c) ==
    LET up == Upgrades[call[c].model]
    IN /\ call[c].at = "fallback" /\ call[c].todo = <<>>
       /\ Step(c, IF up # call[c].model /\ IsModelAvailable(up) THEN [at |-> "upgrade"] ELSE LastError(c))
       /\ UNCHANGED <<circuit, fails, tokens, made>>

(* ... and then, under the router's lock, the failures in a row; Complete    *)
(* calls itself for that model, or returns.                                  *)
UpgradeOrReturn(c) ==
    LET m == call[c].model
    IN /\ call[c].at = "upgrade"
       /\ Step(c, IF fails[m] >= UpgradeAfter
                  THEN [at |-> "select", asked |-> Upgrades[m], attempt |-> 0, err |-> FALSE, tried |-> {}]
                  ELSE LastError(c))
       /\ UNCHANGED <<circuit, fails, tokens, made>>

NilResponse(c) == call[c].kind = "complete" /\ call[c].result = "nothing"

(* The gateway hands on what the router returned; the caller may ask again.  *)
Returned(c) ==
    /\ call[c].at = "done" /\ ~NilResponse(c)
    /\ call' = [call EXCEPT ![c] = NoCall]
    /\ UNCHANGED <<circuit, fails, tokens, made>>

(* Neither a response nor an error: the gateway's log of a completed request *)
(* reads the tokens of a nil response, and the caller's goroutine panics.    *)
GatewayPanics(c) ==
    /\ call[c].at = "done" /\ NilResponse(c)
    /\ Step(c, [at |-> "panicked"])
    /\ UNCHANGED <<circuit, fails, tokens, made>>

RequestStep(c) ==
    \/ SelectForComplete(c) \/ SelectForStream(c) \/ SelectForEmbed(c) \/ CheckModel(c) \/ RetryLoop(c)
    \/ ProviderAnswers(c) \/ ProviderFails(c) \/ ProviderStreams(c)
    \/ TryFallback(c) \/ FallbackAnswers(c) \/ FallbackFails(c)
    \/ TryUpgrade(c) \/ UpgradeOrReturn(c)

LLMNext ==
    \/ \E c \in Callers :
          \/ \E asked \in Models \cup {NoModel}, t \in TaskTypes :
                GatewayComplete(c, asked, t) \/ GatewayStream(c, asked, t)
          \/ GatewayEmbed(c) \/ ContextEnds(c) \/ RequestStep(c)
          \/ Returned(c) \/ GatewayPanics(c)
    \/ Refill

LLMSpec == LLMInit /\ [][LLMNext]_llmVars

(* A provider answers or the HTTP client's timeout ends the wait, and the    *)
(* router waits for nothing else.                                            *)
LLMFairness == \A c \in Callers : WF_llmVars(RequestStep(c))

-----------------------------------------------------------------------------
(* Types.                                                                    *)
LLMTypeOK ==
    /\ circuit \in [Models -> [open : BOOLEAN, total : Nat, failed : Nat]]
    /\ fails \in [Models -> 0 .. UpgradeAfter]
    /\ tokens \in 0 .. BurstSize /\ made \in 0 .. MaxRequests
    /\ \A c \in Callers :
          /\ call[c].at \in {"none", "select", "check", "loop", "asking", "fallback", "askingFallback",
                            "upgrade", "done", "panicked"}
          /\ call[c].attempt < MaxAttempts /\ call[c].tried \subseteq Registered

(* The models that tryFallback goes through, as far as they have a provider. *)
FallbackModels ==
    IF FallbackOrder = <<>> THEN Registered
    ELSE {FallbackOrder[i] : i \in DOMAIN FallbackOrder} \cap Registered

(* Complete fails a caller that is still waiting for one of two reasons.     *)
(* The model that was picked, or upgraded to, has no provider: that fails at *)
(* once, and no fallback is tried (router.go:310).  Or every model of the    *)
(* fallback order that has a provider failed this very request or has an     *)
(* open circuit by then, whatever the other callers' requests did to the     *)
(* circuits while this one was going through the list.  It never returns     *)
(* neither a response nor an error to a caller that is still waiting.        *)
FailureHasReason ==
    \A c \in Callers :
        call[c].kind = "complete" /\ ~call[c].ended =>
            /\ call[c].result # "nothing"
            /\ call[c].result = "unregistered" => call[c].model \notin Registered
            /\ call[c].result = "error" =>
                  \A m \in FallbackModels : m \in call[c].tried \/ circuit[m].open

(* Every request ends: the retries run out, and Complete, which calls itself *)
(* for the upgraded model, does not do so for ever, even when the upgraded   *)
(* model's circuit opens in between and the selection goes back to the model *)
(* it came from.  The end is the router's: the gateway may then panic.       *)
RequestsEnd == \A c \in Callers : (call[c].at = "select") ~> (call[c].at = "done")

-----------------------------------------------------------------------------
(* The inductive invariant behind FailureHasReason.                          *)

LLMFunctions ==
    /\ circuit \in [Models -> [open : BOOLEAN, total : Nat, failed : Nat]]
    /\ DOMAIN call = Callers
    /\ \A c \in Callers : DOMAIN call[c] = DOMAIN NoCall /\ call[c].todo \in Seq(Models)

(* Complete is past its retries.                                             *)
Falling == {"fallback", "askingFallback", "upgrade"}

(* A request has no result before its end, and no error before it asked; one *)
(* that asked nobody before its fallbacks is one whose context has ended.    *)
ResultsInv(c) ==
    /\ call[c].at \notin {"done", "panicked"} => call[c].result = "none"
    /\ call[c].at \in {"none", "select", "check"} => ~call[c].err
    /\ call[c].at = "askingFallback" => call[c].todo # <<>>
    /\ call[c].at = "upgrade" => call[c].todo = <<>>
    /\ call[c].at \in Falling /\ ~call[c].err => call[c].ended
    /\ call[c].kind = "complete" /\ call[c].result = "nothing" => call[c].ended
    /\ call[c].kind = "complete" /\ call[c].result = "unregistered" => call[c].model \notin Registered

(* An error is one of the model that was chosen.                             *)
AskedInv(c) ==
    /\ call[c].at \in {"loop", "asking"} /\ call[c].kind = "complete" /\ call[c].err
          => call[c].model \in call[c].tried
    /\ call[c].at \in Falling /\ call[c].err => call[c].model \in call[c].tried

Left(c, m) == \E i \in DOMAIN call[c].todo : call[c].todo[i] = m

(* A model of the fallbacks failed this request, has an open circuit or is   *)
(* still to be tried; with an error as the result the last is over.          *)
FallbackInv(c) ==
    \A m \in FallbackModels :
        /\ call[c].at \in Falling /\ call[c].err
              => m \in call[c].tried \/ circuit[m].open \/ Left(c, m)
        /\ call[c].kind = "complete" /\ call[c].result = "error" => m \in call[c].tried \/ circuit[m].open

LLMInv == LLMFunctions /\ \A c \in Callers : ResultsInv(c) /\ AskedInv(c) /\ FallbackInv(c)

-----------------------------------------------------------------------------
(* Not true of the code: every request ends with a response or an error.     *)
ResponseOrError == \A c \in Callers : call[c].result # "nothing"

(* Not true of the code: Complete fails a caller that is still waiting only  *)
(* after its fallbacks.  A model without a provider fails it at once.        *)
FallbacksBeforeFailing ==
    \A c \in Callers :
        call[c].kind = "complete" /\ ~call[c].ended /\ call[c].result \in {"error", "unregistered"} =>
            \A m \in FallbackModels : m \in call[c].tried \/ circuit[m].open

(* Not true of the code: an open circuit is tried again after its timeout.   *)
OpenRecovers == \A m \in Models : circuit[m].open ~> ~circuit[m].open
=============================================================================
