----------------------------- MODULE LLMProofs -----------------------------
(***************************************************************************)
(* Proofs about what calls a language model: the router with its fallbacks *)
(* and circuits, and the execution graphs.                                 *)
(***************************************************************************)
EXTENDS LLMRouter, ExecutionGraph, FiniteSetTheorems, TLAPS

-----------------------------------------------------------------------------
(* The router.                                                               *)

(* An outcome that is recorded closes no circuit. *)
LEMMA OpenStaysOpen ==
  ASSUME LLMFunctions, NEW m, HandleSuccess(m) \/ HandleFailure(m)
  PROVE  /\ circuit' \in [Models -> [open : BOOLEAN, total : Nat, failed : Nat]]
         /\ \A x \in Models : circuit[x].open => circuit'[x].open
<1> DEFINE Circuits == [open : BOOLEAN, total : Nat, failed : Nat]
<1>1. ASSUME NEW b \in BOOLEAN, Record(m, b), m \in Models
      PROVE  /\ circuit' \in [Models -> Circuits]
             /\ \A x \in Models : circuit[x].open => circuit'[x].open
  <2> DEFINE bad == circuit[m].failed + (IF b THEN 1 ELSE 0)
             sum == circuit[m].total + 1
             o == circuit[m].open \/ (sum >= MinRequests /\ 2 * bad >= sum)
  <2>1. circuit' = [circuit EXCEPT ![m] = [open |-> o, total |-> sum, failed |-> bad]]
    BY <1>1 DEF Record
  <2>2. circuit \in [Models -> Circuits] /\ circuit[m] \in Circuits
    BY <1>1 DEF LLMFunctions
  <2>3. sum \in Nat /\ bad \in Nat
    BY <2>2
  <2>4. o \in BOOLEAN /\ (circuit[m].open => o)
    OBVIOUS
  <2> HIDE DEF sum, bad, o
  <2>5. [open |-> o, total |-> sum, failed |-> bad] \in Circuits
    BY <2>3, <2>4
  <2> HIDE DEF Circuits
  <2>6. circuit' \in [Models -> Circuits]
    BY <2>1, <2>2, <2>5, <1>1
  <2>7. ASSUME NEW x \in Models, circuit[x].open PROVE circuit'[x].open
    BY <2>1, <2>2, <2>4, <2>7, <1>1
  <2> QED
    BY <2>6, <2>7
<1>2. ASSUME NEW b \in BOOLEAN, Record(m, b), m \notin Models PROVE circuit' = circuit
    BY <1>2 DEF Record, LLMFunctions
<1> QED
    BY <1>1, <1>2 DEF HandleSuccess, HandleFailure, LLMFunctions

(* No circuit closes. *)
Opens == /\ circuit' \in [Models -> [open : BOOLEAN, total : Nat, failed : Nat]]
         /\ \A x \in Models : circuit[x].open => circuit'[x].open

(* A step of one request: the others only see circuits that have opened. *)
LEMMA OneRequestMoves ==
  ASSUME LLMInv, NEW c \in Callers, LLMFunctions', \A d \in Callers \ {c} : call'[d] = call[d],
         \A x \in Models : circuit[x].open => circuit'[x].open,
         ResultsInv(c)', AskedInv(c)', FallbackInv(c)'
  PROVE  LLMInv'
<1>1. FallbackModels \subseteq Models
    BY LLMAssumption DEF FallbackModels
<1>2. ASSUME NEW d \in Callers \ {c} PROVE ResultsInv(d)' /\ AskedInv(d)' /\ FallbackInv(d)'
    BY <1>1 DEF LLMInv, ResultsInv, AskedInv, FallbackInv, Left
<1> QED
    BY <1>2 DEF LLMInv

(* What Step makes of the record of a request. *)
LEMMA StepFrame ==
  ASSUME LLMInv, NEW c \in Callers, NEW fields, Step(c, fields)
  PROVE  /\ DOMAIN call' = Callers /\ \A d \in Callers \ {c} : call'[d] = call[d]
         /\ DOMAIN call'[c] = DOMAIN NoCall
         /\ \A f \in DOMAIN NoCall : call'[c][f] = IF f \in DOMAIN fields THEN fields[f] ELSE call[c][f]
    BY DEF LLMInv, LLMFunctions, Step, With

(* What Step leaves of the types. *)
LEMMA StepTypes ==
  ASSUME LLMInv, NEW c \in Callers, NEW fields, Step(c, fields), Opens, call'[c].todo \in Seq(Models)
  PROVE  LLMFunctions'
<1>1. \A d \in Callers : DOMAIN call'[d] = DOMAIN NoCall /\ call'[d].todo \in Seq(Models)
  <2>1. ASSUME NEW d \in Callers \ {c} PROVE DOMAIN call'[d] = DOMAIN NoCall /\ call'[d].todo \in Seq(Models)
    <3>1. call'[d] = call[d]
      BY StepFrame
    <3> QED
      BY <3>1, Zenon DEF LLMInv, LLMFunctions
  <2>2. DOMAIN call'[c] = DOMAIN NoCall
    BY StepFrame, Zenon
  <2> QED
    BY <2>1, <2>2
<1> QED
    BY <1>1, StepFrame DEF LLMFunctions, Opens

(* A step of a request that has not asked a model yet has no error to carry. *)
LEMMA BeforeAsking ==
  ASSUME LLMInv, NEW c \in Callers, call[c].at \in {"none", "select", "check"}, circuit' = circuit,
         NEW fields, Step(c, fields), "at" \in DOMAIN fields, {"todo", "err"} \cap DOMAIN fields = {},
         \/ fields.at \in {"select", "check", "loop", "asking"} /\ "result" \notin DOMAIN fields
         \/ /\ fields.at = "done" /\ "result" \in DOMAIN fields
            /\ \/ fields.result = "limited"
               \/ /\ fields.result = "unregistered"
                  /\ "model" \in DOMAIN fields /\ fields.model \notin Registered
  PROVE  LLMInv'
<1>1. call[c].result = "none" /\ ~call[c].err
    BY DEF LLMInv, ResultsInv
<1>2. /\ call'[c].at = fields.at /\ call'[c].err = call[c].err /\ call'[c].todo = call[c].todo
      /\ call'[c].result \in {"none", "limited", "unregistered"}
      /\ fields.at # "done" => call'[c].result = "none"
      /\ call'[c].result = "unregistered" => call'[c].model \notin Registered
    BY <1>1, StepFrame DEF NoCall
<1>3. LLMFunctions'
    BY <1>2, StepTypes DEF LLMInv, LLMFunctions, Opens
<1>4. ResultsInv(c)' /\ AskedInv(c)' /\ FallbackInv(c)'
    BY <1>1, <1>2 DEF ResultsInv, AskedInv, FallbackInv, Falling
<1> QED
    BY <1>3, <1>4, StepFrame, OneRequestMoves

(* The gateway lets a request in, or has no token for it. *)
LEMMA GatewayKeeps ==
  ASSUME LLMInv, NEW c \in Callers, NEW asked, NEW t,
         GatewayComplete(c, asked, t) \/ GatewayStream(c, asked, t) \/ GatewayEmbed(c)
  PROVE  LLMInv'
<1>1. ASSUME NEW fields, Allow(c, fields), "at" \in DOMAIN fields, fields.at = "select",
             {"todo", "err", "result"} \cap DOMAIN fields = {}
      PROVE  LLMInv'
  <2>1. call[c].at = "none" /\ circuit' = circuit
    BY <1>1 DEF Allow
  <2>2. CASE Step(c, fields)
    BY <1>1, <2>1, <2>2, BeforeAsking
  <2>3. CASE Step(c, [at |-> "done", result |-> "limited"])
    BY <2>1, <2>3, BeforeAsking
  <2> QED
    BY <1>1, <2>2, <2>3 DEF Allow
<1>2. CASE GatewayComplete(c, asked, t)
    BY <1>1, <1>2 DEF GatewayComplete
<1>3. CASE GatewayStream(c, asked, t)
    BY <1>1, <1>3 DEF GatewayStream
<1>4. CASE GatewayEmbed(c)
    BY <1>1, <1>4 DEF GatewayEmbed
<1> QED
    BY <1>2, <1>3, <1>4

(* A model is chosen, and looked at again. *)
LEMMA SelectKeeps ==
  ASSUME LLMInv, NEW c \in Callers,
         SelectForComplete(c) \/ SelectForStream(c) \/ SelectForEmbed(c) \/ CheckModel(c)
  PROVE  LLMInv'
<1>1. ASSUME NEW kind, NEW models, NEW next \in {"check", "asking", "loop"}, Selects(c, kind, models, next)
      PROVE  LLMInv'
  <2>1. PICK m \in models : Step(c, IF m \in Registered THEN [at |-> next, model |-> m]
                                    ELSE [at |-> "done", model |-> m, result |-> "unregistered"])
    BY <1>1 DEF Selects
  <2>2. call[c].at = "select" /\ circuit' = circuit
    BY <1>1 DEF Selects
  <2>3. CASE Step(c, [at |-> next, model |-> m])
    BY <2>2, <2>3, BeforeAsking
  <2>4. CASE m \notin Registered /\ Step(c, [at |-> "done", model |-> m, result |-> "unregistered"])
    BY <2>2, <2>4, BeforeAsking
  <2> QED
    BY <2>1, <2>3, <2>4
<1>2. CASE CheckModel(c)
  <2>1. PICK x : Step(c, [at |-> "loop", model |-> x])
    BY <1>2 DEF CheckModel
  <2> QED
    BY <1>2, <2>1, BeforeAsking DEF CheckModel
<1> QED
    BY <1>1, <1>2 DEF SelectForComplete, SelectForStream, SelectForEmbed

(* DoWithRetry gives up: everything that is to be tried is in the order. *)
LEMMA GivesUpKeeps ==
  ASSUME LLMInv, NEW c \in Callers, call[c].at \in {"loop", "asking"}, Opens,
         NEW err, NEW tried, err /\ call[c].kind = "complete" => call[c].model \in tried,
         err \/ call[c].ended, GivesUp(c, err, tried)
  PROVE  LLMInv'
<1>1. call[c].result = "none"
    BY DEF LLMInv, ResultsInv
<1>2. CASE call[c].kind = "complete"
  <2>1. PICK order \in Orders(call[c].model) :
           Step(c, [at |-> "fallback", todo |-> order, err |-> err, tried |-> tried])
    BY <1>2 DEF GivesUp
  <2>2. /\ call'[c].at = "fallback" /\ call'[c].todo = order /\ call'[c].err = err /\ call'[c].tried = tried
        /\ call'[c].result = "none" /\ call'[c].model = call[c].model /\ call'[c].ended = call[c].ended
    BY <1>1, <2>1, StepFrame DEF NoCall
  <2>3. order \in Seq(Models)
    <3>1. Cardinality(Registered \ {call[c].model}) \in Nat
      BY LLMAssumption, FS_RemoveElement, FS_CardinalityType, FS_Difference, FS_Singleton
    <3>2. CASE FallbackOrder # <<>>
      BY <3>2, LLMAssumption DEF Orders
    <3>3. CASE FallbackOrder = <<>>
      <4> DEFINE n == Cardinality(Registered \ {call[c].model})
      <4>1. n \in Nat /\ order \in [1 .. n -> Registered \ {call[c].model}]
        BY <3>1, <3>3 DEF Orders
      <4> HIDE DEF n
      <4>2. order \in [1 .. n -> Models]
        BY <4>1, LLMAssumption
      <4> QED
        BY <4>1, <4>2
    <3> QED
      BY <3>2, <3>3
  <2>4. \A m \in FallbackModels : m = call[c].model \/ \E i \in DOMAIN order : order[i] = m
    BY DEF Orders, FallbackModels
  <2>5. LLMFunctions'
    BY <2>1, <2>2, <2>3, StepTypes
  <2>6. ResultsInv(c)' /\ AskedInv(c)'
    BY <1>2, <2>2 DEF ResultsInv, AskedInv, Falling
  <2>7. FallbackInv(c)'
    BY <1>2, <2>2, <2>4 DEF FallbackInv, Left, Falling
  <2> QED
    BY <2>1, <2>5, <2>6, <2>7, StepFrame, OneRequestMoves DEF Opens
<1>3. CASE call[c].kind # "complete"
  <2>1. Step(c, [at |-> "done", err |-> err, result |-> IF err THEN "error" ELSE "nothing"])
    BY <1>3 DEF GivesUp
  <2>2. call'[c].at = "done" /\ call'[c].todo = call[c].todo /\ call'[c].kind = call[c].kind
    BY <2>1, StepFrame DEF NoCall
  <2>3. LLMFunctions'
    BY <2>1, <2>2, StepTypes DEF LLMInv, LLMFunctions
  <2>4. ResultsInv(c)' /\ AskedInv(c)' /\ FallbackInv(c)'
    BY <1>3, <2>2 DEF ResultsInv, AskedInv, FallbackInv, Falling
  <2> QED
    BY <2>1, <2>3, <2>4, StepFrame, OneRequestMoves DEF Opens
<1> QED
    BY <1>2, <1>3

(* Nothing of what a request knows changes when its context ends or its next *)
(* attempt starts.                                                           *)
LEMMA NextAttemptKeeps ==
  ASSUME LLMInv, NEW c \in Callers, ContextEnds(c) \/ RetryLoop(c)
  PROVE  LLMInv'
<1>1. circuit' = circuit /\ Opens
    BY DEF LLMInv, LLMFunctions, ContextEnds, RetryLoop, Opens
<1>2. CASE Step(c, [ended |-> TRUE])
  <2>1. call'[c].ended = TRUE /\ \A f \in DOMAIN NoCall : f # "ended" => call'[c][f] = call[c][f]
    BY <1>2, StepFrame DEF NoCall
  <2>2. LLMFunctions'
    BY <1>1, <1>2, <2>1, StepTypes DEF LLMInv, LLMFunctions, NoCall
  <2>3. ResultsInv(c)' /\ AskedInv(c)' /\ FallbackInv(c)'
    BY <1>1, <2>1 DEF LLMInv, ResultsInv, AskedInv, FallbackInv, Left, NoCall, Falling
  <2> QED
    BY <1>1, <1>2, <2>2, <2>3, StepFrame, OneRequestMoves
<1>3. CASE call[c].at = "loop" /\ Step(c, [at |-> "asking"])
  <2>1. call'[c].at = "asking" /\ \A f \in DOMAIN NoCall : f # "at" => call'[c][f] = call[c][f]
    BY <1>3, StepFrame DEF NoCall
  <2>2. LLMFunctions'
    BY <1>1, <1>3, <2>1, StepTypes DEF LLMInv, LLMFunctions, NoCall
  <2>3. ResultsInv(c)' /\ AskedInv(c)' /\ FallbackInv(c)'
    BY <1>1, <1>3, <2>1 DEF LLMInv, ResultsInv, AskedInv, FallbackInv, Left, NoCall, Falling
  <2> QED
    BY <1>1, <1>3, <2>2, <2>3, StepFrame, OneRequestMoves
<1>4. CASE call[c].at = "loop" /\ call[c].ended /\ GivesUp(c, call[c].err, call[c].tried)
    BY <1>1, <1>4, GivesUpKeeps DEF LLMInv, AskedInv
<1> QED
    BY <1>2, <1>3, <1>4 DEF ContextEnds, RetryLoop

(* The model answers: that is the result. *)
LEMMA AnswerKeeps ==
  ASSUME LLMInv, NEW c \in Callers, ProviderAnswers(c) \/ FallbackAnswers(c) \/ ProviderStreams(c)
  PROVE  LLMInv'
<1>1. Opens
    BY OpenStaysOpen DEF ProviderAnswers, FallbackAnswers, ProviderStreams, Opens, LLMInv, LLMFunctions
<1>2. PICK r \in {"response", "error"} :
         Step(c, [at |-> "done", result |-> r]) /\ (r = "error" => call[c].kind # "complete")
    BY DEF ProviderAnswers, FallbackAnswers, ProviderStreams
<1>3. /\ call'[c].at = "done" /\ call'[c].result = r /\ call'[c].todo = call[c].todo
      /\ call'[c].kind = call[c].kind
    BY <1>2, StepFrame DEF NoCall
<1>4. LLMFunctions'
    BY <1>1, <1>2, <1>3, StepTypes DEF LLMInv, LLMFunctions
<1>5. ResultsInv(c)' /\ AskedInv(c)' /\ FallbackInv(c)'
    BY <1>2, <1>3 DEF ResultsInv, AskedInv, FallbackInv, Falling
<1> QED
    BY <1>1, <1>2, <1>4, <1>5, StepFrame, OneRequestMoves DEF Opens

(* The model fails: the next attempt, or no more. *)
LEMMA ProviderFailsKeeps == ASSUME LLMInv, NEW c \in Callers, ProviderFails(c) PROVE LLMInv'
<1> DEFINE tried == call[c].tried \cup {call[c].model}
<1>1. Opens
    BY OpenStaysOpen DEF ProviderFails, Opens, LLMInv, LLMFunctions
<1>2. call[c].at = "asking"
    BY DEF ProviderFails
<1>3. CASE GivesUp(c, TRUE, tried)
    BY <1>1, <1>2, <1>3, GivesUpKeeps
<1>4. CASE Step(c, [at |-> "loop", attempt |-> call[c].attempt + 1, err |-> TRUE, tried |-> tried])
  <2>1. /\ call'[c].at = "loop" /\ call'[c].tried = tried /\ call'[c].todo = call[c].todo
        /\ call'[c].result = call[c].result /\ call'[c].model = call[c].model /\ call'[c].err = TRUE
    BY <1>4, StepFrame DEF NoCall
  <2>2. LLMFunctions'
    BY <1>1, <1>4, <2>1, StepTypes DEF LLMInv, LLMFunctions
  <2>3. ResultsInv(c)' /\ AskedInv(c)' /\ FallbackInv(c)'
    BY <1>2, <2>1 DEF LLMInv, ResultsInv, AskedInv, FallbackInv, Falling
  <2> QED
    BY <1>1, <1>4, <2>2, <2>3, StepFrame, OneRequestMoves DEF Opens
<1> QED
    BY <1>3, <1>4 DEF ProviderFails

(* The rest of the fallbacks lacks at most the first of them. *)
LEMMA RestOfFallbacks ==
  ASSUME LLMInv, NEW c \in Callers, call[c].todo # <<>>
  PROVE  /\ Tail(call[c].todo) \in Seq(Models) /\ Head(call[c].todo) \in Models
         /\ \A m : Left(c, m) => \/ m = Head(call[c].todo)
                                 \/ \E i \in DOMAIN Tail(call[c].todo) : Tail(call[c].todo)[i] = m
<1> DEFINE q == call[c].todo
<1>1. q \in Seq(Models) /\ q # <<>>
    BY DEF LLMInv, LLMFunctions
<1> HIDE DEF q
<1>2. Len(q) \in Nat \ {0} /\ Tail(q) \in Seq(Models) /\ Head(q) \in Models /\ Len(Tail(q)) = Len(q) - 1
    BY <1>1
<1>3. ASSUME NEW m, NEW i \in DOMAIN q, q[i] = m, i # 1 PROVE \E j \in DOMAIN Tail(q) : Tail(q)[j] = m
  <2>1. i - 1 \in DOMAIN Tail(q) /\ Tail(q)[i - 1] = q[i]
    BY <1>1, <1>2, <1>3
  <2> QED
    BY <1>3, <2>1
<1> QED
    BY <1>1, <1>2, <1>3 DEF Left, q

(* A model of the list is passed over for a reason, or asked. *)
LEMMA TryFallbackKeeps == ASSUME LLMInv, NEW c \in Callers, TryFallback(c) PROVE LLMInv'
<1> DEFINE m == Head(call[c].todo)
           asks == m # call[c].model /\ IsModelAvailable(m) /\ m \in Registered
<1>1. call[c].at = "fallback" /\ call[c].todo # <<>> /\ circuit' = circuit /\ Opens
    BY DEF TryFallback, Opens, LLMInv, LLMFunctions
<1>2. CASE asks /\ Step(c, [at |-> "askingFallback"])
  <2>1. call'[c].at = "askingFallback" /\ \A f \in DOMAIN NoCall : f # "at" => call'[c][f] = call[c][f]
    BY <1>2, StepFrame DEF NoCall
  <2>2. LLMFunctions'
    BY <1>1, <1>2, <2>1, StepTypes DEF LLMInv, LLMFunctions, NoCall
  <2>3. ResultsInv(c)' /\ AskedInv(c)' /\ FallbackInv(c)'
    BY <1>1, <2>1 DEF LLMInv, ResultsInv, AskedInv, FallbackInv, Left, NoCall, Falling
  <2> QED
    BY <1>1, <1>2, <2>2, <2>3, StepFrame, OneRequestMoves
<1>3. CASE ~asks /\ Step(c, [todo |-> Tail(call[c].todo)])
  <2>1. /\ call'[c].todo = Tail(call[c].todo)
        /\ \A f \in DOMAIN NoCall : f # "todo" => call'[c][f] = call[c][f]
    <3> DEFINE q == Tail(call[c].todo)
    <3>1. Step(c, [todo |-> q])
      BY <1>3
    <3> HIDE DEF q
    <3>2. call'[c].todo = q /\ \A f \in DOMAIN NoCall : f # "todo" => call'[c][f] = call[c][f]
      BY <3>1, StepFrame DEF NoCall
    <3> QED
      BY <3>2 DEF q
  <2>2. LLMFunctions'
    BY <1>1, <1>3, <2>1, RestOfFallbacks, StepTypes
  <2>3. ResultsInv(c)' /\ AskedInv(c)'
    BY <1>1, <2>1 DEF LLMInv, ResultsInv, AskedInv, NoCall, Falling
  <2>4. m \in FallbackModels /\ m # call[c].model => circuit[m].open
    BY <1>3 DEF FallbackModels, IsModelAvailable
  <2>5. call[c].err => call[c].model \in call[c].tried
    BY <1>1 DEF LLMInv, AskedInv, Falling
  <2>6. ASSUME NEW x \in FallbackModels, call[c].err
        PROVE  x \in call[c].tried \/ circuit[x].open \/ Left(c, x)'
    <3>1. x \in call[c].tried \/ circuit[x].open \/ Left(c, x)
      BY <1>1, <2>6 DEF LLMInv, FallbackInv, Falling
    <3>2. CASE x = m
      BY <3>2, <2>4, <2>5, <2>6
    <3>3. CASE Left(c, x) /\ x # m
      <4>1. \E i \in DOMAIN Tail(call[c].todo) : Tail(call[c].todo)[i] = x
        BY <3>3, <1>1, RestOfFallbacks
      <4> QED
        BY <4>1, <2>1, Zenon DEF Left
    <3> QED
      BY <3>1, <3>2, <3>3
  <2>7. call'[c].err = call[c].err /\ call'[c].tried = call[c].tried /\ call'[c].result = "none"
    BY <1>1, <2>1 DEF LLMInv, ResultsInv, NoCall
  <2>8. FallbackInv(c)'
    BY <1>1, <2>6, <2>7 DEF FallbackInv, Falling
  <2> QED
    BY <1>1, <1>3, <2>2, <2>3, <2>8, StepFrame, OneRequestMoves
<1> QED
    BY <1>2, <1>3 DEF TryFallback

(* A fallback failed this request too. *)
LEMMA FallbackFailsKeeps == ASSUME LLMInv, NEW c \in Callers, FallbackFails(c) PROVE LLMInv'
<1> DEFINE m == Head(call[c].todo)
<1>1. Opens
    BY OpenStaysOpen DEF FallbackFails, Opens, LLMInv
<1>2. call[c].at = "askingFallback" /\ call[c].todo # <<>>
    BY DEF FallbackFails, LLMInv, ResultsInv
<1>3. Step(c, [at |-> "fallback", todo |-> Tail(call[c].todo), tried |-> call[c].tried \cup {m}])
    BY DEF FallbackFails
<1>4. /\ call'[c].at = "fallback" /\ call'[c].todo = Tail(call[c].todo)
      /\ call'[c].tried = call[c].tried \cup {m}
      /\ call'[c].err = call[c].err /\ call'[c].kind = call[c].kind
      /\ call'[c].result = call[c].result /\ call'[c].model = call[c].model /\ call'[c].ended = call[c].ended
  <2> DEFINE q == Tail(call[c].todo)
             tried == call[c].tried \cup {m}
  <2>1. Step(c, [at |-> "fallback", todo |-> q, tried |-> tried])
    BY <1>3
  <2> HIDE DEF q, tried
  <2>2. /\ call'[c].at = "fallback" /\ call'[c].todo = q /\ call'[c].tried = tried
        /\ call'[c].err = call[c].err /\ call'[c].kind = call[c].kind
        /\ call'[c].result = call[c].result /\ call'[c].model = call[c].model /\ call'[c].ended = call[c].ended
    BY <2>1, StepFrame DEF NoCall
  <2> QED
    BY <2>2 DEF q, tried
<1>5. LLMFunctions'
    BY <1>1, <1>2, <1>3, <1>4, RestOfFallbacks, StepTypes
<1>6. ResultsInv(c)' /\ AskedInv(c)'
    BY <1>2, <1>4 DEF LLMInv, ResultsInv, AskedInv, Falling
<1>7. FallbackInv(c)'
  <2>1. FallbackModels \subseteq Models
    BY LLMAssumption DEF FallbackModels
  <2>2. ASSUME NEW x \in FallbackModels, call[c].err
        PROVE  x \in call[c].tried \cup {m} \/ circuit'[x].open \/ Left(c, x)'
    <3>1. x \in call[c].tried \/ circuit[x].open \/ Left(c, x)
      BY <1>2, <2>2 DEF LLMInv, FallbackInv, Falling
    <3>2. CASE Left(c, x) /\ x # m
      <4>1. \E i \in DOMAIN Tail(call[c].todo) : Tail(call[c].todo)[i] = x
        BY <3>2, <1>2, RestOfFallbacks
      <4> QED
        BY <4>1, <1>4, Zenon DEF Left
    <3> QED
      BY <3>1, <3>2, <1>1, <2>1 DEF Opens
  <2>3. call'[c].result = "none"
    BY <1>2, <1>4 DEF LLMInv, ResultsInv
  <2> QED
    BY <1>4, <2>2, <2>3 DEF FallbackInv, Falling
<1> QED
    BY <1>1, <1>3, <1>5, <1>6, <1>7, StepFrame, OneRequestMoves DEF Opens

(* The last error is one that the request met, or its context has ended. *)
LEMMA LastErrorKeeps ==
  ASSUME LLMInv, NEW c \in Callers, call[c].at \in {"fallback", "upgrade"}, call[c].todo = <<>>,
         circuit' = circuit, Step(c, LastError(c))
  PROVE  LLMInv'
<1>1. /\ call'[c].at = "done" /\ call'[c].result = (IF call[c].err THEN "error" ELSE "nothing")
      /\ call'[c].todo = call[c].todo /\ call'[c].tried = call[c].tried /\ call'[c].ended = call[c].ended
    BY StepFrame DEF NoCall, LastError
<1>2. Opens
    BY DEF Opens, LLMInv, LLMFunctions
<1>3. LLMFunctions'
    BY <1>1, <1>2, StepTypes DEF LLMInv, LLMFunctions
<1>4. ResultsInv(c)' /\ AskedInv(c)'
    BY <1>1 DEF LLMInv, ResultsInv, AskedInv, Falling
<1>5. FallbackInv(c)'
  <2>1. \A m : ~Left(c, m)
    BY DEF Left
  <2> QED
    BY <1>1, <2>1 DEF LLMInv, FallbackInv, Falling
<1> QED
    BY <1>2, <1>3, <1>4, <1>5, StepFrame, OneRequestMoves DEF Opens

(* The end of the list: there is a tier up, or the error is returned. *)
LEMMA TryUpgradeKeeps == ASSUME LLMInv, NEW c \in Callers, TryUpgrade(c) PROVE LLMInv'
<1>1. call[c].at = "fallback" /\ call[c].todo = <<>> /\ circuit' = circuit /\ Opens
    BY DEF TryUpgrade, Opens, LLMInv, LLMFunctions
<1>2. CASE Step(c, [at |-> "upgrade"])
  <2>1. call'[c].at = "upgrade" /\ \A f \in DOMAIN NoCall : f # "at" => call'[c][f] = call[c][f]
    BY <1>2, StepFrame DEF NoCall
  <2>2. LLMFunctions'
    BY <1>1, <1>2, <2>1, StepTypes DEF LLMInv, LLMFunctions, NoCall
  <2>3. ResultsInv(c)' /\ AskedInv(c)' /\ FallbackInv(c)'
    BY <1>1, <2>1 DEF LLMInv, ResultsInv, AskedInv, FallbackInv, Left, NoCall, Falling
  <2> QED
    BY <1>1, <1>2, <2>2, <2>3, StepFrame, OneRequestMoves
<1>3. CASE Step(c, LastError(c))
    BY <1>1, <1>3, LastErrorKeeps
<1> QED
    BY <1>2, <1>3 DEF TryUpgrade

(* One tier up, or the error. *)
LEMMA UpgradeOrReturnKeeps == ASSUME LLMInv, NEW c \in Callers, UpgradeOrReturn(c) PROVE LLMInv'
<1>1. call[c].at = "upgrade" /\ call[c].todo = <<>> /\ circuit' = circuit /\ Opens
    BY DEF UpgradeOrReturn, Opens, LLMInv, LLMFunctions, ResultsInv
<1>2. CASE Step(c, [at |-> "select", asked |-> Upgrades[call[c].model], attempt |-> 0, err |-> FALSE, tried |-> {}])
  <2>1. /\ call'[c].at = "select" /\ call'[c].err = FALSE /\ call'[c].todo = call[c].todo
        /\ call'[c].result = call[c].result
    BY <1>2, StepFrame DEF NoCall
  <2>2. LLMFunctions'
    BY <1>1, <1>2, <2>1, StepTypes DEF LLMInv, LLMFunctions
  <2>3. ResultsInv(c)' /\ AskedInv(c)' /\ FallbackInv(c)'
    BY <1>1, <2>1 DEF LLMInv, ResultsInv, AskedInv, FallbackInv, Falling
  <2> QED
    BY <1>1, <1>2, <2>2, <2>3, StepFrame, OneRequestMoves
<1>3. CASE Step(c, LastError(c))
    BY <1>1, <1>3, LastErrorKeeps
<1> QED
    BY <1>2, <1>3 DEF UpgradeOrReturn

(* A panic changes nothing of what the request ended with. *)
LEMMA PanicKeeps == ASSUME LLMInv, NEW c \in Callers, GatewayPanics(c) PROVE LLMInv'
<1>1. call[c].at = "done" /\ circuit' = circuit /\ Opens /\ Step(c, [at |-> "panicked"])
    BY DEF GatewayPanics, Opens, LLMInv, LLMFunctions
<1>2. call'[c].at = "panicked" /\ \A f \in DOMAIN NoCall : f # "at" => call'[c][f] = call[c][f]
    BY <1>1, StepFrame DEF NoCall
<1>3. LLMFunctions'
    BY <1>1, <1>2, StepTypes DEF LLMInv, LLMFunctions, NoCall
<1>4. ResultsInv(c)' /\ AskedInv(c)' /\ FallbackInv(c)'
    BY <1>1, <1>2 DEF LLMInv, ResultsInv, AskedInv, FallbackInv, Left, NoCall, Falling
<1> QED
    BY <1>1, <1>3, <1>4, StepFrame, OneRequestMoves

(* A request without a model, a task or an error is a fresh one. *)
LEMMA NoCallIsFresh == /\ NoCall.at = "none" /\ NoCall.result = "none" /\ NoCall.err = FALSE
                       /\ NoCall.todo = <<>> /\ NoCall.todo \in Seq(Models)
    BY DEF NoCall

(* The caller has its result. *)
LEMMA ReturnedKeeps == ASSUME LLMInv, NEW c \in Callers, Returned(c) PROVE LLMInv'
<1>1. circuit' = circuit /\ call' = [call EXCEPT ![c] = NoCall]
    BY DEF Returned
<1>2. call'[c] = NoCall /\ \A d \in Callers \ {c} : call'[d] = call[d]
    BY <1>1 DEF LLMInv, LLMFunctions
<1>3. LLMFunctions'
  <2>1. \A d \in Callers : DOMAIN call'[d] = DOMAIN NoCall /\ call'[d].todo \in Seq(Models)
    BY <1>2, NoCallIsFresh DEF LLMInv, LLMFunctions
  <2> QED
    BY <1>1, <2>1 DEF LLMInv, LLMFunctions, NoCall
<1>4. ResultsInv(c)' /\ AskedInv(c)' /\ FallbackInv(c)'
    BY <1>2, NoCallIsFresh DEF ResultsInv, AskedInv, FallbackInv, Falling
<1> QED
    BY <1>1, <1>2, <1>3, <1>4, OneRequestMoves

(* The invariant of the router, for any models, fallbacks and callers. *)
THEOREM RouterInvariant == LLMSpec => []LLMInv
<1>1. LLMInit => LLMInv
  <2> SUFFICES ASSUME LLMInit PROVE LLMInv
    OBVIOUS
  <2>1. circuit \in [Models -> [open : BOOLEAN, total : Nat, failed : Nat]]
    <3>1. [open |-> FALSE, total |-> 0, failed |-> 0] \in [open : BOOLEAN, total : Nat, failed : Nat]
      OBVIOUS
    <3> QED
      BY <3>1 DEF LLMInit
  <2>2. DOMAIN call = Callers /\ \A c \in Callers : call[c] = NoCall
    BY DEF LLMInit
  <2>3. LLMFunctions
    BY <2>1, <2>2, NoCallIsFresh DEF LLMFunctions
  <2>4. \A c \in Callers : ResultsInv(c) /\ AskedInv(c) /\ FallbackInv(c)
    BY <2>2, NoCallIsFresh DEF ResultsInv, AskedInv, FallbackInv, Falling
  <2> QED
    BY <2>3, <2>4 DEF LLMInv
<1>2. LLMInv /\ [LLMNext]_llmVars => LLMInv'
  <2> SUFFICES ASSUME LLMInv, [LLMNext]_llmVars PROVE LLMInv'
    OBVIOUS
  <2>1. ASSUME NEW c \in Callers, RequestStep(c) PROVE LLMInv'
    BY <2>1, SelectKeeps, NextAttemptKeeps, AnswerKeeps, ProviderFailsKeeps, TryFallbackKeeps,
       FallbackFailsKeeps, TryUpgradeKeeps, UpgradeOrReturnKeeps DEF RequestStep
  <2>2. CASE UNCHANGED <<circuit, call>>
    BY <2>2 DEF LLMInv, LLMFunctions, ResultsInv, AskedInv, FallbackInv, Left
  <2> QED
    BY <2>1, <2>2, GatewayKeeps, NextAttemptKeeps, ReturnedKeeps, PanicKeeps DEF LLMNext, Refill, llmVars
<1> QED
    BY <1>1, <1>2, PTL DEF LLMSpec

(* Complete fails a caller that is still waiting only when the model it      *)
(* picked has no provider (router.go:310), which tries no fallback, or when  *)
(* each model of the fallbacks with a provider failed this request or has an *)
(* open circuit, whatever the other requests do to the circuits              *)
(* (router.go:371); it never gives such a caller nothing at all.             *)
THEOREM FailuresHaveReasons == LLMSpec => []FailureHasReason
<1>1. LLMInv => FailureHasReason
    BY DEF LLMInv, ResultsInv, FallbackInv, FailureHasReason
<1> QED
    BY <1>1, RouterInvariant, PTL

-----------------------------------------------------------------------------
(* The execution graphs.                                                     *)

(* All that can be left of the chains. *)
Stages == FreshStages \cup AnsweredStages \cup {<<"react", "aggregator">>}

(* A chain is known by the node it is at. *)
LEMMA StageOfNode ==
  ASSUME NEW q \in Stages
  PROVE  /\ Head(q) \notin {"parallel"}
         /\ Head(q) = "invoke" => q = <<"invoke">>
         /\ Head(q) = "analyzer" => q = <<"analyzer">>
         /\ Head(q) = "simple_executor" => q = SimplePath
         /\ Head(q) = "simple_exec" => q = <<"simple_exec", "aggregator">>
         /\ Head(q) = "medium_decomposer" => q = MediumPath
         /\ Head(q) = "medium_executor" => q = <<"medium_executor", "result_merger">>
         /\ Head(q) = "observer" => q = ComplexPath
         /\ Head(q) = "strategist" => q = <<"strategist", "executor", "guardian", "tester", "result_merger">>
         /\ Head(q) = "executor" => q = <<"executor", "guardian", "tester", "result_merger">>
         /\ Head(q) = "guardian" => q = <<"guardian", "tester", "result_merger">>
         /\ Head(q) = "tester" => q = <<"tester", "result_merger">>
         /\ Head(q) = "result_merger" => q = <<"result_merger">>
         /\ Head(q) = "react" => q = <<"react", "aggregator">>
         /\ Head(q) = "decomposer" => q = <<"decomposer", "aggregator">>
         /\ Head(q) = "aggregator" => q = <<"aggregator">>
    BY DEF Stages, FreshStages, AnsweredStages, SimplePath, MediumPath, ComplexPath

(* What is left behind a node. *)
LEMMA StageBehind ==
  /\ Tail(SimplePath) = <<"result_merger">>
  /\ Tail(MediumPath) = <<"medium_executor", "result_merger">>
  /\ Tail(<<"medium_executor", "result_merger">>) = <<"result_merger">>
  /\ Tail(ComplexPath) = <<"strategist", "executor", "guardian", "tester", "result_merger">>
  /\ Tail(<<"strategist", "executor", "guardian", "tester", "result_merger">>)
       = <<"executor", "guardian", "tester", "result_merger">>
  /\ Tail(<<"executor", "guardian", "tester", "result_merger">>) = <<"guardian", "tester", "result_merger">>
  /\ Tail(<<"guardian", "tester", "result_merger">>) = <<"tester", "result_merger">>
  /\ Tail(<<"tester", "result_merger">>) = <<"result_merger">>
  /\ Tail(<<"simple_exec", "aggregator">>) = <<"aggregator">>
  /\ Tail(<<"decomposer", "aggregator">>) = <<"aggregator">>
  /\ Tail(<<"react", "aggregator">>) = <<"aggregator">>
    BY DEF SimplePath, MediumPath, ComplexPath

(* One more answer is the last. *)
LEMMA OneMoreAnswer ==
  ASSUME answers \in Seq(Authors), NEW n \in Authors
  PROVE  /\ Append(answers, n) \in Seq(Authors) /\ Append(answers, n) # <<>>
         /\ Len(Append(answers, n)) = Len(answers) + 1 /\ Append(answers, n)[Len(Append(answers, n))] = n
         /\ <<n>> \in Seq(Authors) /\ <<n>> # <<>> /\ Len(<<n>>) = 1 /\ <<n>>[1] = n
<1>1. Len(answers) \in Nat /\ Append(answers, n) \in Seq(Authors) /\ Len(Append(answers, n)) = Len(answers) + 1
    OBVIOUS
<1>2. Append(answers, n) # <<>>
    BY <1>1
<1> QED
    BY <1>1, <1>2

(* While a graph with one node at a time runs, it is at a node of a chain. *)
LEMMA AtStage ==
  ASSUME GraphInv, graph # "parallel", outcome = "none"
  PROVE  /\ todo \in Stages /\ ContextTyped /\ RunningInv /\ OneCallerInv
         /\ \/ answers \in Seq(Authors)
            \/ todo \in {<<"medium_executor", "result_merger">>, <<"result_merger">>} /\ Decomposed
<1>1. ContextTyped /\ RunningInv /\ OneCallerInv
    BY DEF GraphInv
<1>2. <<>> \in Seq(Authors) /\ <<"result_merger">> \in Stages /\ <<"medium_executor", "result_merger">> \in Stages
    BY DEF Stages, FreshStages, AnsweredStages
<1>3. todo \in Stages
    BY <1>1, <1>2 DEF RunningInv, Stages
<1> QED
    BY <1>1, <1>2, <1>3 DEF RunningInv

(* The decomposer is not one of the authors whose tokens are counted. *)
LEMMA CountedAnswers ==
  /\ answers \in Seq(Authors) => /\ answers # <<"medium_decomposer">>
                                /\ Counted = 1 .. Len(answers) /\ Cardinality(Counted) = Len(answers)
  /\ answers = <<"medium_decomposer">> => Counted = {} /\ Cardinality(Counted) = 0
<1>1. ASSUME answers \in Seq(Authors)
      PROVE  answers # <<"medium_decomposer">> /\ Counted = 1 .. Len(answers) /\ Cardinality(Counted) = Len(answers)
  <2>1. "medium_decomposer" \notin Authors
    BY DEF Authors
  <2>2. \A i \in DOMAIN answers : answers[i] \in Authors
    BY <1>1
  <2>3. DOMAIN answers = 1 .. Len(answers) /\ Len(answers) \in Nat
    BY <1>1
  <2>4. Counted = 1 .. Len(answers)
    BY <2>1, <2>2, <2>3 DEF Counted
  <2>5. Cardinality(1 .. Len(answers)) = Len(answers)
    <3> DEFINE n == Len(answers)
    <3>1. n \in Nat /\ 1 \in Int /\ n \in Int
      BY <2>3
    <3> HIDE DEF n
    <3>2. Cardinality(1 .. n) = IF 1 > n THEN 0 ELSE n - 1 + 1
      BY <3>1, FS_Interval
    <3>3. Cardinality(1 .. n) = n
      BY <3>1, <3>2
    <3> QED
      BY <3>3 DEF n
  <2>6. answers # <<"medium_decomposer">>
    BY <2>1, <2>2
  <2> QED
    BY <2>4, <2>5, <2>6
<1>2. ASSUME answers = <<"medium_decomposer">> PROVE Counted = {} /\ Cardinality(Counted) = 0
  <2>1. Counted = {}
    BY <1>2 DEF Counted
  <2> QED
    BY <2>1, FS_EmptySet
<1> QED
    BY <1>1, <1>2

(* The stages of nothing answered and of some answers are different ones. *)
LEMMA StagesDiffer ==
  /\ \A q \in AnsweredStages : q \notin {<<"invoke">>, <<"analyzer">>, SimplePath, MediumPath, ComplexPath,
        <<"medium_executor", "result_merger">>, <<"simple_exec", "aggregator">>, <<"decomposer", "aggregator">>,
        <<"react", "aggregator">>}
  /\ <<"react", "aggregator">> \notin FreshStages
    BY DEF AnsweredStages, FreshStages, SimplePath, MediumPath, ComplexPath

(* The input, the rules and the start. *)
LEMMA InvokeKeeps ==
  ASSUME GraphInv, graph # "parallel", InvokeGraph \/ \E name \in Routes, rule \in NewRules : UpdateRule(name, rule)
  PROVE  GraphInv'
<1>1. outcome = "none" /\ Head(todo) = "invoke"
    BY DEF InvokeGraph, UpdateRule, At
<1>2. todo = <<"invoke">> /\ answers = <<>> /\ tc.tokens = 0 /\ total.tokens = 0
    BY <1>1, AtStage, StageOfNode, StagesDiffer DEF RunningInv
<1>3. /\ todo' \in {<<"invoke">>, <<"analyzer">>}
      /\ UNCHANGED <<graph, goal, hasLLM, tc, total, answers, outcome, result, pnode>>
    BY <1>2 DEF InvokeGraph, UpdateRule, inputVars, parallelVars
<1> QED
    BY <1>1, <1>2, <1>3, AtStage
    DEF GraphInv, ContextTyped, RunningInv, OneCallerInv, ResultAccounts, FreshStages

(* A step of a graph, by what it makes of the context and the chain. *)
LEMMA GoesOn ==
  ASSUME GraphInv, graph # "parallel", UNCHANGED <<graph, pnode>>,
         \/ outcome' = "error"
         \/ outcome' = "none" /\ ContextTyped' /\ RunningInv' /\ OneCallerInv'
  PROVE  GraphInv'
    BY DEF GraphInv, ResultAccounts

(* A node that calls nobody leaves what the route of one caller has. *)
LEMMA OneCallerKept ==
  ASSUME GraphInv, graph # "parallel", outcome = "none", UNCHANGED inputVars, answers # <<>> => answers' # <<>>,
         \/ todo \notin {<<"invoke">>, <<"analyzer">>, SimplePath, <<"simple_exec", "aggregator">>,
                        <<"react", "aggregator">>}
         \/ hasLLM => answers' # <<>>
  PROVE  OneCallerInv'
<1>1. OneCallerInv
    BY AtStage
<1> QED
    BY <1>1 DEF OneCallerInv, OneCaller, inputVars

(* A new context has nothing in it. *)
LEMMA EmptyContextTyped ==
  ASSUME NEW c, tc' = EmptyContext(c)
  PROVE  ContextTyped' /\ tc'.tokens = 0 /\ tc'.summary = <<>>
<1>1. <<>> \in Seq(Authors) /\ <<>> \in Seq(PlannedSubtasks)
    OBVIOUS
<1> QED
    BY <1>1 DEF EmptyContext, ContextTyped

(* The analyzers and the branches behind them. *)
LEMMA BranchKeeps ==
  ASSUME GraphInv, graph # "parallel", TaskGraphBranch \/ FullTaskGraphBranch \/ EinoAnalyze
  PROVE  GraphInv'
<1>1. outcome = "none" /\ Head(todo) = "analyzer"
    BY DEF TaskGraphBranch, FullTaskGraphBranch, EinoAnalyze, At
<1>2. todo = <<"analyzer">> /\ answers = <<>> /\ total.tokens = 0
    BY <1>1, AtStage, StageOfNode, StagesDiffer DEF RunningInv
<1>3. UNCHANGED <<graph, hasLLM, total, answers, pnode>> /\ \E c : tc' = EmptyContext(c)
    BY DEF TaskGraphBranch, FullTaskGraphBranch, EinoAnalyze, parallelVars
<1>4. ContextTyped' /\ tc'.tokens = 0
    BY <1>3, EmptyContextTyped
<1>5. \/ outcome' = "error"
      \/ /\ outcome' = "none"
         /\ todo' \in {SimplePath, MediumPath, ComplexPath, <<"simple_exec", "aggregator">>,
                       <<"react", "aggregator">>, <<"decomposer", "aggregator">>}
         /\ OneCaller' => todo' \in {SimplePath, <<"simple_exec", "aggregator">>, <<"react", "aggregator">>}
  <2>1. CASE TaskGraphBranch
    BY <1>1, <2>1 DEF TaskGraphBranch, ChainOf, Routes, OneCaller
  <2>2. CASE FullTaskGraphBranch
    <3>1. EvaluateComplexity(goal) \in {"simple", "medium", "complex"}
      BY DEF EvaluateComplexity
    <3> QED
      BY <1>1, <2>2, <3>1 DEF FullTaskGraphBranch, ChainOf, OneCaller
  <2>3. CASE EinoAnalyze
    BY <1>1, <2>3 DEF EinoAnalyze, EinoChainOf, OneCaller
  <2> QED
    BY <2>1, <2>2, <2>3
<1>6. CASE outcome' = "none"
  <2>1. RunningInv'
    BY <1>2, <1>3, <1>4, <1>5, <1>6 DEF RunningInv, FreshStages
  <2>2. OneCallerInv'
    BY <1>5, <1>6 DEF OneCallerInv
  <2> QED
    BY <1>1, <1>2, <1>3, <1>4, <1>6, <2>1, <2>2, GoesOn
<1> QED
    BY <1>1, <1>2, <1>3, <1>5, <1>6, GoesOn

(* Where some answers may have been taken up they are accounted for. *)
LEMMA AccountsSoFar ==
  ASSUME GraphInv, graph # "parallel", outcome = "none", todo # <<"react", "aggregator">>,
         answers \in Seq(Authors)
  PROVE  Accounts(tc.summary, tc.tokens)
<1>1. answers = <<>> => Len(answers) = 0
    OBVIOUS
<1> QED
    BY <1>1, AtStage, CountedAnswers DEF RunningInv, Accounts, Decomposed

(* A node that asks and goes on. *)
LEMMA AskedNodeKeeps ==
  ASSUME GraphInv, graph # "parallel", outcome = "none", NEW n \in Authors, answers \in Seq(Authors),
         todo \notin {<<"react", "aggregator">>, <<"invoke">>, <<"analyzer">>},
         NEW ok \in BOOLEAN, NEW p,
         tc' = [tc EXCEPT !.summary = IF ok THEN <<n>> ELSE @, !.tokens = IF ok THEN @ + 1 ELSE @, !.progress = p],
         answers' = IF ok THEN Append(answers, n) ELSE answers,
         todo' \in AnsweredStages, outcome' = "none", UNCHANGED <<inputVars, pnode>>,
         todo \in {SimplePath, <<"simple_exec", "aggregator">>} => ok \/ ~hasLLM
  PROVE  GraphInv'
<1>1. ContextTyped
    BY AtStage
<1>2. answers' \in Seq(Authors) /\ (ok => answers' # <<>>)
    BY OneMoreAnswer
<1>3. ContextTyped'
    BY <1>1, OneMoreAnswer DEF ContextTyped
<1>4. RunningInv'
  <2>1. CASE ok
    BY <2>1, <1>1, <1>2, AccountsSoFar, OneMoreAnswer DEF RunningInv, Accounts, ContextTyped
  <2>2. CASE ~ok
    BY <2>2, <1>1, <1>2, AccountsSoFar DEF RunningInv, Accounts, ContextTyped
  <2> QED
    BY <2>1, <2>2
<1>5. OneCallerInv'
  <2>1. \/ todo \notin {<<"invoke">>, <<"analyzer">>, SimplePath, <<"simple_exec", "aggregator">>,
                        <<"react", "aggregator">>}
        \/ hasLLM => answers' # <<>>
    BY <1>2
  <2> QED
    BY <1>2, <2>1, OneCallerKept
<1> QED
    BY <1>3, <1>4, <1>5, GoesOn DEF inputVars

(* The simple executors: a failed call fails the graph. *)
LEMMA SimpleExecuteKeeps ==
  ASSUME GraphInv, graph # "parallel", NEW n \in {"simple_executor", "simple_exec"}, SimpleExecute(n)
  PROVE  GraphInv'
<1>1. outcome = "none" /\ Head(todo) = n /\ UNCHANGED <<inputVars, result, pnode>>
    BY DEF SimpleExecute, At, parallelVars
<1>2. todo = (IF n = "simple_executor" THEN SimplePath ELSE <<"simple_exec", "aggregator">>)
    BY <1>1, AtStage, StageOfNode
<1>3. Tail(todo) \in AnsweredStages /\ todo \notin {<<"react", "aggregator">>, <<"invoke">>, <<"analyzer">>}
    BY <1>2, StageBehind DEF AnsweredStages, SimplePath
<1>7. answers \in Seq(Authors)
    BY <1>1, <1>2, AtStage DEF SimplePath
<1>4. PICK a \in LLMAnswers :
        /\ IF a = "error" THEN outcome' = "error"
           ELSE /\ tc' = [tc EXCEPT !.summary = IF a = "ok" THEN <<n>> ELSE @,
                                    !.tokens = IF a = "ok" THEN @ + 1 ELSE @, !.progress = 100]
                /\ todo' = Tail(todo) /\ outcome' = "none"
        /\ answers' = IF a = "ok" THEN Append(answers, n) ELSE answers
    BY <1>1 DEF SimpleExecute
<1>5. CASE a = "error"
    BY <1>1, <1>4, <1>5, GoesOn DEF inputVars
<1>6. CASE a # "error"
  <2>1. (a = "ok") \in BOOLEAN /\ n \in Authors /\ (a = "ok" \/ ~hasLLM)
    BY <1>6 DEF Authors, LLMAnswers
  <2> QED
    BY <1>1, <1>3, <1>4, <1>6, <1>7, <2>1, AskedNodeKeeps
<1> QED
    BY <1>5, <1>6

(* The nodes of the complex path. *)
LEMMA ConsultKeeps ==
  ASSUME GraphInv, graph # "parallel", NEW n \in {"observer", "executor", "guardian", "tester"}, NEW p, Consult(n, p)
  PROVE  GraphInv'
<1>1. /\ outcome = "none" /\ Head(todo) = n /\ UNCHANGED <<inputVars, result, pnode>> /\ outcome' = "none"
      /\ todo' = Tail(todo)
    BY DEF Consult, At, parallelVars
<1>2. /\ Tail(todo) \in AnsweredStages
      /\ todo \notin {<<"react", "aggregator">>, <<"invoke">>, <<"analyzer">>, SimplePath,
                      <<"simple_exec", "aggregator">>}
      /\ answers \in Seq(Authors)
  <2>1. todo \in Stages
    BY <1>1, AtStage
  <2>2. Tail(todo) \in AnsweredStages
    BY <1>1, <2>1, StageOfNode, StageBehind DEF AnsweredStages
  <2>3. Head(<<"react", "aggregator">>) = "react" /\ Head(<<"invoke">>) = "invoke"
        /\ Head(<<"analyzer">>) = "analyzer" /\ Head(SimplePath) = "simple_executor"
        /\ Head(<<"simple_exec", "aggregator">>) = "simple_exec"
        /\ Head(<<"medium_executor", "result_merger">>) = "medium_executor"
        /\ Head(<<"result_merger">>) = "result_merger"
    BY DEF SimplePath
  <2>4. answers \in Seq(Authors)
    BY <1>1, <2>3, AtStage
  <2> QED
    BY <1>1, <2>2, <2>3, <2>4
<1>3. PICK a \in LLMAnswers :
        /\ tc' = [tc EXCEPT !.summary = IF a = "ok" THEN <<n>> ELSE @, !.tokens = IF a = "ok" THEN @ + 1 ELSE @,
                            !.progress = p]
        /\ answers' = IF a = "ok" THEN Append(answers, n) ELSE answers
    BY DEF Consult, TakeUp
<1>4. (a = "ok") \in BOOLEAN /\ n \in Authors
    BY DEF Authors
<1> QED
    BY <1>1, <1>2, <1>3, <1>4, AskedNodeKeeps

(* A node that plans: it neither asks nor answers. *)
LEMMA PlanningKeeps ==
  ASSUME GraphInv, graph # "parallel", outcome = "none", UNCHANGED <<inputVars, answers, outcome, pnode>>,
         ContextTyped', tc'.tokens = tc.tokens, tc'.summary = tc.summary, answers \in Seq(Authors),
         todo \notin {<<"react", "aggregator">>, <<"invoke">>, <<"analyzer">>, SimplePath,
                     <<"simple_exec", "aggregator">>},
         todo' \in AnsweredStages
  PROVE  GraphInv'
<1>1. OneCallerInv'
    BY OneCallerKept
<1>2. RunningInv'
    BY AccountsSoFar DEF RunningInv, Accounts
<1> QED
    BY <1>1, <1>2, GoesOn DEF inputVars

(* The plans of the decomposers are plans. *)
LEMMA PlansTyped ==
  /\ \A items \in Nat : ParsedPlan(items) \in Seq(PlannedSubtasks)
  /\ FallbackPlan \in Seq(PlannedSubtasks) /\ DecomposerPlan \in Seq(PlannedSubtasks)
  /\ <<Plan("coding", {}), Plan("review", {}), Plan("testing", {})>> \in Seq(PlannedSubtasks)
<1> DEFINE Types == {"analysis", "coding", "research", "review", "testing"}
<1>1. \A t \in Types, d \in SUBSET Nat : Plan(t, d) \in PlannedSubtasks
    BY DEF Plan, PlannedSubtasks
<1>2. \A items \in Nat : ParsedPlan(items) \in Seq(PlannedSubtasks)
  <2> TAKE items \in Nat
  <2>1. Plan("coding", {}) \in PlannedSubtasks
    BY <1>1
  <2> QED
    BY <2>1 DEF ParsedPlan
<1>3. FallbackPlan \in Seq(PlannedSubtasks)
  <2>1. Plan("coding", {}) \in PlannedSubtasks /\ Plan("testing", {1}) \in PlannedSubtasks
    BY <1>1
  <2> QED
    BY <2>1 DEF FallbackPlan
<1>4. <<Plan("coding", {}), Plan("review", {}), Plan("testing", {})>> \in Seq(PlannedSubtasks)
  <2>1. /\ Plan("coding", {}) \in PlannedSubtasks /\ Plan("review", {}) \in PlannedSubtasks
        /\ Plan("testing", {}) \in PlannedSubtasks
    BY <1>1
  <2> QED
    BY <2>1
<1>5. ASSUME NEW q \in Seq(Types) PROVE ChainPlan(q) \in Seq(PlannedSubtasks)
  <2>1. Len(q) \in Nat /\ DOMAIN q = 1 .. Len(q)
    OBVIOUS
  <2>2. \A i \in 1 .. Len(q) : q[i] \in Types /\ {i - 1} \ {0} \in SUBSET Nat
    BY <2>1
  <2>3. \A i \in 1 .. Len(q) : Plan(q[i], {i - 1} \ {0}) \in PlannedSubtasks
    BY <1>1, <2>2
  <2> QED
    BY <2>1, <2>3 DEF ChainPlan
<1>6. DecomposerPlan \in Seq(PlannedSubtasks)
  <2>1. /\ <<"analysis", "coding", "testing">> \in Seq(Types)
        /\ <<"analysis", "coding", "review", "testing">> \in Seq(Types)
        /\ <<"research", "analysis", "coding", "testing">> \in Seq(Types)
        /\ <<"research", "analysis", "coding", "review", "testing">> \in Seq(Types)
    OBVIOUS
  <2> HIDE DEF Types
  <2> QED
    BY <1>5, <2>1 DEF DecomposerPlan
<1> QED
    BY <1>2, <1>3, <1>4, <1>6

(* A new plan leaves the rest of the context. *)
LEMMA PlannedContext ==
  ASSUME ContextTyped, NEW plan \in Seq(PlannedSubtasks), NEW p, tc' = [tc EXCEPT !.subtasks = plan, !.progress = p]
  PROVE  ContextTyped' /\ tc'.tokens = tc.tokens /\ tc'.summary = tc.summary
    BY DEF ContextTyped

(* The decomposer of the medium path: its answer is a plan, and not counted. *)
LEMMA MediumDecomposeKeeps == ASSUME GraphInv, graph # "parallel", MediumDecompose PROVE GraphInv'
<1>1. /\ outcome = "none" /\ todo' = Tail(todo) /\ UNCHANGED <<inputVars, total, outcome, pnode>>
      /\ Head(todo) = "medium_decomposer"
    BY DEF MediumDecompose, At, parallelVars
<1>2. PICK items \in 0 .. MaxItems, ok \in BOOLEAN :
        /\ tc' = [tc EXCEPT !.subtasks = IF items > 0 THEN ParsedPlan(items) ELSE FallbackPlan, !.progress = 20]
        /\ answers' = IF ok THEN Append(answers, "medium_decomposer") ELSE answers
    BY DEF MediumDecompose
<1>3. items \in Nat
    BY GraphAssumption
<1>4. ContextTyped' /\ tc'.tokens = tc.tokens
    BY <1>1, <1>2, <1>3, AtStage, PlansTyped, PlannedContext
<1>5. todo = MediumPath /\ todo' = <<"medium_executor", "result_merger">>
    BY <1>1, AtStage, StageOfNode, StageBehind
<1>6. answers = <<>> /\ tc.tokens = 0 /\ total.tokens = 0
  <2>1. MediumPath \notin {<<"medium_executor", "result_merger">>, <<"result_merger">>}
    BY DEF MediumPath
  <2> QED
    BY <1>1, <1>5, <2>1, AtStage, StagesDiffer DEF RunningInv
<1>7. answers' \in {<<>>, <<"medium_decomposer">>}
    BY <1>2, <1>6
<1>8. RunningInv'
    BY <1>1, <1>4, <1>5, <1>6, <1>7 DEF RunningInv, FreshStages, Decomposed
<1>9. OneCallerInv'
  <2>1. todo \notin {<<"invoke">>, <<"analyzer">>, SimplePath, <<"simple_exec", "aggregator">>,
                    <<"react", "aggregator">>}
    BY <1>5 DEF MediumPath, SimplePath
  <2> QED
    BY <1>1, <1>6, <2>1, OneCallerKept
<1> QED
    BY <1>1, <1>4, <1>8, <1>9, GoesOn DEF inputVars

(* The nodes that plan without a call: complex and Eino. *)
LEMMA DecomposeKeeps ==
  ASSUME GraphInv, graph # "parallel", StrategistNode \/ EinoDecompose
  PROVE  GraphInv'
<1>1. /\ outcome = "none" /\ todo' = Tail(todo) /\ UNCHANGED <<inputVars, answers, outcome, pnode>>
      /\ Head(todo) \in {"strategist", "decomposer"}
    BY DEF StrategistNode, EinoDecompose, At, parallelVars
<1>2. \E plan \in Seq(PlannedSubtasks), p \in Nat : tc' = [tc EXCEPT !.subtasks = plan, !.progress = p]
  <2>1. CASE StrategistNode
    BY <2>1, PlansTyped DEF StrategistNode
  <2>2. CASE EinoDecompose
    BY <2>2, PlansTyped DEF EinoDecompose
  <2> QED
    BY <2>1, <2>2
<1>3. ContextTyped' /\ tc'.tokens = tc.tokens /\ tc'.summary = tc.summary
    BY <1>1, <1>2, AtStage, PlannedContext
<1>4. todo' \in AnsweredStages
    BY <1>1, AtStage, StageOfNode, StageBehind DEF AnsweredStages
<1>5. /\ todo \notin {<<"react", "aggregator">>, <<"invoke">>, <<"analyzer">>, SimplePath,
                      <<"simple_exec", "aggregator">>}
      /\ answers \in Seq(Authors)
  <2>1. Head(<<"react", "aggregator">>) = "react" /\ Head(<<"invoke">>) = "invoke"
        /\ Head(<<"analyzer">>) = "analyzer" /\ Head(SimplePath) = "simple_executor"
        /\ Head(<<"simple_exec", "aggregator">>) = "simple_exec"
        /\ Head(<<"medium_executor", "result_merger">>) = "medium_executor"
        /\ Head(<<"result_merger">>) = "result_merger"
    BY DEF SimplePath
  <2> QED
    BY <1>1, <2>1, AtStage
<1> QED
    BY <1>1, <1>3, <1>4, <1>5, PlanningKeeps

(* The medium executor: nothing is counted that its summary could hide. *)
LEMMA MediumExecuteKeeps == ASSUME GraphInv, graph # "parallel", MediumExecute PROVE GraphInv'
<1>1. /\ outcome = "none" /\ todo' = Tail(todo) /\ UNCHANGED <<inputVars, total, answers, outcome, result, pnode>>
      /\ Head(todo) = "medium_executor"
    BY DEF MediumExecute, At, parallelVars
<1>2. todo = <<"medium_executor", "result_merger">> /\ todo' = <<"result_merger">>
    BY <1>1, AtStage, StageOfNode, StageBehind
<1>3. (answers = <<>> \/ Decomposed) /\ tc.tokens = 0
    BY <1>1, <1>2, AtStage, StagesDiffer DEF RunningInv, Decomposed
<1>4. ContextTyped
    BY <1>1, AtStage
<1>5. ContextTyped' /\ tc'.tokens = tc.tokens
  <2> DEFINE q == tc.subtasks
             plan == [i \in DOMAIN q |-> [q[i] EXCEPT !.done = TRUE]]
             summary == [i \in DOMAIN q |-> "subtask"]
  <2>1. tc' = [tc EXCEPT !.subtasks = plan, !.summary = summary, !.progress = 100]
    BY DEF MediumExecute
  <2>2. Len(q) \in Nat /\ DOMAIN q = 1 .. Len(q) /\ q \in Seq(PlannedSubtasks)
    BY <1>4 DEF ContextTyped
  <2> HIDE DEF q
  <2>3. \A i \in DOMAIN q : [q[i] EXCEPT !.done = TRUE] \in PlannedSubtasks
    <3>1. ASSUME NEW r \in PlannedSubtasks PROVE [r EXCEPT !.done = TRUE] \in PlannedSubtasks
      BY DEF PlannedSubtasks
    <3>2. \A i \in DOMAIN q : q[i] \in PlannedSubtasks
      BY <2>2
    <3> QED
      BY <3>1, <3>2
  <2>4. plan \in Seq(PlannedSubtasks)
    BY <2>2, <2>3
  <2>5. summary \in Seq(Authors)
    <3>1. "subtask" \in Authors
      BY DEF Authors
    <3> QED
      BY <2>2, <3>1
  <2> HIDE DEF plan, summary
  <2> QED
    BY <1>4, <2>1, <2>4, <2>5 DEF ContextTyped
<1>6. todo \notin {<<"react", "aggregator">>, <<"invoke">>, <<"analyzer">>, SimplePath,
                  <<"simple_exec", "aggregator">>}
    BY <1>2 DEF SimplePath
<1>7. RunningInv'
  <2>1. <<"result_merger">> \in AnsweredStages /\ <<>> \in Seq(Authors) /\ Len(<<>>) = 0
    BY DEF AnsweredStages
  <2> QED
    BY <1>1, <1>2, <1>3, <1>5, <2>1 DEF RunningInv, Accounts, Decomposed
<1>8. OneCallerInv'
    BY <1>1, <1>6, OneCallerKept
<1> QED
    BY <1>1, <1>5, <1>7, <1>8, GoesOn DEF inputVars

(* ReAct: its count is taken over with its last answer. *)
LEMMA ReActNodeKeeps ==
  ASSUME GraphInv, graph # "parallel", ReActIteration \/ ReActSkipped
  PROVE  GraphInv'
<1>1. /\ outcome = "none" /\ Head(todo) = "react" /\ UNCHANGED <<inputVars, result, pnode>>
    BY DEF ReActIteration, ReActSkipped, At, parallelVars
<1>2. /\ todo = <<"react", "aggregator">> /\ Tail(todo) = <<"aggregator">> /\ <<"aggregator">> \in AnsweredStages
      /\ answers \in Seq(Authors) /\ Len(answers) \in Nat /\ ContextTyped /\ OneCallerInv
  <2>1. answers \in Seq(Authors) /\ ContextTyped /\ OneCallerInv /\ todo = <<"react", "aggregator">>
    BY <1>1, AtStage, StageOfNode
  <2>2. Tail(<<"react", "aggregator">>) = <<"aggregator">> /\ <<"aggregator">> \in AnsweredStages
    BY StageBehind DEF AnsweredStages
  <2>3. Len(answers) \in Nat
    BY <2>1
  <2> QED
    BY <2>1, <2>2, <2>3
<1>3. total.tokens = Len(answers) /\ tc.tokens = 0 /\ (answers # <<>> => hasLLM)
    BY <1>1, <1>2, AtStage, StagesDiffer DEF RunningInv
<1>4. todo \notin {<<"invoke">>, <<"analyzer">>, SimplePath}
    BY <1>2 DEF SimplePath
<1>5. ASSUME ReActSkipped PROVE GraphInv'
  <2>1. ContextTyped' /\ tc'.tokens = 0 /\ answers = <<>> /\ answers' = answers /\ outcome' = "none" /\ todo' = Tail(todo)
    BY <1>1, <1>2, <1>3, <1>5 DEF ReActSkipped, ContextTyped
  <2>2. RunningInv'
    BY <1>2, <2>1 DEF RunningInv, Accounts
  <2>3. OneCallerInv'
    BY <1>1, <1>5, <2>1, OneCallerKept DEF ReActSkipped
  <2> QED
    BY <1>1, <2>1, <2>2, <2>3, GoesOn DEF inputVars
<1>6. ASSUME ReActIteration PROVE GraphInv'
  <2> DEFINE t == [tokens |-> total.tokens + 1, iterations |-> total.iterations + 1]
  <2>1. PICK ends \in BOOLEAN :
          \/ outcome' = "error" /\ answers' = answers
          \/ /\ total' = t /\ answers' = Append(answers, "react") /\ outcome' = "none" /\ hasLLM
             /\ tc' = IF ends THEN [tc EXCEPT !.summary = <<"react">>, !.tokens = t.tokens, !.progress = 100] ELSE tc
             /\ todo' = IF ends THEN Tail(todo) ELSE todo
    BY <1>1, <1>6 DEF ReActIteration
  <2>2. CASE outcome' = "error" /\ answers' = answers
    BY <1>1, <2>2, GoesOn DEF inputVars
  <2>3. CASE outcome' # "error"
    <3>1. total'.tokens = Len(answers) + 1 /\ t.tokens = Len(answers) + 1
      BY <1>3, <2>1, <2>3
    <3> HIDE DEF t
    <3>2. "react" \in Authors
      BY DEF Authors
    <3>3. /\ answers' \in Seq(Authors) /\ answers' # <<>> /\ Len(answers') = Len(answers) + 1
          /\ answers'[Len(answers')] = "react"
      BY <1>2, <2>1, <2>3, <3>2, OneMoreAnswer
    <3>4. OneCallerInv'
      BY <3>3 DEF OneCallerInv
    <3>5. CASE ends
      <4>1. tc' = [tc EXCEPT !.summary = <<"react">>, !.tokens = t.tokens, !.progress = 100] /\ todo' = <<"aggregator">>
        BY <1>2, <2>1, <2>3, <3>5
      <4>2. /\ ContextTyped' /\ tc'.tokens = Len(answers')
            /\ tc'.summary # <<>> /\ tc'.summary[Len(tc'.summary)] = "react"
        BY <1>2, <3>1, <3>2, <3>3, <4>1 DEF ContextTyped
      <4>3. RunningInv'
        BY <1>2, <3>3, <4>1, <4>2 DEF RunningInv, Accounts
      <4> QED
        BY <1>1, <2>1, <2>3, <3>4, <4>2, <4>3, GoesOn DEF inputVars
    <3>6. CASE ~ends
      <4>1. tc' = tc /\ todo' = todo
        BY <2>1, <2>3, <3>6
      <4>2. RunningInv'
        BY <1>1, <1>2, <1>3, <2>1, <2>3, <3>1, <3>3, <4>1 DEF RunningInv, inputVars
      <4>3. ContextTyped'
        BY <1>2, <4>1 DEF ContextTyped
      <4> QED
        BY <1>1, <2>1, <2>3, <3>4, <4>2, <4>3, GoesOn DEF inputVars
    <3> QED
      BY <3>5, <3>6
  <2> QED
    BY <2>2, <2>3, <2>1
<1> QED
    BY <1>5, <1>6

(* A result that accounts for answers that are all counted. *)
LEMMA AccountedResult ==
  ASSUME answers \in Seq(Authors), answers' = answers, Accounts(result'.summary, result'.tokens),
         (hasLLM /\ OneCaller)' => answers' # <<>>
  PROVE  ResultAccounts'
<1>1. Counted' = Counted
    BY DEF Counted
<1>2. Counted = 1 .. Len(answers) /\ Cardinality(Counted) = Len(answers) /\ Len(answers) \in Nat
    BY CountedAnswers
<1>3. ASSUME NEW i \in Counted, \A j \in Counted : j <= i
      PROVE  answers # <<>> /\ i = Len(answers)
    BY <1>2, <1>3
<1> QED
    BY <1>1, <1>2, <1>3 DEF ResultAccounts, Accounts

(* The result is the context, which accounts for the answers. *)
LEMMA ResultMergerKeeps == ASSUME GraphInv, graph # "parallel", ResultMerger PROVE GraphInv'
<1>1. /\ outcome = "none" /\ Head(todo) = "result_merger" /\ UNCHANGED <<inputVars, answers, pnode>>
      /\ outcome' = "success" /\ result' = tc
    BY DEF ResultMerger, At, parallelVars
<1>2. todo = <<"result_merger">> /\ OneCallerInv
    BY <1>1, AtStage, StageOfNode
<1>3. todo \notin {<<"react", "aggregator">>, <<"invoke">>, <<"analyzer">>, SimplePath,
                  <<"simple_exec", "aggregator">>}
    BY <1>2 DEF SimplePath
<1>4. (hasLLM /\ OneCaller)' => answers' # <<>>
    BY <1>1, <1>2, <1>3 DEF OneCallerInv, OneCaller, inputVars
<1>5. Counted' = Counted
    BY <1>1 DEF Counted
<1>6. CASE answers \in Seq(Authors)
  <2>1. Accounts(tc.summary, tc.tokens)
    BY <1>1, <1>3, <1>6, AccountsSoFar
  <2>2. ResultAccounts'
    BY <1>1, <1>4, <1>6, <2>1, AccountedResult
  <2> QED
    BY <1>1, <2>2 DEF GraphInv, inputVars
<1>7. CASE Decomposed
  <2>1. ResultAccounts'
    BY <1>1, <1>4, <1>5, <1>7, CountedAnswers DEF ResultAccounts, Decomposed
  <2> QED
    BY <1>1, <2>1 DEF GraphInv, inputVars
<1> QED
    BY <1>1, <1>6, <1>7, AtStage

(* The aggregator puts its own text before the summary. *)
LEMMA EinoAggregateKeeps == ASSUME GraphInv, graph # "parallel", EinoAggregate PROVE GraphInv'
<1>1. /\ outcome = "none" /\ Head(todo) = "aggregator" /\ UNCHANGED <<inputVars, answers, pnode>>
      /\ outcome' = "success" /\ result' = tc'
    BY DEF EinoAggregate, At, parallelVars
<1>2. todo = <<"aggregator">> /\ answers \in Seq(Authors) /\ OneCallerInv /\ ContextTyped
    BY <1>1, AtStage, StageOfNode
<1>3. todo \notin {<<"react", "aggregator">>, <<"invoke">>, <<"analyzer">>, SimplePath,
                  <<"simple_exec", "aggregator">>}
    BY <1>2 DEF SimplePath
<1>4. /\ Accounts(tc.summary, tc.tokens)
      /\ (hasLLM /\ OneCaller)' => answers' # <<>>
    BY <1>1, <1>2, <1>3, AccountsSoFar DEF OneCallerInv, OneCaller, inputVars
<1> DEFINE old == tc.summary
           head == <<"aggregator">> \o [i \in DOMAIN tc.subtasks |-> "subtask"]
           new == head \o old
<1>5. tc' = [tc EXCEPT !.summary = new]
    BY DEF EinoAggregate
<1>6. head \in Seq(Authors)
  <2>1. "aggregator" \in Authors /\ "subtask" \in Authors
    BY DEF Authors
  <2>2. Len(tc.subtasks) \in Nat /\ DOMAIN tc.subtasks = 1 .. Len(tc.subtasks)
    BY <1>2 DEF ContextTyped
  <2>3. [i \in DOMAIN tc.subtasks |-> "subtask"] \in Seq(Authors)
    BY <2>1, <2>2
  <2> QED
    BY <2>1, <2>3
<1>7. old \in Seq(Authors)
    BY <1>2 DEF ContextTyped
<1> HIDE DEF head, old
<1>8. old # <<>> => new # <<>> /\ new[Len(new)] = old[Len(old)]
  <2> SUFFICES ASSUME old # <<>> PROVE new # <<>> /\ new[Len(new)] = old[Len(old)]
    OBVIOUS
  <2>1. Len(head) \in Nat /\ Len(old) \in Nat \ {0} /\ Len(new) = Len(head) + Len(old)
    BY <1>6, <1>7
  <2>2. Len(head) + Len(old) \in 1 .. Len(new) /\ new[Len(head) + Len(old)] = old[Len(old)]
    BY <1>6, <1>7, <2>1
  <2> QED
    BY <2>1, <2>2
<1> HIDE DEF new
<1>9. tc'.summary = new /\ tc'.tokens = tc.tokens
    BY <1>2, <1>5 DEF ContextTyped
<1>10. Accounts(result'.summary, result'.tokens)
    BY <1>1, <1>4, <1>8, <1>9 DEF Accounts, old
<1>11. ResultAccounts'
    BY <1>1, <1>2, <1>4, <1>10, AccountedResult
<1> QED
    BY <1>1, <1>11 DEF GraphInv, inputVars

(* The invariant of the graphs, for any goals, rules and answers. *)
THEOREM GraphInvariant == GraphSpec => []GraphInv
<1>1. GraphInit => GraphInv
  <2> SUFFICES ASSUME GraphInit PROVE GraphInv
    OBVIOUS
  <2>1. ContextTyped /\ tc.tokens = 0
    <3>1. <<>> \in Seq(Authors) /\ <<>> \in Seq(PlannedSubtasks)
      OBVIOUS
    <3> QED
      BY <3>1 DEF GraphInit, EmptyContext, ContextTyped
  <2> QED
    BY <2>1 DEF GraphInit, GraphInv, RunningInv, OneCallerInv, ResultAccounts, FreshStages
<1>2. GraphInv /\ [GraphNext]_graphVars => GraphInv'
  <2> SUFFICES ASSUME GraphInv, [GraphNext]_graphVars PROVE GraphInv'
    OBVIOUS
  <2>1. CASE UNCHANGED graphVars
    BY <2>1 DEF graphVars, GraphInv, ContextTyped, RunningInv, OneCallerInv, ResultAccounts, Accounts,
       Counted, OneCaller, Decomposed
  <2>2. CASE graph = "parallel"
    <3>1. graph' = graph
      BY <2>1 DEF GraphNext, GraphSteps, NodeSteps, InvokeGraph, UpdateRule, TaskGraphBranch,
         FullTaskGraphBranch,
         EinoAnalyze, SimpleExecute, MediumDecompose, MediumExecute, ObserverNode, StrategistNode, ExecutorNode,
         GuardianNode, TesterNode, Consult, ResultMerger, ReActIteration, ReActSkipped, EinoDecompose, EinoAggregate,
         ParallelStart, ParallelReceives, NodeReads, NodeWrites, NodeSends, inputVars, graphVars
    <3> QED
      BY <2>2, <3>1 DEF GraphInv
  <2>3. CASE graph # "parallel" /\ GraphSteps
    <3>1. ~ParallelReceives /\ \A nodes \in SUBSET ParallelNodes : ~ParallelStart(nodes)
      <4>1. outcome = "none" => Head(todo) # "parallel"
        BY <2>3, AtStage, StageOfNode
      <4> QED
        BY <4>1 DEF ParallelStart, ParallelReceives, At
    <3>2. CASE ObserverNode \/ ExecutorNode \/ GuardianNode \/ TesterNode
      BY <2>3, <3>2, ConsultKeeps DEF ObserverNode, ExecutorNode, GuardianNode, TesterNode
    <3> QED
      BY <2>3, <3>1, <3>2, BranchKeeps, SimpleExecuteKeeps, MediumDecomposeKeeps, DecomposeKeeps,
         MediumExecuteKeeps,
         ReActNodeKeeps,
         ResultMergerKeeps, EinoAggregateKeeps DEF GraphSteps
  <2>4. ASSUME graph # "parallel", NEW n \in ParallelNodes, NodeSteps(n) PROVE FALSE
    BY <2>4 DEF GraphInv, NodeSteps, NodeReads, NodeWrites, NodeSends
  <2> QED
    BY <2>1, <2>2, <2>3, <2>4, InvokeKeeps DEF GraphNext
<1> QED
    BY <1>1, <1>2, PTL DEF GraphSpec

(* Whatever fails on the way through a graph with one node at a time, its    *)
(* result counts each answer but the medium decomposer's once, ends with the *)
(* last that it counts, and is no success of a task that was routed to the   *)
(* simple executor or to ReAct without an answer (nodes.go:374, 472, 696).   *)
THEOREM ResultsAccountForAnswers == GraphSpec => []ResultAccounts
<1>1. GraphInv => ResultAccounts
    BY DEF GraphInv, ResultAccounts
<1> QED
    BY <1>1, GraphInvariant, PTL
=============================================================================
