---------------------------- MODULE OutboxPoller ----------------------------
(***************************************************************************)
(* The forwarder of the outbox to a Redis Stream (infra/outbox/poller.go). *)
(*                                                                         *)
(* Every poller reads a batch of pending rows into its memory, sends each  *)
(* to the stream and then updates the row by its id alone.  The SELECT ... *)
(* FOR UPDATE SKIP LOCKED runs outside a transaction, so its locks end     *)
(* with the statement and pollers work on the same rows.                   *)
(*                                                                         *)
(* A statement or an XADD is one step.  Stop cancels the poller's context, *)
(* after which its statements fail; a crash ends it between two steps.     *)
(***************************************************************************)
EXTENDS Naturals, FiniteSets, FiniteSetsExt

CONSTANTS
    MaxEvents,     \* rows, numbered by created_at
    Pollers,       \* one in each server
    BatchSize,     \* PollerConfig.BatchSize
    MaxRetries,    \* PollerConfig.MaxRetries
    BackoffAfter,  \* retries before a failure is followed by a pause, 3 in the code
    MaxMishaps     \* bound: failing statements, shutdowns and crashes together

ASSUME PollerAssumption ==
    /\ MaxEvents \in Nat /\ BatchSize \in Nat \ {0}
    /\ MaxRetries \in Nat                   \* PollerConfig.Validate
    /\ BackoffAfter \in Nat /\ MaxMishaps \in Nat

Events == 1 .. MaxEvents

VARIABLES
    row,        \* row[e]: the status of the row; "absent" before, "purged" after
    retryCount, \* retryCount[e]: its column
    stream,     \* the events that Redis has got at least once
    failures,   \* failures[e]: the XADDs of e that Redis refused
    at,         \* at[p]: where the poller's goroutine is
    batch,      \* batch[p]: the events it has still to process, the first being at work
    copy,       \* copy[p][e]: the retry count it read, 0 for events that are not in its batch
    cancelled,  \* the pollers whose context is cancelled
    mishaps     \* how many statements failed and pollers were stopped

rowVars == <<row, retryCount>>
pollerVars == <<rowVars, stream, failures, at, batch, copy, cancelled, mishaps>>

PollerInit ==
    /\ row = [e \in Events |-> "absent"]
    /\ retryCount = [e \in Events |-> 0]
    /\ stream = {} /\ failures = [e \in Events |-> 0]
    /\ at = [p \in Pollers |-> "stopped"]
    /\ batch = [p \in Pollers |-> {}]
    /\ copy = [p \in Pollers |-> [e \in Events |-> 0]]
    /\ cancelled = {} /\ mishaps = 0

Current(p) == Min(batch[p])
Mishap == mishaps < MaxMishaps /\ mishaps' = mishaps + 1

(* for _, event := range events *)
NextEvent(p) ==
    /\ batch' = [batch EXCEPT ![p] = @ \ {Current(p)}]
    /\ copy' = [copy EXCEPT ![p][Current(p)] = 0]
    /\ at' = [at EXCEPT ![p] = IF batch[p] = {Current(p)} THEN "tick" ELSE "forward"]

(* An UPDATE ... WHERE id = e that sets the status and the retry count, of   *)
(* no effect when the row is gone.                                           *)
Update(e, status, count) ==
    IF row[e] \in {"absent", "purged"}
      THEN UNCHANGED rowVars
      ELSE /\ row' = [row EXCEPT ![e] = status]
           /\ retryCount' = [retryCount EXCEPT ![e] = count]

(* The statement fails: the context is cancelled, or the database says no. *)
StatementFails(p) ==
    /\ UNCHANGED rowVars
    /\ \/ p \in cancelled /\ UNCHANGED mishaps
       \/ Mishap

StatementWorks(p) == p \notin cancelled /\ UNCHANGED mishaps

-----------------------------------------------------------------------------
(* A business transaction commits its event. *)
Write(e) ==
    /\ row[e] = "absent"
    /\ row' = [row EXCEPT ![e] = "pending"]
    /\ UNCHANGED <<retryCount, stream, failures, at, batch, copy, cancelled, mishaps>>

PollerStart(p) ==
    /\ at[p] = "stopped"
    /\ at' = [at EXCEPT ![p] = "tick"]
    /\ cancelled' = cancelled \ {p}
    /\ UNCHANGED <<rowVars, stream, failures, batch, copy, mishaps>>

(* Stop cancels the context and waits for the loop. *)
PollerStop(p) ==
    /\ at[p] # "stopped" /\ p \notin cancelled
    /\ Mishap
    /\ cancelled' = cancelled \cup {p}
    /\ UNCHANGED <<rowVars, stream, failures, at, batch, copy>>

(* The loop sees the cancelled context.  If the ticker wins, the query fails *)
(* and the loop comes round again.                                           *)
RunReturns(p) ==
    /\ at[p] = "tick" /\ p \in cancelled
    /\ at' = [at EXCEPT ![p] = "stopped"]
    /\ UNCHANGED <<rowVars, stream, failures, batch, copy, cancelled, mishaps>>

Crash(p) ==
    /\ at[p] # "stopped"
    /\ Mishap
    /\ at' = [at EXCEPT ![p] = "stopped"]
    /\ batch' = [batch EXCEPT ![p] = {}]
    /\ copy' = [copy EXCEPT ![p] = [e \in Events |-> 0]]
    /\ cancelled' = cancelled \ {p}
    /\ UNCHANGED <<rowVars, stream, failures>>

(* The rows that the query selects: the oldest ones, BatchSize at most. *)
Selected ==
    LET ready == {e \in Events : row[e] = "pending" /\ retryCount[e] < MaxRetries}
    IN  {e \in ready : Cardinality({f \in ready : f < e}) < BatchSize}

(* A query that fails or finds nothing ends the cycle. *)
FetchPendingEvents(p) ==
    /\ at[p] = "tick" /\ p \notin cancelled
    /\ Selected # {}
    /\ batch' = [batch EXCEPT ![p] = Selected]
    /\ copy' = [copy EXCEPT ![p] =
                  [e \in Events |-> IF e \in Selected THEN retryCount[e] ELSE 0]]
    /\ at' = [at EXCEPT ![p] = "forward"]
    /\ UNCHANGED <<rowVars, stream, failures, cancelled, mishaps>>

(* XADD.  An error may come after Redis has added the event. *)
ForwardOk(p) ==
    /\ at[p] = "forward" /\ p \notin cancelled
    /\ stream' = stream \cup {Current(p)}
    /\ at' = [at EXCEPT ![p] = "publish"]
    /\ UNCHANGED <<rowVars, failures, batch, copy, cancelled, mishaps>>

ForwardFails(p) ==
    /\ at[p] = "forward"
    /\ stream' \in {stream, stream \cup {Current(p)}}
    /\ failures' = IF p \in cancelled THEN failures
                   ELSE [failures EXCEPT ![Current(p)] = @ + 1]
    /\ at' = [at EXCEPT ![p] = "fail"]
    /\ UNCHANGED <<rowVars, batch, copy, cancelled, mishaps>>

(* Mutant: the row is marked before the event is sent. *)
MarkFirst(p) ==
    /\ at[p] \in {"forward", "publish"}
    /\ \/ /\ StatementWorks(p)
          /\ Update(Current(p), "published", retryCount[Current(p)])
       \/ StatementFails(p)
    /\ IF at[p] = "forward" THEN UNCHANGED <<at, batch, copy>> ELSE NextEvent(p)
    /\ UNCHANGED <<stream, failures, cancelled>>

(* A failed update is logged: the event will be sent again. *)
MarkPublished(p) ==
    /\ at[p] = "publish"
    /\ \/ /\ StatementWorks(p)
          /\ Update(Current(p), "published", retryCount[Current(p)])
       \/ StatementFails(p)
    /\ NextEvent(p)
    /\ UNCHANGED <<stream, failures, cancelled>>

NewRetryCount(p) == copy[p][Current(p)] + 1
Exhausted(p) == NewRetryCount(p) >= MaxRetries

(* Mutant: the last failure leaves the row pending. *)
GiveUpPending(p) ==
    /\ at[p] = "fail" /\ Exhausted(p)
    /\ \/ /\ StatementWorks(p)
          /\ Update(Current(p), row[Current(p)], NewRetryCount(p))
       \/ StatementFails(p)
    /\ NextEvent(p)
    /\ UNCHANGED <<stream, failures, cancelled>>

(* markFailed with no retry left. *)
MarkFailed(p) ==
    /\ at[p] = "fail" /\ Exhausted(p)
    /\ \/ /\ StatementWorks(p)
          /\ Update(Current(p), "failed", NewRetryCount(p))
       \/ StatementFails(p)
    /\ NextEvent(p)
    /\ UNCHANGED <<stream, failures, cancelled>>

(* After BackoffAfter retries the poller sleeps before it counts the next,   *)
(* unless its context ends, which leaves the row as it is.                   *)
Backoff(p) ==
    /\ at[p] = "fail" /\ ~Exhausted(p)
    /\ copy[p][Current(p)] >= BackoffAfter
    /\ \/ at' = [at EXCEPT ![p] = "count"] /\ UNCHANGED <<batch, copy>>
       \/ p \in cancelled /\ NextEvent(p)
    /\ UNCHANGED <<rowVars, stream, failures, cancelled, mishaps>>

(* The retry count is overwritten with the one read before plus one. *)
CountRetry(p) ==
    /\ \/ at[p] = "count"
       \/ at[p] = "fail" /\ ~Exhausted(p) /\ copy[p][Current(p)] < BackoffAfter
    /\ \/ /\ StatementWorks(p)
          /\ Update(Current(p), row[Current(p)], NewRetryCount(p))
       \/ StatementFails(p)
    /\ NextEvent(p)
    /\ UNCHANGED <<stream, failures, cancelled>>

(* PurgePublished deletes the published rows up to a cutoff. *)
PurgePublished(cutoff) ==
    /\ \E e \in 1 .. cutoff : row[e] = "published"
    /\ row' = [e \in Events |-> IF e <= cutoff /\ row[e] = "published" THEN "purged" ELSE row[e]]
    /\ UNCHANGED <<retryCount, stream, failures, at, batch, copy, cancelled, mishaps>>

-----------------------------------------------------------------------------
PollerStep(p) ==
    \/ RunReturns(p) \/ FetchPendingEvents(p)
    \/ ForwardOk(p) \/ ForwardFails(p)
    \/ MarkPublished(p) \/ MarkFailed(p) \/ Backoff(p) \/ CountRetry(p)

PollerNext ==
    \/ \E e \in Events : Write(e) \/ PurgePublished(e)
    \/ \E p \in Pollers : PollerStart(p) \/ PollerStop(p) \/ Crash(p) \/ PollerStep(p)

PollerSpec == PollerInit /\ [][PollerNext]_pollerVars

(* The ticker fires, Redis and the database answer, a sleep ends, and a      *)
(* poller that was stopped is started with its server.                       *)
PollerFairness ==
    \A p \in Pollers : WF_pollerVars(PollerStep(p)) /\ WF_pollerVars(PollerStart(p))

-----------------------------------------------------------------------------
PollerTypeOK ==
    /\ row \in [Events -> {"absent", "pending", "published", "failed", "purged"}]
    /\ retryCount \in [Events -> Nat]
    /\ stream \subseteq Events
    /\ failures \in [Events -> Nat]
    /\ at \in [Pollers -> {"stopped", "tick", "forward", "publish", "fail", "count"}]
    /\ batch \in [Pollers -> SUBSET Events]
    /\ \A p \in Pollers : (at[p] \in {"stopped", "tick"}) <=> (batch[p] = {})
    /\ copy \in [Pollers -> [Events -> Nat]]
    /\ cancelled \subseteq Pollers
    /\ mishaps \in Nat

(* At least once: a row is published, and may be purged, only when the       *)
(* stream has its event, through crashes, shutdowns, statements that fail    *)
(* and rows that several pollers work on.                                    *)
PublishedIsInStream == \A e \in Events : row[e] \in {"published", "purged"} => e \in stream

(* A row is given up only after Redis has refused it MaxRetries times: the   *)
(* retry counts that pollers write over each other's never run ahead of the  *)
(* failures, and a shutdown, which makes every XADD fail, uses up no retry.  *)
GivenUpAfterMaxRetries ==
    \A e \in Events : row[e] = "failed" => failures[e] >= MaxRetries

(* At least once, or given up for a reason: what several pollers leave in a  *)
(* row tells what happened to its event (poller.go:276, 317).                *)
OutcomeIsTrue == PublishedIsInStream /\ GivenUpAfterMaxRetries

(* A pending row is settled in the end, although pollers set each other's    *)
(* retry count back.                                                         *)
PendingIsSettled == \A e \in Events : (row[e] = "pending") ~> (row[e] # "pending")

-----------------------------------------------------------------------------
(* The inductive invariant behind the two safety properties. *)

(* An event that is about to be marked as published has been sent. *)
SentInv == \A p \in Pollers : at[p] = "publish" => Current(p) \in stream

(* A retry count, in a row or in memory, is never ahead of the failures, and *)
(* a poller that is about to write the next one has seen one more failure.   *)
CountInv ==
    /\ \A e \in Events : retryCount[e] <= failures[e]
    /\ \A p \in Pollers, e \in Events : copy[p][e] <= failures[e]
    /\ \A p \in Pollers \ cancelled :
          at[p] \in {"fail", "count"} => NewRetryCount(p) <= failures[Current(p)]

PollerInv ==
    PollerTypeOK /\ SentInv /\ CountInv /\ PublishedIsInStream /\ GivenUpAfterMaxRetries

-----------------------------------------------------------------------------
(* What the comments of the code say; the code does not keep it.             *)

(* "published: successfully published to Redis Stream": it stays so. *)
PublishedStays ==
    [][\A e \in Events : row[e] = "published" => row'[e] \in {"published", "purged"}]_pollerVars

(* "failed: failed to publish and will be retried". *)
FailedIsRetried == \A e \in Events : (row[e] = "failed") ~> (row[e] # "failed")
=============================================================================
