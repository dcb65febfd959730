--------------------------- MODULE ServicesProofs ---------------------------
(***************************************************************************)
(* Proofs about OutboxPoller and Guardian for any number of rows, pollers, *)
(* tasks, requests and users.                                              *)
(***************************************************************************)
EXTENDS OutboxPoller, Guardian, NaturalsInduction, WellFoundedInduction, TLAPS

(* The event at work is one of the batch: a set of events has a least one. *)
LEMMA CurrentInBatch ==
    ASSUME NEW p \in Pollers, batch[p] \in SUBSET Events, batch[p] # {}
    PROVE  Current(p) \in batch[p]
<1>1. batch[p] \subseteq Nat
    BY PollerAssumption DEF Events
<1>2. PICK x \in batch[p] : \A y \in batch[p] : <<y, x>> \notin OpToRel(<, Nat)
    BY <1>1, WFMin, NatLessThanWellFounded
<1>3. \A y \in batch[p] : ~(y < x)
    BY <1>1, <1>2, Zenon DEF OpToRel
<1>4. \A y \in batch[p] : x <= y
    BY <1>1, <1>3
<1> QED
    BY <1>4 DEF Current, Min

(* The step to the next event of the batch keeps the types. *)
LEMMA NextEventType ==
    ASSUME PollerTypeOK, NEW p \in Pollers, at[p] \notin {"stopped", "tick"}, NextEvent(p)
    PROVE  /\ at' \in [Pollers -> {"stopped", "tick", "forward", "publish", "fail", "count"}]
           /\ batch' \in [Pollers -> SUBSET Events]
           /\ \A q \in Pollers : (at'[q] \in {"stopped", "tick"}) <=> (batch'[q] = {})
           /\ copy' \in [Pollers -> [Events -> Nat]]
<1> USE DEF PollerTypeOK, NextEvent
<1>1. Current(p) \in batch[p] /\ Current(p) \in Events
    BY CurrentInBatch
<1>2. batch' \in [Pollers -> SUBSET Events] /\ copy' \in [Pollers -> [Events -> Nat]]
    BY <1>1
<1>3. \A q \in Pollers : (at'[q] \in {"stopped", "tick"}) <=> (batch'[q] = {})
    BY <1>1
<1> QED
    BY <1>2, <1>3

(* So does a statement that writes a status and a count. *)
LEMMA UpdateType ==
    ASSUME PollerTypeOK, NEW e \in Events, NEW count \in Nat,
           NEW status \in {"absent", "pending", "published", "failed", "purged"},
           Update(e, status, count)
    PROVE  /\ row' \in [Events -> {"absent", "pending", "published", "failed", "purged"}]
           /\ retryCount' \in [Events -> Nat]
<1>1. CASE row[e] \in {"absent", "purged"}
    BY <1>1 DEF PollerTypeOK, Update, rowVars
<1>2. CASE row[e] \notin {"absent", "purged"}
  <2>1. row' = [row EXCEPT ![e] = status] /\ retryCount' = [retryCount EXCEPT ![e] = count]
    BY <1>2 DEF Update
  <2>2. row \in [Events -> {"absent", "pending", "published", "failed", "purged"}]
    BY DEF PollerTypeOK
  <2>3. retryCount \in [Events -> Nat]
    BY DEF PollerTypeOK
  <2> QED
    BY <2>1, <2>2, <2>3
<1> QED
    BY <1>1, <1>2

(* Every step of a poller keeps the types. *)
LEMMA PollerTypeStep == PollerTypeOK /\ [PollerNext]_pollerVars => (PollerTypeOK)'
<1> SUFFICES ASSUME PollerTypeOK, [PollerNext]_pollerVars PROVE (PollerTypeOK)'
    OBVIOUS
<1>0. \A p \in Pollers : batch[p] # {} => Current(p) \in batch[p]
    BY CurrentInBatch DEF PollerTypeOK
<1> USE <1>0 DEF PollerTypeOK, rowVars
<1>1. ASSUME NEW e \in Events, Write(e) PROVE (PollerTypeOK)'
    BY <1>1 DEF Write
<1>2. ASSUME NEW e \in Events, PurgePublished(e) PROVE (PollerTypeOK)'
    BY <1>2 DEF PurgePublished
<1>3. ASSUME NEW p \in Pollers, PollerStart(p) PROVE (PollerTypeOK)'
    BY <1>3 DEF PollerStart
<1>4. ASSUME NEW p \in Pollers, PollerStop(p) PROVE (PollerTypeOK)'
    BY <1>4 DEF PollerStop, Mishap
<1>5. ASSUME NEW p \in Pollers, Crash(p) PROVE (PollerTypeOK)'
    BY <1>5 DEF Crash, Mishap
<1>6. ASSUME NEW p \in Pollers, RunReturns(p) PROVE (PollerTypeOK)'
    BY <1>6 DEF RunReturns
<1>7. ASSUME NEW p \in Pollers, FetchPendingEvents(p) PROVE (PollerTypeOK)'
    BY <1>7 DEF FetchPendingEvents, Selected
<1>8. ASSUME NEW p \in Pollers, ForwardOk(p) PROVE (PollerTypeOK)'
    BY <1>8 DEF ForwardOk
<1>9. ASSUME NEW p \in Pollers, ForwardFails(p) PROVE (PollerTypeOK)'
    BY <1>9 DEF ForwardFails
<1>10. ASSUME NEW p \in Pollers, MarkPublished(p) PROVE (PollerTypeOK)'
  <2>1. at[p] \notin {"stopped", "tick"} /\ NextEvent(p)
    BY <1>10 DEF MarkPublished
  <2>2. Current(p) \in Events /\ retryCount[Current(p)] \in Nat /\ NewRetryCount(p) \in Nat
    BY <2>1 DEF NewRetryCount
  <2>3. /\ row' \in [Events -> {"absent", "pending", "published", "failed", "purged"}]
        /\ retryCount' \in [Events -> Nat]
    <3>1. CASE Update(Current(p), "published", retryCount[Current(p)])
      BY <3>1, <2>2, UpdateType
    <3> QED
      BY <3>1, <1>10 DEF MarkPublished, StatementFails
  <2>4. mishaps' \in Nat
    BY <1>10 DEF MarkPublished, StatementWorks, StatementFails, Mishap
  <2> QED
    BY <2>1, <2>3, <2>4, NextEventType, <1>10 DEF MarkPublished
<1>11. ASSUME NEW p \in Pollers, MarkFailed(p) PROVE (PollerTypeOK)'
  <2>1. at[p] \notin {"stopped", "tick"} /\ NextEvent(p)
    BY <1>11 DEF MarkFailed
  <2>2. Current(p) \in Events /\ retryCount[Current(p)] \in Nat /\ NewRetryCount(p) \in Nat
    BY <2>1 DEF NewRetryCount
  <2>3. /\ row' \in [Events -> {"absent", "pending", "published", "failed", "purged"}]
        /\ retryCount' \in [Events -> Nat]
    <3>1. CASE Update(Current(p), "failed", NewRetryCount(p))
      BY <3>1, <2>2, UpdateType
    <3> QED
      BY <3>1, <1>11 DEF MarkFailed, StatementFails
  <2>4. mishaps' \in Nat
    BY <1>11 DEF MarkFailed, StatementWorks, StatementFails, Mishap
  <2> QED
    BY <2>1, <2>3, <2>4, NextEventType, <1>11 DEF MarkFailed
<1>12. ASSUME NEW p \in Pollers, Backoff(p) PROVE (PollerTypeOK)'
    BY NextEventType, <1>12 DEF Backoff
<1>13. ASSUME NEW p \in Pollers, CountRetry(p) PROVE (PollerTypeOK)'
  <2>1. at[p] \notin {"stopped", "tick"} /\ NextEvent(p)
    BY <1>13 DEF CountRetry
  <2>2. Current(p) \in Events /\ retryCount[Current(p)] \in Nat /\ NewRetryCount(p) \in Nat
    BY <2>1 DEF NewRetryCount
  <2>3. /\ row' \in [Events -> {"absent", "pending", "published", "failed", "purged"}]
        /\ retryCount' \in [Events -> Nat]
    <3>1. CASE Update(Current(p), row[Current(p)], NewRetryCount(p))
      BY <3>1, <2>2, UpdateType
    <3> QED
      BY <3>1, <1>13 DEF CountRetry, StatementFails
  <2>4. mishaps' \in Nat
    BY <1>13 DEF CountRetry, StatementWorks, StatementFails, Mishap
  <2> QED
    BY <2>1, <2>3, <2>4, NextEventType, <1>13 DEF CountRetry
<1>14. CASE UNCHANGED pollerVars
    BY <1>14 DEF pollerVars
<1> QED
    BY <1>1, <1>2, <1>3, <1>4, <1>5, <1>6, <1>7, <1>8, <1>9, <1>10, <1>11, <1>12, <1>13, <1>14
    DEF PollerNext, PollerStep

(* A row is published only by a poller that has sent its event. *)
LEMMA SentStep ==
    PollerTypeOK /\ SentInv /\ PublishedIsInStream /\ [PollerNext]_pollerVars
    => (SentInv /\ PublishedIsInStream)'
<1> SUFFICES ASSUME PollerTypeOK, SentInv, PublishedIsInStream, [PollerNext]_pollerVars
             PROVE  (SentInv /\ PublishedIsInStream)'
    OBVIOUS
<1>0. \A p \in Pollers : batch[p] # {} => Current(p) \in batch[p]
    BY CurrentInBatch DEF PollerTypeOK
<1> USE <1>0 DEF PollerTypeOK, SentInv, PublishedIsInStream, Current, rowVars
<1>1. ASSUME NEW e \in Events, Write(e) PROVE (SentInv /\ PublishedIsInStream)'
    BY <1>1 DEF Write
<1>2. ASSUME NEW e \in Events, PurgePublished(e) PROVE (SentInv /\ PublishedIsInStream)'
    BY <1>2 DEF PurgePublished
<1>3. ASSUME NEW p \in Pollers, PollerStart(p) PROVE (SentInv /\ PublishedIsInStream)'
    BY <1>3 DEF PollerStart
<1>4. ASSUME NEW p \in Pollers, PollerStop(p) PROVE (SentInv /\ PublishedIsInStream)'
    BY <1>4 DEF PollerStop, Mishap
<1>5. ASSUME NEW p \in Pollers, Crash(p) PROVE (SentInv /\ PublishedIsInStream)'
    BY <1>5 DEF Crash, Mishap
<1>6. ASSUME NEW p \in Pollers, RunReturns(p) PROVE (SentInv /\ PublishedIsInStream)'
    BY <1>6 DEF RunReturns
<1>7. ASSUME NEW p \in Pollers, FetchPendingEvents(p) PROVE (SentInv /\ PublishedIsInStream)'
    BY <1>7 DEF FetchPendingEvents, Selected
<1>8. ASSUME NEW p \in Pollers, ForwardOk(p) PROVE (SentInv /\ PublishedIsInStream)'
    BY <1>8 DEF ForwardOk
<1>9. ASSUME NEW p \in Pollers, ForwardFails(p) PROVE (SentInv /\ PublishedIsInStream)'
    BY <1>9 DEF ForwardFails
<1>10. ASSUME NEW p \in Pollers, MarkPublished(p) PROVE (SentInv /\ PublishedIsInStream)'
    BY <1>10 DEF MarkPublished, Update, StatementWorks, StatementFails, Mishap, NextEvent
<1>11. ASSUME NEW p \in Pollers, MarkFailed(p) PROVE (SentInv /\ PublishedIsInStream)'
    BY <1>11 DEF MarkFailed, Update, StatementWorks, StatementFails, Mishap, NextEvent
<1>12. ASSUME NEW p \in Pollers, Backoff(p) PROVE (SentInv /\ PublishedIsInStream)'
    BY <1>12 DEF Backoff, NextEvent
<1>13. ASSUME NEW p \in Pollers, CountRetry(p) PROVE (SentInv /\ PublishedIsInStream)'
    BY <1>13 DEF CountRetry, Update, StatementWorks, StatementFails, Mishap, NextEvent
<1>14. CASE UNCHANGED pollerVars
    BY <1>14 DEF pollerVars
<1> QED
    BY <1>1, <1>2, <1>3, <1>4, <1>5, <1>6, <1>7, <1>8, <1>9, <1>10, <1>11, <1>12, <1>13, <1>14
    DEF PollerNext, PollerStep

(* A count that a poller writes was earned by a failure of its own. *)
LEMMA CountStep ==
    PollerTypeOK /\ PollerTypeOK' /\ CountInv /\ GivenUpAfterMaxRetries
      /\ [PollerNext]_pollerVars
    => (CountInv /\ GivenUpAfterMaxRetries)'
<1> SUFFICES ASSUME PollerTypeOK, PollerTypeOK', CountInv, GivenUpAfterMaxRetries,
                    [PollerNext]_pollerVars
             PROVE  (CountInv /\ GivenUpAfterMaxRetries)'
    OBVIOUS
<1>0. \A p \in Pollers : batch[p] # {} => Current(p) \in batch[p]
    BY CurrentInBatch DEF PollerTypeOK
<1> USE <1>0 DEF PollerTypeOK, CountInv, GivenUpAfterMaxRetries, NewRetryCount, Exhausted, Current, rowVars
<1>1. ASSUME NEW e \in Events, Write(e) PROVE (CountInv /\ GivenUpAfterMaxRetries)'
    BY <1>1 DEF Write
<1>2. ASSUME NEW e \in Events, PurgePublished(e) PROVE (CountInv /\ GivenUpAfterMaxRetries)'
    BY <1>2 DEF PurgePublished
<1>3. ASSUME NEW p \in Pollers, PollerStart(p) PROVE (CountInv /\ GivenUpAfterMaxRetries)'
    BY <1>3 DEF PollerStart
<1>4. ASSUME NEW p \in Pollers, PollerStop(p) PROVE (CountInv /\ GivenUpAfterMaxRetries)'
    BY <1>4 DEF PollerStop, Mishap
<1>5. ASSUME NEW p \in Pollers, Crash(p) PROVE (CountInv /\ GivenUpAfterMaxRetries)'
    BY <1>5 DEF Crash, Mishap
<1>6. ASSUME NEW p \in Pollers, RunReturns(p) PROVE (CountInv /\ GivenUpAfterMaxRetries)'
    BY <1>6 DEF RunReturns
<1>7. ASSUME NEW p \in Pollers, FetchPendingEvents(p) PROVE (CountInv /\ GivenUpAfterMaxRetries)'
    BY <1>7 DEF FetchPendingEvents, Selected
<1>8. ASSUME NEW p \in Pollers, ForwardOk(p) PROVE (CountInv /\ GivenUpAfterMaxRetries)'
    BY <1>8 DEF ForwardOk
<1>9. ASSUME NEW p \in Pollers, ForwardFails(p) PROVE (CountInv /\ GivenUpAfterMaxRetries)'
  <2>1. Current(p) \in Events /\ batch[p] # {}
    BY <1>9 DEF ForwardFails
  <2>2. \A e \in Events : failures[e] \in Nat /\ failures'[e] \in Nat /\ failures[e] <= failures'[e]
    BY <2>1, <1>9 DEF ForwardFails
  <2>3. /\ \A e \in Events : retryCount'[e] <= failures'[e]
        /\ \A q \in Pollers, e \in Events : copy'[q][e] <= failures'[e]
    BY <2>1, <2>2, <1>9 DEF ForwardFails
  <2>4. \A q \in Pollers \ cancelled' : at'[q] \in {"fail", "count"} => NewRetryCount(q)' <= failures'[Current(q)']
    <3> SUFFICES ASSUME NEW q \in Pollers \ cancelled', at'[q] \in {"fail", "count"}
                 PROVE  NewRetryCount(q)' <= failures'[Current(q)']
      OBVIOUS
    <3>1. CASE q = p
      BY <2>1, <2>2, <3>1, <1>9 DEF ForwardFails
    <3>2. CASE q # p
      <4>1. /\ batch'[q] = batch[q] /\ copy'[q] = copy[q] /\ at'[q] = at[q] /\ cancelled' = cancelled
        BY <3>2, <1>9 DEF ForwardFails
      <4>2. batch[q] # {} /\ Current(q) \in Events
        BY <4>1
      <4> QED
        BY <2>2, <4>1, <4>2
    <3> QED
      BY <3>1, <3>2
  <2>5. GivenUpAfterMaxRetries'
    BY <2>1, <2>2, <1>9, PollerAssumption DEF ForwardFails
  <2> QED
    BY <2>3, <2>4, <2>5
<1>10. ASSUME NEW p \in Pollers, MarkPublished(p) PROVE (CountInv /\ GivenUpAfterMaxRetries)'
    BY <1>10 DEF MarkPublished, Update, StatementWorks, StatementFails, Mishap, NextEvent
<1>11. ASSUME NEW p \in Pollers, MarkFailed(p) PROVE (CountInv /\ GivenUpAfterMaxRetries)'
  <2>1. Current(p) \in Events /\ batch[p] # {}
    BY <1>11 DEF MarkFailed, Update, StatementWorks, StatementFails, Mishap, NextEvent
  <2>2. \A e \in Events : failures[e] \in Nat /\ failures'[e] \in Nat /\ failures[e] <= failures'[e]
    BY <2>1, <1>11 DEF MarkFailed, Update, StatementWorks, StatementFails, Mishap, NextEvent
  <2>3. /\ \A e \in Events : retryCount'[e] <= failures'[e]
        /\ \A q \in Pollers, e \in Events : copy'[q][e] <= failures'[e]
    <3>1. ASSUME NEW e \in Events PROVE retryCount'[e] <= failures'[e]
      <4>1. CASE UNCHANGED retryCount
        BY <2>2, <4>1
      <4>2. CASE ~UNCHANGED retryCount
        <5>1. p \notin cancelled /\ retryCount' = [retryCount EXCEPT ![Current(p)] = NewRetryCount(p)]
          BY <4>2, <1>11 DEF MarkFailed, Update, StatementWorks, StatementFails
        <5>2. NewRetryCount(p) <= failures[Current(p)]
          BY <5>1, <1>11 DEF MarkFailed
        <5> QED
          BY <2>1, <2>2, <5>1, <5>2
      <4> QED
        BY <4>1, <4>2
    <3>2. ASSUME NEW q \in Pollers, NEW e \in Events PROVE copy'[q][e] <= failures'[e]
      BY <2>1, <2>2, <1>11 DEF MarkFailed, NextEvent
    <3> QED
      BY <3>1, <3>2
  <2>4. \A q \in Pollers \ cancelled' : at'[q] \in {"fail", "count"} => NewRetryCount(q)' <= failures'[Current(q)']
    <3> SUFFICES ASSUME NEW q \in Pollers \ cancelled', at'[q] \in {"fail", "count"}
                 PROVE  NewRetryCount(q)' <= failures'[Current(q)']
      OBVIOUS
    <3>1. CASE q = p
      BY <2>1, <2>2, <3>1, <1>11 DEF MarkFailed, Update, StatementWorks, StatementFails, Mishap, NextEvent
    <3>2. CASE q # p
      <4>1. /\ batch'[q] = batch[q] /\ copy'[q] = copy[q] /\ at'[q] = at[q] /\ cancelled' = cancelled
        BY <3>2, <1>11 DEF MarkFailed, Update, StatementWorks, StatementFails, Mishap, NextEvent
      <4>2. batch[q] # {} /\ Current(q) \in Events
        BY <4>1
      <4> QED
        BY <2>2, <4>1, <4>2
    <3> QED
      BY <3>1, <3>2
  <2>5. GivenUpAfterMaxRetries'
    BY <2>1, <2>2, <1>11, PollerAssumption DEF MarkFailed, Update, StatementWorks, StatementFails, Mishap, NextEvent
  <2> QED
    BY <2>3, <2>4, <2>5
<1>12. ASSUME NEW p \in Pollers, Backoff(p) PROVE (CountInv /\ GivenUpAfterMaxRetries)'
  <2>1. Current(p) \in Events /\ batch[p] # {}
    BY <1>12 DEF Backoff, NextEvent
  <2>2. \A e \in Events : failures[e] \in Nat /\ failures'[e] \in Nat /\ failures[e] <= failures'[e]
    BY <2>1, <1>12 DEF Backoff, NextEvent
  <2>3. /\ \A e \in Events : retryCount'[e] <= failures'[e]
        /\ \A q \in Pollers, e \in Events : copy'[q][e] <= failures'[e]
    <3>1. CASE UNCHANGED copy
      BY <3>1, <2>2, <1>12 DEF Backoff
    <3>2. CASE NextEvent(p)
      BY <3>2, <2>1, <2>2, <1>12 DEF Backoff, NextEvent
    <3> QED
      BY <3>1, <3>2, <1>12 DEF Backoff
  <2>4. \A q \in Pollers \ cancelled' : at'[q] \in {"fail", "count"} => NewRetryCount(q)' <= failures'[Current(q)']
    <3> SUFFICES ASSUME NEW q \in Pollers \ cancelled', at'[q] \in {"fail", "count"}
                 PROVE  NewRetryCount(q)' <= failures'[Current(q)']
      OBVIOUS
    <3>1. CASE q = p
      BY <2>1, <2>2, <3>1, <1>12 DEF Backoff, NextEvent
    <3>2. CASE q # p
      <4>1. /\ batch'[q] = batch[q] /\ copy'[q] = copy[q] /\ at'[q] = at[q] /\ cancelled' = cancelled
        BY <3>2, <1>12 DEF Backoff, NextEvent
      <4>2. batch[q] # {} /\ Current(q) \in Events
        BY <4>1
      <4> QED
        BY <2>2, <4>1, <4>2
    <3> QED
      BY <3>1, <3>2
  <2>5. GivenUpAfterMaxRetries'
    BY <2>1, <2>2, <1>12, PollerAssumption DEF Backoff, NextEvent
  <2> QED
    BY <2>3, <2>4, <2>5
<1>13. ASSUME NEW p \in Pollers, CountRetry(p) PROVE (CountInv /\ GivenUpAfterMaxRetries)'
    BY <1>13 DEF CountRetry, Update, StatementWorks, StatementFails, Mishap, NextEvent
<1>14. CASE UNCHANGED pollerVars
    BY <1>14 DEF pollerVars
<1> QED
    BY <1>1, <1>2, <1>3, <1>4, <1>5, <1>6, <1>7, <1>8, <1>9, <1>10, <1>11, <1>12, <1>13, <1>14
    DEF PollerNext, PollerStep

(* The invariant of the pollers. *)
THEOREM PollerInvariant == PollerSpec => []PollerInv
<1>1. PollerInit => PollerInv
    BY PollerAssumption DEF PollerInit, PollerInv, PollerTypeOK, SentInv, CountInv, PublishedIsInStream, GivenUpAfterMaxRetries, Events
<1>2. PollerInv /\ [PollerNext]_pollerVars => PollerInv'
    BY PollerTypeStep, SentStep, CountStep DEF PollerInv
<1> QED
    BY <1>1, <1>2, PTL DEF PollerSpec

(* At least once: what pollers mark as published, and what is purged, has    *)
(* been added to the stream.                                                 *)
THEOREM PublishedEventsAreSent == PollerSpec => []PublishedIsInStream
BY PollerInvariant, PTL DEF PollerInv

(* No row is given up before Redis has refused it MaxRetries times, however  *)
(* many pollers write their retry counts over each other's.                  *)
THEOREM RetriesAreUsed == PollerSpec => []GivenUpAfterMaxRetries
BY PollerInvariant, PTL DEF PollerInv

(* Both together: what several pollers leave in a row tells what happened to *)
(* its event (poller.go:276, 317).                                           *)
THEOREM OutcomesAreTrue == PollerSpec => []OutcomeIsTrue
<1>1. PollerInv => OutcomeIsTrue
  BY DEF PollerInv, OutcomeIsTrue
<1> QED
  BY <1>1, PollerInvariant, PTL

(* Every step of the guardian keeps the types. *)
LEMMA GuardianTypeStep == GuardianTypeOK /\ [GuardianNext]_guardianVars => (GuardianTypeOK)'
<1> SUFFICES ASSUME GuardianTypeOK, [GuardianNext]_guardianVars PROVE (GuardianTypeOK)'
    OBVIOUS
<1>a. /\ UserResults \subseteq Results /\ "timeout" \in Results /\ "timeout" \notin UserResults
      /\ "no result" \notin Results /\ "requested" \notin Results /\ "waiting" \notin Results
      /\ Nil \notin Results /\ Nil \notin Requests /\ Nil \notin Tasks
    BY GuardianAssumption DEF Results, UserResults
<1> USE <1>a DEF GuardianTypeOK, channelVars, decideVars
<1>1. ASSUME NEW r \in Requests, NEW t \in Tasks, RequestApproval(r, t) PROVE (GuardianTypeOK)'
    BY <1>1 DEF RequestApproval
<1>2. ASSUME NEW r \in Requests, Await(r) PROVE (GuardianTypeOK)'
    BY <1>2 DEF Await
<1>3. ASSUME NEW r \in Requests, Receive(r) PROVE (GuardianTypeOK)'
    BY <1>3 DEF Receive
<1>4. ASSUME NEW r \in Requests, WaitCancelled(r) PROVE (GuardianTypeOK)'
    BY <1>4 DEF WaitCancelled
<1>5. ASSUME NEW r \in Requests, Expire(r) PROVE (GuardianTypeOK)'
    BY <1>5 DEF Expire
<1>6. ASSUME NEW d \in Deciders, NEW t \in Tasks, NEW res \in Results, Take(d, t, res),
             due' \subseteq due
      PROVE  (GuardianTypeOK)'
  <2>1. CASE pendingReq[t] = Nil
    <3>1. UNCHANGED <<pendingReq, deciding, taken, result>>
      BY <1>6, <2>1 DEF Take
    <3>2. UNCHANGED <<about, expired, buffer, closed, panicked, waiter, handler>>
      BY <1>6 DEF Take
    <3> QED
      BY <1>6, <3>1, <3>2
  <2>2. CASE pendingReq[t] # Nil
    <3>1. /\ taken' = [taken EXCEPT ![d] = pendingReq[t]]
          /\ result' = [result EXCEPT ![d] = res]
          /\ deciding' = [deciding EXCEPT ![d] = "send"]
          /\ pendingReq' = [pendingReq EXCEPT ![t] = Nil]
          /\ UNCHANGED <<about, expired, buffer, closed, panicked, waiter, handler>>
      BY <1>6, <2>2 DEF Take
    <3>2. /\ pendingReq' \in [Tasks -> Requests \cup {Nil}]
          /\ taken' \in [Deciders -> Requests \cup {Nil}]
          /\ result' \in [Deciders -> Results \cup {Nil}]
      BY <3>1
    <3>3. deciding' \in [Deciders -> {"idle", "send", "close"}]
      BY <3>1
    <3>4. \A e \in Deciders : (deciding'[e] = "idle") <=> (taken'[e] = Nil)
      BY <2>2, <3>1
    <3> QED
      BY <1>6, <3>1, <3>2, <3>3, <3>4
  <2> QED
    BY <2>1, <2>2
<1>7. ASSUME NEW d \in Deciders, Send(d) PROVE (GuardianTypeOK)'
    BY <1>7 DEF Send
<1>8. ASSUME NEW d \in Deciders, Close(d) PROVE (GuardianTypeOK)'
    BY <1>8 DEF Close
<1>9. CASE HandlerStart
    BY <1>9 DEF HandlerStart
<1>10. CASE HandlerStop
    BY <1>10 DEF HandlerStop
<1>11. CASE CheckExpiredApprovals
    BY <1>11 DEF CheckExpiredApprovals
<1>12. CASE UNCHANGED guardianVars
    BY <1>12 DEF guardianVars
<1> HIDE DEF GuardianTypeOK
<1> QED
    BY <1>1, <1>2, <1>3, <1>4, <1>5, <1>6, <1>7, <1>8, <1>9, <1>10, <1>11, <1>12
    DEF GuardianNext, HandlerStep, ProcessApproval, HandleTimeout, Deciders

(* What the proofs below use of the constants. *)
LEMMA ResultFacts ==
    /\ UserResults \subseteq Results /\ "timeout" \in Results /\ "timeout" \notin UserResults
    /\ "no result" \notin Results /\ "requested" \notin Results /\ "waiting" \notin Results
    /\ Nil \notin Results /\ Nil \notin Requests /\ Nil \notin Tasks
BY GuardianAssumption DEF Results, UserResults

(* The steps of the guardian, with the two ways to take a request as one. *)
LEMMA GuardianCases ==
    ASSUME [GuardianNext]_guardianVars
    PROVE  \/ \E r \in Requests, t \in Tasks : RequestApproval(r, t)
           \/ \E r \in Requests : Await(r) \/ Receive(r) \/ WaitCancelled(r) \/ Expire(r)
           \/ \E d \in Deciders, t \in Tasks, res \in Results :
                 Take(d, t, res) /\ due' \subseteq due /\ (res = "timeout" => t \in due)
           \/ \E d \in Deciders : Send(d) \/ Close(d)
           \/ HandlerStart \/ HandlerStop \/ CheckExpiredApprovals \/ UNCHANGED guardianVars
<1>1. Users \subseteq Deciders /\ Handler \in Deciders
    BY DEF Deciders
<1>2. ASSUME NEW u \in Users, NEW t \in Tasks, NEW res \in UserResults, ProcessApproval(u, t, res)
      PROVE  /\ u \in Deciders /\ res \in Results
             /\ Take(u, t, res) /\ due' \subseteq due /\ (res = "timeout" => t \in due)
    BY <1>1, <1>2, ResultFacts DEF ProcessApproval
<1>3. ASSUME NEW t \in Tasks, HandleTimeout(t)
      PROVE  /\ "timeout" \in Results
             /\ Take(Handler, t, "timeout") /\ due' \subseteq due /\ t \in due
    BY <1>3, ResultFacts DEF HandleTimeout
<1> QED
    BY <1>1, <1>2, <1>3 DEF GuardianNext, HandlerStep

(* What they use of the types. *)
Typed ==
    /\ pendingReq \in [Tasks -> Requests \cup {Nil}]
    /\ about \in [Requests -> Tasks \cup {Nil}]
    /\ buffer \in [Requests -> Results \cup {Nil}]
    /\ taken \in [Deciders -> Requests \cup {Nil}]
    /\ result \in [Deciders -> Results \cup {Nil}]
    /\ expired \subseteq Requests /\ closed \subseteq Requests
    /\ DOMAIN waiter = Requests /\ DOMAIN deciding = Deciders
    /\ \A d \in Deciders : deciding[d] = "idle" => taken[d] = Nil
    /\ \A d \in Deciders : deciding[d] # "idle" => taken[d] \in Requests

(* They follow from the type invariant. *)
LEMMA TypedFacts == GuardianTypeOK => Typed
<1> SUFFICES ASSUME GuardianTypeOK PROVE Typed
    OBVIOUS
<1> USE DEF GuardianTypeOK
<1>1. DOMAIN waiter = Requests
    OBVIOUS
<1>2. DOMAIN deciding = Deciders
    OBVIOUS
<1>3. \A d \in Deciders : deciding[d] # "idle" => taken[d] \in Requests
    OBVIOUS
<1> QED
    BY <1>1, <1>2, <1>3 DEF Typed

(* Taking from an empty entry changes nothing. *)
LEMMA TakeNothing ==
    ASSUME Typed, NEW d \in Deciders, NEW t \in Tasks, NEW res \in Results,
           Take(d, t, res), pendingReq[t] = Nil
    PROVE  UNCHANGED <<pendingReq, about, expired, buffer, closed, panicked, waiter, deciding, taken, result, handler>>
BY DEF Take, Typed, channelVars, decideVars

(* Taking a request makes it the decider's. *)
LEMMA TakeRequest ==
    ASSUME NEW d \in Deciders, NEW t \in Tasks, NEW res \in Results,
           Take(d, t, res), pendingReq[t] # Nil
    PROVE  /\ taken' = [taken EXCEPT ![d] = pendingReq[t]]
           /\ result' = [result EXCEPT ![d] = res]
           /\ deciding' = [deciding EXCEPT ![d] = "send"] /\ deciding[d] = "idle"
           /\ pendingReq' = [pendingReq EXCEPT ![t] = Nil]
           /\ UNCHANGED <<about, expired, buffer, closed, panicked, waiter, handler>>
BY DEF Take, channelVars

(* A decider that is not idle has an open request of its own. *)
LEMMA Owns ==
    ASSUME Typed, TakenInv, NEW d \in Deciders, deciding[d] # "idle"
    PROVE  /\ taken[d] \in Requests /\ taken[d] # Nil /\ taken[d] \notin closed
           /\ about[taken[d]] # Nil /\ result[d] # Nil
<1>1. taken[d] \in Requests
    BY DEF Typed
<1>2. taken[d] # Nil
    BY <1>1, ResultFacts
<1> QED
    BY <1>1, <1>2 DEF TakenInv

(* Taking a request out of the map makes it the taker's alone. *)
LEMMA TakenStep ==
    GuardianTypeOK /\ MapInv /\ TakenInv /\ DecidedOnce /\ [GuardianNext]_guardianVars
    => (MapInv /\ TakenInv /\ DecidedOnce)'
<1> SUFFICES ASSUME GuardianTypeOK, MapInv, TakenInv, DecidedOnce, [GuardianNext]_guardianVars
             PROVE  (MapInv /\ TakenInv /\ DecidedOnce)'
    OBVIOUS
<1>a. Typed
    BY TypedFacts
<1> USE DEF channelVars, decideVars
<1>f. CASE UNCHANGED <<pendingReq, about, closed, panicked, taken, result>>
    BY <1>a, <1>f DEF Typed, MapInv, TakenInv, DecidedOnce
<1>1. ASSUME NEW r \in Requests, NEW t \in Tasks, RequestApproval(r, t)
      PROVE  (MapInv /\ TakenInv /\ DecidedOnce)'
  <2>1. ASSUME NEW s \in Tasks, pendingReq'[s] # Nil
        PROVE  about'[pendingReq'[s]] = s /\ pendingReq'[s] \notin closed'
    <3>1. CASE s = t
      BY <1>a, ResultFacts, <1>1, <3>1 DEF RequestApproval, Typed, TakenInv
    <3>2. CASE s # t
      <4>1. pendingReq'[s] = pendingReq[s] /\ about[r] = Nil
        BY <1>a, <1>1, <3>2 DEF RequestApproval, Typed
      <4>2. pendingReq[s] \in Requests /\ about[pendingReq[s]] = s /\ pendingReq[s] \notin closed
        BY <1>a, <2>1, <4>1 DEF Typed, MapInv
      <4>3. pendingReq[s] # r
        BY <4>1, <4>2, ResultFacts
      <4> QED
        BY <1>a, <1>1, <4>1, <4>2, <4>3 DEF RequestApproval, Typed
    <3> QED
      BY <3>1, <3>2
  <2>2. ASSUME NEW s \in Tasks, NEW d1 \in Deciders, pendingReq'[s] # Nil
        PROVE  taken'[d1] # pendingReq'[s]
    BY <1>a, ResultFacts, <2>2, <1>1 DEF RequestApproval, Typed, MapInv, TakenInv
  <2>3. ASSUME NEW d1 \in Deciders, taken'[d1] # Nil
        PROVE  taken'[d1] \notin closed' /\ about'[taken'[d1]] # Nil /\ result'[d1] # Nil
    BY <1>a, ResultFacts, <2>3, <1>1 DEF RequestApproval, Typed, MapInv, TakenInv
  <2>4. ASSUME NEW d1 \in Deciders, NEW d2 \in Deciders, taken'[d1] = taken'[d2], taken'[d1] # Nil
        PROVE  d1 = d2
    BY <1>a, ResultFacts, <2>4, <1>1 DEF RequestApproval, Typed, MapInv, TakenInv
  <2>5. ASSUME NEW q \in closed' PROVE about'[q] # Nil
    BY <1>a, ResultFacts, <2>5, <1>1 DEF RequestApproval, Typed, TakenInv
  <2>6. DecidedOnce'
    BY <1>a, ResultFacts, <1>1 DEF RequestApproval, Typed, MapInv, TakenInv, DecidedOnce
  <2> QED
    BY <2>1, <2>2, <2>3, <2>4, <2>5, <2>6 DEF MapInv, TakenInv, DecidedOnce
<1>6. ASSUME NEW d \in Deciders, NEW t \in Tasks, NEW res \in Results, Take(d, t, res),
             due' \subseteq due, res = "timeout" => t \in due
      PROVE  (MapInv /\ TakenInv /\ DecidedOnce)'
  <2>1. CASE pendingReq[t] = Nil
    <3>1. UNCHANGED <<pendingReq, about, expired, buffer, closed, panicked, waiter, deciding, taken, result, handler>>
      BY <1>a, <1>6, <2>1, TakeNothing
    <3> QED
      BY <1>f, <3>1
  <2>2. CASE pendingReq[t] # Nil
    <3>0. /\ taken' = [taken EXCEPT ![d] = pendingReq[t]]
          /\ result' = [result EXCEPT ![d] = res]
          /\ deciding' = [deciding EXCEPT ![d] = "send"] /\ deciding[d] = "idle"
          /\ pendingReq' = [pendingReq EXCEPT ![t] = Nil]
          /\ UNCHANGED <<about, expired, buffer, closed, panicked, waiter, handler>>
      BY <1>6, <2>2, TakeRequest
    <3>r. pendingReq[t] \in Requests
      BY <1>a, <2>2 DEF Typed
    <3>1. ASSUME NEW s \in Tasks, pendingReq'[s] # Nil
          PROVE  about'[pendingReq'[s]] = s /\ pendingReq'[s] \notin closed'
      <4>1. s # t /\ pendingReq'[s] = pendingReq[s]
        BY <1>a, <3>0, <3>1 DEF Typed
      <4>2. about' = about /\ closed' = closed
        BY <3>0
      <4> QED
        BY <3>1, <4>1, <4>2 DEF MapInv
    <3>2. ASSUME NEW s \in Tasks, NEW d1 \in Deciders, pendingReq'[s] # Nil
          PROVE  taken'[d1] # pendingReq'[s]
      <4>1. s # t /\ pendingReq'[s] = pendingReq[s]
        BY <1>a, <3>0, <3>2 DEF Typed
      <4>2. CASE d1 = d
        <5>1. about[pendingReq[s]] = s /\ about[pendingReq[t]] = t
          BY <2>2, <3>2, <4>1 DEF MapInv
        <5>2. taken'[d1] = pendingReq[t]
          BY <1>a, <3>0, <4>2 DEF Typed
        <5> QED
          BY <4>1, <5>1, <5>2
      <4>3. CASE d1 # d
        BY <1>a, <3>0, <3>2, <4>1, <4>3 DEF Typed, MapInv
      <4> QED
        BY <4>2, <4>3
    <3>3. ASSUME NEW d1 \in Deciders, taken'[d1] # Nil
          PROVE  taken'[d1] \notin closed' /\ about'[taken'[d1]] # Nil /\ result'[d1] # Nil
      <4>1. CASE d1 = d
        <5>1. taken'[d1] = pendingReq[t] /\ result'[d1] = res
          BY <1>a, <3>0, <4>1 DEF Typed
        <5>2. about[pendingReq[t]] = t /\ pendingReq[t] \notin closed
          BY <2>2 DEF MapInv
        <5>3. about' = about /\ closed' = closed
          BY <3>0
        <5>4. t # Nil /\ res # Nil
          BY ResultFacts
        <5> QED
          BY <5>1, <5>2, <5>3, <5>4
      <4>2. CASE d1 # d
        BY <1>a, <3>0, <3>3, <4>2 DEF Typed, TakenInv
      <4> QED
        BY <4>1, <4>2
    <3>4. ASSUME NEW d1 \in Deciders, NEW d2 \in Deciders, taken'[d1] = taken'[d2], taken'[d1] # Nil
          PROVE  d1 = d2
      <4>1. \A e \in Deciders : taken[e] # pendingReq[t]
        BY <2>2 DEF MapInv
      <4>2. \A e \in Deciders : taken'[e] = IF e = d THEN pendingReq[t] ELSE taken[e]
        BY <1>a, <3>0 DEF Typed
      <4>3. CASE d1 = d \/ d2 = d
        BY <3>4, <4>1, <4>2, <4>3
      <4>4. CASE d1 # d /\ d2 # d
        BY <3>4, <4>2, <4>4 DEF TakenInv
      <4> QED
        BY <4>3, <4>4
    <3>5. ASSUME NEW q \in closed' PROVE about'[q] # Nil
      BY <1>a, ResultFacts, <3>5, <1>6, <2>2, <3>0, <3>r DEF Typed, TakenInv
    <3>6. DecidedOnce'
      BY <1>a, ResultFacts, <1>6, <2>2, <3>0, <3>r DEF Typed, MapInv, TakenInv, DecidedOnce
    <3> QED
      BY <3>1, <3>2, <3>3, <3>4, <3>5, <3>6 DEF MapInv, TakenInv, DecidedOnce
  <2> QED
    BY <2>1, <2>2
<1>7. ASSUME NEW d \in Deciders, Send(d) PROVE (MapInv /\ TakenInv /\ DecidedOnce)'
  <2>1. ASSUME NEW s \in Tasks, pendingReq'[s] # Nil
        PROVE  about'[pendingReq'[s]] = s /\ pendingReq'[s] \notin closed'
    BY <1>a, ResultFacts, <2>1, <1>7 DEF Send, Typed, MapInv, TakenInv
  <2>2. ASSUME NEW s \in Tasks, NEW d1 \in Deciders, pendingReq'[s] # Nil
        PROVE  taken'[d1] # pendingReq'[s]
    BY <1>a, ResultFacts, <2>2, <1>7 DEF Send, Typed, MapInv, TakenInv
  <2>3. ASSUME NEW d1 \in Deciders, taken'[d1] # Nil
        PROVE  taken'[d1] \notin closed' /\ about'[taken'[d1]] # Nil /\ result'[d1] # Nil
    BY <1>a, ResultFacts, <2>3, <1>7 DEF Send, Typed, MapInv, TakenInv
  <2>4. ASSUME NEW d1 \in Deciders, NEW d2 \in Deciders, taken'[d1] = taken'[d2], taken'[d1] # Nil
        PROVE  d1 = d2
    BY <1>a, ResultFacts, <2>4, <1>7 DEF Send, Typed, MapInv, TakenInv
  <2>5. ASSUME NEW q \in closed' PROVE about'[q] # Nil
    BY <1>a, ResultFacts, <2>5, <1>7 DEF Send, Typed, TakenInv
  <2>6. DecidedOnce'
    <3>1. taken[d] \notin closed
      <4>1. deciding[d] # "idle"
        BY <1>7 DEF Send
      <4> QED
        BY <1>a, <4>1, Owns
    <3> QED
      BY <3>1, <1>7, Zenon DEF Send, DecidedOnce
  <2> QED
    BY <2>1, <2>2, <2>3, <2>4, <2>5, <2>6 DEF MapInv, TakenInv, DecidedOnce
<1>8. ASSUME NEW d \in Deciders, Close(d) PROVE (MapInv /\ TakenInv /\ DecidedOnce)'
  <2>1. ASSUME NEW s \in Tasks, pendingReq'[s] # Nil
        PROVE  about'[pendingReq'[s]] = s /\ pendingReq'[s] \notin closed'
    BY <1>a, ResultFacts, <2>1, <1>8 DEF Close, Typed, MapInv, TakenInv
  <2>2. ASSUME NEW s \in Tasks, NEW d1 \in Deciders, pendingReq'[s] # Nil
        PROVE  taken'[d1] # pendingReq'[s]
    BY <1>a, ResultFacts, <2>2, <1>8 DEF Close, Typed, MapInv, TakenInv
  <2>3. ASSUME NEW d1 \in Deciders, taken'[d1] # Nil
        PROVE  taken'[d1] \notin closed' /\ about'[taken'[d1]] # Nil /\ result'[d1] # Nil
    BY <1>a, ResultFacts, <2>3, <1>8 DEF Close, Typed, MapInv, TakenInv
  <2>4. ASSUME NEW d1 \in Deciders, NEW d2 \in Deciders, taken'[d1] = taken'[d2], taken'[d1] # Nil
        PROVE  d1 = d2
    BY <1>a, ResultFacts, <2>4, <1>8 DEF Close, Typed, MapInv, TakenInv
  <2>5. ASSUME NEW q \in closed' PROVE about'[q] # Nil
    <3>1. deciding[d] # "idle"
      BY <1>8 DEF Close
    <3>2. about[taken[d]] # Nil
      BY <1>a, <3>1, Owns
    <3>3. q \in closed \/ q = taken[d]
      BY <2>5, <1>8 DEF Close
    <3>4. about' = about
      BY <1>8 DEF Close
    <3> QED
      BY <3>2, <3>3, <3>4 DEF TakenInv
  <2>6. DecidedOnce'
    <3>1. taken[d] \notin closed
      <4>1. deciding[d] # "idle"
        BY <1>8 DEF Close
      <4> QED
        BY <1>a, <4>1, Owns
    <3> QED
      BY <3>1, <1>8, Zenon DEF Close, DecidedOnce
  <2> QED
    BY <2>1, <2>2, <2>3, <2>4, <2>5, <2>6 DEF MapInv, TakenInv, DecidedOnce
<1> QED
    BY GuardianCases, <1>f, <1>1, <1>6, <1>7, <1>8
    DEF guardianVars, Await, Receive, WaitCancelled, Expire, HandlerStart, HandlerStop, CheckExpiredApprovals

(* The result is in the channel before the channel is closed. *)
LEMMA ResultStep ==
    GuardianTypeOK /\ MapInv /\ TakenInv /\ ResultInv /\ ClosedHasResult
      /\ [GuardianNext]_guardianVars
    => (ResultInv /\ ClosedHasResult)'
<1> SUFFICES ASSUME GuardianTypeOK, MapInv, TakenInv, ResultInv, ClosedHasResult,
                    [GuardianNext]_guardianVars
             PROVE  (ResultInv /\ ClosedHasResult)'
    OBVIOUS
<1>a. Typed
    BY TypedFacts
<1> USE DEF channelVars, decideVars
<1>f. CASE UNCHANGED <<buffer, closed, waiter, deciding, taken>>
    BY <1>a, <1>f DEF Typed, ResultInv, ClosedHasResult
<1>1. ASSUME NEW r \in Requests, NEW t \in Tasks, RequestApproval(r, t)
      PROVE  (ResultInv /\ ClosedHasResult)'
  <2>1. ASSUME NEW q \in Requests, waiter'[q] \in {"requested", "waiting"}, q \in closed'
        PROVE  buffer'[q] # Nil
    BY <1>a, ResultFacts, <2>1, <1>1 DEF RequestApproval, Typed, TakenInv, ResultInv
  <2>2. ASSUME NEW q \in Requests, NEW d1 \in Deciders, waiter'[q] \in {"requested", "waiting"},
               taken'[d1] = q, deciding'[d1] = "close"
        PROVE  buffer'[q] # Nil
    BY <1>a, ResultFacts, <2>2, <1>1 DEF RequestApproval, Typed, TakenInv, ResultInv
  <2>3. ASSUME NEW q \in Requests PROVE waiter'[q] # "no result"
    BY <1>a, ResultFacts, <2>3, <1>1 DEF RequestApproval, Typed, ResultInv, ClosedHasResult
  <2> QED
    BY <2>1, <2>2, <2>3 DEF ResultInv, ClosedHasResult
<1>2. ASSUME NEW r \in Requests, Await(r) PROVE (ResultInv /\ ClosedHasResult)'
  <2>1. UNCHANGED <<buffer, closed, deciding, taken>>
    BY <1>2 DEF Await
  <2>2. \A q \in Requests : waiter'[q] # "no result"
    BY <1>a, <1>2 DEF Await, Typed, ClosedHasResult
  <2>3. \A q \in Requests :
          waiter'[q] \in {"requested", "waiting"} => waiter[q] \in {"requested", "waiting"}
    BY <1>a, <1>2 DEF Await, Typed
  <2> QED
    BY <2>1, <2>2, <2>3 DEF ResultInv, ClosedHasResult
<1>3. ASSUME NEW r \in Requests, Receive(r) PROVE (ResultInv /\ ClosedHasResult)'
  <2>0. /\ buffer[r] # Nil /\ buffer[r] \in Results
        /\ waiter' = [waiter EXCEPT ![r] = buffer[r]] /\ buffer' = [buffer EXCEPT ![r] = Nil]
        /\ closed' = closed /\ taken' = taken /\ deciding' = deciding
    <3>1. waiter[r] = "waiting" /\ (buffer[r] # Nil \/ r \in closed)
      BY <1>3 DEF Receive
    <3>2. buffer[r] # Nil
      BY <3>1 DEF ResultInv
    <3> QED
      BY <1>a, <1>3, <3>2 DEF Receive, Typed
  <2>r. waiter'[r] \in Results /\ waiter'[r] \notin {"requested", "waiting", "no result"}
    BY <1>a, ResultFacts, <2>0 DEF Typed
  <2>o. \A q \in Requests : q # r => waiter'[q] = waiter[q] /\ buffer'[q] = buffer[q]
    BY <1>a, <2>0 DEF Typed
  <2>1. ASSUME NEW q \in Requests, waiter'[q] \in {"requested", "waiting"}, q \in closed'
        PROVE  buffer'[q] # Nil
    BY <2>0, <2>r, <2>o, <2>1 DEF ResultInv
  <2>2. ASSUME NEW q \in Requests, NEW d1 \in Deciders, waiter'[q] \in {"requested", "waiting"},
               taken'[d1] = q, deciding'[d1] = "close"
        PROVE  buffer'[q] # Nil
    BY <2>0, <2>r, <2>o, <2>2 DEF ResultInv
  <2>3. ASSUME NEW q \in Requests PROVE waiter'[q] # "no result"
    BY <2>r, <2>o, <2>3 DEF ClosedHasResult
  <2> QED
    BY <2>1, <2>2, <2>3 DEF ResultInv, ClosedHasResult
<1>4. ASSUME NEW r \in Requests, WaitCancelled(r) PROVE (ResultInv /\ ClosedHasResult)'
  <2>1. UNCHANGED <<buffer, closed, deciding, taken>>
    BY <1>4 DEF WaitCancelled
  <2>2. \A q \in Requests : waiter'[q] # "no result"
    BY <1>a, <1>4 DEF WaitCancelled, Typed, ClosedHasResult
  <2>3. \A q \in Requests :
          waiter'[q] \in {"requested", "waiting"} => waiter[q] \in {"requested", "waiting"}
    BY <1>a, <1>4 DEF WaitCancelled, Typed
  <2> QED
    BY <2>1, <2>2, <2>3 DEF ResultInv, ClosedHasResult
<1>6. ASSUME NEW d \in Deciders, NEW t \in Tasks, NEW res \in Results, Take(d, t, res),
             due' \subseteq due, res = "timeout" => t \in due
      PROVE  (ResultInv /\ ClosedHasResult)'
  <2>1. CASE pendingReq[t] = Nil
    <3>1. UNCHANGED <<pendingReq, about, expired, buffer, closed, panicked, waiter, deciding, taken, result, handler>>
      BY <1>a, <1>6, <2>1, TakeNothing
    <3> QED
      BY <1>f, <3>1
  <2>2. CASE pendingReq[t] # Nil
    <3>0. /\ taken' = [taken EXCEPT ![d] = pendingReq[t]]
          /\ result' = [result EXCEPT ![d] = res]
          /\ deciding' = [deciding EXCEPT ![d] = "send"] /\ deciding[d] = "idle"
          /\ pendingReq' = [pendingReq EXCEPT ![t] = Nil]
          /\ UNCHANGED <<about, expired, buffer, closed, panicked, waiter, handler>>
      BY <1>6, <2>2, TakeRequest
    <3>r. pendingReq[t] \in Requests
      BY <1>a, <2>2 DEF Typed
    <3>1. ASSUME NEW q \in Requests, waiter'[q] \in {"requested", "waiting"}, q \in closed'
          PROVE  buffer'[q] # Nil
      BY <1>a, ResultFacts, <3>1, <1>6, <2>2, <3>0, <3>r DEF Typed, TakenInv, ResultInv
    <3>2. ASSUME NEW q \in Requests, NEW d1 \in Deciders, waiter'[q] \in {"requested",
                 "waiting"}, taken'[d1] = q, deciding'[d1] = "close"
          PROVE  buffer'[q] # Nil
      BY <1>a, ResultFacts, <3>2, <1>6, <2>2, <3>0, <3>r DEF Typed, TakenInv, ResultInv
    <3>3. ASSUME NEW q \in Requests PROVE waiter'[q] # "no result"
      BY <1>a, ResultFacts, <3>3, <1>6, <2>2, <3>0, <3>r DEF Typed, ResultInv, ClosedHasResult
    <3> QED
      BY <3>1, <3>2, <3>3 DEF ResultInv, ClosedHasResult
  <2> QED
    BY <2>1, <2>2
<1>7. ASSUME NEW d \in Deciders, Send(d) PROVE (ResultInv /\ ClosedHasResult)'
  <2>1. ASSUME NEW q \in Requests, waiter'[q] \in {"requested", "waiting"}, q \in closed'
        PROVE  buffer'[q] # Nil
    BY <1>a, ResultFacts, <2>1, <1>7 DEF Send, Typed, TakenInv, ResultInv
  <2>2. ASSUME NEW q \in Requests, NEW d1 \in Deciders, waiter'[q] \in {"requested", "waiting"},
               taken'[d1] = q, deciding'[d1] = "close"
        PROVE  buffer'[q] # Nil
    BY <1>a, ResultFacts, <2>2, <1>7 DEF Send, Typed, TakenInv, ResultInv
  <2>3. ASSUME NEW q \in Requests PROVE waiter'[q] # "no result"
    BY <1>a, ResultFacts, <2>3, <1>7 DEF Send, Typed, ResultInv, ClosedHasResult
  <2> QED
    BY <2>1, <2>2, <2>3 DEF ResultInv, ClosedHasResult
<1>8. ASSUME NEW d \in Deciders, Close(d) PROVE (ResultInv /\ ClosedHasResult)'
  <2>1. ASSUME NEW q \in Requests, waiter'[q] \in {"requested", "waiting"}, q \in closed'
        PROVE  buffer'[q] # Nil
    BY <1>a, ResultFacts, <2>1, <1>8 DEF Close, Typed, TakenInv, ResultInv
  <2>2. ASSUME NEW q \in Requests, NEW d1 \in Deciders, waiter'[q] \in {"requested", "waiting"},
               taken'[d1] = q, deciding'[d1] = "close"
        PROVE  buffer'[q] # Nil
    BY <1>a, ResultFacts, <2>2, <1>8 DEF Close, Typed, TakenInv, ResultInv
  <2>3. ASSUME NEW q \in Requests PROVE waiter'[q] # "no result"
    BY <1>a, ResultFacts, <2>3, <1>8 DEF Close, Typed, ResultInv, ClosedHasResult
  <2> QED
    BY <2>1, <2>2, <2>3 DEF ResultInv, ClosedHasResult
<1> QED
    BY GuardianCases, <1>f, <1>1, <1>2, <1>3, <1>4, <1>6, <1>7, <1>8
    DEF guardianVars, Expire, HandlerStart, HandlerStop, CheckExpiredApprovals

(* A timeout comes from the expiry of a request of the same task. *)
LEMMA TimeoutStep ==
    GuardianTypeOK /\ MapInv /\ TakenInv /\ TimeoutInv /\ TimeoutNeedsExpiry
      /\ [GuardianNext]_guardianVars
    => (TimeoutInv /\ TimeoutNeedsExpiry)'
<1> SUFFICES ASSUME GuardianTypeOK, MapInv, TakenInv, TimeoutInv, TimeoutNeedsExpiry,
                    [GuardianNext]_guardianVars
             PROVE  (TimeoutInv /\ TimeoutNeedsExpiry)'
    OBVIOUS
<1>a. Typed
    BY TypedFacts
<1>b. ExpiredTasks \subseteq ExpiredTasks'
  <2>1. CASE UNCHANGED <<about, expired>>
    BY <2>1 DEF ExpiredTasks
  <2>2. ASSUME NEW r \in Requests, NEW t \in Tasks, RequestApproval(r, t)
        PROVE  ExpiredTasks \subseteq ExpiredTasks'
    <3>1. \A q \in expired : q # r /\ q \in expired' /\ about'[q] = about[q]
      BY <1>a, <2>2 DEF RequestApproval, Typed, TimeoutInv
    <3> QED
      BY <3>1 DEF ExpiredTasks
  <2>3. ASSUME NEW r \in Requests, Expire(r) PROVE ExpiredTasks \subseteq ExpiredTasks'
    BY <2>3 DEF Expire, ExpiredTasks
  <2> QED
    BY <2>1, <2>2, <2>3 DEF GuardianNext, guardianVars, HandlerStep, Await, Receive, WaitCancelled, ProcessApproval,
       Take, Send, Close, HandlerStart, HandlerStop, CheckExpiredApprovals, HandleTimeout
<1>c. \A q \in expired : about[q] \in ExpiredTasks
    BY DEF ExpiredTasks
<1> USE DEF channelVars, decideVars
<1>f. CASE UNCHANGED <<about, expired, buffer, waiter, taken, result, due>>
    BY <1>a, <1>b, <1>f DEF Typed, TimeoutInv, TimeoutNeedsExpiry
<1>1. ASSUME NEW r \in Requests, NEW t \in Tasks, RequestApproval(r, t)
      PROVE  (TimeoutInv /\ TimeoutNeedsExpiry)'
  <2>1. due' \subseteq ExpiredTasks'
    BY <1>a, <1>b, <1>c, ResultFacts, <1>1 DEF RequestApproval, Typed, MapInv, TimeoutInv
  <2>2. ASSUME NEW d1 \in Deciders, result'[d1] = "timeout"
        PROVE  taken'[d1] # Nil /\ about'[taken'[d1]] \in ExpiredTasks'
    BY <1>a, <1>b, <1>c, ResultFacts, <2>2, <1>1 DEF RequestApproval, Typed, MapInv, TakenInv, TimeoutInv
  <2>3. ASSUME NEW q \in Requests, buffer'[q] = "timeout" PROVE about'[q] \in ExpiredTasks'
    BY <1>a, <1>b, <1>c, ResultFacts, <2>3, <1>1 DEF RequestApproval, Typed, TimeoutInv
  <2>4. ASSUME NEW q \in Requests, about'[q] = Nil
        PROVE  buffer'[q] = Nil /\ waiter'[q] = "none" /\ q \notin expired'
    BY <1>a, <1>b, <1>c, ResultFacts, <2>4, <1>1 DEF RequestApproval, Typed, TakenInv, TimeoutInv
  <2>5. ASSUME NEW q \in Requests, waiter'[q] = "timeout" PROVE about'[q] \in ExpiredTasks'
    BY <1>a, <1>b, <1>c, ResultFacts, <2>5, <1>1 DEF RequestApproval, Typed, TimeoutInv, TimeoutNeedsExpiry
  <2> QED
    BY <2>1, <2>2, <2>3, <2>4, <2>5 DEF TimeoutInv, TimeoutNeedsExpiry
<1>2. ASSUME NEW r \in Requests, Await(r) PROVE (TimeoutInv /\ TimeoutNeedsExpiry)'
    BY <1>a, <1>b, <1>c, ResultFacts, <1>2 DEF Await, Typed, MapInv, TakenInv, TimeoutInv, TimeoutNeedsExpiry
<1>3. ASSUME NEW r \in Requests, Receive(r) PROVE (TimeoutInv /\ TimeoutNeedsExpiry)'
  <2>1. due' \subseteq ExpiredTasks'
    BY <1>a, <1>b, <1>c, ResultFacts, <1>3 DEF Receive, Typed, MapInv, TimeoutInv
  <2>2. ASSUME NEW d1 \in Deciders, result'[d1] = "timeout"
        PROVE  taken'[d1] # Nil /\ about'[taken'[d1]] \in ExpiredTasks'
    BY <1>a, <1>b, <1>c, ResultFacts, <2>2, <1>3 DEF Receive, Typed, MapInv, TakenInv, TimeoutInv
  <2>3. ASSUME NEW q \in Requests, buffer'[q] = "timeout" PROVE about'[q] \in ExpiredTasks'
    BY <1>a, <1>b, <1>c, ResultFacts, <2>3, <1>3 DEF Receive, Typed, TimeoutInv
  <2>4. ASSUME NEW q \in Requests, about'[q] = Nil
        PROVE  buffer'[q] = Nil /\ waiter'[q] = "none" /\ q \notin expired'
    BY <1>a, <1>b, <1>c, ResultFacts, <2>4, <1>3 DEF Receive, Typed, TakenInv, TimeoutInv
  <2>5. ASSUME NEW q \in Requests, waiter'[q] = "timeout" PROVE about'[q] \in ExpiredTasks'
    BY <1>a, <1>b, <1>c, ResultFacts, <2>5, <1>3 DEF Receive, Typed, TimeoutInv, TimeoutNeedsExpiry
  <2> QED
    BY <2>1, <2>2, <2>3, <2>4, <2>5 DEF TimeoutInv, TimeoutNeedsExpiry
<1>4. ASSUME NEW r \in Requests, WaitCancelled(r) PROVE (TimeoutInv /\ TimeoutNeedsExpiry)'
    BY <1>a, <1>b, <1>c, ResultFacts, <1>4 DEF WaitCancelled, Typed, MapInv, TakenInv, TimeoutInv, TimeoutNeedsExpiry
<1>5. ASSUME NEW r \in Requests, Expire(r) PROVE (TimeoutInv /\ TimeoutNeedsExpiry)'
  <2>1. due' \subseteq ExpiredTasks'
    BY <1>a, <1>b, <1>c, ResultFacts, <1>5 DEF Expire, Typed, MapInv, TimeoutInv
  <2>2. ASSUME NEW d1 \in Deciders, result'[d1] = "timeout"
        PROVE  taken'[d1] # Nil /\ about'[taken'[d1]] \in ExpiredTasks'
    BY <1>a, <1>b, <1>c, ResultFacts, <2>2, <1>5 DEF Expire, Typed, MapInv, TakenInv, TimeoutInv
  <2>3. ASSUME NEW q \in Requests, buffer'[q] = "timeout" PROVE about'[q] \in ExpiredTasks'
    BY <1>a, <1>b, <1>c, ResultFacts, <2>3, <1>5 DEF Expire, Typed, TimeoutInv
  <2>4. ASSUME NEW q \in Requests, about'[q] = Nil
        PROVE  buffer'[q] = Nil /\ waiter'[q] = "none" /\ q \notin expired'
    BY <1>a, <1>b, <1>c, ResultFacts, <2>4, <1>5 DEF Expire, Typed, TakenInv, TimeoutInv
  <2>5. ASSUME NEW q \in Requests, waiter'[q] = "timeout" PROVE about'[q] \in ExpiredTasks'
    BY <1>a, <1>b, <1>c, ResultFacts, <2>5, <1>5 DEF Expire, Typed, TimeoutInv, TimeoutNeedsExpiry
  <2> QED
    BY <2>1, <2>2, <2>3, <2>4, <2>5 DEF TimeoutInv, TimeoutNeedsExpiry
<1>6. ASSUME NEW d \in Deciders, NEW t \in Tasks, NEW res \in Results, Take(d, t, res),
             due' \subseteq due, res = "timeout" => t \in due
      PROVE  (TimeoutInv /\ TimeoutNeedsExpiry)'
  <2>1. CASE pendingReq[t] = Nil
    <3>1. UNCHANGED <<pendingReq, about, expired, buffer, closed, panicked, waiter, deciding, taken, result, handler>>
      BY <1>a, <1>6, <2>1, TakeNothing
    <3> QED
      BY <1>a, <1>b, <1>c, ResultFacts, <1>6, <3>1 DEF Typed, TimeoutInv, TimeoutNeedsExpiry
  <2>2. CASE pendingReq[t] # Nil
    <3>0. /\ taken' = [taken EXCEPT ![d] = pendingReq[t]]
          /\ result' = [result EXCEPT ![d] = res]
          /\ deciding' = [deciding EXCEPT ![d] = "send"] /\ deciding[d] = "idle"
          /\ pendingReq' = [pendingReq EXCEPT ![t] = Nil]
          /\ UNCHANGED <<about, expired, buffer, closed, panicked, waiter, handler>>
      BY <1>6, <2>2, TakeRequest
    <3>r. pendingReq[t] \in Requests
      BY <1>a, <2>2 DEF Typed
    <3>1. due' \subseteq ExpiredTasks'
      BY <1>a, <1>b, <1>c, ResultFacts, <1>6, <2>2, <3>0, <3>r DEF Typed, MapInv, TimeoutInv
    <3>2. ASSUME NEW d1 \in Deciders, result'[d1] = "timeout"
          PROVE  taken'[d1] # Nil /\ about'[taken'[d1]] \in ExpiredTasks'
      <4>1. CASE d1 = d
        <5>1. taken'[d1] = pendingReq[t] /\ result'[d1] = res
          BY <1>a, <3>0, <4>1 DEF Typed
        <5>2. t \in due
          BY <1>6, <3>2, <5>1
        <5>3. about[pendingReq[t]] = t
          BY <2>2 DEF MapInv
        <5> QED
          BY <1>b, <2>2, <3>0, <5>1, <5>2, <5>3 DEF TimeoutInv
      <4>2. CASE d1 # d
        <5>1. taken'[d1] = taken[d1] /\ result'[d1] = result[d1]
          BY <1>a, <3>0, <4>2 DEF Typed
        <5> QED
          BY <1>b, <3>0, <3>2, <5>1 DEF TimeoutInv
      <4> QED
        BY <4>1, <4>2
    <3>3. ASSUME NEW q \in Requests, buffer'[q] = "timeout" PROVE about'[q] \in ExpiredTasks'
      BY <1>a, <1>b, <1>c, ResultFacts, <3>3, <1>6, <2>2, <3>0, <3>r DEF Typed, TimeoutInv
    <3>4. ASSUME NEW q \in Requests, about'[q] = Nil
          PROVE  buffer'[q] = Nil /\ waiter'[q] = "none" /\ q \notin expired'
      BY <1>a, <1>b, <1>c, ResultFacts, <3>4, <1>6, <2>2, <3>0, <3>r DEF Typed, TakenInv, TimeoutInv
    <3>5. ASSUME NEW q \in Requests, waiter'[q] = "timeout" PROVE about'[q] \in ExpiredTasks'
      BY <1>a, <1>b, <1>c, ResultFacts, <3>5, <1>6, <2>2, <3>0, <3>r DEF Typed, TimeoutInv, TimeoutNeedsExpiry
    <3> QED
      BY <3>1, <3>2, <3>3, <3>4, <3>5 DEF TimeoutInv, TimeoutNeedsExpiry
  <2> QED
    BY <2>1, <2>2
<1>7. ASSUME NEW d \in Deciders, Send(d) PROVE (TimeoutInv /\ TimeoutNeedsExpiry)'
  <2>1. due' \subseteq ExpiredTasks'
    BY <1>a, <1>b, <1>c, ResultFacts, <1>7 DEF Send, Typed, MapInv, TimeoutInv
  <2>2. ASSUME NEW d1 \in Deciders, result'[d1] = "timeout"
        PROVE  taken'[d1] # Nil /\ about'[taken'[d1]] \in ExpiredTasks'
    BY <1>a, <1>b, <1>c, ResultFacts, <2>2, <1>7 DEF Send, Typed, MapInv, TakenInv, TimeoutInv
  <2>3. ASSUME NEW q \in Requests, buffer'[q] = "timeout" PROVE about'[q] \in ExpiredTasks'
    BY <1>a, <1>b, <1>c, ResultFacts, <2>3, <1>7 DEF Send, Typed, TimeoutInv
  <2>4. ASSUME NEW q \in Requests, about'[q] = Nil
        PROVE  buffer'[q] = Nil /\ waiter'[q] = "none" /\ q \notin expired'
    BY <1>a, <1>b, <1>c, ResultFacts, <2>4, <1>7 DEF Send, Typed, TakenInv, TimeoutInv
  <2>5. ASSUME NEW q \in Requests, waiter'[q] = "timeout" PROVE about'[q] \in ExpiredTasks'
    BY <1>a, <1>b, <1>c, ResultFacts, <2>5, <1>7 DEF Send, Typed, TimeoutInv, TimeoutNeedsExpiry
  <2> QED
    BY <2>1, <2>2, <2>3, <2>4, <2>5 DEF TimeoutInv, TimeoutNeedsExpiry
<1>8. ASSUME NEW d \in Deciders, Close(d) PROVE (TimeoutInv /\ TimeoutNeedsExpiry)'
  <2>1. due' \subseteq ExpiredTasks'
    BY <1>a, <1>b, <1>c, ResultFacts, <1>8 DEF Close, Typed, MapInv, TimeoutInv
  <2>2. ASSUME NEW d1 \in Deciders, result'[d1] = "timeout"
        PROVE  taken'[d1] # Nil /\ about'[taken'[d1]] \in ExpiredTasks'
    <3>1. d1 # d
      BY <1>a, ResultFacts, <2>2, <1>8 DEF Close, Typed
    <3>2. taken'[d1] = taken[d1] /\ result'[d1] = result[d1] /\ about' = about
      BY <1>a, <3>1, <1>8 DEF Close, Typed
    <3> QED
      BY <1>b, <2>2, <3>2 DEF TimeoutInv
  <2>3. ASSUME NEW q \in Requests, buffer'[q] = "timeout" PROVE about'[q] \in ExpiredTasks'
    BY <1>a, <1>b, <1>c, ResultFacts, <2>3, <1>8 DEF Close, Typed, TimeoutInv
  <2>4. ASSUME NEW q \in Requests, about'[q] = Nil
        PROVE  buffer'[q] = Nil /\ waiter'[q] = "none" /\ q \notin expired'
    BY <1>a, <1>b, <1>c, ResultFacts, <2>4, <1>8 DEF Close, Typed, TakenInv, TimeoutInv
  <2>5. ASSUME NEW q \in Requests, waiter'[q] = "timeout" PROVE about'[q] \in ExpiredTasks'
    BY <1>a, <1>b, <1>c, ResultFacts, <2>5, <1>8 DEF Close, Typed, TimeoutInv, TimeoutNeedsExpiry
  <2> QED
    BY <2>1, <2>2, <2>3, <2>4, <2>5 DEF TimeoutInv, TimeoutNeedsExpiry
<1>11. CASE CheckExpiredApprovals
  <2>1. due' \subseteq ExpiredTasks'
    <3>1. ASSUME NEW t \in Tasks, pendingReq[t] \in expired PROVE t \in ExpiredTasks
      <4>1. pendingReq[t] # Nil
        BY <1>a, <3>1, ResultFacts DEF Typed
      <4>2. about[pendingReq[t]] = t
        BY <4>1 DEF MapInv
      <4> QED
        BY <1>c, <3>1, <4>2
    <3> QED
      BY <1>b, <1>11, <3>1 DEF CheckExpiredApprovals
  <2>2. ASSUME NEW d1 \in Deciders, result'[d1] = "timeout"
        PROVE  taken'[d1] # Nil /\ about'[taken'[d1]] \in ExpiredTasks'
    BY <1>a, <1>b, <1>c, ResultFacts, <2>2, <1>11 DEF CheckExpiredApprovals, Typed, MapInv, TakenInv, TimeoutInv
  <2>3. ASSUME NEW q \in Requests, buffer'[q] = "timeout" PROVE about'[q] \in ExpiredTasks'
    BY <1>a, <1>b, <1>c, ResultFacts, <2>3, <1>11 DEF CheckExpiredApprovals, Typed, TimeoutInv
  <2>4. ASSUME NEW q \in Requests, about'[q] = Nil
        PROVE  buffer'[q] = Nil /\ waiter'[q] = "none" /\ q \notin expired'
    BY <1>a, <1>b, <1>c, ResultFacts, <2>4, <1>11 DEF CheckExpiredApprovals, Typed, TakenInv, TimeoutInv
  <2>5. ASSUME NEW q \in Requests, waiter'[q] = "timeout" PROVE about'[q] \in ExpiredTasks'
    BY <1>a, <1>b, <1>c, ResultFacts, <2>5, <1>11 DEF CheckExpiredApprovals, Typed, TimeoutInv, TimeoutNeedsExpiry
  <2> QED
    BY <2>1, <2>2, <2>3, <2>4, <2>5 DEF TimeoutInv, TimeoutNeedsExpiry
<1> QED
    BY GuardianCases, <1>f, <1>1, <1>2, <1>3, <1>4, <1>5, <1>6, <1>7, <1>8, <1>11
    DEF guardianVars, HandlerStart, HandlerStop

(* The invariant of the guardian. *)
THEOREM GuardianInvariant == GuardianSpec => []GuardianInv
<1>1. GuardianInit => GuardianInv
  <2> SUFFICES ASSUME GuardianInit PROVE GuardianInv
    OBVIOUS
  <2> USE GuardianAssumption DEF GuardianInit
  <2>1. GuardianTypeOK
    BY DEF GuardianTypeOK, Deciders
  <2>2. MapInv /\ TakenInv /\ DecidedOnce
    BY DEF MapInv, TakenInv, DecidedOnce
  <2>3. ResultInv /\ ClosedHasResult
    BY DEF ResultInv, ClosedHasResult
  <2>4. TimeoutInv /\ TimeoutNeedsExpiry
    BY DEF TimeoutInv, TimeoutNeedsExpiry, Results
  <2> QED
    BY <2>1, <2>2, <2>3, <2>4 DEF GuardianInv
<1>2. GuardianInv /\ [GuardianNext]_guardianVars => GuardianInv'
    BY GuardianTypeStep, TakenStep, ResultStep, TimeoutStep DEF GuardianInv
<1> QED
    BY <1>1, <1>2, PTL DEF GuardianSpec

(* No channel is closed twice or sent to after its close, whoever decides.   *)
THEOREM RequestsAreDecidedOnce == GuardianSpec => []DecidedOnce
BY GuardianInvariant, PTL DEF GuardianInv

(* No session finds its channel closed without a result. *)
THEOREM ClosedChannelsHaveResults == GuardianSpec => []ClosedHasResult
BY GuardianInvariant, PTL DEF GuardianInv

(* No session times out unless a request of its task expired. *)
THEOREM TimeoutsNeedExpiry == GuardianSpec => []TimeoutNeedsExpiry
BY GuardianInvariant, PTL DEF GuardianInv

(* All of them: a request is decided once (guardian.go:169), no channel is   *)
(* closed without its result, and a session gets a timeout only when some    *)
(* request of its task has expired, its own or another one that replaced or  *)
(* was replaced by it: the handler works from task ids (timeout.go:85).      *)
THEOREM DecisionsAreSound == GuardianSpec => []DecisionsSound
<1>1. GuardianInv => DecisionsSound
  BY DEF GuardianInv, DecisionsSound
<1> QED
  BY <1>1, GuardianInvariant, PTL
=============================================================================
