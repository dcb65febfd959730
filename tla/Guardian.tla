------------------------------ MODULE Guardian ------------------------------
(***************************************************************************)
(* Approvals (internal/guardian/guardian.go, timeout.go) and the agent     *)
(* sessions that wait for them (executeAgentSession).                      *)
(*                                                                         *)
(* A request is an object with a channel of its own, buffered for one      *)
(* result.  The map holds one request a task; whoever takes it out of the  *)
(* map sends the result and closes the channel, after the lock is given    *)
(* back.  The handler of timeouts does so for the tasks whose request had  *)
(* expired when it looked.                                                 *)
(***************************************************************************)
EXTENDS Naturals, FiniteSets

CONSTANTS
    Tasks,      \* tasks that need an approval
    Requests,   \* bound: the calls of RequestApproval
    Users,      \* goroutines that pass on the decision of a user
    Handler,    \* the goroutine of the TimeoutHandler
    Nil

Deciders == Users \cup {Handler}
UserResults == {"approved", "rejected", "escalated"}
Results == UserResults \cup {"timeout"}

ASSUME GuardianAssumption ==
    Handler \notin Users /\ Nil \notin Requests \cup Tasks \cup Results

VARIABLES
    pendingReq,  \* pendingReq[t]: the request in the map, or Nil
    about,       \* about[r]: the task of the request, Nil before the call
    expired,     \* the requests whose ExpiresAt has come
    buffer,      \* buffer[r]: the result in the channel, or Nil
    closed,      \* the closed channels
    panicked,    \* a closed channel was closed or sent to
    waiter,      \* waiter[r]: where the session is, or the result it got
    deciding,    \* deciding[d]: where d is in ProcessApproval
    taken,       \* taken[d]: the request d took out of the map
    result,      \* result[d]: the result it passes on
    handler,     \* the loop of the TimeoutHandler
    due          \* the tasks it has still to time out

channelVars == <<buffer, closed, panicked>>
decideVars == <<deciding, taken, result>>
guardianVars == <<pendingReq, about, expired, channelVars, waiter, decideVars, handler, due>>

GuardianInit ==
    /\ pendingReq = [t \in Tasks |-> Nil]
    /\ about = [r \in Requests |-> Nil] /\ expired = {}
    /\ buffer = [r \in Requests |-> Nil] /\ closed = {} /\ panicked = FALSE
    /\ waiter = [r \in Requests |-> "none"]
    /\ deciding = [d \in Deciders |-> "idle"]
    /\ taken = [d \in Deciders |-> Nil] /\ result = [d \in Deciders |-> Nil]
    /\ handler = "off" /\ due = {}

-----------------------------------------------------------------------------
(* The session.                                                              *)

(* A request of the task that is still pending is replaced. *)
RequestApproval(r, t) ==
    /\ about[r] = Nil
    /\ about' = [about EXCEPT ![r] = t]
    /\ pendingReq' = [pendingReq EXCEPT ![t] = r]
    /\ waiter' = [waiter EXCEPT ![r] = "requested"]
    /\ UNCHANGED <<expired, channelVars, decideVars, handler, due>>

(* RequestApproval has pushed its event and returns; the session selects. *)
Await(r) ==
    /\ waiter[r] = "requested"
    /\ waiter' = [waiter EXCEPT ![r] = "waiting"]
    /\ UNCHANGED <<pendingReq, about, expired, channelVars, decideVars, handler, due>>

(* result, ok := <-ResultCh: a closed and empty channel answers without one. *)
Receive(r) ==
    /\ waiter[r] = "waiting"
    /\ buffer[r] # Nil \/ r \in closed
    /\ waiter' = [waiter EXCEPT ![r] = IF buffer[r] = Nil THEN "no result" ELSE buffer[r]]
    /\ buffer' = [buffer EXCEPT ![r] = Nil]
    /\ UNCHANGED <<pendingReq, about, expired, closed, panicked, decideVars, handler, due>>

(* The session's context ends; its request stays in the map. *)
WaitCancelled(r) ==
    /\ waiter[r] = "waiting"
    /\ waiter' = [waiter EXCEPT ![r] = "cancelled"]
    /\ UNCHANGED <<pendingReq, about, expired, channelVars, decideVars, handler, due>>

Expire(r) ==
    /\ about[r] # Nil /\ r \notin expired
    /\ expired' = expired \cup {r}
    /\ UNCHANGED <<pendingReq, about, channelVars, waiter, decideVars, handler, due>>

-----------------------------------------------------------------------------
(* ProcessApproval.                                                          *)

(* Mutant: the request is looked up here and deleted later. *)
LookUp(d, t, res) ==
    /\ deciding[d] = "idle"
    /\ taken' = [taken EXCEPT ![d] = pendingReq[t]]
    /\ result' = [result EXCEPT ![d] = res]
    /\ deciding' = [deciding EXCEPT ![d] = IF pendingReq[t] = Nil THEN "idle" ELSE "send"]
    /\ UNCHANGED <<pendingReq, about, expired, channelVars, waiter, handler>>

(* Under the lock; without a request there is nobody to tell. *)
Take(d, t, res) ==
    /\ deciding[d] = "idle"
    /\ pendingReq' = [pendingReq EXCEPT ![t] = Nil]
    /\ IF pendingReq[t] = Nil
         THEN UNCHANGED decideVars
         ELSE /\ taken' = [taken EXCEPT ![d] = pendingReq[t]]
              /\ result' = [result EXCEPT ![d] = res]
              /\ deciding' = [deciding EXCEPT ![d] = "send"]
    /\ UNCHANGED <<about, expired, channelVars, waiter, handler>>

(* A send that does not block: a full buffer drops the result. *)
Send(d) ==
    /\ deciding[d] = "send"
    /\ panicked' = (panicked \/ taken[d] \in closed)
    /\ buffer' = IF buffer[taken[d]] = Nil THEN [buffer EXCEPT ![taken[d]] = result[d]] ELSE buffer
    /\ deciding' = [deciding EXCEPT ![d] = "close"]
    /\ UNCHANGED <<pendingReq, about, expired, closed, waiter, taken, result, handler, due>>

Close(d) ==
    /\ deciding[d] = "close"
    /\ panicked' = (panicked \/ taken[d] \in closed)
    /\ closed' = closed \cup {taken[d]}
    /\ deciding' = [deciding EXCEPT ![d] = "idle"]
    /\ taken' = [taken EXCEPT ![d] = Nil] /\ result' = [result EXCEPT ![d] = Nil]
    /\ UNCHANGED <<pendingReq, about, expired, buffer, waiter, handler, due>>

ProcessApproval(u, t, res) == Take(u, t, res) /\ UNCHANGED due

-----------------------------------------------------------------------------
(* The TimeoutHandler.                                                       *)

HandlerStart ==
    /\ handler = "off"
    /\ handler' = "on"
    /\ UNCHANGED <<pendingReq, about, expired, channelVars, waiter, decideVars, due>>

(* The snapshot of the expired tasks, under the read lock. *)
CheckExpiredApprovals ==
    /\ handler = "on" /\ due = {} /\ deciding[Handler] = "idle"
    /\ due' = {t \in Tasks : pendingReq[t] \in expired}
    /\ due' # {}
    /\ UNCHANGED <<pendingReq, about, expired, channelVars, waiter, decideVars, handler>>

(* Mutant: the request is deleted and its session is not told. *)
TimeoutForgets(t) ==
    /\ t \in due /\ deciding[Handler] = "idle"
    /\ pendingReq' = [pendingReq EXCEPT ![t] = Nil]
    /\ due' = due \ {t}
    /\ UNCHANGED <<about, expired, channelVars, waiter, decideVars, handler>>

(* Whatever request the task has by now is timed out. *)
HandleTimeout(t) ==
    /\ t \in due
    /\ Take(Handler, t, "timeout")
    /\ due' = due \ {t}

(* Stop: the loop ends after the check that is under way. *)
HandlerStop ==
    /\ handler = "on" /\ due = {} /\ deciding[Handler] = "idle"
    /\ handler' = "stopped"
    /\ UNCHANGED <<pendingReq, about, expired, channelVars, waiter, decideVars, due>>

-----------------------------------------------------------------------------
HandlerStep ==
    \/ CheckExpiredApprovals
    \/ \E t \in Tasks : HandleTimeout(t)
    \/ Send(Handler) \/ Close(Handler)

GuardianNext ==
    \/ \E r \in Requests :
          \/ \E t \in Tasks : RequestApproval(r, t)
          \/ Await(r) \/ Receive(r) \/ WaitCancelled(r) \/ Expire(r)
    \/ \E u \in Users :
          \/ \E t \in Tasks, res \in UserResults : ProcessApproval(u, t, res)
          \/ Send(u) \/ Close(u)
    \/ HandlerStart \/ HandlerStop \/ HandlerStep

GuardianSpec == GuardianInit /\ [][GuardianNext]_guardianVars

(* The ticker fires, and a goroutine that can go on does. *)
GuardianFairness ==
    /\ WF_guardianVars(HandlerStep)
    /\ \A u \in Users : WF_guardianVars(Send(u) \/ Close(u))
    /\ \A r \in Requests : WF_guardianVars(Await(r)) /\ WF_guardianVars(Receive(r))

-----------------------------------------------------------------------------
GuardianTypeOK ==
    /\ pendingReq \in [Tasks -> Requests \cup {Nil}]
    /\ about \in [Requests -> Tasks \cup {Nil}]
    /\ expired \subseteq Requests
    /\ buffer \in [Requests -> Results \cup {Nil}]
    /\ closed \subseteq Requests /\ panicked \in BOOLEAN
    /\ waiter \in [Requests -> Results \cup {"none", "requested", "waiting", "no result", "cancelled"}]
    /\ deciding \in [Deciders -> {"idle", "send", "close"}]
    /\ taken \in [Deciders -> Requests \cup {Nil}]
    /\ \A d \in Deciders : (deciding[d] = "idle") <=> (taken[d] = Nil)
    /\ result \in [Deciders -> Results \cup {Nil}]
    /\ handler \in {"off", "on", "stopped"} /\ due \subseteq Tasks

(* A request is decided once: users and the timeout may race for it, but no  *)
(* channel is closed twice or sent to after its close, which would panic.    *)
DecidedOnce == ~panicked

(* "The channel is closed after sending": a session never finds its channel  *)
(* closed and empty, also when the decision comes before it waits.           *)
ClosedHasResult == \A r \in Requests : waiter[r] # "no result"

(* A session times out only when some request of its task has expired, its   *)
(* own or another one of the task: see OnlyExpiredTimeOut below.             *)
ExpiredTasks == {about[q] : q \in expired}
TimeoutNeedsExpiry ==
    \A r \in Requests : waiter[r] = "timeout" => about[r] \in ExpiredTasks

(* Users, the timeout handler and replaced requests together: a session gets *)
(* one decision, a channel is closed once and not before its result, and it  *)
(* takes an expired request of the task to time out one (guardian.go:169,    *)
(* timeout.go:85).                                                           *)
DecisionsSound == DecidedOnce /\ ClosedHasResult /\ TimeoutNeedsExpiry

(* An expired request that is still in the map is answered while the handler *)
(* runs, or is replaced.                                                     *)
ExpiredIsAnswered ==
    \A r \in Requests, t \in Tasks :
        (pendingReq[t] = r /\ r \in expired /\ handler = "on") ~>
            (waiter[r] \notin {"requested", "waiting"} \/ pendingReq[t] \notin {r, Nil}
                \/ handler = "stopped")

-----------------------------------------------------------------------------
(* The inductive invariant behind the three safety properties. *)

(* A request in the map is its task's, and nobody has taken or closed it. *)
MapInv ==
    \A t \in Tasks : pendingReq[t] # Nil =>
        /\ about[pendingReq[t]] = t
        /\ pendingReq[t] \notin closed
        /\ \A d \in Deciders : taken[d] # pendingReq[t]

(* A request that was taken is the taker's alone until it is closed. *)
TakenInv ==
    /\ \A d \in Deciders : taken[d] # Nil =>
          taken[d] \notin closed /\ about[taken[d]] # Nil /\ result[d] # Nil
    /\ \A d, e \in Deciders : taken[d] = taken[e] /\ taken[d] # Nil => d = e
    /\ \A r \in closed : about[r] # Nil

(* A session that has not received yet finds a result in its channel from    *)
(* the time it is sent, so also after the channel is closed.                 *)
ResultInv ==
    \A r \in Requests : waiter[r] \in {"requested", "waiting"} =>
        /\ r \in closed => buffer[r] # Nil
        /\ \A d \in Deciders : taken[d] = r /\ deciding[d] = "close" => buffer[r] # Nil

(* Whatever is on its way as a timeout belongs to a task with an expired     *)
(* request, and a request that was not made has no answer.                   *)
TimeoutInv ==
    /\ due \subseteq ExpiredTasks
    /\ \A d \in Deciders :
          result[d] = "timeout" => taken[d] # Nil /\ about[taken[d]] \in ExpiredTasks
    /\ \A r \in Requests : buffer[r] = "timeout" => about[r] \in ExpiredTasks
    /\ \A r \in Requests :
          about[r] = Nil => buffer[r] = Nil /\ waiter[r] = "none" /\ r \notin expired

GuardianInv ==
    /\ GuardianTypeOK /\ MapInv /\ TakenInv /\ ResultInv /\ TimeoutInv
    /\ DecidedOnce /\ ClosedHasResult /\ TimeoutNeedsExpiry

-----------------------------------------------------------------------------
(* What the comments of the code say; the code does not keep it.             *)

(* "Handles expired ones": only the requests that expired are timed out. *)
OnlyExpiredTimeOut == \A r \in Requests : waiter[r] = "timeout" => r \in expired

(* "The caller should wait on the ResultCh": a wait is answered, if only by  *)
(* the timeout.                                                              *)
WaitIsAnswered ==
    \A r \in Requests :
        (waiter[r] = "waiting" /\ r \in expired /\ handler = "on") ~>
            (waiter[r] # "waiting" \/ handler = "stopped")
=============================================================================
