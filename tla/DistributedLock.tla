--------------------------- MODULE DistributedLock ---------------------------
(***************************************************************************)
(* The Redis lock (internal/infra/cache/lock.go) and its watchdog          *)
(* (internal/infra/cache/watchdog.go), for one key.                        *)
(*                                                                         *)
(* A handle is one Lock value with its own token, from Acquire to the end  *)
(* of its life.  Redis keeps the token that holds the key and the time it  *)
(* has left; the scripts of Release and Extend are atomic.  Time goes in   *)
(* ticks, and goroutines may be arbitrarily slow unless Prompt is set.     *)
(***************************************************************************)
EXTENDS Naturals

CONSTANTS
    Handles,
    TTL,          \* the ttl given to Acquire
    Interval,     \* the interval given to StartWatchdog
    Prompt,       \* whether watchdogs start at once and act before time passes
    RedisFails,   \* whether a call may fail, before or after Redis ran it
    MayCrash      \* whether the owner of a handle may die

Free == "free"

(* Acquire with a ttl of 0 would set a key that never expires, and         *)
(* StartWatchdog refuses an interval that is not positive.                 *)
ASSUME LockAssumption ==
    TTL \in Nat \ {0} /\ Interval \in Nat \ {0} /\ Free \notin Handles

VARIABLES
    key,        \* the handle whose token Redis stores
    ttl,        \* how long Redis keeps it
    handle,     \* "new", "held", "failed", "released" or "crashed"
    lease,      \* what is left of the ttl Redis last granted the handle
    watchdog,   \* where the watchdog goroutine is
    due,        \* when its timer fires
    stopped,    \* wl.stopped
    stopCh,     \* whether wl.stopCh is closed
    stoppedCh,  \* whether wl.stoppedCh is closed
    stop,       \* where the call of Stop is
    ctxDone     \* the handles whose contexts have ended

redis == <<key, ttl, lease>>
chans == <<stopped, stopCh, stoppedCh>>
lockVars == <<redis, handle, watchdog, due, chans, stop, ctxDone>>

LockInit ==
    /\ key = Free /\ ttl = 0
    /\ handle = [h \in Handles |-> "new"]
    /\ lease = [h \in Handles |-> 0]
    /\ watchdog = [h \in Handles |-> "off"]
    /\ due = [h \in Handles |-> 0]
    /\ stopped = {} /\ stopCh = {} /\ stoppedCh = {}
    /\ stop = [h \in Handles |-> "none"]
    /\ ctxDone = {}

Alive(h) == handle[h] # "crashed"
Dog(h, l) == watchdog' = [watchdog EXCEPT ![h] = l]

---------------------------------------------------------------------------
(* Redis.                                                                  *)

Grant(h, t) ==
    /\ key' = h /\ ttl' = t
    /\ lease' = [lease EXCEPT ![h] = t]

(* Mutant: DEL without comparing the token. *)
ReleaseAny(h) ==
    /\ key' = Free /\ ttl' = 0
    /\ lease' = [lease EXCEPT ![h] = 0]

(* The compare-and-delete script.                                          *)
ReleaseScript(h) ==
    IF key = h
    THEN /\ key' = Free /\ ttl' = 0
         /\ lease' = [lease EXCEPT ![h] = 0]
    ELSE UNCHANGED redis

(* The compare-and-expire script.                                          *)
ExtendScript(h, t) == IF key = h THEN Grant(h, t) ELSE UNCHANGED redis

(* Redis drops a key in the instant its time is up.                        *)
Expire ==
    /\ key # Free /\ ttl = 0
    /\ key' = Free
    /\ UNCHANGED <<ttl, lease, handle, watchdog, due, chans, stop, ctxDone>>

Less(n) == IF n > 0 THEN n - 1 ELSE 0

(* A watchdog to start or a step of it that is due.                        *)
Pending(h) ==
    \/ handle[h] = "held" /\ stop[h] = "none" /\ watchdog[h] = "off"
    \/ watchdog[h] \in {"check", "extend"}
    \/ watchdog[h] = "timer" /\ due[h] = 0

Tick ==
    /\ IF key = Free THEN \E h \in Handles : due[h] > 0 ELSE ttl > 0
    /\ Prompt => ~ \E h \in Handles : Pending(h)
    /\ ttl' = Less(ttl)
    /\ lease' = [h \in Handles |-> Less(lease[h])]
    /\ due' = [h \in Handles |-> Less(due[h])]
    /\ UNCHANGED <<key, handle, watchdog, chans, stop, ctxDone>>

---------------------------------------------------------------------------
(* DistributedLock.Acquire.                                                *)

(* SetNX; when the reply is lost the key is taken and nobody has a handle. *)
Acquire(h) ==
    /\ handle[h] = "new" /\ key = Free
    /\ \/ /\ Grant(h, TTL)
          /\ handle' = [handle EXCEPT ![h] = "held"]
       \/ /\ RedisFails
          /\ Grant(h, TTL) \/ UNCHANGED redis
          /\ handle' = [handle EXCEPT ![h] = "failed"]
    /\ UNCHANGED <<watchdog, due, chans, stop, ctxDone>>

AcquireFailed(h) ==
    /\ handle[h] = "new" /\ key # Free
    /\ handle' = [handle EXCEPT ![h] = "failed"]
    /\ UNCHANGED <<redis, watchdog, due, chans, stop, ctxDone>>

---------------------------------------------------------------------------
(* The watchdog goroutine.                                                 *)

StartWatchdog(h) ==
    /\ handle[h] = "held" /\ watchdog[h] = "off"
    /\ h \notin stopped
    /\ Dog(h, "timer")
    /\ due' = [due EXCEPT ![h] = Interval]
    /\ UNCHANGED <<redis, handle, chans, stop, ctxDone>>

(* Its return, which closes stoppedCh.                                     *)
DogExit(h) ==
    /\ Dog(h, "exited")
    /\ stoppedCh' = stoppedCh \cup {h}

(* select: the context, stopCh, or the timer.                              *)
DogSelect(h) ==
    /\ Alive(h) /\ watchdog[h] = "timer"
    /\ \/ /\ h \in ctxDone \cup stopCh
          /\ DogExit(h)
       \/ /\ due[h] = 0
          /\ Dog(h, "check")
          /\ UNCHANGED stoppedCh
    /\ UNCHANGED <<redis, handle, due, stopped, stopCh, stop, ctxDone>>

DogCheck(h) ==
    /\ Alive(h) /\ watchdog[h] = "check"
    /\ IF h \in stopped
       THEN DogExit(h)
       ELSE Dog(h, "extend") /\ UNCHANGED stoppedCh
    /\ UNCHANGED <<redis, handle, due, stopped, stopCh, stop, ctxDone>>

(* Mutant: an extension that fails is tried again at the next interval. *)
DogExtendOn(h) ==
    /\ Alive(h) /\ watchdog[h] = "extend"
    /\ h \notin ctxDone
    /\ ExtendScript(h, Interval)
    /\ Dog(h, "timer")
    /\ due' = [due EXCEPT ![h] = Interval]
    /\ UNCHANGED <<handle, chans, stop, ctxDone>>

(* Extend(ctx, interval): a success sets the timer again, an error of any  *)
(* kind ends the watchdog.                                                 *)
DogExtend(h) ==
    /\ Alive(h) /\ watchdog[h] = "extend"
    /\ \/ /\ h \notin ctxDone
          /\ key = h
          /\ ExtendScript(h, Interval)
          /\ Dog(h, "timer")
          /\ due' = [due EXCEPT ![h] = Interval]
          /\ UNCHANGED stoppedCh
       \/ /\ \/ UNCHANGED redis /\ (key # h \/ RedisFails \/ h \in ctxDone)
             \/ RedisFails /\ ExtendScript(h, Interval)
          /\ DogExit(h)
          /\ UNCHANGED due
    /\ UNCHANGED <<handle, stopped, stopCh, stop, ctxDone>>

RunWatchdog(h) == DogSelect(h) \/ DogCheck(h) \/ DogExtend(h)

---------------------------------------------------------------------------
(* Stop and StopOnly.                                                      *)

StopBegin(h) ==
    /\ handle[h] = "held" /\ stop[h] = "none"
    /\ IF h \in stopped
       THEN /\ stop' = [stop EXCEPT ![h] = "already"]
            /\ UNCHANGED stopped
       ELSE /\ stop' = [stop EXCEPT ![h] = "closing"]
            /\ stopped' = stopped \cup {h}
    /\ UNCHANGED <<redis, handle, watchdog, due, stopCh, stoppedCh, ctxDone>>

StopClose(h) ==
    /\ Alive(h) /\ stop[h] = "closing"
    /\ stopCh' = stopCh \cup {h}
    /\ stop' = [stop EXCEPT ![h] = "waiting"]
    /\ UNCHANGED <<redis, handle, watchdog, due, stopped, stoppedCh, ctxDone>>

StopWait(h) ==
    /\ Alive(h) /\ stop[h] = "waiting"
    /\ \/ /\ h \in stoppedCh
          /\ stop' = [stop EXCEPT ![h] = "releasing"]
       \/ /\ h \in ctxDone
          /\ stop' = [stop EXCEPT ![h] = "err"]
    /\ UNCHANGED <<redis, handle, watchdog, due, chans, ctxDone>>

(* Lock.Release: an answer of 0 is ErrLockNotHeld.                         *)
Release(h) ==
    /\ Alive(h) /\ stop[h] = "releasing"
    /\ \/ /\ h \notin ctxDone
          /\ ReleaseScript(h)
          /\ handle' = [handle EXCEPT ![h] = "released"]
          /\ stop' = [stop EXCEPT ![h] = IF key = h THEN "ok" ELSE "err"]
       \/ /\ RedisFails \/ h \in ctxDone
          /\ ReleaseScript(h) \/ UNCHANGED redis
          /\ stop' = [stop EXCEPT ![h] = "err"]
          /\ UNCHANGED handle
    /\ UNCHANGED <<watchdog, due, chans, ctxDone>>

(* Lock.Release called by the owner itself, its watchdog still running.    *)
OwnerReleases(h) ==
    /\ handle[h] = "held" /\ stop[h] = "none" /\ h \notin ctxDone
    /\ ReleaseScript(h)
    /\ handle' = [handle EXCEPT ![h] = "released"]
    /\ UNCHANGED <<watchdog, due, chans, stop, ctxDone>>

(* Lock.Extend called by the owner itself, with its own ttl.               *)
OwnerExtends(h) ==
    /\ handle[h] = "held" /\ h \notin ctxDone
    /\ ExtendScript(h, TTL)
    /\ UNCHANGED <<handle, watchdog, due, chans, stop, ctxDone>>

StopOnly(h) ==
    /\ handle[h] = "held" /\ h \notin stopped
    /\ stopped' = stopped \cup {h}
    /\ stopCh' = stopCh \cup {h}
    /\ UNCHANGED <<redis, handle, watchdog, due, stoppedCh, stop, ctxDone>>

Stop(h) == StopBegin(h) \/ StopClose(h) \/ StopWait(h) \/ Release(h)

CancelContext(h) ==
    /\ handle[h] = "held" /\ h \notin ctxDone
    /\ RedisFails
    /\ ctxDone' = ctxDone \cup {h}
    /\ UNCHANGED <<redis, handle, watchdog, due, chans, stop>>

Crash(h) ==
    /\ MayCrash /\ handle[h] = "held"
    /\ handle' = [handle EXCEPT ![h] = "crashed"]
    /\ UNCHANGED <<redis, watchdog, due, chans, stop, ctxDone>>

---------------------------------------------------------------------------
LockNext ==
    \/ \E h \in Handles :
          \/ Acquire(h) \/ AcquireFailed(h) \/ StartWatchdog(h) \/ RunWatchdog(h)
          \/ OwnerReleases(h) \/ OwnerExtends(h)
          \/ Stop(h) \/ StopOnly(h) \/ CancelContext(h) \/ Crash(h)
    \/ Tick \/ Expire

LockSpec == LockInit /\ [][LockNext]_lockVars

(* Time passes, Redis expires keys, and a goroutine that can go on does.   *)
LockFairness ==
    /\ WF_lockVars(Tick) /\ WF_lockVars(Expire)
    /\ \A h \in Handles :
          /\ WF_lockVars(RunWatchdog(h))
          /\ WF_lockVars(StopClose(h)) /\ WF_lockVars(StopWait(h)) /\ WF_lockVars(Release(h))

---------------------------------------------------------------------------
LockTypeOK ==
    /\ key \in Handles \cup {Free}
    /\ ttl \in Nat
    /\ handle \in [Handles -> {"new", "held", "failed", "released", "crashed"}]
    /\ lease \in [Handles -> Nat]
    /\ watchdog \in [Handles -> {"off", "timer", "check", "extend", "exited"}]
    /\ due \in [Handles -> 0 .. Interval]
    /\ stopped \subseteq Handles /\ stopCh \subseteq stopped /\ stoppedCh \subseteq Handles
    /\ stop \in [Handles -> {"none", "closing", "waiting", "releasing", "ok", "already", "err"}]
    /\ ctxDone \subseteq Handles

(* Safety.                                                                 *)

(* While the ttl that Redis last granted a handle runs, the key holds that *)
(* handle's token: neither the late Release or Extend of an earlier owner  *)
(* nor a stale watchdog takes it away (the scripts of lock.go compare the  *)
(* token).                                                                 *)
LeaseHonoured == \A h \in Handles : lease[h] > 0 => key = h

(* A handle whose Release was answered never holds the key again, even     *)
(* when its watchdog was about to extend it.                               *)
ReleasedForGood == \A h \in Handles : handle[h] = "released" => key # h

(* When the Stop that set the flag has returned nil, the lock is released  *)
(* and the watchdog has exited.  A Stop that finds the flag set, by        *)
(* StopOnly too, promises nothing: it returns nil and releases nothing.    *)
StopIsFinal ==
    \A h \in Handles :
        stop[h] = "ok" => key # h /\ watchdog[h] \notin {"timer", "check", "extend"}

(* Whatever expires, fails or comes late, Redis, the owners and Stop agree  *)
(* on whose lock it is (lock.go:129, watchdog.go:132).                     *)
LockOwnership == LeaseHonoured /\ ReleasedForGood /\ StopIsFinal

(* The promise of WatchdogLock: while its watchdog runs, the owner does    *)
(* not lose the lock to the ttl.                                           *)
LockKept ==
    \A h \in Handles :
        /\ handle[h] = "held" /\ h \notin stopped
        /\ watchdog[h] \in {"timer", "check", "extend"}
        => key = h

---------------------------------------------------------------------------
(* The inductive invariant behind LockOwnership.                           *)

(* A lease that runs is the key's own, and Redis keeps the key as long.    *)
LeaseInv == \A h \in Handles : lease[h] > 0 => key = h /\ lease[h] <= ttl

(* How far Stop is: the flag is set before stopCh is closed, the watchdog  *)
(* has exited before the lock is released, and "ok" means it was released. *)
StopInv ==
    \A h \in Handles :
        /\ stop[h] \in {"closing", "waiting", "releasing", "ok"} => h \in stopped
        /\ h \in stoppedCh => watchdog[h] = "exited"
        /\ stop[h] = "releasing" => h \in stoppedCh
        /\ stop[h] = "ok" => handle[h] = "released" /\ watchdog[h] = "exited"

LockInv == LockTypeOK /\ LeaseInv /\ ReleasedForGood /\ StopInv

---------------------------------------------------------------------------
(* Liveness.                                                               *)

(* The watchdog of a lock that was lost or released ends by itself.        *)
LostLockEndsWatchdog ==
    \A h \in Handles :
        (watchdog[h] = "timer" /\ key # h)
            ~> (watchdog[h] = "exited" \/ handle[h] = "crashed")

(* A call of Stop returns, whether or not a watchdog was started.          *)
StopReturns ==
    \A h \in Handles :
        stop[h] = "closing" ~> (stop[h] \in {"ok", "already", "err"} \/ handle[h] = "crashed")
==============================================================================
