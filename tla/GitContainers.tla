--------------------------- MODULE GitContainers ---------------------------
(***************************************************************************)
(* The per-project Git containers (internal/gitcontainer/manager.go) and   *)
(* their use by OrchestratorAdapter.Execute                                *)
(* (internal/scheduler/orchestrator_adapter.go).                           *)
(*                                                                         *)
(* The manager maps a project to its container; a nil entry reserves the   *)
(* project while a caller creates the container.  Docker knows the         *)
(* container by the name cap-git-<project>, which one container at a time  *)
(* can have, whether it runs or has exited.                                *)
(***************************************************************************)
EXTENDS Naturals

CONSTANTS
    Callers,      \* goroutines in Execute
    Projects,
    MaxTries,     \* iterations of Ensure's loop: 60 in the code
    MaxCreated,   \* bound: containers created in all
    MaxRestarts,  \* bound: restarts of the server
    DockerFails,  \* whether docker's commands and the container's API may fail
    MayDie,       \* whether a container may exit by itself
    MayStop,      \* whether StopAll is called
    MayCleanup    \* whether Cleanup is called

ASSUME GitAssumption ==
    /\ MaxTries \in Nat \ {0} /\ MaxCreated \in Nat /\ MaxRestarts \in Nat

(* The values of an entry that are no container's number. *)
Absent   == 0                 \* the project has no entry
Creating == MaxCreated + 1    \* its entry is nil
NoProject == "none"
ContainerIds == 1 .. MaxCreated

VARIABLES
    entry,     \* m.containers
    current,   \* the container that has the project's name in Docker; 0: none
    up,        \* whether that container runs
    created,   \* containers created so far
    volume,    \* whether the project's host directory exists
    pc,        \* where each caller is
    project,   \* the project of its task
    gc,        \* the container its call of Ensure looks at or has created
    tries,     \* its loop counter
    conflict,  \* whether docker run was refused because the name was taken
    stolen,    \* the projects of which a caller deleted another's reservation
    server,    \* "up", or "panicked" on a nil entry
    cleaning,  \* the containers that calls of Cleanup have still to remove
    restarts

dockVars == <<current, up, created, volume>>
callVars == <<pc, project, gc, tries>>
gitVars == <<entry, dockVars, callVars, conflict, stolen, server, cleaning, restarts>>

GitInit ==
    /\ entry = [k \in Projects |-> Absent]
    /\ current = [k \in Projects |-> 0]
    /\ up = [k \in Projects |-> FALSE]
    /\ created = 0
    /\ volume = [k \in Projects |-> FALSE]
    /\ pc = [c \in Callers |-> "idle"]
    /\ project = [c \in Callers |-> NoProject]
    /\ gc = [c \in Callers |-> 0]
    /\ tries = [c \in Callers |-> 0]
    /\ conflict = FALSE /\ stolen = {}
    /\ server = "up"
    /\ cleaning = {}
    /\ restarts = 0

Goto(c, l) == pc' = [pc EXCEPT ![c] = l]
Live == server # "panicked"

(* docker rm -f, whose error nobody looks at: the names of the projects    *)
(* are free again, where the container ids[k] had it.                      *)
DockerRemove(ids) ==
    \E R \in SUBSET DOMAIN ids :
        /\ R = DOMAIN ids \/ DockerFails
        /\ current' = [k \in Projects |-> IF k \in R /\ current[k] = ids[k] THEN 0 ELSE current[k]]
        /\ up' = [k \in Projects |-> up[k] /\ ~(k \in R /\ current[k] = ids[k])]

Running(k, id) == current[k] = id /\ up[k]

(* m.isRunning(id): what docker inspect says, and no when it fails.        *)
IsRunning(k, id, answer) ==
    \/ answer = Running(k, id)
    \/ DockerFails /\ answer = FALSE

---------------------------------------------------------------------------
(* Ensure.                                                                 *)

(* Execute has a repository URL: it asks for the project's container.      *)
Execute(c) ==
    /\ Live /\ pc[c] = "idle"
    /\ \E k \in Projects : project' = [project EXCEPT ![c] = k]
    /\ tries' = [tries EXCEPT ![c] = 0]
    /\ gc' = [gc EXCEPT ![c] = 0]
    /\ Goto(c, "look")
    /\ UNCHANGED <<entry, dockVars, conflict, stolen, server, cleaning, restarts>>

(* Ensure's errors send Execute to the standalone mode.                    *)
Standalone(c) == Goto(c, "standalone")

(* Mutant: the project is not reserved. *)
LookUnreserved(c) ==
    LET k == project[c] IN
    /\ Live /\ pc[c] = "look" /\ tries[c] < MaxTries
    /\ tries' = [tries EXCEPT ![c] = @ + 1]
    /\ \/ /\ entry[k] \in ContainerIds
          /\ gc' = [gc EXCEPT ![c] = entry[k]]
          /\ Goto(c, "inspect")
          /\ UNCHANGED entry
       \/ /\ entry[k] = Creating
          /\ UNCHANGED <<entry, gc, pc>>
       \/ /\ entry[k] = Absent
          /\ UNCHANGED entry
          /\ Goto(c, "mkdir")
          /\ UNCHANGED gc
    /\ UNCHANGED <<dockVars, project, conflict, stolen, server, cleaning, restarts>>

(* The loop's critical section: an entry is inspected after the unlock; a  *)
(* placeholder is waited for; no entry is reserved.                        *)
Look(c) ==
    LET k == project[c] IN
    /\ Live /\ pc[c] = "look" /\ tries[c] < MaxTries
    /\ tries' = [tries EXCEPT ![c] = @ + 1]
    /\ \/ /\ entry[k] \in ContainerIds
          /\ gc' = [gc EXCEPT ![c] = entry[k]]
          /\ Goto(c, "inspect")
          /\ UNCHANGED entry
       \/ /\ entry[k] = Creating
          /\ UNCHANGED <<entry, gc, pc>>
       \/ /\ entry[k] = Absent
          /\ entry' = [entry EXCEPT ![k] = Creating]
          /\ Goto(c, "mkdir")
          /\ UNCHANGED gc
    /\ UNCHANGED <<dockVars, project, conflict, stolen, server, cleaning, restarts>>

LookTimeout(c) ==
    /\ Live /\ pc[c] = "look" /\ tries[c] = MaxTries
    /\ Standalone(c)
    /\ UNCHANGED <<entry, dockVars, project, gc, tries, conflict, stolen, server, cleaning, restarts>>

Inspect(c) ==
    /\ Live /\ pc[c] = "inspect"
    /\ \E answer \in BOOLEAN :
          /\ IsRunning(project[c], gc[c], answer)
          /\ Goto(c, IF answer THEN "working" ELSE "dead")
    /\ UNCHANGED <<entry, dockVars, project, gc, tries, conflict, stolen, server, cleaning, restarts>>

(* The entry is deleted whatever it is by now, another caller's reservation *)
(* too; the container is not removed.                                      *)
DeleteDead(c) ==
    /\ Live /\ pc[c] = "dead"
    /\ entry' = [entry EXCEPT ![project[c]] = Absent]
    /\ stolen' = IF entry[project[c]] = Creating THEN stolen \cup {project[c]} ELSE stolen
    /\ Goto(c, "look")
    /\ UNCHANGED <<dockVars, project, gc, tries, conflict, server, cleaning, restarts>>

---------------------------------------------------------------------------
(* create.                                                                 *)

MkdirVolume(c) ==
    /\ Live /\ pc[c] = "mkdir"
    /\ volume' = [volume EXCEPT ![project[c]] = TRUE]
    /\ Goto(c, "run")
    /\ UNCHANGED <<entry, current, up, created, project, gc, tries, conflict, stolen, server, cleaning, restarts>>

DockerRun(c) ==
    /\ Live /\ pc[c] = "run"
    /\ current[project[c]] = 0
    /\ created < MaxCreated
    /\ created' = created + 1
    /\ current' = [current EXCEPT ![project[c]] = created + 1]
    /\ up' = [up EXCEPT ![project[c]] = TRUE]
    /\ gc' = [gc EXCEPT ![c] = created + 1]
    /\ Goto(c, "wait")
    /\ UNCHANGED <<entry, volume, project, tries, conflict, stolen, server, cleaning, restarts>>

(* docker run fails: the name is taken, or Docker is at fault, or the      *)
(* context ended; then the container may exist, unknown to the manager.    *)
DockerRunFails(c) ==
    LET k == project[c] IN
    /\ Live /\ pc[c] = "run"
    /\ \/ /\ current[k] # 0
          /\ conflict' = TRUE
          /\ UNCHANGED <<current, up, created>>
       \/ /\ DockerFails
          /\ UNCHANGED <<current, up, created, conflict>>
       \/ /\ DockerFails /\ current[k] = 0 /\ created < MaxCreated
          /\ created' = created + 1
          /\ current' = [current EXCEPT ![k] = created + 1]
          /\ up' = [up EXCEPT ![k] = TRUE]
          /\ UNCHANGED conflict
    /\ Goto(c, "failed")
    /\ UNCHANGED <<stolen, entry, volume, project, gc, tries, server, cleaning, restarts>>

(* waitForAPI and /init, whose error is only printed.                      *)
ApiReady(c) ==
    /\ Live /\ pc[c] = "wait"
    /\ Running(project[c], gc[c])
    /\ Goto(c, "ready")
    /\ UNCHANGED <<entry, dockVars, project, gc, tries, conflict, stolen, server, cleaning, restarts>>

ApiTimeout(c) ==
    /\ Live /\ pc[c] = "wait"
    /\ DockerFails \/ ~Running(project[c], gc[c])
    /\ DockerRemove([k \in {project[c]} |-> gc[c]])
    /\ Goto(c, "failed")
    /\ UNCHANGED <<entry, created, volume, project, gc, tries, conflict, stolen, server, cleaning, restarts>>

(* m.containers[pid] = gc *)
StoreContainer(c) ==
    /\ Live /\ pc[c] = "ready"
    /\ entry' = [entry EXCEPT ![project[c]] = gc[c]]
    /\ Goto(c, "working")
    /\ UNCHANGED <<dockVars, project, gc, tries, conflict, stolen, server, cleaning, restarts>>

(* Mutant: a failed creation keeps its reservation. *)
KeepReservation(c) ==
    /\ Live /\ pc[c] = "failed"
    /\ Standalone(c)
    /\ UNCHANGED <<entry, dockVars, project, gc, tries, conflict, stolen, server, cleaning, restarts>>

(* The error path gives the reservation back.                              *)
DropReservation(c) ==
    /\ Live /\ pc[c] = "failed"
    /\ entry' = [entry EXCEPT ![project[c]] = Absent]
    /\ Standalone(c)
    /\ UNCHANGED <<dockVars, project, gc, tries, conflict, stolen, server, cleaning, restarts>>

(* The worker container has run, with or without the project's volume.     *)
ExecuteReturns(c) ==
    /\ Live /\ pc[c] \in {"working", "standalone"}
    /\ Goto(c, "idle")
    /\ project' = [project EXCEPT ![c] = NoProject]
    /\ gc' = [gc EXCEPT ![c] = 0]
    /\ tries' = [tries EXCEPT ![c] = 0]
    /\ UNCHANGED <<entry, dockVars, conflict, stolen, server, cleaning, restarts>>

Ensure(c) ==
    \/ Look(c) \/ LookTimeout(c) \/ Inspect(c) \/ DeleteDead(c)
    \/ MkdirVolume(c) \/ DockerRun(c) \/ DockerRunFails(c)
    \/ ApiReady(c) \/ ApiTimeout(c) \/ StoreContainer(c) \/ DropReservation(c)

---------------------------------------------------------------------------
(* Shutdown, failures and restarts.                                        *)

(* StopAll removes every container and volume under the mutex.  A nil      *)
(* entry has no ID to read: the goroutine panics, and with it the server,  *)
(* after it has removed the projects it met before.                        *)
StopAll ==
    /\ Live /\ MayStop
    /\ \E S \in SUBSET {k \in Projects : entry[k] \in ContainerIds} :
          /\ \/ /\ \E k \in Projects : entry[k] = Creating
                /\ server' = "panicked"
             \/ /\ S = {k \in Projects : entry[k] # Absent}
                /\ UNCHANGED server
          /\ entry' = [k \in Projects |-> IF k \in S THEN Absent ELSE entry[k]]
          /\ volume' = [k \in Projects |-> volume[k] /\ k \notin S]
          /\ DockerRemove([k \in S |-> entry[k]])
    /\ UNCHANGED <<created, callVars, conflict, stolen, cleaning, restarts>>

(* Cleanup takes the entry out under the mutex, a nil one too, and removes *)
(* container and volume after it.                                          *)
Cleanup(k) ==
    /\ Live /\ MayCleanup
    /\ entry[k] # Absent
    /\ entry' = [entry EXCEPT ![k] = Absent]
    /\ IF entry[k] = Creating
       THEN server' = "panicked" /\ UNCHANGED cleaning
       ELSE cleaning' = cleaning \cup {<<k, entry[k]>>} /\ UNCHANGED server
    /\ UNCHANGED <<dockVars, callVars, conflict, stolen, restarts>>

CleanupRemoves ==
    /\ Live
    /\ \E x \in cleaning :
          /\ DockerRemove([k \in {x[1]} |-> x[2]])
          /\ volume' = [volume EXCEPT ![x[1]] = FALSE]
          /\ cleaning' = cleaning \ {x}
    /\ UNCHANGED <<entry, created, callVars, conflict, stolen, server, restarts>>

(* A container exits: its name stays taken until somebody removes it.      *)
ContainerExits(k) ==
    /\ MayDie
    /\ current[k] # 0 /\ up[k]
    /\ up' = [up EXCEPT ![k] = FALSE]
    /\ UNCHANGED <<entry, current, created, volume, callVars, conflict, stolen, server, cleaning, restarts>>

(* The server dies and starts again: the map is lost, Docker's state is not. *)
Restart ==
    /\ restarts < MaxRestarts
    /\ restarts' = restarts + 1
    /\ server' = "up"
    /\ cleaning' = {} /\ stolen' = {}
    /\ entry' = [k \in Projects |-> Absent]
    /\ pc' = [c \in Callers |-> "idle"]
    /\ project' = [c \in Callers |-> NoProject]
    /\ gc' = [c \in Callers |-> 0]
    /\ tries' = [c \in Callers |-> 0]
    /\ UNCHANGED <<dockVars, conflict>>

GitNext ==
    \/ \E c \in Callers : Execute(c) \/ Ensure(c) \/ ExecuteReturns(c)
    \/ \E k \in Projects : ContainerExits(k) \/ Cleanup(k)
    \/ StopAll \/ CleanupRemoves \/ Restart

GitSpec == GitInit /\ [][GitNext]_gitVars

(* A goroutine inside Ensure is scheduled, and Docker and the container's  *)
(* API answer or fail.                                                     *)
GitFairness == \A c \in Callers : WF_gitVars(Ensure(c))

---------------------------------------------------------------------------
GitTypeOK ==
    /\ entry \in [Projects -> {Absent, Creating} \cup ContainerIds]
    /\ current \in [Projects -> 0 .. MaxCreated]
    /\ up \in [Projects -> BOOLEAN]
    /\ created \in 0 .. MaxCreated
    /\ volume \in [Projects -> BOOLEAN]
    /\ pc \in [Callers -> {"idle", "look", "inspect", "dead", "mkdir", "run", "wait",
                           "ready", "failed", "working", "standalone"}]
    /\ project \in [Callers -> Projects \cup {NoProject}]
    /\ gc \in [Callers -> 0 .. MaxCreated]
    /\ tries \in [Callers -> 0 .. MaxTries]
    /\ conflict \in BOOLEAN /\ stolen \subseteq Projects
    /\ server \in {"up", "panicked"}
    /\ cleaning \subseteq Projects \X ContainerIds
    /\ restarts \in 0 .. MaxRestarts

CreatorsOf(k) ==
    {c \in Callers : project[c] = k /\ pc[c] \in {"mkdir", "run", "wait", "ready", "failed"}}

(* The nil placeholder reserves a project: of the callers that find no     *)
(* entry one creates the container, however creations, docker inspect and  *)
(* docker rm fail and containers exit.  What breaks it is the deletion of  *)
(* the placeholder by a caller that inspected what was there before it     *)
(* (manager.go:87), and nothing else.                                      *)
OneCreator ==
    \A k \in Projects \ stolen : \A c, d \in CreatorsOf(k) : c = d

(* An entry never names a container that somebody has replaced or that its *)
(* creator has removed again, though containers exit, callers delete       *)
(* entries they no longer know, several create, and StopAll and restarts   *)
(* come in between.                                                        *)
EntryIsCurrent ==
    \A k \in Projects : entry[k] \in ContainerIds => current[k] = entry[k]

(* A creator that gives up removes its container, whether or not it has    *)
(* lost the reservation: no other caller was ever given that one.          *)
RemovedIsOwn ==
    \A c, d \in Callers :
        c # d /\ pc[c] = "wait" /\ pc[d] \in {"wait", "ready", "working"} => gc[c] # gc[d]

(* Callers, StopAll, dead containers, failing commands and restarts        *)
(* together: a project has one creator, an entry that is its container,    *)
(* and nobody loses the container it was given to somebody else's failed   *)
(* creation (manager.go:87, 99, 169).                                      *)
OneContainer == OneCreator /\ EntryIsCurrent /\ RemovedIsOwn

---------------------------------------------------------------------------
(* The inductive invariant behind OneContainer.                            *)

(* Where a caller's container is not stored yet.                           *)
HasOwn(c) == pc[c] \in {"wait", "ready"}

(* Where a caller knows a container.                                       *)
Knows(c) == pc[c] \in {"wait", "ready", "inspect", "working"}

(* A container that is created and not stored belongs to its creator: it   *)
(* has the project's name, and neither the map, nor a Cleanup under way,   *)
(* nor another caller knows it.                                            *)
OwnInv ==
    \A c \in Callers :
        /\ pc[c] # "idle" => project[c] \in Projects
        /\ HasOwn(c) =>
              /\ gc[c] \in ContainerIds /\ current[project[c]] = gc[c]
              /\ \A k \in Projects : entry[k] # gc[c] /\ <<k, gc[c]>> \notin cleaning
              /\ \A d \in Callers \ {c} : Knows(d) => gc[d] # gc[c]

(* Every number that is in use was given out, so the next one is new; an   *)
(* entry that Cleanup took out does not come back.                         *)
NumbersInv ==
    /\ \A k \in Projects : entry[k] \in ContainerIds => entry[k] <= created
    /\ \A c \in Callers : Knows(c) => gc[c] <= created
    /\ \A x \in cleaning : x[2] <= created /\ entry[x[1]] # x[2]

(* A creator whose reservation nobody deleted still holds it, so nobody    *)
(* else finds the entry absent.                                            *)
ReservedInv ==
    Live => \A k \in Projects \ stolen : CreatorsOf(k) # {} => entry[k] = Creating

GitInv == GitTypeOK /\ OwnInv /\ NumbersInv /\ ReservedInv /\ OneContainer

---------------------------------------------------------------------------
(* Liveness.                                                               *)

(* A reservation never outlives its creator: whatever fails, the project   *)
(* gets a container or is free for the next caller, unless the server      *)
(* panics.                                                                 *)
ReservationResolved ==
    \A k \in Projects : entry[k] = Creating ~> (entry[k] # Creating \/ ~Live)

---------------------------------------------------------------------------
(* What the comments of the code say; the code does not keep it.           *)

(* "Ensure returns (or creates) a Git container": it never asks Docker for *)
(* a name that one of the manager's own containers has.                    *)
NoNameConflict == ~conflict

(* "StopAll destroys all managed containers": it does not bring the server *)
(* down because one of them is being created.                              *)
StopAllReturns == server # "panicked"

(* "Workers share the container's volume": the directory mounted into a    *)
(* worker is not deleted while the worker runs; main calls StopAll before  *)
(* it stops the scheduler and with it the workers.                         *)
WorkersKeepVolume ==
    \A c \in Callers : Live /\ pc[c] = "working" => volume[project[c]]
===========================================================================
