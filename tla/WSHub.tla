------------------------------- MODULE WSHub --------------------------------
(***************************************************************************)
(* The WebSocket hub (internal/gateway/ws/hub.go, client.go).              *)
(*                                                                         *)
(* The consumer of the Redis stream feeds eventCh; the hub's loop takes    *)
(* registrations, leavers and events one at a time; every client has a     *)
(* reader (readPump) and a writer (writePump).  Other goroutines push      *)
(* events into rooms directly.  A section under a lock is one step.        *)
(***************************************************************************)
EXTENDS Naturals, Sequences

CONSTANTS
    Clients,     \* calls of ServeWS
    Rooms,       \* task ids
    MaxEvents,   \* bound: events on the stream
    MaxPushes,   \* bound: events pushed and messages read
    EventChSize, \* eventCh's buffer, 1024 in the code
    SendSize,    \* ClientSendBufferSize
    NoRoom

ASSUME HubAssumption ==
    /\ NoRoom \notin Rooms /\ EventChSize \in Nat \ {0} /\ SendSize \in Nat \ {0}
    /\ MaxEvents \in Nat /\ MaxPushes \in Nat

VARIABLES
    streamed,   \* the rooms of the events on the Redis stream, in order
    fetched,    \* how many of them the consumer has passed on
    eventCh,    \* the numbers of the events that wait for the loop
    members,    \* members[r]: Room.clients
    clients,    \* Hub.clients
    joining,    \* the registration the loop is in: <<client, room>>, or <<>>
    dropping,   \* the leaver the loop is at: <<client, what is next>>, or <<>>
    collected, closing, \* Stop has emptied clients, and is to close the channels of these
    taskID,     \* taskID[c]: Client.taskID
    reader,     \* reader[c]: where ServeWS and readPump are
    moving,     \* moving[c]: the room handleSubscribe is about to join, or NoRoom
    authenticated,
    send,       \* send[c]: the channel's content; 0 is a reply, others are events
    sendClosed, \* the clients whose channel is closed
    got,        \* got[c]: the last event of the stream written to the peer
    hub,        \* "running", "stopping" (context cancelled), "stopped" (loop and consumer ended)
    panicked,   \* a message was sent to a closed channel
    overtaken,  \* the clients that joined a room before their registration did
    pushes      \* how many messages were read and pushed

streamVars == <<streamed, fetched, eventCh>>
stopVars == <<collected, closing>>
roomVars == <<members, clients, joining, dropping, stopVars>>
clientVars == <<taskID, reader, moving, authenticated>>
sendVars == <<send, sendClosed, panicked>>
hubVars == <<streamVars, roomVars, clientVars, sendVars, got, hub, overtaken, pushes>>

HubInit ==
    /\ streamed = <<>> /\ fetched = 0 /\ eventCh = <<>>
    /\ members = [r \in Rooms |-> {}] /\ clients = {} /\ joining = <<>> /\ dropping = <<>>
    /\ collected = FALSE /\ closing = {}
    /\ taskID \in [Clients -> Rooms]
    /\ reader = [c \in Clients |-> "offered"] /\ moving = [c \in Clients |-> NoRoom]
    /\ authenticated = {}
    /\ send = [c \in Clients |-> <<>>] /\ sendClosed = {} /\ panicked = FALSE
    /\ got = [c \in Clients |-> 0]
    /\ hub = "running" /\ overtaken = {} /\ pushes = 0

(* select { case c.send <- data: default: }: a full buffer drops it, a closed *)
(* channel panics.                                                           *)
Offer(cs, m) ==
    /\ send' = [c \in Clients |->
                  IF c \in cs \ sendClosed /\ Len(send[c]) < SendSize
                    THEN Append(send[c], m) ELSE send[c]]
    /\ panicked' = (panicked \/ cs \cap sendClosed # {})

CountPush == pushes < MaxPushes /\ pushes' = pushes + 1

-----------------------------------------------------------------------------
(* The stream.                                                               *)

XAdd(r) ==
    /\ Len(streamed) < MaxEvents
    /\ streamed' = Append(streamed, r)
    /\ UNCHANGED <<fetched, eventCh, roomVars, clientVars, sendVars, got, hub,
                   overtaken, pushes>>

(* XReadGroup with ">" reads what is new, once; the consumer blocks while    *)
(* eventCh is full.                                                          *)
ConsumeStream ==
    /\ hub # "stopped" /\ fetched < Len(streamed) /\ Len(eventCh) < EventChSize
    /\ fetched' = fetched + 1
    /\ eventCh' = Append(eventCh, fetched + 1)
    /\ UNCHANGED <<streamed, roomVars, clientVars, sendVars, got, hub, overtaken, pushes>>

-----------------------------------------------------------------------------
(* The loop of the hub.                                                      *)

(* Mutant: Broadcast waits for every client of the room, and the loop with it. *)
LoopBlocks ==
    /\ hub # "stopped" /\ joining = <<>> /\ dropping = <<>>
    /\ eventCh # <<>> =>
          \A c \in members[streamed[Head(eventCh)]] \ sendClosed : Len(send[c]) < SendSize

LoopFree == hub # "stopped" /\ joining = <<>> /\ dropping = <<>>

(* ServeWS has upgraded the connection and waits at registerCh. *)
Offered(c) == reader[c] = "offered"

(* The rendezvous on registerCh: ServeWS offers the client and goes on to    *)
(* Run it.                                                                   *)
RegisterClient(c) ==
    /\ LoopFree /\ Offered(c)
    /\ clients' = clients \cup {c}
    /\ joining' = <<c, NoRoom>>
    /\ reader' = [reader EXCEPT ![c] = "reading"]
    /\ UNCHANGED <<streamVars, members, dropping, stopVars, taskID, moving, authenticated, sendVars, got, hub, overtaken, pushes>>

(* getOrCreateRoom(client.taskID): the client may be changing it. *)
GetOrCreateRoom ==
    /\ joining # <<>> /\ joining[2] = NoRoom
    /\ joining' = [joining EXCEPT ![2] = taskID[joining[1]]]
    /\ UNCHANGED <<streamVars, members, clients, dropping, stopVars, clientVars, sendVars, got, hub, overtaken, pushes>>

RoomAdd ==
    /\ joining # <<>> /\ joining[2] # NoRoom
    /\ members' = [members EXCEPT ![joining[2]] = @ \cup {joining[1]}]
    /\ joining' = <<>>
    /\ UNCHANGED <<streamVars, clients, dropping, stopVars, clientVars, sendVars, got, hub, overtaken, pushes>>

(* The rendezvous on unregisterCh.  The client leaves the map; one that is   *)
(* not there any more was unregistered before.                               *)
UnregisterClient(c) ==
    /\ LoopFree /\ reader[c] = "leaving"
    /\ clients' = clients \ {c}
    /\ dropping' = IF c \in clients THEN <<c, "room">> ELSE <<>>
    /\ reader' = [reader EXCEPT ![c] = "gone"]
    /\ UNCHANGED <<streamVars, members, joining, stopVars, taskID, moving, authenticated, sendVars,
                   got, hub, overtaken, pushes>>

(* Mutant: the client leaves its room after its channel is closed. *)
CloseThenRemove(step) ==
    /\ dropping # <<>> /\ dropping[2] = step
    /\ IF step = "room"
         THEN sendClosed' = sendClosed \cup {dropping[1]} /\ UNCHANGED members
         ELSE members' = [members EXCEPT ![taskID[dropping[1]]] = @ \ {dropping[1]}] /\ UNCHANGED sendClosed
    /\ dropping' = IF step = "room" THEN <<dropping[1], "close">> ELSE <<>>
    /\ UNCHANGED <<streamVars, clients, joining, stopVars, clientVars, send, panicked, got, hub,
                   overtaken, pushes>>

(* It leaves its room, and then its channel is closed.                       *)
DropClient(step) ==
    /\ dropping # <<>> /\ dropping[2] = step
    /\ IF step = "room"
         THEN members' = [members EXCEPT ![taskID[dropping[1]]] = @ \ {dropping[1]}] /\ UNCHANGED sendClosed
         ELSE sendClosed' = sendClosed \cup {dropping[1]} /\ UNCHANGED members
    /\ dropping' = IF step = "room" THEN <<dropping[1], "close">> ELSE <<>>
    /\ UNCHANGED <<streamVars, clients, joining, stopVars, clientVars, send, panicked, got, hub,
                   overtaken, pushes>>

(* Broadcast to the room of the event; unknown event types are skipped. *)
HandleStreamEvent ==
    /\ LoopFree /\ eventCh # <<>>
    /\ eventCh' = Tail(eventCh)
    /\ \/ Offer(members[streamed[Head(eventCh)]], Head(eventCh))
       \/ UNCHANGED <<send, panicked>>
    /\ UNCHANGED <<streamed, fetched, roomVars, clientVars, sendClosed, got, hub, overtaken, pushes>>

(* pushEvent, PushApprovalRequired and BroadcastToAll, by any goroutine and  *)
(* also after Stop.  What they push is not of the stream.                    *)
PushEvent(rs) ==
    /\ CountPush
    /\ Offer(UNION {members[r] : r \in rs}, 0)
    /\ UNCHANGED <<streamVars, roomVars, clientVars, sendClosed, got, hub, overtaken>>

(* Stop cancels the context,                                                 *)
HubStop ==
    /\ hub = "running"
    /\ hub' = "stopping"
    /\ UNCHANGED <<streamVars, roomVars, clientVars, sendVars, got, overtaken, pushes>>

(* takes all clients out of the map,                                         *)
StopCollects ==
    /\ hub # "running" /\ ~collected
    /\ collected' = TRUE /\ closing' = clients /\ clients' = {}
    /\ UNCHANGED <<streamVars, members, joining, dropping, clientVars, sendVars, got, hub, overtaken, pushes>>

(* and closes their channels, one after another; they stay in their rooms.   *)
StopCloses(c) ==
    /\ c \in closing
    /\ closing' = closing \ {c} /\ sendClosed' = sendClosed \cup {c}
    /\ UNCHANGED <<streamVars, members, clients, joining, dropping, collected, clientVars, send, panicked,
                   got, hub, overtaken, pushes>>

(* The loop and the consumer see the cancelled context. *)
HubRunReturns ==
    /\ hub = "stopping" /\ joining = <<>> /\ dropping = <<>>
    /\ hub' = "stopped"
    /\ UNCHANGED <<streamVars, roomVars, clientVars, sendVars, got, overtaken, pushes>>

-----------------------------------------------------------------------------
(* A client.                                                                 *)

Idle(c) == reader[c] = "reading" /\ moving[c] = NoRoom

(* handleAuth; a second time is answered with an error, like HandlePing. *)
HandleAuth(c) ==
    /\ Idle(c) /\ c \notin authenticated
    /\ authenticated' = authenticated \cup {c}
    /\ Offer({c}, 0)
    /\ UNCHANGED <<streamVars, roomVars, taskID, reader, moving, sendClosed, got, hub, overtaken,
                   pushes>>

(* handlePing, and every message that is answered with an error. *)
HandlePing(c) ==
    /\ Idle(c) /\ CountPush
    /\ Offer({c}, 0)
    /\ UNCHANGED <<streamVars, roomVars, clientVars, sendClosed, got, hub, overtaken>>

(* handleSubscribe leaves the room and joins the other, in two sections. *)
HandleSubscribe(c, r) ==
    /\ Idle(c) /\ c \in authenticated /\ CountPush
    /\ r # taskID[c]
    /\ members' = [members EXCEPT ![taskID[c]] = @ \ {c}]
    /\ taskID' = [taskID EXCEPT ![c] = r]
    /\ moving' = [moving EXCEPT ![c] = r]
    /\ overtaken' = IF joining # <<>> /\ joining[1] = c THEN overtaken \cup {c} ELSE overtaken
    /\ UNCHANGED <<streamVars, clients, joining, dropping, stopVars, reader, authenticated, sendVars, got, hub>>

JoinRoom(c) ==
    /\ moving[c] # NoRoom
    /\ members' = [members EXCEPT ![moving[c]] = @ \cup {c}]
    /\ moving' = [moving EXCEPT ![c] = NoRoom]
    /\ Offer({c}, 0)
    /\ UNCHANGED <<streamVars, clients, joining, dropping, stopVars, taskID, reader, authenticated, sendClosed,
                   got, hub, overtaken, pushes>>

(* The read fails: the peer left, no pong came, or the writer closed the     *)
(* connection.  The reader then waits for the loop.                          *)
ReadFails(c) ==
    /\ Idle(c)
    /\ reader' = [reader EXCEPT ![c] = "leaving"]
    /\ UNCHANGED <<streamVars, roomVars, taskID, moving, authenticated, sendVars, got, hub,
                   overtaken, pushes>>

(* All that is queued goes into one frame, also what was queued before the  *)
(* channel was closed.  A writer that failed takes no more steps.            *)
WritePump(c) ==
    /\ ~Offered(c) /\ send[c] # <<>>
    /\ \E last \in {got[c]} \cup {send[c][i] : i \in DOMAIN send[c]} :
          /\ got[c] <= last /\ \A i \in DOMAIN send[c] : send[c][i] <= last
          /\ got' = [got EXCEPT ![c] = last]
    /\ send' = [send EXCEPT ![c] = <<>>]
    /\ UNCHANGED <<streamVars, roomVars, clientVars, sendClosed, panicked, hub, overtaken, pushes>>

-----------------------------------------------------------------------------
HubLoop ==
    \/ \E c \in Clients : RegisterClient(c) \/ UnregisterClient(c)
    \/ GetOrCreateRoom \/ RoomAdd \/ DropClient("room") \/ DropClient("close")
    \/ HandleStreamEvent \/ HubRunReturns

(* A panic ends the server. *)
HubNext ==
    /\ ~panicked
    /\ \/ HubLoop \/ HubStop \/ StopCollects \/ ConsumeStream \/ PushEvent(Rooms)
       \/ \E r \in Rooms : XAdd(r) \/ PushEvent({r})
       \/ \E c \in Clients :
             \/ HandleAuth(c) \/ HandlePing(c) \/ JoinRoom(c) \/ ReadFails(c) \/ WritePump(c)
             \/ StopCloses(c)
             \/ \E r \in Rooms : HandleSubscribe(c, r)

HubSpec == HubInit /\ [][HubNext]_hubVars

(* select picks at random among what is ready, so a leaver that stays ready  *)
(* is picked.                                                                *)
HubFairness ==
    /\ WF_hubVars(GetOrCreateRoom \/ RoomAdd \/ DropClient("room") \/ DropClient("close") \/ HubRunReturns)
    /\ WF_hubVars(HandleStreamEvent)
    /\ \A c \in Clients : SF_hubVars(UnregisterClient(c)) /\ WF_hubVars(JoinRoom(c))

-----------------------------------------------------------------------------
HubTypeOK ==
    /\ members \in [Rooms -> SUBSET Clients] /\ clients \subseteq Clients
    /\ taskID \in [Clients -> Rooms]
    /\ reader \in [Clients -> {"offered", "reading", "leaving", "gone"}]
    /\ moving \in [Clients -> Rooms \cup {NoRoom}]
    /\ \A c \in Clients : Len(send[c]) <= SendSize
    /\ Len(eventCh) <= EventChSize
    /\ hub \in {"running", "stopping", "stopped"}

(* While the hub serves, no goroutine sends to a channel that was closed,    *)
(* which would take the server down, although pushes, subscriptions and      *)
(* leavers cross; but for clients that overtook their own registration.      *)
NoSendAfterClose == panicked => hub # "running" \/ overtaken # {}

(* It is in one room at most, and in its task's when it is settled. *)
OneRoom(c) ==
    \A r \in Rooms :
        /\ c \in members[r] => r = taskID[c]
        /\ (Idle(c) /\ (joining = <<>> \/ joining[1] # c)) => c \in members[taskID[c]]

InOrder(c) ==
    \A i, j \in 1 .. SendSize :
        (i < j /\ j <= Len(send[c])) =>
            /\ (send[c][i] # 0 /\ send[c][j] # 0) => send[c][i] < send[c][j]
            /\ send[c][i] # 0 => got[c] < send[c][i]

(* A client gets the events of one task, in the order of the stream and each *)
(* once, through full buffers, batches of the writer and changes of the      *)
(* room.                                                                     *)
ClientStream == \A c \in Clients : InOrder(c) /\ (c \in clients \ overtaken => OneRoom(c))

(* Every client that is served gets its task's events in order, and nothing  *)
(* is sent to a client that is gone (hub.go:370, client.go:258).             *)
HubDelivery == NoSendAfterClose /\ ClientStream

(* A client that is gone is taken out of the hub while the hub serves: the   *)
(* loop takes it from the unbuffered channel, whatever else it has to do,    *)
(* and closes its channel, which ends its writer (client.go:86, 134).        *)
LeaversAreUnregistered ==
    \A c \in Clients : (reader[c] = "leaving") ~> (c \in sendClosed \/ hub # "running")

-----------------------------------------------------------------------------
(* The inductive invariant behind HubDelivery.                               *)

HubFunctions ==
    /\ streamed \in Seq(Rooms) /\ fetched \in 0 .. Len(streamed) /\ eventCh \in Seq(Nat)
    /\ members \in [Rooms -> SUBSET Clients] /\ clients \subseteq Clients
    /\ joining \in {<<>>} \cup (Clients \X (Rooms \cup {NoRoom}))
    /\ dropping \in {<<>>} \cup (Clients \X {"room", "close"}) /\ closing \subseteq Clients
    /\ taskID \in [Clients -> Rooms] /\ moving \in [Clients -> Rooms \cup {NoRoom}]
    /\ reader \in [Clients -> {"offered", "reading", "leaving", "gone"}]
    /\ send \in [Clients -> Seq(Nat)] /\ got \in [Clients -> Nat]

Joins(c) == joining # <<>> /\ joining[1] = c
Drops(c) == dropping # <<>> /\ dropping[1] = c

(* The events that the loop has handled; those that wait for it follow them  *)
(* without a gap, and all that was sent or written is among them.            *)
Handled == fetched - Len(eventCh)

QueueInv ==
    /\ Len(eventCh) <= fetched
    /\ \A i \in DOMAIN eventCh : eventCh[i] = Handled + i

OrderInv(c) ==
    /\ got[c] <= Handled
    /\ \A i \in DOMAIN send[c] : send[c][i] <= Handled /\ (send[c][i] # 0 => got[c] < send[c][i])
    /\ \A i, j \in DOMAIN send[c] :
          i < j /\ send[c][i] # 0 /\ send[c][j] # 0 => send[c][i] < send[c][j]

(* A client that was not accepted yet is nowhere; one that moves, or whose   *)
(* registration is under way, is served by its reader.                       *)
ReaderInv(c) ==
    /\ reader[c] = "offered" => c \notin clients \cup sendClosed \cup closing /\ \A r \in Rooms : c \notin members[r]
    /\ moving[c] # NoRoom => reader[c] = "reading" /\ moving[c] = taskID[c]
    /\ Joins(c) => reader[c] \in {"reading", "leaving"}
    /\ c \in clients => reader[c] \in {"reading", "leaving"}
    /\ Drops(c) => reader[c] = "gone" /\ c \notin clients
    /\ c \in closing => hub # "running"

(* Where a client is that did not overtake its registration: nowhere while   *)
(* it joins or moves, in its task's room, and only there, when it is served; *)
(* and nowhere again before its channel is closed.                           *)
PlaceInv(c) ==
    c \notin overtaken =>
        /\ Joins(c) =>
              /\ moving[c] = NoRoom /\ joining[2] \in {NoRoom, taskID[c]}
              /\ \A r \in Rooms : c \notin members[r]
        /\ c \in clients /\ ~Joins(c) =>
              \A r \in Rooms : c \in members[r] <=> (r = taskID[c] /\ moving[c] = NoRoom)
        /\ Drops(c) => \A r \in Rooms : c \in members[r] => dropping[2] = "room" /\ r = taskID[c]
        /\ hub = "running" /\ c \in sendClosed =>
              reader[c] = "gone" /\ \A r \in Rooms : c \notin members[r]

HubInv ==
    /\ HubFunctions /\ QueueInv /\ NoSendAfterClose
    /\ \A c \in Clients : OrderInv(c) /\ ReaderInv(c) /\ PlaceInv(c)

-----------------------------------------------------------------------------
(* What the comments of the code say; the code does not keep it.             *)

(* "Gracefully stops": Stop makes nobody panic. *)
StopIsGraceful == overtaken = {} => ~panicked

(* "guard against double-close": and a panic on the hub is kept out. *)
NeverPanics == hub = "running" => ~panicked
=============================================================================
