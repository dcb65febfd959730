--------------------------- MODULE GatewayProofs ---------------------------
(***************************************************************************)
(* Proofs about the ways into the platform: the WebSocket hub, and the     *)
(* tools that reach the gateway from elsewhere.                            *)
(***************************************************************************)
EXTENDS WSHub, RemoteTools, TLAPS

-----------------------------------------------------------------------------
(* The WebSocket hub.                                                        *)

(* A queue of events above g and up to h, in order, with replies in between. *)
Sorted(q, g, h) ==
  /\ \A i \in DOMAIN q : q[i] <= h /\ (q[i] # 0 => g < q[i])
  /\ \A i, j \in DOMAIN q : i < j /\ q[i] # 0 /\ q[j] # 0 => q[i] < q[j]

(* It stays one with a reply, or an event above h, at its end. *)
LEMMA AppendSorted ==
  ASSUME NEW q \in Seq(Nat), NEW g \in Nat, NEW h \in Nat, g <= h, Sorted(q, g, h),
         NEW m \in Nat, NEW k \in Nat, h <= k, m <= k, m = 0 \/ h < m
  PROVE  Append(q, m) \in Seq(Nat) /\ Sorted(Append(q, m), g, k)
<1> DEFINE p == Append(q, m)
<1>1. /\ p \in Seq(Nat) /\ Len(q) \in Nat /\ DOMAIN q = 1 .. Len(q) /\ DOMAIN p = 1 .. Len(q) + 1
      /\ p[Len(q) + 1] = m /\ \A i \in DOMAIN q : p[i] = q[i] /\ q[i] \in Nat
    OBVIOUS
<1> HIDE DEF p
<1>2. \A i \in DOMAIN p : (i \in DOMAIN q /\ p[i] = q[i]) \/ (i = Len(q) + 1 /\ p[i] = m)
    BY <1>1
<1>3. ASSUME NEW i \in DOMAIN p PROVE p[i] <= k /\ (p[i] # 0 => g < p[i])
    BY <1>1, <1>2 DEF Sorted
<1>4. ASSUME NEW i \in DOMAIN p, NEW j \in DOMAIN p, i < j, p[i] # 0, p[j] # 0 PROVE p[i] < p[j]
  <2>1. i \in DOMAIN q /\ p[i] = q[i] /\ q[i] \in Nat /\ q[i] <= h
    BY <1>1, <1>2, <1>4 DEF Sorted
  <2>2. CASE j \in DOMAIN q /\ p[j] = q[j]
    BY <1>4, <2>1, <2>2 DEF Sorted
  <2>3. CASE p[j] = m
    BY <1>4, <2>1, <2>3
  <2> QED
    BY <1>2, <2>2, <2>3
<1>5. Sorted(p, g, k)
    BY <1>3, <1>4 DEF Sorted
<1> QED
    BY <1>1, <1>5 DEF p

(* What is waiting, sent and written stays. *)
LEMMA OrdersStay ==
  ASSUME HubInv, UNCHANGED <<fetched, eventCh, send, got>>
  PROVE  QueueInv' /\ \A c \in Clients : OrderInv(c)'
    BY DEF HubInv, QueueInv, OrderInv, Handled

(* Where the clients are stays. *)
LEMMA PlacesStay ==
  ASSUME HubInv, UNCHANGED <<members, clients, joining, dropping, closing, taskID, reader, moving, sendClosed, hub,
                             overtaken>>
  PROVE  \A c \in Clients : ReaderInv(c)' /\ PlaceInv(c)'
    BY DEF HubInv, ReaderInv, PlaceInv, Joins, Drops

(* A reply, or an event that is not of the stream, disturbs no order. *)
LEMMA ReplyKeepsOrder ==
  ASSUME HubInv, NEW cs, Offer(cs, 0), UNCHANGED <<fetched, eventCh, got>>
  PROVE  send' \in [Clients -> Seq(Nat)] /\ QueueInv' /\ \A c \in Clients : OrderInv(c)'
<1>1. /\ send \in [Clients -> Seq(Nat)] /\ got \in [Clients -> Nat] /\ fetched \in Nat /\ eventCh \in Seq(Nat)
      /\ Len(eventCh) \in Nat /\ Len(streamed) \in Nat
  <2>1. streamed \in Seq(Rooms) /\ eventCh \in Seq(Nat) /\ fetched \in 0 .. Len(streamed)
    BY DEF HubInv, HubFunctions
  <2>2. Len(streamed) \in Nat /\ Len(eventCh) \in Nat
    BY <2>1
  <2> QED
    BY <2>1, <2>2 DEF HubInv, HubFunctions
<1>2. ASSUME NEW c \in Clients PROVE send'[c] \in {send[c], Append(send[c], 0)}
    BY DEF Offer
<1>3. send' \in [Clients -> Seq(Nat)]
  <2>1. ASSUME NEW c \in Clients PROVE send'[c] \in Seq(Nat)
    <3>1. send[c] \in Seq(Nat) /\ Append(send[c], 0) \in Seq(Nat)
      BY <1>1
    <3> QED
      BY <1>2, <3>1
  <2> QED
    BY <2>1 DEF Offer
<1>4. QueueInv' /\ Handled' = Handled /\ Handled \in Nat
    BY <1>1 DEF HubInv, QueueInv, Handled
<1>5. ASSUME NEW c \in Clients PROVE OrderInv(c)'
  <2>1. OrderInv(c) /\ got'[c] = got[c] /\ send[c] \in Seq(Nat)
    BY <1>1 DEF HubInv
  <2>2. CASE send'[c] = send[c]
    BY <1>4, <2>1, <2>2 DEF OrderInv
  <2>3. CASE send'[c] = Append(send[c], 0)
    <3>1. got[c] \in Nat /\ got[c] <= Handled /\ Sorted(send[c], got[c], Handled)
      BY <1>1, <2>1 DEF OrderInv, Sorted
    <3>2. Sorted(send'[c], got[c], Handled)
      BY <1>4, <2>1, <2>3, <3>1, AppendSorted
    <3> QED
      BY <1>4, <2>1, <3>1, <3>2 DEF OrderInv, Sorted
  <2> QED
    BY <1>2, <2>2, <2>3
<1> QED
    BY <1>3, <1>4, <1>5

(* The event at the head of the queue is later than all that was sent. *)
LEMMA EventKeepsOrder ==
  ASSUME HubInv, eventCh # <<>>, eventCh' = Tail(eventCh), UNCHANGED <<fetched, got>>,
         send' = send \/ \E cs : Offer(cs, Head(eventCh))
  PROVE  /\ eventCh' \in Seq(Nat) /\ send' \in [Clients -> Seq(Nat)] /\ QueueInv'
         /\ \A c \in Clients : OrderInv(c)'
<1> DEFINE m == Head(eventCh)
<1>1. /\ send \in [Clients -> Seq(Nat)] /\ got \in [Clients -> Nat] /\ fetched \in Nat /\ eventCh \in Seq(Nat)
      /\ Len(eventCh) \in Nat \ {0} /\ Len(streamed) \in Nat
  <2>1. streamed \in Seq(Rooms) /\ eventCh \in Seq(Nat) /\ fetched \in 0 .. Len(streamed)
    BY DEF HubInv, HubFunctions
  <2>2. Len(streamed) \in Nat /\ Len(eventCh) \in Nat \ {0}
    BY <2>1
  <2> QED
    BY <2>1, <2>2 DEF HubInv, HubFunctions
<1>2. /\ eventCh' \in Seq(Nat) /\ Len(eventCh') = Len(eventCh) - 1 /\ m = eventCh[1] /\ 1 \in DOMAIN eventCh
      /\ \A i \in DOMAIN eventCh' : eventCh'[i] = eventCh[i + 1] /\ i + 1 \in DOMAIN eventCh
    BY <1>1
<1>3. Handled \in Nat /\ Handled' = Handled + 1 /\ m = Handled + 1 /\ Len(eventCh') <= fetched
    BY <1>1, <1>2 DEF HubInv, QueueInv, Handled
<1>4. QueueInv'
  <2>1. \A i \in DOMAIN eventCh' : eventCh'[i] = Handled + (i + 1) /\ i \in Nat
    BY <1>1, <1>2 DEF HubInv, QueueInv
  <2> QED
    BY <1>3, <2>1 DEF QueueInv
<1> HIDE DEF m
<1>5. ASSUME NEW c \in Clients PROVE send'[c] \in {send[c], Append(send[c], m)}
    BY DEF Offer, m
<1>6. send' \in [Clients -> Seq(Nat)]
  <2>1. ASSUME NEW c \in Clients PROVE send'[c] \in Seq(Nat)
    <3>1. send[c] \in Seq(Nat) /\ m \in Nat
      BY <1>1, <1>3
    <3>2. Append(send[c], m) \in Seq(Nat)
      BY <3>1
    <3> QED
      BY <1>5, <3>1, <3>2
  <2>2. send' = send \/ send' = [c \in Clients |-> send'[c]]
    BY DEF Offer
  <2> QED
    BY <1>1, <2>1, <2>2
<1>7. ASSUME NEW c \in Clients PROVE OrderInv(c)'
  <2>1. OrderInv(c) /\ got'[c] = got[c] /\ send[c] \in Seq(Nat) /\ got[c] \in Nat
    BY <1>1 DEF HubInv
  <2>2. CASE send'[c] = send[c]
    BY <1>3, <2>1, <2>2 DEF OrderInv
  <2>3. CASE send'[c] = Append(send[c], m)
    <3>1. got[c] <= Handled /\ Sorted(send[c], got[c], Handled)
      BY <2>1 DEF OrderInv, Sorted
    <3>2. m \in Nat /\ Handled' \in Nat /\ Handled <= Handled' /\ m <= Handled' /\ Handled < m
      BY <1>3
    <3>3. Sorted(send'[c], got[c], Handled')
      BY <1>3, <2>1, <2>3, <3>1, <3>2, AppendSorted
    <3>4. got[c] <= Handled'
      BY <1>3, <2>1, <3>1
    <3> QED
      BY <2>1, <3>3, <3>4 DEF OrderInv, Sorted
  <2> QED
    BY <1>5, <2>2, <2>3
<1> QED
    BY <1>2, <1>4, <1>6, <1>7

(* Nothing but the first push to a closed channel panics. *)
LEMMA NoPanicKeeps ==
  ASSUME HubInv, panicked' => panicked \/ hub # "running" \/ overtaken # {},
         hub' = "running" => hub = "running", overtaken \subseteq overtaken'
  PROVE  NoSendAfterClose'
    BY DEF HubInv, NoSendAfterClose

(* Whom a push to rooms, or a reply, reaches while the hub serves. *)
LEMMA OfferIsSafe ==
  ASSUME HubInv, NEW cs, NEW m, Offer(cs, m), hub' = hub, overtaken' = overtaken,
         \A c \in cs : c \in Clients /\ (reader[c] = "reading" \/ \E r \in Rooms : c \in members[r])
  PROVE  NoSendAfterClose'
<1>1. hub = "running" /\ overtaken = {} => cs \cap sendClosed = {}
    BY DEF HubInv, PlaceInv
<1>2. panicked' => panicked \/ hub # "running" \/ overtaken # {}
    BY <1>1 DEF Offer
<1> QED
    BY <1>2, NoPanicKeeps

(* The stream and its consumer. *)
LEMMA StreamKeeps == ASSUME HubInv, ConsumeStream \/ \E r \in Rooms : XAdd(r) PROVE HubInv'
<1>1. /\ \A c \in Clients : ReaderInv(c)' /\ PlaceInv(c)'
      /\ NoSendAfterClose'
    BY PlacesStay, NoPanicKeeps DEF ConsumeStream, XAdd, roomVars, stopVars, clientVars, sendVars
<1>2. /\ streamed \in Seq(Rooms) /\ eventCh \in Seq(Nat) /\ fetched \in 0 .. Len(streamed) /\ Len(eventCh) <= fetched
    BY DEF HubInv, HubFunctions, QueueInv
<1>3. Len(streamed) \in Nat /\ Len(eventCh) \in Nat /\ fetched \in Nat
    BY <1>2
<1>4. ASSUME NEW r \in Rooms, XAdd(r) PROVE HubInv'
  <2>1. streamed' \in Seq(Rooms) /\ Len(streamed') = Len(streamed) + 1 /\ fetched' = fetched
    BY <1>2, <1>4 DEF XAdd
  <2>2. HubFunctions'
    BY <1>2, <1>3, <1>4, <2>1 DEF HubInv, HubFunctions, XAdd, roomVars, stopVars, clientVars, sendVars
  <2>3. QueueInv' /\ \A c \in Clients : OrderInv(c)'
    BY <1>4, OrdersStay DEF XAdd, sendVars
  <2> QED
    BY <1>1, <2>2, <2>3 DEF HubInv
<1>5. ASSUME ConsumeStream PROVE HubInv'
  <2>1. /\ eventCh' \in Seq(Nat) /\ Len(eventCh') = Len(eventCh) + 1 /\ fetched' = fetched + 1
        /\ eventCh'[Len(eventCh) + 1] = fetched + 1 /\ \A i \in DOMAIN eventCh : eventCh'[i] = eventCh[i]
        /\ DOMAIN eventCh' = 1 .. Len(eventCh) + 1 /\ DOMAIN eventCh = 1 .. Len(eventCh)
        /\ fetched' \in 0 .. Len(streamed)
    BY <1>2, <1>3, <1>5 DEF ConsumeStream
  <2>2. HubFunctions'
    BY <1>5, <2>1 DEF HubInv, HubFunctions, ConsumeStream, roomVars, stopVars, clientVars, sendVars
  <2>3. Handled' = Handled /\ Handled \in Nat
    BY <1>2, <1>3, <2>1 DEF Handled
  <2>4. QueueInv'
    <3>1. ASSUME NEW i \in DOMAIN eventCh' PROVE eventCh'[i] = Handled + i
      <4>1. CASE i \in DOMAIN eventCh
        BY <2>1, <4>1 DEF HubInv, QueueInv
      <4>2. CASE i = Len(eventCh) + 1
        BY <1>2, <1>3, <2>1, <4>2 DEF Handled
      <4> QED
        BY <1>3, <2>1, <4>1, <4>2
    <3>2. Len(eventCh') <= fetched'
      BY <1>2, <1>3, <2>1
    <3> QED
      BY <2>3, <3>1, <3>2 DEF QueueInv
  <2>5. \A c \in Clients : OrderInv(c)'
    BY <1>5, <2>3 DEF HubInv, OrderInv, ConsumeStream, sendVars
  <2> QED
    BY <1>1, <2>2, <2>4, <2>5 DEF HubInv
<1> QED
    BY <1>4, <1>5

(* A registration: the loop, the room it looks up, the room. *)
LEMMA RegisterKeeps ==
  ASSUME HubInv, (\E c \in Clients : RegisterClient(c)) \/ GetOrCreateRoom \/ RoomAdd
  PROVE  HubInv'
<1>1. QueueInv' /\ NoSendAfterClose' /\ \A c \in Clients : OrderInv(c)'
    BY OrdersStay, NoPanicKeeps DEF RegisterClient, GetOrCreateRoom, RoomAdd, streamVars, sendVars,
       stopVars
<1>2. ASSUME NEW c \in Clients, RegisterClient(c) PROVE HubInv'
  <2>1. joining' = <<c, NoRoom>> /\ joining'[1] = c /\ joining'[2] = NoRoom /\ joining' # <<>> /\ joining = <<>>
    BY <1>2 DEF RegisterClient, LoopFree
  <2>2. HubFunctions'
    <3>1. joining' \in Clients \X (Rooms \cup {NoRoom})
      BY <2>1
    <3> QED
      BY <1>2, <3>1 DEF RegisterClient, HubInv, HubFunctions, streamVars, sendVars, stopVars
  <2>3. \A d \in Clients : ReaderInv(d)'
    BY <1>2, <2>1 DEF RegisterClient, Offered, HubInv, HubFunctions, ReaderInv, Joins, Drops,
       LoopFree, stopVars, sendVars
  <2>4. \A d \in Clients : PlaceInv(d)'
    BY <1>2, <2>1 DEF RegisterClient, Offered, HubInv, HubFunctions, ReaderInv, PlaceInv, Joins,
       Drops, LoopFree, stopVars, sendVars
  <2> QED
    BY <1>1, <2>2, <2>3, <2>4 DEF HubInv
<1>3. ASSUME GetOrCreateRoom PROVE HubInv'
  <2>1. PICK c \in Clients : joining = <<c, NoRoom>>
    BY <1>3 DEF GetOrCreateRoom, HubInv, HubFunctions
  <2>2. joining' = <<c, taskID[c]>>
    BY <1>3, <2>1 DEF GetOrCreateRoom
  <2>3. joining'[1] = c /\ joining'[2] = taskID[c] /\ joining[1] = c /\ joining # <<>> /\ joining' # <<>>
    BY <2>1, <2>2
  <2>4. HubFunctions'
    <3>1. joining' \in Clients \X (Rooms \cup {NoRoom})
      BY <2>2 DEF HubInv, HubFunctions
    <3> QED
      BY <1>3, <3>1 DEF GetOrCreateRoom, HubInv, HubFunctions, streamVars, clientVars, sendVars, stopVars
  <2>5. \A d \in Clients : ReaderInv(d)' /\ PlaceInv(d)'
    BY <1>3, <2>3 DEF GetOrCreateRoom, HubInv, HubFunctions, ReaderInv, PlaceInv, Joins, Drops, stopVars,
       clientVars, sendVars
  <2> QED
    BY <1>1, <2>4, <2>5 DEF HubInv
<1>4. ASSUME RoomAdd PROVE HubInv'
  <2>1. PICK c \in Clients, r \in Rooms : joining = <<c, r>>
    BY <1>4 DEF RoomAdd, HubInv, HubFunctions
  <2>2. joining[1] = c /\ joining[2] = r /\ joining # <<>> /\ joining' = <<>> /\ r # NoRoom
    BY <1>4, <2>1 DEF RoomAdd
  <2>3. members' = [members EXCEPT ![r] = @ \cup {c}]
    BY <1>4, <2>2 DEF RoomAdd
  <2>4. HubFunctions'
    BY <1>4, <2>2, <2>3 DEF RoomAdd, HubInv, HubFunctions, streamVars, clientVars, sendVars, stopVars
  <2>5. \A d \in Clients : ReaderInv(d)'
    BY <1>4, <2>2, <2>3 DEF RoomAdd, HubInv, HubFunctions, ReaderInv, Joins, Drops, stopVars,
       clientVars, sendVars
  <2>6. ASSUME NEW d \in Clients PROVE PlaceInv(d)'
    <3>1. /\ UNCHANGED <<clients, dropping, taskID, reader, moving, sendClosed, hub, overtaken>>
          /\ members \in [Rooms -> SUBSET Clients] /\ PlaceInv(d) /\ ReaderInv(d)
      BY <1>4 DEF RoomAdd, HubInv, HubFunctions, clientVars, sendVars, stopVars
    <3>2. CASE d = c
      <4>1. \A x \in Rooms : members'[x] = IF x = r THEN members[x] \cup {c} ELSE members[x]
        BY <2>3, <3>1
      <4> QED
        BY <2>2, <3>1, <3>2, <4>1 DEF PlaceInv, ReaderInv, Joins, Drops
    <3>3. CASE d # c
      <4>1. \A x \in Rooms : d \in members'[x] <=> d \in members[x]
        BY <2>3, <3>1, <3>3
      <4> QED
        BY <2>2, <3>1, <3>3, <4>1 DEF PlaceInv, Joins, Drops
    <3> QED
      BY <3>2, <3>3
  <2> QED
    BY <1>1, <2>4, <2>5, <2>6 DEF HubInv
<1> QED
    BY <1>2, <1>3, <1>4

(* A leaver is out of the map, then out of its room, and then its channel is closed. *)
LEMMA UnregisterKeeps == ASSUME HubInv, NEW c \in Clients, UnregisterClient(c) PROVE HubInv'
<1>1. QueueInv' /\ NoSendAfterClose' /\ \A d \in Clients : OrderInv(d)'
    BY OrdersStay, NoPanicKeeps DEF UnregisterClient, streamVars, sendVars
<1>2. joining = <<>> /\ dropping = <<>> /\ reader[c] = "leaving"
    BY DEF UnregisterClient, LoopFree
<1>3. \/ c \in clients /\ dropping' = <<c, "room">> /\ dropping'[1] = c /\ dropping'[2] = "room" /\ dropping' # <<>>
      \/ c \notin clients /\ dropping' = <<>>
    BY DEF UnregisterClient
<1>4. HubFunctions'
  <2>1. dropping' \in {<<>>} \cup (Clients \X {"room", "close"})
    BY <1>3
  <2> QED
    BY <2>1 DEF UnregisterClient, HubInv, HubFunctions, streamVars, stopVars, sendVars
<1>5. ASSUME NEW d \in Clients PROVE ReaderInv(d)' /\ PlaceInv(d)'
  <2>1. /\ UNCHANGED <<members, joining, taskID, moving, sendClosed, closing, hub, overtaken>>
        /\ PlaceInv(d) /\ ReaderInv(d) /\ clients' = clients \ {c}
        /\ reader'[d] = IF d = c THEN "gone" ELSE reader[d]
    BY DEF UnregisterClient, HubInv, HubFunctions, stopVars, sendVars
  <2>2. CASE d = c
    BY <1>2, <1>3, <2>1, <2>2 DEF ReaderInv, PlaceInv, Joins, Drops
  <2>3. CASE d # c
    BY <1>2, <1>3, <2>1, <2>3 DEF ReaderInv, PlaceInv, Joins, Drops
  <2> QED
    BY <2>2, <2>3
<1> QED
    BY <1>1, <1>4, <1>5 DEF HubInv

(* First out of its room, then its channel. *)
LEMMA DropKeeps == ASSUME HubInv, NEW step \in {"room", "close"}, DropClient(step) PROVE HubInv'
<1>1. QueueInv' /\ NoSendAfterClose' /\ \A d \in Clients : OrderInv(d)'
    BY OrdersStay, NoPanicKeeps DEF DropClient, streamVars
<1>2. PICK c \in Clients : dropping = <<c, step>>
    BY DEF DropClient, HubInv, HubFunctions
<1>3. /\ dropping[1] = c /\ dropping[2] = step /\ dropping # <<>>
      /\ taskID[c] \in Rooms /\ members \in [Rooms -> SUBSET Clients]
    BY <1>2 DEF HubInv, HubFunctions
<1>4. /\ UNCHANGED <<clients, joining, taskID, moving, reader, closing, hub, overtaken>>
      /\ \/ /\ step = "room" /\ members' = [members EXCEPT ![taskID[c]] = @ \ {c}] /\ sendClosed' = sendClosed
            /\ dropping' = <<c, "close">> /\ dropping'[1] = c /\ dropping'[2] = "close" /\ dropping' # <<>>
         \/ /\ step = "close" /\ members' = members /\ sendClosed' = sendClosed \cup {c} /\ dropping' = <<>>
    BY <1>3 DEF DropClient, clientVars, stopVars
<1>5. HubFunctions'
  <2>1. dropping' \in {<<>>} \cup (Clients \X {"room", "close"}) /\ members' \in [Rooms -> SUBSET Clients]
    BY <1>3, <1>4
  <2> QED
    BY <1>4, <2>1 DEF DropClient, HubInv, HubFunctions, streamVars
<1>6. \A d \in Clients : ReaderInv(d)'
    BY <1>3, <1>4 DEF HubInv, ReaderInv, Joins, Drops
<1>7. ASSUME NEW d \in Clients PROVE PlaceInv(d)'
  <2>1. PlaceInv(d) /\ ReaderInv(d)
    BY DEF HubInv
  <2>2. \A x \in Rooms : d \in members'[x] <=>
          d \in members[x] /\ ~(step = "room" /\ d = c /\ x = taskID[c])
    BY <1>3, <1>4
  <2>3. CASE d = c
    BY <1>3, <1>4, <2>1, <2>2, <2>3 DEF PlaceInv, ReaderInv, Joins, Drops
  <2>4. CASE d # c
    <3>1. ~Drops(d)' /\ \A x \in Rooms : d \in members'[x] <=> d \in members[x]
      BY <1>4, <2>2, <2>4 DEF Drops
    <3> QED
      BY <1>4, <2>1, <2>4, <3>1 DEF PlaceInv, Joins
  <2> QED
    BY <2>3, <2>4
<1> QED
    BY <1>1, <1>4, <1>5, <1>6, <1>7 DEF HubInv

(* Broadcasts and pushes reach the clients that are in a room. *)
LEMMA PushKeeps ==
  ASSUME HubInv, HandleStreamEvent \/ PushEvent(Rooms) \/ \E r \in Rooms : PushEvent({r})
  PROVE  HubInv'
<1>1. \A d \in Clients : ReaderInv(d)' /\ PlaceInv(d)'
    BY PlacesStay DEF HandleStreamEvent, PushEvent, roomVars, stopVars, clientVars
<1>2. ASSUME NEW rs \in SUBSET Rooms, PushEvent(rs) PROVE HubInv'
  <2>1. send' \in [Clients -> Seq(Nat)] /\ QueueInv' /\ \A c \in Clients : OrderInv(c)'
    BY <1>2, ReplyKeepsOrder DEF PushEvent, streamVars
  <2>2. NoSendAfterClose'
    <3>1. members \in [Rooms -> SUBSET Clients]
      BY DEF HubInv, HubFunctions
    <3>2. \A c \in UNION {members[r] : r \in rs} : c \in Clients /\ \E r \in Rooms : c \in members[r]
      BY <3>1
    <3> QED
      BY <1>2, <3>2, OfferIsSafe DEF PushEvent
  <2>3. HubFunctions'
    BY <1>2, <2>1 DEF PushEvent, HubInv, HubFunctions, streamVars, roomVars, stopVars, clientVars
  <2> QED
    BY <1>1, <2>1, <2>2, <2>3 DEF HubInv
<1>3. ASSUME HandleStreamEvent PROVE HubInv'
  <2>1. /\ eventCh' \in Seq(Nat) /\ send' \in [Clients -> Seq(Nat)] /\ QueueInv'
        /\ \A c \in Clients : OrderInv(c)'
    BY <1>3, EventKeepsOrder DEF HandleStreamEvent
  <2>2. streamed[Head(eventCh)] \in Rooms
    <3>1. /\ streamed \in Seq(Rooms) /\ eventCh \in Seq(Nat) /\ fetched \in 0 .. Len(streamed) /\ eventCh # <<>>
          /\ Len(eventCh) <= fetched /\ \A i \in DOMAIN eventCh : eventCh[i] = Handled + i
      BY <1>3 DEF HandleStreamEvent, HubInv, HubFunctions, QueueInv
    <3>2. Len(streamed) \in Nat /\ Len(eventCh) \in Nat \ {0} /\ 1 \in DOMAIN eventCh /\ Head(eventCh) = eventCh[1]
      BY <3>1
    <3>3. Head(eventCh) \in 1 .. Len(streamed)
      BY <3>1, <3>2 DEF Handled
    <3> QED
      BY <3>1, <3>3
  <2>3. NoSendAfterClose'
    <3> DEFINE room == streamed[Head(eventCh)]
    <3>1. CASE Offer(members[room], Head(eventCh))
      <4>1. \A c \in members[room] : c \in Clients /\ \E r \in Rooms : c \in members[r]
        BY <2>2 DEF HubInv, HubFunctions
      <4> QED
        BY <1>3, <3>1, <4>1, OfferIsSafe DEF HandleStreamEvent
    <3>2. CASE UNCHANGED <<send, panicked>>
      BY <1>3, <3>2, NoPanicKeeps DEF HandleStreamEvent
    <3> QED
      BY <1>3, <3>1, <3>2 DEF HandleStreamEvent
  <2>4. HubFunctions'
    BY <1>3, <2>1 DEF HandleStreamEvent, HubInv, HubFunctions, roomVars, stopVars, clientVars
  <2> QED
    BY <1>1, <2>1, <2>3, <2>4 DEF HubInv
<1> QED
    BY <1>2, <1>3

(* The end of the hub. *)
LEMMA HubEndKeeps ==
  ASSUME HubInv, HubStop \/ StopCollects \/ HubRunReturns \/ \E c \in Clients : StopCloses(c)
  PROVE  HubInv'
<1>1. QueueInv' /\ NoSendAfterClose' /\ \A d \in Clients : OrderInv(d)'
    BY OrdersStay, NoPanicKeeps DEF HubStop, StopCollects, StopCloses, HubRunReturns, streamVars,
       sendVars
<1>2. HubFunctions'
    BY DEF HubStop, StopCollects, StopCloses, HubRunReturns, HubInv, HubFunctions, streamVars, roomVars,
       stopVars, clientVars, sendVars
<1>3. \A d \in Clients : ReaderInv(d)' /\ PlaceInv(d)'
    BY DEF HubStop, StopCollects, StopCloses, HubRunReturns, HubInv, ReaderInv, PlaceInv, Joins,
       Drops, roomVars,
       stopVars, clientVars, sendVars
<1> QED
    BY <1>1, <1>2, <1>3 DEF HubInv

(* What a reader does that leaves its room alone. *)
LEMMA ReaderKeeps ==
  ASSUME HubInv, NEW c \in Clients, HandleAuth(c) \/ HandlePing(c) \/ ReadFails(c)
  PROVE  HubInv'
<1>1. CASE HandleAuth(c) \/ HandlePing(c)
  <2>1. \A d \in Clients : ReaderInv(d)' /\ PlaceInv(d)'
    BY <1>1, PlacesStay DEF HandleAuth, HandlePing, roomVars, stopVars, clientVars
  <2>2. send' \in [Clients -> Seq(Nat)] /\ QueueInv' /\ \A d \in Clients : OrderInv(d)'
    BY <1>1, ReplyKeepsOrder DEF HandleAuth, HandlePing, streamVars
  <2>3. NoSendAfterClose'
    BY <1>1, OfferIsSafe DEF HandleAuth, HandlePing, Idle
  <2>4. HubFunctions'
    BY <1>1, <2>2 DEF HandleAuth, HandlePing, HubInv, HubFunctions, streamVars, roomVars, stopVars,
       clientVars
  <2> QED
    BY <2>1, <2>2, <2>3, <2>4 DEF HubInv
<1>2. CASE ReadFails(c)
  <2>1. QueueInv' /\ NoSendAfterClose' /\ \A d \in Clients : OrderInv(d)'
    BY <1>2, OrdersStay, NoPanicKeeps DEF ReadFails, streamVars, sendVars
  <2>2. HubFunctions'
    BY <1>2 DEF ReadFails, HubInv, HubFunctions, streamVars, roomVars, stopVars, sendVars
  <2>3. \A d \in Clients : ReaderInv(d)' /\ PlaceInv(d)'
    BY <1>2 DEF ReadFails, Idle, HubInv, HubFunctions, ReaderInv, PlaceInv, Joins, Drops, roomVars,
       stopVars, sendVars
  <2> QED
    BY <2>1, <2>2, <2>3 DEF HubInv
<1> QED
    BY <1>1, <1>2

(* A client changes its room: out of the one, then into the other. *)
LEMMA SubscribeKeeps ==
  ASSUME HubInv, NEW c \in Clients, (\E r \in Rooms : HandleSubscribe(c, r)) \/ JoinRoom(c)
  PROVE  HubInv'
<1>1. ASSUME NEW r \in Rooms, HandleSubscribe(c, r) PROVE HubInv'
  <2>1. QueueInv' /\ NoSendAfterClose' /\ \A d \in Clients : OrderInv(d)'
    BY <1>1, OrdersStay, NoPanicKeeps DEF HandleSubscribe, streamVars, sendVars
  <2>2. HubFunctions'
    BY <1>1 DEF HandleSubscribe, HubInv, HubFunctions, stopVars, streamVars, sendVars
  <2>3. r # NoRoom
    BY HubAssumption
  <2>4. \A d \in Clients : ReaderInv(d)'
    BY <1>1, <2>3 DEF HandleSubscribe, Idle, HubInv, HubFunctions, ReaderInv, Joins, Drops,
       stopVars, sendVars
  <2>5. \A d \in Clients : PlaceInv(d)'
    BY <1>1, <2>3 DEF HandleSubscribe, Idle, HubInv, HubFunctions, ReaderInv, PlaceInv, Joins,
       Drops, stopVars, sendVars
  <2> QED
    BY <2>1, <2>2, <2>4, <2>5 DEF HubInv
<1>2. ASSUME JoinRoom(c) PROVE HubInv'
  <2>1. send' \in [Clients -> Seq(Nat)] /\ QueueInv' /\ \A d \in Clients : OrderInv(d)'
    BY <1>2, ReplyKeepsOrder DEF JoinRoom, streamVars
  <2>2. reader[c] = "reading" /\ moving[c] = taskID[c]
    BY <1>2 DEF JoinRoom, HubInv, ReaderInv
  <2>3. NoSendAfterClose'
    BY <1>2, <2>2, OfferIsSafe DEF JoinRoom
  <2>4. HubFunctions'
    BY <1>2, <2>1 DEF JoinRoom, HubInv, HubFunctions, stopVars, streamVars
  <2>5. \A d \in Clients : ReaderInv(d)'
    BY <1>2, <2>2 DEF JoinRoom, HubInv, HubFunctions, ReaderInv, Joins, Drops, stopVars
  <2>6. \A d \in Clients : PlaceInv(d)'
    BY <1>2, <2>2 DEF JoinRoom, HubInv, HubFunctions, ReaderInv, PlaceInv, Joins, Drops, stopVars
  <2> QED
    BY <2>1, <2>3, <2>4, <2>5, <2>6 DEF HubInv
<1> QED
    BY <1>1, <1>2

(* The writer empties the buffer. *)
LEMMA WritePumpKeeps == ASSUME HubInv, NEW c \in Clients, WritePump(c) PROVE HubInv'
<1>1. \A d \in Clients : ReaderInv(d)' /\ PlaceInv(d)'
    BY PlacesStay DEF WritePump, roomVars, stopVars, clientVars
<1>2. NoSendAfterClose'
    BY NoPanicKeeps DEF WritePump
<1>3. PICK last \in {got[c]} \cup {send[c][i] : i \in DOMAIN send[c]} : got' = [got EXCEPT ![c] = last]
    BY DEF WritePump
<1>4. last \in Nat /\ last <= Handled
  <2>1. send[c] \in Seq(Nat) /\ got[c] \in Nat
    BY DEF HubInv, HubFunctions
  <2>2. \A i \in DOMAIN send[c] : send[c][i] \in Nat
    BY <2>1
  <2> QED
    BY <2>1, <2>2 DEF HubInv, OrderInv
<1>5. send' \in [Clients -> Seq(Nat)]
  <2>1. <<>> \in Seq(Nat)
    OBVIOUS
  <2> QED
    BY <2>1 DEF WritePump, HubInv, HubFunctions
<1>6. HubFunctions'
    BY <1>3, <1>4, <1>5 DEF WritePump, HubInv, HubFunctions, streamVars, roomVars, stopVars, clientVars
<1>7. QueueInv' /\ Handled' = Handled
    BY DEF WritePump, HubInv, QueueInv, Handled, streamVars
<1>8. ASSUME NEW d \in Clients PROVE OrderInv(d)'
  <2>1. CASE d = c
    <3>1. send'[c] = <<>> /\ got'[c] = last
      BY <1>3 DEF WritePump, HubInv, HubFunctions
    <3>2. DOMAIN <<>> = {}
      OBVIOUS
    <3> QED
      BY <1>4, <1>7, <2>1, <3>1, <3>2 DEF OrderInv
  <2>2. CASE d # c
    <3>1. send'[d] = send[d] /\ got'[d] = got[d]
      BY <1>3, <2>2 DEF WritePump, HubInv, HubFunctions
    <3> QED
      BY <1>7, <3>1 DEF HubInv, OrderInv
  <2> QED
    BY <2>1, <2>2
<1> QED
    BY <1>1, <1>2, <1>6, <1>7, <1>8 DEF HubInv

(* The invariant of the hub, for any clients, rooms and buffers. *)
THEOREM HubInvariant == HubSpec => []HubInv
<1>1. HubInit => HubInv
  <2> SUFFICES ASSUME HubInit PROVE HubInv
    OBVIOUS
  <2>1. <<>> \in Seq(Nat) /\ <<>> \in Seq(Rooms) /\ Len(<<>>) = 0 /\ DOMAIN <<>> = {}
    OBVIOUS
  <2>2. HubFunctions
    BY <2>1 DEF HubInit, HubFunctions
  <2>3. QueueInv /\ \A c \in Clients : OrderInv(c)
    BY <2>1 DEF HubInit, QueueInv, OrderInv, Handled
  <2>4. NoSendAfterClose /\ \A c \in Clients : ReaderInv(c) /\ PlaceInv(c)
    BY DEF HubInit, NoSendAfterClose, ReaderInv, PlaceInv, Joins, Drops
  <2> QED
    BY <2>2, <2>3, <2>4 DEF HubInv
<1>2. HubInv /\ [HubNext]_hubVars => HubInv'
  <2> SUFFICES ASSUME HubInv, [HubNext]_hubVars PROVE HubInv'
    OBVIOUS
  <2>1. CASE UNCHANGED hubVars
    <3>1. QueueInv' /\ NoSendAfterClose' /\ \A c \in Clients : OrderInv(c)' /\ ReaderInv(c)' /\ PlaceInv(c)'
      BY <2>1, OrdersStay, PlacesStay, NoPanicKeeps DEF hubVars, streamVars, roomVars, stopVars,
         clientVars,
         sendVars
    <3>2. HubFunctions'
      BY <2>1 DEF HubInv, HubFunctions, hubVars, streamVars, roomVars, stopVars, clientVars, sendVars
    <3> QED
      BY <3>1, <3>2 DEF HubInv
  <2>2. CASE HubLoop
    BY <2>2, RegisterKeeps, UnregisterKeeps, DropKeeps, PushKeeps, HubEndKeeps DEF HubLoop
  <2> QED
    BY <2>1, <2>2, StreamKeeps, PushKeeps, HubEndKeeps, ReaderKeeps, SubscribeKeeps,
       WritePumpKeeps DEF HubNext
<1> QED
    BY <1>1, <1>2, PTL DEF HubSpec

(* Every client that is served gets the events of its task in the order of   *)
(* the stream, each at most once, and while the hub serves nothing is sent   *)
(* to a channel that was closed (hub.go:370, client.go:258).                 *)
THEOREM HubDeliversInOrder == HubSpec => []HubDelivery
<1>1. HubInv => ClientStream
  <2> SUFFICES ASSUME HubInv, NEW c \in Clients PROVE InOrder(c) /\ (c \in clients \ overtaken => OneRoom(c))
    BY DEF ClientStream
  <2>1. InOrder(c)
    <3>1. send[c] \in Seq(Nat) /\ OrderInv(c)
      BY DEF HubInv, HubFunctions
    <3>2. DOMAIN send[c] = 1 .. Len(send[c]) /\ Len(send[c]) \in Nat
      BY <3>1
    <3>3. \A i, j \in 1 .. SendSize : i < j /\ j <= Len(send[c]) => i \in DOMAIN send[c] /\ j \in DOMAIN send[c]
      BY <3>2, HubAssumption
    <3> QED
      BY <3>1, <3>3 DEF InOrder, OrderInv
  <2>2. c \in clients \ overtaken => OneRoom(c)
    BY DEF HubInv, HubFunctions, PlaceInv, Joins, Drops, OneRoom, Idle
  <2> QED
    BY <2>1, <2>2
<1>2. HubInv => HubDelivery
    BY <1>1 DEF HubInv, HubDelivery
<1> QED
    BY <1>2, HubInvariant, PTL

-----------------------------------------------------------------------------
(* The remote tools.                                                         *)

(* The request behind the tools that report about tasks. *)
LEMMA RequestsOfTools ==
  ASSUME NEW t
  PROVE  /\ AllTools(t)["task_submit"] = SubmitTaskCall
         /\ AllTools(t)["Submit"] = [method |-> "POST", path |-> <<"rpc", "Submit">>]
         /\ AllTools(t)["task_status"] = GetTaskCall(t)
         /\ AllTools(t)["task_wait"] = GetTaskCall(t)
         /\ AllTools(t)["Get"] = [method |-> "POST", path |-> <<"rpc", "Get", t>>]
         /\ AllTools(t)["task_list"] = ListTasksCall
<1>1. /\ DOMAIN ExecutorTools(t) = DOMAIN TaskTools(t) \cup DOMAIN ContextTools(t)
      /\ ExecutorTools(t)["task_submit"] = SubmitTaskCall
      /\ ExecutorTools(t)["task_status"] = GetTaskCall(t)
      /\ ExecutorTools(t)["task_list"] = ListTasksCall
    BY DEF ExecutorTools, TaskTools, ContextTools, Joined
<1>2. /\ DOMAIN PlatformCallerTools(t) = DOMAIN PluginTools(t) \cup DOMAIN PluginReads(t) \cup DOMAIN PluginQueries
      /\ PlatformCallerTools(t)["task_wait"] = GetTaskCall(t)
    BY DEF PlatformCallerTools, PluginTools, PluginReads, PluginQueries, Joined
<1>3. /\ "task_submit" \in DOMAIN ExecutorTools(t) /\ "task_status" \in DOMAIN ExecutorTools(t)
      /\ "task_list" \in DOMAIN ExecutorTools(t) /\ "task_wait" \notin DOMAIN ExecutorTools(t)
      /\ "Submit" \notin DOMAIN ExecutorTools(t) /\ "Get" \notin DOMAIN ExecutorTools(t)
    BY <1>1 DEF TaskTools, ContextTools
<1>4. /\ "task_wait" \in DOMAIN PlatformCallerTools(t)
      /\ "Submit" \notin DOMAIN PlatformCallerTools(t) /\ "Get" \notin DOMAIN PlatformCallerTools(t)
    BY <1>2 DEF PluginTools, PluginReads, PluginQueries
<1>5. /\ "Submit" \in DOMAIN ConnectTools(t) /\ "Get" \in DOMAIN ConnectTools(t)
      /\ ConnectTools(t)["Submit"] = [method |-> "POST", path |-> <<"rpc", "Submit">>]
      /\ ConnectTools(t)["Get"] = [method |-> "POST", path |-> <<"rpc", "Get", t>>]
    BY DEF ConnectTools
<1>6. \A x \in DOMAIN ExecutorTools(t) : AllTools(t)[x] = ExecutorTools(t)[x]
    BY DEF AllTools, Joined
<1>7. \A x \in DOMAIN PlatformCallerTools(t) \ DOMAIN ExecutorTools(t) : AllTools(t)[x] = PlatformCallerTools(t)[x]
    BY DEF AllTools, Joined
<1>8. \A x \in DOMAIN ConnectTools(t) \ (DOMAIN ExecutorTools(t) \cup DOMAIN PlatformCallerTools(t)) :
         AllTools(t)[x] = ConnectTools(t)[x]
    BY DEF AllTools, Joined
<1> QED
    BY <1>1, <1>2, <1>3, <1>4, <1>5, <1>6, <1>7, <1>8

(* The two ways to write a status agree. *)
LEMMA SameStatus == ProtoStatus = StatusString
    BY DEF ProtoStatus, StatusString

(* A handler without an effect. *)
LEMMA NoEffectIsNone == ASSUME NEW r, NEW o \in NoEffect(r) PROVE o.tasks = tasks /\ o.reply = r
    BY DEF NoEffect, Outcome

(* A submission: an error, or a task that was not there. *)
Submitted(o, u) == u \in TaskIds \ Known /\ o.tasks = [tasks EXCEPT ![u] = "pending"]

(* What a submission can come to. *)
LEMMA SubmitOutcomes ==
  ASSUME NEW o \in SubmitTask(StatusString)
  PROVE  \/ o.tasks = tasks /\ o.reply.kind = "apiError"
         \/ \E u : /\ Submitted(o, u)
                  /\ \/ o.reply.kind = "apiError"
                     \/ o.reply = Data([task |-> u, status |-> StatusString["pending"]])
<1>1. CASE o \in NoEffect(ApiError)
    BY <1>1, NoEffectIsNone DEF ApiError
<1>2. CASE o \notin NoEffect(ApiError)
  <2>1. PICK u \in TaskIds \ Known :
          o \in {Outcome([tasks EXCEPT ![u] = "pending"], Data([task |-> u, status |-> StatusString["pending"]])),
                 Outcome([tasks EXCEPT ![u] = "pending"], ApiError)}
    BY <1>2 DEF SubmitTask
  <2> QED
    BY <2>1 DEF Outcome, Submitted, ApiError
<1> QED
    BY <1>1, <1>2

(* What the gateway answers never takes a task away, and adds at most one. *)
LEMMA ServedTasks ==
  ASSUME NEW r, NEW o \in Served(r)
  PROVE  o.tasks = tasks \/ \E u : Submitted(o, u)
<1>1. ASSUME o \in SubmitTask(StatusString) PROVE o.tasks = tasks \/ \E u : Submitted(o, u)
    BY <1>1, SubmitOutcomes
<1>2. o \in SubmitTask(StatusString) \/ \E x : o \in NoEffect(x)
  <2>1. CASE o \in HandleTasks(r.method)
    BY <2>1 DEF HandleTasks, ListTasks
  <2>2. CASE o \in HandleTaskOperations(r.method, r.path)
    BY <2>2 DEF HandleTaskOperations, GetTask, DecideTask, CancelTask, GetTaskDiff,
       GetGuardianCheck, ReportArtifacts
  <2>3. CASE o \in ConnectHandlers(r.path)
    BY <2>3, SameStatus DEF ConnectHandlers, GetTask, CancelTask
  <2> QED
    BY <2>1, <2>2, <2>3 DEF Served, Routes, ListAgents, ListSessions
<1> QED
    BY <1>1, <1>2, NoEffectIsNone

(* What a reply with data says, for the tools that report about tasks. *)
Says(tool, t, o) ==
    /\ tool \in {"task_submit", "Submit"} =>
          \E u : Submitted(o, u) /\ o.reply.value = [task |-> u, status |-> StatusString["pending"]]
    /\ tool \in {"task_status", "Get", "task_wait"} =>
          t \in Known /\ o.tasks = tasks /\ o.reply.value = [task |-> t, status |-> StatusString[tasks[t]]]
    /\ tool = "task_list" =>
          /\ o.tasks = tasks
          /\ o.reply.value = {[task |-> x, status |-> StatusString[tasks[x]]] : x \in Known}

(* A reply with data says what the handler has found or done. *)
LEMMA ServedReplies ==
  ASSUME NEW t, NEW tool, NEW o \in Served(AllTools(t)[tool]), o.reply.kind = "data"
  PROVE  Says(tool, t, o)
<1> USE DEF Says
<1>1. token # "malformed"
  <2> SUFFICES ASSUME token = "malformed" PROVE FALSE
    OBVIOUS
  <2>1. o \in NoEffect(Foreign)
    BY DEF Served
  <2>2. o.reply = Foreign
    BY <2>1, NoEffectIsNone
  <2> QED
    BY <2>2 DEF Foreign
<1>2. ASSUME NEW m, NEW p, AllTools(t)[tool] = [method |-> m, path |-> p] PROVE o \in Routes(m, p)
  <2> DEFINE r == [method |-> m, path |-> p]
  <2>1. o \in Served(r) /\ r.method = m /\ r.path = p
    BY <1>2
  <2> HIDE DEF r
  <2>2. o \in Routes(r.method, r.path)
    BY <1>1, <2>1 DEF Served
  <2> QED
    BY <2>1, <2>2, Zenon
<1>3. \A x : Data(x).kind = "data" /\ Data(x).value = x
    BY DEF Data
<1>4. ASSUME o \in SubmitTask(StatusString)
      PROVE  \E u : Submitted(o, u) /\ o.reply.value = [task |-> u, status |-> StatusString["pending"]]
    BY <1>3, <1>4, SubmitOutcomes
<1>5. ASSUME o \in GetTask(t, StatusString)
      PROVE  t \in Known /\ o.tasks = tasks /\ o.reply.value = [task |-> t, status |-> StatusString[tasks[t]]]
  <2>1. CASE t \in Known
    <3>1. o \in NoEffect(Data([task |-> t, status |-> StatusString[tasks[t]]]))
      BY <1>5, <2>1 DEF GetTask
    <3> QED
      BY <1>3, <2>1, <3>1, NoEffectIsNone
  <2>2. CASE t \notin Known
    <3>1. o \in NoEffect(ApiError)
      BY <1>5, <2>2 DEF GetTask
    <3>2. o.reply = ApiError
      BY <3>1, NoEffectIsNone
    <3> QED
      BY <3>2 DEF ApiError
  <2> QED
    BY <2>1, <2>2
<1>6. CASE tool = "task_submit"
  <2>1. o \in Routes("POST", <<"tasks">>)
    BY <1>2, <1>6, RequestsOfTools, Zenon DEF SubmitTaskCall
  <2>2. o \in SubmitTask(StatusString)
    BY <2>1 DEF Routes, HandleTasks
  <2> QED
    BY <1>4, <1>6, <2>2
<1>7. CASE tool = "Submit"
  <2>1. o \in Routes("POST", <<"rpc", "Submit">>)
    BY <1>2, <1>7, RequestsOfTools, Zenon
  <2>2. o \in ConnectHandlers(<<"rpc", "Submit">>)
    BY <2>1 DEF Routes
  <2>3. o \in SubmitTask(StatusString)
    BY <2>2, SameStatus DEF ConnectHandlers
  <2> QED
    BY <1>4, <1>7, <2>3
<1>8. CASE tool \in {"task_status", "task_wait"}
  <2>1. o \in Routes("GET", <<"tasks", t>>)
    <3>1. AllTools(t)[tool] = [method |-> "GET", path |-> <<"tasks", t>>]
      BY <1>8, RequestsOfTools DEF GetTaskCall
    <3> QED
      BY <1>2, <3>1, Zenon
  <2>2. o \in HandleTaskOperations("GET", <<"tasks", t>>)
    BY <2>1 DEF Routes
  <2>3. o \in GetTask(t, StatusString)
    BY <2>2 DEF HandleTaskOperations
  <2> QED
    BY <1>5, <1>8, <2>3
<1>9. CASE tool = "Get"
  <2>1. o \in Routes("POST", <<"rpc", "Get", t>>)
    BY <1>2, <1>9, RequestsOfTools, Zenon
  <2>2. o \in ConnectHandlers(<<"rpc", "Get", t>>)
    BY <2>1 DEF Routes
  <2>3. o \in GetTask(t, StatusString)
    BY <2>2, SameStatus DEF ConnectHandlers
  <2> QED
    BY <1>5, <1>9, <2>3
<1>10. CASE tool = "task_list"
  <2>1. o \in Routes("GET", <<"tasks">>)
    BY <1>2, <1>10, RequestsOfTools, Zenon DEF ListTasksCall
  <2>2. o \in ListTasks
    BY <2>1 DEF Routes, HandleTasks
  <2>3. o \notin NoEffect(ApiError)
    BY NoEffectIsNone DEF ApiError
  <2>4. o \in NoEffect(Data({[task |-> x, status |-> StatusString[tasks[x]]] : x \in Known}))
    BY <2>2, <2>3 DEF ListTasks
  <2> QED
    BY <1>3, <1>10, <2>4, NoEffectIsNone
<1> QED
    BY <1>6, <1>7, <1>8, <1>9, <1>10

(* A call keeps what it knows when its record stays, or ends without data,   *)
(* and the tasks and what it has seen only grow.                             *)
LEMMA CallStays ==
  ASSUME NEW c, SeenInv(c), ReplyInv(c), Known \subseteq Known', seen[c] \subseteq seen'[c],
         asked'[c].phase \in {"sent", "served"} =>
            \A t \in Known' : <<t, tasks'[t]>> \in seen'[c],
         \/ asked'[c].phase \notin {"served", "answered"}
         \/ asked'[c].reply.kind # "data"
         \/ /\ asked[c].phase \in {"served", "answered"}
            /\ asked'[c].tool = asked[c].tool /\ asked'[c].reply = asked[c].reply
  PROVE  SeenInv(c)' /\ ReplyInv(c)'
<1>1. SeenInv(c)'
    BY DEF SeenInv
<1>2. ASSUME NEW x, Held(c, x) PROVE Held(c, x)'
    BY <1>2 DEF Held
<1>3. ReplyInv(c)'
    BY <1>2 DEF ReplyInv
<1> QED
    BY <1>1, <1>3

(* The tasks that change are seen by every call that is running. *)
LEMMA ObserveGrows ==
  ASSUME RemoteInv, NEW ts, Observe(ts), DOMAIN ts = TaskIds,
         \A t \in TaskIds : tasks[t] # "none" => ts[t] # "none"
  PROVE  /\ tasks' = ts /\ DOMAIN seen' = Callers /\ Known \subseteq Known'
         /\ \A c \in Callers : seen[c] \subseteq seen'[c]
         /\ \A c \in Callers : asked[c].phase \in {"sent", "served"} =>
               \A t \in Known' : <<t, tasks'[t]>> \in seen'[c]
<1>1. tasks' = ts /\ DOMAIN seen' = Callers
    BY DEF Observe
<1>2. Known \subseteq Known'
    BY <1>1 DEF Known
<1>3. ASSUME NEW c \in Callers PROVE seen[c] \subseteq seen'[c]
    BY DEF Observe
<1>4. ASSUME NEW c \in Callers, asked[c].phase \in {"sent", "served"}, NEW t \in Known'
      PROVE  <<t, tasks'[t]>> \in seen'[c]
  <2>1. Busy(c) /\ t \in TaskIds /\ ts[t] # "none"
    BY <1>1, <1>4 DEF Busy, Known
  <2>2. CASE ts[t] # tasks[t]
    BY <1>1, <2>1, <2>2 DEF Observe
  <2>3. CASE ts[t] = tasks[t]
    <3>1. t \in Known /\ SeenInv(c)
      BY <2>1, <2>3 DEF Known, RemoteInv
    <3> QED
      BY <1>1, <1>3, <1>4, <2>3, <3>1 DEF SeenInv
  <2> QED
    BY <2>2, <2>3
<1> QED
    BY <1>1, <1>2, <1>3, <1>4

(* A step of the tasks alone. *)
LEMMA ObserveKeeps ==
  ASSUME RemoteInv, NEW ts, Observe(ts), DOMAIN ts = TaskIds, UNCHANGED asked,
         \A t \in TaskIds : tasks[t] # "none" => ts[t] # "none"
  PROVE  RemoteInv'
<1>1. RemoteFunctions'
    BY ObserveGrows DEF RemoteFunctions, RemoteInv
<1>2. ASSUME NEW c \in Callers PROVE SeenInv(c)' /\ ReplyInv(c)'
  <2>1. SeenInv(c) /\ ReplyInv(c)
    BY DEF RemoteInv
  <2>2. CASE asked[c].phase \in {"served", "answered"}
    BY <2>1, <2>2, ObserveGrows, CallStays
  <2>3. CASE asked[c].phase \notin {"served", "answered"}
    BY <2>1, <2>3, ObserveGrows, CallStays
  <2> QED
    BY <2>2, <2>3
<1> QED
    BY <1>1, <1>2 DEF RemoteInv

(* A step of the calls alone: one of them, or several that lose their        *)
(* connection, changes, and no task does.                                    *)
LEMMA CallsKeep ==
  ASSUME RemoteInv, UNCHANGED tasks, RemoteFunctions',
         \A c \in Callers : seen[c] \subseteq seen'[c] \/ asked'[c].phase = "queued",
         \A c \in Callers : asked'[c].phase \in {"sent", "served"} =>
            \/ asked[c].phase \in {"sent", "served"}
            \/ \A t \in Known : <<t, tasks[t]>> \in seen'[c],
         \A c \in Callers :
            \/ asked'[c].phase \notin {"served", "answered"}
            \/ asked'[c].reply.kind # "data"
            \/ /\ asked[c].phase \in {"served", "answered"}
               /\ asked'[c].tool = asked[c].tool /\ asked'[c].reply = asked[c].reply
  PROVE  RemoteInv'
<1>1. Known' = Known
    BY DEF Known
<1>2. ASSUME NEW c \in Callers PROVE SeenInv(c)' /\ ReplyInv(c)'
  <2>1. SeenInv(c) /\ ReplyInv(c)
    BY DEF RemoteInv
  <2>2. CASE asked'[c].phase = "queued"
    BY <2>2 DEF SeenInv, ReplyInv
  <2>3. CASE seen[c] \subseteq seen'[c]
    <3>1. asked'[c].phase \in {"sent", "served"} =>
             \A t \in Known' : <<t, tasks'[t]>> \in seen'[c]
      BY <1>1, <2>1, <2>3 DEF SeenInv
    <3> QED
      BY <1>1, <2>1, <2>3, <3>1, CallStays
  <2> QED
    BY <2>2, <2>3
<1> QED
    BY <1>2 DEF RemoteInv

(* Asking, and the steps of a call that is waiting. *)
LEMMA AskKeeps ==
  ASSUME RemoteInv, NEW c \in Callers, NEW tool, NEW t, NEW valid, Ask(c, tool, t, valid)
  PROVE  RemoteInv'
<1>1. RemoteFunctions'
    BY DEF Ask, RemoteInv, RemoteFunctions, Unasked
<1>2. asked'[c].phase = "queued" /\ \A d \in Callers \ {c} : asked'[d] = asked[d] /\ seen'[d] = seen[d]
    BY DEF Ask, RemoteInv, RemoteFunctions, Unasked
<1> QED
    BY <1>1, <1>2, CallsKeep DEF Ask

(* The facts about a step of one call that CallsKeep asks for. *)
LEMMA OneCallKeeps ==
  ASSUME RemoteInv, NEW c \in Callers, UNCHANGED tasks, DOMAIN asked' = Callers, DOMAIN seen' = Callers,
         DOMAIN asked'[c] = DOMAIN Unasked,
         \A d \in Callers \ {c} : asked'[d] = asked[d] /\ seen'[d] = seen[d],
         seen[c] \subseteq seen'[c],
         asked'[c].phase \in {"sent", "served"} =>
            \/ asked[c].phase \in {"sent", "served"}
            \/ \A t \in Known : <<t, tasks[t]>> \in seen'[c],
         \/ asked'[c].phase \notin {"served", "answered"}
         \/ asked'[c].reply.kind # "data"
         \/ /\ asked[c].phase \in {"served", "answered"}
            /\ asked'[c].tool = asked[c].tool /\ asked'[c].reply = asked[c].reply
  PROVE  RemoteInv'
<1>1. RemoteFunctions'
    BY DEF RemoteInv, RemoteFunctions
<1>2. \A d \in Callers : seen[d] \subseteq seen'[d]
    OBVIOUS
<1>3. \A d \in Callers : asked'[d].phase \in {"sent", "served"} =>
         \/ asked[d].phase \in {"sent", "served"}
         \/ \A t \in Known : <<t, tasks[t]>> \in seen'[d]
    OBVIOUS
<1>4. \A d \in Callers :
         \/ asked'[d].phase \notin {"served", "answered"}
         \/ asked'[d].reply.kind # "data"
         \/ /\ asked[d].phase \in {"served", "answered"}
            /\ asked'[d].tool = asked[d].tool /\ asked'[d].reply = asked[d].reply
    OBVIOUS
<1> QED
    BY <1>1, <1>2, <1>3, <1>4, CallsKeep

(* A call that is taken, whether it is sent or refused. *)
LEMMA HandleKeeps == ASSUME RemoteInv, NEW c \in Callers, HandleToolsCall(c) PROVE RemoteInv'
<1>1. RemoteFunctions
    BY DEF RemoteInv
<1>2. CASE asked' = [asked EXCEPT ![c].phase = "sent"]
           /\ seen' = [seen EXCEPT ![c] = @ \cup {<<t, tasks[t]>> : t \in Known}]
  <2> DEFINE S == {<<t, tasks[t]>> : t \in Known}
  <2>1. \A t \in Known : <<t, tasks[t]>> \in S
    OBVIOUS
  <2>2. seen' = [seen EXCEPT ![c] = @ \cup S]
    BY <1>2
  <2> HIDE DEF S
  <2>3. seen'[c] = seen[c] \cup S /\ DOMAIN seen' = Callers /\ \A d \in Callers \ {c} : seen'[d] = seen[d]
    BY <1>1, <2>2 DEF RemoteFunctions
  <2>4. /\ DOMAIN asked' = Callers /\ DOMAIN asked'[c] = DOMAIN Unasked /\ asked'[c].phase = "sent"
        /\ \A d \in Callers \ {c} : asked'[d] = asked[d]
    BY <1>1, <1>2 DEF RemoteFunctions, Unasked
  <2> QED
    BY <2>1, <2>3, <2>4, OneCallKeeps DEF HandleToolsCall
<1>3. CASE asked' = [asked EXCEPT ![c].phase = "sleeping"] /\ seen' = seen
  <2>1. /\ DOMAIN asked' = Callers /\ DOMAIN asked'[c] = DOMAIN Unasked /\ asked'[c].phase = "sleeping"
        /\ \A d \in Callers \ {c} : asked'[d] = asked[d]
    BY <1>1, <1>3 DEF RemoteFunctions, Unasked
  <2> QED
    BY <1>1, <1>3, <2>1, OneCallKeeps DEF HandleToolsCall, RemoteFunctions
<1>4. CASE Answer(c, ApiError) /\ seen' = seen
  <2>1. /\ DOMAIN asked' = Callers /\ DOMAIN asked'[c] = DOMAIN Unasked /\ asked'[c].reply.kind # "data"
        /\ \A d \in Callers \ {c} : asked'[d] = asked[d]
        /\ asked'[c].phase = "answered"
    BY <1>1, <1>4 DEF RemoteFunctions, Unasked, Answer, ApiError
  <2> QED
    BY <1>1, <1>4, <2>1, OneCallKeeps DEF HandleToolsCall, RemoteFunctions
<1> QED
    BY <1>2, <1>3, <1>4 DEF HandleToolsCall, Send, Phase

(* A reply read by its caller: kept, turned into an error, or waited on. *)
LEMMA ReceiveKeeps == ASSUME RemoteInv, NEW c \in Callers, Receive(c) PROVE RemoteInv'
<1>1. RemoteFunctions
    BY DEF RemoteInv
<1>2. CASE asked' = [asked EXCEPT ![c].phase = "sleeping"]
  <2>1. /\ DOMAIN asked' = Callers /\ DOMAIN asked'[c] = DOMAIN Unasked /\ asked'[c].phase = "sleeping"
        /\ \A d \in Callers \ {c} : asked'[d] = asked[d]
    BY <1>1, <1>2 DEF RemoteFunctions, Unasked
  <2> QED
    BY <1>1, <2>1, OneCallKeeps DEF Receive, RemoteFunctions
<1>3. CASE Answer(c, Decode(asked[c].reply))
  <2>1. /\ DOMAIN asked' = Callers /\ DOMAIN asked'[c] = DOMAIN Unasked /\ asked'[c].phase = "answered"
        /\ asked'[c].tool = asked[c].tool /\ asked'[c].reply = Decode(asked[c].reply)
        /\ \A d \in Callers \ {c} : asked'[d] = asked[d]
    BY <1>1, <1>3 DEF RemoteFunctions, Unasked, Answer
  <2>2. asked'[c].reply.kind # "data" \/ asked'[c].reply = asked[c].reply
    BY <2>1 DEF Decode, ApiError
  <2> QED
    BY <1>1, <2>1, <2>2, OneCallKeeps DEF Receive, RemoteFunctions
<1> QED
    BY <1>2, <1>3 DEF Receive, Phase

(* Polls and timeouts. *)
LEMMA WaitKeeps ==
  ASSUME RemoteInv, NEW c \in Callers, WaitAgain(c) \/ WaitTimesOut(c) \/ RequestTimeout(c)
  PROVE  RemoteInv'
<1>1. RemoteFunctions
    BY DEF RemoteInv
<1>2. CASE WaitAgain(c)
  <2> DEFINE S == {<<t, tasks[t]>> : t \in Known}
  <2>1. \A t \in Known : <<t, tasks[t]>> \in S
    OBVIOUS
  <2>2. seen' = [seen EXCEPT ![c] = @ \cup S]
    BY <1>2 DEF WaitAgain
  <2> HIDE DEF S
  <2>3. seen'[c] = seen[c] \cup S /\ DOMAIN seen' = Callers /\ \A d \in Callers \ {c} : seen'[d] = seen[d]
    BY <1>1, <2>2 DEF RemoteFunctions
  <2>4. /\ DOMAIN asked' = Callers /\ DOMAIN asked'[c] = DOMAIN Unasked
        /\ asked'[c].phase \in {"sent", "sleeping"}
        /\ \A d \in Callers \ {c} : asked'[d] = asked[d]
    BY <1>1, <1>2 DEF RemoteFunctions, Unasked, WaitAgain
  <2> QED
    BY <1>2, <2>1, <2>3, <2>4, OneCallKeeps DEF WaitAgain
<1>3. CASE WaitTimesOut(c)
  <2>1. /\ DOMAIN asked' = Callers /\ DOMAIN asked'[c] = DOMAIN Unasked /\ asked'[c].phase = "answered"
        /\ asked'[c].reply.kind # "data"
        /\ \A d \in Callers \ {c} : asked'[d] = asked[d]
    BY <1>1, <1>3 DEF RemoteFunctions, Unasked, WaitTimesOut
  <2> QED
    BY <1>1, <1>3, <2>1, OneCallKeeps DEF WaitTimesOut, RemoteFunctions
<1>4. CASE RequestTimeout(c)
  <2>1. /\ DOMAIN asked' = Callers /\ asked'[c] = Dropped(c)
        /\ \A d \in Callers \ {c} : asked'[d] = asked[d]
    BY <1>1, <1>4 DEF RemoteFunctions, RequestTimeout
  <2>2. /\ DOMAIN Dropped(c) = DOMAIN Unasked /\ Dropped(c).reply.kind # "data"
        /\ Dropped(c).phase \notin {"sent", "served"}
    BY <1>1 DEF RemoteFunctions, Dropped, Unasked, Nothing, ApiError
  <2> QED
    BY <1>1, <1>4, <2>1, <2>2, OneCallKeeps DEF RequestTimeout, RemoteFunctions
<1> QED
    BY <1>2, <1>3, <1>4

(* The end of a shutdown drops the requests that are still in flight. *)
LEMMA ShutdownKeeps == ASSUME RemoteInv, ShutdownEnds PROVE RemoteInv'
<1>1. RemoteFunctions
    BY DEF RemoteInv
<1>2. ASSUME NEW c \in Callers
      PROVE  /\ DOMAIN Dropped(c) = DOMAIN Unasked /\ Dropped(c).reply.kind # "data"
             /\ Dropped(c).phase \notin {"sent", "served"}
    BY <1>1 DEF RemoteFunctions, Dropped, Unasked, Nothing, ApiError
<1>3. \A c \in Callers : asked'[c] = asked[c] \/ asked'[c] = Dropped(c)
    BY DEF ShutdownEnds
<1>4. RemoteFunctions'
    BY <1>1, <1>2, <1>3 DEF RemoteFunctions, ShutdownEnds
<1>5. \A c \in Callers : seen[c] \subseteq seen'[c]
    BY DEF ShutdownEnds
<1>6. \A c \in Callers :
         /\ asked'[c].phase \in {"sent", "served"} => asked[c].phase \in {"sent", "served"}
         /\ \/ asked'[c].phase \notin {"served", "answered"}
            \/ asked'[c].reply.kind # "data"
            \/ /\ asked[c].phase \in {"served", "answered"}
               /\ asked'[c].tool = asked[c].tool /\ asked'[c].reply = asked[c].reply
    BY <1>2, <1>3
<1> QED
    BY <1>4, <1>5, <1>6, CallsKeep DEF ShutdownEnds

(* The tasks an outcome leaves: none goes away. *)
LEMMA OutcomeGrows ==
  ASSUME RemoteInv, NEW o, o.tasks = tasks \/ \E u : Submitted(o, u)
  PROVE  DOMAIN o.tasks = TaskIds /\ \A t \in TaskIds : tasks[t] # "none" => o.tasks[t] # "none"
    BY DEF Submitted, RemoteInv, RemoteFunctions

(* A reply with data is about tasks as they are when it is written. *)
LEMMA ServeKeeps == ASSUME RemoteInv, NEW c \in Callers, Serve(c) PROVE RemoteInv'
<1>1. RemoteFunctions /\ asked[c].phase = "sent"
    BY DEF RemoteInv, Serve
<1>2. PICK o \in Served(RequestOf(c)) :
         /\ Observe(o.tasks)
         /\ asked' = [asked EXCEPT ![c].phase = "served", ![c].reply = o.reply]
    BY DEF Serve
<1>3. /\ tasks' = o.tasks /\ DOMAIN seen' = Callers /\ Known \subseteq Known'
      /\ \A d \in Callers : seen[d] \subseteq seen'[d]
      /\ \A d \in Callers : asked[d].phase \in {"sent", "served"} =>
            \A t \in Known' : <<t, tasks'[t]>> \in seen'[d]
    BY <1>2, ServedTasks, OutcomeGrows, ObserveGrows
<1>4. /\ DOMAIN asked' = Callers /\ DOMAIN asked'[c] = DOMAIN Unasked /\ asked'[c].phase = "served"
      /\ asked'[c].tool = asked[c].tool /\ asked'[c].reply = o.reply
      /\ \A d \in Callers \ {c} : asked'[d] = asked[d]
    BY <1>1, <1>2 DEF RemoteFunctions, Unasked
<1>5. RemoteFunctions'
    BY <1>1, <1>2, <1>3, <1>4, ServedTasks, OutcomeGrows DEF RemoteFunctions
<1>6. ASSUME NEW d \in Callers \ {c} PROVE SeenInv(d)' /\ ReplyInv(d)'
  <2>1. SeenInv(d) /\ ReplyInv(d) /\ asked'[d] = asked[d]
    BY <1>4 DEF RemoteInv
  <2>2. CASE asked[d].phase \in {"served", "answered"}
    BY <1>3, <2>1, <2>2, CallStays
  <2>3. CASE asked[d].phase \notin {"served", "answered"}
    BY <1>3, <2>1, <2>3, CallStays
  <2> QED
    BY <2>2, <2>3
<1>7. SeenInv(c)'
    BY <1>1, <1>3 DEF SeenInv
<1>8. ReplyInv(c)'
  <2> SUFFICES ASSUME o.reply.kind = "data" PROVE ReplyInv(c)'
    BY <1>4 DEF ReplyInv
  <2> DEFINE t == asked[c].task
             tool == asked[c].tool
             v == o.reply.value
  <2>1. /\ tool \in {"task_submit", "Submit"} =>
              \E u : Submitted(o, u) /\ v = [task |-> u, status |-> StatusString["pending"]]
        /\ tool \in {"task_status", "Get", "task_wait"} =>
              t \in Known /\ o.tasks = tasks /\ v = [task |-> t, status |-> StatusString[tasks[t]]]
        /\ tool = "task_list" =>
              o.tasks = tasks /\ v = {[task |-> x, status |-> StatusString[tasks[x]]] : x \in Known}
    <3>1. o \in Served(AllTools(t)[tool])
      BY <1>2, Zenon DEF RequestOf
    <3>2. Says(tool, t, o)
      BY <3>1, ServedReplies, Zenon
    <3> QED
      BY <3>2, Zenon DEF Says
  <2>2. ASSUME NEW x, NEW u \in Known', x = [task |-> u, status |-> StatusString[tasks'[u]]]
        PROVE  Held(c, x)'
    <3>1. <<u, tasks'[u]>> \in seen'[c]
      BY <1>1, <1>3
    <3> QED
      BY <2>2, <3>1 DEF Held
  <2>3. CASE tool \in {"task_submit", "Submit"}
    <3>1. PICK u : Submitted(o, u) /\ v = [task |-> u, status |-> StatusString["pending"]]
      BY <2>1, <2>3
    <3>2. u \in Known' /\ tasks'[u] = "pending"
      BY <1>1, <1>3, <3>1 DEF Submitted, Known, RemoteFunctions
    <3>3. Held(c, v)' /\ v.task \in Known'
      BY <2>2, <3>1, <3>2
    <3> QED
      BY <1>4, <2>3, <3>3 DEF ReplyInv
  <2>4. CASE tool \in {"task_status", "Get", "task_wait"}
    <3>1. Held(c, v)'
      BY <1>3, <2>1, <2>2, <2>4
    <3> QED
      BY <1>4, <2>4, <3>1 DEF ReplyInv
  <2>5. CASE tool = "task_list"
    <3>1. \A x \in v : Held(c, x)'
      BY <1>3, <2>1, <2>2, <2>5
    <3> QED
      BY <1>4, <2>5, <3>1 DEF ReplyInv
  <2> QED
    BY <1>4, <2>3, <2>4, <2>5 DEF ReplyInv
<1> QED
    BY <1>5, <1>6, <1>7, <1>8 DEF RemoteInv

(* The submissions nobody waits for, and the platform's own steps. *)
LEMMA TasksKeep ==
  ASSUME RemoteInv, LateSubmit \/ \E t \in TaskIds, s \in TaskStatuses : TaskMoves(t, s)
  PROVE  RemoteInv'
<1>1. CASE LateSubmit
  <2>1. PICK o \in IF token = "malformed" THEN NoEffect(Foreign) ELSE SubmitTask(StatusString) :
          Observe(o.tasks)
    BY <1>1 DEF LateSubmit
  <2>2. o.tasks = tasks \/ \E u : Submitted(o, u)
    BY <2>1, NoEffectIsNone, SubmitOutcomes
  <2> QED
    BY <1>1, <2>1, <2>2, OutcomeGrows, ObserveKeeps DEF LateSubmit
<1>2. ASSUME NEW t \in TaskIds, NEW s \in TaskStatuses, TaskMoves(t, s) PROVE RemoteInv'
  <2> DEFINE ts == [tasks EXCEPT ![t] = s]
  <2>1. Observe(ts) /\ UNCHANGED asked
    BY <1>2 DEF TaskMoves
  <2>2. s # "none"
    BY DEF TaskStatuses
  <2>3. DOMAIN ts = TaskIds /\ \A u \in TaskIds : tasks[u] # "none" => ts[u] # "none"
    BY <2>2 DEF RemoteInv, RemoteFunctions
  <2> QED
    BY <2>1, <2>3, ObserveKeeps
<1> QED
    BY <1>1, <1>2

(* A call at the gateway has seen every task as it is, and the data of a    *)
(* reply is what its call has seen.                                         *)
THEOREM RemoteInvariant == RemoteSpec => []RemoteInv
<1>1. RemoteInit => RemoteInv
  <2> SUFFICES ASSUME RemoteInit PROVE RemoteInv
    OBVIOUS
  <2>1. RemoteFunctions /\ \A c \in Callers : asked[c].phase = "idle"
    BY DEF RemoteInit, RemoteFunctions, Unasked
  <2> QED
    BY <2>1 DEF RemoteInv, SeenInv, ReplyInv
<1>2. RemoteInv /\ [RemoteNext]_remoteVars => RemoteInv'
  <2> SUFFICES ASSUME RemoteInv, [RemoteNext]_remoteVars PROVE RemoteInv'
    OBVIOUS
  <2>1. ASSUME NEW c \in Callers, NEW tool \in Tools, NEW t \in TaskIds, NEW v \in BOOLEAN, Ask(c, tool, t, v)
        PROVE  RemoteInv'
    BY <2>1, AskKeeps
  <2>2. ASSUME NEW c \in Callers, HandleToolsCall(c) PROVE RemoteInv'
    BY <2>2, HandleKeeps
  <2>3. ASSUME NEW c \in Callers, Serve(c) PROVE RemoteInv'
    BY <2>3, ServeKeeps
  <2>4. ASSUME NEW c \in Callers, Receive(c) PROVE RemoteInv'
    BY <2>4, ReceiveKeeps
  <2>5. ASSUME NEW c \in Callers, WaitAgain(c) \/ WaitTimesOut(c) \/ RequestTimeout(c) PROVE RemoteInv'
    BY <2>5, WaitKeeps
  <2>6. CASE LateSubmit \/ \E t \in TaskIds, s \in TaskStatuses : TaskMoves(t, s)
    BY <2>6, TasksKeep
  <2>7. CASE ShutdownEnds
    BY <2>7, ShutdownKeeps
  <2>8. CASE GatewayStop \/ GatewayStart \/ UNCHANGED remoteVars
    <3>1. UNCHANGED <<tasks, asked, seen>>
      BY <2>8 DEF GatewayStop, GatewayStart, remoteVars
    <3> QED
      BY <3>1 DEF RemoteInv, RemoteFunctions, SeenInv, ReplyInv, Held, Known
  <2> QED
    BY <2>1, <2>2, <2>3, <2>4, <2>5, <2>6, <2>7, <2>8 DEF RemoteNext
<1> QED
    BY <1>1, <1>2, PTL DEF RemoteSpec

(* What a tool reports without an error was so while its call ran, for any  *)
(* number of callers, tasks, polls, lost connections and restarts of the    *)
(* gateway.                                                                 *)
THEOREM ReportsAreReal == RemoteSpec => []ReportedIsReal
<1>1. RemoteInv => ReportedIsReal
  <2> SUFFICES ASSUME RemoteInv, NEW c \in Callers,
                      asked[c].phase = "answered", asked[c].reply.kind = "data"
               PROVE  LET v == asked[c].reply.value
                      IN  /\ Succeeded(c, {"task_submit", "Submit"}) => v.task \in Known
                          /\ Succeeded(c, {"task_submit", "Submit", "task_status", "Get", "task_wait"}) => Held(c, v)
                          /\ Succeeded(c, {"task_list"}) => \A x \in v : Held(c, x)
    BY DEF ReportedIsReal, Succeeded
  <2>1. ReplyInv(c)
    BY DEF RemoteInv
  <2> QED
    BY <2>1 DEF ReplyInv, Succeeded
<1> QED
    BY <1>1, RemoteInvariant, PTL
=============================================================================
