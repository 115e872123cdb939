---------------------------- MODULE PeerSession ----------------------------
(***************************************************************************)
(* One client, a key pubkey|clientId, on its WebSockets: handleUpgrade of  *)
(* src/src/direct-rpc.ts, the rooms its channel has one after the other,   *)
(* its place in the peer table, and the transports of that place with      *)
(* their 15 s sweep timers (createWebRtcTransport of                       *)
(* src/src/room-mediasoup.ts).                                             *)
(*                                                                         *)
(* A socket handles its messages one after the other, but goes on handling *)
(* them when it is closed: the queue is a promise chain.  Two sockets of   *)
(* the client share the place.  What other devices see is SfuRoom's.       *)
(***************************************************************************)
EXTENDS Naturals

CONSTANTS
  MaxSockets,  \* bound: connections of the client, in the order they come
  MaxRooms,    \* bound: rooms the channel has, one after the other
  MaxInbox     \* bound: messages of a socket waiting for their turn

ASSUME SessionAssumption ==
  /\ MaxSockets \in Nat \ {0}
  /\ MaxRooms \in Nat \ {0}
  /\ MaxInbox \in Nat \ {0}

VARIABLES
  status,    \* per room: "unborn", "starting", "active", "closed"
  listed,    \* rooms.get(channelId), 0 when undefined
  conn,      \* per socket: "none", "open", "ending" (closing), "closed" (cleaned)
  auth,      \* per socket: "no", "starting" (awaits rooms.start), "yes"
  bound,     \* per socket: its room
  inbox,     \* per socket: messages on the chain
  call,      \* per socket: the createWebRtcTransport it awaits
  sessions,  \* directSessions: pairs of a room and a socket
  inTable,   \* the client is in the peer table of the listed room
  link,      \* sendTransport and recvTransport of that PeerState
  leftover,  \* a transport this PeerState replaced has its timer armed
  orphan,    \* a PeerState that left the table has a transport
  swept      \* history: whether the last sweep met a client in order

sockets == <<conn, auth, bound, inbox, call, sessions>>
place == <<inTable, link, leftover, orphan, swept>>
rooms == <<status, listed>>
vars == <<rooms, sockets, place>>

Rooms == 1..MaxRooms
Sockets == 1..MaxSockets
Directions == {"send", "recv"}
NoLink == [ice |-> "none", dtls |-> "none", timer |-> FALSE]
NewLink == [ice |-> "new", dtls |-> "new", timer |-> FALSE]
NoLinks == [d \in Directions |-> NoLink]
NoCall == [dir |-> "none", live |-> FALSE]
Is(d) == link[d] # NoLink
Other(d) == IF d = "send" THEN "recv" ELSE "send"

\* A type invariant: transports, timers and requests that will attach one
\* belong to a PeerState in the table of an active room.
TypeOK ==
  /\ status \in [Rooms -> {"unborn", "starting", "active", "closed"}]
  /\ listed \in 0..MaxRooms
  /\ conn \in [Sockets -> {"none", "open", "ending", "closed"}]
  /\ auth \in [Sockets -> {"no", "starting", "yes"}]
  /\ bound \in [Sockets -> 0..MaxRooms]
  /\ inbox \in [Sockets -> 0..MaxInbox]
  /\ call \in [Sockets -> [dir : Directions \union {"none"}, live : BOOLEAN]]
  /\ sessions \subseteq Rooms \X Sockets
  /\ inTable \in BOOLEAN /\ leftover \in BOOLEAN /\ orphan \in BOOLEAN
  /\ link \in [Directions -> [ice : {"none", "new", "up", "down"},
                 dtls : {"none", "new", "connecting", "up", "failed", "closed"},
                 timer : BOOLEAN]]
  /\ swept \in {"no", "replaced", "healthy"}
  /\ inTable => listed # 0 /\ status[listed] = "active"
  /\ leftover \/ link # NoLinks \/ (\E s \in Sockets : call[s].live) => inTable

Init ==
  /\ status = [r \in Rooms |-> "unborn"] /\ listed = 0
  /\ conn = [s \in Sockets |-> "none"]
  /\ auth = [s \in Sockets |-> "no"]
  /\ bound = [s \in Sockets |-> 0]
  /\ inbox = [s \in Sockets |-> 0]
  /\ call = [s \in Sockets |-> NoCall]
  /\ sessions = {}
  /\ inTable = FALSE /\ link = NoLinks
  /\ leftover = FALSE /\ orphan = FALSE
  /\ swept = "no"

----------------------------------------------------------------------------
(* The place in the table *)

\* The peer leaves the table: dropStalePeer, handlePeerLeft and close all
\* clear its timers and close its transports; a request goes on without it.
Detached(C) == [s \in Sockets |-> [C[s] EXCEPT !.live = FALSE]]
Drop(C) ==
  /\ inTable' = FALSE
  /\ link' = NoLinks
  /\ leftover' = FALSE
  /\ call' = Detached(C)

\* handleDirectDisconnect and leave: by key, whoever asks.
DropIfThere(s) ==
  IF inTable /\ bound[s] = listed
  THEN Drop(call) /\ UNCHANGED <<orphan, swept>>
  ELSE UNCHANGED <<place, call>>

----------------------------------------------------------------------------
(* The rooms of the channel *)

\* close() up to its await; a room that is ended while it starts is SfuRooms'.
RoomCloses ==
  /\ listed # 0 /\ status[listed] = "active"
  /\ status' = [status EXCEPT ![listed] = "closed"]
  /\ Drop(call)
  /\ orphan' = FALSE
  /\ UNCHANGED <<listed, conn, auth, bound, inbox, sessions, swept>>

Forget ==
  /\ listed # 0 /\ status[listed] = "closed"
  /\ listed' = 0
  /\ UNCHANGED <<status, sockets, place>>

----------------------------------------------------------------------------
(* Connections *)

Upgrade(s) ==
  /\ conn[s] = "none" /\ \A t \in 1..(s - 1) : conn[t] # "none"
  /\ conn' = [conn EXCEPT ![s] = "open"]
  /\ UNCHANGED <<rooms, auth, bound, inbox, call, sessions, place>>

Reading(s) == conn[s] \in {"open", "ending"}
Busy(s) == auth[s] = "starting" \/ call[s].dir # "none"

\* A message that comes while the chain is busy waits.
Queue(s) ==
  /\ Reading(s) /\ Busy(s)
  /\ inbox[s] < MaxInbox
  /\ inbox' = [inbox EXCEPT ![s] = @ + 1]
  /\ UNCHANGED <<rooms, conn, auth, bound, call, sessions, place>>

CloseWith(s) ==
  conn' = [conn EXCEPT ![s] = IF @ = "open" THEN "ending" ELSE @]

\* authTimer; it is cleared by cleanup and by a success.
TimerRunsUntilMessage(s) == conn[s] = "open" /\ auth[s] = "no"
TimerRuns(s) == conn[s] = "open" /\ auth[s] # "yes"
AuthTimeout(s) ==
  /\ TimerRuns(s)
  /\ CloseWith(s)
  /\ UNCHANGED <<rooms, auth, bound, inbox, call, sessions, place>>

\* unregisterDirect takes the socket's own callback off the set of its key.
UnregisterKey(s) == sessions \ ({bound[s]} \X Sockets)
Unregister(s) == sessions \ {<<bound[s], s>>}

\* cleanup(): a socket that never authenticated has nothing to undo.
SocketCloses(s) ==
  /\ Reading(s)
  /\ conn' = [conn EXCEPT ![s] = "closed"]
  /\ \/ auth[s] = "yes" /\ sessions' = Unregister(s) /\ DropIfThere(s)
     \/ auth[s] # "yes" /\ UNCHANGED <<sessions, place, call>>
  /\ UNCHANGED <<rooms, auth, bound, inbox>>

----------------------------------------------------------------------------
(* The messages of a socket, in turn *)

\* The next one that waits, or with an idle chain one that comes now.
Take(s) ==
  /\ ~Busy(s)
  /\ \/ inbox[s] > 0 /\ inbox' = [inbox EXCEPT ![s] = @ - 1]
     \/ inbox[s] = 0 /\ Reading(s) /\ UNCHANGED inbox

\* No JSON, no authentication, a refused one, no request: closeWith.
BadMessage(s) ==
  /\ Take(s)
  /\ CloseWith(s)
  /\ UNCHANGED <<rooms, auth, bound, call, sessions, place>>

\* The session is registered and the socket authenticated, in whatever state
\* the room and the connection are.
Authenticated(s, r) ==
  /\ auth' = [auth EXCEPT ![s] = "yes"]
  /\ bound' = [bound EXCEPT ![s] = r]
  /\ sessions' = sessions \union {<<r, s>>}

AuthJoins(s) ==
  /\ auth[s] = "no"
  /\ Take(s)
  /\ listed # 0
  /\ Authenticated(s, listed)
  /\ UNCHANGED <<rooms, conn, call, place>>

AuthStarts(s) ==
  /\ auth[s] = "no"
  /\ Take(s)
  /\ listed = 0
  /\ \E r \in Rooms :
       /\ status[r] = "unborn" /\ \A q \in 1..(r - 1) : status[q] # "unborn"
       /\ status' = [status EXCEPT ![r] = "starting"]
       /\ listed' = r
       /\ bound' = [bound EXCEPT ![s] = r]
  /\ auth' = [auth EXCEPT ![s] = "starting"]
  /\ UNCHANGED <<conn, call, sessions, place>>

Started(s) ==
  /\ auth[s] = "starting"
  /\ status' = [status EXCEPT ![bound[s]] = "active"]
  /\ Authenticated(s, bound[s])
  /\ UNCHANGED <<listed, conn, inbox, call, place>>

StartFails(s) ==
  /\ auth[s] = "starting"
  /\ status' = [status EXCEPT ![bound[s]] = "closed"]
  /\ listed' = 0
  /\ auth' = [auth EXCEPT ![s] = "no"]
  /\ CloseWith(s)
  /\ UNCHANGED <<bound, inbox, call, sessions, place>>

\* ROOM_NOT_ACTIVE, DIAL_REJECTED, or a method that changes nothing here.
Answered(s) ==
  /\ auth[s] = "yes"
  /\ Take(s)
  /\ UNCHANGED <<rooms, conn, auth, bound, call, sessions, place>>

Request(s) ==
  /\ auth[s] = "yes"
  /\ Take(s)
  /\ status[bound[s]] = "active"
  /\ UNCHANGED <<rooms, conn, auth, bound, sessions>>

Asked(s, d, live) == [call EXCEPT ![s] = [dir |-> d, live |-> live]]

\* getOrCreatePeer, then the await of createWebRtcTransport.
CreateFirst(s, d) ==
  /\ Request(s)
  /\ ~Is(d)
  /\ inTable' = TRUE
  /\ call' = Asked(s, d, TRUE)
  /\ swept' = "no"
  /\ UNCHANGED <<link, leftover, orphan>>

\* The old transport is closed; its timer, if armed, is not cancelled.
CreateAgain(s, d) ==
  /\ Request(s)
  /\ Is(d) /\ Is(Other(d))
  /\ link' = [link EXCEPT ![d] = NoLink]
  /\ leftover' = (leftover \/ link[d].timer)
  /\ call' = Asked(s, d, TRUE)
  /\ UNCHANGED <<inTable, orphan, swept>>

\* The only transport: its close observer takes the peer off the table.
CreateOnlyAgain(s, d) ==
  /\ Request(s)
  /\ Is(d) /\ ~Is(Other(d))
  /\ Drop(Asked(s, d, TRUE))
  /\ UNCHANGED <<orphan, swept>>

LeaveRpc(s) ==
  /\ Request(s)
  /\ DropIfThere(s)

\* connectWebRtcTransport up to its await.
Connect(s, d) ==
  /\ Request(s)
  /\ link[d].dtls = "new"
  /\ link' = [link EXCEPT ![d].dtls = "connecting"]
  /\ UNCHANGED <<inTable, leftover, orphan, swept, call>>

\* The transport goes to the PeerState the request holds.  Bound: one that a
\* second request of the same direction displaces reports nothing more.
AttachesAlways(c) == TRUE
Attaches(c) == c.live
TransportReady(s) ==
  /\ call[s].dir # "none"
  /\ status[bound[s]] = "active"
  /\ call' = [call EXCEPT ![s] = NoCall]
  /\ LET d == call[s].dir IN
     IF Attaches(call[s])
     THEN /\ link' = [link EXCEPT ![d] = NewLink]
          /\ leftover' = (leftover \/ link[d].timer)
          /\ UNCHANGED orphan
     ELSE orphan' = TRUE /\ UNCHANGED <<link, leftover>>
  /\ UNCHANGED <<rooms, conn, auth, bound, inbox, sessions, inTable, swept>>

CallFails(s) ==
  /\ call[s].dir # "none"
  /\ call' = [call EXCEPT ![s] = NoCall]
  /\ UNCHANGED <<rooms, conn, auth, bound, inbox, sessions, place>>

----------------------------------------------------------------------------
(* Transports and their sweep timers *)

\* armUnhealthyTimer and cancelUnhealthyTimer
ArmOnceUp(l) == l.timer \/ l.dtls = "up"
Arm(l) == TRUE

Reports(d, ice, dtls, timer) ==
  /\ link' = [link EXCEPT ![d] = [ice |-> ice, dtls |-> dtls, timer |-> timer]]
  /\ UNCHANGED <<rooms, sockets, inTable, leftover, orphan, swept>>

IceUp(d) ==
  /\ link[d].ice \in {"new", "down"}
  /\ Reports(d, "up", link[d].dtls, FALSE)
IceDown(d) ==
  /\ link[d].ice = "up"
  /\ Reports(d, "down", link[d].dtls, Arm(link[d]))
DtlsUp(d) ==
  /\ link[d].dtls = "connecting" /\ link[d].ice = "up"
  /\ Reports(d, "up", "up", FALSE)
DtlsFails(d) ==
  /\ link[d].dtls = "connecting" /\ link[d].ice # "new"
  /\ Reports(d, link[d].ice, "failed", Arm(link[d]))
DtlsCloses(d) ==
  /\ link[d].dtls = "up"
  /\ Reports(d, link[d].ice, "closed", FALSE)

Troubled(l) == l.ice = "down" \/ l.dtls = "failed"
InTrouble == \E d \in Directions : Troubled(link[d])

\* The callback's check: peers.get(key) === peer, for the timer's PeerState.
StillPeerByKey(mine) == inTable
StillPeer(mine) == mine /\ inTable
InOrder == \A d \in Directions : link[d].ice = "up" /\ link[d].dtls = "up"

SweepTimer(d) ==
  /\ link[d].timer
  /\ StillPeer(TRUE)
  /\ Drop(call)
  /\ swept' = IF InTrouble THEN "no" ELSE "healthy"
  /\ UNCHANGED <<rooms, conn, auth, bound, inbox, sessions, orphan>>

SweepReplaced ==
  /\ leftover
  /\ StillPeer(TRUE)
  /\ Drop(call)
  /\ swept' = IF InOrder THEN "replaced" ELSE "no"
  /\ UNCHANGED <<rooms, conn, auth, bound, inbox, sessions, orphan>>

SweepOrphan ==
  /\ orphan
  /\ orphan' = FALSE
  /\ IF StillPeer(FALSE) THEN Drop(call) /\ swept' = "healthy"
     ELSE UNCHANGED <<inTable, link, leftover, call, swept>>
  /\ UNCHANGED <<rooms, conn, auth, bound, inbox, sessions>>

----------------------------------------------------------------------------
Connection(s) ==
  Upgrade(s) \/ Queue(s) \/ AuthTimeout(s) \/ SocketCloses(s)
Message(s) ==
  \/ BadMessage(s) \/ AuthJoins(s) \/ AuthStarts(s) \/ Started(s)
  \/ StartFails(s) \/ Answered(s) \/ LeaveRpc(s)
  \/ TransportReady(s) \/ CallFails(s)
  \/ \E d \in Directions :
       \/ CreateFirst(s, d) \/ CreateAgain(s, d) \/ CreateOnlyAgain(s, d)
       \/ Connect(s, d)
Media(d) ==
  IceUp(d) \/ IceDown(d) \/ DtlsUp(d) \/ DtlsFails(d) \/ DtlsCloses(d)

Next ==
  \/ RoomCloses \/ Forget
  \/ \E s \in Sockets : Connection(s) \/ Message(s)
  \/ \E d \in Directions : Media(d) \/ SweepTimer(d)
  \/ SweepReplaced \/ SweepOrphan

Fairness ==
  /\ \A s \in Sockets : WF_vars(AuthTimeout(s))
  /\ \A d \in Directions : WF_vars(SweepTimer(d))

Spec == Init /\ [][Next]_vars /\ Fairness

----------------------------------------------------------------------------
(* Properties *)

\* An authenticated socket that is open hears the notifications of its room,
\* whatever other sockets of the same client come and go.
SessionsFollowSockets ==
  \A s \in Sockets :
    auth[s] = "yes" /\ Reading(s) => <<bound[s], s>> \in sessions

\* A sweep takes a client off the table for a transport of its present stay
\* that is in trouble or was when it was replaced: never for one that
\* recovered, nor for one of an earlier stay.
SweptForTrouble == swept # "healthy"

\* "ICE/DTLS state can flap during normal wifi handoff; the timer arms on a
\* bad transition and disarms on a recovery, so a brief blip doesn't trigger
\* a reap": a client whose transports are in order is not swept.
SweepSparesReconnected == swept # "replaced"

\* A connection that does not authenticate is closed, also one whose
\* authentication waits for a room that does not come up.
SilentSocketCloses ==
  \A s \in Sockets :
    conn[s] = "open" /\ auth[s] # "yes" ~> conn[s] # "open" \/ auth[s] = "yes"

\* A client whose ICE is down and stays down goes, or replaces the transport,
\* however often it flapped before; one that ended DTLS is left to the reaper.
IceDownIsSwept ==
  \A d \in Directions :
    LET Lost == link[d].ice = "down" /\ link[d].dtls # "closed" IN
    Lost ~> ~Lost

\* What it rests on: the timer of such a transport is armed, and a timer that is
\* armed can take its client, which is in the table.
IceDownIsArmed ==
  \A d \in Directions :
    link[d].ice = "down" /\ link[d].dtls # "closed" => link[d].timer /\ inTable

\* The rooms a client meets live as RoomLife has it, which is what SfuRooms
\* makes of the rooms of a channel: their starts, closes and end reach the
\* sockets in no other order.
RoomOf(c) == IF listed = 0 THEN "none" ELSE status[listed]
Met == INSTANCE RoomLife
  WITH Channels <- {"its channel"}, life <- [c \in {"its channel"} |-> RoomOf(c)]
MeetsRoomLife == Met!Spec
=============================================================================
