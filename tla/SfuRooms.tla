------------------------------ MODULE SfuRooms ------------------------------
(***************************************************************************)
(* The rooms of one SFU process: RoomManager (src/src/room-manager.ts),    *)
(* start() and close() of MediasoupRoom, the routers of MediasoupEngine,   *)
(* and who calls them: the control listener, the direct /rpc socket, the   *)
(* timers of a room and the shutdown of index.ts.                          *)
(*                                                                         *)
(* A slot is a MediasoupRoom object; the router created for it bears its   *)
(* name.  start() awaits the creation of the router, close() the publish   *)
(* of the last kind 31314.  SfuRoom has what happens in an active room.    *)
(***************************************************************************)
EXTENDS Naturals, FiniteSets

CONSTANTS
  Channels,   \* channel ids
  Slots,      \* room objects; bounds those that exist at once
  None,       \* no room, no router, no channel
  MaxRooms    \* cfg.maxRooms

ASSUME RoomsAssumption ==
  /\ None \notin Slots \union Channels
  /\ MaxRooms \in Nat

VARIABLES
  rooms,     \* RoomManager.rooms
  status,    \* _status of each room; "free" before the constructor
  chan,      \* channelId of each room
  creating,  \* rooms whose start() awaits worker.createRouter
  closing,   \* per room: close() calls that await their publish
  routers,   \* MediasoupEngine's routers, by channel
  router,    \* this.router of each room
  alive,     \* the routers that are open
  draining,  \* RoomManager.draining
  phase,     \* "up"; of shutdown(): "closing", "stopping"; "down"
  awaited,   \* the rooms whose close() closeAll awaits
  cutShort   \* history: the channels where a starting room was closed

vars == <<rooms, status, chan, creating, closing, routers, router, alive,
          draining, phase, awaited, cutShort>>
process == <<draining, phase>>

Listed == {c \in Channels : rooms[c] # None}

\* A type invariant; a room closes twice at most, once while it starts.
TypeOK ==
  /\ rooms \in [Channels -> Slots \union {None}]
  /\ status \in [Slots -> {"free", "starting", "active", "closed"}]
  /\ chan \in [Slots -> Channels \union {None}]
  /\ creating \in SUBSET Slots
  /\ closing \in [Slots -> 0..2]
  /\ routers \in [Channels -> Slots \union {None}]
  /\ router \in [Slots -> Slots \union {None}]
  /\ alive \in SUBSET Slots
  /\ draining \in BOOLEAN
  /\ phase \in {"up", "closing", "stopping", "down"}
  /\ awaited \in SUBSET Slots
  /\ cutShort \in SUBSET Channels

----------------------------------------------------------------------------
Init ==
  /\ rooms = [c \in Channels |-> None]
  /\ status = [s \in Slots |-> "free"]
  /\ chan = [s \in Slots |-> None]
  /\ creating = {}
  /\ closing = [s \in Slots |-> 0]
  /\ routers = [c \in Channels |-> None]
  /\ router = [s \in Slots |-> None]
  /\ alive = {}
  /\ draining = FALSE /\ phase = "up"
  /\ awaited = {} /\ cutShort = {}

----------------------------------------------------------------------------
(* RoomManager.start and MediasoupRoom.start *)

\* What both doors check just before RoomManager.start, with no await between.
ActiveOnly == {c \in Listed : status[rooms[c]] = "active"}
RoomForOneMoreActive(c) == rooms[c] = None /\ Cardinality(ActiveOnly) < MaxRooms
RoomForOneMore(c) == rooms[c] = None /\ Cardinality(Listed) < MaxRooms

\* The room is listed before its start() awaits.  getRouter returns the
\* channel's router if it has one, else it has the worker create one.
Start(c, s) ==
  /\ RoomForOneMore(c)
  /\ status[s] = "free"
  /\ rooms' = [rooms EXCEPT ![c] = s]
  /\ chan' = [chan EXCEPT ![s] = c]
  /\ IF routers[c] = None
     THEN /\ status' = [status EXCEPT ![s] = "starting"]
          /\ creating' = creating \union {s}
          /\ UNCHANGED router
     ELSE /\ status' = [status EXCEPT ![s] = "active"]
          /\ router' = [router EXCEPT ![s] = routers[c]]
          /\ UNCHANGED creating
  /\ UNCHANGED <<closing, routers, alive, process, awaited, cutShort>>

\* A `start` control event: the listener never asks isDraining.
StartByControl(c, s) == phase = "up" /\ Start(c, s)

\* An authenticated direct socket opens the room of its channel; nothing keeps
\* sockets from doing so while the process shuts down.
StartByDirect(c, s) == ~draining /\ phase # "down" /\ Start(c, s)

\* The router is there: the room turns active, whatever became of it meanwhile.
RouterReady(s) ==
  /\ phase # "down"
  /\ s \in creating
  /\ creating' = creating \ {s}
  /\ routers' = [routers EXCEPT ![chan[s]] = s]
  /\ router' = [router EXCEPT ![s] = s]
  /\ alive' = alive \union {s}
  /\ status' = [status EXCEPT ![s] = "active"]
  /\ UNCHANGED <<rooms, chan, closing, process, awaited, cutShort>>

\* createRouter rejects: RoomManager.start deletes the channel's entry.
RouterFails(s) ==
  /\ phase # "down"
  /\ s \in creating
  /\ creating' = creating \ {s}
  /\ rooms' = [rooms EXCEPT ![chan[s]] = None]
  /\ UNCHANGED <<status, chan, closing, routers, router, alive, process, awaited,
                 cutShort>>

----------------------------------------------------------------------------
(* MediasoupRoom.close *)

\* close() returns at once when the room is closed.
MayCloseAgain(s) == status[s] # "free"
MayClose(s) == status[s] \in {"starting", "active"}

\* The rooms S close, each up to the await of its publish; closeRouter has
\* deleted and closed the channel's router by then.
RoutersKept(S) == routers
RoutersAfter(S) ==
  [c \in Channels |-> IF c \in {chan[s] : s \in S} THEN None ELSE routers[c]]
Shut(S) ==
  /\ status' = [s \in Slots |-> IF s \in S THEN "closed" ELSE status[s]]
  /\ closing' = [s \in Slots |-> closing[s] + IF s \in S THEN 1 ELSE 0]
  /\ alive' = alive \ {routers[chan[s]] : s \in S}
  /\ routers' = RoutersAfter(S)
  /\ router' = [s \in Slots |-> IF s \in S THEN None ELSE router[s]]
  /\ cutShort' = cutShort \union
                 {chan[s] : s \in {t \in S : status[t] = "starting"}}

\* An `end` event of the host or the operator reaches the listed room, started
\* or not.
End(c) ==
  /\ phase = "up"
  /\ c \in Listed
  /\ MayClose(rooms[c])
  /\ Shut({rooms[c]})
  /\ UNCHANGED <<rooms, chan, creating, process, awaited>>

\* A timer of an active room, listed or not, closes it: nobody came back, or
\* endsAt.
Expire(s) ==
  /\ phase # "down"
  /\ status[s] = "active"
  /\ Shut({s})
  /\ UNCHANGED <<rooms, chan, creating, process, awaited>>

\* The publish is over: onClosed deletes the entry of the channel, whichever
\* room it holds.
CloseDoneListed(s) ==
  /\ phase # "down"
  /\ closing[s] > 0
  /\ closing' = [closing EXCEPT ![s] = @ - 1]
  /\ awaited' = awaited \ {s}
  /\ UNCHANGED <<rooms, status, chan, creating, routers, router, alive, process,
                 cutShort>>
CloseDone(s) ==
  /\ phase # "down"
  /\ closing[s] > 0
  /\ closing' = [closing EXCEPT ![s] = @ - 1]
  /\ rooms' = [rooms EXCEPT ![chan[s]] = None]
  /\ awaited' = awaited \ {s}
  /\ UNCHANGED <<status, chan, creating, routers, router, alive, process,
                 cutShort>>

\* Nothing refers to the room any more; its slot stands for a new one.
Forget(s) ==
  /\ phase # "down"
  /\ status[s] \in {"starting", "closed"}
  /\ s \notin creating \union alive /\ closing[s] = 0
  /\ \A c \in Channels : rooms[c] # s
  /\ \A t \in Slots : router[t] # s
  /\ status' = [status EXCEPT ![s] = "free"]
  /\ router' = [router EXCEPT ![s] = None]
  /\ chan' = [chan EXCEPT ![s] = None]
  /\ UNCHANGED <<rooms, creating, closing, routers, alive, process, awaited,
                 cutShort>>

----------------------------------------------------------------------------
(* SIGUSR1 and shutdown() *)

Drain ==
  /\ phase # "down" /\ ~draining
  /\ draining' = TRUE
  /\ UNCHANGED <<rooms, status, chan, creating, closing, routers, router, alive,
                 phase, awaited, cutShort>>

\* The listener stops, closeAll closes the rooms listed now and awaits them;
\* the close() of a room that is closing already returns at once.
Shutdown ==
  LET S == {rooms[c] : c \in Listed}
  IN /\ phase = "up"
     /\ phase' = "closing"
     /\ Shut({s \in S : MayClose(s)})
     /\ awaited' = {s \in S : MayClose(s)}
     /\ UNCHANGED <<rooms, chan, creating, draining>>

\* closeAll has awaited its rooms and clears the map.
AllClosedWhenEmpty ==
  /\ phase = "closing" /\ Listed = {}
  /\ phase' = "stopping"
  /\ UNCHANGED <<rooms, status, chan, creating, closing, routers, router, alive,
                 draining, awaited, cutShort>>
AllClosed ==
  /\ phase = "closing" /\ awaited = {}
  /\ phase' = "stopping"
  /\ rooms' = [c \in Channels |-> None]
  /\ UNCHANGED <<status, chan, creating, closing, routers, router, alive, draining,
                 awaited, cutShort>>

\* http.stop() is over: the engine closes its routers and the process exits.
Exit ==
  /\ phase = "stopping"
  /\ phase' = "down"
  /\ alive' = {}
  /\ routers' = [c \in Channels |-> None]
  /\ UNCHANGED <<rooms, status, chan, creating, closing, router, draining, awaited,
                 cutShort>>

Next ==
  \/ \E c \in Channels, s \in Slots : StartByControl(c, s) \/ StartByDirect(c, s)
  \/ \E s \in Slots :
       RouterReady(s) \/ RouterFails(s) \/ Expire(s) \/ CloseDone(s) \/ Forget(s)
  \/ \E c \in Channels : End(c)
  \/ Drain
  \/ Shutdown
  \/ AllClosed
  \/ Exit

\* A publish ends: RelayPool.publish swallows what relays reject, and the
\* library bounds connecting and publishing; shutdown() goes on after closeAll.
Fairness ==
  /\ \A s \in Slots : WF_vars(CloseDone(s))
  /\ WF_vars(AllClosed)

Spec == Init /\ [][Next]_vars
FairSpec == Spec /\ Fairness
=============================================================================
