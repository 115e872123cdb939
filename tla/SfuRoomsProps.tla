---------------------------- MODULE SfuRoomsProps ----------------------------
(* What SfuRooms promises. *)
EXTENDS SfuRooms

\* maxRooms holds although two doors check it before the start() they await:
\* a room counts from the moment it is listed to the end of its close().
RoomLimit == Cardinality(Listed) <= MaxRooms

\* Until closeAll clears the map, and unless a starting room was closed, an active
\* room that is listed uses the router of its channel, and that is open: no
\* close() of an earlier room of the channel, in flight or not, has taken it.
\* Nor does a router outlive its room: an open one is its channel's and in use.
RoutersMatchRooms ==
  phase \in {"up", "closing"} =>
    /\ \A c \in Listed \ cutShort :
         status[rooms[c]] = "active" =>
           routers[c] \in alive /\ router[rooms[c]] = routers[c]
    /\ \A r \in alive :
         chan[r] \notin cutShort =>
           /\ routers[chan[r]] = r
           /\ chan[r] \in Listed /\ status[rooms[chan[r]]] = "active"

\* onClosed, which deletes by channel, never unlists a room that is active,
\* under the same conditions.
NoActiveRoomUnlisted ==
  [][\A c \in Channels \ cutShort :
       (phase' \in {"up", "closing"} /\ c \in Listed /\ rooms'[c] # rooms[c])
         => status[rooms[c]] # "active"]_vars

\* The rooms of a channel implement RoomLife, however the awaits of start() and
\* close() overlap, maxRooms and shutdown: two rooms of a channel never overlap,
\* no room is in use before its start() is over or unlisted before its close()
\* is, and no start finds the router of an earlier room.
LifeOf(c) ==
  IF c \in cutShort \/ phase \in {"stopping", "down"} THEN "astray"
  ELSE IF c \in Listed THEN status[rooms[c]] ELSE "none"
Lives == INSTANCE RoomLife WITH life <- [c \in Channels |-> LifeOf(c)]
ImplementsRoomLife == Lives!Spec

\* A closed room gives its channel back: it does not block a start for good.
ChannelFreed ==
  \A c \in Channels, s \in Slots :
    (rooms[c] = s /\ status[s] = "closed")
      ~> (rooms[c] # s \/ status[s] # "closed" \/ phase = "down")

\* closeAll ends, also while direct sockets open rooms meanwhile.
ShutdownProceeds == (phase = "closing") ~> (phase # "closing")

\* What the two rest on: a closed room that is listed, and a room closeAll waits
\* for, has a close() in flight whose end unlists it, though a room may close
\* twice, once while it starts, and closes end in any order.
ClosesUnderWay ==
  /\ \A c \in Listed : status[rooms[c]] = "closed" =>
       closing[rooms[c]] > 0 /\ chan[rooms[c]] = c
  /\ \A s \in awaited : closing[s] > 0

=============================================================================
