--------------------------- MODULE SfuRooms_proofs ---------------------------
(* Types, the room limit, the match of rooms and routers, RoomLife and the   *)
(* closes under way of SfuRooms, for any channels, room objects and limits.  *)
EXTENDS SfuRoomsProps, FiniteSetTheorems, TLAPS

\* How often a room can be closing, by where its start() is: what bounds the
\* closes of a room at two.
ClosingBound ==
  /\ \A s \in creating : status[s] \in {"starting", "closed"}
  /\ \A s \in Slots :
       /\ status[s] \in {"free", "starting"} => closing[s] = 0
       /\ s \in creating \/ status[s] = "active" => closing[s] <= 1

\* Every room object in use has its channel.
Placed == \A s \in Slots : status[s] # "free" => chan[s] \in Channels

Typed == TypeOK /\ ClosingBound /\ Placed

\* A process that has just booted is typed.
LEMMA InitTyped == Init => Typed
<1> SUFFICES ASSUME Init PROVE Typed
  OBVIOUS
<1>1. closing \in [Slots -> 0..2]
  BY DEF Init
<1>2. TypeOK
  BY <1>1 DEF Init, TypeOK
<1>3. ClosingBound /\ Placed
  BY DEF Init, ClosingBound, Placed
<1> QED
  BY <1>2, <1>3 DEF Typed

\* close() of rooms that may close.
LEMMA ShutTyped ==
  ASSUME Typed, NEW S \in SUBSET Slots, \A s \in S : MayClose(s), Shut(S),
         UNCHANGED <<rooms, chan, creating>>,
         phase' \in {"up", "closing", "stopping", "down"},
         draining' \in BOOLEAN, awaited' \in SUBSET Slots
  PROVE  Typed'
<1>0. TypeOK /\ ClosingBound /\ Placed
  BY DEF Typed
<1>p. \A s \in S : chan[s] \in Channels
  BY <1>0 DEF Placed, MayClose
<1>1. /\ status' = [s \in Slots |-> IF s \in S THEN "closed" ELSE status[s]]
      /\ closing' = [s \in Slots |-> closing[s] + IF s \in S THEN 1 ELSE 0]
      /\ router' = [s \in Slots |-> IF s \in S THEN None ELSE router[s]]
      /\ alive' \subseteq alive
      /\ cutShort' \subseteq cutShort \union {chan[s] : s \in S}
      /\ creating' = creating
  BY DEF Shut
<1>2. routers' \in [Channels -> Slots \union {None}]
  BY DEF Shut, RoutersAfter, Typed, TypeOK
<1>3. \A s \in S : closing[s] \in 0..1 /\ (s \in creating => closing[s] = 0)
  BY DEF MayClose, Typed, TypeOK, ClosingBound
<1>4. closing' \in [Slots -> 0..2]
  <2>1. ASSUME NEW s \in Slots PROVE closing'[s] \in 0..2
    <3>1. CASE s \in S
      BY <1>1, <1>3, <3>1
    <3>2. CASE s \notin S
      BY <1>1, <3>2 DEF Typed, TypeOK
    <3> QED
      BY <3>1, <3>2
  <2> QED
    BY <1>1, <2>1
<1>5. ClosingBound'
  <2>1. \A s \in creating' : status'[s] \in {"starting", "closed"}
    BY <1>1 DEF Typed, TypeOK, ClosingBound
  <2>2. ASSUME NEW s \in Slots
        PROVE  /\ status'[s] \in {"free", "starting"} => closing'[s] = 0
               /\ s \in creating' \/ status'[s] = "active" => closing'[s] <= 1
    <3>1. CASE s \in S
      BY <1>1, <1>3, <3>1
    <3>2. CASE s \notin S
      BY <1>1, <3>2 DEF Typed, TypeOK, ClosingBound
    <3> QED
      BY <3>1, <3>2
  <2> QED
    BY <2>1, <2>2 DEF ClosingBound
<1>6. /\ status' \in [Slots -> {"free", "starting", "active", "closed"}]
      /\ router' \in [Slots -> Slots \union {None}]
      /\ alive' \in SUBSET Slots
      /\ cutShort' \in SUBSET Channels
  BY <1>0, <1>p, <1>1 DEF TypeOK
<1>7. TypeOK'
  BY <1>0, <1>1, <1>2, <1>4, <1>6 DEF TypeOK
<1>8. Placed'
  BY <1>0, <1>p, <1>1 DEF Placed
<1> QED
  BY <1>5, <1>7, <1>8 DEF Typed

\* RoomManager.start keeps the types, with a router at hand or not.
LEMMA StartTyped ==
  ASSUME Typed, NEW c \in Channels, NEW s \in Slots, Start(c, s)
  PROVE  Typed'
<1>0. TypeOK /\ ClosingBound /\ Placed
  BY DEF Typed
<1>1. /\ status[s] = "free" /\ closing[s] = 0 /\ s \notin creating
      /\ rooms' = [rooms EXCEPT ![c] = s] /\ chan' = [chan EXCEPT ![s] = c]
      /\ UNCHANGED <<closing, routers, alive, draining, phase, awaited, cutShort>>
  BY <1>0 DEF Start, process, ClosingBound
<1>2. CASE routers[c] = None
  <2>1. /\ status' = [status EXCEPT ![s] = "starting"]
        /\ creating' = creating \union {s} /\ router' = router
    BY <1>2 DEF Start
  <2>2. TypeOK'
    BY <1>0, <1>1, <2>1 DEF TypeOK
  <2>3. ClosingBound' /\ Placed'
    BY <1>0, <1>1, <2>1 DEF TypeOK, ClosingBound, Placed
  <2> QED
    BY <2>2, <2>3 DEF Typed
<1>3. CASE routers[c] # None
  <2>1. /\ status' = [status EXCEPT ![s] = "active"]
        /\ router' = [router EXCEPT ![s] = routers[c]] /\ creating' = creating
    BY <1>3 DEF Start
  <2>2. TypeOK'
    BY <1>0, <1>1, <2>1 DEF TypeOK
  <2>3. ClosingBound' /\ Placed'
    BY <1>0, <1>1, <2>1 DEF TypeOK, ClosingBound, Placed
  <2> QED
    BY <2>2, <2>3 DEF Typed
<1> QED
  BY <1>2, <1>3

\* Every step keeps the types and the bound on the closes of a room.
LEMMA StepTyped == Typed /\ [Next]_vars => Typed'
<1> SUFFICES ASSUME Typed, [Next]_vars PROVE Typed'
  OBVIOUS
<1>0. TypeOK /\ ClosingBound /\ Placed
  BY DEF Typed
<1>1. ASSUME NEW c \in Channels, NEW s \in Slots,
             StartByControl(c, s) \/ StartByDirect(c, s)
      PROVE  Typed'
  BY <1>1, StartTyped DEF StartByControl, StartByDirect
<1>2. ASSUME NEW s \in Slots, RouterReady(s)
      PROVE  Typed'
  <2>1. chan[s] \in Channels
    BY <1>0, <1>2 DEF RouterReady, ClosingBound, Placed
  <2>2. TypeOK'
    BY <1>0, <1>2, <2>1 DEF RouterReady, TypeOK, process
  <2>3. ClosingBound' /\ Placed'
    BY <1>0, <1>2, <2>1 DEF RouterReady, TypeOK, ClosingBound, Placed
  <2> QED
    BY <2>2, <2>3 DEF Typed
<1>3. ASSUME NEW s \in Slots, RouterFails(s)
      PROVE  Typed'
  <2>1. TypeOK'
    BY <1>0, <1>3 DEF RouterFails, TypeOK, process
  <2>2. ClosingBound' /\ Placed'
    BY <1>0, <1>3 DEF RouterFails, ClosingBound, Placed
  <2> QED
    BY <2>1, <2>2 DEF Typed
<1>4. ASSUME NEW c \in Channels, End(c)
      PROVE  Typed'
  <2>1. rooms[c] \in Slots
    BY <1>0, <1>4 DEF End, Listed, TypeOK
  <2> QED
    BY <1>0, <1>4, <2>1, ShutTyped DEF End, TypeOK, process
<1>5. ASSUME NEW s \in Slots, Expire(s)
      PROVE  Typed'
  BY <1>0, <1>5, ShutTyped DEF Expire, MayClose, TypeOK, process
<1>6. ASSUME NEW s \in Slots, CloseDone(s)
      PROVE  Typed'
  <2>1. closing[s] \in 1..2 /\ closing' = [closing EXCEPT ![s] = @ - 1]
    BY <1>0, <1>6 DEF CloseDone, TypeOK
  <2>2. closing' \in [Slots -> 0..2]
    BY <1>0, <2>1 DEF TypeOK
  <2>3. TypeOK'
    BY <1>0, <1>6, <2>2 DEF CloseDone, TypeOK, process
  <2>4. ClosingBound'
    BY <1>0, <1>6, <2>1 DEF CloseDone, ClosingBound, TypeOK
  <2>5. Placed'
    BY <1>0, <1>6 DEF CloseDone, Placed
  <2> QED
    BY <2>3, <2>4, <2>5 DEF Typed
<1>7. ASSUME NEW s \in Slots, Forget(s)
      PROVE  Typed'
  <2>1. TypeOK'
    BY <1>0, <1>7 DEF Forget, TypeOK, process
  <2>2. ClosingBound' /\ Placed'
    BY <1>0, <1>7 DEF Forget, ClosingBound, Placed, TypeOK
  <2> QED
    BY <2>1, <2>2 DEF Typed
<1>8. CASE Drain
  <2>1. TypeOK'
    BY <1>0, <1>8 DEF Drain, TypeOK
  <2> QED
    BY <1>0, <1>8, <2>1 DEF Drain, Typed, ClosingBound, Placed
<1>9. CASE Shutdown
  <2> DEFINE S == {s \in {rooms[c] : c \in Listed} : MayClose(s)}
  <2>1. S \in SUBSET Slots
    BY <1>0 DEF Listed, TypeOK
  <2>2. Shut(S) /\ awaited' = S /\ phase' = "closing"
        /\ UNCHANGED <<rooms, chan, creating, draining>>
    BY <1>9 DEF Shutdown
  <2>3. \A s \in S : MayClose(s)
    OBVIOUS
  <2> HIDE DEF S
  <2> QED
    BY <1>0, <2>1, <2>2, <2>3, ShutTyped DEF TypeOK
<1>10. CASE AllClosed
  <2>1. TypeOK'
    BY <1>0, <1>10 DEF AllClosed, TypeOK
  <2> QED
    BY <1>0, <1>10, <2>1 DEF AllClosed, Typed, ClosingBound, Placed
<1>11. CASE Exit
  <2>1. TypeOK'
    BY <1>0, <1>11 DEF Exit, TypeOK
  <2> QED
    BY <1>0, <1>11, <2>1 DEF Exit, Typed, ClosingBound, Placed
<1>12. CASE UNCHANGED vars
  <2>1. TypeOK'
    BY <1>0, <1>12 DEF vars, process, TypeOK
  <2> QED
    BY <1>0, <1>12, <2>1 DEF vars, Typed, ClosingBound, Placed
<1> QED
  BY <1>1, <1>2, <1>3, <1>4, <1>5, <1>6, <1>7, <1>8, <1>9, <1>10, <1>11, <1>12
  DEF Next

\* The maps of the manager and of the engine hold what they should, and close()
\* never has more than two publishes of one room in flight.
THEOREM TypesHold == Spec => []TypeOK
<1>1. Spec => []Typed
  BY InitTyped, StepTyped, PTL DEF Spec
<1> QED
  BY <1>1, PTL DEF Typed

----------------------------------------------------------------------------
(* The room limit: only Start lists a channel, and it has just counted. *)

Limited == IsFiniteSet(Listed) /\ RoomLimit

\* No room is listed at boot.
LEMMA InitLimited == Init => Limited
<1> SUFFICES ASSUME Init PROVE Limited
  OBVIOUS
<1>1. Listed = {}
  BY DEF Init, Listed
<1> QED
  BY <1>1, FS_EmptySet, RoomsAssumption DEF Limited, RoomLimit

\* Only Start lists a room, and it finds room for one more.
LEMMA StepLimited == TypeOK /\ Limited /\ [Next]_vars => Limited'
<1> SUFFICES ASSUME TypeOK, Limited, [Next]_vars PROVE Limited'
  OBVIOUS
<1>1. ASSUME Listed' \subseteq Listed
      PROVE  Limited'
  <2>1. /\ IsFiniteSet(Listed') /\ Cardinality(Listed') <= Cardinality(Listed)
        /\ Cardinality(Listed) \in Nat /\ Cardinality(Listed') \in Nat
    BY <1>1, FS_Subset, FS_CardinalityType DEF Limited
  <2>2. Cardinality(Listed)' = Cardinality(Listed') /\ IsFiniteSet(Listed)' = IsFiniteSet(Listed')
    OBVIOUS
  <2> QED
    BY <2>1, RoomsAssumption DEF Limited, RoomLimit
<1>2. ASSUME NEW c \in Channels, NEW s \in Slots, Start(c, s)
      PROVE  Limited'
  <2>1. Listed' = Listed \union {c} /\ c \notin Listed
    BY <1>2, RoomsAssumption DEF Start, RoomForOneMore, Listed, TypeOK
  <2>2. Cardinality(Listed) < MaxRooms /\ Cardinality(Listed) \in Nat
    BY <1>2, FS_CardinalityType DEF Start, RoomForOneMore, Limited
  <2>3. /\ IsFiniteSet(Listed \union {c})
        /\ Cardinality(Listed \union {c}) = Cardinality(Listed) + 1
    BY <2>1, FS_AddElement DEF Limited
  <2> QED
    BY <2>1, <2>2, <2>3, RoomsAssumption DEF Limited, RoomLimit
<1>3. ASSUME NEW c, rooms' = [rooms EXCEPT ![c] = None] \/ UNCHANGED rooms
      PROVE  Limited'
  <2>1. Listed' \subseteq Listed
    BY <1>3 DEF Listed, TypeOK
  <2> QED
    BY <1>1, <2>1
<1>4. ASSUME NEW s \in Slots,
             RouterReady(s) \/ RouterFails(s) \/ Expire(s) \/ CloseDone(s) \/ Forget(s)
      PROVE  Limited'
  BY <1>3, <1>4 DEF RouterReady, RouterFails, Expire, CloseDone, Forget
<1>5. CASE AllClosed
  <2>1. Listed' \subseteq Listed
    BY <1>5 DEF AllClosed, Listed
  <2> QED
    BY <1>1, <2>1
<1>6. ASSUME (\E c \in Channels : End(c)) \/ Drain \/ Shutdown \/ Exit \/ UNCHANGED vars
      PROVE  Limited'
  BY <1>3, <1>6 DEF End, Drain, Shutdown, Exit, vars
<1> QED
  BY <1>2, <1>4, <1>5, <1>6 DEF Next, StartByControl, StartByDirect

\* No more rooms than maxRooms are listed, closing ones included, although both
\* doors check the size before a start() that awaits.
THEOREM RoomLimitHolds == Spec => []RoomLimit
<1>1. Init => Typed /\ Limited
  BY InitTyped, InitLimited
<1>2. Typed /\ Limited /\ [Next]_vars => (Typed /\ Limited)'
  BY StepTyped, StepLimited DEF Typed
<1>3. Typed /\ Limited => RoomLimit
  BY DEF Limited
<1> QED
  BY <1>1, <1>2, <1>3, PTL DEF Spec

----------------------------------------------------------------------------
(* Rooms and their routers.  A room of a channel where no starting room was   *)
(* closed stays listed to the end of its only close(), so nothing that is     *)
(* keyed by channel touches another room.                                     *)

\* The maps refer to rooms and open routers of their own channels.
OwnChannel ==
  /\ \A c \in Channels : rooms[c] # None => chan[rooms[c]] = c /\ status[rooms[c]] # "free"
  /\ \A c \in Channels : routers[c] # None => routers[c] \in alive /\ chan[routers[c]] = c
  /\ \A s \in alive : status[s] # "free"

Orderly(s) == chan[s] \notin cutShort

\* One room of a channel at a time; it closes once.
OneRoom ==
  \A s \in Slots : Orderly(s) =>
    /\ s \in creating \/ status[s] = "active" \/ closing[s] > 0 => rooms[chan[s]] = s
    /\ s \in creating => status[s] = "starting"
    /\ status[s] = "active" => closing[s] = 0
    /\ closing[s] <= 1

\* The router of the channel is that of its active room.
OneRouter ==
  /\ \A s \in Slots : Orderly(s) /\ status[s] = "active" =>
       router[s] = routers[chan[s]] /\ routers[chan[s]] # None
  /\ \A r \in alive : Orderly(r) =>
       /\ routers[chan[r]] = r
       /\ rooms[chan[r]] # None /\ status[rooms[chan[r]]] = "active"

Serving == phase \in {"up", "closing"}
Matched == OwnChannel /\ (Serving => OneRoom /\ OneRouter)

LEMMA InitMatched == Init => Matched
BY DEF Init, Matched, OwnChannel, OneRoom, OneRouter

\* Rooms close, whichever: their channels have neither router nor active room
\* afterwards, and other channels keep theirs.
LEMMA ShutMatched ==
  ASSUME Typed, Matched, NEW S \in SUBSET Slots, \A s \in S : MayClose(s), Shut(S),
         UNCHANGED <<rooms, chan, creating>>, Serving' => Serving
  PROVE  Matched'
<1>0. TypeOK /\ ClosingBound /\ Placed /\ OwnChannel
  BY DEF Typed, Matched
<1>1. /\ status' = [s \in Slots |-> IF s \in S THEN "closed" ELSE status[s]]
      /\ closing' = [s \in Slots |-> closing[s] + IF s \in S THEN 1 ELSE 0]
      /\ router' = [s \in Slots |-> IF s \in S THEN None ELSE router[s]]
      /\ alive' = alive \ {routers[chan[s]] : s \in S}
      /\ routers' = [c \in Channels |-> IF c \in {chan[s] : s \in S} THEN None ELSE routers[c]]
      /\ cutShort' = cutShort \union {chan[s] : s \in {t \in S : status[t] = "starting"}}
      /\ rooms' = rooms /\ chan' = chan /\ creating' = creating
  BY DEF Shut, RoutersAfter
<1>2. \A s \in S : chan[s] \in Channels
  BY <1>0 DEF Placed, MayClose
<1>3. OwnChannel'
  <2>1. ASSUME NEW c \in Channels, rooms'[c] # None
        PROVE  chan'[rooms'[c]] = c /\ status'[rooms'[c]] # "free"
    BY <1>0, <1>1, <2>1 DEF OwnChannel, TypeOK
  <2>2. ASSUME NEW c \in Channels, routers'[c] # None
        PROVE  routers'[c] \in alive' /\ chan'[routers'[c]] = c
    <3>1. routers'[c] = routers[c] /\ c \notin {chan[s] : s \in S}
      BY <1>1, <2>2
    <3>2. routers[c] \in alive /\ chan[routers[c]] = c
      BY <1>0, <2>2, <3>1 DEF OwnChannel
    <3>3. ASSUME NEW s \in S PROVE routers[c] # routers[chan[s]]
      <4>1. chan[s] # c /\ chan[s] \in Channels
        BY <1>2, <3>1
      <4> QED
        BY <1>0, <2>2, <3>1, <3>2, <4>1 DEF OwnChannel
    <3> QED
      BY <1>1, <3>1, <3>2, <3>3
  <2>3. \A s \in alive' : status'[s] # "free"
    BY <1>0, <1>1 DEF OwnChannel, TypeOK
  <2> QED
    BY <2>1, <2>2, <2>3 DEF OwnChannel
<1>4. ASSUME Serving' PROVE OneRoom' /\ OneRouter'
  <2>0. OneRoom /\ OneRouter
    BY <1>4 DEF Matched
  <2>1. \A s \in Slots : Orderly(s)' => Orderly(s)
    BY <1>1 DEF Orderly
  <2>2. ASSUME NEW s \in S, Orderly(s)'
        PROVE  status[s] = "active" /\ rooms[chan[s]] = s /\ closing[s] = 0 /\ s \notin creating
    <3>1. status[s] = "active"
      BY <1>1, <2>2 DEF Orderly, MayClose
    <3> QED
      BY <2>0, <2>1, <2>2, <3>1 DEF OneRoom
  <2>3. ASSUME NEW s \in Slots, Orderly(s)'
        PROVE  /\ s \in creating' \/ status'[s] = "active" \/ closing'[s] > 0
                    => rooms'[chan'[s]] = s
               /\ s \in creating' => status'[s] = "starting"
               /\ status'[s] = "active" => closing'[s] = 0
               /\ closing'[s] <= 1
    <3>1. CASE s \in S
      BY <1>1, <2>2, <2>3, <3>1
    <3>2. CASE s \notin S
      <4>1. closing'[s] = closing[s] /\ status'[s] = status[s]
        BY <1>0, <1>1, <3>2 DEF TypeOK
      <4> QED
        BY <1>1, <2>0, <2>1, <2>3, <4>1 DEF OneRoom
    <3> QED
      BY <3>1, <3>2
  <2>4. ASSUME NEW s \in Slots, Orderly(s)', status'[s] = "active"
        PROVE  router'[s] = routers'[chan'[s]] /\ routers'[chan'[s]] # None
    <3>1. s \notin S /\ status[s] = "active"
      BY <1>1, <2>4
    <3>2. rooms[chan[s]] = s /\ router[s] = routers[chan[s]] /\ routers[chan[s]] # None
      BY <2>0, <2>1, <2>4, <3>1 DEF OneRoom, OneRouter
    <3>3. ASSUME NEW t \in S PROVE chan[t] # chan[s]
      <4>1. SUFFICES ASSUME chan[t] = chan[s] PROVE FALSE
        OBVIOUS
      <4>2. Orderly(t)'
        BY <1>1, <2>4, <4>1 DEF Orderly
      <4> QED
        BY <2>2, <3>1, <3>2, <4>1, <4>2
    <3>4. chan[s] \in Channels
      BY <1>0, <3>1 DEF Placed
    <3> QED
      BY <1>1, <3>1, <3>2, <3>3, <3>4
  <2>5. ASSUME NEW r \in alive', Orderly(r)'
        PROVE  /\ routers'[chan'[r]] = r
               /\ rooms'[chan'[r]] # None /\ status'[rooms'[chan'[r]]] = "active"
    <3>1. r \in alive /\ r \in Slots
      BY <1>0, <1>1 DEF TypeOK
    <3>2. /\ routers[chan[r]] = r
          /\ rooms[chan[r]] # None /\ status[rooms[chan[r]]] = "active"
      BY <2>0, <2>1, <2>5, <3>1 DEF OneRouter
    <3>3. \A s \in S : chan[s] # chan[r]
      BY <1>1, <2>5, <3>2
    <3>4. chan[r] \in Channels
      BY <1>0, <3>1 DEF OwnChannel, Placed
    <3>5. rooms[chan[r]] \in Slots /\ chan[rooms[chan[r]]] = chan[r]
      BY <1>0, <3>2, <3>4 DEF OwnChannel, TypeOK
    <3>6. rooms[chan[r]] \notin S
      BY <3>3, <3>5
    <3> QED
      BY <1>1, <3>2, <3>3, <3>4, <3>5, <3>6
  <2> QED
    BY <2>3, <2>4, <2>5 DEF OneRoom, OneRouter
<1> QED
  BY <1>3, <1>4 DEF Matched

\* A room starts where its channel has no room, hence no router and no close()
\* in flight that could meet it.
LEMMA StartMatched ==
  ASSUME Typed, Matched, NEW c \in Channels, NEW s \in Slots, Start(c, s)
  PROVE  Matched'
<1>0. TypeOK /\ ClosingBound /\ Placed /\ OwnChannel
  BY DEF Typed, Matched
<1>1. /\ rooms[c] = None /\ status[s] = "free" /\ closing[s] = 0 /\ s \notin alive
      /\ s \notin creating
      /\ rooms' = [rooms EXCEPT ![c] = s] /\ chan' = [chan EXCEPT ![s] = c]
      /\ UNCHANGED <<closing, routers, alive, draining, phase, cutShort>>
      /\ status' \in {[status EXCEPT ![s] = "starting"], [status EXCEPT ![s] = "active"]}
  BY <1>0 DEF Start, RoomForOneMore, process, ClosingBound, OwnChannel
<1>2. OwnChannel'
  <2>1. ASSUME NEW d \in Channels, rooms'[d] # None
        PROVE  chan'[rooms'[d]] = d /\ status'[rooms'[d]] # "free"
    <3>1. CASE d = c
      BY <1>0, <1>1, <3>1 DEF TypeOK
    <3>2. CASE d # c
      BY <1>0, <1>1, <2>1, <3>2 DEF OwnChannel, TypeOK
    <3> QED
      BY <3>1, <3>2
  <2>2. ASSUME NEW d \in Channels, routers'[d] # None
        PROVE  routers'[d] \in alive' /\ chan'[routers'[d]] = d
    BY <1>0, <1>1, <2>2 DEF OwnChannel, TypeOK
  <2>3. \A t \in alive' : status'[t] # "free"
    BY <1>0, <1>1 DEF OwnChannel, TypeOK
  <2> QED
    BY <2>1, <2>2, <2>3 DEF OwnChannel
<1>3. ASSUME Serving' PROVE OneRoom' /\ OneRouter'
  <2>0. OneRoom /\ OneRouter
    BY <1>1, <1>3 DEF Matched, Serving
  <2>1. ASSUME c \notin cutShort PROVE routers[c] = None
    BY <1>0, <1>1, <2>0, <2>1 DEF OwnChannel, OneRouter, Orderly
  <2>2. ASSUME c \notin cutShort
        PROVE  /\ creating' = creating \union {s} /\ router' = router
               /\ status' = [status EXCEPT ![s] = "starting"]
    BY <2>1, <2>2 DEF Start
  <2>3. creating' \subseteq creating \union {s} /\ \A t \in Slots \ {s} : router'[t] = router[t]
    BY <1>0 DEF Start, TypeOK
  <2>4. \A t \in Slots \ {s} : status'[t] = status[t] /\ chan'[t] = chan[t]
    BY <1>0, <1>1 DEF TypeOK
  <2>5. OneRoom'
    <3>1. ASSUME NEW t \in Slots, Orderly(t)'
          PROVE  /\ t \in creating' \/ status'[t] = "active" \/ closing'[t] > 0
                      => rooms'[chan'[t]] = t
                 /\ t \in creating' => status'[t] = "starting"
                 /\ status'[t] = "active" => closing'[t] = 0
                 /\ closing'[t] <= 1
      <4>1. CASE t = s
        <5>1. chan'[s] = c /\ rooms'[c] = s
          BY <1>0, <1>1 DEF TypeOK
        <5>2. c \notin cutShort
          BY <1>1, <3>1, <4>1, <5>1 DEF Orderly
        <5> QED
          BY <1>0, <1>1, <2>2, <4>1, <5>1, <5>2 DEF TypeOK
      <4>2. CASE t # s
        <5>1. Orderly(t) /\ chan'[t] = chan[t] /\ status'[t] = status[t]
          BY <1>1, <2>4, <3>1, <4>2 DEF Orderly
        <5>2. t \in creating' => t \in creating
          BY <2>3, <4>2
        <5>3. rooms[chan[t]] = t => rooms'[chan[t]] = t
          BY <1>0, <1>1, RoomsAssumption DEF TypeOK
        <5> QED
          BY <1>1, <2>0, <5>1, <5>2, <5>3 DEF OneRoom
      <4> QED
        BY <4>1, <4>2
    <3> QED
      BY <3>1 DEF OneRoom
  <2>6. OneRouter'
    <3>1. ASSUME NEW t \in Slots, Orderly(t)', status'[t] = "active"
          PROVE  router'[t] = routers'[chan'[t]] /\ routers'[chan'[t]] # None
      <4>1. t # s
        <5>1. SUFFICES ASSUME t = s PROVE FALSE
          OBVIOUS
        <5>2. c \notin cutShort
          BY <1>0, <1>1, <3>1, <5>1 DEF Orderly, TypeOK
        <5> QED
          BY <1>0, <2>2, <3>1, <5>1, <5>2 DEF TypeOK
      <4> QED
        BY <1>1, <2>0, <2>3, <2>4, <3>1, <4>1 DEF OneRouter, Orderly
    <3>2. ASSUME NEW r \in alive', Orderly(r)'
          PROVE  /\ routers'[chan'[r]] = r
                 /\ rooms'[chan'[r]] # None /\ status'[rooms'[chan'[r]]] = "active"
      <4>1. r \in alive /\ r # s /\ r \in Slots
        BY <1>0, <1>1 DEF TypeOK
      <4>2. chan'[r] = chan[r] /\ Orderly(r)
        BY <1>1, <2>4, <3>2, <4>1 DEF Orderly
      <4>3. routers[chan[r]] = r /\ rooms[chan[r]] # None /\ status[rooms[chan[r]]] = "active"
        BY <2>0, <4>1, <4>2 DEF OneRouter
      <4>4. chan[r] # c /\ chan[r] \in Channels
        BY <1>0, <1>1, <4>1, <4>3 DEF OwnChannel, Placed
      <4>5. rooms'[chan[r]] = rooms[chan[r]] /\ rooms[chan[r]] \in Slots \ {s}
        BY <1>0, <1>1, <4>3, <4>4 DEF TypeOK
      <4> QED
        BY <1>1, <2>4, <4>2, <4>3, <4>5
    <3> QED
      BY <3>1, <3>2 DEF OneRouter
  <2> QED
    BY <2>5, <2>6
<1> QED
  BY <1>2, <1>3 DEF Matched

\* The router comes to the room that still waits for it; in an orderly channel
\* that is the listed one.
LEMMA ReadyMatched ==
  ASSUME Typed, Matched, NEW s \in Slots, RouterReady(s)
  PROVE  Matched'
<1>0. TypeOK /\ ClosingBound /\ Placed /\ OwnChannel
  BY DEF Typed, Matched
<1> DEFINE c == chan[s]
<1>1. /\ s \in creating /\ creating' = creating \ {s}
      /\ routers' = [routers EXCEPT ![c] = s] /\ router' = [router EXCEPT ![s] = s]
      /\ alive' = alive \union {s} /\ status' = [status EXCEPT ![s] = "active"]
      /\ UNCHANGED <<rooms, chan, closing, phase, cutShort>>
      /\ c \in Channels /\ s # None
  BY <1>0, RoomsAssumption DEF RouterReady, process, ClosingBound, Placed
<1>2. OwnChannel'
  <2>1. ASSUME NEW d \in Channels, rooms'[d] # None
        PROVE  chan'[rooms'[d]] = d /\ status'[rooms'[d]] # "free"
    BY <1>0, <1>1, <2>1 DEF OwnChannel, TypeOK
  <2>2. ASSUME NEW d \in Channels, routers'[d] # None
        PROVE  routers'[d] \in alive' /\ chan'[routers'[d]] = d
    BY <1>0, <1>1, <2>2 DEF OwnChannel, TypeOK
  <2>3. \A t \in alive' : status'[t] # "free"
    BY <1>0, <1>1 DEF OwnChannel, TypeOK
  <2> QED
    BY <2>1, <2>2, <2>3 DEF OwnChannel
<1>3. ASSUME Serving' PROVE OneRoom' /\ OneRouter'
  <2>0. OneRoom /\ OneRouter
    BY <1>1, <1>3 DEF Matched, Serving
  <2>1. ASSUME Orderly(s)
        PROVE  rooms[c] = s /\ status[s] = "starting" /\ closing[s] = 0
    BY <1>0, <1>1, <2>0, <2>1 DEF OneRoom, ClosingBound
  <2>2. \A t \in Slots \ {s} : status'[t] = status[t] /\ router'[t] = router[t]
    BY <1>0, <1>1 DEF TypeOK
  <2>3. \A t \in Slots : Orderly(t)' = Orderly(t)
    BY <1>1 DEF Orderly
  <2>4. OneRoom'
    <3>1. ASSUME NEW t \in Slots, Orderly(t)
          PROVE  /\ t \in creating' \/ status'[t] = "active" \/ closing'[t] > 0
                      => rooms'[chan'[t]] = t
                 /\ t \in creating' => status'[t] = "starting"
                 /\ status'[t] = "active" => closing'[t] = 0
                 /\ closing'[t] <= 1
      <4>1. CASE t = s
        BY <1>1, <2>1, <3>1, <4>1
      <4>2. CASE t # s
        BY <1>1, <2>0, <2>2, <3>1, <4>2 DEF OneRoom
      <4> QED
        BY <4>1, <4>2
    <3> QED
      BY <2>3, <3>1 DEF OneRoom
  <2>5. ASSUME NEW t \in Slots, t # s, Orderly(t), status[t] = "active" PROVE chan[t] # c
    BY <2>0, <2>1, <2>5 DEF OneRoom, Orderly
  <2>6. ASSUME NEW t \in Slots, Orderly(t), status'[t] = "active"
        PROVE  router'[t] = routers'[chan'[t]] /\ routers'[chan'[t]] # None
    <3>1. CASE t = s
      BY <1>0, <1>1, <3>1 DEF TypeOK
    <3>2. CASE t # s
      <4>1. status[t] = "active" /\ chan[t] # c
        BY <2>2, <2>5, <2>6, <3>2
      <4>2. chan[t] \in Channels
        BY <1>0, <4>1 DEF Placed
      <4> QED
        BY <1>0, <1>1, <2>0, <2>2, <2>6, <3>2, <4>1, <4>2 DEF OneRouter, TypeOK
    <3> QED
      BY <3>1, <3>2
  <2>7. ASSUME NEW r \in alive', Orderly(r)
        PROVE  /\ routers'[chan'[r]] = r
               /\ rooms'[chan'[r]] # None /\ status'[rooms'[chan'[r]]] = "active"
    <3>1. CASE r = s
      BY <1>0, <1>1, <2>1, <2>7, <3>1 DEF TypeOK
    <3>2. CASE r # s
      <4>1. r \in alive /\ r \in Slots
        BY <1>0, <1>1, <3>2 DEF TypeOK
      <4>2. routers[chan[r]] = r /\ rooms[chan[r]] # None /\ status[rooms[chan[r]]] = "active"
        BY <2>0, <2>7, <4>1 DEF OneRouter
      <4>3. chan[r] \in Channels
        BY <1>0, <4>1 DEF OwnChannel, Placed
      <4>4. chan[r] # c
        BY <2>1, <2>7, <4>2 DEF Orderly
      <4>5. rooms[chan[r]] \in Slots
        BY <1>0, <4>2, <4>3 DEF TypeOK
      <4> QED
        BY <1>0, <1>1, <4>2, <4>3, <4>4, <4>5 DEF TypeOK
    <3> QED
      BY <3>1, <3>2
  <2>8. \A r \in alive' : Orderly(r)' = Orderly(r)
    BY <1>1 DEF Orderly
  <2> QED
    BY <2>3, <2>4, <2>6, <2>7, <2>8 DEF OneRouter
<1> QED
  BY <1>2, <1>3 DEF Matched

\* What takes the channel's room off the list takes its own: the router failed,
\* or the publish of its close() is over.
LEMMA UnlistedMatched ==
  ASSUME Typed, Matched, NEW s \in Slots, RouterFails(s) \/ CloseDone(s)
  PROVE  /\ Matched'
         /\ Serving /\ Orderly(s) => rooms[chan[s]] = s /\ status[s] # "active"
<1>0. TypeOK /\ ClosingBound /\ Placed /\ OwnChannel
  BY DEF Typed, Matched
<1> DEFINE c == chan[s]
<1>1. /\ s \in creating \/ closing[s] > 0
      /\ rooms' = [rooms EXCEPT ![c] = None]
      /\ UNCHANGED <<status, chan, routers, router, alive, phase, cutShort>>
  BY DEF RouterFails, CloseDone, process
<1>2. status[s] # "free" /\ c \in Channels
  BY <1>0, <1>1 DEF ClosingBound, Placed, TypeOK
<1>3. OwnChannel'
  BY <1>0, <1>1 DEF OwnChannel, TypeOK
<1>4. ASSUME Serving, Orderly(s) PROVE rooms[c] = s /\ status[s] # "active"
  <2>1. OneRoom
    BY <1>4 DEF Matched
  <2> QED
    BY <1>0, <1>1, <1>4, <2>1 DEF OneRoom, TypeOK
<1>5. ASSUME Serving' PROVE OneRoom' /\ OneRouter'
  <2>0. Serving /\ OneRoom /\ OneRouter
    BY <1>1, <1>5 DEF Matched, Serving
  <2>1. ASSUME NEW t \in Slots \ {s}
        PROVE  (t \in creating' <=> t \in creating) /\ closing'[t] = closing[t]
    BY <1>0, <2>1 DEF RouterFails, CloseDone, TypeOK
  <2>2. ASSUME Orderly(s) PROVE s \notin creating' /\ closing'[s] = 0
    <3>1. CASE RouterFails(s)
      BY <1>0, <2>0, <2>2, <3>1 DEF RouterFails, OneRoom, ClosingBound
    <3>2. CASE CloseDone(s)
      <4>1. closing[s] \in 0..2 /\ closing[s] > 0 /\ closing[s] <= 1
        BY <1>0, <2>0, <2>2, <3>2 DEF CloseDone, OneRoom, TypeOK
      <4>2. closing[s] = 1 /\ s \notin creating
        BY <1>0, <2>0, <2>2, <4>1 DEF OneRoom, ClosingBound
      <4> QED
        BY <1>0, <3>2, <4>2 DEF CloseDone, TypeOK
    <3> QED
      BY <3>1, <3>2
  <2>3. OneRoom'
    <3>1. ASSUME NEW t \in Slots, Orderly(t)
          PROVE  /\ t \in creating' \/ status'[t] = "active" \/ closing'[t] > 0
                      => rooms'[chan'[t]] = t
                 /\ t \in creating' => status'[t] = "starting"
                 /\ status'[t] = "active" => closing'[t] = 0
                 /\ closing'[t] <= 1
      <4>1. CASE t = s
        BY <1>1, <1>4, <2>0, <2>2, <3>1, <4>1
      <4>2. CASE t # s
        <5>1. rooms[chan[t]] = t => rooms'[chan[t]] = t
          <6>1. SUFFICES ASSUME rooms[chan[t]] = t PROVE chan[t] # c
            BY <1>0, <1>1 DEF TypeOK
          <6> QED
            BY <1>4, <2>0, <3>1, <4>2, <6>1 DEF Orderly
        <5> QED
          BY <1>1, <2>0, <2>1, <3>1, <4>2, <5>1 DEF OneRoom
      <4> QED
        BY <4>1, <4>2
    <3>2. \A t \in Slots : Orderly(t)' = Orderly(t)
      BY <1>1 DEF Orderly
    <3> QED
      BY <3>1, <3>2 DEF OneRoom
  <2>4. OneRouter'
    <3>1. ASSUME NEW r \in alive, Orderly(r)
          PROVE  rooms'[chan[r]] # None /\ status[rooms'[chan[r]]] = "active"
      <4>1. rooms[chan[r]] # None /\ status[rooms[chan[r]]] = "active"
        BY <2>0, <3>1 DEF OneRouter
      <4>2. chan[r] # c
        BY <1>4, <2>0, <3>1, <4>1 DEF Orderly
      <4> QED
        BY <1>0, <1>1, <4>1, <4>2 DEF TypeOK
    <3> QED
      BY <1>1, <2>0, <3>1 DEF OneRouter, Orderly
  <2> QED
    BY <2>3, <2>4
<1> QED
  BY <1>3, <1>4, <1>5 DEF Matched

\* A slot that is used again was in no map.
LEMMA ForgetMatched ==
  ASSUME Typed, Matched, NEW s \in Slots, Forget(s)
  PROVE  Matched'
<1>0. TypeOK /\ ClosingBound /\ Placed /\ OwnChannel
  BY DEF Typed, Matched
<1>1. /\ s \notin creating /\ s \notin alive /\ closing[s] = 0
      /\ \A c \in Channels : rooms[c] # s
      /\ status' = [status EXCEPT ![s] = "free"] /\ router' = [router EXCEPT ![s] = None]
      /\ chan' = [chan EXCEPT ![s] = None]
      /\ UNCHANGED <<rooms, creating, closing, routers, alive, phase, cutShort>>
  BY DEF Forget, process
<1>2. OwnChannel'
  BY <1>0, <1>1 DEF OwnChannel, TypeOK
<1>3. ASSUME Serving' PROVE OneRoom' /\ OneRouter'
  <2>0. OneRoom /\ OneRouter
    BY <1>1, <1>3 DEF Matched, Serving
  <2>1. \A t \in Slots \ {s} : status'[t] = status[t] /\ chan'[t] = chan[t] /\ router'[t] = router[t]
    BY <1>0, <1>1 DEF TypeOK
  <2>2. \A t \in Slots \ {s} : Orderly(t)' = Orderly(t)
    BY <1>1, <2>1 DEF Orderly
  <2>3. status'[s] = "free"
    BY <1>0, <1>1 DEF TypeOK
  <2>4. OneRoom'
    BY <1>0, <1>1, <2>0, <2>1, <2>2, <2>3 DEF OneRoom, TypeOK
  <2>5. ASSUME NEW r \in alive, Orderly(r)'
        PROVE  /\ routers'[chan'[r]] = r
               /\ rooms'[chan'[r]] # None /\ status'[rooms'[chan'[r]]] = "active"
    <3>1. r \in Slots \ {s} /\ chan'[r] = chan[r] /\ Orderly(r)
      BY <1>0, <1>1, <2>1, <2>2, <2>5 DEF TypeOK
    <3>2. routers[chan[r]] = r /\ rooms[chan[r]] # None /\ status[rooms[chan[r]]] = "active"
      BY <2>0, <3>1 DEF OneRouter
    <3>3. rooms[chan[r]] \in Slots \ {s}
      BY <1>0, <1>1, <3>1, <3>2 DEF OwnChannel, Placed, TypeOK
    <3> QED
      BY <1>1, <2>1, <3>1, <3>2, <3>3
  <2>6. ASSUME NEW t \in Slots, Orderly(t)', status'[t] = "active"
        PROVE  router'[t] = routers'[chan'[t]] /\ routers'[chan'[t]] # None
    BY <1>1, <2>0, <2>1, <2>2, <2>3, <2>6 DEF OneRouter
  <2> QED
    BY <1>1, <2>4, <2>5, <2>6 DEF OneRouter
<1> QED
  BY <1>2, <1>3 DEF Matched

LEMMA StepMatched == Typed /\ Matched /\ [Next]_vars => Matched'
<1> SUFFICES ASSUME Typed, Matched, [Next]_vars PROVE Matched'
  OBVIOUS
<1>0. TypeOK /\ ClosingBound /\ Placed /\ OwnChannel
  BY DEF Typed, Matched
<1>1. ASSUME NEW c \in Channels, NEW s \in Slots,
             StartByControl(c, s) \/ StartByDirect(c, s)
      PROVE  Matched'
  BY <1>1, StartMatched DEF StartByControl, StartByDirect
<1>2. ASSUME NEW s \in Slots, RouterReady(s) \/ RouterFails(s) \/ CloseDone(s) \/ Forget(s)
      PROVE  Matched'
  BY <1>2, ReadyMatched, UnlistedMatched, ForgetMatched
<1>3. ASSUME NEW c \in Channels, End(c) PROVE Matched'
  <2>1. {rooms[c]} \in SUBSET Slots
    BY <1>0, <1>3 DEF End, Listed, TypeOK
  <2>2. Serving' => Serving
    BY <1>3 DEF End, Serving, process
  <2> QED
    BY <1>3, <2>1, <2>2, ShutMatched DEF End
<1>4. ASSUME NEW s \in Slots, Expire(s) PROVE Matched'
  <2>1. {s} \in SUBSET Slots /\ MayClose(s)
    BY <1>4 DEF Expire, MayClose
  <2>2. Serving' => Serving
    BY <1>4 DEF Expire, Serving, process
  <2> QED
    BY <1>4, <2>1, <2>2, ShutMatched DEF Expire
<1>5. CASE Shutdown
  <2> DEFINE S == {s \in {rooms[c] : c \in Listed} : MayClose(s)}
  <2>1. S \in SUBSET Slots
    BY <1>0 DEF Listed, TypeOK
  <2>2. Shut(S) /\ UNCHANGED <<rooms, chan, creating>> /\ Serving
    BY <1>5 DEF Shutdown, Serving
  <2>3. \A s \in S : MayClose(s)
    OBVIOUS
  <2> HIDE DEF S
  <2> QED
    BY <2>1, <2>2, <2>3, ShutMatched
<1>6. CASE AllClosed \/ Exit
  <2>1. ~Serving'
    BY <1>6 DEF AllClosed, Exit, Serving
  <2>2. OwnChannel'
    BY <1>0, <1>6 DEF AllClosed, Exit, OwnChannel
  <2> QED
    BY <2>1, <2>2 DEF Matched
<1>7. CASE Drain \/ UNCHANGED vars
  BY <1>0, <1>7
  DEF Drain, vars, Matched, OwnChannel, OneRoom, OneRouter, Orderly, Serving
<1> QED
  BY <1>1, <1>2, <1>3, <1>4, <1>5, <1>6, <1>7 DEF Next

LEMMA MatchedHolds == Spec => [](Typed /\ Matched)
<1>1. Init => Typed /\ Matched
  BY InitTyped, InitMatched
<1>2. Typed /\ Matched /\ [Next]_vars => (Typed /\ Matched)'
  BY StepTyped, StepMatched
<1> QED
  BY <1>1, <1>2, PTL DEF Spec

\* Whatever awaits of start() and close() overlap, an active room that is
\* listed has the open router of its channel, and no router outlives its room,
\* where no starting room was closed.
THEOREM RoutersMatch == Spec => []RoutersMatchRooms
<1>1. Typed /\ Matched => RoutersMatchRooms
  <2> SUFFICES ASSUME Typed, Matched, Serving PROVE RoutersMatchRooms
    BY DEF RoutersMatchRooms, Serving
  <2>0. TypeOK /\ Placed /\ OwnChannel /\ OneRoom /\ OneRouter
    BY DEF Typed, Matched
  <2>1. ASSUME NEW c \in Listed \ cutShort, status[rooms[c]] = "active"
        PROVE  routers[c] \in alive /\ router[rooms[c]] = routers[c]
    <3>1. c \in Channels /\ rooms[c] \in Slots /\ chan[rooms[c]] = c
      BY <2>0, <2>1 DEF Listed, OwnChannel, TypeOK
    <3> QED
      BY <2>0, <2>1, <3>1 DEF OneRouter, Orderly, OwnChannel
  <2>2. ASSUME NEW r \in alive, chan[r] \notin cutShort
        PROVE  /\ routers[chan[r]] = r
               /\ chan[r] \in Listed /\ status[rooms[chan[r]]] = "active"
    <3>1. chan[r] \in Channels
      BY <2>0 DEF OwnChannel, Placed, TypeOK
    <3> QED
      BY <2>0, <2>2, <3>1 DEF OneRouter, Orderly, Listed
  <2> QED
    BY <2>1, <2>2 DEF RoutersMatchRooms
<1> QED
  BY <1>1, MatchedHolds, PTL

\* onClosed, which deletes by channel, and a start that failed never take an
\* active room off the list there.
THEOREM ActiveRoomsStayListed == Spec => NoActiveRoomUnlisted
<1> DEFINE A == \A c \in Channels \ cutShort :
                  (phase' \in {"up", "closing"} /\ c \in Listed /\ rooms'[c] # rooms[c])
                    => status[rooms[c]] # "active"
<1>1. ASSUME Typed, Matched, Next PROVE A
  <2>0. TypeOK /\ OwnChannel
    BY <1>1 DEF Typed, Matched
  <2>1. ASSUME NEW c \in Channels \ cutShort, phase' \in {"up", "closing"}, c \in Listed,
               rooms'[c] # rooms[c]
        PROVE  status[rooms[c]] # "active"
    <3>1. CASE \E d \in Channels, s \in Slots : StartByControl(d, s) \/ StartByDirect(d, s)
      BY <2>0, <2>1, <3>1
      DEF StartByControl, StartByDirect, Start, RoomForOneMore, Listed, TypeOK
    <3>2. CASE \E s \in Slots : RouterFails(s) \/ CloseDone(s)
      <4>1. PICK s \in Slots : RouterFails(s) \/ CloseDone(s)
        BY <3>2
      <4>2. rooms' = [rooms EXCEPT ![chan[s]] = None] /\ phase' = phase
        BY <4>1 DEF RouterFails, CloseDone, process
      <4>3. c = chan[s] /\ Serving
        BY <2>0, <2>1, <4>2 DEF Serving, TypeOK
      <4>4. Orderly(s)
        BY <2>1, <4>3 DEF Orderly
      <4> QED
        BY <1>1, <4>1, <4>3, <4>4, UnlistedMatched
    <3>3. CASE AllClosed
      BY <2>1, <3>3 DEF AllClosed
    <3>4. CASE UNCHANGED rooms
      BY <2>1, <3>4
    <3> QED
      BY <1>1, <3>1, <3>2, <3>3, <3>4
      DEF Next, RouterReady, Expire, Forget, End, Drain, Shutdown, Exit
  <2> QED
    BY <2>1
<1>2. Typed /\ Matched /\ [Next]_vars => [A]_vars
  BY <1>1
<1> QED
  BY <1>2, MatchedHolds, PTL DEF Spec, NoActiveRoomUnlisted

----------------------------------------------------------------------------
(* The rooms of a channel implement RoomLife *)

Now(c) == IF c \in Listed THEN status[rooms[c]] ELSE "none"
Moving(c) ==
  \/ Now(c)' = Now(c)
  \/ Now(c) = "none" /\ Now(c)' = "starting"
  \/ Now(c) = "starting" /\ Now(c)' \in {"active", "none"}
  \/ Now(c) = "active" /\ Now(c)' = "closed"
  \/ Now(c) = "closed" /\ Now(c)' = "none"

\* A start lists a room that awaits its router: where no starting room was
\* closed, the channel has none left from an earlier room.
LEMMA StartMoves ==
  ASSUME Typed, Matched, Serving, NEW d \in Channels, NEW s \in Slots, Start(d, s),
         NEW c \in Channels, c \notin cutShort
  PROVE  Moving(c)
<1>0. TypeOK /\ OwnChannel /\ OneRouter
  BY DEF Typed, Matched
<1>1. /\ rooms[d] = None /\ status[s] = "free"
      /\ rooms' = [rooms EXCEPT ![d] = s]
      /\ status' \in {[status EXCEPT ![s] = "starting"], [status EXCEPT ![s] = "active"]}
  BY DEF Start, RoomForOneMore
<1>2. CASE c = d
  <2>1. routers[d] = None
    <3> SUFFICES ASSUME routers[d] # None PROVE FALSE
      OBVIOUS
    <3>1. routers[d] \in alive /\ chan[routers[d]] = d
      BY <1>0 DEF OwnChannel
    <3> QED
      BY <1>0, <1>1, <1>2, <3>1 DEF OneRouter, Orderly
  <2>2. status' = [status EXCEPT ![s] = "starting"]
    BY <2>1 DEF Start
  <2>3. rooms'[c] = s /\ s # None /\ status'[s] = "starting"
    BY <1>0, <1>1, <1>2, <2>2, RoomsAssumption DEF TypeOK
  <2>4. Now(c) = "none" /\ Now(c)' = "starting"
    BY <1>1, <1>2, <2>3 DEF Now, Listed
  <2> QED
    BY <2>4 DEF Moving
<1>3. CASE c # d
  <2>1. rooms'[c] = rooms[c]
    BY <1>0, <1>1, <1>3 DEF TypeOK
  <2>2. c \in Listed => rooms[c] \in Slots /\ rooms[c] # s
    BY <1>0, <1>1 DEF Listed, OwnChannel, TypeOK
  <2>3. c \in Listed => status'[rooms[c]] = status[rooms[c]]
    BY <1>0, <1>1, <2>2 DEF TypeOK
  <2> QED
    BY <2>1, <2>3 DEF Moving, Now, Listed
<1> QED
  BY <1>2, <1>3

\* close() of listed rooms that are in use closes them, of other rooms nothing.
LEMMA ShutMoves ==
  ASSUME Typed, Matched, NEW S \in SUBSET Slots, \A s \in S : MayClose(s), Shut(S),
         UNCHANGED rooms, NEW c \in Channels, c \notin cutShort'
  PROVE  Moving(c)
<1>0. TypeOK /\ OwnChannel
  BY DEF Typed, Matched
<1>1. CASE c \in Listed /\ rooms[c] \in S
  <2>1. rooms[c] \in Slots /\ chan[rooms[c]] = c
    BY <1>0, <1>1 DEF Listed, OwnChannel
  <2>2. status[rooms[c]] # "starting"
    BY <1>1, <2>1 DEF Shut
  <2>3. status[rooms[c]] = "active" /\ status'[rooms[c]] = "closed"
    BY <1>1, <2>1, <2>2 DEF Shut, MayClose
  <2>4. Now(c) = "active" /\ Now(c)' = "closed"
    BY <1>1, <2>3 DEF Now, Listed
  <2> QED
    BY <2>4 DEF Moving
<1>2. CASE ~(c \in Listed /\ rooms[c] \in S)
  <2>1. c \in Listed => rooms[c] \in Slots /\ status'[rooms[c]] = status[rooms[c]]
    BY <1>0, <1>2 DEF Shut, Listed, TypeOK
  <2> QED
    BY <2>1 DEF Moving, Now, Listed
<1> QED
  BY <1>1, <1>2

\* The room that turns active is the listed one, in its start.
LEMMA ReadyMoves ==
  ASSUME Typed, Matched, Serving, NEW s \in Slots, RouterReady(s),
         NEW c \in Channels, c \notin cutShort
  PROVE  Moving(c)
<1>0. TypeOK /\ OwnChannel /\ OneRoom /\ Placed /\ ClosingBound
  BY DEF Typed, Matched
<1>1. s \in creating /\ status' = [status EXCEPT ![s] = "active"] /\ rooms' = rooms
  BY DEF RouterReady
<1>2. CASE c \in Listed /\ rooms[c] = s
  <2>1. chan[s] = c /\ status[s] = "starting"
    BY <1>0, <1>1, <1>2 DEF Listed, OwnChannel, OneRoom, Orderly
  <2>2. Now(c) = "starting" /\ Now(c)' = "active"
    BY <1>0, <1>1, <1>2, <2>1 DEF Now, Listed, TypeOK
  <2> QED
    BY <2>2 DEF Moving
<1>3. CASE ~(c \in Listed /\ rooms[c] = s)
  <2>1. c \in Listed => status'[rooms[c]] = status[rooms[c]]
    BY <1>0, <1>1, <1>3 DEF Listed, TypeOK
  <2> QED
    BY <1>1, <2>1 DEF Moving, Now, Listed
<1> QED
  BY <1>2, <1>3

\* What leaves the list had failed to start, or has closed.
LEMMA UnlistedMoves ==
  ASSUME Typed, Matched, Serving, NEW s \in Slots, RouterFails(s) \/ CloseDone(s),
         NEW c \in Channels, c \notin cutShort
  PROVE  Moving(c)
<1>0. TypeOK /\ OwnChannel /\ OneRoom /\ Placed /\ ClosingBound
  BY DEF Typed, Matched
<1>1. /\ s \in creating \/ closing[s] > 0
      /\ rooms' = [rooms EXCEPT ![chan[s]] = None] /\ status' = status
  BY DEF RouterFails, CloseDone
<1>2. CASE c = chan[s]
  <2>1. rooms[c] = s /\ status[s] # "active"
    BY <1>2, UnlistedMatched DEF Orderly
  <2>2. status[s] # "free"
    BY <1>0, <1>1 DEF ClosingBound, TypeOK
  <2>3. status[s] \in {"starting", "closed"}
    BY <1>0, <2>1, <2>2 DEF TypeOK
  <2>4. Now(c) = status[s]
    BY <2>1, RoomsAssumption DEF Now, Listed
  <2>5. rooms'[c] = None
    BY <1>0, <1>1, <1>2 DEF TypeOK
  <2>6. Now(c)' = "none"
    BY <2>5 DEF Now, Listed
  <2> QED
    BY <2>3, <2>4, <2>6 DEF Moving
<1>3. CASE c # chan[s]
  <2>1. rooms'[c] = rooms[c]
    BY <1>0, <1>1, <1>3 DEF TypeOK
  <2> QED
    BY <1>1, <2>1 DEF Moving, Now, Listed
<1> QED
  BY <1>2, <1>3

\* An object that nothing refers to is listed nowhere.
LEMMA ForgetMoves ==
  ASSUME Typed, NEW s \in Slots, Forget(s), NEW c \in Channels
  PROVE  Moving(c)
<1>1. /\ status' = [status EXCEPT ![s] = "free"] /\ rooms' = rooms /\ rooms[c] # s
  BY DEF Forget
<1>2. c \in Listed => status'[rooms[c]] = status[rooms[c]]
  BY <1>1 DEF Typed, TypeOK, Listed
<1> QED
  BY <1>1, <1>2 DEF Moving, Now, Listed

LEMMA StepMoves ==
  ASSUME Typed, Matched, [Next]_vars, NEW c \in Channels,
         c \notin cutShort', Serving'
  PROVE  Serving /\ c \notin cutShort /\ Moving(c)
<1>0. TypeOK /\ (Serving' => Serving) /\ cutShort \subseteq cutShort'
  <2>1. TypeOK
    BY DEF Typed
  <2> QED
    BY <2>1 DEF TypeOK, Next, StartByControl, StartByDirect, Start, RouterReady, RouterFails,
                End, Expire, Shut, CloseDone, Forget, Drain, Shutdown, AllClosed, Exit,
                process, Serving, vars
<1>1. Serving /\ c \notin cutShort
  BY <1>0
<1>2. CASE \E d \in Channels, s \in Slots : StartByControl(d, s) \/ StartByDirect(d, s)
  BY <1>1, <1>2, StartMoves DEF StartByControl, StartByDirect
<1>3. CASE \E d \in Channels : End(d)
  <2>1. PICK d \in Channels : End(d)
    BY <1>3
  <2>2. {rooms[d]} \in SUBSET Slots
    BY <1>0, <2>1 DEF End, Listed, TypeOK
  <2> QED
    BY <2>1, <2>2, ShutMoves, <1>1 DEF End
<1>4. CASE \E s \in Slots : Expire(s)
  <2>1. PICK s \in Slots : Expire(s)
    BY <1>4
  <2>2. {s} \in SUBSET Slots /\ MayClose(s)
    BY <2>1 DEF Expire, MayClose
  <2> QED
    BY <2>1, <2>2, ShutMoves, <1>1 DEF Expire
<1>5. CASE Shutdown
  <2> DEFINE S == {rooms[d] : d \in Listed}
             T == {s \in S : MayClose(s)}
  <2>1. Shut(T) /\ UNCHANGED rooms
    BY <1>5 DEF Shutdown
  <2>2. T \in SUBSET Slots /\ \A s \in T : MayClose(s)
    BY <1>0 DEF Listed, TypeOK
  <2> HIDE DEF T
  <2> QED
    BY <2>1, <2>2, ShutMoves, <1>1
<1>6. CASE \E s \in Slots : RouterReady(s) \/ RouterFails(s) \/ CloseDone(s) \/ Forget(s)
  BY <1>1, <1>6, ReadyMoves, UnlistedMoves, ForgetMoves
<1>7. CASE UNCHANGED <<rooms, status>>
  BY <1>1, <1>7 DEF Moving, Now, Listed
<1>8. CASE AllClosed
  BY <1>8 DEF AllClosed, Serving
<1> QED
  BY <1>2, <1>3, <1>4, <1>5, <1>6, <1>7, <1>8 DEF Next, Drain, Exit, vars

\* However the awaits of start() and close() overlap, at the limit of rooms and
\* through a shutdown, the rooms of a channel live one after the other, as
\* RoomLife has it.
THEOREM RoomsImplementLife == Spec => ImplementsRoomLife
<1> DEFINE L == [c \in Channels |-> LifeOf(c)]
<1>1. Init => Lives!Init
  <2> SUFFICES ASSUME Init PROVE L = [c \in Channels |-> "none"]
    BY DEF Lives!Init
  <2>1. \A c \in Channels : LifeOf(c) = "none"
    BY DEF Init, LifeOf, Listed
  <2> QED
    BY <2>1
<1>2. ASSUME Typed, Matched, [Next]_vars
      PROVE  [Lives!Next]_L
  <2>1. ASSUME NEW c \in Channels
        PROVE  \/ LifeOf(c)' \in {"astray", LifeOf(c)}
               \/ LifeOf(c) = "none" /\ LifeOf(c)' = "starting"
               \/ LifeOf(c) = "starting" /\ LifeOf(c)' \in {"active", "none"}
               \/ LifeOf(c) = "active" /\ LifeOf(c)' = "closed"
               \/ LifeOf(c) = "closed" /\ LifeOf(c)' = "none"
    <3>1. TypeOK /\ TypeOK'
      BY <1>2, StepTyped DEF Typed
    <3>2. CASE c \in cutShort' \/ ~Serving'
      <4>1. LifeOf(c)' = "astray"
        BY <3>1, <3>2 DEF LifeOf, Serving, TypeOK
      <4> QED
        BY <4>1
    <3>3. CASE c \notin cutShort' /\ Serving'
      <4>1. Serving /\ c \notin cutShort /\ Moving(c)
        BY <1>2, <3>3, StepMoves
      <4>2. LifeOf(c) = Now(c) /\ LifeOf(c)' = Now(c)'
        BY <3>3, <4>1 DEF LifeOf, Now, Serving
      <4> QED
        BY <4>1, <4>2 DEF Moving
    <3> QED
      BY <3>2, <3>3
  <2>2. \A c \in Channels : L[c] = LifeOf(c) /\ L'[c] = LifeOf(c)'
    OBVIOUS
  <2>3. ASSUME NEW c \in Channels
        PROVE  \/ Lives!Opens(c) \/ Lives!Ready(c) \/ Lives!Fails(c) \/ Lives!Closes(c)
               \/ Lives!Freed(c) \/ Lives!Strays(c) \/ Lives!Stays(c)
    BY <2>1, <2>2
    DEF Lives!Opens, Lives!Ready, Lives!Fails, Lives!Closes, Lives!Freed, Lives!Strays,
        Lives!Stays, Lives!Moves
  <2> QED
    BY <2>3 DEF Lives!Next
<1>3. Typed /\ Matched /\ [Next]_vars => [Lives!Next]_L
  BY <1>2
<1> QED
  BY <1>1, <1>3, MatchedHolds, PTL DEF Spec, ImplementsRoomLife, Lives!Spec

----------------------------------------------------------------------------
(* Closes that are under way *)

\* Rooms that close have a close() more.
LEMMA ShutUnderWay ==
  ASSUME Typed, ClosesUnderWay, NEW S \in SUBSET Slots, Shut(S),
         UNCHANGED <<rooms, chan>>, awaited' \subseteq awaited \union S,
         \A c \in Listed : chan[rooms[c]] = c
  PROVE  ClosesUnderWay'
<1>0. TypeOK
  BY DEF Typed
<1>1. \A s \in Slots : status'[s] = "closed" => s \in S \/ status[s] = "closed"
  BY DEF Shut
<1>2. \A s \in Slots : closing'[s] >= closing[s] /\ (s \in S => closing'[s] > 0)
  BY <1>0 DEF Shut, TypeOK
<1>3. ASSUME NEW c \in Listed', status'[rooms'[c]] = "closed"
      PROVE  closing'[rooms'[c]] > 0 /\ chan'[rooms'[c]] = c
  <2>1. c \in Listed /\ rooms[c] \in Slots /\ rooms'[c] = rooms[c]
    BY <1>0, <1>3 DEF Listed, TypeOK
  <2>2. closing[rooms[c]] \in Nat /\ closing'[rooms[c]] \in Nat
    BY <1>0, <2>1 DEF Shut, TypeOK
  <2> QED
    BY <1>1, <1>2, <1>3, <2>1, <2>2 DEF ClosesUnderWay
<1>4. ASSUME NEW s \in awaited' PROVE closing'[s] > 0
  <2>1. s \in Slots /\ (s \in S \/ s \in awaited)
    BY <1>0 DEF TypeOK
  <2>2. closing[s] \in Nat /\ closing'[s] \in Nat
    BY <1>0, <2>1 DEF Shut, TypeOK
  <2> QED
    BY <1>2, <2>1, <2>2 DEF ClosesUnderWay
<1> QED
  BY <1>3, <1>4 DEF ClosesUnderWay

LEMMA StepUnderWay ==
  Typed /\ OwnChannel /\ ClosesUnderWay /\ [Next]_vars => ClosesUnderWay'
<1> SUFFICES ASSUME Typed, OwnChannel, ClosesUnderWay, [Next]_vars PROVE ClosesUnderWay'
  OBVIOUS
<1>0. TypeOK /\ \A c \in Listed : chan[rooms[c]] = c /\ rooms[c] \in Slots
  BY DEF Typed, TypeOK, OwnChannel, Listed
<1>1. ASSUME NEW c \in Channels, NEW s \in Slots,
             StartByControl(c, s) \/ StartByDirect(c, s)
      PROVE  ClosesUnderWay'
  <2>1. /\ status[s] = "free" /\ rooms' = [rooms EXCEPT ![c] = s]
        /\ chan' = [chan EXCEPT ![s] = c] /\ UNCHANGED <<closing, awaited>>
        /\ status' \in { [status EXCEPT ![s] = x] : x \in {"starting", "active"}}
    BY <1>1 DEF StartByControl, StartByDirect, Start, RoomForOneMore
  <2> QED
    BY <1>0, <2>1 DEF ClosesUnderWay, Listed, TypeOK
<1>2. ASSUME NEW s \in Slots, RouterReady(s) PROVE ClosesUnderWay'
  BY <1>0, <1>2 DEF RouterReady, ClosesUnderWay, Listed, TypeOK
<1>3. ASSUME NEW s \in Slots, RouterFails(s) PROVE ClosesUnderWay'
  BY <1>0, <1>3 DEF RouterFails, ClosesUnderWay, Listed, TypeOK
<1>4. ASSUME NEW s \in Slots, CloseDone(s) PROVE ClosesUnderWay'
  BY <1>0, <1>4 DEF CloseDone, ClosesUnderWay, Listed, TypeOK
<1>5. ASSUME NEW s \in Slots, Forget(s) PROVE ClosesUnderWay'
  BY <1>0, <1>5 DEF Forget, ClosesUnderWay, Listed, TypeOK
<1>6. ASSUME NEW c \in Channels, End(c) PROVE ClosesUnderWay'
  <2>1. {rooms[c]} \in SUBSET Slots
    BY <1>0, <1>6 DEF End
  <2> QED
    BY <1>0, <1>6, <2>1, ShutUnderWay DEF End
<1>7. ASSUME NEW s \in Slots, Expire(s) PROVE ClosesUnderWay'
  BY <1>0, <1>7, ShutUnderWay DEF Expire
<1>8. CASE Shutdown
  <2> DEFINE S == {s \in {rooms[c] : c \in Listed} : MayClose(s)}
  <2>1. S \in SUBSET Slots
    BY <1>0
  <2>2. Shut(S) /\ UNCHANGED <<rooms, chan>> /\ awaited' = S
    BY <1>8 DEF Shutdown
  <2> HIDE DEF S
  <2> QED
    BY <1>0, <2>1, <2>2, ShutUnderWay
<1>9. CASE Drain \/ AllClosed \/ Exit \/ UNCHANGED vars
  BY <1>0, <1>9 DEF Drain, AllClosed, Exit, vars, ClosesUnderWay, Listed, TypeOK
<1> QED
  BY <1>1, <1>2, <1>3, <1>4, <1>5, <1>6, <1>7, <1>8, <1>9 DEF Next

\* A closed room does not keep its channel, nor a room that closeAll awaits the
\* process, with no close() under way to end that: ChannelFreed and
\* ShutdownProceeds want no more than that publishes end.
THEOREM ClosesStayUnderWay == Spec => []ClosesUnderWay
<1>1. Init => ClosesUnderWay
  BY DEF Init, ClosesUnderWay, Listed
<1>2. Typed /\ Matched => Typed /\ OwnChannel
  BY DEF Matched
<1> QED
  BY <1>1, <1>2, MatchedHolds, StepUnderWay, PTL DEF Spec
===============================================================================
