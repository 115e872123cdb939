--------------------------- MODULE SfuRoom_proofs ---------------------------
(* The safety of SfuRoom for any users, devices, producers and bounds, and  *)
(* that it implements Occupancy.                                            *)
EXTENDS SfuRoomProps, TLAPS


----------------------------------------------------------------------------
(* Types, with the fact they rest on: a request that still holds the        *)
(* PeerState of the table has its device there.                             *)

Typed == TypeOK /\ LiveCallsInTable

\* What leaves the calls of the devices D detached keeps types and liveness.
LEMMA DetachedTyped ==
  ASSUME NEW D \in SUBSET Devices, NEW C \in SUBSET Call
  PROVE  /\ Detached(D, C) \in SUBSET Call
         /\ \A c \in Detached(D, C) : \E b \in C :
              /\ c.kind = b.kind /\ c.dev = b.dev
              /\ c.live => b.live
              /\ c.live /\ c.kind # "inject" => c.dev \notin D
<1>1. ASSUME NEW b \in C
      PROVE  /\ Detach(b, D) \in Call
             /\ Detach(b, D).kind = b.kind /\ Detach(b, D).dev = b.dev
             /\ Detach(b, D).live => b.live
             /\ Detach(b, D).live /\ b.kind # "inject" => b.dev \notin D
  <2>1. b \in Call
    OBVIOUS
  <2> QED
    BY <2>1 DEF Call, Detach
<1> QED
  BY <1>1 DEF Detached

\* Devices that leave the table keep the types, whoever is told of it.
LEMMA RemoveTyped ==
  ASSUME TypeOK, NEW D \in SUBSET Devices, NEW P, NEW U \in SUBSET Users,
         Remove(D, P, U)
  PROVE  /\ present' = present \ D
         /\ present' \in SUBSET Devices
         /\ send' \in SUBSET present' /\ recv' \in SUBSET present'
         /\ producers' \in [Devices -> SUBSET Producers]
         /\ told' \in [Devices -> SUBSET Users]
         /\ shown' \in [Devices -> SUBSET Producers]
  BY DEF Remove, Hear, TypeOK

\* A request that enters the calls is of their type.
LEMMA WithTyped ==
  ASSUME NEW C \in SUBSET Call, NEW d \in Devices, NEW b \in BOOLEAN,
         NEW kind \in Directions \union {"produce", "stats", "inject"}
  PROVE  With(kind, d, b, C) \in SUBSET Call
  BY DEF With, Call

\* The devices D leave and their requests are detached: the requests that still
\* hold the PeerState of the table have their device among those that stay.
LEMMA RemovedCalls ==
  ASSUME Typed, NEW D \in SUBSET Devices, NEW C \in SUBSET calls,
         present' = present \ D
  PROVE  /\ Detached(D, C) \in SUBSET Call
         /\ \A c \in Detached(D, C) :
              c.live /\ c.kind # "inject" => c.dev \in present'
<1>1. C \in SUBSET Call
  BY DEF Typed, TypeOK
<1>2. ASSUME NEW c \in Detached(D, C), c.live, c.kind # "inject"
      PROVE  c.dev \in present'
  <2>1. PICK b \in C : /\ c.kind = b.kind /\ c.dev = b.dev
                       /\ c.live => b.live
                       /\ c.live /\ c.kind # "inject" => c.dev \notin D
    BY <1>1, DetachedTyped
  <2>2. b.dev \in present
    BY <1>2, <2>1 DEF Typed, LiveCallsInTable
  <2> QED
    BY <1>2, <2>1, <2>2
<1> QED
  BY <1>1, <1>2, DetachedTyped

\* A request of kind k, direction of d, added to calls that are sound.
LEMMA AddedCall ==
  ASSUME Typed, NEW d \in Devices, NEW b \in BOOLEAN, NEW C \in SUBSET Call,
         NEW k \in Directions \union {"produce", "stats", "inject"},
         \A c \in C : c.live /\ c.kind # "inject" => c.dev \in present',
         b /\ k # "inject" => d \in present',
         calls' = With(k, d, b, C)
  PROVE  calls' \in SUBSET Call /\ LiveCallsInTable'
<1>1. calls' \in SUBSET Call
  BY WithTyped
<1>2. ASSUME NEW c \in calls', c.live, c.kind # "inject"
      PROVE  c.dev \in present'
  <2>1. CASE c \in C
    BY <1>2, <2>1
  <2>2. CASE c = [kind |-> k, dev |-> d, live |-> b]
    BY <1>2, <2>2
  <2> QED
    BY <2>1, <2>2 DEF With
<1> QED
  BY <1>1, <1>2 DEF LiveCallsInTable

\* A room that start() has made active is typed.
LEMMA InitTyped == Init => Typed
  BY DEF Init, Typed, TypeOK, LiveCallsInTable

\* A step that leaves the table alone and starts no request keeps the second.
LEMMA FewerCalls ==
  ASSUME Typed, calls' \in SUBSET calls, present \subseteq present'
  PROVE  calls' \in SUBSET Call /\ LiveCallsInTable'
  BY DEF Typed, TypeOK, LiveCallsInTable

\* dropStalePeer keeps the types.
LEMMA DropTyped ==
  ASSUME Typed, NEW d \in present, NEW C \in SUBSET calls, DropStalePeer(d, C)
  PROVE  Typed'
<1>1. {d} \in SUBSET Devices /\ {UserOf[d]} \in SUBSET Users
  BY DevicesAssumption DEF Typed, TypeOK
<1>2. Remove({d}, producers[d], {UserOf[d]})
  BY DEF DropStalePeer
<1>3. /\ calls' = Detached({d}, C)
      /\ emptyTimer' \in BOOLEAN
      /\ UNCHANGED <<status, kicking, visited, ruleCap>>
  BY DEF DropStalePeer, Typed, TypeOK, MaybeStartEmptyTimer, room
<1>4. TypeOK
  BY DEF Typed
<1>5. /\ present' = present \ {d}
      /\ present' \in SUBSET Devices
      /\ send' \in SUBSET present' /\ recv' \in SUBSET present'
      /\ producers' \in [Devices -> SUBSET Producers]
      /\ told' \in [Devices -> SUBSET Users]
      /\ shown' \in [Devices -> SUBSET Producers]
  BY <1>1, <1>2, <1>4, RemoveTyped
<1>6. calls' \in SUBSET Call /\ LiveCallsInTable'
  BY <1>1, <1>3, <1>5, RemovedCalls DEF LiveCallsInTable
<1> QED
  BY <1>3, <1>4, <1>5, <1>6 DEF Typed, TypeOK

\* close() keeps the types.
LEMMA ShutTyped ==
  ASSUME Typed, Shut
  PROVE  Typed'
<1>1. /\ Remove(Devices, {}, {})
      /\ calls' = Detached(Devices, calls)
      /\ status' = "closed" /\ emptyTimer' = FALSE
      /\ UNCHANGED <<kicking, visited, ruleCap>>
  BY DEF Shut
<1>2. TypeOK
  BY DEF Typed
<1>3. /\ present' = present \ Devices
      /\ present' \in SUBSET Devices
      /\ send' \in SUBSET present' /\ recv' \in SUBSET present'
      /\ producers' \in [Devices -> SUBSET Producers]
      /\ told' \in [Devices -> SUBSET Users]
      /\ shown' \in [Devices -> SUBSET Producers]
  BY <1>1, <1>2, RemoveTyped
<1>4. calls' \in SUBSET Call /\ LiveCallsInTable'
  BY <1>1, <1>3, RemovedCalls DEF LiveCallsInTable
<1> QED
  BY <1>1, <1>2, <1>3, <1>4 DEF Typed, TypeOK

\* Every step keeps the types.
LEMMA StepTyped == Typed /\ [Next]_vars => Typed'
<1> SUFFICES ASSUME Typed, [Next]_vars PROVE Typed'
  OBVIOUS
<1>0. TypeOK
  BY DEF Typed
<1>1. ASSUME NEW d \in Devices, NEW dir \in Directions, FirstTransport(d, dir)
      PROVE  Typed'
  <2>1. calls' \in SUBSET Call /\ LiveCallsInTable'
    <3>1. /\ present' = present \union {d}
          /\ calls' = With(dir, d, TRUE, calls)
      BY <1>1 DEF FirstTransport
    <3>2. \A c \in calls : c.live /\ c.kind # "inject" => c.dev \in present'
      BY <3>1 DEF Typed, LiveCallsInTable
    <3> QED
      BY <3>1, <3>2, <1>0, AddedCall DEF TypeOK
  <2> QED
    BY <1>0, <1>1, <2>1 DEF FirstTransport, Typed, TypeOK, media, views, TimerAfterEntry
<1>2. ASSUME NEW d \in Devices, NEW dir \in Directions, ReplaceTransport(d, dir)
      PROVE  Typed'
  <2>1. calls' \in SUBSET Call /\ LiveCallsInTable'
    <3>1. /\ present' = present /\ d \in present
          /\ calls' = With(dir, d, TRUE, calls)
      BY <1>0, <1>2 DEF ReplaceTransport, TypeOK
    <3> QED
      BY <3>1, <1>0, AddedCall DEF TypeOK, Typed, LiveCallsInTable
  <2>2. CASE dir = "send"
    BY <1>0, <1>2, <2>1, <2>2 DEF ReplaceTransport, Typed, TypeOK, room, views
  <2>3. CASE dir = "recv"
    BY <1>0, <1>2, <2>1, <2>3 DEF ReplaceTransport, Hear, Typed, TypeOK, room
  <2> QED
    BY <2>2, <2>3 DEF Directions
<1>3. ASSUME NEW d \in Devices, NEW dir \in Directions, ReplaceOnlyTransport(d, dir)
      PROVE  Typed'
  <2>0. PICK P \in SUBSET producers[d] : Remove({d}, P, LeftWith(d))
    BY <1>3 DEF ReplaceOnlyTransport
  <2>1. /\ Remove({d}, P, LeftWith(d))
        /\ {d} \in SUBSET Devices /\ LeftWith(d) \in SUBSET Users
        /\ calls' = With(dir, d, FALSE, Detached({d}, calls))
        /\ emptyTimer' \in BOOLEAN
        /\ UNCHANGED <<status, kicking, visited, ruleCap>>
    BY <1>0, <1>3, <2>0, DevicesAssumption
    DEF ReplaceOnlyTransport, LeftWith, TypeOK, MaybeStartEmptyTimer, room
  <2>2. /\ present' = present \ {d}
        /\ present' \in SUBSET Devices
        /\ send' \in SUBSET present' /\ recv' \in SUBSET present'
        /\ producers' \in [Devices -> SUBSET Producers]
        /\ told' \in [Devices -> SUBSET Users]
        /\ shown' \in [Devices -> SUBSET Producers]
    BY <1>0, <2>1, RemoveTyped
  <2>3. calls' \in SUBSET Call /\ LiveCallsInTable'
    <3>1. /\ Detached({d}, calls) \in SUBSET Call
          /\ \A c \in Detached({d}, calls) :
               c.live /\ c.kind # "inject" => c.dev \in present'
      BY <2>1, <2>2, RemovedCalls
    <3> QED
      BY <2>1, <3>1, AddedCall
  <2> QED
    BY <1>0, <2>1, <2>2, <2>3 DEF Typed, TypeOK
<1>4. ASSUME NEW c \in calls, TransportReady(c)
      PROVE  Typed'
  <2>1. /\ calls' = calls \ {c} /\ present' = present
        /\ calls' \in SUBSET Call /\ LiveCallsInTable'
    BY <1>0, <1>4, FewerCalls DEF TransportReady
  <2>2. send' \in SUBSET present /\ recv' \in SUBSET present
    BY <1>0, <1>4 DEF TransportReady, Attaches, Typed, TypeOK, LiveCallsInTable, Directions
  <2>3. told' \in [Devices -> SUBSET Users] /\ shown' \in [Devices -> SUBSET Producers]
    <3>1. CASE c.kind # "recv"
      BY <1>0, <1>4, <3>1 DEF TransportReady, TypeOK, views
    <3>2. CASE c.kind = "recv"
      <4>1. c.dev \in Devices
        BY <1>0 DEF TypeOK, Call
      <4>2. /\ UsersIn(present) \in SUBSET Users /\ UserOf[c.dev] \in Users
            /\ FeedsFor(UserOf[c.dev]) \in SUBSET Producers
        BY <1>0, <4>1, DevicesAssumption DEF UsersIn, FeedsFor, Published, TypeOK
      <4>3. PICK R : Announce(UserOf[c.dev], R)
        BY <1>4, <3>2 DEF TransportReady
      <4> QED
        BY <1>0, <4>2, <4>3 DEF Announce, TypeOK
    <3> QED
      BY <3>1, <3>2
  <2> QED
    BY <1>0, <1>4, <2>1, <2>2, <2>3 DEF TransportReady, Typed, TypeOK, room
<1>5. ASSUME NEW c \in calls, CallFails(c)
      PROVE  Typed'
  BY <1>0, <1>5, FewerCalls DEF CallFails, Typed, TypeOK, room, media, views
<1>6. ASSUME NEW d \in Devices, ProduceBegin(d)
      PROVE  Typed'
  <2>1. calls' \in SUBSET Call /\ LiveCallsInTable'
    BY <1>0, <1>6, AddedCall DEF ProduceBegin, TypeOK, Typed, LiveCallsInTable
  <2> QED
    BY <1>0, <1>6, <2>1 DEF ProduceBegin, Typed, TypeOK, room, media, views
<1>7. ASSUME NEW c \in calls, NEW p \in Producers, ProduceReady(c, p)
      PROVE  Typed'
  <2>1. calls' \in SUBSET Call /\ LiveCallsInTable'
    BY <1>7, FewerCalls DEF ProduceReady
  <2> QED
    BY <1>0, <1>7, <2>1 DEF ProduceReady, Typed, TypeOK, room
<1>8. ASSUME NEW d \in Devices, NEW p \in Producers, CloseProducer(d, p)
      PROVE  Typed'
  BY <1>0, <1>8, FewerCalls DEF CloseProducer, Hear, Typed, TypeOK, room
<1>9. ASSUME NEW d \in Devices, NEW p \in Producers, ProducerClosed(d, p)
      PROVE  Typed'
  BY <1>0, <1>9, FewerCalls DEF ProducerClosed, Typed, TypeOK, room, media
<1>10. ASSUME NEW d \in Devices, InjectBegin(d)
      PROVE  Typed'
  <2>1. calls' \in SUBSET Call /\ LiveCallsInTable'
    BY <1>0, <1>10, AddedCall DEF InjectBegin, TypeOK, Typed, LiveCallsInTable
  <2> QED
    BY <1>0, <1>10, <2>1 DEF InjectBegin, Typed, TypeOK, room, media, views
<1>11. ASSUME NEW c \in calls, NEW p \in Producers, InjectReady(c, p)
      PROVE  Typed'
  <2>1. c.dev \in Devices /\ UserOf[c.dev] \in Users
    BY <1>0, DevicesAssumption DEF TypeOK, Call
  <2>2. calls' \in SUBSET Call /\ LiveCallsInTable'
    BY <1>11, FewerCalls DEF InjectReady
  <2> QED
    BY <1>0, <1>11, <2>1, <2>2 DEF InjectReady, Typed, TypeOK, TimerAfterEntry
<1>12. ASSUME NEW d \in Devices, Leave(d) \/ ReapIdle(d)
      PROVE  Typed'
  BY <1>12, DropTyped DEF Leave, ReapIdle
<1>13. ASSUME NEW d \in Devices, ReapStats(d)
      PROVE  Typed'
  <2>1. calls' \in SUBSET Call /\ LiveCallsInTable'
    BY <1>0, <1>13, AddedCall DEF ReapStats, TypeOK, Typed, LiveCallsInTable
  <2> QED
    BY <1>0, <1>13, <2>1 DEF ReapStats, Typed, TypeOK, room, media, views
<1>14. ASSUME NEW c \in calls, ReapSilent(c)
      PROVE  Typed'
  <2>1. c.dev \in present /\ calls \ {c} \in SUBSET calls
    BY <1>14 DEF ReapSilent, Typed, LiveCallsInTable
  <2> QED
    BY <1>14, <2>1, DropTyped DEF ReapSilent
<1>15. ASSUME NEW u \in Users, Kick(u)
      PROVE  Typed'
  <2> DEFINE D == present \intersect DevicesOf(u)
             P == Published(D)
  <2>1. /\ Remove(D, P, {}) /\ D \in SUBSET Devices
        /\ calls' = Detached(D, calls)
        /\ kicking' = kicking \union {u}
        /\ UNCHANGED <<status, emptyTimer, visited, ruleCap>>
    BY <1>0, <1>15 DEF Kick, TypeOK
  <2> HIDE DEF D, P
  <2>2. /\ present' = present \ D
        /\ present' \in SUBSET Devices
        /\ send' \in SUBSET present' /\ recv' \in SUBSET present'
        /\ producers' \in [Devices -> SUBSET Producers]
        /\ told' \in [Devices -> SUBSET Users]
        /\ shown' \in [Devices -> SUBSET Producers]
    BY <1>0, <2>1, RemoveTyped
  <2>3. calls' \in SUBSET Call /\ LiveCallsInTable'
    BY <2>1, <2>2, RemovedCalls DEF LiveCallsInTable
  <2> QED
    BY <1>0, <2>1, <2>2, <2>3 DEF Typed, TypeOK
<1>16. ASSUME NEW u \in Users, KickPublished(u)
      PROVE  Typed'
  BY <1>0, <1>16, FewerCalls
  DEF KickPublished, Hear, MaybeStartEmptyTimer, Typed, TypeOK, media
<1>17. ASSUME NEW cap \in RuleCaps \union {NoRule}, UpdateRules(cap)
      PROVE  Typed'
  BY <1>0, <1>17, FewerCalls DEF UpdateRules, Typed, TypeOK, media, views
<1>18. CASE EmptyTimeout
  <2>1. CASE present = {} /\ status = "active"
    BY <1>18, <2>1, ShutTyped DEF EmptyTimeout
  <2>2. CASE ~(present = {} /\ status = "active")
    BY <1>0, <1>18, <2>2, FewerCalls DEF EmptyTimeout, Typed, TypeOK, room, media, views
  <2> QED
    BY <2>1, <2>2
<1>19. CASE Close
  BY <1>19, ShutTyped DEF Close
<1>20. CASE UNCHANGED vars
  BY <1>0, <1>20, FewerCalls DEF vars, Typed, TypeOK
<1> QED
  BY <1>1, <1>2, <1>3, <1>4, <1>5, <1>6, <1>7, <1>8, <1>9, <1>10, <1>11, <1>12,
     <1>13, <1>14, <1>15, <1>16, <1>17, <1>18, <1>19, <1>20 DEF Next

\* The tables of a room always hold what the declarations say, whatever
\* requests were in flight when devices came and went.
THEOREM TypesHold == Spec => []TypeOK
<1>1. Spec => []Typed
  BY InitTyped, StepTyped, PTL DEF Spec
<1> QED
  BY <1>1, PTL DEF Typed

----------------------------------------------------------------------------
(* The empty-room timer *)

Timed == EmptyTimerOnlyWhenEmpty /\ EmptiedRoomCountsDown

\* A room nobody visited has no timer and needs none.
LEMMA InitTimed == Init => Timed
  BY DEF Init, Timed, EmptyTimerOnlyWhenEmpty, EmptiedRoomCountsDown

\* Every way into the table clears the timer, every way out ends in
\* maybeStartEmptyTimer, or begins a kick that will.
LEMMA StepTimed == Timed /\ [Next]_vars => Timed'
<1> SUFFICES ASSUME Timed, [Next]_vars PROVE Timed'
  OBVIOUS
<1> USE DEF Timed, EmptyTimerOnlyWhenEmpty, EmptiedRoomCountsDown
<1>1. ASSUME NEW d \in Devices, NEW dir \in Directions, FirstTransport(d, dir)
      PROVE  Timed'
  BY <1>1 DEF FirstTransport, TimerAfterEntry
<1>2. ASSUME NEW d \in Devices, NEW dir \in Directions, ReplaceTransport(d, dir)
      PROVE  Timed'
  BY <1>2 DEF ReplaceTransport, room
<1>3. ASSUME NEW d \in Devices, NEW dir \in Directions, ReplaceOnlyTransport(d, dir)
      PROVE  Timed'
  BY <1>3 DEF ReplaceOnlyTransport, Begins, Remove, MaybeStartEmptyTimer, room
<1>4. ASSUME NEW d, NEW C, status = "active", DropStalePeer(d, C)
      PROVE  Timed'
  BY <1>4 DEF DropStalePeer, Remove, MaybeStartEmptyTimer, room
<1>5. ASSUME Shut
      PROVE  Timed'
  BY <1>5 DEF Shut
<1>6. ASSUME NEW c \in calls,
             \/ TransportReady(c) \/ CallFails(c)
             \/ \E p \in Producers : ProduceReady(c, p)
      PROVE  Timed'
  BY <1>6 DEF TransportReady, CallFails, ProduceReady, room
<1>7. ASSUME NEW c \in calls, NEW p \in Producers, InjectReady(c, p)
      PROVE  Timed'
  BY <1>7 DEF InjectReady, TimerAfterEntry
<1>8. ASSUME NEW d \in Devices,
             \/ ProduceBegin(d) \/ InjectBegin(d) \/ ReapStats(d)
             \/ \E p \in Producers : CloseProducer(d, p) \/ ProducerClosed(d, p)
      PROVE  Timed'
  <2>1. UNCHANGED <<room, present, emptyTimer>>
    BY <1>8 DEF ProduceBegin, InjectBegin, ReapStats, CloseProducer, ProducerClosed
  <2> QED
    BY <2>1 DEF room
<1>9. ASSUME NEW d \in Devices, Leave(d) \/ ReapIdle(d)
      PROVE  Timed'
  BY <1>4, <1>9 DEF Leave, ReapIdle
<1>10. ASSUME NEW c \in calls, ReapSilent(c)
       PROVE  Timed'
  \* close() leaves the timer off and takes no visit back.
  <2>1. CASE status = "active"
    BY <1>4, <1>10, <2>1 DEF ReapSilent
  <2>2. CASE status # "active"
    BY <1>10, <2>2 DEF ReapSilent, DropStalePeer, MaybeStartEmptyTimer, room
  <2> QED
    BY <2>1, <2>2
<1>11. ASSUME NEW u \in Users, Kick(u)
       PROVE  Timed'
  BY <1>11 DEF Kick, Remove
<1>12. ASSUME NEW u \in Users, KickPublished(u)
       PROVE  Timed'
  BY <1>12 DEF KickPublished, MaybeStartEmptyTimer
<1>13. ASSUME NEW cap, UpdateRules(cap)
       PROVE  Timed'
  BY <1>13 DEF UpdateRules
<1>14. CASE EmptyTimeout
  BY <1>5, <1>14 DEF EmptyTimeout, room
<1>15. CASE Close
  BY <1>5, <1>15 DEF Close
<1>16. CASE UNCHANGED vars
  BY <1>16 DEF vars
<1> QED
  BY <1>1, <1>2, <1>3, <1>6, <1>7, <1>8, <1>9, <1>10, <1>11, <1>12, <1>13,
     <1>14, <1>15, <1>16 DEF Next

\* maybeStartEmptyTimer and cancelEmptyTimer keep an armed timer to an empty,
\* active room.
THEOREM TimerOnlyWhenEmpty == Spec => []EmptyTimerOnlyWhenEmpty
<1>1. Spec => []Timed
  BY InitTimed, StepTimed, PTL DEF Spec
<1> QED
  BY <1>1, PTL DEF Timed

\* Every way out of the table arms the timer of a room it empties, a kick once
\* its publish has ended.
THEOREM EmptiedCountsDown == Spec => []EmptiedRoomCountsDown
<1>1. Spec => []Timed
  BY InitTimed, StepTimed, PTL DEF Spec
<1> QED
  BY <1>1, PTL DEF Timed

----------------------------------------------------------------------------
(* No producer of another user is missed *)

Feeds == NoMediaOutside /\ ProducersUnique /\ FeedsAnnounced

\* A room without producers misses none.
LEMMA InitFeeds == Init => Feeds
  BY DEF Init, Feeds, NoMediaOutside, ProducersUnique, FeedsAnnounced

\* Devices leave: the ids closed with them are nobody else's.
LEMMA RemoveFeeds ==
  ASSUME Typed, Feeds, NEW D \in SUBSET Devices, NEW P \in SUBSET Published(D), NEW U,
         Remove(D, P, U)
  PROVE  Feeds'
<1>1. /\ present' = present \ D /\ recv' = recv \ D
      /\ producers' = [d \in Devices |-> IF d \in D THEN {} ELSE producers[d]]
      /\ told' = [d \in Devices |-> IF d \in recv \ D THEN told[d] \ U ELSE {}]
      /\ shown' = [d \in Devices |->
                     IF d \in recv \ D THEN shown[d] \ P ELSE {}]
      /\ present \in SUBSET Devices /\ recv \in SUBSET Devices
  BY DEF Remove, Hear, Typed, TypeOK
<1>2. NoMediaOutside'
  BY <1>1 DEF NoMediaOutside, Feeds
<1>3. ProducersUnique'
  BY <1>1 DEF ProducersUnique, Feeds
<1>4. ASSUME NEW d \in recv', NEW o \in present', UserOf[o] # UserOf[d]
      PROVE  producers'[o] \subseteq shown'[d]
  <2>1. producers[o] \subseteq shown[d]
    BY <1>1, <1>4 DEF Feeds, FeedsAnnounced
  <2>2. producers[o] \intersect Published(D) = {}
    BY <1>1 DEF Published, Feeds, ProducersUnique
  <2> QED
    BY <1>1, <2>1, <2>2
<1> QED
  BY <1>2, <1>3, <1>4 DEF Feeds, FeedsAnnounced

\* A step that leaves table, transports, producers and what was shown alone.
LEMMA SameFeeds ==
  ASSUME Feeds, UNCHANGED <<present, recv, producers, told, shown>>
  PROVE  Feeds'
  BY DEF Feeds, NoMediaOutside, ProducersUnique, FeedsAnnounced

\* Every step shows what it adds and closes what it removes.
LEMMA StepFeeds == Typed /\ Feeds /\ [Next]_vars => Feeds'
<1> SUFFICES ASSUME Typed, Feeds, [Next]_vars PROVE Feeds'
  OBVIOUS
<1>0. TypeOK /\ NoMediaOutside /\ ProducersUnique /\ FeedsAnnounced
  BY DEF Typed, Feeds
<1>1. ASSUME NEW d \in Devices, NEW dir \in Directions, FirstTransport(d, dir)
      PROVE  Feeds'
  <2>1. /\ present' = present \union {d}
        /\ UNCHANGED <<recv, producers, told, shown>>
    BY <1>1 DEF FirstTransport, media, views
  <2>2. NoMediaOutside' /\ ProducersUnique'
    BY <1>0, <2>1 DEF NoMediaOutside, ProducersUnique
  <2>3. FeedsAnnounced'
    BY <1>0, <2>1 DEF NoMediaOutside, FeedsAnnounced
  <2> QED
    BY <2>2, <2>3 DEF Feeds
<1>2. ASSUME NEW d \in Devices, NEW dir \in Directions, ReplaceTransport(d, dir)
      PROVE  Feeds'
  <2>1. CASE dir = "send"
    <3>1. /\ producers' = [producers EXCEPT ![d] = {}]
          /\ UNCHANGED <<present, recv, told, shown>>
      BY <1>2, <2>1 DEF ReplaceTransport, room, views
    <3> QED
      BY <1>0, <3>1 DEF Feeds, NoMediaOutside, ProducersUnique, FeedsAnnounced, TypeOK
  <2>2. CASE dir = "recv"
    <3>1. /\ recv' = recv \ {d}
          /\ told' = [x \in Devices |-> IF x \in recv' THEN told[x] ELSE {}]
          /\ shown' = [x \in Devices |-> IF x \in recv' THEN shown[x] ELSE {}]
          /\ UNCHANGED <<present, producers>>
      BY <1>0, <1>2, <2>2 DEF ReplaceTransport, Hear, room, TypeOK
    <3> QED
      BY <1>0, <3>1 DEF Feeds, NoMediaOutside, ProducersUnique, FeedsAnnounced, TypeOK
  <2> QED
    BY <2>1, <2>2 DEF Directions
<1>3. ASSUME NEW d \in Devices, NEW dir \in Directions, ReplaceOnlyTransport(d, dir)
      PROVE  Feeds'
  <2>1. PICK P \in SUBSET producers[d] : Remove({d}, P, LeftWith(d))
    BY <1>3 DEF ReplaceOnlyTransport
  <2>2. P \in SUBSET Published({d})
    BY <2>1 DEF Published
  <2> QED
    BY <2>1, <2>2, RemoveFeeds
<1>4. ASSUME NEW d \in Devices, NEW C, DropStalePeer(d, C)
      PROVE  Feeds'
  BY <1>4, RemoveFeeds DEF DropStalePeer, Published
<1>5. ASSUME Shut
      PROVE  Feeds'
  BY <1>5, RemoveFeeds DEF Shut
<1>6. ASSUME NEW c \in calls, TransportReady(c)
      PROVE  Feeds'
  <2>1. c.dev \in Devices /\ (c.live /\ c.kind # "inject" => c.dev \in present)
    BY <1>0 DEF Typed, LiveCallsInTable, TypeOK, Call
  <2>2. UNCHANGED <<present, producers>> /\ recv' = recv \union Attaches(c, "recv")
    BY <1>6 DEF TransportReady, room
  <2>3. CASE c.kind # "recv"
    <3>1. recv' = recv /\ UNCHANGED <<told, shown>>
      BY <1>6, <2>2, <2>3 DEF TransportReady, Attaches, views
    <3> QED
      BY <2>2, <3>1, SameFeeds
  <2>4. CASE c.kind = "recv"
    <3>1. PICK N \in Notified(c.dev) : Announce(UserOf[c.dev], N \intersect recv')
      BY <1>6, <2>4 DEF TransportReady
    <3> DEFINE u == UserOf[c.dev]
               R == N \intersect recv'
    <3>2. R \subseteq DevicesOf(u) /\ (c.dev \in recv' => c.dev \in R)
      BY <2>1, <3>1 DEF Notified, DevicesOf
    <3>3. recv' = recv \/ recv' = recv \union {c.dev}
      BY <2>2 DEF Attaches
    <3>4. /\ \A x \in Devices : shown'[x] = IF x \in R THEN shown[x] \union FeedsFor(u)
                                           ELSE shown[x]
          /\ \A x \in Devices \ recv' : told'[x] = told[x]
      BY <3>1, <3>3 DEF Announce
    <3>5. NoMediaOutside'
      BY <1>0, <2>2, <3>3, <3>4 DEF NoMediaOutside
    <3>6. ASSUME NEW d \in recv', NEW o \in present, UserOf[o] # UserOf[d]
          PROVE  producers[o] \subseteq shown'[d]
      <4>0. d \in Devices /\ o \in Devices
        BY <1>0, <2>1, <3>3 DEF TypeOK
      <4>1. CASE d = c.dev
        <5>1. d \in R
          BY <3>2, <4>1
        <5>2. producers[o] \subseteq FeedsFor(u)
          BY <3>6, <4>0, <4>1 DEF FeedsFor, Published, DevicesOf
        <5> QED
          BY <3>4, <4>0, <5>1, <5>2
      <4>2. CASE d # c.dev
        <5>1. producers[o] \subseteq shown[d]
          BY <1>0, <3>3, <3>6, <4>2 DEF FeedsAnnounced
        <5> QED
          BY <3>4, <4>0, <5>1
      <4> QED
        BY <4>1, <4>2
    <3> QED
      BY <1>0, <2>2, <3>5, <3>6 DEF Feeds, ProducersUnique, FeedsAnnounced
  <2> QED
    BY <2>3, <2>4
<1>7. ASSUME NEW c \in calls, NEW p \in Producers, ProduceReady(c, p)
      PROVE  Feeds'
  <2>1. c.dev \in Devices /\ (c.live => c.dev \in present)
    BY <1>0, <1>7 DEF Typed, LiveCallsInTable, TypeOK, Call, ProduceReady
  <2>2. /\ UNCHANGED <<present, recv, told>>
        /\ producers' = IF c.live THEN [producers EXCEPT ![c.dev] = @ \union {p}]
                        ELSE producers
        /\ shown' = [x \in Devices |->
                       IF x \in recv \ DevicesOf(UserOf[c.dev])
                       THEN shown[x] \union {p} ELSE shown[x]]
        /\ \A d \in Devices : p \notin producers[d]
    BY <1>7 DEF ProduceReady, room, FreshProducers
  <2>3. NoMediaOutside'
    BY <1>0, <2>1, <2>2 DEF NoMediaOutside, TypeOK
  <2>4. ProducersUnique'
    BY <1>0, <2>1, <2>2 DEF ProducersUnique, TypeOK
  <2>5. ASSUME NEW d \in recv, NEW o \in present, UserOf[o] # UserOf[d]
        PROVE  producers'[o] \subseteq shown'[d]
    <3>1. producers[o] \subseteq shown[d] /\ d \in Devices /\ o \in Devices
      BY <1>0, <2>5 DEF FeedsAnnounced, TypeOK
    <3>2. CASE o = c.dev
      <4>1. d \in recv \ DevicesOf(UserOf[c.dev])
        BY <2>5, <3>2 DEF DevicesOf
      <4> QED
        BY <1>0, <2>2, <3>1, <4>1 DEF TypeOK
    <3>3. CASE o # c.dev
      BY <1>0, <2>2, <3>1, <3>3 DEF TypeOK
    <3> QED
      BY <3>2, <3>3
  <2> QED
    BY <2>2, <2>3, <2>4, <2>5 DEF Feeds, FeedsAnnounced
<1>8. ASSUME NEW c \in calls, NEW p \in Producers, InjectReady(c, p)
      PROVE  Feeds'
  <2> DEFINE s == c.dev
  <2>1. s \in Devices
    BY <1>0 DEF TypeOK, Call
  <2>2. /\ present' = present \union {s} /\ recv' = recv
        /\ producers' = [producers EXCEPT ![s] = @ \union {p}]
        /\ shown' = [x \in Devices |->
                       IF x \in recv THEN shown[x] \union {p} ELSE shown[x]]
        /\ \A x \in Devices \ recv : told'[x] = told[x]
        /\ \A d \in Devices : p \notin producers[d]
    BY <1>8 DEF InjectReady, FreshProducers
  <2>3. NoMediaOutside'
    BY <1>0, <2>1, <2>2 DEF NoMediaOutside, TypeOK
  <2>4. ProducersUnique'
    BY <1>0, <2>1, <2>2 DEF ProducersUnique, TypeOK
  <2>5. ASSUME NEW d \in recv, NEW o \in present \union {s}, UserOf[o] # UserOf[d]
        PROVE  producers'[o] \subseteq shown'[d]
    <3>1. producers[o] \subseteq shown[d]
      BY <1>0, <2>1, <2>5 DEF FeedsAnnounced, NoMediaOutside
    <3> QED
      BY <1>0, <2>1, <2>2, <3>1 DEF TypeOK
  <2> QED
    BY <2>2, <2>3, <2>4, <2>5 DEF Feeds, FeedsAnnounced
<1>9. ASSUME NEW d \in Devices, NEW p \in Producers, CloseProducer(d, p)
      PROVE  Feeds'
  <2>1. /\ UNCHANGED <<present, recv>> /\ p \in producers[d]
        /\ producers' = [producers EXCEPT ![d] = @ \ {p}]
        /\ told' = [x \in Devices |-> IF x \in recv THEN told[x] ELSE {}]
        /\ shown' = [x \in Devices |-> IF x \in recv THEN shown[x] \ {p} ELSE {}]
    BY <1>0, <1>9 DEF CloseProducer, Hear, room, TypeOK
  <2>2. NoMediaOutside' /\ ProducersUnique'
    BY <1>0, <2>1 DEF NoMediaOutside, ProducersUnique, TypeOK
  <2>3. ASSUME NEW x \in recv, NEW o \in present, UserOf[o] # UserOf[x]
        PROVE  producers'[o] \subseteq shown'[x]
    <3>1. producers[o] \subseteq shown[x] /\ x \in Devices /\ o \in Devices
      BY <1>0, <2>3 DEF FeedsAnnounced, TypeOK
    <3>2. p \notin producers'[o]
      BY <1>0, <2>1, <3>1 DEF ProducersUnique, TypeOK
    <3> QED
      BY <1>0, <2>1, <3>1, <3>2 DEF TypeOK
  <2> QED
    BY <2>1, <2>2, <2>3 DEF Feeds, FeedsAnnounced
<1>10. ASSUME NEW d \in Devices, NEW p \in Producers, ProducerClosed(d, p)
       PROVE  Feeds'
  <2>1. /\ UNCHANGED <<present, recv, producers, told>> /\ p \notin Published(Devices)
        /\ shown' = [shown EXCEPT ![d] = @ \ {p}]
    BY <1>10 DEF ProducerClosed, room, media
  <2>2. \A o \in Devices : p \notin producers[o]
    BY <2>1 DEF Published
  <2> QED
    BY <1>0, <2>1, <2>2 DEF Feeds, NoMediaOutside, ProducersUnique, FeedsAnnounced, TypeOK
<1>11. ASSUME NEW d \in Devices, Leave(d) \/ ReapIdle(d)
       PROVE  Feeds'
  BY <1>4, <1>11 DEF Leave, ReapIdle
<1>12. ASSUME NEW c \in calls, ReapSilent(c)
       PROVE  Feeds'
  BY <1>0, <1>4, <1>12 DEF ReapSilent, TypeOK, Call
<1>13. ASSUME NEW u \in Users, Kick(u)
       PROVE  Feeds'
  BY <1>0, <1>13, RemoveFeeds DEF Kick, TypeOK
<1>14. ASSUME NEW u \in Users, KickPublished(u)
       PROVE  Feeds'
  <2>1. /\ UNCHANGED <<present, recv, producers>>
        /\ told' = [x \in Devices |-> IF x \in recv THEN told[x] \ {u} ELSE {}]
        /\ shown' = [x \in Devices |-> IF x \in recv THEN shown[x] ELSE {}]
    BY <1>0, <1>14 DEF KickPublished, Hear, media, TypeOK
  <2> QED
    BY <1>0, <2>1 DEF Feeds, NoMediaOutside, ProducersUnique, FeedsAnnounced, TypeOK
<1>15. ASSUME \/ \E c \in calls : CallFails(c)
              \/ \E d \in Devices : ProduceBegin(d) \/ InjectBegin(d) \/ ReapStats(d)
              \/ \E cap \in RuleCaps \union {NoRule} : UpdateRules(cap)
              \/ UNCHANGED vars
       PROVE  Feeds'
  <2>1. UNCHANGED <<present, recv, producers, told, shown>>
    BY <1>15 DEF CallFails, ProduceBegin, InjectBegin, ReapStats, UpdateRules,
                 vars, media, views
  <2> QED
    BY <2>1, SameFeeds
<1>16. CASE EmptyTimeout
  <2>1. Shut \/ UNCHANGED <<present, recv, producers, told, shown>>
    BY <1>16 DEF EmptyTimeout, media, views
  <2> QED
    BY <1>5, <2>1, SameFeeds
<1>17. CASE Close
  BY <1>5, <1>17 DEF Close
<1> QED
  BY <1>1, <1>2, <1>3, <1>6, <1>7, <1>8, <1>9, <1>10, <1>11, <1>12, <1>13,
     <1>14, <1>15, <1>16, <1>17 DEF Next

\* A device that consumes has been told of every producer of every other user,
\* however the awaits of its createWebRtcTransport and their produce interleave.
THEOREM NoFeedMissed == Spec => []FeedsAnnounced
<1>1. Init => Typed /\ Feeds
  BY InitTyped, InitFeeds
<1>2. Typed /\ Feeds /\ [Next]_vars => (Typed /\ Feeds)'
  BY StepTyped, StepFeeds
<1>3. Typed /\ Feeds => FeedsAnnounced
  BY DEF Feeds
<1> QED
  BY <1>1, <1>2, <1>3, PTL DEF Spec

----------------------------------------------------------------------------
(* A departure reaches every roster *)

\* What a step owes the user u.
Departs(u) ==
  (u \in UsersIn(present) \ UsersIn(present') /\ u \notin kicking')
    => \A d \in recv' : u \notin told'[d]

\* handlePeerLeft and dropStalePeer tell at least LeftWith.
LEMMA RemoveRoster ==
  ASSUME Typed, NEW d \in Devices, NEW P, NEW U, LeftWith(d) \subseteq U,
         Remove({d}, P, U),
         NEW u \in Users
  PROVE  Departs(u)
<1>1. /\ present' = present \ {d} /\ recv' = recv \ {d} /\ recv \in SUBSET Devices
      /\ \A x \in recv' : told'[x] = told[x] \ U
  BY DEF Remove, Hear, Typed, TypeOK
<1>2. u \in UsersIn(present) \ UsersIn(present') => u \in LeftWith(d)
  BY <1>1 DEF UsersIn, LeftWith
<1> QED
  BY <1>1, <1>2 DEF Departs

\* Every step that takes a user's last device tells the rosters.
LEMMA StepRoster ==
  ASSUME Typed, [Next]_vars, NEW u \in Users
  PROVE  Departs(u)
<1>0. TypeOK
  BY DEF Typed
<1>1. ASSUME present \subseteq present'
      PROVE  Departs(u)
  BY <1>1 DEF Departs, UsersIn
<1>2. ASSUME NEW d \in Devices, NEW C, DropStalePeer(d, C)
      PROVE  Departs(u)
  BY <1>2, RemoveRoster DEF DropStalePeer, LeftWith
<1>3. ASSUME Shut
      PROVE  Departs(u)
  BY <1>0, <1>3 DEF Shut, Remove, Departs, TypeOK
<1>4. ASSUME NEW d \in Devices, NEW dir \in Directions,
             \/ FirstTransport(d, dir) \/ ReplaceTransport(d, dir)
             \/ ReplaceOnlyTransport(d, dir)
      PROVE  Departs(u)
  <2>1. CASE ReplaceOnlyTransport(d, dir)
    <3>1. PICK P \in SUBSET producers[d] : Remove({d}, P, LeftWith(d))
      BY <2>1 DEF ReplaceOnlyTransport
    <3> QED
      BY <3>1, RemoveRoster
  <2>2. CASE FirstTransport(d, dir) \/ ReplaceTransport(d, dir)
    BY <1>1, <2>2 DEF FirstTransport, ReplaceTransport
  <2> QED
    BY <1>4, <2>1, <2>2
<1>5. ASSUME NEW c \in calls,
             \/ TransportReady(c) \/ CallFails(c) \/ ReapSilent(c)
             \/ \E p \in Producers : ProduceReady(c, p) \/ InjectReady(c, p)
      PROVE  Departs(u)
  <2>1. CASE ReapSilent(c)
    BY <1>0, <1>2, <2>1 DEF ReapSilent, TypeOK, Call
  <2>2. CASE ~ReapSilent(c)
    BY <1>1, <1>5, <2>2 DEF TransportReady, CallFails, ProduceReady, InjectReady
  <2> QED
    BY <2>1, <2>2
<1>6. ASSUME NEW d \in Devices,
             \/ ProduceBegin(d) \/ InjectBegin(d) \/ ReapStats(d)
             \/ \E p \in Producers : CloseProducer(d, p) \/ ProducerClosed(d, p)
      PROVE  Departs(u)
  BY <1>1, <1>6 DEF ProduceBegin, InjectBegin, ReapStats, CloseProducer, ProducerClosed
<1>7. ASSUME NEW d \in Devices, Leave(d) \/ ReapIdle(d)
      PROVE  Departs(u)
  BY <1>2, <1>7 DEF Leave, ReapIdle
<1>8. ASSUME NEW v \in Users, Kick(v)
      PROVE  Departs(u)
  \* Only the kicked user goes, and its kick still awaits the publish.
  <2>1. /\ present' = present \ (present \intersect DevicesOf(v))
        /\ v \in kicking' /\ present \in SUBSET Devices
    BY <1>0, <1>8 DEF Kick, Remove, TypeOK
  <2>2. u \in UsersIn(present) \ UsersIn(present') => u = v
    BY <2>1 DEF UsersIn, DevicesOf
  <2> QED
    BY <2>1, <2>2 DEF Departs
<1>9. ASSUME NEW v \in Users, KickPublished(v)
      PROVE  Departs(u)
  BY <1>1, <1>9 DEF KickPublished
<1>10. ASSUME NEW cap, UpdateRules(cap)
       PROVE  Departs(u)
  BY <1>1, <1>10 DEF UpdateRules
<1>11. CASE EmptyTimeout
  BY <1>1, <1>3, <1>11 DEF EmptyTimeout
<1>12. CASE Close
  BY <1>3, <1>12 DEF Close
<1>13. CASE UNCHANGED vars
  BY <1>1, <1>13 DEF vars
<1> QED
  BY <1>4, <1>5, <1>6, <1>7, <1>8, <1>9, <1>10, <1>11, <1>12, <1>13 DEF Next

\* No user whose last device is gone stays in a roster, whichever way it went.
THEOREM DeparturesTold == Spec => DepartureReachesRoster
<1>1. Typed /\ [Next]_vars
        => [\A u \in Users :
              (/\ u \in UsersIn(present) \ UsersIn(present')
               /\ u \notin kicking')
              => \A d \in recv' : u \notin told'[d]]_vars
  BY StepRoster DEF Departs
<1> QED
  BY <1>1, InitTyped, StepTyped, PTL DEF Spec, DepartureReachesRoster

----------------------------------------------------------------------------
(* The room implements Occupancy: every step of SfuRoom enters, removes or  *)
(* counts at most one user as Occupancy allows, or leaves its state alone.  *)

\* Only test participants are injected.
InjectsSynthetic == \A c \in calls : c.kind = "inject" => c.dev \in Synthetic

OccInv == Typed /\ Timed /\ InjectsSynthetic

\* An injection in flight stays one of a synthetic device.
LEMMA DetachedInjects ==
  ASSUME TypeOK, InjectsSynthetic, NEW D \in SUBSET Devices, NEW C \in SUBSET calls
  PROVE  \A c \in Detached(D, C) : c.kind = "inject" => c.dev \in Synthetic
<1>1. C \in SUBSET Call
  BY DEF TypeOK
<1> QED
  BY <1>1, DetachedTyped DEF InjectsSynthetic

\* Only injectTestProducer starts an injection, for a synthetic device.
LEMMA StepInjects ==
  ASSUME TypeOK, InjectsSynthetic, [Next]_vars
  PROVE  InjectsSynthetic'
<1>1. ASSUME calls' \in SUBSET calls
      PROVE  InjectsSynthetic'
  BY <1>1 DEF InjectsSynthetic
<1>2. ASSUME NEW D \in SUBSET Devices, NEW C \in SUBSET calls, calls' = Detached(D, C)
      PROVE  InjectsSynthetic'
  BY <1>2, DetachedInjects DEF InjectsSynthetic
<1>3. ASSUME NEW C, \A c \in C : c.kind = "inject" => c.dev \in Synthetic,
             NEW k, NEW d \in Devices, NEW b, k = "inject" => d \in Synthetic,
             calls' = With(k, d, b, C)
      PROVE  InjectsSynthetic'
  BY <1>3 DEF InjectsSynthetic, With
<1>4. ASSUME NEW d \in Devices, NEW dir \in Directions,
             \/ FirstTransport(d, dir) \/ ReplaceTransport(d, dir)
             \/ ReplaceOnlyTransport(d, dir)
      PROVE  InjectsSynthetic'
  <2>1. dir # "inject"
    BY DEF Directions
  <2>2. \A c \in Detached({d}, calls) : c.kind = "inject" => c.dev \in Synthetic
    BY DetachedInjects
  <2>3. calls' = With(dir, d, TRUE, calls) \/ calls' = With(dir, d, FALSE, Detached({d}, calls))
    BY <1>4 DEF FirstTransport, ReplaceTransport, ReplaceOnlyTransport
  <2>4. CASE calls' = With(dir, d, TRUE, calls)
    BY <1>3, <2>1, <2>4 DEF InjectsSynthetic
  <2>5. CASE calls' = With(dir, d, FALSE, Detached({d}, calls))
    BY <1>3, <2>1, <2>2, <2>5
  <2> QED
    BY <2>3, <2>4, <2>5
<1>5. ASSUME NEW c \in calls,
             \/ TransportReady(c) \/ CallFails(c)
             \/ \E p \in Producers : ProduceReady(c, p) \/ InjectReady(c, p)
      PROVE  InjectsSynthetic'
  BY <1>1, <1>5 DEF TransportReady, CallFails, ProduceReady, InjectReady
<1>6. ASSUME NEW c \in calls, ReapSilent(c)
      PROVE  InjectsSynthetic'
  BY <1>2, <1>6 DEF ReapSilent, DropStalePeer, TypeOK, Call
<1>7. ASSUME NEW d \in Devices, ProduceBegin(d) \/ InjectBegin(d) \/ ReapStats(d)
      PROVE  InjectsSynthetic'
  BY <1>3, <1>7 DEF ProduceBegin, InjectBegin, ReapStats, InjectsSynthetic
<1>8. ASSUME NEW d \in Devices, Leave(d) \/ ReapIdle(d)
      PROVE  InjectsSynthetic'
  BY <1>2, <1>8 DEF Leave, ReapIdle, DropStalePeer
<1>9. ASSUME NEW u \in Users, Kick(u)
      PROVE  InjectsSynthetic'
  BY <1>2, <1>9 DEF Kick, TypeOK
<1>10. ASSUME Shut
       PROVE  InjectsSynthetic'
  BY <1>2, <1>10 DEF Shut
<1>11. ASSUME UNCHANGED calls
       PROVE  InjectsSynthetic'
  BY <1>11 DEF InjectsSynthetic
<1>12. ASSUME \/ \E d \in Devices, p \in Producers :
                   CloseProducer(d, p) \/ ProducerClosed(d, p)
              \/ \E u \in Users : KickPublished(u)
              \/ \E cap \in RuleCaps \union {NoRule} : UpdateRules(cap)
              \/ EmptyTimeout \/ Close \/ UNCHANGED vars
       PROVE  InjectsSynthetic'
  BY <1>10, <1>11, <1>12
  DEF CloseProducer, ProducerClosed, KickPublished, UpdateRules, EmptyTimeout,
      Close, vars
<1> QED
  BY <1>4, <1>5, <1>6, <1>7, <1>8, <1>9, <1>12 DEF Next

\* What the refinement rests on is inductive.
LEMMA OccInvInductive ==
  /\ Init => OccInv
  /\ OccInv /\ [Next]_vars => OccInv'
<1>1. Init => InjectsSynthetic
  BY DEF Init, InjectsSynthetic
<1>2. Typed => TypeOK
  BY DEF Typed
<1> QED
  BY <1>1, <1>2, InitTyped, InitTimed, StepTyped, StepTimed, StepInjects DEF OccInv

----------------------------------------------------------------------------
(* The steps of the room as steps of Occupancy *)

\* The cap in force is the host's rule or the configured one.
LEMMA CapInLimits == TypeOK => Cap \in RuleCaps \union {MaxParticipants}
  BY DEF TypeOK, Cap

\* An active, empty room maps to the start of Occupancy.
LEMMA InitOccupancy == Init => Promised!Init
<1> SUFFICES ASSUME Init PROVE Promised!Init
  OBVIOUS
<1>1. Cap \in RuleCaps \union {MaxParticipants}
  BY DEF Init, Cap
<1>2. UsersIn(present) = {}
  BY DEF Init, UsersIn
<1> QED
  BY <1>1, <1>2 DEF Init, Promised!Init

\* Occupancy counts with a copy of Cardinality of its own.
LEMMA SameCardinality == ASSUME NEW S PROVE Promised!Cardinality(S) = Cardinality(S)
  BY DEF Cardinality, Promised!Cardinality

\* One device out of the table takes its user along or nobody.
LEMMA OneDeviceOut ==
  ASSUME NEW d \in present
  PROVE  \/ /\ UsersIn(present \ {d}) = UsersIn(present)
            /\ present \ {d} # {}
         \/ /\ UsersIn(present \ {d}) = UsersIn(present) \ {UserOf[d]}
            /\ UserOf[d] \in UsersIn(present)
  BY DEF UsersIn

\* A device out of the table, the timer armed or not: Exit or a stutter.
LEMMA RemoveOccupancy ==
  ASSUME OccInv, NEW d \in present, NEW P, NEW U, Remove({d}, P, U),
         emptyTimer' = MaybeStartEmptyTimer(present \ {d}),
         UNCHANGED room
  PROVE  [Promised!Next]_(Promised!vars)
<1>1. /\ present' = present \ {d} /\ emptyTimer = FALSE
      /\ status' = status /\ Cap' = Cap /\ UserOf[d] \in Users
  BY DevicesAssumption
  DEF Remove, room, Cap, OccInv, Timed, EmptyTimerOnlyWhenEmpty, Typed, TypeOK
<1>2. CASE UsersIn(present \ {d}) = UsersIn(present) /\ present \ {d} # {}
  BY <1>1, <1>2 DEF Promised!vars, MaybeStartEmptyTimer, UsersIn
<1>3. CASE /\ UsersIn(present \ {d}) = UsersIn(present) \ {UserOf[d]}
           /\ UserOf[d] \in UsersIn(present)
  <2>1. UsersIn(present)' = UsersIn(present) \ {UserOf[d]}
    BY <1>1, <1>3 DEF UsersIn
  <2>2. /\ emptyTimer' \in BOOLEAN
        /\ emptyTimer' => status = "active" /\ UsersIn(present)' = {}
    BY <1>1 DEF MaybeStartEmptyTimer, UsersIn
  <2>3. Promised!Exit(UserOf[d])
    BY <1>1, <1>3, <2>1, <2>2 DEF Promised!Exit
  <2> QED
    BY <1>1, <2>3 DEF Promised!Next
<1> QED
  BY <1>2, <1>3, OneDeviceOut

\* dropStalePeer is an Exit or a stutter.
LEMMA DropOccupancy ==
  ASSUME OccInv, NEW d \in present, NEW C, DropStalePeer(d, C)
  PROVE  [Promised!Next]_(Promised!vars)
  BY RemoveOccupancy DEF DropStalePeer

\* close() of an active room is End.
LEMMA ShutOccupancy ==
  ASSUME OccInv, status = "active", Shut
  PROVE  [Promised!Next]_(Promised!vars)
<1>1. /\ present' = {} /\ status' = "closed" /\ emptyTimer' = FALSE /\ Cap' = Cap
  BY DEF Shut, Remove, Cap, OccInv, Typed, TypeOK
<1>2. UsersIn(present)' = {}
  BY <1>1 DEF UsersIn
<1> QED
  BY <1>1, <1>2 DEF Promised!Next, Promised!End

\* What occupancy looks at is left alone.
LEMMA SameOccupancy ==
  ASSUME UNCHANGED <<present, ruleCap, emptyTimer, status>>
  PROVE  [Promised!Next]_(Promised!vars)
  BY DEF Promised!vars, UsersIn, Cap

\* A device enters; TimerAfterEntry stops the count of an empty room.
LEMMA EntryFacts ==
  ASSUME OccInv, NEW d \in Devices, present' = present \union {d},
         emptyTimer' = TimerAfterEntry(d)
  PROVE  /\ emptyTimer' = FALSE
         /\ UsersIn(present)' = UsersIn(present) \union {UserOf[d]}
         /\ UserOf[d] \in UsersIn(present) => emptyTimer = FALSE
         /\ UserOf[d] \in Users
<1>1. emptyTimer => present = {}
  BY DEF OccInv, Timed, EmptyTimerOnlyWhenEmpty
<1>2. emptyTimer \in BOOLEAN /\ UserOf[d] \in Users
  BY DevicesAssumption DEF OccInv, Typed, TypeOK
<1> QED
  BY <1>1, <1>2 DEF UsersIn, TimerAfterEntry

\* Every step of the room is a step of Occupancy or a stutter.
LEMMA StepOccupancy == OccInv /\ [Next]_vars => [Promised!Next]_(Promised!vars)
<1> SUFFICES ASSUME OccInv, [Next]_vars PROVE [Promised!Next]_(Promised!vars)
  OBVIOUS
<1>0. TypeOK
  BY DEF OccInv, Typed
<1>1. ASSUME NEW d \in Devices, NEW dir \in Directions, FirstTransport(d, dir)
      PROVE  [Promised!Next]_(Promised!vars)
  <2>1. /\ present' = present \union {d} /\ emptyTimer' = TimerAfterEntry(d)
        /\ status = "active" /\ status' = status /\ Cap' = Cap
        /\ Admits(d)
    BY <1>1 DEF FirstTransport, Begins, Cap
  <2>2. CASE UserOf[d] \in UsersIn(present)
    BY <2>1, <2>2, EntryFacts DEF Promised!vars
  <2>3. CASE UserOf[d] \notin UsersIn(present)
    <3>1. /\ UsersIn(present)' = UsersIn(present) \union {UserOf[d]}
          /\ emptyTimer' = FALSE
      BY <2>1, EntryFacts
    <3>2. Cardinality(UsersIn(present)) < Cap
      BY <2>1, <2>3 DEF Admits
    <3>3. Promised!Enter(UserOf[d])
      BY <2>1, <2>3, <3>1, <3>2, SameCardinality DEF Promised!Enter
    <3>4. UserOf[d] \in Users
      BY DevicesAssumption
    <3> QED
      BY <3>3, <3>4 DEF Promised!Next
  <2> QED
    BY <2>2, <2>3
<1>2. ASSUME NEW d \in Devices, NEW dir \in Directions, ReplaceOnlyTransport(d, dir)
      PROVE  [Promised!Next]_(Promised!vars)
  <2>1. PICK P \in SUBSET producers[d] : Remove({d}, P, LeftWith(d))
    BY <1>2 DEF ReplaceOnlyTransport
  <2> QED
    BY <1>0, <1>2, <2>1, RemoveOccupancy DEF ReplaceOnlyTransport, Has, TypeOK
<1>3. ASSUME NEW c \in calls, NEW p \in Producers, InjectReady(c, p)
      PROVE  [Promised!Next]_(Promised!vars)
  <2> DEFINE s == c.dev
  <2>1. /\ s \in Devices /\ present' = present \union {s}
        /\ emptyTimer' = TimerAfterEntry(s) /\ status' = status /\ Cap' = Cap
        /\ s \in Synthetic
    BY <1>0, <1>3 DEF InjectReady, Cap, TypeOK, Call, OccInv, InjectsSynthetic
  <2> HIDE DEF s
  <2>2. CASE UserOf[s] \in UsersIn(present)
    BY <2>1, <2>2, EntryFacts DEF Promised!vars
  <2>3. CASE UserOf[s] \notin UsersIn(present)
    <3>1. UserOf[s] \in UsersIn(Synthetic)
      BY <2>1 DEF UsersIn
    <3>2. Promised!EnterTest(UserOf[s])
      BY <2>1, <2>3, <3>1, EntryFacts DEF Promised!EnterTest
    <3> QED
      BY <2>1, <3>2, EntryFacts DEF Promised!Next
  <2> QED
    BY <2>2, <2>3
<1>4. ASSUME NEW d \in Devices, Leave(d) \/ ReapIdle(d)
      PROVE  [Promised!Next]_(Promised!vars)
  BY <1>4, DropOccupancy DEF Leave, ReapIdle
<1>5. ASSUME NEW c \in calls, ReapSilent(c)
      PROVE  [Promised!Next]_(Promised!vars)
  <2>1. c.dev \in present
    BY <1>5 DEF ReapSilent, OccInv, Typed, LiveCallsInTable
  <2> QED
    BY <1>5, <2>1, DropOccupancy DEF ReapSilent
<1>6. ASSUME NEW u \in Users, Kick(u)
      PROVE  [Promised!Next]_(Promised!vars)
  <2>1. /\ present' = present \ (present \intersect DevicesOf(u))
        /\ present \intersect DevicesOf(u) # {} /\ present \in SUBSET Devices
        /\ emptyTimer' = emptyTimer /\ status' = status /\ Cap' = Cap
    BY <1>0, <1>6 DEF Kick, Remove, Cap, TypeOK
  <2>2. emptyTimer = FALSE
    BY <1>0, <2>1 DEF OccInv, Timed, EmptyTimerOnlyWhenEmpty, TypeOK
  <2>3. u \in UsersIn(present) /\ UsersIn(present)' = UsersIn(present) \ {u}
    BY <2>1 DEF UsersIn, DevicesOf
  <2> QED
    BY <2>1, <2>2, <2>3 DEF Promised!Next, Promised!Exit
<1>7. ASSUME NEW u \in Users, KickPublished(u)
      PROVE  [Promised!Next]_(Promised!vars)
  <2>1. /\ emptyTimer' = (emptyTimer \/ (status = "active" /\ present = {}))
        /\ UNCHANGED <<present, ruleCap, status>>
    BY <1>7 DEF KickPublished, MaybeStartEmptyTimer, media
  <2>2. CASE status = "active" /\ present = {}
    <3>1. Promised!StartCounting
      BY <2>1, <2>2 DEF Promised!StartCounting, UsersIn, Cap
    <3> QED
      BY <3>1 DEF Promised!Next
  <2>3. CASE ~(status = "active" /\ present = {})
    <3>1. emptyTimer' = emptyTimer
      BY <1>0, <2>1, <2>3 DEF TypeOK
    <3> QED
      BY <2>1, <3>1, SameOccupancy
  <2> QED
    BY <2>2, <2>3
<1>8. ASSUME NEW cap \in RuleCaps \union {NoRule}, UpdateRules(cap)
      PROVE  [Promised!Next]_(Promised!vars)
  <2>1. /\ status = "active" /\ ruleCap' \in RuleCaps \union {NoRule}
        /\ UNCHANGED <<present, emptyTimer, status>>
    BY <1>8 DEF UpdateRules
  <2>2. Cap' \in RuleCaps \union {MaxParticipants}
    BY <2>1 DEF Cap
  <2> QED
    BY <2>1, <2>2 DEF Promised!Next, Promised!SetLimit, UsersIn
<1>9. CASE EmptyTimeout
  <2>1. status = "active" /\ Shut
    BY <1>9 DEF EmptyTimeout, OccInv, Timed, EmptyTimerOnlyWhenEmpty
  <2> QED
    BY <2>1, ShutOccupancy
<1>10. CASE Close
  BY <1>10, ShutOccupancy DEF Close
<1>11. ASSUME \/ \E d \in Devices, dir \in Directions : ReplaceTransport(d, dir)
              \/ \E c \in calls : TransportReady(c) \/ CallFails(c)
              \/ \E c \in calls, p \in Producers : ProduceReady(c, p)
              \/ \E d \in Devices : ProduceBegin(d) \/ InjectBegin(d) \/ ReapStats(d)
              \/ \E d \in Devices, p \in Producers :
                   CloseProducer(d, p) \/ ProducerClosed(d, p)
              \/ UNCHANGED vars
       PROVE  [Promised!Next]_(Promised!vars)
  <2>1. UNCHANGED <<present, ruleCap, emptyTimer, status>>
    BY <1>11 DEF ReplaceTransport, TransportReady, CallFails, ProduceReady,
                 ProduceBegin, InjectBegin, ReapStats, CloseProducer,
                 ProducerClosed, room, vars
  <2> QED
    BY <2>1, SameOccupancy
<1> QED
  BY <1>1, <1>2, <1>3, <1>4, <1>5, <1>6, <1>7, <1>8, <1>9, <1>10, <1>11 DEF Next

\* Devices, transports and requests in flight implement users who enter below
\* the cap and leave, and a countdown only an empty room runs.
THEOREM RoomImplementsOccupancy == Spec => ImplementsOccupancy
<1>1. Init => Promised!Init
  BY InitOccupancy
<1>2. OccInv /\ [Next]_vars => [Promised!Next]_(Promised!vars)
  BY StepOccupancy
<1> QED
  BY <1>1, <1>2, OccInvInductive, PTL DEF Spec, ImplementsOccupancy, Promised!Spec
=============================================================================
