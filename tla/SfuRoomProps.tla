---------------------------- MODULE SfuRoomProps ----------------------------
(* What SfuRoom promises, and what its source says of itself and breaks. *)
EXTENDS SfuRoom

\* An armed empty-room timer means an empty, active room: every way into the
\* table (createWebRtcTransport, inject) cancels it, whatever was in flight
\* when it was armed.
EmptyTimerOnlyWhenEmpty == emptyTimer => status = "active" /\ present = {}

\* A room that lost its last peer is counting down, however the peer went
\* (leave, timeout, reap, reload, kick); a kick still awaiting its publish is
\* the one delay.
EmptiedRoomCountsDown ==
  (status = "active" /\ visited /\ present = {}) => emptyTimer \/ kicking # {}

\* No lost announcement: a device with a recv transport has been told of
\* every producer of every other user in the room, although the transport and
\* the producer are both created across an await.
FeedsAnnounced ==
  \A d \in recv, o \in present :
    UserOf[o] # UserOf[d] => producers[o] \subseteq shown[d]

\* What the proofs need besides: the media of a device outside the table are
\* gone, a request holding the PeerState of the table has its device there, no
\* two devices list one producer, and a closed room has no transport left.
NoMediaOutside ==
  /\ \A d \in Devices \ present : producers[d] = {}
  /\ \A d \in Devices \ recv : told[d] = {} /\ shown[d] = {}
LiveCallsInTable == \A c \in calls : c.live /\ c.kind # "inject" => c.dev \in present
ProducersUnique ==
  \A d, e \in Devices : d # e => producers[d] \intersect producers[e] = {}

\* When the last device of a user goes, other than by a kick still awaiting
\* its publish, no device left with a recv transport still lists the user.
DepartureReachesRoster ==
  [][\A u \in Users :
       (/\ u \in UsersIn(present) \ UsersIn(present')
        /\ u \notin kicking')
       => \A d \in recv' : u \notin told'[d]]_vars

\* An emptied room closes unless somebody comes back.
EmptiedRoomCloses ==
  (visited /\ present = {}) ~> (present # {} \/ status = "closed")

\* Devices, transports and requests in flight come to no more than users
\* entering and leaving: the room implements Occupancy.
Promised == INSTANCE Occupancy
  WITH users <- UsersIn(present), limit <- Cap, counting <- emptyTimer,
       open <- (status = "active"),
       Limits <- RuleCaps \union {MaxParticipants},
       Testers <- UsersIn(Synthetic)
ImplementsOccupancy == Promised!Spec

----------------------------------------------------------------------------

\* handlePeerLeft: peerLeft goes out "only if the user has no other devices
\* still in the room"; dropStalePeer fans it out regardless.
PeerLeftOnlyForLastDevice ==
  [][\A u \in Users, d \in recv \intersect recv' :
       u \in told[d] \ told'[d] => u \notin UsersIn(present')]_vars
=============================================================================
