------------------------------ MODULE SfuRoom ------------------------------
(***************************************************************************)
(* One voice room of the production engine: class MediasoupRoom of         *)
(* src/src/room-mediasoup.ts from the moment start() has made it active.   *)
(*                                                                         *)
(* Node runs one callback at a time, so an action is everything a handler  *)
(* does between two awaits.  What a handler has read before an await it    *)
(* uses after it: a request that awaits mediasoup is a record in `calls`,  *)
(* and its flag `live` says whether the PeerState object it holds is still *)
(* the one in the peer table (the code's `peers.get(key) === peer`).       *)
(*                                                                         *)
(* A device is a key pubkey|clientId of the peer table.  A notification is *)
(* sent to a pubkey; told and shown record what the devices that own a     *)
(* recv transport have been told since that transport came up.             *)
(***************************************************************************)
EXTENDS Naturals, FiniteSets

CONSTANTS
  Users,            \* Nostr pubkeys
  Devices,          \* keys of the peer table, pubkey|clientId
  Synthetic,        \* the devices whose clientId is 'test-inject'
  UserOf,           \* the pubkey of each device
  Producers,        \* mediasoup producer ids; bounds the producers alive at once
  MaxParticipants,  \* cfg.maxParticipantsPerRoom
  RuleCaps,         \* the values the host may give rules.maxParticipants
  NoRule,           \* rules.maxParticipants is absent
  MaxCalls          \* bound: requests awaiting mediasoup at once

ASSUME DevicesAssumption ==
  /\ UserOf \in [Devices -> Users]
  /\ Synthetic \subseteq Devices
ASSUME CapAssumption ==
  /\ MaxParticipants \in Nat
  /\ RuleCaps \subseteq Nat
  /\ NoRule \notin RuleCaps

VARIABLES
  status,      \* "active" or "closed"
  present,     \* the keys of this.peers
  send,        \* the devices in this.peers whose sendTransport is set
  recv,        \* the devices in this.peers whose recvTransport is set
  producers,   \* PeerState.producers of the devices in this.peers
  calls,       \* requests that await mediasoup
  kicking,     \* pubkeys whose kick() awaits the publish of 'kicked'
  emptyTimer,  \* this.emptyTimer is set
  visited,     \* some peer has been in the table
  ruleCap,     \* rules.maxParticipants
  told,        \* per device: the pubkeys it was told are in the room
  shown        \* per device: the producers it was told to consume

vars == <<status, present, send, recv, producers, calls, kicking, emptyTimer,
          visited, ruleCap, told, shown>>
media == <<send, recv, producers>>
views == <<told, shown>>
room  == <<status, kicking, visited, ruleCap>>

Directions == {"send", "recv"}
Call == [kind : Directions \union {"produce", "stats", "inject"},
         dev : Devices, live : BOOLEAN]

\* A type invariant: the tables hold what the declarations above say.
TypeOK ==
  /\ status \in {"active", "closed"}
  /\ present \in SUBSET Devices
  /\ send \in SUBSET present
  /\ recv \in SUBSET present
  /\ producers \in [Devices -> SUBSET Producers]
  /\ calls \in SUBSET Call
  /\ kicking \in SUBSET Users
  /\ emptyTimer \in BOOLEAN
  /\ visited \in BOOLEAN
  /\ ruleCap \in RuleCaps \union {NoRule}
  /\ told \in [Devices -> SUBSET Users]
  /\ shown \in [Devices -> SUBSET Producers]

----------------------------------------------------------------------------
(* Helpers *)

UsersIn(D) == {UserOf[d] : d \in D}
DevicesOf(u) == {d \in Devices : UserOf[d] = u}
Published(D) == UNION {producers[d] : d \in D}
Has(dir) == IF dir = "send" THEN send ELSE recv
Other(dir) == IF dir = "send" THEN "recv" ELSE "send"

\* rules.maxParticipants ?? cfg.maxParticipantsPerRoom
Cap == IF ruleCap = NoRule THEN MaxParticipants ELSE ruleCap

\* getOrCreatePeer counts pubkeys, so a user's second device always enters.
AdmitsAtCap(d) ==
  \/ UserOf[d] \in UsersIn(present)
  \/ Cardinality(UsersIn(present)) <= Cap
Admits(d) ==
  \/ UserOf[d] \in UsersIn(present)
  \/ Cardinality(UsersIn(present)) < Cap

\* The calls of the devices D go on with a PeerState that left the table.
Detach(c, D) == [c EXCEPT !.live = c.live /\ (c.dev \notin D \/ c.kind = "inject")]
Detached(D, C) == {Detach(c, D) : c \in C}

\* The producers of every user but u: what `newProducer` lists for u.
FeedsFromReceivers(u) == Published(recv \ DevicesOf(u))
FeedsFor(u) == Published(present \ DevicesOf(u))

\* A producer id that is nowhere in use: mediasoup mints a UUID.
FreshProducers ==
  {p \in Producers : \A d \in Devices : p \notin producers[d] \union shown[d]}

\* What the devices R hear when the producers P close and the users U leave.
Hear(R, P, U) ==
  /\ told'  = [d \in Devices |-> IF d \in R THEN told[d] \ U ELSE {}]
  /\ shown' = [d \in Devices |-> IF d \in R THEN shown[d] \ P ELSE {}]

\* maybeStartEmptyTimer: arm once, only when the table is empty.  It runs
\* after the peer has left the table (tab), cancelEmptyTimer on every entry.
StartBeforeDelete(tab) == emptyTimer \/ (status = "active" /\ present = {})
MaybeStartEmptyTimer(tab) == emptyTimer \/ (status = "active" /\ tab = {})

KeepTimer(d) == emptyTimer
TimerAfterEntry(d) == emptyTimer /\ d \in present

\* handlePeerLeft tells the departure of a user whose last device goes.
LeftBeforeDelete(d) == {UserOf[d]} \ UsersIn(present)
LeftWith(d) == {UserOf[d]} \ UsersIn(present \ {d})

\* The devices D leave the table with all their media (closePeerMedia); the
\* remaining recv transports hear producerClosed of P, then peerLeft of U.
Remove(D, P, U) ==
  /\ present' = present \ D
  /\ send' = send \ D
  /\ recv' = recv \ D
  /\ producers' = [d \in Devices |-> IF d \in D THEN {} ELSE producers[d]]
  /\ Hear(recv \ D, P, U)

\* dropStalePeer; C is what is left of the calls.
DropStalePeer(d, C) ==
  /\ Remove({d}, producers[d], {UserOf[d]})
  /\ calls' = Detached({d}, C)
  /\ emptyTimer' = MaybeStartEmptyTimer(present \ {d})
  /\ UNCHANGED room

\* close(), whose awaits come after all of this.
Shut ==
  /\ status' = "closed"
  /\ emptyTimer' = FALSE
  /\ Remove(Devices, {}, {})
  /\ calls' = Detached(Devices, calls)
  /\ UNCHANGED <<kicking, visited, ruleCap>>

\* A request that awaits mediasoup enters calls.  A device has at most one of
\* a kind in flight with the same PeerState: clients await the response.
Begins(kind, d) ==
  /\ status = "active"
  /\ [kind |-> kind, dev |-> d, live |-> TRUE] \notin calls
  /\ Cardinality(calls) < MaxCalls
With(kind, d, live, C) == C \union {[kind |-> kind, dev |-> d, live |-> live]}

----------------------------------------------------------------------------
(* start() leaves the room active and empty, with no timer armed. *)

Init ==
  /\ status = "active"
  /\ present = {} /\ send = {} /\ recv = {}
  /\ producers = [d \in Devices |-> {}]
  /\ calls = {} /\ kicking = {}
  /\ emptyTimer = FALSE /\ visited = FALSE
  /\ ruleCap \in RuleCaps \union {NoRule}
  /\ told = [d \in Devices |-> {}]
  /\ shown = [d \in Devices |-> {}]

----------------------------------------------------------------------------
(* createWebRtcTransport, up to its await *)

\* No transport of that direction yet: getOrCreatePeer admits the device.
FirstTransport(d, dir) ==
  /\ Begins(dir, d)
  /\ d \notin Has(dir) \union Synthetic
  /\ Admits(d)
  /\ present' = present \union {d}
  /\ visited' = TRUE
  /\ emptyTimer' = TimerAfterEntry(d)
  /\ calls' = With(dir, d, TRUE, calls)
  /\ UNCHANGED <<status, media, kicking, ruleCap, views>>

\* Reload of one of two transports: close it with its media.  The close
\* observer sees the other one and leaves the peer alone.
ReplaceTransport(d, dir) ==
  /\ Begins(dir, d)
  /\ d \in send \intersect recv
  /\ IF dir = "send"
     THEN /\ send' = send \ {d}
          /\ producers' = [producers EXCEPT ![d] = {}]
          /\ UNCHANGED <<recv, views>>
     ELSE /\ recv' = recv \ {d}
          /\ Hear(recv \ {d}, {}, {})
          /\ UNCHANGED <<send, producers>>
  /\ calls' = With(dir, d, TRUE, calls)
  /\ UNCHANGED <<room, present, emptyTimer>>

\* Reload of the only transport: the close observer runs while the field is
\* still set, finds no transport left and calls handlePeerLeft, which tells
\* the user's departure unless another device stays; the request goes on.  The
\* producers of a send transport are off the PeerState by then ('transportclose'),
\* all but those that resolved after their transport had closed.
ReplaceOnlyTransport(d, dir) ==
  /\ Begins(dir, d)
  /\ d \in Has(dir) \ Has(Other(dir))
  /\ \E P \in SUBSET producers[d] :
       /\ dir = "recv" => P = producers[d]
       /\ Remove({d}, P, LeftWith(d))
  /\ emptyTimer' = MaybeStartEmptyTimer(present \ {d})
  /\ calls' = With(dir, d, FALSE, Detached({d}, calls))
  /\ UNCHANGED room

(* createWebRtcTransport, after its await *)

\* participantList and newProducer to the devices R, peerJoined to the rest
\* unless the pubkey counts as present through another device.
Announce(u, R) ==
  LET first == Cardinality(present \intersect DevicesOf(u)) <= 1
  IN /\ told' = [x \in Devices |->
                   IF x \in R THEN UsersIn(present) \ {u}
                   ELSE IF first /\ x \in recv \ DevicesOf(u)
                   THEN told[x] \union {u} ELSE told[x]]
     /\ shown' = [x \in Devices |->
                   IF x \in R THEN shown[x] \union FeedsFor(u) ELSE shown[x]]

\* The direct path notifies the requesting session, the relay path the pubkey.
Notified(d) == {{d}, DevicesOf(UserOf[d])}

\* The field of the PeerState is set, not an entry of the table.
AttachesByKey(c, dir) == IF c.kind = dir THEN {c.dev} ELSE {}
Attaches(c, dir) == IF c.live /\ c.kind = dir THEN {c.dev} ELSE {}

\* A PeerState that left the table meanwhile still gets the transport, which
\* nothing closes before the router, and the arrival is announced all the same.
TransportReady(c) ==
  /\ c \in calls
  /\ c.kind \in Directions
  /\ calls' = calls \ {c}
  /\ send' = send \union Attaches(c, "send")
  /\ recv' = recv \union Attaches(c, "recv")
  /\ IF c.kind = "recv"
     THEN \E R \in Notified(c.dev) : Announce(UserOf[c.dev], R \intersect recv')
     ELSE UNCHANGED views
  /\ UNCHANGED <<room, present, producers, emptyTimer>>

\* mediasoup rejects what the call awaited: the error goes to the client.
CallFails(c) ==
  /\ c \in calls
  /\ calls' = calls \ {c}
  /\ UNCHANGED <<room, present, media, emptyTimer, views>>

----------------------------------------------------------------------------
(* produce and closeProducer *)

ProduceBegin(d) ==
  /\ Begins("produce", d)
  /\ d \in send
  /\ calls' = With("produce", d, TRUE, calls)
  /\ UNCHANGED <<room, present, media, emptyTimer, views>>

\* mediasoup also resolves a produce whose transport was closed meanwhile: the
\* PeerState, in the table or not, gets the producer and it is announced.
ProduceReady(c, p) ==
  /\ c \in calls
  /\ c.kind = "produce"
  /\ p \in FreshProducers
  /\ calls' = calls \ {c}
  /\ producers' = IF c.live THEN [producers EXCEPT ![c.dev] = @ \union {p}]
                  ELSE producers
  /\ shown' = [x \in Devices |->
                IF x \in recv \ DevicesOf(UserOf[c.dev])
                THEN shown[x] \union {p} ELSE shown[x]]
  /\ UNCHANGED <<room, present, send, recv, emptyTimer, told>>

CloseProducer(d, p) ==
  /\ status = "active"
  /\ d \notin Synthetic
  /\ p \in producers[d]
  /\ producers' = [producers EXCEPT ![d] = @ \ {p}]
  /\ Hear(recv, {p}, {})
  /\ UNCHANGED <<room, present, send, recv, calls, emptyTimer>>

\* A consumer's 'producerclose' event: the device hears of a producer that no
\* PeerState in the table lists any more.
ProducerClosed(d, p) ==
  /\ p \in shown[d] \ Published(Devices)
  /\ shown' = [shown EXCEPT ![d] = @ \ {p}]
  /\ UNCHANGED <<room, present, media, calls, emptyTimer, told>>

----------------------------------------------------------------------------
(* injectTestProducer: no admission check, before or after its awaits *)

InjectBegin(s) ==
  /\ Begins("inject", s)
  /\ s \in Synthetic
  /\ calls' = With("inject", s, TRUE, calls)
  /\ UNCHANGED <<room, present, media, emptyTimer, views>>

InjectReady(c, p) ==
  LET s == c.dev
  IN /\ c \in calls
     /\ c.kind = "inject"
     /\ p \in FreshProducers
     /\ calls' = calls \ {c}
     /\ present' = present \union {s}
     /\ visited' = TRUE
     /\ emptyTimer' = TimerAfterEntry(s)
     /\ producers' = [producers EXCEPT ![s] = @ \union {p}]
     /\ shown' = [x \in Devices |->
                   IF x \in recv THEN shown[x] \union {p} ELSE shown[x]]
     /\ told' = [x \in Devices |->
                   IF s \notin present /\ x \in recv \ DevicesOf(UserOf[s])
                   THEN told[x] \union {UserOf[s]} ELSE told[x]]
     /\ UNCHANGED <<status, send, recv, kicking, ruleCap>>

----------------------------------------------------------------------------
(* Departures *)

\* dropStalePeer by the leave RPC, by the close of the device's direct socket
\* or by a sweep timer (whose clock is left open).
Leave(d) ==
  /\ status = "active"
  /\ d \in present \ Synthetic
  /\ DropStalePeer(d, calls)

\* reap(): a peer without producers and recv transport goes at once; one that
\* publishes goes if its packet counts, read across an await, stand still.
\* Reaper has the clock and the counts, which are left open here.
ReapIdle(d) ==
  /\ status = "active"
  /\ d \in present \ recv
  /\ producers[d] = {}
  /\ DropStalePeer(d, calls)

ReapStats(d) ==
  /\ Begins("stats", d)
  /\ d \in present
  /\ producers[d] # {}
  /\ calls' = With("stats", d, TRUE, calls)
  /\ UNCHANGED <<room, present, media, emptyTimer, views>>

ReapSilent(c) ==
  /\ c \in calls
  /\ c.kind = "stats" /\ c.live
  /\ DropStalePeer(c.dev, calls \ {c})

\* kick(): all devices of the pubkey leave, then it awaits the publish of
\* 'kicked'; bound: one kick of a pubkey at a time.
Kick(u) ==
  LET targets == present \intersect DevicesOf(u)
  IN /\ u \notin kicking
     /\ targets # {}
     /\ Remove(targets, Published(targets), {})
     /\ calls' = Detached(targets, calls)
     /\ kicking' = kicking \union {u}
     /\ UNCHANGED <<status, emptyTimer, visited, ruleCap>>

KickPublishedQuietly(u) ==
  /\ u \in kicking
  /\ kicking' = kicking \ {u}
  /\ Hear(recv, {}, {u})
  /\ UNCHANGED <<status, present, media, calls, emptyTimer, visited, ruleCap>>
KickPublished(u) ==
  /\ u \in kicking
  /\ kicking' = kicking \ {u}
  /\ Hear(recv, {}, {u})
  /\ emptyTimer' = MaybeStartEmptyTimer(present)
  /\ UNCHANGED <<status, present, media, calls, visited, ruleCap>>

----------------------------------------------------------------------------
(* The room as a whole *)

\* updateRules
UpdateRules(cap) ==
  /\ status = "active"
  /\ ruleCap' = cap
  /\ UNCHANGED <<status, present, media, calls, kicking, emptyTimer, visited,
                 views>>

\* The empty-room timer closes the room if it is still empty.
EmptyTimeout ==
  /\ emptyTimer
  /\ IF present = {} /\ status = "active"
     THEN Shut
     ELSE /\ emptyTimer' = FALSE
          /\ UNCHANGED <<room, present, media, calls, views>>

\* close() for any other reason: an end event, endsAt, a shutdown.
Close ==
  /\ status = "active"
  /\ Shut

Next ==
  \/ \E d \in Devices, dir \in Directions :
       \/ FirstTransport(d, dir)
       \/ ReplaceTransport(d, dir)
       \/ ReplaceOnlyTransport(d, dir)
  \/ \E c \in calls :
       \/ TransportReady(c)
       \/ \E p \in Producers : ProduceReady(c, p) \/ InjectReady(c, p)
       \/ ReapSilent(c)
       \/ CallFails(c)
  \/ \E d \in Devices :
       \/ ProduceBegin(d)
       \/ \E p \in Producers : CloseProducer(d, p) \/ ProducerClosed(d, p)
       \/ InjectBegin(d)
       \/ Leave(d)
       \/ ReapIdle(d)
       \/ ReapStats(d)
  \/ \E u \in Users : Kick(u) \/ KickPublished(u)
  \/ \E cap \in RuleCaps \union {NoRule} : UpdateRules(cap)
  \/ EmptyTimeout
  \/ Close

\* Timers fire and a publish ends (RelayPool.publish swallows what relays
\* reject, the library bounds connecting and publishing); what clients, hosts
\* and the network do is not fair.
Fairness ==
  /\ WF_vars(EmptyTimeout)
  /\ \A u \in Users : WF_vars(KickPublished(u))

Spec == Init /\ [][Next]_vars
FairSpec == Spec /\ Fairness
=============================================================================
