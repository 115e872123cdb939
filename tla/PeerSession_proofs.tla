-------------------------- MODULE PeerSession_proofs --------------------------
(* The place of a client in the peer table.  Types, sessions, rooms and       *)
(* sweeps of PeerSession, for any number of sockets, of rooms and of messages *)
(* that wait; and the clocks and counts of Reaper, which looks at the same place,  *)
(* for any producers, packets and timeouts.                                   *)
EXTENDS PeerSession, Reaper, FiniteSetTheorems, TLAPS

\* A socket awaits the start of the listed room, and only one does.
StartersListed ==
  /\ \A s \in Sockets : auth[s] = "starting" =>
       bound[s] \in Rooms /\ listed = bound[s] /\ status[listed] = "starting"
  /\ \A s, t \in Sockets : auth[s] = "starting" /\ auth[t] = "starting" => s = t

\* A room that is active is listed; an authenticated socket has a room.
ActiveListed == \A r \in Rooms : status[r] = "active" => listed = r
BoundWhenIn == \A s \in Sockets : auth[s] = "yes" => bound[s] \in Rooms

\* An armed timer of a transport in use has its reason.
TimerForTrouble == \A d \in Directions : link[d].timer => Troubled(link[d])

\* A socket that does not exist yet has nothing.
FreshSockets ==
  \A s \in Sockets : conn[s] = "none" => auth[s] = "no" /\ inbox[s] = 0

Inv ==
  /\ TypeOK /\ StartersListed /\ ActiveListed /\ BoundWhenIn /\ FreshSockets
  /\ TimerForTrouble /\ SessionsFollowSockets /\ SweptForTrouble

LEMMA InitInv == Init => Inv
<1> SUFFICES ASSUME Init PROVE Inv
  OBVIOUS
<1>1. TypeOK
  <2>1. /\ link \in [Directions -> [ice : {"none", "new", "up", "down"},
              dtls : {"none", "new", "connecting", "up", "failed", "closed"},
              timer : BOOLEAN]]
        /\ call \in [Sockets -> [dir : Directions \union {"none"}, live : BOOLEAN]]
        /\ \A s \in Sockets : ~call[s].live
    BY DEF Init, Directions, NoCall, NoLink, NoLinks
  <2>2. listed \in 0..MaxRooms
    BY SessionAssumption DEF Init
  <2>3. bound \in [Sockets -> 0..MaxRooms] /\ inbox \in [Sockets -> 0..MaxInbox]
    BY SessionAssumption DEF Init
  <2> QED
    BY <2>1, <2>2, <2>3 DEF Init, TypeOK
<1>2. /\ StartersListed /\ ActiveListed /\ BoundWhenIn /\ FreshSockets
      /\ SessionsFollowSockets /\ SweptForTrouble
  BY DEF Init, StartersListed, ActiveListed, BoundWhenIn, FreshSockets,
         SessionsFollowSockets, SweptForTrouble
<1>3. TimerForTrouble
  BY DEF Init, TimerForTrouble, NoLinks, NoLink
<1> QED
  BY <1>1, <1>2, <1>3 DEF Inv

----------------------------------------------------------------------------
(* Leaving the table *)

\* Whoever drops the peer leaves typed transports without a timer, and no
\* request that will attach one.
LEMMA DropFacts ==
  ASSUME NEW C \in [Sockets -> [dir : Directions \union {"none"}, live : BOOLEAN]],
         Drop(C)
  PROVE  /\ inTable' = FALSE /\ leftover' = FALSE /\ link' = NoLinks
         /\ NoLinks \in [Directions -> [ice : {"none", "new", "up", "down"},
              dtls : {"none", "new", "connecting", "up", "failed", "closed"},
              timer : BOOLEAN]]
         /\ call' \in [Sockets -> [dir : Directions \union {"none"}, live : BOOLEAN]]
         /\ \A s \in Sockets : ~call'[s].live
         /\ TimerForTrouble'
<1>1. inTable' = FALSE /\ leftover' = FALSE /\ link' = NoLinks
  BY DEF Drop
<1>2. call' = [s \in Sockets |-> [C[s] EXCEPT !.live = FALSE]]
  BY DEF Drop, Detached
<1>3. /\ call' \in [Sockets -> [dir : Directions \union {"none"}, live : BOOLEAN]]
      /\ \A s \in Sockets : ~call'[s].live
  BY <1>2
<1>4. \A d \in Directions : NoLinks[d] = NoLink /\ ~NoLink.timer
  BY DEF NoLinks, NoLink
<1> QED
  BY <1>1, <1>3, <1>4 DEF NoLinks, NoLink, TimerForTrouble

----------------------------------------------------------------------------
(* Steps *)

\* The end of a room, and of its place in the map.
LEMMA RoomsKeepInv ==
  ASSUME Inv, RoomCloses \/ Forget
  PROVE  Inv'
<1> USE DEF Inv
<1>1. CASE RoomCloses
  <2> USE <1>1 DEF RoomCloses
  <2>1. call \in [Sockets -> [dir : Directions \union {"none"}, live : BOOLEAN]]
    BY DEF TypeOK
  <2>2. TypeOK'
    BY <2>1, DropFacts DEF TypeOK, Rooms
  <2>3. StartersListed' /\ ActiveListed' /\ BoundWhenIn' /\ FreshSockets'
    BY DEF TypeOK, StartersListed, ActiveListed, BoundWhenIn, FreshSockets, Rooms
  <2>4. TimerForTrouble' /\ SessionsFollowSockets' /\ SweptForTrouble'
    BY <2>1, DropFacts DEF SessionsFollowSockets, SweptForTrouble, Reading
  <2> QED
    BY <2>2, <2>3, <2>4
<1>2. CASE Forget
  <2> USE <1>2 DEF Forget, sockets, place
  <2>1. TypeOK'
    BY SessionAssumption DEF TypeOK, Rooms
  <2>2. StartersListed' /\ ActiveListed' /\ BoundWhenIn' /\ FreshSockets'
    BY DEF TypeOK, StartersListed, ActiveListed, BoundWhenIn, FreshSockets, Rooms
  <2>3. TimerForTrouble' /\ SessionsFollowSockets' /\ SweptForTrouble'
    BY DEF TimerForTrouble, SessionsFollowSockets, SweptForTrouble, Reading, Troubled
  <2> QED
    BY <2>1, <2>2, <2>3
<1> QED
  BY <1>1, <1>2

\* A socket that closes takes its own session, and perhaps the peer.
LEMMA ConnectionKeepsInv ==
  ASSUME Inv, NEW s \in Sockets, Connection(s)
  PROVE  Inv'
<1> USE DEF Inv
<1>1. ASSUME Upgrade(s) \/ Queue(s) \/ AuthTimeout(s)
      PROVE  /\ UNCHANGED <<rooms, auth, bound, call, sessions, place>>
             /\ conn' \in [Sockets -> {"none", "open", "ending", "closed"}]
             /\ inbox' \in [Sockets -> 0..MaxInbox]
             /\ \A t \in Sockets : Reading(t)' => Reading(t) \/ conn[t] = "none"
             /\ FreshSockets'
  <2>1. CASE Upgrade(s)
    BY <2>1 DEF Upgrade, TypeOK, Reading, FreshSockets
  <2>2. CASE Queue(s)
    <3>1. inbox[s] + 1 \in 0..MaxInbox
      BY <2>2, SessionAssumption DEF Queue, TypeOK
    <3> QED
      BY <2>2, <3>1 DEF Queue, TypeOK, Reading, FreshSockets
  <2>3. CASE AuthTimeout(s)
    BY <2>3 DEF AuthTimeout, CloseWith, TypeOK, Reading, TimerRuns, FreshSockets
  <2> QED
    BY <1>1, <2>1, <2>2, <2>3
<1>2. CASE Upgrade(s) \/ Queue(s) \/ AuthTimeout(s)
  <2> USE <1>2, <1>1 DEF place, rooms
  <2>1. TypeOK'
    BY DEF TypeOK
  <2>2. /\ StartersListed' /\ ActiveListed' /\ BoundWhenIn'
        /\ TimerForTrouble' /\ SweptForTrouble'
    BY DEF StartersListed, ActiveListed, BoundWhenIn, TimerForTrouble, SweptForTrouble, Troubled
  <2>3. SessionsFollowSockets'
    BY DEF SessionsFollowSockets, FreshSockets
  <2> QED
    BY <2>1, <2>2, <2>3
<1>3. CASE SocketCloses(s)
  <2> USE <1>3 DEF SocketCloses, place, rooms
  <2>1. call \in [Sockets -> [dir : Directions \union {"none"}, live : BOOLEAN]]
    BY DEF TypeOK
  <2>2. sessions' \subseteq sessions /\ \A t \in Sockets \ {s}, r \in 0..MaxRooms :
          <<r, t>> \in sessions => <<r, t>> \in sessions'
    BY DEF Unregister
  <2>3. StartersListed' /\ ActiveListed' /\ BoundWhenIn' /\ FreshSockets'
    BY DEF StartersListed, ActiveListed, BoundWhenIn, FreshSockets, TypeOK
  <2>4. SessionsFollowSockets'
    BY <2>2 DEF SessionsFollowSockets, Reading, TypeOK
  <2>5. CASE Drop(call) /\ UNCHANGED <<orphan, swept>>
    <3>1. TypeOK'
      BY <2>1, <2>2, <2>5, DropFacts DEF TypeOK
    <3>2. TimerForTrouble' /\ SweptForTrouble'
      BY <2>1, <2>5, DropFacts DEF SweptForTrouble
    <3> QED
      BY <2>3, <2>4, <3>1, <3>2
  <2>6. CASE UNCHANGED <<place, call>>
    <3>1. TypeOK'
      BY <2>2, <2>6 DEF TypeOK
    <3>2. TimerForTrouble' /\ SweptForTrouble'
      BY <2>6 DEF TimerForTrouble, SweptForTrouble, Troubled
    <3> QED
      BY <2>3, <2>4, <3>1, <3>2
  <2> QED
    BY <2>5, <2>6 DEF DropIfThere
<1> QED
  BY <1>2, <1>3 DEF Connection

\* Only a socket that exists has messages.
LEMMA TakeFacts ==
  ASSUME TypeOK, FreshSockets, NEW s \in Sockets, Take(s)
  PROVE  /\ conn[s] # "none"
         /\ inbox' \in [Sockets -> 0..MaxInbox]
         /\ \A t \in Sockets : inbox[t] = 0 /\ t # s => inbox'[t] = 0
<1>1. CASE inbox[s] > 0 /\ inbox' = [inbox EXCEPT ![s] = @ - 1]
  <2>1. inbox[s] - 1 \in 0..MaxInbox
    BY <1>1, SessionAssumption DEF TypeOK
  <2>2. inbox[s] # 0
    BY <1>1, SessionAssumption DEF TypeOK
  <2> QED
    BY <1>1, <2>1, <2>2 DEF TypeOK, FreshSockets
<1>2. CASE inbox[s] = 0 /\ Reading(s) /\ UNCHANGED inbox
  BY <1>2 DEF TypeOK, Reading
<1> QED
  BY <1>1, <1>2 DEF Take

\* Authentication, before and after the await of rooms.start.
LEMMA AuthKeepsInv ==
  ASSUME Inv, NEW s \in Sockets,
         BadMessage(s) \/ AuthJoins(s) \/ AuthStarts(s) \/ Started(s) \/ StartFails(s)
  PROVE  Inv'
<1> USE DEF Inv
<1>1. CASE BadMessage(s)
  <2> USE <1>1, TakeFacts DEF BadMessage, place, rooms
  <2>1. TypeOK'
    BY DEF TypeOK, CloseWith
  <2>2. StartersListed' /\ ActiveListed' /\ BoundWhenIn' /\ FreshSockets'
    BY DEF StartersListed, ActiveListed, BoundWhenIn, FreshSockets, TypeOK, CloseWith
  <2>3. TimerForTrouble' /\ SessionsFollowSockets' /\ SweptForTrouble'
    BY DEF TimerForTrouble, SessionsFollowSockets, SweptForTrouble, Troubled,
           Reading, TypeOK, CloseWith
  <2> QED
    BY <2>1, <2>2, <2>3
<1>2. CASE AuthJoins(s)
  <2> USE <1>2, TakeFacts DEF AuthJoins, Authenticated, place, rooms
  <2>0. listed \in Rooms
    BY SessionAssumption DEF TypeOK, Rooms
  <2>1. TypeOK'
    BY <2>0 DEF TypeOK
  <2>2. StartersListed' /\ ActiveListed' /\ BoundWhenIn' /\ FreshSockets'
    BY <2>0 DEF StartersListed, ActiveListed, BoundWhenIn, FreshSockets, TypeOK
  <2>3. TimerForTrouble' /\ SessionsFollowSockets' /\ SweptForTrouble'
    BY DEF TimerForTrouble, SessionsFollowSockets, SweptForTrouble, Troubled, Reading, TypeOK
  <2> QED
    BY <2>1, <2>2, <2>3
<1>3. CASE AuthStarts(s)
  <2> USE <1>3, TakeFacts DEF AuthStarts, place
  <2>1. PICK r \in Rooms :
          /\ status[r] = "unborn"
          /\ status' = [status EXCEPT ![r] = "starting"]
          /\ listed' = r
          /\ bound' = [bound EXCEPT ![s] = r]
    OBVIOUS
  <2>2. r \in 0..MaxRooms
    BY SessionAssumption DEF Rooms
  <2>3. TypeOK'
    BY <2>1, <2>2 DEF TypeOK
  <2>4. StartersListed' /\ BoundWhenIn' /\ FreshSockets'
    BY <2>1, <2>2 DEF StartersListed, BoundWhenIn, FreshSockets, TypeOK, Rooms
  <2>5. ActiveListed'
    BY <2>1, SessionAssumption DEF ActiveListed, TypeOK, Rooms
  <2>6. TimerForTrouble' /\ SessionsFollowSockets' /\ SweptForTrouble'
    BY <2>1 DEF TimerForTrouble, SessionsFollowSockets, SweptForTrouble, Troubled, Reading, TypeOK
  <2> QED
    BY <2>3, <2>4, <2>5, <2>6
<1>4. CASE Started(s)
  <2> USE <1>4 DEF Started, Authenticated, place
  <2>0. bound[s] \in Rooms /\ listed = bound[s] /\ status[listed] = "starting"
    BY DEF StartersListed
  <2>1. TypeOK'
    BY <2>0 DEF TypeOK
  <2>2. StartersListed' /\ ActiveListed' /\ BoundWhenIn'
    BY <2>0 DEF StartersListed, ActiveListed, BoundWhenIn, TypeOK
  <2>3. FreshSockets'
    BY DEF FreshSockets, TypeOK
  <2>4. TimerForTrouble' /\ SessionsFollowSockets' /\ SweptForTrouble'
    BY DEF TimerForTrouble, SessionsFollowSockets, SweptForTrouble, Troubled, Reading, TypeOK
  <2> QED
    BY <2>1, <2>2, <2>3, <2>4
<1>5. CASE StartFails(s)
  <2> USE <1>5 DEF StartFails, place
  <2>0. bound[s] \in Rooms /\ listed = bound[s] /\ status[listed] = "starting"
    BY DEF StartersListed
  <2>1. TypeOK'
    BY <2>0, SessionAssumption DEF TypeOK, CloseWith
  <2>2. StartersListed' /\ ActiveListed' /\ BoundWhenIn' /\ FreshSockets'
    BY <2>0 DEF StartersListed, ActiveListed, BoundWhenIn, FreshSockets, TypeOK, CloseWith
  <2>3. TimerForTrouble' /\ SessionsFollowSockets' /\ SweptForTrouble'
    BY DEF TimerForTrouble, SessionsFollowSockets, SweptForTrouble, Troubled,
           Reading, TypeOK, CloseWith
  <2> QED
    BY <2>1, <2>2, <2>3
<1> QED
  BY <1>1, <1>2, <1>3, <1>4, <1>5

\* What a request may rely on: its room is the one that is listed.
LEMMA RequestFacts ==
  ASSUME Inv, NEW s \in Sockets, Request(s)
  PROVE  /\ listed = bound[s] /\ listed # 0 /\ status[listed] = "active"
         /\ inbox' \in [Sockets -> 0..MaxInbox]
         /\ StartersListed' /\ ActiveListed' /\ BoundWhenIn' /\ FreshSockets'
         /\ SessionsFollowSockets'
<1> USE DEF Inv
<1>1. bound[s] \in Rooms /\ status[bound[s]] = "active"
  BY DEF Request, BoundWhenIn
<1>2. listed = bound[s] /\ listed # 0 /\ status[listed] = "active"
  BY <1>1 DEF ActiveListed, Rooms
<1>3. StartersListed' /\ ActiveListed' /\ BoundWhenIn' /\ SessionsFollowSockets'
  BY DEF Request, rooms, StartersListed, ActiveListed, BoundWhenIn, SessionsFollowSockets, Reading
<1>4. FreshSockets' /\ inbox' \in [Sockets -> 0..MaxInbox]
  BY TakeFacts DEF Request, FreshSockets
<1> QED
  BY <1>2, <1>3, <1>4

\* Requests up to their await, and those that have none.
LEMMA RequestKeepsInv ==
  ASSUME Inv, NEW s \in Sockets, NEW d \in Directions,
         \/ CreateFirst(s, d) \/ CreateAgain(s, d) \/ CreateOnlyAgain(s, d)
         \/ Connect(s, d) \/ LeaveRpc(s)
  PROVE  Inv'
<1> USE DEF Inv
<1>0. Request(s)
  BY DEF CreateFirst, CreateAgain, CreateOnlyAgain, Connect, LeaveRpc
<1>u. UNCHANGED <<status, listed, conn, auth, bound, sessions>>
  BY <1>0 DEF Request, rooms
<1>c. /\ call \in [Sockets -> [dir : Directions \union {"none"}, live : BOOLEAN]]
      /\ Asked(s, d, TRUE) \in [Sockets -> [dir : Directions \union {"none"}, live : BOOLEAN]]
  BY DEF TypeOK, Asked
<1>1. CASE CreateFirst(s, d)
  <2>1. TypeOK'
    BY <1>0, <1>u, <1>c, <1>1, RequestFacts DEF TypeOK, CreateFirst
  <2>2. TimerForTrouble' /\ SweptForTrouble'
    BY <1>1 DEF CreateFirst, TimerForTrouble, SweptForTrouble, Troubled
  <2> QED
    BY <1>0, <2>1, <2>2, RequestFacts
<1>2. CASE CreateAgain(s, d)
  <2> USE <1>2 DEF CreateAgain
  <2>1. /\ link' \in [Directions -> [ice : {"none", "new", "up", "down"},
              dtls : {"none", "new", "connecting", "up", "failed", "closed"},
              timer : BOOLEAN]]
        /\ TimerForTrouble'
    BY DEF TypeOK, NoLink, TimerForTrouble, Troubled
  <2>2. link # NoLinks /\ link[d].timer \in BOOLEAN
    BY DEF Is, NoLinks, TypeOK
  <2>3. TypeOK'
    BY <1>0, <1>u, <1>c, <2>1, <2>2, RequestFacts DEF TypeOK
  <2>4. SweptForTrouble'
    BY DEF SweptForTrouble
  <2> QED
    BY <1>0, <2>1, <2>3, <2>4, RequestFacts
<1>3. CASE CreateOnlyAgain(s, d)
  <2> USE <1>3 DEF CreateOnlyAgain
  <2>1. TypeOK' /\ TimerForTrouble'
    BY <1>0, <1>u, <1>c, RequestFacts, DropFacts DEF TypeOK
  <2>2. SweptForTrouble'
    BY DEF SweptForTrouble
  <2> QED
    BY <1>0, <2>1, <2>2, RequestFacts
<1>4. CASE Connect(s, d)
  <2> USE <1>4 DEF Connect
  <2>1. /\ link' \in [Directions -> [ice : {"none", "new", "up", "down"},
              dtls : {"none", "new", "connecting", "up", "failed", "closed"},
              timer : BOOLEAN]]
        /\ TimerForTrouble'
    BY DEF TypeOK, TimerForTrouble, Troubled
  <2>2. link # NoLinks
    BY DEF NoLinks, NoLink
  <2>3. TypeOK'
    BY <1>0, <1>u, <2>1, <2>2, RequestFacts DEF TypeOK
  <2>4. SweptForTrouble'
    BY DEF SweptForTrouble
  <2> QED
    BY <1>0, <2>1, <2>3, <2>4, RequestFacts
<1>5. CASE LeaveRpc(s)
  <2>1. CASE Drop(call) /\ UNCHANGED <<orphan, swept>>
    <3>1. TypeOK' /\ TimerForTrouble'
      BY <1>0, <1>u, <1>c, <2>1, RequestFacts, DropFacts DEF TypeOK
    <3>2. SweptForTrouble'
      BY <2>1 DEF SweptForTrouble
    <3> QED
      BY <1>0, <3>1, <3>2, RequestFacts
  <2>2. CASE UNCHANGED <<place, call>>
    <3>1. TypeOK'
      BY <1>0, <1>u, <2>2, RequestFacts DEF TypeOK, place
    <3>2. TimerForTrouble' /\ SweptForTrouble'
      BY <2>2 DEF TimerForTrouble, SweptForTrouble, Troubled, place
    <3> QED
      BY <1>0, <3>1, <3>2, RequestFacts
  <2> QED
    BY <1>5, <2>1, <2>2 DEF LeaveRpc, DropIfThere
<1> QED
  BY <1>1, <1>2, <1>3, <1>4, <1>5

\* What ends a request: an answer without effect here, a transport, a rejection.
LEMMA AnswerKeepsInv ==
  ASSUME Inv, NEW s \in Sockets, Answered(s) \/ TransportReady(s) \/ CallFails(s)
  PROVE  Inv'
<1> USE DEF Inv
<1>1. CASE Answered(s)
  <2> USE <1>1, TakeFacts DEF Answered, rooms, place
  <2>1. TypeOK'
    BY DEF TypeOK
  <2>2. StartersListed' /\ ActiveListed' /\ BoundWhenIn' /\ FreshSockets'
    BY DEF StartersListed, ActiveListed, BoundWhenIn, FreshSockets
  <2>3. TimerForTrouble' /\ SessionsFollowSockets' /\ SweptForTrouble'
    BY DEF TimerForTrouble, SessionsFollowSockets, SweptForTrouble, Troubled, Reading
  <2> QED
    BY <2>1, <2>2, <2>3
<1>2. ASSUME UNCHANGED <<status, listed, conn, auth, bound, inbox, sessions>>
      PROVE  /\ StartersListed' /\ ActiveListed' /\ BoundWhenIn' /\ FreshSockets'
             /\ SessionsFollowSockets'
  BY <1>2 DEF StartersListed, ActiveListed, BoundWhenIn, FreshSockets, SessionsFollowSockets, Reading
<1>3. CASE TransportReady(s)
  <2> DEFINE d == call[s].dir
  <2> USE <1>3 DEF TransportReady, rooms
  <2>0. d \in Directions /\ call[s].live \in BOOLEAN
    BY DEF TypeOK
  <2>c. call' \in [Sockets -> [dir : Directions \union {"none"}, live : BOOLEAN]]
    BY DEF TypeOK, NoCall
  <2>l. \A t \in Sockets : call'[t].live => call[t].live
    BY DEF TypeOK, NoCall
  <2>1. CASE call[s].live
    <3>1. inTable
      BY <2>1 DEF TypeOK
    <3>2. /\ link' = [link EXCEPT ![d] = NewLink]
          /\ leftover' = (leftover \/ link[d].timer)
          /\ UNCHANGED orphan
      BY <2>1 DEF Attaches
    <3>3. /\ link' \in [Directions -> [ice : {"none", "new", "up", "down"},
                dtls : {"none", "new", "connecting", "up", "failed", "closed"},
                timer : BOOLEAN]]
          /\ TimerForTrouble'
      BY <2>0, <3>2 DEF TypeOK, NewLink, TimerForTrouble, Troubled
    <3>4. leftover' \in BOOLEAN
      BY <2>0, <3>2 DEF TypeOK
    <3>5. TypeOK'
      BY <2>c, <3>1, <3>2, <3>3, <3>4 DEF TypeOK
    <3> QED
      BY <1>2, <3>3, <3>5 DEF SweptForTrouble
  <2>2. CASE ~call[s].live
    <3>1. orphan' = TRUE /\ UNCHANGED <<link, leftover>>
      BY <2>2 DEF Attaches
    <3>2. TypeOK'
      BY <2>c, <2>l, <3>1 DEF TypeOK
    <3> QED
      BY <1>2, <3>1, <3>2 DEF SweptForTrouble, TimerForTrouble, Troubled
  <2> QED
    BY <2>0, <2>1, <2>2
<1>4. CASE CallFails(s)
  <2> USE <1>4 DEF CallFails, rooms, place
  <2>c. /\ call' \in [Sockets -> [dir : Directions \union {"none"}, live : BOOLEAN]]
        /\ \A t \in Sockets : call'[t].live => call[t].live
    BY DEF TypeOK, NoCall
  <2>1. TypeOK'
    BY <2>c DEF TypeOK
  <2> QED
    BY <1>2, <2>1 DEF SweptForTrouble, TimerForTrouble, Troubled
<1> QED
  BY <1>1, <1>3, <1>4

\* Observers of a transport: a timer is armed for trouble and disarmed without.
LEMMA MediaKeepsInv ==
  ASSUME Inv, NEW d \in Directions, Media(d)
  PROVE  Inv'
<1> USE DEF Inv
<1>1. PICK l \in [ice : {"none", "new", "up", "down"},
                  dtls : {"none", "new", "connecting", "up", "failed", "closed"},
                  timer : BOOLEAN] :
        /\ link' = [link EXCEPT ![d] = l]
        /\ l.timer => Troubled(l)
        /\ UNCHANGED <<rooms, sockets, inTable, leftover, orphan, swept>>
  <2>0. /\ link[d].dtls \in {"none", "new", "connecting", "up", "failed", "closed"}
        /\ link[d].ice \in {"none", "new", "up", "down"}
    BY DEF TypeOK
  <2>1. CASE IceUp(d)
    BY <2>0, <2>1 DEF IceUp, Reports
  <2>2. CASE IceDown(d)
    BY <2>0, <2>2 DEF IceDown, Reports, Arm, Troubled
  <2>3. CASE DtlsUp(d)
    BY <2>0, <2>3 DEF DtlsUp, Reports
  <2>4. CASE DtlsFails(d)
    BY <2>0, <2>4 DEF DtlsFails, Reports, Arm, Troubled
  <2>5. CASE DtlsCloses(d)
    BY <2>0, <2>5 DEF DtlsCloses, Reports
  <2> QED
    BY <2>1, <2>2, <2>3, <2>4, <2>5 DEF Media
<1>2. link[d].ice # "none" \/ link[d].dtls # "none"
  BY DEF Media, IceUp, IceDown, DtlsUp, DtlsFails, DtlsCloses, TypeOK
<1>3. link # NoLinks
  BY <1>2 DEF NoLinks, NoLink
<1>4. TypeOK'
  BY <1>1, <1>3 DEF TypeOK, rooms, sockets
<1>5. TimerForTrouble'
  BY <1>1 DEF TimerForTrouble, TypeOK, Troubled
<1>6. /\ StartersListed' /\ ActiveListed' /\ BoundWhenIn' /\ FreshSockets'
      /\ SessionsFollowSockets' /\ SweptForTrouble'
  BY <1>1 DEF rooms, sockets, StartersListed, ActiveListed, BoundWhenIn, FreshSockets,
              SessionsFollowSockets, SweptForTrouble, Reading
<1> QED
  BY <1>4, <1>5, <1>6

\* Sweeps: a timer of a transport in use has a reason, and one of a PeerState
\* that left finds another in the table, or none.
LEMMA SweepKeepsInv ==
  ASSUME Inv, (\E d \in Directions : SweepTimer(d)) \/ SweepReplaced \/ SweepOrphan
  PROVE  Inv'
<1> USE DEF Inv
<1>0. call \in [Sockets -> [dir : Directions \union {"none"}, live : BOOLEAN]]
  BY DEF TypeOK
<1>1. UNCHANGED <<status, listed, conn, auth, bound, inbox, sessions>>
  BY DEF SweepTimer, SweepReplaced, SweepOrphan, rooms
<1>2. /\ StartersListed' /\ ActiveListed' /\ BoundWhenIn' /\ FreshSockets'
      /\ SessionsFollowSockets'
  BY <1>1 DEF StartersListed, ActiveListed, BoundWhenIn, FreshSockets,
              SessionsFollowSockets, Reading
<1>3. CASE \E d \in Directions : SweepTimer(d)
  <2>1. PICK d \in Directions : SweepTimer(d)
    BY <1>3
  <2>2. InTrouble
    BY <2>1 DEF SweepTimer, TimerForTrouble, InTrouble
  <2>3. swept' = "no"
    BY <2>1, <2>2 DEF SweepTimer
  <2>4. TypeOK' /\ TimerForTrouble'
    BY <1>0, <1>1, <2>1, <2>3, DropFacts DEF TypeOK, SweepTimer
  <2> QED
    BY <1>2, <2>3, <2>4 DEF SweptForTrouble
<1>4. CASE SweepReplaced
  <2>1. swept' \in {"no", "replaced"}
    BY <1>4 DEF SweepReplaced
  <2>2. TypeOK' /\ TimerForTrouble'
    BY <1>0, <1>1, <1>4, <2>1, DropFacts DEF TypeOK, SweepReplaced
  <2> QED
    BY <1>2, <2>1, <2>2 DEF SweptForTrouble
<1>5. CASE SweepOrphan
  <2>1. orphan' = FALSE /\ UNCHANGED <<inTable, link, leftover, call, swept>>
    BY <1>5 DEF SweepOrphan, StillPeer
  <2>2. TypeOK'
    BY <1>1, <2>1 DEF TypeOK
  <2> QED
    BY <1>2, <2>1, <2>2 DEF TimerForTrouble, SweptForTrouble, Troubled
<1> QED
  BY <1>3, <1>4, <1>5

----------------------------------------------------------------------------
(* Theorems *)

\* No step, of whatever actor, leaves the invariant.
LEMMA NextKeepsInv == Inv /\ [Next]_vars => Inv'
<1> SUFFICES ASSUME Inv, [Next]_vars PROVE Inv'
  OBVIOUS
<1>1. CASE RoomCloses \/ Forget
  BY <1>1, RoomsKeepInv
<1>2. ASSUME NEW s \in Sockets, Connection(s) PROVE Inv'
  BY <1>2, ConnectionKeepsInv
<1>3. ASSUME NEW s \in Sockets, Message(s) PROVE Inv'
  <2>1. CASE BadMessage(s) \/ AuthJoins(s) \/ AuthStarts(s) \/ Started(s) \/ StartFails(s)
    BY <2>1, AuthKeepsInv
  <2>2. CASE Answered(s) \/ TransportReady(s) \/ CallFails(s)
    BY <2>2, AnswerKeepsInv
  <2>3. ASSUME NEW d \in Directions,
               \/ CreateFirst(s, d) \/ CreateAgain(s, d) \/ CreateOnlyAgain(s, d)
               \/ Connect(s, d) \/ LeaveRpc(s)
        PROVE  Inv'
    BY <2>3, RequestKeepsInv
  <2>4. "send" \in Directions
    BY DEF Directions
  <2> QED
    BY <1>3, <2>1, <2>2, <2>3, <2>4 DEF Message
<1>4. ASSUME NEW d \in Directions, Media(d) PROVE Inv'
  BY <1>4, MediaKeepsInv
<1>5. CASE (\E d \in Directions : SweepTimer(d)) \/ SweepReplaced \/ SweepOrphan
  BY <1>5, SweepKeepsInv
<1>6. CASE UNCHANGED vars
  BY <1>6 DEF vars, rooms, sockets, place, Inv, TypeOK, StartersListed, ActiveListed,
     BoundWhenIn, FreshSockets, TimerForTrouble, SessionsFollowSockets, SweptForTrouble,
     Troubled, Reading
<1> QED
  BY <1>1, <1>2, <1>3, <1>4, <1>5, <1>6 DEF Next

LEMMA InvHolds == Spec => []Inv
<1>1. Inv /\ [Next]_vars => Inv'
  BY NextKeepsInv
<1> QED
  BY <1>1, InitInv, PTL DEF Spec

\* Transports, timers and requests that will attach one belong to a PeerState in
\* the table of an active room, although all of them outlive awaits.
THEOREM TypesHold == Spec => []TypeOK
BY InvHolds, PTL DEF Inv

\* An authenticated open socket has its session, whatever other sockets of its
\* client do: cleanup() takes the session of its own socket only.
THEOREM SessionsHold == Spec => []SessionsFollowSockets
BY InvHolds, PTL DEF Inv

\* A sweep timer never drops a client whose transports recovered, nor for a
\* PeerState that left: each armed timer of a transport in use has its reason.
THEOREM SweepsHaveReason == Spec => []SweptForTrouble
BY InvHolds, PTL DEF Inv

----------------------------------------------------------------------------
(* The rooms that the client meets *)

\* What a session sees of its channel's rooms is a RoomLife, however sockets
\* come, wait for a start and go.
THEOREM SessionsMeetRoomLife == Spec => MeetsRoomLife
<1> DEFINE R == IF listed = 0 THEN "none" ELSE status[listed]
           L == [c \in {"its channel"} |-> RoomOf(c)]
<1>1. Init => Met!Init
  BY DEF Init, Met!Init, RoomOf
<1>2. ASSUME Inv, [Next]_vars
      PROVE  \/ R' = R
             \/ R = "none" /\ R' = "starting"
             \/ R = "starting" /\ R' \in {"active", "none"}
             \/ R = "active" /\ R' = "closed"
             \/ R = "closed" /\ R' = "none"
  <2>0. TypeOK /\ StartersListed
    BY <1>2 DEF Inv
  <2>1. CASE RoomCloses \/ Forget
    <3>1. CASE RoomCloses
      <4>1. listed \in Rooms /\ listed' = listed /\ status'[listed] = "closed"
        BY <2>0, <3>1 DEF RoomCloses, TypeOK, Rooms
      <4>2. R = "active" /\ R' = "closed"
        BY <3>1, <4>1 DEF RoomCloses
      <4> QED
        BY <4>2
    <3>2. CASE Forget
      BY <3>2 DEF Forget
    <3> QED
      BY <2>1, <3>1, <3>2
  <2>2. ASSUME NEW s \in Sockets, AuthStarts(s)
        PROVE  R = "none" /\ R' = "starting"
    <3>1. PICK r \in Rooms : status' = [status EXCEPT ![r] = "starting"] /\ listed' = r
      BY <2>2 DEF AuthStarts
    <3>2. listed = 0 /\ r # 0 /\ status'[r] = "starting"
      BY <2>0, <2>2, <3>1 DEF AuthStarts, TypeOK, Rooms
    <3> QED
      BY <3>1, <3>2
  <2>3. ASSUME NEW s \in Sockets, Started(s) \/ StartFails(s)
        PROVE  R = "starting" /\ R' \in {"active", "none"}
    <3>1. auth[s] = "starting"
      BY <2>3 DEF Started, StartFails
    <3>2. bound[s] \in Rooms /\ listed = bound[s] /\ status[listed] = "starting" /\ listed # 0
      BY <2>0, <3>1 DEF StartersListed, Rooms
    <3> QED
      BY <2>0, <2>3, <3>2 DEF Started, StartFails, TypeOK
  <2>4. CASE UNCHANGED rooms
    BY <2>4 DEF rooms
  <2>5. ASSUME NEW s \in Sockets, Connection(s) \/ Message(s)
        PROVE  UNCHANGED rooms \/ AuthStarts(s) \/ Started(s) \/ StartFails(s)
    BY <2>5 DEF Connection, Message, Upgrade, Queue, AuthTimeout, SocketCloses, BadMessage,
                AuthJoins, Answered, LeaveRpc, Request, TransportReady, CallFails,
                CreateFirst, CreateAgain, CreateOnlyAgain, Connect
  <2>6. ASSUME NEW d \in Directions, Media(d) \/ SweepTimer(d)
        PROVE  UNCHANGED rooms
    BY <2>6 DEF Media, IceUp, IceDown, DtlsUp, DtlsFails, DtlsCloses, Reports, SweepTimer
  <2>7. SweepReplaced \/ SweepOrphan \/ UNCHANGED vars => UNCHANGED rooms
    BY DEF SweepReplaced, SweepOrphan, vars
  <2> QED
    BY <1>2, <2>1, <2>2, <2>3, <2>4, <2>5, <2>6, <2>7 DEF Next
<1>3. Inv /\ [Next]_vars => [Met!Next]_L
  <2> SUFFICES ASSUME Inv, [Next]_vars PROVE Met!Next
    OBVIOUS
  <2>1. L["its channel"] = R /\ L'["its channel"] = R'
    BY DEF RoomOf
  <2> HIDE DEF R
  <2> QED
    BY <1>2, <2>1
    DEF Met!Next, Met!Opens, Met!Ready, Met!Fails, Met!Closes, Met!Freed, Met!Strays,
        Met!Stays, Met!Moves
<1> QED
  BY <1>1, <1>3, InvHolds, PTL DEF Spec, MeetsRoomLife, Met!Spec

----------------------------------------------------------------------------
(* Transports that lose their ICE *)

\* Whatever replaces, attaches and drops transports, the one that is down has
\* the timer that will take its client.
LEMMA ArmedStep ==
  Inv /\ IceDownIsArmed /\ [Next]_vars => IceDownIsArmed'
<1> SUFFICES ASSUME TypeOK, TypeOK', IceDownIsArmed, [Next]_vars PROVE IceDownIsArmed'
  BY NextKeepsInv DEF Inv
<1>1. \A d \in Directions : link'[d].timer => inTable'
  BY DEF TypeOK, NoLinks, NoLink
<1> DEFINE Armed(l) == l.ice = "down" /\ l.dtls # "closed" => l.timer
<1>2. SUFFICES \A d \in Directions : Armed(link'[d])
  BY <1>1 DEF IceDownIsArmed
<1>3. \A d \in Directions : Armed(link[d])
  BY DEF IceDownIsArmed
<1>4. Armed(NoLink) /\ Armed(NewLink)
  BY DEF NoLink, NewLink
<1>5. CASE link' = NoLinks \/ link' = link
  BY <1>3, <1>4, <1>5 DEF NoLinks
<1> DEFINE Touched(d) ==
             \/ link' = [link EXCEPT ![d] = NoLink]
             \/ link' = [link EXCEPT ![d] = NewLink]
             \/ link[d].dtls = "new" /\ link' = [link EXCEPT ![d].dtls = "connecting"]
<1>6. ASSUME NEW s \in Sockets, Message(s)
      PROVE  \/ link' = NoLinks \/ link' = link
             \/ \E d \in Directions : Touched(d)
  <2>1. CASE TransportReady(s)
    <3>1. call[s].dir \in Directions
      BY <2>1 DEF TransportReady, TypeOK
    <3> QED
      BY <2>1, <3>1 DEF TransportReady
  <2>2. CASE LeaveRpc(s)
    BY <2>2 DEF LeaveRpc, DropIfThere, Drop, place
  <2>3. CASE \E d \in Directions :
               CreateFirst(s, d) \/ CreateAgain(s, d) \/ CreateOnlyAgain(s, d) \/ Connect(s, d)
    BY <2>3 DEF CreateFirst, CreateAgain, CreateOnlyAgain, Connect, Drop
  <2> QED
    BY <1>6, <2>1, <2>2, <2>3
    DEF Message, BadMessage, AuthJoins, AuthStarts, Started, StartFails, Answered,
        CallFails, place
<1>7. ASSUME NEW d \in Directions, Touched(d)
      PROVE  \A e \in Directions : Armed(link'[e])
  <2>1. \A e \in Directions : e # d => link'[e] = link[e]
    BY <1>7 DEF TypeOK
  <2>2. CASE link' = [link EXCEPT ![d] = NoLink] \/ link' = [link EXCEPT ![d] = NewLink]
    <3>1. link'[d] \in {NoLink, NewLink}
      BY <2>2 DEF TypeOK
    <3> QED
      BY <1>3, <1>4, <2>1, <3>1
  <2>3. CASE link[d].dtls = "new" /\ link' = [link EXCEPT ![d].dtls = "connecting"]
    <3>1. link'[d].ice = link[d].ice /\ link'[d].timer = link[d].timer
      BY <2>3 DEF TypeOK
    <3> QED
      BY <1>3, <2>1, <2>3, <3>1
  <2> QED
    BY <1>7, <2>2, <2>3
<1>8. CASE \E d \in Directions : Media(d)
  <2>1. PICK d \in Directions : Media(d)
    BY <1>8
  <2> QED
    BY <1>3, <2>1 DEF Media, IceUp, IceDown, DtlsUp, DtlsFails, DtlsCloses, Reports, Arm, TypeOK
<1>9. ASSUME NEW s \in Sockets, Connection(s)
      PROVE  link' = NoLinks \/ link' = link
  BY <1>9 DEF Connection, Upgrade, Queue, AuthTimeout, SocketCloses, DropIfThere, Drop, place
<1>10. ASSUME NEW d \in Directions, SweepTimer(d)
       PROVE  link' = NoLinks
  BY <1>10 DEF SweepTimer, Drop
<1>11. RoomCloses \/ Forget \/ SweepReplaced \/ SweepOrphan \/ UNCHANGED vars =>
         link' = NoLinks \/ link' = link
  BY DEF RoomCloses, Forget, SweepReplaced, SweepOrphan, Drop, place, vars
<1> QED
  BY <1>5, <1>6, <1>7, <1>8, <1>9, <1>10, <1>11 DEF Next

\* A transport whose ICE is down always has its timer armed, and the timer's
\* client is in the table: IceDownIsSwept wants no more than that timers fire.
THEOREM IceDownStaysArmed == Spec => []IceDownIsArmed
<1>1. Init => IceDownIsArmed
  BY DEF Init, IceDownIsArmed, NoLinks, NoLink
<1> QED
  BY <1>1, InvHolds, ArmedStep, PTL DEF Spec

----------------------------------------------------------------------------
(* The reaper: the packets of a set of producers *)

Marks(f, S) == {x \in S \X (1..MaxPackets) : x[2] <= f[x[1]]}
Sent(f, S) == Cardinality(Marks(f, S))
Counts == [Producers -> 0..MaxPackets]

LEMMA SentFinite ==
  ASSUME NEW f \in Counts, NEW S \in SUBSET Producers
  PROVE  IsFiniteSet(Marks(f, S)) /\ Sent(f, S) \in Nat
<1>1. IsFiniteSet(S) /\ IsFiniteSet(1..MaxPackets)
  BY ReaperAssumption, FS_Subset, FS_Interval
<1>2. IsFiniteSet(S \X (1..MaxPackets))
  BY <1>1, FS_Product
<1>3. Marks(f, S) \in SUBSET (S \X (1..MaxPackets))
  BY DEF Marks
<1>4. IsFiniteSet(Marks(f, S))
  BY <1>2, <1>3, FS_Subset
<1> QED
  BY <1>4, FS_CardinalityType DEF Sent

LEMMA SentNone == ASSUME NEW f PROVE Sent(f, {}) = 0
<1>1. Marks(f, {}) = {}
  BY DEF Marks
<1> QED
  BY <1>1, FS_EmptySet DEF Sent

LEMMA SentAdd ==
  ASSUME NEW f \in Counts, NEW S \in SUBSET Producers, NEW p \in Producers \ S
  PROVE  Sent(f, S \union {p}) = Sent(f, S) + f[p]
<1> DEFINE P == {p} \X (1..f[p])
<1>1. f[p] \in 0..MaxPackets /\ MaxPackets \in Nat
  BY ReaperAssumption DEF Counts
<1>2. Marks(f, S \union {p}) = Marks(f, S) \union P
  BY <1>1 DEF Marks
<1>3. Marks(f, S) \intersect P = {}
  BY DEF Marks
<1>4. IsFiniteSet(P) /\ Cardinality(P) = f[p]
  <2>1. /\ IsFiniteSet({p}) /\ Cardinality({p}) = 1
        /\ IsFiniteSet(1..f[p]) /\ Cardinality(1..f[p]) = f[p]
    <3>1. IsFiniteSet({p}) /\ Cardinality({p}) = 1
      BY FS_Singleton, Zenon
    <3>2. 1 \in Int /\ f[p] \in Int /\ f[p] >= 0
      BY <1>1
    <3>3. /\ IsFiniteSet(1..f[p])
          /\ Cardinality(1..f[p]) = IF 1 > f[p] THEN 0 ELSE f[p] - 1 + 1
      BY <3>2, FS_Interval
    <3> QED
      BY <3>1, <3>2, <3>3
  <2>2. Cardinality(P) = Cardinality({p}) * Cardinality(1..f[p]) /\ IsFiniteSet(P)
    BY <2>1, FS_Product, Zenon
  <2> HIDE DEF P
  <2> QED
    BY <2>1, <2>2, <1>1
<1>5. IsFiniteSet(Marks(f, S)) /\ Sent(f, S) \in Nat
  BY SentFinite
<1> HIDE DEF P
<1>6. Cardinality(Marks(f, S) \union P)
        = Cardinality(Marks(f, S)) + Cardinality(P) - Cardinality({})
  BY <1>3, <1>4, <1>5, FS_Union, Zenon
<1>7. Sent(f, S \union {p}) = Sent(f, S) + f[p] - 0
  BY <1>2, <1>4, <1>6, FS_EmptySet DEF Sent
<1> QED
  BY <1>1, <1>5, <1>7

LEMMA SentMore ==
  ASSUME NEW f \in Counts, NEW T \in SUBSET Producers, NEW S \in SUBSET T
  PROVE  Sent(f, S) <= Sent(f, T)
<1>1. IsFiniteSet(Marks(f, T))
  BY SentFinite
<1>2. Marks(f, S) \in SUBSET Marks(f, T)
  BY DEF Marks
<1> QED
  BY <1>1, <1>2, FS_Subset DEF Sent

LEMMA SentSame ==
  ASSUME NEW f, NEW g, NEW S, \A q \in S : f[q] = g[q]
  PROVE  Sent(f, S) = Sent(g, S)
<1>1. Marks(f, S) = Marks(g, S)
  BY DEF Marks
<1> QED
  BY <1>1 DEF Sent

LEMMA SentOneMore ==
  ASSUME NEW f \in Counts, NEW S \in SUBSET Producers, NEW p \in S,
         f[p] < MaxPackets
  PROVE  LET g == [f EXCEPT ![p] = @ + 1]
         IN  g \in Counts /\ Sent(g, S) = Sent(f, S) + 1
<1> DEFINE g == [f EXCEPT ![p] = @ + 1]
           R == S \ {p}
<1>1. g \in Counts /\ g[p] = f[p] + 1 /\ f[p] \in Nat
  BY ReaperAssumption DEF Counts
<1>2. R \in SUBSET Producers /\ p \in Producers \ R /\ S = R \union {p}
  OBVIOUS
<1>3. Sent(g, R) = Sent(f, R)
  <2>1. \A q \in R : g[q] = f[q]
    BY DEF Counts
  <2> HIDE DEF g
  <2> QED
    BY <2>1, SentSame
<1> HIDE DEF g, R
<1>4. Sent(f, S) = Sent(f, R) + f[p] /\ Sent(g, S) = Sent(g, R) + g[p]
  BY <1>1, <1>2, SentAdd
<1>5. Sent(f, R) \in Nat
  BY <1>2, SentFinite
<1>6. g \in Counts /\ Sent(g, S) = Sent(f, S) + 1
  BY <1>1, <1>3, <1>4, <1>5
<1> QED
  BY <1>6 DEF g
----------------------------------------------------------------------------
(* The reaper: its inductive invariant *)

\* A key that is not in the table has nothing, and no sweep reads it.
GoneHasNothing ==
  ~present => /\ producers = {} /\ dead = {} /\ ~recv /\ ~connected
              /\ ~sweep.running
AtRest == ~sweep.running => sweep = NoSweep

\* A producer counts at most MaxPackets, a dead one nothing.
SweepBounded == sweep.total <= MaxPackets * Cardinality(sweep.read)
DeadSilent == \A p \in dead : packets[p] = 0

\* The total that is remembered, and the one that a sweep adds up, were sent.
CountedWasSent ==
  /\ lastSeen <= Sent(packets, producers)
  /\ sweep.running => /\ sweep.read \subseteq producers
                      /\ sweep.total <= Sent(packets, sweep.read)

\* With nothing sent beyond the remembered total, silence is real.
SilenceIsReal ==
  Sent(packets, producers) <= lastSeen =>
    silence <= quiet + 1 /\ (heard => silence = 0)

\* It is, too, when what a sweep has read and what is left to read make no more.
SweepSeesSilence ==
  sweep.running
    /\ sweep.total + Sent(packets, producers \ sweep.read) <= lastSeen =>
    silence <= quiet + 1

KeptCounts == CountedWasSent /\ SilenceIsReal /\ SweepSeesSilence
ReaperInv ==
  /\ ReaperTypeOK /\ GoneHasNothing /\ AtRest /\ SweepBounded /\ DeadSilent
  /\ present /\ ~lost => KeptCounts

LEMMA Bounds ==
  ASSUME NEW T \in SUBSET Producers
  PROVE  /\ IsFiniteSet(T) /\ Cardinality(T) \in Nat
         /\ MaxPackets * Cardinality(T) \in Nat /\ MaxTotal \in Nat
         /\ MaxPackets * Cardinality(T) <= MaxTotal
<1>1. /\ IsFiniteSet(T) /\ Cardinality(T) <= Cardinality(Producers)
      /\ Cardinality(T) \in Nat /\ Cardinality(Producers) \in Nat
  BY ReaperAssumption, FS_Subset, FS_CardinalityType
<1>2. \A m, a, b \in Nat : a <= b => m * a \in Nat /\ m * b \in Nat /\ m * a <= m * b
  OBVIOUS
<1> QED
  BY <1>1, <1>2, ReaperAssumption DEF MaxTotal

Sweeps == [running : BOOLEAN, read : SUBSET Producers, total : 0..MaxTotal,
           any : BOOLEAN]

LEMMA NoSweepTyped == NoSweep \in Sweeps /\ 0 \in 0..MaxTotal /\ 0 \in 0..(Inactivity + 1)
                        /\ 0 \in 0..(NoProducer + 1)
<1>1. MaxTotal \in Nat
  BY Bounds
<1>2. 0 \in 0..MaxTotal /\ 0 \in 0..(Inactivity + 1) /\ 0 \in 0..(NoProducer + 1)
  BY <1>1, ReaperAssumption
<1> QED
  BY <1>2 DEF NoSweep, Sweeps

LEMMA ReaperInitInv == ReaperInit => ReaperInv
<1> SUFFICES ASSUME ReaperInit PROVE ReaperInv
  OBVIOUS
<1>1. MaxTotal \in Nat
  BY Bounds
<1>2. Cardinality({}) = 0
  BY FS_EmptySet
<1>3. ReaperTypeOK
  <2>1. packets \in [Producers -> 0..MaxPackets]
    BY ReaperAssumption DEF ReaperInit
  <2> QED
    BY <2>1, NoSweepTyped DEF ReaperInit, ReaperTypeOK, Sweeps
<1>4. SweepBounded
  BY <1>2, ReaperAssumption DEF ReaperInit, SweepBounded, NoSweep
<1> QED
  BY <1>3, <1>4 DEF ReaperInit, ReaperInv, GoneHasNothing, AtRest, DeadSilent, NoSweep

\* Whoever takes the key off the table ends the sweep with it.
LEMMA GoneInv ==
  ASSUME ReaperInv, Gone, due' \in BOOLEAN
  PROVE  ReaperInv'
<1>1. MaxTotal \in Nat /\ Cardinality({}) = 0
  BY Bounds, FS_EmptySet
<1>2. ReaperTypeOK'
  BY NoSweepTyped DEF ReaperInv, ReaperTypeOK, Gone, Sweeps, counts, history
<1>3. SweepBounded'
  BY <1>1, ReaperAssumption DEF Gone, SweepBounded, NoSweep
<1> QED
  BY <1>2, <1>3 DEF ReaperInv, Gone, GoneHasNothing, AtRest, DeadSilent, NoSweep

\* What the counts say depends on nothing but the counts.
LEMMA CountsKept ==
  ASSUME KeptCounts, UNCHANGED <<producers, packets, lastSeen, silence, quiet, heard, sweep>>
  PROVE  KeptCounts'
BY DEF KeptCounts, CountedWasSent, SilenceIsReal, SweepSeesSilence

LEMMA EnterInv == ASSUME ReaperInv, Enter PROVE ReaperInv'
<1>1. ReaperTypeOK'
  BY NoSweepTyped DEF ReaperInv, ReaperTypeOK, Enter, client
<1>2. KeptCounts'
  <2>1. producers' = {} /\ lastSeen' = 0 /\ silence' = 0 /\ quiet' = 0
          /\ ~sweep'.running /\ heard' = FALSE
    BY DEF ReaperInv, Enter, GoneHasNothing, client
  <2>2. Sent(packets, producers)' = 0
    BY <2>1, SentNone
  <2> QED
    BY <2>1, <2>2 DEF KeptCounts, CountedWasSent, SilenceIsReal, SweepSeesSilence
<1> QED
  BY <1>1, <1>2 DEF ReaperInv, Enter, client, GoneHasNothing, AtRest, SweepBounded, DeadSilent

\* Steps that neither count nor change what is counted.
LEMMA AsideInv ==
  ASSUME ReaperInv, present,
         recv' \in BOOLEAN, connected' \in BOOLEAN, vanished' \in BOOLEAN,
         UNCHANGED <<present, producers, dead, packets, counts, due, sweep, history, lost>>
  PROVE  ReaperInv'
<1>1. ReaperTypeOK'
  BY DEF ReaperInv, ReaperTypeOK, counts, history
<1>2. ~lost => KeptCounts'
  BY CountsKept DEF ReaperInv, counts, history
<1> QED
  BY <1>1, <1>2 DEF ReaperInv, GoneHasNothing, AtRest, SweepBounded, DeadSilent

\* A new producer has sent nothing, and was not read.
LEMMA ProduceInv ==
  ASSUME ReaperInv, NEW p \in Producers, Produce(p)
  PROVE  ReaperInv'
<1>1. /\ packets' = [packets EXCEPT ![p] = 0] /\ packets'[p] = 0
      /\ packets \in Counts /\ packets' \in Counts
      /\ producers \in SUBSET Producers /\ sweep.read \in SUBSET Producers
      /\ producers' = producers \union {p} /\ p \notin producers /\ p \notin sweep.read
  BY ReaperAssumption DEF ReaperInv, ReaperTypeOK, Produce, Counts
<1>2. ReaperTypeOK'
  BY <1>1 DEF ReaperInv, ReaperTypeOK, Produce, counts, history, Counts
<1>3. DeadSilent'
  BY <1>1 DEF ReaperInv, ReaperTypeOK, DeadSilent, Produce
<1>4. ASSUME NEW S \in SUBSET Producers, p \notin S
      PROVE  Sent(packets', S) = Sent(packets, S)
  <2>1. \A q \in S : packets'[q] = packets[q]
    BY <1>1, <1>4 DEF Counts
  <2> QED
    BY <2>1, SentSame
<1>5. Sent(packets', producers') = Sent(packets, producers)
  <2>1. Sent(packets', producers \union {p}) = Sent(packets', producers) + packets'[p]
    BY <1>1, SentAdd
  <2>2. Sent(packets', producers) \in Nat
    BY <1>1, SentFinite
  <2>3. Sent(packets', producers) = Sent(packets, producers)
    BY <1>1, <1>4
  <2> QED
    BY <1>1, <2>1, <2>2, <2>3
<1>6. Sent(packets', producers' \ sweep.read) = Sent(packets, producers \ sweep.read)
  <2>1. producers' \ sweep.read = (producers \ sweep.read) \union {p}
    BY <1>1
  <2>2. Sent(packets', (producers \ sweep.read) \union {p})
          = Sent(packets', producers \ sweep.read) + packets'[p]
    BY <1>1, SentAdd
  <2>3. Sent(packets', producers \ sweep.read) \in Nat
    BY <1>1, SentFinite
  <2>4. Sent(packets', producers \ sweep.read) = Sent(packets, producers \ sweep.read)
    BY <1>1, <1>4
  <2>5. packets'[p] = 0
    BY <1>1
  <2>6. Sent(packets', producers' \ sweep.read)
          = Sent(packets', (producers \ sweep.read) \union {p})
    BY <2>1, Zenon
  <2> QED
    BY <2>2, <2>3, <2>4, <2>5, <2>6
<1>7. Sent(packets', sweep.read) = Sent(packets, sweep.read)
  BY <1>1, <1>4
<1>8. ~lost => KeptCounts'
  BY <1>1, <1>5, <1>6, <1>7
  DEF ReaperInv, Produce, KeptCounts, CountedWasSent, SilenceIsReal, SweepSeesSilence,
      counts, history
<1> QED
  BY <1>2, <1>3, <1>8 DEF ReaperInv, Produce, GoneHasNothing, AtRest, SweepBounded

LEMMA UnpublishInv ==
  ASSUME ReaperInv, NEW P, Unpublish(P)
  PROVE  ReaperInv'
<1>1. ReaperTypeOK'
  BY DEF ReaperInv, ReaperTypeOK, Unpublish, counts, history
<1> QED
  BY <1>1 DEF ReaperInv, Unpublish, GoneHasNothing, AtRest, SweepBounded, DeadSilent

\* A packet that comes in is one more than the reaper can have counted.
LEMMA PacketInv ==
  ASSUME ReaperInv, NEW p \in Producers, Packet(p)
  PROVE  ReaperInv'
<1>1. /\ packets' = [packets EXCEPT ![p] = @ + 1]
      /\ packets \in Counts /\ packets[p] < MaxPackets
      /\ producers \in SUBSET Producers /\ sweep.read \in SUBSET Producers
      /\ p \in producers /\ p \notin dead
      /\ lastSeen \in Nat /\ sweep.total \in Nat
  BY Bounds DEF ReaperInv, ReaperTypeOK, Packet, Counts
<1>2. packets' \in Counts
  BY <1>1, SentOneMore
<1>3. ReaperTypeOK'
  BY <1>2 DEF ReaperInv, ReaperTypeOK, Packet, client, counts, Counts
<1>4. DeadSilent'
  BY <1>1 DEF ReaperInv, ReaperTypeOK, DeadSilent, Packet, client, Counts
<1>5. ASSUME NEW S \in SUBSET Producers
      PROVE  /\ Sent(packets, S) \in Nat
             /\ Sent(packets', S) = IF p \in S THEN Sent(packets, S) + 1
                                    ELSE Sent(packets, S)
  <2>1. Sent(packets, S) \in Nat
    BY <1>1, SentFinite
  <2>2. CASE p \in S
    BY <1>1, <2>1, <2>2, SentOneMore
  <2>3. CASE p \notin S
    <3>1. \A q \in S : packets'[q] = packets[q]
      BY <1>1, <2>3 DEF Counts
    <3> QED
      BY <2>1, <2>3, <3>1, SentSame
  <2> QED
    BY <2>2, <2>3
<1>6. ~lost => KeptCounts'
  <2> SUFFICES ASSUME ~lost PROVE KeptCounts'
    OBVIOUS
  <2>1. KeptCounts
    BY <1>1 DEF ReaperInv, Packet, GoneHasNothing
  <2>2. /\ UNCHANGED <<producers, lastSeen, silence, sweep, quiet>>
    BY DEF Packet, client, counts
  <2>3. /\ Sent(packets, producers) \in Nat
        /\ Sent(packets', producers) = Sent(packets, producers) + 1
    BY <1>1, <1>5
  <2>4. /\ Sent(packets, sweep.read) \in Nat /\ Sent(packets', sweep.read) \in Nat
        /\ Sent(packets, sweep.read) <= Sent(packets', sweep.read)
    <3>1. /\ Sent(packets, sweep.read) \in Nat
          /\ Sent(packets', sweep.read) = IF p \in sweep.read
               THEN Sent(packets, sweep.read) + 1 ELSE Sent(packets, sweep.read)
      BY <1>1, <1>5
    <3> QED
      BY <3>1
  <2>5. producers \ sweep.read \in SUBSET Producers
    BY <1>1
  <2>6. /\ Sent(packets, producers \ sweep.read) \in Nat
        /\ Sent(packets', producers \ sweep.read) \in Nat
        /\ Sent(packets, producers \ sweep.read) <= Sent(packets', producers \ sweep.read)
    BY <1>5, <2>5
  <2>7. CountedWasSent' /\ SilenceIsReal'
    BY <1>1, <2>1, <2>2, <2>3, <2>4 DEF KeptCounts, CountedWasSent, SilenceIsReal
  <2>8. SweepSeesSilence'
    BY <1>1, <2>1, <2>2, <2>6 DEF KeptCounts, SweepSeesSilence
  <2> QED
    BY <2>7, <2>8 DEF KeptCounts
<1> QED
  BY <1>3, <1>4, <1>6 DEF ReaperInv, Packet, client, GoneHasNothing, AtRest, SweepBounded

LEMMA OlderFacts ==
  ASSUME NEW n \in Nat, NEW a \in 0..(n + 1)
  PROVE  /\ Older(a, n) \in 0..(n + 1) /\ Older(a, n) <= a + 1
         /\ \A b \in 0..(n + 1) : a <= b + 1 => Older(a, n) <= Older(b, n) + 1
BY DEF Older

LEMMA TickInv == ASSUME ReaperInv, Tick PROVE ReaperInv'
<1>1. ReaperTypeOK'
  <2>1. /\ Older(silence, Inactivity) \in 0..(Inactivity + 1)
        /\ Older(quiet, Inactivity) \in 0..(Inactivity + 1)
        /\ Older(joined, NoProducer) \in 0..(NoProducer + 1)
    BY OlderFacts, ReaperAssumption DEF ReaperInv, ReaperTypeOK
  <2>2. quiet' \in 0..(Inactivity + 1)
    BY <2>1, NoSweepTyped DEF Tick
  <2> QED
    BY <2>1, <2>2 DEF ReaperInv, ReaperTypeOK, Tick, client
<1>2. /\ UNCHANGED <<producers, packets, lastSeen, sweep>> /\ ~sweep.running
      /\ silence \in Nat /\ quiet \in Nat /\ Inactivity \in Nat
      /\ silence \in 0..(Inactivity + 1) /\ quiet \in 0..(Inactivity + 1)
      /\ silence' = Older(silence, Inactivity) /\ heard' = FALSE
      /\ quiet' = IF heard THEN 0 ELSE Older(quiet, Inactivity)
  BY ReaperAssumption DEF ReaperInv, ReaperTypeOK, Tick, client, NoSweep
<1>3. KeptCounts => KeptCounts'
  <2> SUFFICES ASSUME KeptCounts PROVE KeptCounts'
    OBVIOUS
  <2>1. CountedWasSent' /\ SweepSeesSilence'
    BY <1>2 DEF KeptCounts, CountedWasSent, SweepSeesSilence
  <2>2. SilenceIsReal'
    <3> SUFFICES ASSUME Sent(packets, producers) <= lastSeen
                 PROVE  silence' <= quiet' + 1 /\ ~heard'
      BY <1>2 DEF SilenceIsReal
    <3>1. silence <= quiet + 1 /\ (heard => silence = 0)
      BY DEF KeptCounts, SilenceIsReal
    <3>2. CASE heard
      BY <1>2, <3>1, <3>2 DEF Older
    <3>3. CASE ~heard
      BY <1>2, <3>1, <3>3, OlderFacts
    <3> QED
      BY <3>2, <3>3
  <2> QED
    BY <2>1, <2>2 DEF KeptCounts
<1> QED
  BY <1>1, <1>3 DEF ReaperInv, Tick, client, GoneHasNothing, AtRest, SweepBounded, DeadSilent

LEMMA ReapIdleInv == ASSUME ReaperInv, ReapIdle PROVE ReaperInv'
<1>1. CASE Idle
  BY <1>1, GoneInv DEF ReapIdle
<1>2. CASE ~Idle
  <2>1. ReaperTypeOK'
    BY <1>2 DEF ReaperInv, ReaperTypeOK, ReapIdle, client, counts, history
  <2>2. ~lost => KeptCounts'
    BY <1>2, CountsKept DEF ReaperInv, ReapIdle, client, counts, history
  <2> QED
    BY <1>2, <2>1, <2>2
    DEF ReaperInv, ReapIdle, client, GoneHasNothing, AtRest, SweepBounded, DeadSilent
<1> QED
  BY <1>1, <1>2

\* A sweep starts with nothing read: all there is to read is all there is.
LEMMA ReapBeginInv == ASSUME ReaperInv, ReapBegin PROVE ReaperInv'
<1>1. /\ sweep' = [running |-> TRUE, read |-> {}, total |-> 0, any |-> FALSE]
      /\ UNCHANGED <<present, client, packets, counts, vanished, history, lost>>
      /\ present /\ due' = FALSE
  BY DEF ReapBegin, FirstTotal
<1>2. MaxTotal \in Nat /\ Cardinality({}) = 0
  BY Bounds, FS_EmptySet
<1>3. ReaperTypeOK'
  <2>1. sweep' \in Sweeps
    BY <1>1, <1>2 DEF Sweeps
  <2> QED
    BY <1>1, <2>1 DEF ReaperInv, ReaperTypeOK, Sweeps, client, counts, history
<1>4. SweepBounded'
  BY <1>1, <1>2, ReaperAssumption DEF SweepBounded
<1>5. ~lost => KeptCounts'
  <2>1. Sent(packets, {}) = 0 /\ producers \ {} = producers
    BY SentNone
  <2>2. packets \in Counts /\ producers \in SUBSET Producers
    BY DEF ReaperInv, ReaperTypeOK, Counts
  <2>3. Sent(packets, producers) \in Nat
    BY <2>2, SentFinite
  <2> QED
    BY <1>1, <2>1, <2>3 DEF ReaperInv, KeptCounts, CountedWasSent, SilenceIsReal,
                            SweepSeesSilence, client, counts, history
<1> QED
  BY <1>1, <1>3, <1>4, <1>5
  DEF ReaperInv, client, GoneHasNothing, AtRest, DeadSilent

\* What is read moves from the rest to the total.
LEMMA ReadStatsInv ==
  ASSUME ReaperInv, NEW p \in Producers, ReadStats(p)
  PROVE  ReaperInv'
<1> DEFINE R == sweep.read \union {p}
           c == Cardinality(sweep.read)
<1>1. /\ sweep.read \in SUBSET Producers /\ p \notin sweep.read /\ p \in producers
      /\ producers \in SUBSET Producers
      /\ packets \in Counts /\ packets[p] \in 0..MaxPackets /\ packets[p] \in Nat
      /\ sweep.total \in Nat /\ lastSeen \in Nat /\ MaxPackets \in Nat
      /\ UNCHANGED <<present, client, packets, counts, due, vanished, history, lost>>
  BY Bounds, ReaperAssumption DEF ReaperInv, ReaperTypeOK, ReadStats, Counts
<1>2. /\ sweep' \in [running : BOOLEAN, read : SUBSET Producers, total : Nat, any : BOOLEAN]
      /\ sweep'.running /\ sweep.running /\ sweep'.read = R
      /\ sweep'.total = sweep.total + packets[p]
  <2>1. /\ sweep \in [running : BOOLEAN, read : SUBSET Producers, total : Nat,
                      any : BOOLEAN]
        /\ sweep.running /\ sweep.read \union {p} \in SUBSET Producers
    BY <1>1 DEF ReaperInv, ReaperTypeOK, ReadStats
  <2>2. CASE p \in dead \/ packets[p] = 0
    <3>1. packets[p] = 0
      BY <2>2 DEF ReaperInv, DeadSilent
    <3> QED
      BY <1>1, <2>1, <2>2, <3>1 DEF ReadStats
  <2>3. CASE ~(p \in dead \/ packets[p] = 0)
    <3>1. sweep' = [sweep EXCEPT !.read = R, !.total = @ + packets[p], !.any = TRUE]
      BY <2>3 DEF ReadStats
    <3>2. sweep.total + packets[p] \in Nat
      BY <1>1
    <3> QED
      BY <2>1, <3>1, <3>2
  <2> QED
    BY <2>2, <2>3
<1>3. /\ SweepBounded' /\ sweep'.total <= MaxTotal
  <2>1. Cardinality(R) = c + 1 /\ c \in Nat
    BY <1>1, Bounds, FS_AddElement
  <2>2. R \in SUBSET Producers
    BY <1>1
  <2> HIDE DEF R, c
  <2>3. \A m, k \in Nat : m * (k + 1) = m * k + m /\ m * k \in Nat
    OBVIOUS
  <2>4. MaxPackets * Cardinality(R) = MaxPackets * c + MaxPackets /\ MaxPackets * c \in Nat
    BY <1>1, <2>1, <2>3
  <2>5. sweep.total <= MaxPackets * c
    BY DEF ReaperInv, SweepBounded, c
  <2>6. sweep'.total <= MaxPackets * Cardinality(R)
    BY <1>1, <1>2, <2>4, <2>5
  <2>7. MaxPackets * Cardinality(R) \in Nat /\ MaxPackets * Cardinality(R) <= MaxTotal
          /\ MaxTotal \in Nat
    BY <2>2, Bounds
  <2> QED
    BY <1>2, <2>6, <2>7 DEF SweepBounded
<1>4. ReaperTypeOK'
  <2>1. sweep' \in [running : BOOLEAN, read : SUBSET Producers, total : 0..MaxTotal,
                    any : BOOLEAN]
    BY <1>2, <1>3, Bounds
  <2> QED
    BY <1>1, <2>1 DEF ReaperInv, ReaperTypeOK, client, counts, history
<1>5. ~lost => KeptCounts'
  <2> SUFFICES ASSUME ~lost PROVE KeptCounts'
    OBVIOUS
  <2>1. KeptCounts
    BY <1>1 DEF ReaperInv, GoneHasNothing
  <2>2. UNCHANGED <<producers, packets, lastSeen, silence, quiet, heard>>
    BY <1>1 DEF client, counts, history
  <2>3. Sent(packets, R) = Sent(packets, sweep.read) + packets[p]
    BY <1>1, SentAdd
  <2>4. Sent(packets, producers \ sweep.read) = Sent(packets, producers \ R) + packets[p]
    <3>1. producers \ sweep.read = (producers \ R) \union {p}
      BY <1>1
    <3>2. producers \ R \in SUBSET Producers /\ p \in Producers \ (producers \ R)
      BY <1>1
    <3> HIDE DEF R
    <3> QED
      BY <1>1, <3>1, <3>2, SentAdd
  <2>5. /\ Sent(packets, sweep.read) \in Nat /\ Sent(packets, producers \ R) \in Nat
    <3>1. producers \ R \in SUBSET Producers
      BY <1>1
    <3> QED
      BY <1>1, <3>1, SentFinite
  <2>6. R \subseteq producers
    BY <1>1, <1>2, <2>1 DEF KeptCounts, CountedWasSent
  <2> HIDE DEF R
  <2>7. CountedWasSent' /\ SilenceIsReal'
    BY <1>1, <1>2, <2>1, <2>2, <2>3, <2>5, <2>6
    DEF KeptCounts, CountedWasSent, SilenceIsReal
  <2>8. SweepSeesSilence'
    BY <1>1, <1>2, <2>1, <2>2, <2>4, <2>5 DEF KeptCounts, SweepSeesSilence
  <2> QED
    BY <2>7, <2>8 DEF KeptCounts
<1> QED
  BY <1>1, <1>2, <1>3, <1>4, <1>5
  DEF ReaperInv, client, GoneHasNothing, AtRest, DeadSilent

\* A sweep ends: the peer goes, or its total is remembered if it is larger.
LEMMA ReapEndInv == ASSUME ReaperInv, ReapEnd PROVE ReaperInv'
<1>1. CASE sweep.any /\ ~Moved /\ silence > Inactivity
  BY <1>1, GoneInv DEF ReapEnd, ReaperInv, ReaperTypeOK
<1>2. CASE ~(sweep.any /\ ~Moved /\ silence > Inactivity)
  <2>1. /\ sweep' = NoSweep /\ sweep.running
        /\ lastSeen' = IF sweep.any /\ Moved THEN sweep.total ELSE lastSeen
        /\ silence' = IF sweep.any /\ Moved THEN 0 ELSE silence
        /\ UNCHANGED <<present, client, packets, joined, due, vanished, history, lost>>
    BY <1>2 DEF ReapEnd, SilenceOnMove
  <2>2. MaxTotal \in Nat /\ Cardinality({}) = 0
    BY Bounds, FS_EmptySet
  <2>3. ReaperTypeOK'
    <3>1. sweep.total \in 0..MaxTotal
      BY DEF ReaperInv, ReaperTypeOK
    <3>2. lastSeen' \in 0..MaxTotal /\ silence' \in 0..(Inactivity + 1)
      BY <2>1, <3>1, NoSweepTyped DEF ReaperInv, ReaperTypeOK
    <3> QED
      BY <2>1, <3>2, NoSweepTyped
      DEF ReaperInv, ReaperTypeOK, Sweeps, client, history
  <2>4. SweepBounded'
    BY <2>1, <2>2, ReaperAssumption DEF SweepBounded, NoSweep
  <2>5. present /\ ~lost => KeptCounts'
    <3> SUFFICES ASSUME present, ~lost PROVE KeptCounts'
      OBVIOUS
    <3>1. KeptCounts
      BY DEF ReaperInv
    <3>2. /\ packets \in Counts /\ producers \in SUBSET Producers
          /\ sweep.total \in Nat /\ quiet \in Nat
          /\ lastSeen \in Nat /\ ~sweep'.running
      BY <2>1, <2>2 DEF ReaperInv, ReaperTypeOK, Counts, NoSweep
    <3>3. /\ sweep.read \in SUBSET producers /\ sweep.total <= Sent(packets, sweep.read)
      BY <2>1, <3>1 DEF KeptCounts, CountedWasSent
    <3>4. /\ Sent(packets, sweep.read) <= Sent(packets, producers)
          /\ Sent(packets, sweep.read) \in Nat /\ Sent(packets, producers) \in Nat
      BY <3>2, <3>3, SentMore, SentFinite
    <3>5. UNCHANGED <<producers, packets, quiet, heard>>
      BY <2>1 DEF client, history
    <3>6. CASE sweep.any /\ Moved
      BY <2>1, <3>2, <3>3, <3>4, <3>5, <3>6
      DEF KeptCounts, CountedWasSent, SilenceIsReal, SweepSeesSilence
    <3>7. CASE ~(sweep.any /\ Moved)
      BY <2>1, <3>1, <3>2, <3>5, <3>7
      DEF KeptCounts, CountedWasSent, SilenceIsReal, SweepSeesSilence
    <3> QED
      BY <3>6, <3>7
  <2> QED
    BY <2>1, <2>3, <2>4, <2>5
    DEF ReaperInv, client, GoneHasNothing, AtRest, DeadSilent, NoSweep
<1> QED
  BY <1>1, <1>2

LEMMA ReaperStepInv == ReaperInv /\ [ReaperNext]_reaperVars => ReaperInv'
<1> SUFFICES ASSUME ReaperInv, [ReaperNext]_reaperVars PROVE ReaperInv'
  OBVIOUS
<1>1. present \in BOOLEAN /\ recv \in BOOLEAN /\ connected \in BOOLEAN /\ due \in BOOLEAN
        /\ vanished \in BOOLEAN
  BY DEF ReaperInv, ReaperTypeOK
<1>2. CASE Enter
  BY <1>2, EnterInv
<1>3. CASE Leave \/ ConsentLost
  BY <1>1, <1>3, GoneInv DEF Leave, ConsentLost
<1>4. CASE RecvTransport \/ IceConnected \/ Vanish
  BY <1>1, <1>4, AsideInv DEF RecvTransport, IceConnected, Vanish, client
<1>5. ASSUME NEW p \in Producers,
             Produce(p) \/ CloseProducer(p) \/ Packet(p) \/ ReadStats(p)
      PROVE  ReaperInv'
  BY <1>5, ProduceInv, UnpublishInv, PacketInv, ReadStatsInv DEF CloseProducer
<1>6. CASE SendReplaced
  BY <1>6, UnpublishInv DEF SendReplaced
<1>7. CASE Tick \/ ReapIdle \/ ReapBegin \/ ReapEnd
  BY <1>7, TickInv, ReapIdleInv, ReapBeginInv, ReapEndInv
<1>8. CASE UNCHANGED reaperVars
  <2>1. ReaperTypeOK'
    BY <1>8 DEF ReaperInv, ReaperTypeOK, reaperVars, client, counts, history
  <2>2. present /\ ~lost => KeptCounts'
    BY <1>8, CountsKept DEF ReaperInv, reaperVars, client, counts, history
  <2> QED
    BY <1>8, <2>1, <2>2 DEF ReaperInv, reaperVars, client, GoneHasNothing, AtRest,
                            SweepBounded, DeadSilent
<1> QED
  BY <1>2, <1>3, <1>4, <1>5, <1>6, <1>7, <1>8 DEF ReaperNext

LEMMA ReaperInvariant == ReaperSpec => []ReaperInv
<1>1. ReaperInit => ReaperInv
  BY ReaperInitInv
<1>2. ReaperInv /\ [ReaperNext]_reaperVars => ReaperInv'
  BY ReaperStepInv
<1> QED
  BY <1>1, <1>2, PTL DEF ReaperSpec

\* For any producers, packets and timeouts, the clocks and counts of the reaper
\* stay typed: no sweep adds up more than its producers can have sent.
THEOREM ReaperTypesHold == ReaperSpec => []ReaperTypeOK
<1>1. ReaperInv => ReaperTypeOK
  BY DEF ReaperInv
<1> QED
  BY <1>1, ReaperInvariant, PTL

\* A sender that keeps its producers is reaped only after a whole timeout
\* without a packet, however many producers it has and adds, and however packets
\* and the reads of their counts interleave.
THEOREM SteadySendersStay == ReaperSpec => SteadySenderStays
<1>1. ASSUME ReaperInv, ReapEnd, present, ~present', ~lost
      PROVE  quiet >= Inactivity
  <2>1. sweep.any /\ ~Moved /\ silence > Inactivity
    BY <1>1 DEF ReapEnd
  <2>2. SweepSeesSilence /\ sweep.running /\ producers \ sweep.read = {}
    BY <1>1 DEF ReaperInv, KeptCounts, ReapEnd
  <2>3. Sent(packets, producers \ sweep.read) = 0
    BY <2>2, SentNone
  <2>4. /\ sweep.total \in Nat /\ lastSeen \in Nat /\ silence \in Nat /\ quiet \in Nat
        /\ Inactivity \in Nat
    BY <1>1, Bounds, ReaperAssumption DEF ReaperInv, ReaperTypeOK
  <2>5. silence <= quiet + 1
    BY <2>1, <2>2, <2>3, <2>4 DEF Moved, SweepSeesSilence
  <2> QED
    BY <2>1, <2>4, <2>5
<1>2. ReaperInv /\ [ReaperNext]_reaperVars =>
        [(ReapEnd /\ present /\ ~present' /\ ~lost) => quiet >= Inactivity]_reaperVars
  BY <1>1
<1> QED
  BY <1>2, ReaperInvariant, PTL DEF ReaperSpec, SteadySenderStays
===============================================================================
