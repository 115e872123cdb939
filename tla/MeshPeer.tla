------------------------------ MODULE MeshPeer ------------------------------
(***************************************************************************)
(* How two test peers in mesh mode find and keep one connection            *)
(* (src/scripts/test-peers/test-peer-mesh.mjs, mesh-signal.mjs): presence  *)
(* beacons, one RTCPeerConnection per remote, the offer of the peer with   *)
(* the smaller pubkey, and signals bound to the session of a connection.   *)
(* Signals take any time and overtake each other; the handler of an offer  *)
(* is two steps, before and after the awaits of the answer, and a signal   *)
(* that waits for it counts as still on its way.                           *)
(*                                                                         *)
(* Beacons of a peer that runs arrive; browsers, which always offer, media *)
(* and the gossip about third peers are left out.  ICE candidates are of   *)
(* the kind of track infos: no SDP.                                        *)
(***************************************************************************)
EXTENDS Integers

CONSTANTS
  First, Second,  \* the pubkeys, the smaller first
  MaxSessions,    \* bound: connections that one peer makes
  MaxFaults,      \* bound: processes that end, connections that break
  None            \* no connection

ASSUME MeshAssumption ==
  First # Second /\ MaxSessions \in Nat \ {0} /\ MaxFaults \in Nat

Peers == {First, Second}
Other(x) == IF x = First THEN Second ELSE First
Sessions == 1..MaxSessions
NoSession == 0

VARIABLES
  life,     \* per peer: its process, 0 before it starts
  up,       \* the peers whose process runs
  roster,   \* per peer: the process of the newest beacon it has, or 0
  pc,       \* per peer: its connection to the other, or None
  made,     \* per peer: connections it has made, sessionId of the last
  busy,     \* per peer: connections whose handler is at an offer, and of which session
  net,      \* signals on their way
  leaves,   \* leave beacons on their way: receiver, process that left
  faults

local == <<pc, made, busy>>
vars == <<life, up, roster, local, net, leaves, faults>>

\* sig is signalingState, due the first offer, with the session whose
\* descriptions both are set.
Pc == [id : Sessions, polite : BOOLEAN, remote : {NoSession} \union Sessions,
       sig : {"stable", "have-local-offer", "have-remote-offer"},
       due : BOOLEAN, with : {NoSession} \union Sessions]
Signal == [to : Peers, kind : {"offer", "answer", "bye", "trackinfo"},
           sess : Sessions, target : {NoSession} \union Sessions]
Handler == [id : Sessions, from : Sessions]

Answering(x) == \E h \in busy[x] : h.id = pc[x].id

\* A type invariant; the newest connection is the one in use, only the first
\* peer offers, and only the connection whose handler answers is between
\* descriptions.
TypeOK ==
  /\ life \in [Peers -> Nat] /\ up \subseteq Peers
  /\ roster \in [Peers -> Nat]
  /\ pc \in [Peers -> {None} \union Pc]
  /\ made \in [Peers -> 0..MaxSessions]
  /\ busy \in [Peers -> SUBSET Handler]
  /\ net \subseteq Signal /\ leaves \subseteq Peers \X Nat
  /\ faults \in 0..MaxFaults
  /\ \A x \in Peers : pc[x] # None =>
       /\ x \in up /\ pc[x].id = made[x]
       /\ pc[x].sig = "have-local-offer" => x = First
       /\ pc[x].sig = "have-remote-offer" <=> Answering(x)

Init ==
  /\ life = [x \in Peers |-> 0] /\ up = {}
  /\ roster = [x \in Peers |-> 0]
  /\ pc = [x \in Peers |-> None] /\ made = [x \in Peers |-> 0]
  /\ busy = [x \in Peers |-> {}]
  /\ net = {} /\ leaves = {} /\ faults = 0

----------------------------------------------------------------------------
(* One connection *)

\* createPeer: whether it is polite depends on the roster of that moment.
Pristine(x, initiates) ==
  [id |-> made[x] + 1, polite |-> ~initiates, remote |-> NoSession,
   sig |-> "stable", due |-> initiates, with |-> NoSession]
FreshEager(x, seen) == Pristine(x, seen # 0)
Fresh(x, seen) == Pristine(x, x = First /\ seen # 0)
TrackInfo(x) ==
  [to |-> Other(x), kind |-> "trackinfo", sess |-> made[x] + 1, target |-> NoSession]
MayCreate(x) == x \in up /\ made[x] < MaxSessions

\* bindSession: the first SDP binds, afterwards other sessions are strangers,
\* unless they offer.
AnyTarget(P, m) == TRUE
OnTarget(P, m) == m.target \in {NoSession, P.id}
Knows(P, m) == P.remote \in {NoSession, m.sess}
Accepts(P, m) == OnTarget(P, m) /\ Knows(P, m)
Replaces(P, m) == OnTarget(P, m) /\ ~Knows(P, m) /\ m.kind = "offer"

\* What becomes of connection P when it accepts m.
Bound(P, m) ==
  IF m.kind = "trackinfo" THEN P
  ELSE IF m.kind = "bye" THEN None
  ELSE IF m.kind = "offer" /\ P.sig = "stable"
  THEN [P EXCEPT !.remote = m.sess, !.sig = "have-remote-offer"]
  ELSE IF m.kind = "answer" /\ P.sig = "have-local-offer"
  THEN [P EXCEPT !.remote = m.sess, !.sig = "stable", !.with = m.sess]
  ELSE [P EXCEPT !.remote = m.sess]
Starts(P, m) == IF m.kind = "offer" /\ P.sig = "stable" THEN {[id |-> P.id, from |-> m.sess]} ELSE {}

\* The handler of m on connection P, which x has or has just made.
Handle(x, P, m) ==
  IF Accepts(P, m)
  THEN /\ pc' = [pc EXCEPT ![x] = Bound(P, m)]
       /\ busy' = [busy EXCEPT ![x] = @ \union Starts(P, m)]
  ELSE /\ pc' = [pc EXCEPT ![x] = P]
       /\ UNCHANGED busy

Dropped == UNCHANGED <<pc, made, busy>>

\* handleSignal, once it is the turn of m; others is what else is on its way.
OnNewPc(x, m, others) ==
  /\ MayCreate(x)
  /\ made' = [made EXCEPT ![x] = @ + 1]
  /\ Handle(x, Fresh(x, roster[x]), m)
  /\ net' = others \union {TrackInfo(x)}

OnPc(x, m, others) ==
  IF Replaces(pc[x], m) THEN OnNewPc(x, m, others)
  ELSE Handle(x, pc[x], m) /\ net' = others /\ UNCHANGED made

\* A signal arrives and has its turn.  A bye finds nothing to close without a
\* connection, where any other signal makes one.
Receive(x, m) ==
  /\ x \in up /\ m \in net /\ m.to = x
  /\ \/ /\ pc[x] = None /\ m.kind = "bye"
        /\ net' = net \ {m} /\ Dropped
     \/ /\ pc[x] = None /\ m.kind # "bye"
        /\ OnNewPc(x, m, net \ {m})
     \/ /\ pc[x] # None /\ ~Answering(x)
        /\ OnPc(x, m, net \ {m})
  /\ UNCHANGED <<life, up, roster, leaves, faults>>

\* What waited for the handler of a connection that closed, with none to
\* follow it: only an offer goes on.
Forget(x, m) ==
  /\ m \in net /\ m.to = x /\ m.kind # "offer"
  /\ pc[x] = None /\ busy[x] # {}
  /\ net' = net \ {m}
  /\ UNCHANGED <<life, up, roster, local, leaves, faults>>

\* The rest of the handler of an offer: the answer goes out and becomes the
\* local description.  On a connection that was closed meanwhile it may fail.
Answer(x, h) ==
  LET current == pc[x] # None /\ pc[x].id = h.id
      answer == [to |-> Other(x), kind |-> "answer", sess |-> h.id, target |-> h.from]
  IN
  /\ h \in busy[x]
  /\ busy' = [busy EXCEPT ![x] = @ \ {h}]
  /\ \/ net' = net \union {answer}
     \/ ~current /\ UNCHANGED net
  /\ pc' = IF current THEN [pc EXCEPT ![x].sig = "stable", ![x].with = h.from] ELSE pc
  /\ UNCHANGED <<life, up, roster, made, leaves, faults>>

\* makeOffer "initial"; nothing repeats it.
MakeOffer(x) ==
  /\ pc[x] # None /\ pc[x].due
  /\ pc' = [pc EXCEPT ![x].due = FALSE,
                      ![x].sig = IF @ = "stable" THEN "have-local-offer" ELSE @]
  /\ net' = IF pc[x].sig = "stable"
            THEN net \union {[to |-> Other(x), kind |-> "offer", sess |-> pc[x].id,
                              target |-> pc[x].remote]}
            ELSE net
  /\ UNCHANGED <<life, up, roster, made, busy, leaves, faults>>

----------------------------------------------------------------------------
(* Presence *)

Create(x, seen) ==
  IF pc[x] # None THEN UNCHANGED <<pc, made, net>>
  ELSE /\ MayCreate(x)
       /\ pc' = [pc EXCEPT ![x] = Fresh(x, seen)]
       /\ made' = [made EXCEPT ![x] = @ + 1]
       /\ net' = net \union {TrackInfo(x)}

TearDown(x) == pc' = [pc EXCEPT ![x] = None]

HearBeacon(x) ==
  /\ Peers \subseteq up
  /\ roster' = [roster EXCEPT ![x] = life[Other(x)]]
  /\ Create(x, life[Other(x)])
  /\ UNCHANGED <<life, up, busy, leaves, faults>>

\* A leave beacon counts unless a newer one of the peer is known.
HearLeave(x, n) ==
  /\ x \in up /\ <<x, n>> \in leaves
  /\ leaves' = leaves \ {<<x, n>>}
  /\ IF roster[x] <= n THEN roster' = [roster EXCEPT ![x] = 0] /\ TearDown(x)
     ELSE UNCHANGED <<roster, pc>>
  /\ UNCHANGED <<life, up, made, busy, net, faults>>

\* pruneRoster: the other was silent for PRESENCE_TTL_SECONDS.  A connection
\* that still counts as connected is left to LoseRemote.
Prune(x) ==
  /\ x \in up /\ Other(x) \notin up /\ roster[x] # 0
  /\ roster' = [roster EXCEPT ![x] = 0]
  /\ \/ TearDown(x)
     \/ pc[x] # None /\ pc[x].with # NoSession /\ UNCHANGED pc
  /\ UNCHANGED <<life, up, made, busy, net, leaves, faults>>

----------------------------------------------------------------------------
(* Connections and processes that end *)

\* Both ends have the descriptions of each other.
Joined(x) ==
  LET y == Other(x) IN
  /\ pc[x] # None /\ pc[y] # None
  /\ pc[x].with = pc[y].id /\ pc[y].with = pc[x].id

\* No other end: ICE fails, or no ping for DEAD_PEER_TIMEOUT_MS.
Bereft(x) ==
  /\ pc[x] # None /\ pc[x].with # NoSession
  /\ LET P == pc[Other(x)] IN P # None => P.id # pc[x].with
BereftAnswerer(x) == Bereft(x) /\ pc[x].polite
NoticesLoss(x) == Bereft(x)

LoseRemote(x) ==
  /\ NoticesLoss(x)
  /\ TearDown(x)
  /\ UNCHANGED <<life, up, roster, made, busy, net, leaves, faults>>

Fault == faults < MaxFaults /\ faults' = faults + 1

\* The same, with the other end still there or still to come.
Break(x) ==
  /\ Fault
  /\ pc[x] # None /\ pc[x].with # NoSession
  /\ TearDown(x)
  /\ UNCHANGED <<life, up, roster, made, busy, net, leaves>>

Ended(x) ==
  /\ Fault
  /\ x \in up
  /\ up' = up \ {x}
  /\ roster' = [roster EXCEPT ![x] = 0]
  /\ TearDown(x)
  /\ busy' = [busy EXCEPT ![x] = {}]
  /\ UNCHANGED <<life, made>>

\* cleanup(): a bye for the connection and a leave beacon.
Leave(x) ==
  /\ Ended(x)
  /\ net' = IF pc[x] = None THEN net
            ELSE net \union {[to |-> Other(x), kind |-> "bye", sess |-> pc[x].id,
                              target |-> pc[x].remote]}
  /\ leaves' = leaves \union {<<Other(x), life[x]>>}

Kill(x) == Ended(x) /\ UNCHANGED <<net, leaves>>

\* What was sent to a process that did not run comes late, or it is lost.
Start(x) ==
  /\ x \notin up
  /\ up' = up \union {x}
  /\ life' = [life EXCEPT ![x] = @ + 1]
  /\ net' \in {net, {m \in net : m.to # x}}
  /\ UNCHANGED <<roster, local, leaves, faults>>

----------------------------------------------------------------------------
Next ==
  \E x \in Peers :
    \/ \E m \in net : Receive(x, m) \/ Forget(x, m)
    \/ \E h \in busy[x] : Answer(x, h)
    \/ MakeOffer(x)
    \/ HearBeacon(x) \/ Prune(x)
    \/ \E n \in 1..life[Other(x)] : HearLeave(x, n)
    \/ LoseRemote(x) \/ Break(x)
    \/ Leave(x) \/ Kill(x) \/ Start(x)

Fairness ==
  \A x \in Peers :
    /\ WF_vars(\E m \in net : Receive(x, m))
    /\ WF_vars(\E h \in busy[x] : Answer(x, h))
    /\ WF_vars(MakeOffer(x))
    /\ WF_vars(HearBeacon(x)) /\ WF_vars(LoseRemote(x))

Spec == Init /\ [][Next]_vars /\ Fairness

----------------------------------------------------------------------------
(* Properties *)

\* Both ends mean the same two connections: an answer for a connection that
\* its peer replaced is never taken for one to the connection that followed.
PairsAgree ==
  \A x \in Peers :
    LET P == pc[x]  Q == pc[Other(x)] IN
    (P # None /\ Q # None /\ P.with = Q.id) => Q.remote \in {NoSession, P.id}

\* The two ways the code has to wait for ever: the smaller pubkey made its
\* connection before it knew the other for a test peer and leaves the offer to
\* it, or its offer or the answer went down with a connection or a process.
Unanswered ==
  LET P == pc[First] IN
  /\ P # None /\ P.sig = "have-local-offer"
  /\ \A m \in net :
       ~(m.kind = "offer" /\ m.sess = P.id) /\ ~(m.kind = "answer" /\ m.target = P.id)
  /\ \A h \in busy[Second] : h.from # P.id
BothPolite == pc[First] # None /\ pc[First].polite

\* Otherwise two peers that run find each other, and again after one of them
\* rebuilt its connection or started anew.  (Nothing is said of a run that made
\* the last connection the model allows.)
Spent == \E x \in Peers : made[x] = MaxSessions
PeersMeet == []<>(\/ Joined(First) \/ Unanswered \/ BothPolite
                  \/ up # Peers \/ Spent)

\* What PeersMeet rests on: with no offer and no answer on its way, none being
\* made and none due, two connections are one, or the end of one is noticed, or
\* the peers wait in one of the two ways above.
NobodyStranded ==
  (/\ \A x \in Peers : pc[x] # None /\ busy[x] = {} /\ ~pc[x].due
   /\ \A m \in net : m.kind \notin {"offer", "answer"})
  => Joined(First) \/ Bereft(First) \/ Unanswered \/ BothPolite
=============================================================================
