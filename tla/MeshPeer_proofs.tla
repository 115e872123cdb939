---------------------------- MODULE MeshPeer_proofs ----------------------------
(* Types and the agreement of connections of MeshPeer, and what a pair can    *)
(* wait for, for any number of sessions and faults.                           *)
EXTENDS MeshPeer, TLAPS

----------------------------------------------------------------------------
(* The invariant *)

\* Connection i of the second peer answers session s of the first: its handler
\* is at the offer, the answer is on its way, or a connection remembers it.
Linked(i, s) ==
  \/ [id |-> i, from |-> s] \in busy[Second]
  \/ [to |-> First, kind |-> "answer", sess |-> i, target |-> s] \in net
  \/ pc[Second] # None /\ pc[Second].id = i /\ pc[Second].remote = s
  \/ pc[First] # None /\ pc[First].id = s /\ pc[First].remote = i

Offered(s) == \E m \in net : m.kind = "offer" /\ m.sess = s

\* Only the first peer offers, only the second one answers.
Roles ==
  /\ busy[First] = {}
  /\ \A m \in net : /\ m.kind = "offer" => m.to = Second
                    /\ m.kind = "answer" => m.to = First /\ m.target # NoSession
  /\ \A x \in Peers : pc[x] # None /\ pc[x].due => x = First

\* Nothing is about a connection that is still to be made.
Numbered ==
  /\ \A s \in Sessions : Offered(s) => s <= made[First]
  /\ \A i, s \in Sessions : Linked(i, s) => i <= made[Second] /\ s <= made[First]

\* A session is offered once, and then answered by one connection, which has
\* no other remote.
Matching ==
  /\ \A s \in Sessions :
       pc[First] # None /\ pc[First].due /\ pc[First].id = s =>
         ~Offered(s) /\ \A i \in Sessions : ~Linked(i, s)
  /\ \A m, n \in net : m.kind = "offer" /\ n.kind = "offer" /\ m.sess = n.sess => m = n
  /\ \A i, s \in Sessions : Offered(s) => ~Linked(i, s)
  /\ \A i, j, s \in Sessions : Linked(i, s) /\ Linked(j, s) => i = j
  /\ \A i, s \in Sessions :
       Linked(i, s) /\ pc[Second] # None /\ pc[Second].id = i => pc[Second].remote = s
  /\ \A g, h \in busy[Second] : g.id = h.id => g = h
  /\ \A x \in Peers : pc[x] # None /\ pc[x].with # NoSession => pc[x].remote = pc[x].with

\* The part of the types that presence and processes do not touch.
ConnectionsTyped ==
  /\ pc \in [Peers -> {None} \union Pc]
  /\ made \in [Peers -> 0..MaxSessions]
  /\ busy \in [Peers -> SUBSET Handler]
  /\ net \subseteq Signal
  /\ \A x \in Peers : pc[x] # None =>
       /\ x \in up /\ pc[x].id = made[x]
       /\ pc[x].sig = "have-local-offer" => x = First
       /\ pc[x].sig = "have-remote-offer" <=> Answering(x)

PresenceTyped ==
  /\ life \in [Peers -> Nat] /\ up \subseteq Peers
  /\ roster \in [Peers -> Nat]
  /\ leaves \subseteq Peers \X Nat
  /\ faults \in 0..MaxFaults

Connections == ConnectionsTyped /\ Roles /\ Numbered /\ Matching
Inv == Connections /\ PresenceTyped

LEMMA Two ==
  /\ First \in Peers /\ Second \in Peers /\ First # Second
  /\ Other(First) = Second /\ Other(Second) = First
  /\ \A x \in Peers : x = First \/ x = Second
  /\ MaxSessions \in Nat \ {0} /\ MaxFaults \in Nat
  /\ Sessions = 1..MaxSessions /\ NoSession = 0
BY MeshAssumption DEF Peers, Other, Sessions, NoSession, MeshAssumption

LEMMA InitInv == Init => Inv
<1> SUFFICES ASSUME Init PROVE Inv
  OBVIOUS
<1>1. ConnectionsTyped
  BY Two DEF Init, ConnectionsTyped
<1>2. \A i, s \in Sessions : ~Linked(i, s) /\ ~Offered(s)
  BY Two DEF Init, Linked, Offered
<1>3. Roles /\ Numbered /\ Matching
  BY <1>2, Two DEF Init, Roles, Numbered, Matching
<1>4. PresenceTyped
  BY Two DEF Init, PresenceTyped
<1> QED
  BY <1>1, <1>3, <1>4 DEF Inv, Connections

----------------------------------------------------------------------------
(* What can become of connections *)

\* Connections, handlers and signals are lost; a bye may go out.
LEMMA LosingKeeps ==
  ASSUME Connections, NEW x \in Peers,
         pc' = pc \/ pc' = [pc EXCEPT ![x] = None],
         busy' = busy \/ (busy' = [busy EXCEPT ![x] = {}] /\ pc' = [pc EXCEPT ![x] = None]),
         made' = made,
         up \subseteq up' \/ (pc' = [pc EXCEPT ![x] = None] /\ up' = up \ {x}),
         \A m \in net' : m \in net \/ (m \in Signal /\ m.kind \in {"bye", "trackinfo"})
  PROVE  Connections'
<1>0. ConnectionsTyped /\ Roles /\ Numbered /\ Matching
  BY DEF Connections
<1>1. \A y \in Peers : pc'[y] = pc[y] \/ (y = x /\ pc'[y] = None)
  BY <1>0 DEF ConnectionsTyped
<1>2. \A y \in Peers : busy'[y] \subseteq busy[y] /\ (busy'[y] = busy[y] \/ pc'[y] = None)
  BY <1>0 DEF ConnectionsTyped
<1>3. ConnectionsTyped'
  <2>1. pc' \in [Peers -> {None} \union Pc] /\ busy' \in [Peers -> SUBSET Handler]
    BY <1>0 DEF ConnectionsTyped
  <2>2. net' \subseteq Signal
    BY <1>0 DEF ConnectionsTyped
  <2>3. ASSUME NEW y \in Peers, pc'[y] # None
        PROVE  /\ y \in up' /\ pc'[y] = pc[y] /\ busy'[y] = busy[y] /\ pc[y] # None
    BY <1>0, <1>1, <1>2, <2>3 DEF ConnectionsTyped
  <2> QED
    BY <1>0, <2>1, <2>2, <2>3 DEF ConnectionsTyped, Answering
<1>4. \A i, s \in Sessions : Linked(i, s)' => Linked(i, s)
  BY <1>1, <1>2, Two DEF Linked
<1>5. \A m \in net' : m.kind \in {"offer", "answer"} => m \in net
  OBVIOUS
<1>6. \A s \in Sessions : Offered(s)' => Offered(s)
  BY <1>5 DEF Offered
<1>7. Roles'
  BY <1>0, <1>1, <1>2, <1>5, Two DEF Roles
<1>8. Numbered'
  BY <1>0, <1>4, <1>6 DEF Numbered
<1>9. Matching'
  <2>1. pc'[First] # None => pc'[First] = pc[First] /\ pc[First] # None
    BY <1>1, Two
  <2>2. pc'[Second] # None => pc'[Second] = pc[Second] /\ pc[Second] # None
    BY <1>1, Two
  <2>3. pc[First] # None => pc[First].id \in Sessions
    BY <1>0, Two DEF ConnectionsTyped, Pc
  <2> QED
    BY <1>0, <1>1, <1>2, <1>4, <1>5, <1>6, <2>1, <2>2, <2>3, Two DEF Matching
<1> QED
  BY <1>3, <1>7, <1>8, <1>9 DEF Connections

\* A new connection, which nothing is about yet.
LEMMA CreatingKeeps ==
  ASSUME Connections, NEW x \in Peers, MayCreate(x), NEW seen, up' = up,
         pc' = [pc EXCEPT ![x] = Fresh(x, seen)], made' = [made EXCEPT ![x] = @ + 1],
         busy' = busy, \A m \in net' : m \in net \/ m = TrackInfo(x)
  PROVE  Connections'
<1>0. ConnectionsTyped /\ Roles /\ Numbered /\ Matching
  BY DEF Connections
<1> DEFINE n == made[x] + 1
<1>1. /\ x \in up /\ n \in Sessions /\ made[x] \in Nat
      /\ made' \in [Peers -> 0..MaxSessions] /\ made'[x] = n
      /\ \A y \in Peers : made[y] \in Nat /\ made[y] <= made'[y]
  BY <1>0, Two DEF MayCreate, ConnectionsTyped
<1>2. /\ pc'[x] = Fresh(x, seen) /\ \A y \in Peers : y # x => pc'[y] = pc[y] /\ made'[y] = made[y]
  BY <1>0 DEF ConnectionsTyped
<1>3. /\ Fresh(x, seen) \in Pc /\ Fresh(x, seen).id = n /\ Fresh(x, seen).remote = NoSession
      /\ Fresh(x, seen).sig = "stable" /\ Fresh(x, seen).with = NoSession
      /\ Fresh(x, seen).due => x = First
  BY <1>1 DEF Fresh, Pristine, Pc
<1>4. TrackInfo(x) \in Signal /\ TrackInfo(x).kind = "trackinfo"
  BY <1>1, Two DEF TrackInfo, Signal, Other, Peers
<1>5. /\ \A m \in net' : m.kind \in {"offer", "answer"} => m \in net
      /\ net' \subseteq Signal
  BY <1>0, <1>4 DEF ConnectionsTyped
<1>6. \A s \in Sessions : Offered(s)' => Offered(s)
  BY <1>5 DEF Offered
<1>7. \A i, s \in Sessions : Linked(i, s)' => Linked(i, s)
  <2>1. ASSUME NEW i \in Sessions, NEW s \in Sessions, Linked(i, s)' PROVE Linked(i, s)
    <3>1. i # NoSession /\ s # NoSession
      BY Two
    <3> HIDE DEF n
    <3> QED
      BY <1>2, <1>3, <1>5, <2>1, <3>1, Two DEF Linked
  <2> QED
    BY <2>1
<1>8. \A h \in busy[x] : h.id # n
  <2>1. CASE x = First
    BY <1>0, <2>1 DEF Roles
  <2>2. CASE x = Second
    <3>1. ASSUME NEW h \in busy[Second] PROVE h.id <= made[Second] /\ h.id \in Nat
      <4>1. h \in Handler
        BY <1>0, <3>1, Two DEF ConnectionsTyped
      <4>2. h = [id |-> h.id, from |-> h.from] /\ h.id \in Sessions /\ h.from \in Sessions
        BY <4>1 DEF Handler
      <4>3. Linked(h.id, h.from)
        BY <4>2 DEF Linked
      <4> QED
        BY <1>0, <4>2, <4>3, Two DEF Numbered
    <3> QED
      BY <1>1, <2>2, <3>1
  <2> QED
    BY <2>1, <2>2, Two
<1>9. ConnectionsTyped'
  <2>1. pc' \in [Peers -> {None} \union Pc]
    BY <1>0, <1>3 DEF ConnectionsTyped
  <2>2. ASSUME NEW y \in Peers, pc'[y] # None
        PROVE  /\ y \in up' /\ pc'[y].id = made'[y]
               /\ pc'[y].sig = "have-local-offer" => y = First
               /\ pc'[y].sig = "have-remote-offer" <=> Answering(y)'
    <3>1. CASE y = x
      BY <1>1, <1>2, <1>3, <1>8, <3>1 DEF Answering
    <3>2. CASE y # x
      BY <1>0, <1>2, <2>2, <3>2 DEF ConnectionsTyped, Answering
    <3> QED
      BY <3>1, <3>2
  <2> QED
    BY <1>0, <1>1, <1>5, <2>1, <2>2 DEF ConnectionsTyped
<1>10. Roles'
  BY <1>0, <1>2, <1>3, <1>5 DEF Roles
<1>11. Numbered'
  BY <1>0, <1>1, <1>6, <1>7, Two DEF Numbered
<1>12. Matching'
  <2>1. ASSUME NEW s \in Sessions, pc'[First] # None, pc'[First].due, pc'[First].id = s
        PROVE  ~Offered(s) /\ \A i \in Sessions : ~Linked(i, s)
    <3>1. CASE x = First
      <4>1. s = n /\ n = made[First] + 1
        BY <1>2, <1>3, <2>1, <3>1
      <4> HIDE DEF n
      <4> QED
        BY <1>0, <1>1, <4>1, Two DEF Numbered
    <3>2. CASE x # First
      <4>1. pc'[First] = pc[First]
        BY <1>2, <3>2, Two
      <4> QED
        BY <1>0, <2>1, <4>1 DEF Matching
    <3> QED
      BY <3>1, <3>2
  <2>2. \A i, s \in Sessions :
          Linked(i, s)' /\ pc'[Second] # None /\ pc'[Second].id = i => pc'[Second].remote = s
    <3>1. CASE x = Second
      <4>1. pc'[Second].id = n /\ n = made[Second] + 1
        BY <1>2, <1>3, <3>1
      <4> HIDE DEF n
      <4>2. \A s \in Sessions : ~Linked(n, s)
        BY <1>0, <1>1, <4>1, Two DEF Numbered
      <4> QED
        BY <1>1, <1>7, <4>1, <4>2
    <3>2. CASE x # Second
      <4>1. pc'[Second] = pc[Second]
        BY <1>2, <3>2, Two
      <4> QED
        BY <1>0, <1>7, <4>1 DEF Matching
    <3> QED
      BY <3>1, <3>2
  <2>3. \A y \in Peers : pc'[y] # None /\ pc'[y].with # NoSession => pc'[y].remote = pc'[y].with
    BY <1>0, <1>2, <1>3 DEF Matching
  <2>4. \A m, k \in net' : m.kind = "offer" /\ k.kind = "offer" /\ m.sess = k.sess => m = k
    BY <1>0, <1>5 DEF Matching
  <2>5. /\ \A i, s \in Sessions : Offered(s)' => ~Linked(i, s)'
        /\ \A i, j, s \in Sessions : Linked(i, s)' /\ Linked(j, s)' => i = j
    BY <1>0, <1>6, <1>7 DEF Matching
  <2>6. \A g, h \in busy'[Second] : g.id = h.id => g = h
    BY <1>0 DEF Matching
  <2> QED
    BY <1>6, <1>7, <2>1, <2>2, <2>3, <2>4, <2>5, <2>6 DEF Matching
<1> QED
  BY <1>9, <1>10, <1>11, <1>12 DEF Connections

\* The first peer takes an answer for the session it offered.
LEMMA AnswerTakenKeeps ==
  ASSUME Connections, NEW m \in net, m.kind = "answer", m.to = First, pc[First] # None,
         Accepts(pc[First], m), UNCHANGED <<made, busy, up>>, net' = net \ {m},
         pc' = [pc EXCEPT ![First] = Bound(pc[First], m)]
  PROVE  Connections'
<1>0. ConnectionsTyped /\ Roles /\ Numbered /\ Matching
  BY DEF Connections
<1> DEFINE P == pc[First]
           Q == Bound(P, m)
<1>1. P \in Pc /\ m \in Signal /\ pc'[First] = Q /\ pc'[Second] = pc[Second]
  BY <1>0, Two DEF ConnectionsTyped
<1>2. m.target = P.id /\ P.remote \in {NoSession, m.sess} /\ m.sess \in Sessions
  BY <1>0, <1>1 DEF Accepts, OnTarget, Knows, Roles, Signal
<1>3. m = [to |-> First, kind |-> "answer", sess |-> m.sess, target |-> P.id]
  BY <1>1, <1>2 DEF Signal
<1>4. Linked(m.sess, P.id)
  BY <1>3 DEF Linked
<1>5. /\ Q \in Pc /\ Q.id = P.id /\ Q.due = P.due /\ Q.remote = m.sess
      /\ \/ Q.sig = P.sig /\ Q.with = P.with
         \/ Q.sig = "stable" /\ P.sig = "have-local-offer" /\ Q.with = m.sess
  BY <1>1, <1>2 DEF Bound, Pc
<1> HIDE DEF P, Q
<1>6. \A i, s \in Sessions : Linked(i, s)' => Linked(i, s)
  <2>1. ASSUME NEW i \in Sessions, NEW s \in Sessions, Linked(i, s)' PROVE Linked(i, s)
    <3>1. CASE pc'[First] # None /\ pc'[First].id = s /\ pc'[First].remote = i
      BY <1>1, <1>4, <1>5, <3>1
    <3>2. CASE ~(pc'[First] # None /\ pc'[First].id = s /\ pc'[First].remote = i)
      BY <1>1, <2>1, <3>2 DEF Linked
    <3> QED
      BY <3>1, <3>2
  <2> QED
    BY <2>1
<1>7. \A s \in Sessions : Offered(s)' => Offered(s)
  BY DEF Offered
<1>8. ConnectionsTyped'
  <2>1. pc' \in [Peers -> {None} \union Pc] /\ net' \subseteq Signal
    BY <1>0, <1>5 DEF ConnectionsTyped, Q, P
  <2>2. P.id = made[First] /\ First \in up /\ P.sig # "have-remote-offer"
    BY <1>0, Two DEF ConnectionsTyped, Roles, Answering, P
  <2>3. pc'[First].id = made[First] /\ pc'[First].sig # "have-remote-offer" /\ ~Answering(First)'
    BY <1>0, <1>1, <1>5, <2>2 DEF Roles, Answering
  <2>4. Answering(Second)' = Answering(Second)
    BY <1>1 DEF Answering
  <2> QED
    BY <1>0, <1>1, <2>1, <2>2, <2>3, <2>4, Two DEF ConnectionsTyped
<1>9. Roles'
  BY <1>0, <1>1, <1>5, Two DEF Roles, P
<1>10. Numbered'
  BY <1>0, <1>6, <1>7 DEF Numbered
<1>11. Matching'
  <2>1. ~P.due
    <3>1. P.id \in Sessions
      BY <1>1 DEF Pc
    <3>2. P.due => ~Linked(m.sess, P.id)
      BY <1>0, <1>2, <3>1 DEF Matching, P
    <3> QED
      BY <1>4, <3>2
  <2>2. \A y \in Peers : pc'[y] # None /\ pc'[y].with # NoSession => pc'[y].remote = pc'[y].with
    <3>1. Q.with # NoSession => Q.remote = Q.with
      BY <1>0, <1>2, <1>5, Two DEF Matching, P
    <3> QED
      BY <1>0, <1>1, <3>1, Two DEF Matching
  <2>3. ~pc'[First].due
    BY <1>1, <1>5, <2>1
  <2>4. \A i, s \in Sessions :
          Linked(i, s)' /\ pc'[Second] # None /\ pc'[Second].id = i => pc'[Second].remote = s
    BY <1>0, <1>1, <1>6 DEF Matching
  <2>5. \A n, k \in net' : n.kind = "offer" /\ k.kind = "offer" /\ n.sess = k.sess => n = k
    BY <1>0 DEF Matching
  <2>6. /\ \A i, s \in Sessions : Offered(s)' => ~Linked(i, s)'
        /\ \A i, j, s \in Sessions : Linked(i, s)' /\ Linked(j, s)' => i = j
    BY <1>0, <1>6, <1>7 DEF Matching
  <2>7. \A g, h \in busy'[Second] : g.id = h.id => g = h
    BY <1>0 DEF Matching
  <2> QED
    BY <2>2, <2>3, <2>4, <2>5, <2>6, <2>7 DEF Matching
<1> QED
  BY <1>8, <1>9, <1>10, <1>11 DEF Connections

\* The second peer takes an offer on connection P, its own or a new one.
LEMMA OfferTakenKeeps ==
  ASSUME Connections, NEW m \in net, m.kind = "offer",
         NEW P \in Pc, P.remote \in {NoSession, m.sess},
         P.with # NoSession => P.remote = P.with,
         P.due => FALSE,
         \A s \in Sessions : Linked(P.id, s) => P.remote = s,
         \A h \in busy[Second] : h.id # P.id,
         Second \in up, up' = up,
         made' \in [Peers -> 0..MaxSessions], made'[Second] = P.id,
         \A y \in Peers : made[y] <= made'[y],
         made'[First] = made[First],
         pc' = [pc EXCEPT ![Second] = [P EXCEPT !.remote = m.sess, !.sig = "have-remote-offer"]],
         busy' = [busy EXCEPT ![Second] = @ \union {[id |-> P.id, from |-> m.sess]}],
         \A n \in net' : \/ n \in net /\ n # m
                         \/ n \in Signal /\ n.kind = "trackinfo"
  PROVE  Connections'
<1>0. ConnectionsTyped /\ Roles /\ Numbered /\ Matching
  BY DEF Connections
<1> DEFINE Q == [P EXCEPT !.remote = m.sess, !.sig = "have-remote-offer"]
           h == [id |-> P.id, from |-> m.sess]
<1>1. /\ m \in Signal /\ m.sess \in Sessions /\ P.id \in Sessions
      /\ Offered(m.sess) /\ m.sess <= made[First]
  <2>1. m \in Signal /\ m.sess \in Sessions
    BY <1>0 DEF ConnectionsTyped, Signal
  <2> QED
    BY <1>0, <2>1 DEF Offered, Numbered, Pc
<1>2. /\ Q \in Pc /\ Q.id = P.id /\ Q.remote = m.sess /\ Q.sig = "have-remote-offer"
      /\ Q.due = P.due /\ Q.with = P.with
  BY <1>1 DEF Pc
<1>3. pc'[First] = pc[First] /\ pc'[Second] = Q
  BY <1>0, Two DEF ConnectionsTyped
<1>4. /\ h \in Handler /\ h.id = P.id /\ h.from = m.sess
      /\ busy'[First] = busy[First] /\ busy'[Second] = busy[Second] \union {h}
  BY <1>0, <1>1, Two DEF ConnectionsTyped, Handler
<1> HIDE DEF Q, h
<1>5. \A n \in net' : n.kind \in {"offer", "answer"} => n \in net /\ n # m
  OBVIOUS
<1>6. \A s \in Sessions : Offered(s)' => Offered(s) /\ s # m.sess
  BY <1>0, <1>5 DEF Offered, Matching
<1>7. \A i \in Sessions : ~Linked(i, m.sess)
  BY <1>0, <1>1 DEF Matching
<1>8. \A i, s \in Sessions : Linked(i, s)' => Linked(i, s) \/ (i = P.id /\ s = m.sess)
  <2>1. ASSUME NEW i \in Sessions, NEW s \in Sessions, Linked(i, s)',
               ~(i = P.id /\ s = m.sess)
        PROVE  Linked(i, s)
    <3>1. [id |-> i, from |-> s] # h
      BY <2>1, <1>4
    <3>2. [to |-> First, kind |-> "answer", sess |-> i, target |-> s] \in net'
            => [to |-> First, kind |-> "answer", sess |-> i, target |-> s] \in net
      BY <1>5
    <3> QED
      BY <2>1, <3>1, <3>2, <1>2, <1>3, <1>4 DEF Linked
  <2> QED
    BY <2>1
<1>9. \A s \in Sessions : ~Linked(P.id, s)
  BY <1>1, <1>7, Two
<1>10. ConnectionsTyped'
  <2>1. pc' \in [Peers -> {None} \union Pc]
    BY <1>0, <1>2 DEF ConnectionsTyped, Q
  <2>2. busy' \in [Peers -> SUBSET Handler]
    BY <1>0, <1>4 DEF ConnectionsTyped, h
  <2>3. net' \subseteq Signal
    BY <1>0 DEF ConnectionsTyped
  <2>4. Answering(Second)' /\ (Answering(First)' <=> Answering(First))
    BY <1>2, <1>3, <1>4 DEF Answering
  <2> QED
    BY <1>0, <1>2, <1>3, <2>1, <2>2, <2>3, <2>4, Two DEF ConnectionsTyped
<1>11. Roles'
  BY <1>0, <1>2, <1>3, <1>4, <1>5, Two DEF Roles
<1>12. Numbered'
  <2>1. \A y \in Peers : made[y] \in Nat /\ made'[y] \in Nat
    BY <1>0, Two DEF ConnectionsTyped
  <2>2. \A s \in Sessions : Offered(s)' => s <= made'[First]
    BY <1>0, <1>6 DEF Numbered
  <2>3. \A i, s \in Sessions : Linked(i, s)' => i <= made'[Second] /\ s <= made'[First]
    BY <1>0, <1>1, <1>8, <2>1, Two DEF Numbered
  <2> QED
    BY <2>2, <2>3 DEF Numbered
<1>13. Matching'
  <2>1. \A s \in Sessions :
          pc'[First] # None /\ pc'[First].due /\ pc'[First].id = s =>
            ~Offered(s)' /\ \A i \in Sessions : ~Linked(i, s)'
    BY <1>0, <1>1, <1>3, <1>6, <1>8 DEF Matching
  <2>2. \A y \in Peers : pc'[y] # None /\ pc'[y].with # NoSession => pc'[y].remote = pc'[y].with
    <3>1. Q.with # NoSession => Q.remote = Q.with
      BY <1>2
    <3> QED
      BY <1>0, <1>3, <3>1, Two DEF Matching
  <2>3. \A n, k \in net' : n.kind = "offer" /\ k.kind = "offer" /\ n.sess = k.sess => n = k
    BY <1>0, <1>5 DEF Matching
  <2>4. \A i, s \in Sessions : Offered(s)' => ~Linked(i, s)'
    BY <1>0, <1>6, <1>8 DEF Matching
  <2>5. \A i, j, s \in Sessions : Linked(i, s)' /\ Linked(j, s)' => i = j
    BY <1>0, <1>7, <1>8 DEF Matching
  <2>6. \A i, s \in Sessions :
          Linked(i, s)' /\ pc'[Second] # None /\ pc'[Second].id = i => pc'[Second].remote = s
    BY <1>2, <1>3, <1>8, <1>9
  <2>7. \A g, k \in busy'[Second] : g.id = k.id => g = k
    BY <1>0, <1>4 DEF Matching
  <2> QED
    BY <2>1, <2>2, <2>3, <2>4, <2>5, <2>6, <2>7 DEF Matching
<1> QED
  BY <1>10, <1>11, <1>12, <1>13 DEF Connections

\* The answer goes out, and perhaps becomes the local description.
LEMMA AnswerKeeps ==
  ASSUME Connections, NEW x \in Peers, NEW h \in busy[x], Answer(x, h)
  PROVE  Connections'
<1>0. ConnectionsTyped /\ Roles /\ Numbered /\ Matching
  BY DEF Connections
<1>1. x = Second
  BY <1>0, Two DEF Roles
<1> DEFINE P == pc[Second]
           current == P # None /\ P.id = h.id
           answer == [to |-> First, kind |-> "answer", sess |-> h.id, target |-> h.from]
<1>2. /\ busy' = [busy EXCEPT ![Second] = @ \ {h}] /\ made' = made /\ up' = up
      /\ net' = net \union {answer} \/ net' = net
      /\ pc' = IF current THEN [pc EXCEPT ![Second].sig = "stable", ![Second].with = h.from]
               ELSE pc
  BY <1>1, Two DEF Answer, local
<1>3. /\ h \in Handler /\ h.id \in Sessions /\ h.from \in Sessions
      /\ h = [id |-> h.id, from |-> h.from]
  BY <1>0, <1>1, Two DEF ConnectionsTyped, Handler
<1>4. Linked(h.id, h.from)
  BY <1>1, <1>3 DEF Linked
<1>5. answer \in Signal /\ answer.kind = "answer" /\ answer.to = First /\ answer.target # NoSession
  BY <1>3, Two DEF Signal
<1>6. busy'[First] = busy[First] /\ busy'[Second] = busy[Second] \ {h}
  BY <1>0, <1>2, Two DEF ConnectionsTyped
<1>7. pc'[First] = pc[First]
  BY <1>0, <1>2, Two DEF ConnectionsTyped
<1>8. ~current => pc'[Second] = P
  BY <1>2
<1>9. current => /\ pc'[Second] \in Pc /\ pc'[Second].id = h.id /\ pc'[Second].remote = P.remote
                 /\ pc'[Second].sig = "stable" /\ pc'[Second].with = h.from
                 /\ pc'[Second].due = P.due
  <2>1. ASSUME current PROVE P \in Pc /\ pc'[Second] = [P EXCEPT !.sig = "stable", !.with = h.from]
    BY <1>0, <1>2, <2>1, Two DEF ConnectionsTyped
  <2> QED
    BY <1>3, <2>1 DEF Pc
<1>10. current => P.remote = h.from
  BY <1>0, <1>3, <1>4 DEF Matching
<1> HIDE DEF answer
<1>12. \A i, s \in Sessions : Linked(i, s)' => Linked(i, s)
  <2>1. ASSUME NEW i \in Sessions, NEW s \in Sessions, Linked(i, s)' PROVE Linked(i, s)
    <3>1. [to |-> First, kind |-> "answer", sess |-> i, target |-> s] = answer => i = h.id /\ s = h.from
      BY DEF answer
    <3>2. CASE pc'[Second] # None /\ pc'[Second].id = i /\ pc'[Second].remote = s
      BY <1>8, <1>9, <3>2 DEF Linked
    <3>3. CASE ~(pc'[Second] # None /\ pc'[Second].id = i /\ pc'[Second].remote = s)
      BY <1>2, <1>4, <1>6, <1>7, <2>1, <3>1, <3>3 DEF Linked
    <3> QED
      BY <3>2, <3>3
  <2> QED
    BY <2>1
<1>13. \A n \in net' : n.kind = "offer" => n \in net
  BY <1>2, <1>5
<1>14. \A s \in Sessions : Offered(s)' => Offered(s)
  BY <1>13 DEF Offered
<1>15. ConnectionsTyped'
  <2>1. pc' \in [Peers -> {None} \union Pc]
    BY <1>0, <1>2, <1>9, Two DEF ConnectionsTyped
  <2>2. busy' \in [Peers -> SUBSET Handler] /\ net' \subseteq Signal
    BY <1>0, <1>2, <1>5 DEF ConnectionsTyped
  <2>3. CASE current
    <3>1. ~Answering(Second)'
      BY <1>0, <1>1, <1>6, <1>9, <2>3 DEF Answering, Matching
    <3>2. Second \in up /\ P.id = made[Second]
      BY <1>0, <2>3, Two DEF ConnectionsTyped
    <3> QED
      BY <1>0, <1>2, <1>6, <1>7, <1>9, <2>1, <2>2, <2>3, <3>1, <3>2, Two
      DEF ConnectionsTyped, Answering
  <2>4. CASE ~current
    <3>1. P # None => (Answering(Second)' <=> Answering(Second))
      BY <1>6, <1>8, <2>4 DEF Answering
    <3> QED
      BY <1>0, <1>2, <1>6, <1>7, <1>8, <2>1, <2>2, <2>4, <3>1, Two
      DEF ConnectionsTyped, Answering
  <2> QED
    BY <2>3, <2>4
<1>16. Roles'
  BY <1>0, <1>2, <1>5, <1>6, <1>7, <1>8, <1>9, Two DEF Roles
<1>17. Numbered'
  BY <1>0, <1>2, <1>12, <1>14 DEF Numbered
<1>18. Matching'
  <2>1. \A s \in Sessions :
          pc'[First] # None /\ pc'[First].due /\ pc'[First].id = s =>
            ~Offered(s)' /\ \A i \in Sessions : ~Linked(i, s)'
    BY <1>0, <1>7, <1>12, <1>14 DEF Matching
  <2>2. \A y \in Peers : pc'[y] # None /\ pc'[y].with # NoSession => pc'[y].remote = pc'[y].with
    BY <1>0, <1>7, <1>8, <1>9, <1>10, Two DEF Matching
  <2>3. \A n, k \in net' : n.kind = "offer" /\ k.kind = "offer" /\ n.sess = k.sess => n = k
    BY <1>0, <1>13 DEF Matching
  <2>4. /\ \A i, s \in Sessions : Offered(s)' => ~Linked(i, s)'
        /\ \A i, j, s \in Sessions : Linked(i, s)' /\ Linked(j, s)' => i = j
    BY <1>0, <1>12, <1>14 DEF Matching
  <2>5. \A i, s \in Sessions :
          Linked(i, s)' /\ pc'[Second] # None /\ pc'[Second].id = i => pc'[Second].remote = s
    BY <1>0, <1>8, <1>9, <1>12 DEF Matching
  <2>6. \A g, k \in busy'[Second] : g.id = k.id => g = k
    BY <1>0, <1>6 DEF Matching
  <2> QED
    BY <2>1, <2>2, <2>3, <2>4, <2>5, <2>6 DEF Matching
<1> QED
  BY <1>15, <1>16, <1>17, <1>18 DEF Connections

\* The first peer offers the session of its connection.
LEMMA MakeOfferKeeps ==
  ASSUME Connections, NEW x \in Peers, MakeOffer(x)
  PROVE  Connections'
<1>0. ConnectionsTyped /\ Roles /\ Numbered /\ Matching
  BY DEF Connections
<1>1. x = First /\ pc[First] # None /\ pc[First].due
  BY <1>0 DEF MakeOffer, Roles
<1> DEFINE P == pc[First]
           Q == [P EXCEPT !.due = FALSE, !.sig = IF @ = "stable" THEN "have-local-offer" ELSE @]
           offer == [to |-> Second, kind |-> "offer", sess |-> P.id, target |-> P.remote]
<1>2. /\ pc' = [pc EXCEPT ![First].due = FALSE,
                          ![First].sig = IF @ = "stable" THEN "have-local-offer" ELSE @]
      /\ made' = made /\ busy' = busy /\ up' = up
      /\ net' = net \union {offer} \/ net' = net
  BY <1>1, Two DEF MakeOffer
<1>3. /\ P \in Pc /\ P.id \in Sessions /\ P.id = made[First] /\ made[First] \in Nat
      /\ P.sig # "have-remote-offer" /\ First \in up
  BY <1>0, <1>1, Two DEF ConnectionsTyped, Pc, Roles, Answering
<1>4. pc'[First] = Q /\ pc'[Second] = pc[Second]
  BY <1>0, <1>2, Two DEF ConnectionsTyped
<1>5. /\ Q \in Pc /\ Q.id = P.id /\ Q.remote = P.remote /\ Q.with = P.with
      /\ ~Q.due /\ Q.sig # "have-remote-offer"
  BY <1>3 DEF Pc
<1>6. offer \in Signal /\ offer.kind = "offer" /\ offer.to = Second /\ offer.sess = P.id
  BY <1>3, Two DEF Signal, Pc
<1>7. ~Offered(P.id) /\ \A i \in Sessions : ~Linked(i, P.id)
  BY <1>0, <1>1, <1>3 DEF Matching
<1> HIDE DEF Q, offer
<1>8. \A s \in Sessions : Offered(s)' => Offered(s) \/ s = P.id
  BY <1>2, <1>6 DEF Offered
<1>9. \A i, s \in Sessions : Linked(i, s)' => Linked(i, s)
  <2>1. ASSUME NEW i \in Sessions, NEW s \in Sessions, Linked(i, s)' PROVE Linked(i, s)
    <3>1. [to |-> First, kind |-> "answer", sess |-> i, target |-> s] # offer
      BY Two DEF offer
    <3> QED
      BY <1>1, <1>2, <1>4, <1>5, <2>1, <3>1 DEF Linked
  <2> QED
    BY <2>1
<1>10. ConnectionsTyped'
  <2>1. pc' \in [Peers -> {None} \union Pc]
    BY <1>0, <1>2, <1>5 DEF ConnectionsTyped, Q
  <2>2. net' \subseteq Signal
    BY <1>0, <1>2, <1>6 DEF ConnectionsTyped
  <2>3. ~Answering(First)' /\ (Answering(Second)' <=> Answering(Second))
    BY <1>0, <1>2, <1>4 DEF Answering, Roles
  <2> QED
    BY <1>0, <1>2, <1>3, <1>4, <1>5, <2>1, <2>2, <2>3, Two DEF ConnectionsTyped
<1>11. Roles'
  BY <1>0, <1>2, <1>4, <1>5, <1>6, Two DEF Roles
<1>12. Numbered'
  BY <1>0, <1>2, <1>3, <1>8, <1>9 DEF Numbered
<1>13. Matching'
  <2>1. ~pc'[First].due
    BY <1>4, <1>5
  <2>2. \A y \in Peers : pc'[y] # None /\ pc'[y].with # NoSession => pc'[y].remote = pc'[y].with
    <3>1. Q.with # NoSession => Q.remote = Q.with
      BY <1>0, <1>1, <1>5, Two DEF Matching
    <3> QED
      BY <1>0, <1>4, <3>1, Two DEF Matching
  <2>3. \A n, k \in net' : n.kind = "offer" /\ k.kind = "offer" /\ n.sess = k.sess => n = k
    <3>1. \A n \in net : n.kind = "offer" => n.sess # P.id
      BY <1>3, <1>7 DEF Offered
    <3> QED
      BY <1>0, <1>2, <1>6, <3>1 DEF Matching
  <2>4. \A i, s \in Sessions : Offered(s)' => ~Linked(i, s)'
    BY <1>0, <1>7, <1>8, <1>9 DEF Matching
  <2>5. \A i, j, s \in Sessions : Linked(i, s)' /\ Linked(j, s)' => i = j
    BY <1>0, <1>9 DEF Matching
  <2>6. \A i, s \in Sessions :
          Linked(i, s)' /\ pc'[Second] # None /\ pc'[Second].id = i => pc'[Second].remote = s
    BY <1>0, <1>4, <1>9 DEF Matching
  <2>7. \A g, k \in busy'[Second] : g.id = k.id => g = k
    BY <1>0, <1>2 DEF Matching
  <2> QED
    BY <2>1, <2>2, <2>3, <2>4, <2>5, <2>6, <2>7 DEF Matching
<1> QED
  BY <1>10, <1>11, <1>12, <1>13 DEF Connections

\* A signal makes a connection, and has its turn there.
LEMMA OnNewPcKeeps ==
  ASSUME Connections, NEW x \in Peers, NEW m \in net, m.to = x, m.kind # "bye", up' = up,
         roster \in [Peers -> Nat], OnNewPc(x, m, net \ {m})
  PROVE  Connections'
<1>0. ConnectionsTyped /\ Roles /\ Numbered /\ Matching
  BY DEF Connections
<1> DEFINE P == Fresh(x, roster[x])
<1>1. /\ MayCreate(x) /\ made' = [made EXCEPT ![x] = @ + 1] /\ Handle(x, P, m)
      /\ net' = (net \ {m}) \union {TrackInfo(x)}
  BY DEF OnNewPc
<1>2. /\ x \in up /\ made[x] \in Nat /\ made[x] + 1 \in Sessions
      /\ made' \in [Peers -> 0..MaxSessions] /\ made'[x] = made[x] + 1
      /\ \A y \in Peers : made[y] \in Nat /\ made[y] <= made'[y] /\ (y # x => made'[y] = made[y])
  BY <1>0, <1>1, Two DEF MayCreate, ConnectionsTyped
<1>3. /\ P \in Pc /\ P.id = made[x] + 1 /\ P.remote = NoSession /\ P.sig = "stable"
      /\ P.with = NoSession /\ (P.due => x = First)
  BY <1>2 DEF Fresh, Pristine, Pc
<1>4. TrackInfo(x) \in Signal /\ TrackInfo(x).kind = "trackinfo"
  BY <1>2, Two DEF TrackInfo, Signal, Other, Peers
<1>5. \A i, s \in Sessions : Linked(i, s) => i <= made[Second] /\ s <= made[First]
  BY <1>0 DEF Numbered
<1>6. m \in Signal /\ m.sess \in Sessions
  BY <1>0 DEF ConnectionsTyped, Signal
<1> HIDE DEF P
<1>7. CASE pc' = [pc EXCEPT ![x] = P] /\ busy' = busy
  BY <1>1, <1>7, CreatingKeeps DEF P
<1>8. CASE Accepts(P, m) /\ m.kind = "answer"
  <2>1. x = First /\ m.target = P.id
    BY <1>0, <1>8 DEF Roles, Accepts, OnTarget
  <2>2. m = [to |-> First, kind |-> "answer", sess |-> m.sess, target |-> P.id]
    BY <1>6, <1>8, <2>1 DEF Signal
  <2>3. Linked(m.sess, P.id)
    BY <2>2 DEF Linked
  <2> QED
    BY <1>2, <1>3, <1>5, <1>6, <2>1, <2>3
<1>9. CASE Accepts(P, m) /\ m.kind = "offer"
  <2>1. x = Second
    BY <1>0, <1>9 DEF Roles
  <2>2. /\ Bound(P, m) = [P EXCEPT !.remote = m.sess, !.sig = "have-remote-offer"]
        /\ Starts(P, m) = {[id |-> P.id, from |-> m.sess]}
    BY <1>3, <1>9 DEF Bound, Starts
  <2>3. /\ pc' = [pc EXCEPT ![Second] = [P EXCEPT !.remote = m.sess, !.sig = "have-remote-offer"]]
        /\ busy' = [busy EXCEPT ![Second] = @ \union {[id |-> P.id, from |-> m.sess]}]
    BY <1>1, <1>9, <2>1, <2>2 DEF Handle
  <2>4. \A s \in Sessions : ~Linked(P.id, s)
    <3>1. \A s \in Sessions : ~(P.id <= made[Second])
      BY <1>2, <1>3, <2>1
    <3> QED
      BY <1>2, <1>3, <1>5, <3>1
  <2>5. \A h \in busy[Second] : h.id # P.id
    <3>1. ASSUME NEW h \in busy[Second] PROVE h.id # P.id
      <4>1. h = [id |-> h.id, from |-> h.from] /\ h.id \in Sessions /\ h.from \in Sessions
        BY <1>0, Two DEF ConnectionsTyped, Handler
      <4> QED
        BY <2>4, <4>1 DEF Linked
    <3> QED
      BY <3>1
  <2> QED
    BY <1>1, <1>2, <1>3, <1>4, <1>9, <2>1, <2>3, <2>4, <2>5, OfferTakenKeeps, Two
<1>10. CASE ~Accepts(P, m) \/ m.kind = "trackinfo"
  <2>1. pc' = [pc EXCEPT ![x] = P] /\ busy' = busy
    <3>1. CASE ~Accepts(P, m)
      BY <1>1, <3>1 DEF Handle
    <3>2. CASE Accepts(P, m) /\ m.kind = "trackinfo"
      <4>1. Bound(P, m) = P /\ Starts(P, m) = {}
        BY <3>2 DEF Bound, Starts
      <4>2. pc' = [pc EXCEPT ![x] = P] /\ busy' = [busy EXCEPT ![x] = @ \union {}]
        BY <1>1, <3>2, <4>1 DEF Handle
      <4> QED
        BY <1>0, <4>2 DEF ConnectionsTyped
    <3> QED
      BY <1>10, <3>1, <3>2
  <2> QED
    BY <1>7, <2>1
<1> QED
  BY <1>6, <1>8, <1>9, <1>10 DEF Signal

\* A signal has its turn on a connection that keeps its session.
LEMMA HandleKeeps ==
  ASSUME Connections, NEW x \in Peers, NEW m \in net, m.to = x, up' = up, made' = made,
         pc[x] # None, ~Answering(x), Handle(x, pc[x], m), net' = net \ {m}
  PROVE  Connections'
<1>0. ConnectionsTyped /\ Roles /\ Numbered /\ Matching
  BY DEF Connections
<1> DEFINE P == pc[x]
<1>1. /\ P \in Pc /\ x \in up /\ P.id = made[x]
      /\ P.sig # "have-remote-offer" /\ (P.sig = "have-local-offer" => x = First)
  BY <1>0 DEF ConnectionsTyped
<1>2. m \in Signal /\ m.sess \in Sessions
  BY <1>0 DEF ConnectionsTyped, Signal
<1>3. CASE Accepts(P, m) /\ m.kind = "offer"
  <2>1. x = Second /\ P.sig = "stable"
    BY <1>0, <1>1, <1>3, Two DEF Roles, Pc
  <2>2. /\ Bound(P, m) = [P EXCEPT !.remote = m.sess, !.sig = "have-remote-offer"]
        /\ Starts(P, m) = {[id |-> P.id, from |-> m.sess]}
    BY <1>3, <2>1 DEF Bound, Starts
  <2>3. /\ pc' = [pc EXCEPT ![Second] = [P EXCEPT !.remote = m.sess, !.sig = "have-remote-offer"]]
        /\ busy' = [busy EXCEPT ![Second] = @ \union {[id |-> P.id, from |-> m.sess]}]
    BY <1>3, <2>1, <2>2 DEF Handle
  <2>4. P.remote \in {NoSession, m.sess}
    BY <1>3 DEF Accepts, Knows
  <2>5. P.with # NoSession => P.remote = P.with
    BY <1>0 DEF Matching
  <2>6. P.due => FALSE
    BY <1>0, <2>1, Two DEF Roles
  <2>7. \A s \in Sessions : Linked(P.id, s) => P.remote = s
    BY <1>0, <1>1, <2>1 DEF Matching, Pc
  <2>8. \A h \in busy[Second] : h.id # P.id
    BY <2>1 DEF Answering
  <2>9. \A n \in net' : n \in net /\ n # m
    OBVIOUS
  <2>10. /\ made' \in [Peers -> 0..MaxSessions] /\ made'[Second] = P.id
         /\ (\A y \in Peers : made[y] <= made'[y]) /\ made'[First] = made[First]
    BY <1>0, <1>1, <2>1 DEF ConnectionsTyped
  <2> HIDE DEF P
  <2> QED
    BY <1>1, <1>3, <2>1, <2>3, <2>4, <2>5, <2>6, <2>7, <2>8, <2>9, <2>10, OfferTakenKeeps
<1>4. CASE Accepts(P, m) /\ m.kind = "answer"
  <2>1. x = First
    BY <1>0, <1>4 DEF Roles
  <2>2. Starts(P, m) = {}
    BY <1>4 DEF Starts
  <2>3. pc' = [pc EXCEPT ![First] = Bound(P, m)] /\ busy' = [busy EXCEPT ![First] = @ \union {}]
    BY <1>4, <2>1, <2>2 DEF Handle
  <2>4. busy' = busy
    BY <1>0, <2>3 DEF ConnectionsTyped
  <2> QED
    BY <1>4, <2>1, <2>3, <2>4, AnswerTakenKeeps
<1>5. CASE ~Accepts(P, m) \/ m.kind \in {"trackinfo", "bye"}
  <2>1. (pc' = pc \/ pc' = [pc EXCEPT ![x] = None]) /\ busy' = busy
    <3>1. CASE ~Accepts(P, m)
      <4>1. pc' = [pc EXCEPT ![x] = P] /\ busy' = busy
        BY <3>1 DEF Handle
      <4> QED
        BY <1>0, <4>1 DEF ConnectionsTyped
    <3>2. CASE Accepts(P, m) /\ m.kind \in {"trackinfo", "bye"}
      <4>1. (Bound(P, m) = P \/ Bound(P, m) = None) /\ Starts(P, m) = {}
        BY <3>2 DEF Bound, Starts
      <4>2. pc' = [pc EXCEPT ![x] = Bound(P, m)] /\ busy' = [busy EXCEPT ![x] = @ \union {}]
        BY <3>2, <4>1 DEF Handle
      <4> QED
        BY <1>0, <4>1, <4>2 DEF ConnectionsTyped
    <3> QED
      BY <1>5, <3>1, <3>2
  <2> QED
    BY <2>1, LosingKeeps
<1> QED
  BY <1>2, <1>3, <1>4, <1>5 DEF Signal

LEMMA ReceiveKeeps ==
  ASSUME Inv, NEW x \in Peers, NEW m \in net, Receive(x, m)
  PROVE  Connections'
<1>1. Connections /\ roster \in [Peers -> Nat] /\ m.to = x /\ up' = up
  BY DEF Inv, PresenceTyped, Receive
<1>2. CASE net' = net \ {m} /\ Dropped
  BY <1>1, <1>2, LosingKeeps DEF Dropped
<1>3. CASE pc[x] = None /\ m.kind # "bye" /\ OnNewPc(x, m, net \ {m})
  BY <1>1, <1>3, OnNewPcKeeps
<1>4. CASE pc[x] # None /\ ~Answering(x) /\ OnPc(x, m, net \ {m})
  <2>1. CASE Replaces(pc[x], m)
    <3>1. m.kind # "bye" /\ OnNewPc(x, m, net \ {m})
      BY <1>4, <2>1 DEF OnPc, Replaces
    <3> QED
      BY <1>1, <3>1, OnNewPcKeeps
  <2>2. CASE ~Replaces(pc[x], m)
    <3>1. Handle(x, pc[x], m) /\ net' = net \ {m} /\ made' = made
      BY <1>4, <2>2 DEF OnPc
    <3> QED
      BY <1>1, <1>4, <3>1, HandleKeeps
  <2> QED
    BY <2>1, <2>2
<1> QED
  BY <1>2, <1>3, <1>4 DEF Receive

\* Beacons, processes and connections that end.
LEMMA ComingAndGoingKeeps ==
  ASSUME Connections, NEW x \in Peers,
         \/ \E m \in net : Forget(x, m)
         \/ HearBeacon(x) \/ Prune(x)
         \/ \E n \in 1..life[Other(x)] : HearLeave(x, n)
         \/ LoseRemote(x) \/ Break(x)
         \/ Leave(x) \/ Kill(x) \/ Start(x)
  PROVE  Connections'
<1>0. ConnectionsTyped
  BY DEF Connections
<1>1. CASE \E m \in net : Forget(x, m)
  BY <1>1, LosingKeeps DEF Forget, local
<1>2. CASE HearBeacon(x)
  <2>1. up' = up /\ busy' = busy /\ Create(x, life[Other(x)])
    BY <1>2 DEF HearBeacon
  <2>2. CASE pc[x] # None
    BY <2>1, <2>2, LosingKeeps DEF Create
  <2>3. CASE pc[x] = None
    BY <2>1, <2>3, CreatingKeeps DEF Create
  <2> QED
    BY <2>2, <2>3
<1>3. CASE Prune(x)
  BY <1>3, LosingKeeps DEF Prune, TearDown
<1>4. CASE \E n \in 1..life[Other(x)] : HearLeave(x, n)
  BY <1>4, LosingKeeps DEF HearLeave, TearDown
<1>5. CASE LoseRemote(x)
  BY <1>5, LosingKeeps DEF LoseRemote, TearDown
<1>6. CASE Break(x)
  BY <1>6, LosingKeeps DEF Break, TearDown
<1>7. CASE Leave(x)
  <2>1. /\ up' = up \ {x} /\ made' = made
        /\ busy' = [busy EXCEPT ![x] = {}] /\ pc' = [pc EXCEPT ![x] = None]
    BY <1>7 DEF Leave, Ended, TearDown
  <2>2. \A m \in net' : m \in net \/ (m \in Signal /\ m.kind \in {"bye", "trackinfo"})
    <3>1. CASE pc[x] = None
      BY <1>7, <3>1 DEF Leave
    <3>2. CASE pc[x] # None
      <4> DEFINE bye == [to |-> Other(x), kind |-> "bye", sess |-> pc[x].id,
                         target |-> pc[x].remote]
      <4>1. bye \in Signal /\ bye.kind = "bye"
        BY <1>0, <3>2, Two DEF ConnectionsTyped, Signal, Pc
      <4>2. net' = net \union {bye}
        BY <1>7, <3>2 DEF Leave
      <4> QED
        BY <4>1, <4>2
    <3> QED
      BY <3>1, <3>2
  <2> QED
    BY <2>1, <2>2, LosingKeeps
<1>8. CASE Kill(x)
  BY <1>8, LosingKeeps DEF Kill, Ended, TearDown
<1>9. CASE Start(x)
  BY <1>9, LosingKeeps DEF Start, local
<1> QED
  BY <1>1, <1>2, <1>3, <1>4, <1>5, <1>6, <1>7, <1>8, <1>9

LEMMA PresenceKeeps ==
  ASSUME Inv, [Next]_vars
  PROVE  PresenceTyped'
<1> USE DEF PresenceTyped
<1>0. PresenceTyped /\ \A y \in Peers : Other(y) \in Peers
  BY Two DEF Inv
<1>1. ASSUME NEW x \in Peers, NEW m \in net, Receive(x, m) \/ Forget(x, m) PROVE PresenceTyped'
  BY <1>0, <1>1 DEF Receive, Forget
<1>2. ASSUME NEW x \in Peers, NEW h \in busy[x], Answer(x, h) PROVE PresenceTyped'
  BY <1>0, <1>2 DEF Answer
<1>3. ASSUME NEW x \in Peers, MakeOffer(x) PROVE PresenceTyped'
  BY <1>0, <1>3 DEF MakeOffer
<1>4. ASSUME NEW x \in Peers, HearBeacon(x) \/ Prune(x) PROVE PresenceTyped'
  BY <1>0, <1>4 DEF HearBeacon, Prune
<1>5. ASSUME NEW x \in Peers, NEW n \in 1..life[Other(x)], HearLeave(x, n) PROVE PresenceTyped'
  BY <1>0, <1>5 DEF HearLeave
<1>6. ASSUME NEW x \in Peers, LoseRemote(x) \/ Break(x) PROVE PresenceTyped'
  BY <1>0, <1>6, Two DEF LoseRemote, Break, Fault
<1>7. ASSUME NEW x \in Peers, Leave(x) \/ Kill(x) PROVE PresenceTyped'
  BY <1>0, <1>7, Two DEF Leave, Kill, Ended, Fault
<1>8. ASSUME NEW x \in Peers, Start(x) PROVE PresenceTyped'
  BY <1>0, <1>8 DEF Start
<1>9. CASE UNCHANGED vars
  BY <1>0, <1>9 DEF vars
<1> QED
  BY <1>1, <1>2, <1>3, <1>4, <1>5, <1>6, <1>7, <1>8, <1>9 DEF Next

LEMMA NextInv ==
  ASSUME Inv, [Next]_vars
  PROVE  Inv'
<1>1. Connections
  BY DEF Inv
<1>2. Connections'
  <2>1. ASSUME NEW x \in Peers, NEW m \in net, Receive(x, m) PROVE Connections'
    BY <2>1, ReceiveKeeps
  <2>2. ASSUME NEW x \in Peers, NEW h \in busy[x], Answer(x, h) PROVE Connections'
    BY <1>1, <2>2, AnswerKeeps
  <2>3. ASSUME NEW x \in Peers, MakeOffer(x) PROVE Connections'
    BY <1>1, <2>3, MakeOfferKeeps
  <2>4. ASSUME NEW x \in Peers,
               \/ \E m \in net : Forget(x, m)
               \/ HearBeacon(x) \/ Prune(x)
               \/ \E n \in 1..life[Other(x)] : HearLeave(x, n)
               \/ LoseRemote(x) \/ Break(x)
               \/ Leave(x) \/ Kill(x) \/ Start(x)
        PROVE Connections'
    BY <1>1, <2>4, ComingAndGoingKeeps
  <2>5. CASE UNCHANGED vars
    BY <1>1, <2>5 DEF vars, local, Connections, ConnectionsTyped, Roles, Numbered, Matching,
                      Linked, Offered, Answering
  <2> QED
    BY <2>1, <2>2, <2>3, <2>4, <2>5 DEF Next
<1> QED
  BY <1>2, PresenceKeeps DEF Inv

----------------------------------------------------------------------------
LEMMA InvHolds == Spec => []Inv
BY InitInv, NextInv, PTL DEF Spec

\* Types hold, the newest connection of a peer is the one in use, only the
\* smaller pubkey offers, and only a connection whose handler answers is
\* between descriptions.
THEOREM TypesHold == Spec => []TypeOK
<1>1. Inv => TypeOK
  BY DEF Inv, Connections, ConnectionsTyped, PresenceTyped, TypeOK
<1> QED
  BY <1>1, InvHolds, PTL

\* Both ends mean the same two connections, whatever signals are late, lost or
\* overtaken, and however often connections and processes end.
THEOREM PairsStayAgreed == Spec => []PairsAgree
<1>1. Inv => PairsAgree
  <2> SUFFICES ASSUME Inv PROVE PairsAgree
    OBVIOUS
  <2>0. ConnectionsTyped /\ Matching
    BY DEF Inv, Connections
  <2> DEFINE P == pc[First]
             Q == pc[Second]
  <2>1. P # None => P \in Pc /\ P.id \in Sessions
    BY <2>0, Two DEF ConnectionsTyped, Pc
  <2>2. Q # None => Q \in Pc /\ Q.id \in Sessions
    BY <2>0, Two DEF ConnectionsTyped, Pc
  <2>3. ASSUME P # None, Q # None, P.with = Q.id PROVE Q.remote \in {NoSession, P.id}
    <3>1. P.remote = Q.id
      BY <2>0, <2>2, <2>3, Two DEF Matching
    <3>2. Linked(Q.id, P.id)
      BY <2>3, <3>1 DEF Linked
    <3> QED
      BY <2>0, <2>1, <2>2, <2>3, <3>2 DEF Matching
  <2>4. ASSUME P # None, Q # None, Q.with = P.id PROVE P.remote \in {NoSession, Q.id}
    <3>1. Q.remote = P.id
      BY <2>0, <2>1, <2>4, Two DEF Matching
    <3>2. Linked(Q.id, P.id)
      BY <2>4, <3>1 DEF Linked
    <3>3. ASSUME P.remote # NoSession PROVE P.remote = Q.id
      <4>1. P.remote \in Sessions
        BY <2>1, <2>4, <3>3 DEF Pc
      <4>2. Linked(P.remote, P.id)
        BY <2>4 DEF Linked
      <4> QED
        BY <2>0, <2>1, <2>2, <2>4, <3>2, <4>1, <4>2 DEF Matching
    <3> QED
      BY <3>3
  <2> QED
    BY <2>3, <2>4, Two DEF PairsAgree
<1> QED
  BY <1>1, InvHolds, PTL

----------------------------------------------------------------------------
(* Nobody is stranded *)

\* An answer of connection i of the second peer to session s of the first is on
\* its way, or the first peer took it.
Answered(i, s) ==
  \/ [to |-> First, kind |-> "answer", sess |-> i, target |-> s] \in net
  \/ pc[First] # None /\ pc[First].id = s /\ pc[First].with = i

\* The connection that answered, if it is there, has both descriptions; and an
\* initiator has offered, or is about to.
AnswererKnows ==
  \A i, s \in Sessions :
    Answered(i, s) /\ pc[Second] # None /\ pc[Second].id = i => pc[Second].with = s
InitiatorOffers ==
  pc[First] # None /\ ~pc[First].polite /\ ~pc[First].due =>
    pc[First].sig = "have-local-offer" \/ pc[First].with # NoSession
Settling == AnswererKnows /\ InitiatorOffers

LEMMA InitSettling == Init => Settling
BY Two DEF Init, Settling, AnswererKnows, InitiatorOffers, Answered

LEMMA AnsweredIsLinked ==
  ASSUME Connections, NEW i \in Sessions, NEW s \in Sessions, Answered(i, s)
  PROVE  Linked(i, s) /\ i <= made[Second] /\ s <= made[First]
<1>1. CASE [to |-> First, kind |-> "answer", sess |-> i, target |-> s] \in net
  BY <1>1 DEF Connections, Numbered, Linked
<1>2. CASE pc[First] # None /\ pc[First].id = s /\ pc[First].with = i
  <2>1. pc[First].remote = i
    BY <1>2, Two DEF Connections, Matching
  <2>2. Linked(i, s)
    BY <1>2, <2>1 DEF Linked
  <2> QED
    BY <2>2 DEF Connections, Numbered
<1> QED
  BY <1>1, <1>2 DEF Answered

\* Without a new answer, the second peer's side stays settled unless its
\* connection forgets the session it answered.
LEMMA NoAnswerSettles ==
  ASSUME Connections, AnswererKnows,
         \A i, s \in Sessions : Answered(i, s)' => Answered(i, s),
         \/ pc'[Second] = None
         \/ pc'[Second].id = made[Second] + 1
         \/ /\ pc[Second] # None
            /\ pc'[Second].id = pc[Second].id /\ pc'[Second].with = pc[Second].with
  PROVE  AnswererKnows'
<1> SUFFICES ASSUME NEW i \in Sessions, NEW s \in Sessions, Answered(i, s)',
                    pc'[Second] # None, pc'[Second].id = i
             PROVE  pc'[Second].with = s
  BY DEF AnswererKnows
<1>1. Answered(i, s) /\ i <= made[Second]
  BY AnsweredIsLinked
<1>2. made[Second] \in Nat /\ i \in Nat
  BY Two DEF Connections, ConnectionsTyped
<1> QED
  BY <1>1, <1>2 DEF AnswererKnows

\* The first peer's side: its connection goes, is new, or goes on.
FirstMoves ==
  \/ pc'[First] = None
  \/ pc'[First].with = NoSession /\ (pc'[First].polite \/ pc'[First].due)
  \/ /\ pc[First] # None /\ pc'[First].id = pc[First].id
     /\ pc'[First].with = pc[First].with /\ pc'[First].polite = pc[First].polite
     /\ \/ pc'[First].due = pc[First].due /\ pc'[First].sig = pc[First].sig
        \/ pc'[First].sig = "have-local-offer"
SecondMoves ==
  \/ pc'[Second] = None
  \/ pc'[Second].id = made[Second] + 1
  \/ /\ pc[Second] # None
     /\ pc'[Second].id = pc[Second].id /\ pc'[Second].with = pc[Second].with

LEMMA MovesSettle ==
  ASSUME Connections, Settling, FirstMoves, SecondMoves,
         \A m \in net' : m.kind = "answer" => m \in net
  PROVE  Settling'
<1>1. ASSUME NEW i \in Sessions, NEW s \in Sessions, Answered(i, s)'
      PROVE  Answered(i, s)
  <2> DEFINE a == [to |-> First, kind |-> "answer", sess |-> i, target |-> s]
  <2>1. a \in net' => a \in net
    OBVIOUS
  <2>2. i # NoSession
    BY Two
  <2> HIDE DEF a
  <2> QED
    BY <1>1, <2>1, <2>2 DEF Answered, FirstMoves, a
<1>2. AnswererKnows'
  BY <1>1, NoAnswerSettles DEF Settling, SecondMoves
<1>3. InitiatorOffers'
  BY DEF FirstMoves, Settling, InitiatorOffers
<1> QED
  BY <1>2, <1>3 DEF Settling

LEMMA FreshFacts ==
  ASSUME NEW x \in Peers, NEW seen, NEW P, P = Fresh(x, seen)
  PROVE  /\ P.id = made[x] + 1 /\ P.with = NoSession /\ (P.polite \/ P.due)
         /\ P.sig = "stable"
BY DEF Fresh, Pristine

LEMMA BoundFacts ==
  ASSUME NEW P \in Pc, NEW m \in Signal, NEW B, B = Bound(P, m), B # None
  PROVE  /\ B.id = P.id /\ B.polite = P.polite /\ B.due = P.due
         /\ \/ B.with = P.with /\ (B.sig = P.sig \/ m.kind = "offer")
            \/ /\ m.kind = "answer" /\ P.sig = "have-local-offer"
               /\ B.with = m.sess
<1>1. CASE m.kind = "trackinfo"
  BY <1>1 DEF Bound
<1>2. CASE m.kind = "offer"
  BY <1>2 DEF Bound, Pc
<1>3. CASE m.kind = "answer"
  BY <1>3 DEF Bound, Pc
<1>4. CASE m.kind = "bye"
  BY <1>4 DEF Bound
<1> QED
  BY <1>1, <1>2, <1>3, <1>4 DEF Signal

\* A signal on a connection that x has or has just made.
LEMMA HandleSettles ==
  ASSUME Connections, Settling, NEW x \in Peers, NEW m \in net, m.to = x,
         NEW P \in Pc, Handle(x, P, m),
         \/ P.id = made[x] + 1 /\ P.with = NoSession /\ (P.polite \/ P.due) /\ P.sig = "stable"
         \/ pc[x] = P /\ pc[x] # None,
         \A n \in net' : n.kind = "answer" => n \in net
  PROVE  Settling'
<1>0. ConnectionsTyped /\ Roles
  BY DEF Connections
<1> DEFINE B == Bound(P, m)
<1>1. m \in Signal
  BY <1>0 DEF ConnectionsTyped
<1>2. /\ pc'[x] \in {P, B} /\ \A y \in Peers : y # x => pc'[y] = pc[y]
  BY <1>0 DEF Handle, ConnectionsTyped
<1>3. /\ m.kind = "offer" => x = Second
      /\ m.kind = "answer" => x = First
  BY <1>0 DEF Roles
<1>4. CASE x = First
  <2>1. SecondMoves
    BY <1>2, <1>4, Two DEF SecondMoves
  <2>2. CASE FirstMoves
    BY <2>1, <2>2, MovesSettle
  <2>3. CASE /\ pc[First] = P /\ pc[First] # None /\ pc'[First] = B /\ B # None
             /\ m.kind = "answer" /\ P.sig = "have-local-offer" /\ Accepts(P, m)
             /\ B.id = P.id /\ B.with = m.sess /\ m.sess # NoSession
    <3>1. m.target = P.id
      BY <1>0, <2>3 DEF Roles, Accepts, OnTarget
    <3>2. m = [to |-> First, kind |-> "answer", sess |-> m.sess, target |-> P.id]
      BY <1>1, <1>4, <2>3, <3>1 DEF Signal
    <3>3. ASSUME NEW i \in Sessions, NEW s \in Sessions, Answered(i, s)'
          PROVE  Answered(i, s)
      <4> DEFINE a == [to |-> First, kind |-> "answer", sess |-> i, target |-> s]
      <4>1. CASE a \in net'
        <5>1. a \in net
          BY <4>1
        <5> QED
          BY <5>1 DEF Answered
      <4>2. CASE pc'[First].id = s /\ pc'[First].with = i
        <5>1. i = m.sess /\ s = P.id
          BY <2>3, <4>2
        <5> QED
          BY <3>2, <5>1 DEF Answered
      <4> QED
        BY <3>3, <4>1, <4>2 DEF Answered
    <3>4. AnswererKnows'
      BY <2>1, <3>3, NoAnswerSettles DEF Settling, SecondMoves
    <3>5. InitiatorOffers'
      BY <2>3 DEF InitiatorOffers
    <3> QED
      BY <3>4, <3>5 DEF Settling
  <2>4. CASE pc'[First] = P
    BY <1>4, <2>2, <2>4 DEF FirstMoves
  <2>5. CASE pc'[First] = B /\ ~Accepts(P, m)
    <3>1. pc' = [pc EXCEPT ![First] = P]
      BY <1>4, <2>5 DEF Handle
    <3>2. pc'[First] = P
      BY <1>0, <3>1, Two DEF ConnectionsTyped
    <3> QED
      BY <2>4, <3>2
  <2>6. CASE pc'[First] = B /\ Accepts(P, m)
    <3>1. CASE B = None
      BY <2>2, <2>6, <3>1 DEF FirstMoves
    <3>2. CASE B # None
      <4>1. /\ B.id = P.id /\ B.polite = P.polite /\ B.due = P.due
            /\ \/ B.with = P.with /\ (B.sig = P.sig \/ m.kind = "offer")
               \/ /\ m.kind = "answer" /\ P.sig = "have-local-offer"
                  /\ B.with = m.sess
        BY <1>1, <3>2, BoundFacts
      <4>2. m.kind # "offer" /\ m.sess # NoSession
        BY <1>1, <1>3, <1>4, Two DEF Signal
      <4> HIDE DEF B
      <4>3. CASE B.with = P.with /\ B.sig = P.sig
        BY <1>4, <2>2, <2>6, <4>1, <4>3 DEF FirstMoves
      <4>4. CASE m.kind = "answer" /\ P.sig = "have-local-offer" /\ B.with = m.sess
        <5>1. pc[First] = P /\ pc[First] # None
          BY <1>4, <4>4
        <5> QED
          BY <2>3, <2>6, <3>2, <4>1, <4>2, <4>4, <5>1
      <4> QED
        BY <4>1, <4>2, <4>3, <4>4
    <3> QED
      BY <3>1, <3>2
  <2> QED
    BY <1>2, <1>4, <2>4, <2>5, <2>6
<1>5. CASE x = Second
  <2>1. FirstMoves
    BY <1>2, <1>5, Two DEF FirstMoves
  <2>2. pc'[Second] # None => pc'[Second].id = P.id /\ pc'[Second].with = P.with
    <3>1. m.kind # "answer"
      BY <1>3, <1>5, Two
    <3> QED
      BY <1>1, <1>2, <1>5, <3>1, BoundFacts
  <2>3. SecondMoves
    BY <1>5, <2>2 DEF SecondMoves
  <2> QED
    BY <2>1, <2>3, MovesSettle
<1> QED
  BY <1>4, <1>5, Two

LEMMA ReceiveSettles ==
  ASSUME Inv, Settling, NEW x \in Peers, NEW m \in net, Receive(x, m)
  PROVE  Settling'
<1>0. Connections /\ ConnectionsTyped /\ m.to = x /\ roster \in [Peers -> Nat]
  BY DEF Inv, Connections, PresenceTyped, Receive
<1>1. CASE net' = net \ {m} /\ Dropped
  BY <1>0, <1>1, MovesSettle DEF Dropped, FirstMoves, SecondMoves
<1>2. CASE OnNewPc(x, m, net \ {m})
  <2> DEFINE P == Fresh(x, roster[x])
  <2>1. Handle(x, P, m) /\ \A n \in net' : n.kind = "answer" => n \in net
    BY <1>2 DEF OnNewPc, TrackInfo
  <2>2. P.id = made[x] + 1 /\ P.with = NoSession /\ (P.polite \/ P.due) /\ P.sig = "stable"
    BY FreshFacts
  <2>3. P \in Pc
    <3>1. made[x] + 1 \in Sessions
      BY <1>0, <1>2, Two DEF OnNewPc, MayCreate, ConnectionsTyped
    <3> QED
      BY <3>1 DEF Fresh, Pristine, Pc
  <2> HIDE DEF P
  <2> QED
    BY <1>0, <2>1, <2>2, <2>3, HandleSettles
<1>3. CASE pc[x] # None /\ OnPc(x, m, net \ {m})
  <2>1. CASE Replaces(pc[x], m)
    BY <1>2, <1>3, <2>1 DEF OnPc
  <2>2. CASE ~Replaces(pc[x], m)
    <3>1. Handle(x, pc[x], m) /\ net' = net \ {m}
      BY <1>3, <2>2 DEF OnPc
    <3>2. pc[x] \in Pc
      BY <1>0, <1>3 DEF ConnectionsTyped
    <3> QED
      BY <1>0, <1>3, <3>1, <3>2, HandleSettles
  <2> QED
    BY <2>1, <2>2
<1> QED
  BY <1>1, <1>2, <1>3 DEF Receive

\* The second peer sets its description as the answer goes out.
LEMMA AnswerSettles ==
  ASSUME Connections, Settling, NEW x \in Peers, NEW h \in busy[x], Answer(x, h)
  PROVE  Settling'
<1>0. ConnectionsTyped /\ Roles /\ Numbered /\ Matching
  BY DEF Connections
<1>1. x = Second
  BY <1>0, Two DEF Roles
<1> DEFINE Q == pc[Second]
           current == Q # None /\ Q.id = h.id
           answer == [to |-> First, kind |-> "answer", sess |-> h.id, target |-> h.from]
<1>2. /\ net' = net \union {answer} \/ net' = net
      /\ pc' = IF current THEN [pc EXCEPT ![Second].sig = "stable", ![Second].with = h.from]
               ELSE pc
  BY <1>1, Two DEF Answer, local
<1>3. /\ h.id \in Sessions /\ h.from \in Sessions
      /\ h = [id |-> h.id, from |-> h.from]
  BY <1>0, <1>1, Two DEF ConnectionsTyped, Handler
<1>4. Linked(h.id, h.from)
  BY <1>1, <1>3 DEF Linked
<1>5. pc'[First] = pc[First]
  BY <1>0, <1>2, Two DEF ConnectionsTyped
<1>6. ASSUME current
      PROVE  Q \in Pc /\ pc'[Second] = [Q EXCEPT !.sig = "stable", !.with = h.from]
  BY <1>0, <1>2, <1>6, Two DEF ConnectionsTyped
<1>7. AnswererKnows'
  <2> SUFFICES ASSUME NEW i \in Sessions, NEW s \in Sessions, Answered(i, s)',
                      pc'[Second] # None, pc'[Second].id = i
               PROVE  pc'[Second].with = s
    BY DEF AnswererKnows
  <2>1. CASE Answered(i, s)
    <3>1. CASE current
      <4>1. Q.id = i /\ pc'[Second].with = h.from
        BY <1>6, <3>1 DEF Pc
      <4>2. Linked(i, s)
        BY <2>1, AnsweredIsLinked
      <4>3. Q.remote = s /\ Q.remote = h.from
        BY <1>0, <1>3, <1>4, <3>1, <4>1, <4>2 DEF Matching
      <4> QED
        BY <4>1, <4>3
    <3>2. CASE ~current
      BY <1>2, <2>1, <3>2 DEF Settling, AnswererKnows
    <3> QED
      BY <3>1, <3>2
  <2>2. CASE ~Answered(i, s)
    <3>1. [to |-> First, kind |-> "answer", sess |-> i, target |-> s] = answer
      BY <1>2, <1>5, <2>2 DEF Answered
    <3>2. i = h.id /\ s = h.from
      BY <3>1
    <3>3. current /\ pc'[Second].with = h.from
      <4>1. CASE current
        BY <1>6, <4>1 DEF Pc
      <4>2. CASE ~current
        BY <1>2, <3>2, <4>2
      <4> QED
        BY <4>1, <4>2
    <3> QED
      BY <3>2, <3>3
  <2> QED
    BY <2>1, <2>2
<1>8. InitiatorOffers'
  BY <1>5 DEF Settling, InitiatorOffers
<1> QED
  BY <1>7, <1>8 DEF Settling

LEMMA MakeOfferSettles ==
  ASSUME Connections, Settling, NEW x \in Peers, MakeOffer(x)
  PROVE  Settling'
<1>0. ConnectionsTyped /\ Roles
  BY DEF Connections
<1>1. x = First /\ pc[First] # None /\ pc[First].due
  BY <1>0 DEF MakeOffer, Roles
<1> DEFINE P == pc[First]
<1>2. /\ P \in Pc /\ P.sig # "have-remote-offer"
  BY <1>0, <1>1, Two DEF ConnectionsTyped, Roles, Answering
<1>3. /\ pc' = [pc EXCEPT ![First].due = FALSE,
                          ![First].sig = IF @ = "stable" THEN "have-local-offer" ELSE @]
      /\ \A n \in net' : n.kind = "answer" => n \in net
  BY <1>1 DEF MakeOffer
<1>4. /\ pc'[First] = [P EXCEPT !.due = FALSE,
                                !.sig = IF @ = "stable" THEN "have-local-offer" ELSE @]
      /\ pc'[Second] = pc[Second]
  BY <1>0, <1>1, <1>3, Two DEF ConnectionsTyped
<1>5. /\ pc'[First].id = P.id /\ pc'[First].with = P.with /\ pc'[First].polite = P.polite
      /\ pc'[First].sig = "have-local-offer"
  BY <1>2, <1>4 DEF Pc
<1>6. FirstMoves /\ SecondMoves
  BY <1>1, <1>4, <1>5 DEF FirstMoves, SecondMoves
<1> QED
  BY <1>3, <1>6, MovesSettle

LEMMA ComingAndGoingSettles ==
  ASSUME Connections, Settling, NEW x \in Peers,
         \/ \E m \in net : Forget(x, m)
         \/ HearBeacon(x) \/ Prune(x)
         \/ \E n \in 1..life[Other(x)] : HearLeave(x, n)
         \/ LoseRemote(x) \/ Break(x)
         \/ Leave(x) \/ Kill(x) \/ Start(x)
  PROVE  Settling'
<1>0. pc \in [Peers -> {None} \union Pc]
  BY DEF Connections, ConnectionsTyped
<1>1. ASSUME pc' = pc \/ pc' = [pc EXCEPT ![x] = None],
             \A m \in net' : m.kind = "answer" => m \in net
      PROVE  Settling'
  <2>1. \A y \in Peers : pc'[y] = pc[y] \/ pc'[y] = None
    BY <1>0, <1>1
  <2>2. FirstMoves /\ SecondMoves
    BY <2>1, Two DEF FirstMoves, SecondMoves
  <2> QED
    BY <1>1, <2>2, MovesSettle
<1>2. CASE HearBeacon(x) /\ pc[x] = None
  <2>1. /\ pc' = [pc EXCEPT ![x] = Fresh(x, life[Other(x)])]
        /\ net' = net \union {TrackInfo(x)}
    BY <1>2 DEF HearBeacon, Create
  <2>2. \A m \in net' : m.kind = "answer" => m \in net
    BY <2>1 DEF TrackInfo
  <2>3. /\ pc'[x].id = made[x] + 1 /\ pc'[x].with = NoSession
        /\ pc'[x].polite \/ pc'[x].due
    BY <1>0, <2>1, FreshFacts
  <2>4. \A y \in Peers : y # x => pc'[y] = pc[y]
    BY <1>0, <2>1
  <2>5. FirstMoves /\ SecondMoves
    BY <2>3, <2>4, Two DEF FirstMoves, SecondMoves
  <2> QED
    BY <2>2, <2>5, MovesSettle
<1>3. CASE HearBeacon(x) /\ pc[x] # None
  BY <1>1, <1>3 DEF HearBeacon, Create
<1>4. CASE \E m \in net : Forget(x, m)
  BY <1>1, <1>4 DEF Forget, local
<1>5. CASE Prune(x) \/ LoseRemote(x) \/ Break(x)
  BY <1>1, <1>5 DEF Prune, LoseRemote, Break, TearDown
<1>6. CASE \E n \in 1..life[Other(x)] : HearLeave(x, n)
  BY <1>1, <1>6 DEF HearLeave, TearDown
<1>7. CASE Leave(x) \/ Kill(x)
  BY <1>1, <1>7 DEF Leave, Kill, Ended, TearDown
<1>8. CASE Start(x)
  BY <1>1, <1>8 DEF Start, local
<1> QED
  BY <1>2, <1>3, <1>4, <1>5, <1>6, <1>7, <1>8

LEMMA SettlingHolds == Spec => [](Inv /\ Settling)
<1>1. Init => Inv /\ Settling
  BY InitInv, InitSettling
<1>2. ASSUME Inv, Settling, [Next]_vars
      PROVE  Settling'
  <2>0. Connections
    BY <1>2 DEF Inv
  <2>1. ASSUME NEW x \in Peers, NEW m \in net, Receive(x, m) PROVE Settling'
    BY <1>2, <2>1, ReceiveSettles
  <2>2. ASSUME NEW x \in Peers, NEW h \in busy[x], Answer(x, h) PROVE Settling'
    BY <1>2, <2>0, <2>2, AnswerSettles
  <2>3. ASSUME NEW x \in Peers, MakeOffer(x) PROVE Settling'
    BY <1>2, <2>0, <2>3, MakeOfferSettles
  <2>4. ASSUME NEW x \in Peers,
               \/ \E m \in net : Forget(x, m)
               \/ HearBeacon(x) \/ Prune(x)
               \/ \E n \in 1..life[Other(x)] : HearLeave(x, n)
               \/ LoseRemote(x) \/ Break(x)
               \/ Leave(x) \/ Kill(x) \/ Start(x)
        PROVE Settling'
    BY <1>2, <2>0, <2>4, ComingAndGoingSettles
  <2>5. CASE UNCHANGED vars
    <3>1. pc' = pc /\ net' = net
      BY <2>5 DEF vars, local
    <3>2. FirstMoves /\ SecondMoves
      BY <3>1 DEF FirstMoves, SecondMoves
    <3> QED
      BY <1>2, <2>0, <3>1, <3>2, MovesSettle
  <2> QED
    BY <1>2, <2>1, <2>2, <2>3, <2>4, <2>5 DEF Next
<1>3. Inv /\ Settling /\ [Next]_vars => (Inv /\ Settling)'
  BY <1>2, NextInv
<1> QED
  BY <1>1, <1>3, PTL DEF Spec

\* However signals, connections and processes were lost and late: once no offer
\* and no answer is on its way, two peers that have connections have one
\* together, or the first notices that its other end is gone, or they wait in
\* one of the two ways that the code has.
THEOREM OnlyTheTwoWait == Spec => []NobodyStranded
<1>1. Inv /\ Settling => NobodyStranded
  <2> SUFFICES ASSUME Inv, Settling,
                      \A x \in Peers : pc[x] # None /\ busy[x] = {} /\ ~pc[x].due,
                      \A m \in net : m.kind \notin {"offer", "answer"},
                      ~Bereft(First), ~BothPolite
               PROVE  Joined(First) \/ Unanswered
    BY DEF NobodyStranded
  <2> DEFINE P == pc[First]
             Q == pc[Second]
  <2>1. /\ P # None /\ Q # None /\ ~P.due /\ ~P.polite /\ busy[Second] = {}
        /\ P \in Pc /\ Q \in Pc
    BY Two DEF BothPolite, Inv, Connections, ConnectionsTyped
  <2>2. CASE P.sig = "have-local-offer"
    BY <2>1, <2>2 DEF Unanswered
  <2>3. CASE P.with # NoSession
    <3>1. Q.id = P.with
      BY <2>1, <2>3, Two DEF Bereft
    <3>2. P.id \in Sessions /\ Q.id \in Sessions /\ Answered(Q.id, P.id)
      BY <2>1, <3>1 DEF Answered, Pc
    <3>3. Q.with = P.id
      BY <2>1, <3>2 DEF Settling, AnswererKnows
    <3> QED
      BY <2>1, <3>1, <3>3, Two DEF Joined
  <2> QED
    BY <2>1, <2>2, <2>3 DEF Settling, InitiatorOffers
<1> QED
  BY <1>1, SettlingHolds, PTL
===============================================================================
