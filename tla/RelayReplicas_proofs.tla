------------------------- MODULE RelayReplicas_proofs -------------------------
(* Types and replicas of RelayReplicas, for any relays, rooms, versions and   *)
(* staleness.                                                                 *)
EXTENDS RelayReplicas, FiniteSetTheorems, TLAPS

\* The newest version that a relay sent, by a relay that sent it.
ChannelNewest ==
  /\ \E r \in Relays : told[r] = channel.at
  /\ \A r \in Relays : told[r] <= channel.at
  /\ channel.relays = {r \in Relays : told[r] = channel.at /\ channel.at # 0}

\* The count is that of the holders, and while there are some nothing is missed.
Counted == refs = Cardinality(holders)
ListsNewest == refs # 0 => lists = sent

Inv == TypeOK /\ ChannelNewest /\ Counted /\ ListsNewest

LEMMA MaxOfTwo ==
  ASSUME NEW a \in Nat, NEW b \in Nat
  PROVE  Max({a, b}) = IF a >= b THEN a ELSE b
<1> DEFINE m == IF a >= b THEN a ELSE b
<1>1. m \in {a, b} /\ \A y \in {a, b} : m >= y
  OBVIOUS
<1>2. \A x \in {a, b} : (\A y \in {a, b} : x >= y) => x = m
  OBVIOUS
<1>3. Max({a, b}) \in {a, b} /\ \A y \in {a, b} : Max({a, b}) >= y
  BY <1>1 DEF Max
<1> QED
  BY <1>2, <1>3

LEMMA InitInv == Init => Inv
<1> SUFFICES ASSUME Init PROVE Inv
  OBVIOUS
<1>1. TypeOK
  BY ReplicaAssumption DEF Init, TypeOK, NoChannel, NoLists, Kinds
<1>2. ChannelNewest
  BY ReplicaAssumption DEF Init, ChannelNewest, NoChannel
<1>3. Counted /\ ListsNewest
  BY FS_EmptySet DEF Init, Counted, ListsNewest
<1> QED
  BY <1>1, <1>2, <1>3 DEF Inv

----------------------------------------------------------------------------
(* Subscriptions *)

\* What is left alone by whatever subscribes, looks or disconnects.
LEMMA SubscriptionsKeepInv ==
  ASSUME Inv,
         \/ StartListener \/ Stop \/ Tick
         \/ \E r \in Relays : \/ WatchdogLooks(r) \/ Disconnect(r) \/ Reconnect(r)
                              \/ CloseControl(r) \/ ControlEvent(r)
  PROVE  Inv'
<1> USE DEF Inv
<1>1. UNCHANGED <<metadata, membership>>
  BY DEF StartListener, Stop, Tick, WatchdogLooks, Disconnect, Reconnect, CloseControl, ControlEvent
<1>2. ChannelNewest' /\ Counted' /\ ListsNewest'
  BY <1>1 DEF metadata, membership, ChannelNewest, Counted, ListsNewest
<1>3. 0 \in 0..(Stale + 1) /\ Stale \in Nat
  BY ReplicaAssumption
<1>4. CASE StartListener
  BY <1>1, <1>2, <1>3, <1>4 DEF StartListener, TypeOK, Opened, metadata, membership
<1>5. CASE Stop
  BY <1>1, <1>2, <1>5 DEF Stop, TypeOK, metadata, membership
<1>6. CASE Tick
  <2>1. evAge' \in [Relays -> 0..(Stale + 1)]
    BY <1>3, <1>6 DEF Tick, TypeOK
  <2> QED
    BY <1>1, <1>2, <1>6, <2>1 DEF Tick, TypeOK, metadata, membership
<1>7. ASSUME NEW r \in Relays, WatchdogLooks(r) PROVE TypeOK'
  <2>1. CASE IsStale(r) /\ Resubscribe(r)
    BY <1>1, <1>3, <1>7, <2>1 DEF WatchdogLooks, Resubscribe, Opened, TypeOK, metadata, membership
  <2>2. CASE UNCHANGED <<control, evAge>>
    BY <1>1, <1>7, <2>2 DEF WatchdogLooks, TypeOK, metadata, membership
  <2> QED
    BY <1>7, <2>1, <2>2 DEF WatchdogLooks
<1>8. ASSUME NEW r \in Relays, Disconnect(r) PROVE TypeOK'
  BY <1>1, <1>8 DEF Disconnect, Lost, TypeOK, metadata, membership
<1>9. ASSUME NEW r \in Relays, Reconnect(r) \/ CloseControl(r) PROVE TypeOK'
  BY <1>1, <1>9 DEF Reconnect, CloseControl, TypeOK, metadata, membership
<1>10. ASSUME NEW r \in Relays, ControlEvent(r) PROVE TypeOK'
  BY <1>1, <1>3, <1>10 DEF ControlEvent, TypeOK, metadata, membership
<1> QED
  BY <1>2, <1>4, <1>5, <1>6, <1>7, <1>8, <1>9, <1>10

----------------------------------------------------------------------------
(* Replicas *)

\* A registry that has just started has no channel and was told of none.
LEMMA StartKeepsInv ==
  ASSUME Inv, StartRegistry
  PROVE  Inv'
<1> USE DEF Inv, StartRegistry
<1>1. TypeOK'
  BY ReplicaAssumption DEF TypeOK, Opened, NoChannel, membership
<1>2. ChannelNewest'
  BY ReplicaAssumption DEF ChannelNewest, NoChannel
<1>3. Counted' /\ ListsNewest'
  BY DEF Counted, ListsNewest, membership
<1> QED
  BY <1>1, <1>2, <1>3

\* Metadata in any order leave the newest.
LEMMA MetadataKeepsInv ==
  ASSUME Inv, NEW r \in Relays, NEW at \in Times, Metadata(r, at)
  PROVE  Inv'
<1> USE DEF Inv
<1>0. /\ at \in Nat /\ at # 0 /\ at \in 0..MaxAt /\ MaxAt \in Nat
      /\ channel.at \in Nat /\ told \in [Relays -> 0..MaxAt] /\ told[r] \in Nat
  BY ReplicaAssumption DEF Times, TypeOK
<1>1. told' = [told EXCEPT ![r] = IF told[r] >= at THEN told[r] ELSE at]
  BY <1>0, MaxOfTwo DEF Metadata
<1>2. UNCHANGED <<reachable, control, registry, toCheck, membership>> /\ Ingest(r, at)
  BY DEF Metadata
<1>3. told' \in [Relays -> 0..MaxAt]
  BY <1>0, <1>1
<1>4. channel' \in [at : 0..MaxAt, relays : SUBSET Relays] /\ ChannelNewest'
  <2>1. CASE at < channel.at /\ UNCHANGED channel
    BY <1>0, <1>1, <2>1 DEF ChannelNewest, TypeOK
  <2>2. CASE at = channel.at /\ channel' = [channel EXCEPT !.relays = @ \union {r}]
    <3>1. channel'.at = at /\ channel'.relays = channel.relays \union {r}
      BY <2>2 DEF TypeOK
    <3>2. told[r] <= at /\ told'[r] = at
      BY <1>0, <1>1, <2>2 DEF ChannelNewest
    <3>3. \A q \in Relays : q # r => told'[q] = told[q]
      BY <1>0, <1>1
    <3> QED
      BY <1>0, <2>2, <3>1, <3>2, <3>3 DEF ChannelNewest, TypeOK
  <2>3. CASE at > channel.at /\ channel' = [at |-> at, relays |-> {r}]
    <3>1. told'[r] = at
      BY <1>0, <1>1, <2>3 DEF ChannelNewest
    <3>2. \A q \in Relays : q # r => told'[q] = told[q] /\ told[q] < at
      BY <1>0, <1>1, <2>3 DEF ChannelNewest
    <3> QED
      BY <1>0, <2>3, <3>1, <3>2 DEF ChannelNewest
  <2> QED
    BY <1>0, <1>2, <2>1, <2>2, <2>3 DEF Ingest, AsOld
<1>5. evAge' \in [Relays -> 0..(Stale + 1)]
  BY ReplicaAssumption DEF Metadata, TypeOK
<1>6. TypeOK'
  BY <1>2, <1>3, <1>4, <1>5 DEF TypeOK, membership
<1> QED
  BY <1>2, <1>4, <1>6 DEF Counted, ListsNewest, membership

\* Watches are counted, and the last release ends them.
LEMMA HoldersKeepInv ==
  ASSUME Inv, NEW x \in Rooms, Watch(x) \/ Release(x)
  PROVE  Inv'
<1> USE DEF Inv
<1>0. IsFiniteSet(holders) /\ refs \in Nat /\ refs = Cardinality(holders)
  BY ReplicaAssumption, FS_Subset DEF TypeOK, Counted
<1>1. UNCHANGED <<subs, metadata>>
  BY DEF Watch, Release
<1>2. ChannelNewest'
  BY <1>1 DEF ChannelNewest, metadata
<1>3. NoLists \in [Kinds -> 0..MaxAt]
  BY ReplicaAssumption DEF NoLists
<1>4. CASE Watch(x)
  <2>1. Counted'
    BY <1>0, <1>4, FS_AddElement DEF Watch, Counted
  <2>2. TypeOK'
    BY <1>0, <1>1, <1>3, <1>4 DEF Watch, TypeOK, subs, metadata
  <2>3. ListsNewest'
    BY <1>0, <1>4 DEF Watch, ListsNewest
  <2> QED
    BY <1>2, <2>1, <2>2, <2>3
<1>5. CASE Release(x)
  <2>1. Cardinality(holders \ {x}) = refs - 1 /\ refs - 1 \in Nat
    <3>1. x \in holders
      BY <1>5 DEF Release
    <3>2. Cardinality(holders \ {x}) = Cardinality(holders) - 1
      BY <1>0, <3>1, FS_RemoveElement
    <3>3. Cardinality(holders \ {x}) \in Nat
      BY <1>0, FS_RemoveElement, FS_CardinalityType
    <3> QED
      BY <1>0, <3>2, <3>3
  <2>2. Max({refs - 1, 0}) = refs - 1
    BY <2>1, MaxOfTwo
  <2>3. /\ refs' = refs - 1 /\ UNCHANGED sent
        /\ (refs # 1 => UNCHANGED lists) /\ (refs = 1 => lists' = NoLists)
    BY <1>0, <1>5, <2>2 DEF Release, LastOut
  <2>4. Counted'
    BY <1>5, <2>1, <2>3 DEF Release, Counted
  <2>5. TypeOK'
    BY <1>0, <1>1, <1>3, <1>5, <2>1, <2>3 DEF Release, TypeOK, subs, metadata
  <2>6. ListsNewest'
    BY <1>0, <2>1, <2>3 DEF ListsNewest
  <2> QED
    BY <1>2, <2>4, <2>5, <2>6
<1> QED
  BY <1>4, <1>5

\* Lists in any order leave the newest of each kind.
LEMMA ListKeepsInv ==
  ASSUME Inv, NEW k \in Kinds, NEW at \in Times, List(k, at)
  PROVE  Inv'
<1> USE DEF Inv
<1>0. /\ at \in Nat /\ at \in 0..MaxAt /\ lists = sent /\ refs # 0
      /\ sent \in [Kinds -> 0..MaxAt] /\ sent[k] \in Nat
  BY ReplicaAssumption DEF Times, TypeOK, List, ListsNewest
<1>1. sent' = [sent EXCEPT ![k] = IF sent[k] >= at THEN sent[k] ELSE at]
  BY <1>0, MaxOfTwo DEF List
<1>2. lists' = sent' /\ sent' \in [Kinds -> 0..MaxAt]
  <2>1. CASE at < lists[k] /\ UNCHANGED lists
    BY <1>0, <1>1, <2>1
  <2>2. CASE ~(at < lists[k]) /\ lists' = [lists EXCEPT ![k] = at]
    <3>1. (IF sent[k] >= at THEN sent[k] ELSE at) = at
      BY <1>0, <2>2
    <3> QED
      BY <1>0, <1>1, <2>2, <3>1
  <2> QED
    BY <2>1, <2>2 DEF List, Outdated
<1>3. UNCHANGED <<subs, metadata, refs, holders>>
  BY DEF List
<1>4. TypeOK'
  BY <1>0, <1>2, <1>3 DEF TypeOK, subs, metadata
<1> QED
  BY <1>2, <1>3, <1>4 DEF ChannelNewest, Counted, ListsNewest, metadata

----------------------------------------------------------------------------
(* Theorems *)

LEMMA InvHolds == Spec => []Inv
<1>1. ASSUME Inv, [Next]_vars PROVE Inv'
  <2>1. CASE UNCHANGED vars
    <3>1. TypeOK'
      BY <1>1, <2>1 DEF vars, subs, metadata, membership, Inv, TypeOK
    <3>2. ChannelNewest' /\ Counted' /\ ListsNewest'
      BY <1>1, <2>1 DEF vars, metadata, membership, Inv, ChannelNewest, Counted, ListsNewest
    <3> QED
      BY <3>1, <3>2 DEF Inv
  <2> QED
    BY <1>1, <2>1, SubscriptionsKeepInv, StartKeepsInv, MetadataKeepsInv, HoldersKeepInv,
       ListKeepsInv DEF Next
<1> QED
  BY <1>1, InitInv, PTL DEF Spec

\* Subscriptions that are live are those of relays that are reached, and the
\* watchdog looks only at relays that have one.
THEOREM TypesHold == Spec => []TypeOK
BY InvHolds, PTL DEF Inv

\* The registry has the newest metadata of any relay and its senders; a room
\* that watches has the newest lists, whatever other rooms do.
THEOREM ReplicasStayNewest == Spec => []ReplicasAreNewest
<1>1. ASSUME Inv PROVE ReplicasAreNewest
  <2> DEFINE S == {told[r] : r \in Relays}
  <2>1. channel.at \in S /\ \A y \in S : channel.at >= y
    BY <1>1 DEF Inv, ChannelNewest, TypeOK
  <2>2. S \subseteq Nat
    BY <1>1, ReplicaAssumption DEF Inv, TypeOK
  <2>3. \A x \in S : (\A y \in S : x >= y) => x = channel.at
    BY <2>1, <2>2
  <2>4. Max(S) = channel.at
    BY <2>1, <2>3 DEF Max
  <2>5. holders # {} => refs # 0
    BY <1>1, ReplicaAssumption, FS_Subset, FS_EmptySet DEF Inv, TypeOK, Counted
  <2> QED
    BY <1>1, <2>4, <2>5 DEF Inv, ReplicasAreNewest, ChannelNewest, Counted, ListsNewest
<1> QED
  BY <1>1, InvHolds, PTL
===============================================================================
