---------------------------- MODULE RelayReplicas ----------------------------
(***************************************************************************)
(* What the process learns from the relays, for one channel: the per-relay *)
(* subscriptions of the control listener, with the watchdog that rebuilds  *)
(* them (src/src/call-listener.ts), those of the channel registry          *)
(* (src/src/channel-registry.ts), which share its clock of each relay      *)
(* (src/src/relay.ts), and the member and admin lists that rooms watch     *)
(* (src/src/membership.ts).                                                *)
(*                                                                         *)
(* A tick is the interval of the watchdog.  Relays deliver what they have  *)
(* in any order and again; what control events do is ControlListener's.    *)
(***************************************************************************)
EXTENDS Integers, FiniteSets, FiniteSetsExt

CONSTANTS
  Relays,  \* write and read-only relays: both are subscribed to
  Rooms,   \* rooms of the channel, one after the other
  Stale,   \* WATCHDOG_STALENESS_MS (5 min)
  MaxAt    \* bound: created_at of metadata and lists; 0 is none yet

ASSUME ReplicaAssumption ==
  /\ Relays # {} /\ IsFiniteSet(Relays) /\ IsFiniteSet(Rooms)
  /\ Stale \in Nat /\ MaxAt \in Nat \ {0}

VARIABLES
  reachable, \* relays that can be reached and take subscriptions
  control,   \* per relay: the listener's subscription, "none", "live", "dead"
  registry,  \* per relay: the registry's subscription
  evAge,     \* per relay: since lastEventAt
  toCheck,   \* relays the watchdog's present turn has not looked at
  channel,   \* the registry's record: updatedAt and relays
  told,      \* history: per relay, the newest metadata it delivered
  refs,      \* refcount of the membership state, 0 when there is none
  holders,   \* rooms that hold a release function
  lists,     \* membersAt and adminsAt
  sent       \* history: the newest lists delivered since the watch began

subs == <<reachable, control, registry, evAge, toCheck>>
metadata == <<channel, told>>
membership == <<refs, holders, lists, sent>>
vars == <<subs, metadata, membership>>

Kinds == {"members", "admins"}
NoChannel == [at |-> 0, relays |-> {}]
NoLists == [k \in Kinds |-> 0]
Times == 1..MaxAt

\* A type invariant; live subscriptions are those of relays that are reached,
\* and the watchdog looks only at relays that have one.
TypeOK ==
  /\ reachable \subseteq Relays
  /\ control \in [Relays -> {"none", "live", "dead"}]
  /\ registry \in [Relays -> {"none", "live", "dead"}]
  /\ evAge \in [Relays -> 0..(Stale + 1)]
  /\ toCheck \subseteq {r \in Relays : control[r] # "none"}
  /\ \A r \in Relays : "live" \in {control[r], registry[r]} => r \in reachable
  /\ channel \in [at : 0..MaxAt, relays : SUBSET Relays]
  /\ told \in [Relays -> 0..MaxAt]
  /\ refs \in Nat /\ holders \subseteq Rooms
  /\ lists \in [Kinds -> 0..MaxAt] /\ sent \in [Kinds -> 0..MaxAt]
  /\ refs = 0 => lists = NoLists

Init ==
  /\ reachable \in SUBSET Relays
  /\ control = [r \in Relays |-> "none"]
  /\ registry = [r \in Relays |-> "none"]
  /\ evAge = [r \in Relays |-> 0]
  /\ toCheck = {}
  /\ channel = NoChannel
  /\ told = [r \in Relays |-> 0]
  /\ refs = 0 /\ holders = {}
  /\ lists = NoLists /\ sent = NoLists

----------------------------------------------------------------------------
(* Subscriptions: subscribeOneRelay touches lastEventAt, and answers come *)

Opened(r) == IF r \in reachable THEN "live" ELSE "dead"

\* A process boots: channels.start(), then listener.start().
StartRegistry ==
  /\ \A r \in Relays : registry[r] = "none" /\ control[r] = "none"
  /\ holders = {}
  /\ registry' = [r \in Relays |-> Opened(r)]
  /\ evAge' = [r \in Relays |-> 0]
  /\ channel' = NoChannel
  /\ told' = [r \in Relays |-> 0]
  /\ UNCHANGED <<reachable, control, toCheck, membership>>

StartListener ==
  /\ \A r \in Relays : registry[r] # "none" /\ control[r] = "none"
  /\ control' = [r \in Relays |-> Opened(r)]
  /\ evAge' = [r \in Relays |-> 0]
  /\ UNCHANGED <<reachable, registry, toCheck, metadata, membership>>

\* subscribeRelay: the old one goes first, whatever state it is in.
ResubscribeIfNone(r) == control' = control /\ evAge' = [evAge EXCEPT ![r] = 0]
Resubscribe(r) ==
  /\ control' = [control EXCEPT ![r] = Opened(r)]
  /\ evAge' = [evAge EXCEPT ![r] = 0]

IsStale(r) == evAge[r] > Stale

\* tickWatchdog, relay by relay.
WatchdogLooks(r) ==
  /\ r \in toCheck
  /\ toCheck' = toCheck \ {r}
  /\ \/ IsStale(r) /\ Resubscribe(r)
     \/ ~IsStale(r) /\ UNCHANGED <<control, evAge>>
  /\ UNCHANGED <<reachable, registry, metadata, membership>>

\* stop() of both, at the shutdown.
Stop ==
  /\ \E r \in Relays : control[r] # "none"
  /\ control' = [r \in Relays |-> "none"]
  /\ registry' = [r \in Relays |-> "none"]
  /\ toCheck' = {}
  /\ UNCHANGED <<reachable, evAge, metadata, membership>>

Tick ==
  /\ toCheck = {} /\ \E r \in Relays : control[r] # "none"
  /\ evAge' = [r \in Relays |-> IF evAge[r] > Stale THEN evAge[r] ELSE evAge[r] + 1]
  /\ toCheck' = {r \in Relays : control[r] # "none"}
  /\ UNCHANGED <<reachable, control, registry, metadata, membership>>

----------------------------------------------------------------------------
(* Relays *)

Lost(s) == IF s = "live" THEN "dead" ELSE s

\* The connection breaks; both subscriptions on it end, and nobody is told.
Disconnect(r) ==
  /\ r \in reachable
  /\ \/ reachable' = reachable \ {r}
     \/ UNCHANGED reachable
  /\ control' = [control EXCEPT ![r] = Lost(@)]
  /\ registry' = [registry EXCEPT ![r] = Lost(@)]
  /\ UNCHANGED <<evAge, toCheck, metadata, membership>>

Reconnect(r) ==
  /\ r \notin reachable
  /\ reachable' = reachable \union {r}
  /\ UNCHANGED <<control, registry, evAge, toCheck, metadata, membership>>

\* The relay ends one subscription: recordSubscribeClose only notes it.
CloseControl(r) ==
  /\ control[r] = "live"
  /\ control' = [control EXCEPT ![r] = "dead"]
  /\ UNCHANGED <<reachable, registry, evAge, toCheck, metadata, membership>>

\* A control event, or the end of the stored ones.
ControlEvent(r) ==
  /\ control[r] = "live"
  /\ evAge' = [evAge EXCEPT ![r] = 0]
  /\ UNCHANGED <<reachable, control, registry, toCheck, metadata, membership>>

----------------------------------------------------------------------------
(* The channel registry *)

\* ingest: an older version is nothing, an equal one adds its relay.
AsOldNever(at) == FALSE
AsOld(at) == channel.at # 0 /\ at = channel.at
Ingest(r, at) ==
  \/ at < channel.at /\ UNCHANGED channel
  \/ AsOld(at) /\ channel' = [channel EXCEPT !.relays = @ \union {r}]
  \/ at >= channel.at /\ ~AsOld(at) /\ channel' = [at |-> at, relays |-> {r}]

Metadata(r, at) ==
  /\ registry[r] = "live"
  /\ Ingest(r, at)
  /\ evAge' = [evAge EXCEPT ![r] = 0]
  /\ told' = [told EXCEPT ![r] = Max({@, at})]
  /\ UNCHANGED <<reachable, control, registry, toCheck, membership>>

----------------------------------------------------------------------------
(* Membership *)

\* A room starts and watches; the first watch subscribes.
Watch(x) ==
  /\ x \notin holders /\ \E r \in Relays : control[r] # "none"
  /\ holders' = holders \union {x}
  /\ refs' = refs + 1
  /\ IF refs = 0 THEN lists' = NoLists /\ sent' = NoLists ELSE UNCHANGED <<lists, sent>>
  /\ UNCHANGED <<subs, metadata>>

\* release, by channel id: the last one unsubscribes.
AnyOut(n) == TRUE
NoneOut(n) == FALSE
LastOut(n) == n = 1
Release(x) ==
  /\ x \in holders
  /\ holders' = holders \ {x}
  /\ IF LastOut(refs) THEN refs' = 0 /\ lists' = NoLists
     ELSE refs' = Max({refs - 1, 0}) /\ UNCHANGED lists
  /\ UNCHANGED <<subs, metadata, sent>>

Outdated(k, at) == at < lists[k]

\* ingest of a list: each kind has a time of its own.
List(k, at) ==
  /\ refs > 0
  /\ \/ Outdated(k, at) /\ UNCHANGED lists
     \/ ~Outdated(k, at) /\ lists' = [lists EXCEPT ![k] = at]
  /\ sent' = [sent EXCEPT ![k] = Max({@, at})]
  /\ UNCHANGED <<subs, metadata, refs, holders>>

----------------------------------------------------------------------------
Next ==
  \/ StartRegistry \/ StartListener \/ Stop \/ Tick
  \/ \E r \in Relays :
       \/ WatchdogLooks(r)
       \/ Disconnect(r) \/ Reconnect(r) \/ CloseControl(r) \/ ControlEvent(r)
       \/ \E at \in Times : Metadata(r, at)
  \/ \E x \in Rooms : Watch(x) \/ Release(x)
  \/ \E k \in Kinds, at \in Times : List(k, at)

Fairness ==
  /\ WF_vars(Tick)
  /\ \A r \in Relays : WF_vars(WatchdogLooks(r))

Spec == Init /\ [][Next]_vars /\ Fairness

----------------------------------------------------------------------------
(* Properties *)

\* The watchdog: "Without this, a relay disconnect leaves the SFU appearing
\* alive but deaf to incoming start events".  After one, the listener is
\* subscribed again, if the relay can be reached: also when it dropped the
\* new subscription before.
DisconnectedIsRebuilt ==
  \A r \in Relays :
    LET Deaf == control[r] = "dead" /\ registry[r] = "dead" /\ r \in reachable IN
    Deaf ~> ~Deaf

\* Whichever relay is first or repeats itself, the registry has the newest
\* metadata it was sent, and names the relays that sent that version.  A room
\* that watches hears of the lists while other rooms of its channel come and
\* go, and has the newest of each kind sent since.
ReplicasAreNewest ==
  /\ channel.at = Max({told[r] : r \in Relays})
  /\ channel.relays = {r \in Relays : told[r] = channel.at /\ channel.at # 0}
  /\ holders # {} => refs = Cardinality(holders) /\ lists = sent
=============================================================================
