--------------------------- MODULE ControlListener ---------------------------
(***************************************************************************)
(* Kind 25052 control events and the room of one channel under them:       *)
(* handle() of src/src/call-listener.ts with its dedupe and its checks of  *)
(* src/src/auth.ts, the rules and the end-of-call timer of the room, and   *)
(* the dial gate of its requests.                                          *)
(*                                                                         *)
(* Every relay may deliver every event at any time and again: each relay   *)
(* has its own subscription, and a rebuilt one asks for everything since   *)
(* the boot.  Time is counted in ticks, timers fire on time.               *)
(***************************************************************************)
EXTENDS Integers, FiniteSets

CONSTANTS
  Users,           \* Nostr pubkeys
  Operator,        \* cfg.operatorPubkey ?? relay.pubkey
  Allowed,         \* cfg.allowedPubkeys and followAllowedPubkeys
  Relays,          \* cfg.relays and cfg.trustedAuthorRelays
  Trusted,         \* cfg.trustedAuthorRelays
  Strict,          \* cfg.requireAllowedPubkey
  BypassUntil,     \* cfg.whitelistBypassUntil; 0 when not set
  Events,          \* ids of control events
  Event,           \* per id: sender, action, expires, target, params
  NoEnd,           \* endsAt: null
  Everyone,        \* allow: null
  Durations,       \* what cfg.maxCallDurationSeconds may be set to; 0 disables
  Puts,            \* bound: PUTs of /admin/state that await a follow sync at once
  Idle,            \* not awaiting: no duration
  Ttl,             \* how long an event id is remembered (300 s)
  SeenLimit,       \* ids that are kept before old ones are collected (256)
  MaxDelay,        \* the longest delay setTimeout takes (2^31 - 1 ms)
  MaxTime          \* bound: ticks

ASSUME ControlAssumption ==
  /\ Operator \in Users /\ Allowed \subseteq Users /\ Trusted \subseteq Relays
  /\ Strict \in BOOLEAN
  /\ \A e \in Events :
       LET p == Event[e].params IN
       /\ Event[e].sender \in Users /\ Event[e].expires \in Nat
       /\ "allow" \in DOMAIN p => p.allow \in {Everyone} \union SUBSET Users
       /\ "deny" \in DOMAIN p => p.deny \in SUBSET Users
       /\ "endsAt" \in DOMAIN p => p.endsAt \in {NoEnd} \union Nat
  /\ {BypassUntil, Ttl, SeenLimit, MaxDelay, MaxTime} \subseteq Nat
  /\ Durations \subseteq Nat /\ Durations # {} /\ Idle \notin Durations
  /\ NoEnd \notin Nat

VARIABLES
  now,
  seen,      \* seenEventIds: event -> when it may be forgotten
  phase,     \* of the channel's room: "none", "starting", "active", "closed"
  host,      \* hostPubkey
  rules,     \* RoomRules
  startedAt,
  duration,  \* cfg.maxCallDurationSeconds
  prev,      \* per PUT that awaits its sync: prevMaxDuration; else Idle
  timer,     \* when endsAtTimer fires, or NoEnd
  inside,    \* the users in the peer table
  acted      \* history: how often an event got past the checks for all actions

room == <<phase, host, rules, startedAt, timer, inside>>
ceiling == <<duration, prev>>
vars == <<now, seen, room, ceiling, acted>>

RuleSet == [allow : {Everyone} \union SUBSET Users, deny : SUBSET Users,
            endsAt : {NoEnd} \union Nat]

\* A type invariant; a room has members and a timer only while it is active.
TypeOK ==
  /\ now \in 0..MaxTime
  /\ DOMAIN seen \subseteq Events
  /\ \A e \in DOMAIN seen : seen[e] \in Ttl..(now + Ttl)
  /\ phase \in {"none", "starting", "active", "closed"}
  /\ host \in Users
  /\ rules \in RuleSet
  /\ startedAt \in 0..now
  /\ duration \in Durations /\ prev \in [Puts -> Durations \union {Idle}]
  /\ timer \in {NoEnd} \union 0..(MaxTime + MaxDelay)
  /\ inside \in SUBSET Users
  /\ phase # "active" => timer = NoEnd /\ inside = {}
  /\ acted \in [Events -> 0..2]

StartingRules == [allow |-> Everyone, deny |-> {}, endsAt |-> NoEnd]

Init ==
  /\ now = 0
  /\ seen = [e \in {} |-> 0]
  /\ phase = "none" /\ host = Operator /\ rules = StartingRules
  /\ startedAt = 0 /\ timer = NoEnd /\ inside = {}
  /\ duration \in Durations /\ prev = [p \in Puts |-> Idle]
  /\ acted = [e \in Events |-> 0]

----------------------------------------------------------------------------
(* auth.ts *)

IsOperator(u) == u = Operator
WhitelistBypass == BypassUntil > now
IsAllowedToStart(u) == WhitelistBypass \/ IsOperator(u) \/ u \in Allowed
CanManageRoom(u) == u = host \/ IsOperator(u)
CanDialRoom(u) ==
  /\ u \notin rules.deny
  /\ rules.allow # Everyone => u \in rules.allow

----------------------------------------------------------------------------
(* The end-of-call timer: scheduleEndsAt *)

\* When the call has to end: by its rules, by the server's ceiling.
EndsOf(r, started, limit) ==
  (IF r.endsAt = NoEnd THEN {} ELSE {r.endsAt})
    \union (IF limit > 0 THEN {started + limit} ELSE {})
Earliest(T) == CHOOSE t \in T : \A s \in T : t <= s

\* setTimeout takes a delay that is too long as none.
FiresAt(end) == IF end - now > MaxDelay THEN now ELSE end

\* The part of close() before its await; the room stays listed until it ends.
CloseRoomTimerKept == phase' = "closed" /\ timer' = timer /\ inside' = {}
CloseRoom ==
  /\ phase' = "closed"
  /\ timer' = NoEnd
  /\ inside' = {}

ScheduleEndsAt(r, started, limit) ==
  LET ends == EndsOf(r, started, limit) IN
  \/ /\ ends = {}
     /\ timer' = NoEnd
     /\ phase' = "active" /\ UNCHANGED inside
  \/ /\ ends # {} /\ Earliest(ends) <= now
     /\ CloseRoom
  \/ /\ ends # {} /\ Earliest(ends) > now
     /\ timer' = FiresAt(Earliest(ends))
     /\ phase' = "active" /\ UNCHANGED inside

\* The same in a room that is not active: it only clears the timer.
RearmedKept(r, limit) == phase' = phase /\ timer' = timer /\ inside' = inside
Rearmed(r, limit) ==
  IF phase = "active" THEN ScheduleEndsAt(r, startedAt, limit)
  ELSE phase' = phase /\ timer' = NoEnd /\ inside' = inside

EndsAtTimeout ==
  /\ timer # NoEnd /\ timer <= now
  /\ CloseRoom
  /\ UNCHANGED <<now, seen, host, rules, startedAt, ceiling, acted>>

----------------------------------------------------------------------------
(* handle(): dedupe, expiry, dispatch *)

\* gcSeen: ids are collected only when there are many, and only old ones.
OldAtOnce(t) == t <= now
Old(t) == t < now
Kept == IF Cardinality(DOMAIN seen) < SeenLimit THEN DOMAIN seen
        ELSE {e \in DOMAIN seen : ~Old(seen[e])}

\* rememberEvent
Remember(e) ==
  /\ e \notin Kept
  /\ seen' = [x \in Kept \union {e} |-> IF x \in Kept THEN seen[x] ELSE now + Ttl]

Expired(e) == Event[e].expires < now

Acts(e) ==
  /\ Remember(e)
  /\ ~Expired(e)
  /\ acted' = [acted EXCEPT ![e] = IF @ = 2 THEN 2 ELSE @ + 1]
  /\ UNCHANGED <<now, ceiling>>

\* mergeRules: a field that the event does not give stays.
MergeRules(base, params) ==
  [f \in DOMAIN base |-> IF f \in DOMAIN params THEN params[f] ELSE base[f]]

\* A copy of an event that was handled, or an event that is too late.
Ignore(e) ==
  /\ \/ e \in Kept /\ UNCHANGED seen
     \/ Remember(e) /\ Expired(e)
  /\ UNCHANGED <<now, room, ceiling, acted>>

MayStart(r, e) ==
  IF Strict THEN IsAllowedToStart(Event[e].sender)
  ELSE r \in Trusted \/ IsAllowedToStart(Event[e].sender)

\* handleStart up to the await in RoomManager.start.
Start(r, e) ==
  /\ Event[e].action = "start"
  /\ Acts(e)
  /\ MayStart(r, e)
  /\ phase = "none"
  /\ phase' = "starting"
  /\ host' = Event[e].sender
  /\ rules' = MergeRules(StartingRules, Event[e].params)
  /\ startedAt' = 0
  /\ UNCHANGED <<timer, inside>>

\* handleEnd.  Bound: no room is ended while it starts (SfuRooms has that).
End(e) ==
  /\ Event[e].action = "end"
  /\ Acts(e)
  /\ phase \in {"active", "closed"} /\ CanManageRoom(Event[e].sender)
  /\ CloseRoom
  /\ UNCHANGED <<host, rules, startedAt>>

\* handleKick; SfuRoom has what kick() does with devices and its await.
Kick(e) ==
  /\ Event[e].action = "kick"
  /\ Acts(e)
  /\ phase # "none" /\ CanManageRoom(Event[e].sender)
  /\ inside' = inside \ {Event[e].target}
  /\ UNCHANGED <<phase, host, rules, startedAt, timer>>

\* handleUpdate and updateRules; they do not look at who is inside.
Update(e) ==
  /\ Event[e].action = "update"
  /\ Acts(e)
  /\ phase # "none" /\ CanManageRoom(Event[e].sender)
  /\ rules' = MergeRules(rules, Event[e].params)
  /\ Rearmed(rules', duration)
  /\ UNCHANGED <<host, startedAt>>

\* Unauthorised, or for a room that is there or not there; a start is also
\* refused at maxRooms and in a channel of another kind, which SfuRooms and
\* the channel registry decide.
Refuse(e) ==
  /\ Acts(e)
  /\ \/ Event[e].action = "start"
     \/ phase = "none"
     \/ ~CanManageRoom(Event[e].sender)
  /\ UNCHANGED room

----------------------------------------------------------------------------
(* The room *)

\* start() after its await: the room is active, and its timer armed.
Started ==
  /\ phase = "starting"
  /\ startedAt' = now
  /\ ScheduleEndsAt(rules, now, duration)
  /\ UNCHANGED <<now, seen, host, rules, ceiling, acted>>

\* start() rejects, or the closing room has published its end.
Unlist ==
  /\ phase \in {"starting", "closed"}
  /\ phase' = "none"
  /\ rules' = StartingRules
  /\ UNCHANGED <<now, seen, host, startedAt, timer, inside, ceiling, acted>>

\* The end of a PUT that found the ceiling at before: only if it is d now, and
\* not what it was, is every room rearmed.
RearmsWhenLower(before, d) ==
  \/ d < before /\ Rearmed(rules, d)
  \/ d >= before /\ UNCHANGED <<phase, timer, inside>>
RearmDurationLimits(before, d) ==
  \/ d # before /\ Rearmed(rules, d)
  \/ d = before /\ UNCHANGED <<phase, timer, inside>>

\* The admin sets the ceiling.  A patch with referents has the request await the
\* sync of their follows first: until then every timer stays as it is.
SetMaxDuration(d) ==
  /\ duration' = d
  /\ \/ /\ \E p \in Puts :
             prev[p] = Idle /\ prev' = [prev EXCEPT ![p] = duration]
        /\ UNCHANGED <<phase, timer, inside>>
     \/ /\ RearmDurationLimits(duration, d)
        /\ UNCHANGED prev
  /\ UNCHANGED <<now, seen, host, rules, startedAt, acted>>

\* The sync has ended, or has failed.
SyncEnds(p) ==
  /\ prev[p] # Idle
  /\ prev' = [prev EXCEPT ![p] = Idle]
  /\ RearmDurationLimits(prev[p], duration)
  /\ UNCHANGED <<now, seen, host, rules, startedAt, duration, acted>>

\* The first request of a user gets past the dial gate.
Dial(u) ==
  /\ phase = "active" /\ u \notin inside
  /\ CanDialRoom(u)
  /\ inside' = inside \union {u}
  /\ UNCHANGED <<now, seen, phase, host, rules, startedAt, timer, ceiling, acted>>

\* leave bypasses the gate; a disconnect asks nobody.
Leave(u) ==
  /\ u \in inside
  /\ inside' = inside \ {u}
  /\ UNCHANGED <<now, seen, phase, host, rules, startedAt, timer, ceiling, acted>>

Tick ==
  /\ now < MaxTime
  /\ timer # NoEnd => timer > now
  /\ now' = now + 1
  /\ UNCHANGED <<seen, room, ceiling, acted>>

Deliver(r, e) ==
  \/ Ignore(e)
  \/ Start(r, e) \/ End(e) \/ Kick(e) \/ Update(e)
  \/ Refuse(e)

Next ==
  \/ \E r \in Relays, e \in Events : Deliver(r, e)
  \/ Started \/ Unlist
  \/ EndsAtTimeout
  \/ \E d \in Durations : SetMaxDuration(d)
  \/ \E p \in Puts : SyncEnds(p)
  \/ \E u \in Users : Dial(u) \/ Leave(u)
  \/ Tick

Spec == Init /\ [][Next]_vars

----------------------------------------------------------------------------
(* Properties *)

\* An event that expires while its id is remembered acts at most once, however
\* many relays deliver it, and although ids are collected when there are many.
ActsOnce == \A e \in Events : Event[e].expires <= Ttl => acted[e] <= 1

\* The ceiling in force and, while PUTs that set it still await their syncs, the
\* ceilings those found: rooms are rearmed only after the await.
Ceilings == {duration} \union ({prev[p] : p \in Puts} \ {Idle})

\* No call outlives its rules, nor the ceiling, whichever of them changed last,
\* before the room was active or after.  A change of the ceiling that still
\* awaits its follow sync may leave the call the ceiling before it; when all
\* those syncs have ended, in any order, only the ceiling in force counts.
RoomEndsInTime ==
  phase = "active" =>
    /\ rules.endsAt # NoEnd => now <= rules.endsAt
    /\ \E limit \in Ceilings : limit > 0 => now <= startedAt + limit

\* The timer ends no call early: a timer set for earlier rules is gone, and one
\* for an earlier ceiling too, but for the ceiling before a change that still
\* awaits its sync.  Only a delay that setTimeout does not take fires at once.
NoEarlyEnd ==
  [][EndsAtTimeout =>
       \E limit \in Ceilings :
         LET ends == EndsOf(rules, startedAt, limit) IN
         /\ ends # {}
         /\ Earliest(ends) <= now \/ Earliest(ends) > now + MaxDelay]_vars

\* The room of the channel lives as RoomLife has it, which is what SfuRooms
\* makes of it: no control event, change of the ceiling or timer moves it in
\* another order, and one whose end has passed closes as it starts.
Called == INSTANCE RoomLife
  WITH Channels <- {"its channel"}, life <- [c \in {"its channel"} |-> phase]
CallsRoomLife == Called!Spec
=============================================================================
