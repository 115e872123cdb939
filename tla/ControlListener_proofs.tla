------------------------ MODULE ControlListener_proofs ------------------------
(* Each event acts once, each call ends in time and lives as a room does, for *)
(* any users, relays, events, times and limits.                               *)
EXTENDS ControlListener, TLAPS

\* A timer t for the ends of a call as they are at time n: it is not late, and
\* it is early only as setTimeout makes it.
Covers(t, n, ends) ==
  \/ ends = {} /\ t = NoEnd
  \/ /\ ends # {} /\ t \in Nat /\ n <= t
     /\ t = Earliest(ends) \/ (t = n /\ Earliest(ends) > n + MaxDelay)

\* The timer is armed for the ceiling in force, or for one that a PUT which
\* still awaits its sync has replaced.
TimerCovers ==
  phase = "active" =>
    \E limit \in Ceilings : Covers(timer, now, EndsOf(rules, startedAt, limit))

\* An event that acted is remembered, or too late to act again.
Remembered ==
  \A e \in Events : Event[e].expires <= Ttl =>
    /\ acted[e] <= 1
    /\ acted[e] = 1 => e \in DOMAIN seen \/ Expired(e)

Inv == TypeOK /\ TimerCovers /\ Remembered

\* The ends of a call are at most two times, so one is the earliest.
LEMMA EarliestFacts ==
  ASSUME NEW r \in RuleSet, NEW started \in Nat, NEW limit \in Nat,
         EndsOf(r, started, limit) # {}
  PROVE  /\ EndsOf(r, started, limit) \subseteq Nat
         /\ Earliest(EndsOf(r, started, limit)) \in EndsOf(r, started, limit)
         /\ \A t \in EndsOf(r, started, limit) : Earliest(EndsOf(r, started, limit)) <= t
<1> DEFINE ends == EndsOf(r, started, limit)
<1>0. NoEnd \notin Nat
  BY ControlAssumption
<1>1. r.endsAt = NoEnd \/ r.endsAt \in Nat
  BY DEF RuleSet
<1>2. ends \subseteq Nat
  BY <1>1 DEF EndsOf
<1>3. \E t \in ends : \A s \in ends : t <= s
  <2>1. CASE r.endsAt = NoEnd \/ ~(limit > 0)
    BY <1>1, <2>1 DEF EndsOf
  <2>2. CASE r.endsAt # NoEnd /\ limit > 0
    <3>1. ends = {r.endsAt, started + limit} /\ r.endsAt \in Nat
      BY <1>1, <2>2 DEF EndsOf
    <3>2. CASE r.endsAt <= started + limit
      BY <3>1, <3>2
    <3>3. CASE ~(r.endsAt <= started + limit)
      BY <3>1, <3>3
    <3> QED
      BY <3>2, <3>3
  <2> QED
    BY <2>1, <2>2
<1>4. Earliest(ends) \in ends /\ \A s \in ends : Earliest(ends) <= s
  BY <1>3 DEF Earliest
<1> QED
  BY <1>2, <1>4

\* scheduleEndsAt arms a timer for the earliest end, or closes the room.
LEMMA ScheduleFacts ==
  ASSUME NEW r \in RuleSet, NEW started \in Nat, NEW limit \in Nat,
         now \in 0..MaxTime, inside \in SUBSET Users,
         ScheduleEndsAt(r, started, limit)
  PROVE  /\ phase' \in {"active", "closed"} /\ inside' \in SUBSET Users
         /\ timer' \in {NoEnd} \union 0..(MaxTime + MaxDelay)
         /\ phase' = "closed" => timer' = NoEnd /\ inside' = {}
         /\ phase' = "active" => Covers(timer', now, EndsOf(r, started, limit))
<1> DEFINE ends == EndsOf(r, started, limit)
<1>0. MaxTime \in Nat /\ MaxDelay \in Nat /\ now \in Nat
  BY ControlAssumption
<1>1. CASE ends = {} /\ timer' = NoEnd /\ phase' = "active" /\ UNCHANGED inside
  BY <1>1 DEF Covers
<1>2. CASE CloseRoom
  BY <1>2 DEF CloseRoom
<1>3. CASE /\ ends # {} /\ Earliest(ends) > now
           /\ timer' = FiresAt(Earliest(ends))
           /\ phase' = "active" /\ UNCHANGED inside
  <2>1. Earliest(ends) \in Nat
    BY <1>3, EarliestFacts
  <2> DEFINE t == Earliest(ends)
  <2>2. t \in Nat /\ t > now /\ timer' = FiresAt(t)
    BY <1>3, <2>1
  <2> HIDE DEF t
  <2>3. CASE t - now > MaxDelay
    <3>1. timer' = now /\ t > now + MaxDelay
      BY <1>0, <2>2, <2>3 DEF FiresAt
    <3> QED
      BY <1>0, <1>3, <2>2, <3>1 DEF Covers, t
  <2>4. CASE ~(t - now > MaxDelay)
    <3>1. timer' = t /\ t <= MaxTime + MaxDelay /\ now <= t
      BY <1>0, <2>2, <2>4 DEF FiresAt
    <3> QED
      BY <1>0, <1>3, <2>2, <3>1 DEF Covers, t
  <2> QED
    BY <2>3, <2>4
<1> QED
  BY <1>1, <1>2, <1>3 DEF ScheduleEndsAt

\* Ceilings are durations; the one in force is among them.
LEMMA CeilingsTyped ==
  ASSUME TypeOK
  PROVE  duration \in Ceilings /\ Ceilings \subseteq Durations /\ Ceilings \subseteq Nat
BY ControlAssumption DEF TypeOK, Ceilings

----------------------------------------------------------------------------
(* Memory of events *)

LEMMA InitInv == Init => Inv
<1> SUFFICES ASSUME Init PROVE Inv
  OBVIOUS
<1>1. TypeOK
  BY ControlAssumption DEF Init, TypeOK, RuleSet, StartingRules
<1>2. TimerCovers /\ Remembered
  BY DEF Init, TimerCovers, Remembered
<1> QED
  BY <1>1, <1>2 DEF Inv

\* An id is remembered for Ttl, and only one that is older is forgotten.
LEMMA RememberFacts ==
  ASSUME TypeOK, NEW e \in Events, Remember(e)
  PROVE  /\ e \in DOMAIN seen' /\ DOMAIN seen' \subseteq Events
         /\ \A x \in DOMAIN seen' : seen'[x] \in Ttl..(now + Ttl)
         /\ \A x \in DOMAIN seen \ DOMAIN seen' : seen[x] < now
         /\ e \in DOMAIN seen => seen[e] < now
<1>0. now \in Nat /\ Ttl \in Nat
  BY ControlAssumption DEF TypeOK
<1>1. e \notin Kept
  BY DEF Remember
<1>2. Kept \subseteq DOMAIN seen /\ \A x \in DOMAIN seen \ Kept : seen[x] < now
  BY DEF Kept, Old
<1>3. DOMAIN seen' = Kept \union {e}
  BY DEF Remember
<1>4. \A x \in DOMAIN seen' : seen'[x] = IF x \in Kept THEN seen[x] ELSE now + Ttl
  BY <1>3 DEF Remember
<1>5. now + Ttl \in Ttl..(now + Ttl)
  BY <1>0
<1>6. \A x \in DOMAIN seen' : seen'[x] \in Ttl..(now + Ttl)
  BY <1>2, <1>4, <1>5 DEF TypeOK
<1>7. DOMAIN seen' \subseteq Events
  BY <1>2, <1>3 DEF TypeOK
<1> QED
  BY <1>1, <1>2, <1>3, <1>6, <1>7

\* An event that gets past the checks for all actions has not acted before.
LEMMA ActsFacts ==
  ASSUME TypeOK, Remembered, NEW e \in Events, Acts(e)
  PROVE  /\ now' = now /\ ceiling' = ceiling
         /\ DOMAIN seen' \subseteq Events
         /\ \A x \in DOMAIN seen' : seen'[x] \in Ttl..(now + Ttl)
         /\ acted' \in [Events -> 0..2]
         /\ Remembered'
<1>0. /\ now \in Nat /\ Ttl \in Nat /\ \A x \in Events : Event[x].expires \in Nat
      /\ now' = now /\ ceiling' = ceiling /\ Remember(e) /\ ~Expired(e)
      /\ acted' = [acted EXCEPT ![e] = IF @ = 2 THEN 2 ELSE @ + 1]
  BY ControlAssumption DEF TypeOK, Acts
<1>1. acted' \in [Events -> 0..2]
  BY <1>0 DEF TypeOK
<1>2. ASSUME NEW x \in Events, Event[x].expires <= Ttl
      PROVE  acted'[x] <= 1 /\ (acted'[x] = 1 => x \in DOMAIN seen' \/ Expired(x)')
  <2>1. CASE x = e
    <3>1. e \in DOMAIN seen => seen[e] < now /\ seen[e] \in Ttl..(now + Ttl)
      BY <1>0, RememberFacts DEF TypeOK
    <3>2. Event[e].expires >= now
      BY <1>0 DEF Expired
    <3>3. e \notin DOMAIN seen
      BY <1>0, <1>2, <2>1, <3>1, <3>2
    <3>4. acted[e] # 1 /\ acted[e] <= 1
      BY <1>0, <1>2, <2>1, <3>3 DEF Remembered
    <3>5. acted[e] = 0
      BY <3>4 DEF TypeOK
    <3>6. acted'[e] = 1
      BY <1>0, <3>5 DEF TypeOK
    <3> QED
      BY <1>0, <2>1, <3>6, RememberFacts
  <2>2. CASE x # e
    <3>1. acted'[x] = acted[x]
      BY <1>0, <2>2 DEF TypeOK
    <3>2. acted[x] <= 1 /\ (acted[x] = 1 => x \in DOMAIN seen \/ Expired(x))
      BY <1>2 DEF Remembered
    <3>3. Expired(x)' = Expired(x)
      BY <1>0 DEF Expired
    <3>4. x \in DOMAIN seen \ DOMAIN seen' => Expired(x)
      <4>1. SUFFICES ASSUME x \in DOMAIN seen \ DOMAIN seen' PROVE Expired(x)
        OBVIOUS
      <4>2. seen[x] < now /\ seen[x] \in Ttl..(now + Ttl)
        BY <1>0, <4>1, RememberFacts DEF TypeOK
      <4> QED
        BY <1>0, <1>2, <4>2 DEF Expired
    <3> QED
      BY <3>1, <3>2, <3>3, <3>4
  <2> QED
    BY <2>1, <2>2
<1>3. Remembered'
  BY <1>2 DEF Remembered
<1> QED
  BY <1>0, <1>1, <1>3, RememberFacts

\* A copy, or an event that is too late.
LEMMA IgnoreKeepsInv ==
  ASSUME Inv, NEW e \in Events, Ignore(e)
  PROVE  Inv'
<1>0. /\ now \in Nat /\ Ttl \in Nat /\ \A x \in Events : Event[x].expires \in Nat
      /\ TypeOK /\ TimerCovers /\ Remembered
      /\ UNCHANGED <<now, room, ceiling, acted>>
  BY ControlAssumption DEF Inv, TypeOK, Ignore
<1>1. /\ DOMAIN seen' \subseteq Events
      /\ \A x \in DOMAIN seen' : seen'[x] \in Ttl..(now + Ttl)
      /\ \A x \in DOMAIN seen \ DOMAIN seen' : seen[x] < now
  <2>1. CASE UNCHANGED seen
    BY <1>0, <2>1 DEF TypeOK
  <2>2. CASE Remember(e)
    BY <1>0, <2>2, RememberFacts
  <2> QED
    BY <2>1, <2>2 DEF Ignore
<1>2. TypeOK' /\ TimerCovers'
  BY <1>0, <1>1 DEF TypeOK, TimerCovers, Covers, EndsOf, Ceilings, room, ceiling
<1>3. Remembered'
  <2>1. SUFFICES ASSUME NEW x \in Events, Event[x].expires <= Ttl, x \in DOMAIN seen \ DOMAIN seen'
                 PROVE  Expired(x)
    BY <1>0 DEF Remembered, Expired
  <2>2. seen[x] < now /\ seen[x] \in Ttl..(now + Ttl)
    BY <1>0, <1>1, <2>1 DEF TypeOK
  <2> QED
    BY <1>0, <2>1, <2>2 DEF Expired
<1> QED
  BY <1>2, <1>3 DEF Inv

----------------------------------------------------------------------------
(* The room *)

\* What the room's own steps have to show when no event is involved.
LEMMA RoomStep ==
  ASSUME Inv, UNCHANGED <<now, seen, acted>>,
         phase' \in {"none", "starting", "active", "closed"},
         host' \in Users, rules' \in RuleSet, startedAt' \in 0..now,
         duration' \in Durations, prev' \in [Puts -> Durations \union {Idle}],
         timer' \in {NoEnd} \union 0..(MaxTime + MaxDelay),
         inside' \in SUBSET Users,
         phase' # "active" => timer' = NoEnd /\ inside' = {},
         phase' = "active" =>
           \E limit \in Ceilings' : Covers(timer', now, EndsOf(rules', startedAt', limit))
  PROVE  Inv'
<1>1. TypeOK'
  BY DEF Inv, TypeOK
<1>2. TimerCovers' /\ Remembered'
  BY DEF Inv, TimerCovers, Covers, EndsOf, Remembered, Expired
<1> QED
  BY <1>1, <1>2 DEF Inv

\* The same for a room under an event that acts.
LEMMA ActsStep ==
  ASSUME Inv, NEW e \in Events, Acts(e),
         phase' \in {"none", "starting", "active", "closed"},
         host' \in Users, rules' \in RuleSet, startedAt' \in 0..now,
         timer' \in {NoEnd} \union 0..(MaxTime + MaxDelay),
         inside' \in SUBSET Users,
         phase' # "active" => timer' = NoEnd /\ inside' = {},
         phase' = "active" =>
           \E limit \in Ceilings : Covers(timer', now, EndsOf(rules', startedAt', limit))
  PROVE  Inv'
<1>0. /\ now' = now /\ ceiling' = ceiling
      /\ DOMAIN seen' \subseteq Events
      /\ \A x \in DOMAIN seen' : seen'[x] \in Ttl..(now + Ttl)
      /\ acted' \in [Events -> 0..2]
      /\ Remembered'
  BY ActsFacts DEF Inv
<1>1. TypeOK'
  BY <1>0 DEF Inv, TypeOK, ceiling
<1>2. TimerCovers'
  <2>1. Ceilings' = Ceilings
    BY <1>0 DEF Ceilings, ceiling
  <2> QED
    BY <1>0, <2>1 DEF TimerCovers, Covers, EndsOf
<1> QED
  BY <1>0, <1>1, <1>2 DEF Inv

LEMMA MergeTyped ==
  ASSUME NEW base \in RuleSet, NEW e \in Events
  PROVE  MergeRules(base, Event[e].params) \in RuleSet
<1> DEFINE p == Event[e].params
<1>1. /\ "allow" \in DOMAIN p => p.allow \in {Everyone} \union SUBSET Users
      /\ "deny" \in DOMAIN p => p.deny \in SUBSET Users
      /\ "endsAt" \in DOMAIN p => p.endsAt \in {NoEnd} \union Nat
  BY ControlAssumption
<1>2. DOMAIN base = {"allow", "deny", "endsAt"}
  BY DEF RuleSet
<1> QED
  BY <1>1, <1>2 DEF MergeRules, RuleSet

\* rearmed rooms: active ones are scheduled, others have no timer.
LEMMA RearmedFacts ==
  ASSUME Inv, NEW r \in RuleSet, NEW limit \in Durations, Rearmed(r, limit)
  PROVE  /\ phase' \in {"none", "starting", "active", "closed"}
         /\ inside' \in SUBSET Users
         /\ timer' \in {NoEnd} \union 0..(MaxTime + MaxDelay)
         /\ phase' # "active" => timer' = NoEnd /\ inside' = {}
         /\ phase' = "active" => Covers(timer', now, EndsOf(r, startedAt, limit))
<1>0. /\ limit \in Nat /\ startedAt \in Nat /\ now \in 0..MaxTime /\ inside \in SUBSET Users
      /\ phase \in {"none", "starting", "active", "closed"}
      /\ phase # "active" => inside = {}
  BY ControlAssumption DEF Inv, TypeOK
<1>1. CASE phase = "active"
  BY <1>0, <1>1, ScheduleFacts DEF Rearmed
<1>2. CASE phase # "active"
  BY <1>0, <1>2 DEF Rearmed
<1> QED
  BY <1>1, <1>2

\* The end of a PUT: the ceiling that it found may be forgotten, as the rooms
\* are rearmed unless the ceiling in force is that one.
LEMMA RearmKeepsInv ==
  ASSUME Inv, UNCHANGED <<now, seen, host, rules, startedAt, acted>>,
         duration' \in Durations, prev' \in [Puts -> Durations \union {Idle}],
         NEW before, RearmDurationLimits(before, duration'),
         Ceilings \subseteq Ceilings' \union {before}
  PROVE  Inv'
<1>t. /\ phase \in {"none", "starting", "active", "closed"} /\ host \in Users
      /\ rules \in RuleSet /\ startedAt \in 0..now /\ inside \in SUBSET Users
      /\ timer \in {NoEnd} \union 0..(MaxTime + MaxDelay)
      /\ phase # "active" => timer = NoEnd /\ inside = {}
      /\ duration' \in Ceilings'
  BY DEF Inv, TypeOK, Ceilings
<1>c. phase = "active" =>
        \E limit \in Ceilings : Covers(timer, now, EndsOf(rules, startedAt, limit))
  BY DEF Inv, TimerCovers
<1> DEFINE d == duration'
<1>1. CASE d = before /\ UNCHANGED <<phase, timer, inside>>
  BY <1>t, <1>c, <1>1, RoomStep
<1>2. CASE Rearmed(rules, d)
  <2>1. d \in Durations
    OBVIOUS
  <2> HIDE DEF d
  <2>2. /\ phase' \in {"none", "starting", "active", "closed"}
        /\ inside' \in SUBSET Users
        /\ timer' \in {NoEnd} \union 0..(MaxTime + MaxDelay)
        /\ phase' # "active" => timer' = NoEnd /\ inside' = {}
        /\ phase' = "active" => Covers(timer', now, EndsOf(rules, startedAt, d))
    BY <1>t, <1>2, <2>1, RearmedFacts
  <2> QED
    BY <1>t, <2>2, RoomStep DEF d
<1> QED
  BY <1>1, <1>2 DEF RearmDurationLimits

\* Every handler of an event keeps the invariant.
LEMMA DeliverKeepsInv ==
  ASSUME Inv, NEW r \in Relays, NEW e \in Events, Deliver(r, e)
  PROVE  Inv'
<1>0. TypeOK /\ TimerCovers /\ now \in Nat
  BY ControlAssumption DEF Inv, TypeOK
<1>t. /\ phase \in {"none", "starting", "active", "closed"} /\ host \in Users
      /\ rules \in RuleSet /\ startedAt \in 0..now /\ inside \in SUBSET Users
      /\ timer \in {NoEnd} \union 0..(MaxTime + MaxDelay)
      /\ phase # "active" => timer = NoEnd /\ inside = {}
      /\ duration \in Durations /\ duration \in Ceilings
  BY <1>0, CeilingsTyped DEF TypeOK
<1>c. phase = "active" =>
        \E limit \in Ceilings : Covers(timer, now, EndsOf(rules, startedAt, limit))
  BY <1>0 DEF TimerCovers
<1>1. CASE Ignore(e)
  BY <1>1, IgnoreKeepsInv
<1>2. CASE Start(r, e)
  <2>1. Event[e].sender \in Users /\ StartingRules \in RuleSet
    BY ControlAssumption DEF StartingRules, RuleSet
  <2>2. MergeRules(StartingRules, Event[e].params) \in RuleSet
    BY <2>1, MergeTyped
  <2> QED
    BY <1>0, <1>2, <1>t, <2>1, <2>2, ActsStep DEF Start
<1>3. CASE End(e)
  BY <1>3, <1>t, ActsStep DEF End, CloseRoom
<1>4. CASE Kick(e)
  <2>1. inside \ {Event[e].target} \in SUBSET Users
    BY <1>t
  <2> QED
    BY <1>4, <1>t, <1>c, <2>1, ActsStep DEF Kick
<1>5. CASE Update(e)
  <2>1. rules' \in RuleSet
    BY <1>5, <1>t, MergeTyped DEF Update
  <2>2. Rearmed(rules', duration) /\ Acts(e) /\ UNCHANGED <<host, startedAt>>
    BY <1>5 DEF Update
  <2> DEFINE rs == rules'
  <2>3. rs \in RuleSet /\ Rearmed(rs, duration)
    BY <2>1, <2>2
  <2> HIDE DEF rs
  <2>4. /\ phase' \in {"none", "starting", "active", "closed"}
        /\ inside' \in SUBSET Users
        /\ timer' \in {NoEnd} \union 0..(MaxTime + MaxDelay)
        /\ phase' # "active" => timer' = NoEnd /\ inside' = {}
        /\ phase' = "active" => Covers(timer', now, EndsOf(rs, startedAt, duration))
    BY <1>t, <2>3, RearmedFacts
  <2> QED
    BY <1>t, <2>1, <2>2, <2>4, ActsStep DEF rs
<1>6. CASE Refuse(e)
  BY <1>6, <1>t, <1>c, ActsStep DEF Refuse, room
<1> QED
  BY <1>1, <1>2, <1>3, <1>4, <1>5, <1>6 DEF Deliver

\* So do the steps of the room itself, of the admin, and of time.
LEMMA OtherStepsKeepInv ==
  ASSUME Inv,
         \/ Started \/ Unlist \/ EndsAtTimeout \/ Tick
         \/ \E d \in Durations : SetMaxDuration(d)
         \/ \E p \in Puts : SyncEnds(p)
         \/ \E u \in Users : Dial(u) \/ Leave(u)
         \/ UNCHANGED vars
  PROVE  Inv'
<1>0. TypeOK /\ TimerCovers /\ Remembered /\ now \in Nat /\ MaxTime \in Nat /\ NoEnd \notin Nat
  BY ControlAssumption DEF Inv, TypeOK
<1>t. /\ phase \in {"none", "starting", "active", "closed"} /\ host \in Users
      /\ rules \in RuleSet /\ startedAt \in 0..now /\ inside \in SUBSET Users
      /\ timer \in {NoEnd} \union 0..(MaxTime + MaxDelay)
      /\ phase # "active" => timer = NoEnd /\ inside = {}
      /\ duration \in Durations /\ duration \in Nat /\ now \in 0..MaxTime
      /\ prev \in [Puts -> Durations \union {Idle}] /\ duration \in Ceilings
      /\ ceiling' = ceiling => duration' = duration /\ prev' = prev /\ Ceilings' = Ceilings
  BY <1>0, CeilingsTyped, ControlAssumption DEF TypeOK, ceiling, Ceilings
<1>c. phase = "active" =>
        \E limit \in Ceilings : Covers(timer, now, EndsOf(rules, startedAt, limit))
  BY <1>0 DEF TimerCovers
<1>1. CASE Started
  <2>1. /\ phase' \in {"active", "closed"} /\ inside' \in SUBSET Users
        /\ timer' \in {NoEnd} \union 0..(MaxTime + MaxDelay)
        /\ phase' = "closed" => timer' = NoEnd /\ inside' = {}
        /\ phase' = "active" => Covers(timer', now, EndsOf(rules, now, duration))
    BY <1>0, <1>1, <1>t, ScheduleFacts DEF Started
  <2> QED
    BY <1>0, <1>1, <1>t, <2>1, RoomStep DEF Started
<1>2. CASE Unlist
  <2>1. StartingRules \in RuleSet
    BY DEF StartingRules, RuleSet
  <2> QED
    BY <1>2, <1>t, <2>1, RoomStep DEF Unlist
<1>3. CASE EndsAtTimeout
  BY <1>3, <1>t, RoomStep DEF EndsAtTimeout, CloseRoom
<1>4. CASE Tick
  <2>1. now' = now + 1 /\ now' \in 0..MaxTime /\ UNCHANGED <<seen, room, ceiling, acted>>
    BY <1>4, <1>t, <1>0 DEF Tick
  <2>2. TypeOK'
    <3>1. 0..now \subseteq 0..now' /\ Ttl..(now + Ttl) \subseteq Ttl..(now' + Ttl)
      BY <1>0, <2>1, ControlAssumption
    <3> QED
      BY <1>0, <2>1, <3>1 DEF TypeOK, room, ceiling
  <2>3. TimerCovers'
    <3>1. SUFFICES ASSUME NEW limit \in Ceilings, phase = "active",
                          Covers(timer, now, EndsOf(rules, startedAt, limit))
                   PROVE  Covers(timer, now', EndsOf(rules, startedAt, limit))
      BY <1>c, <1>t, <2>1 DEF TimerCovers, Covers, EndsOf, room
    <3> DEFINE ends == EndsOf(rules, startedAt, limit)
    <3>2. CASE ends = {} /\ timer = NoEnd
      BY <3>2 DEF Covers
    <3>3. CASE /\ ends # {} /\ timer \in Nat /\ now <= timer
               /\ timer = Earliest(ends) \/ (timer = now /\ Earliest(ends) > now + MaxDelay)
      <4>1. timer > now
        BY <1>0, <1>4, <3>3 DEF Tick
      <4> HIDE DEF ends
      <4>2. now' <= timer /\ timer = Earliest(ends)
        BY <1>0, <2>1, <3>3, <4>1
      <4> QED
        BY <3>3, <4>2 DEF Covers, ends
    <3> QED
      BY <3>1, <3>2, <3>3 DEF Covers
  <2>4. Remembered'
    <3>1. \A x \in Events : Event[x].expires \in Nat
      BY ControlAssumption
    <3> QED
      BY <1>0, <2>1, <3>1 DEF Remembered, Expired
  <2> QED
    BY <2>2, <2>3, <2>4 DEF Inv
<1>5. CASE \E d \in Durations : SetMaxDuration(d)
  <2>1. PICK d \in Durations : SetMaxDuration(d)
    BY <1>5
  <2>2. UNCHANGED <<now, seen, host, rules, startedAt, acted>> /\ duration' = d
    BY <2>1 DEF SetMaxDuration
  <2>3. CASE \E p \in Puts : prev[p] = Idle /\ prev' = [prev EXCEPT ![p] = duration]
                           /\ UNCHANGED <<phase, timer, inside>>
    <3>1. PICK p \in Puts : prev[p] = Idle /\ prev' = [prev EXCEPT ![p] = duration]
                           /\ UNCHANGED <<phase, timer, inside>>
      BY <2>3
    <3>2. prev' \in [Puts -> Durations \union {Idle}] /\ prev'[p] = duration
          /\ \A x \in Puts : prev[x] # Idle => prev'[x] = prev[x]
      BY <1>t, <3>1
    <3>3. Ceilings \subseteq Ceilings'
      <4>1. duration # Idle
        BY <1>t, ControlAssumption
      <4> QED
        BY <3>2, <4>1 DEF Ceilings
    <3> QED
      BY <1>t, <1>c, <2>2, <3>1, <3>2, <3>3, RoomStep
  <2>4. CASE RearmDurationLimits(duration, d) /\ UNCHANGED prev
    <3>1. prev' \in [Puts -> Durations \union {Idle}] /\ Ceilings \subseteq Ceilings' \union {duration}
      BY <1>t, <2>4 DEF Ceilings
    <3> DEFINE before == duration
    <3>2. RearmDurationLimits(before, duration') /\ Ceilings \subseteq Ceilings' \union {before}
      BY <2>2, <2>4, <3>1
    <3> HIDE DEF before
    <3> QED
      BY <2>2, <3>1, <3>2, RearmKeepsInv
  <2> QED
    BY <2>1, <2>3, <2>4 DEF SetMaxDuration
<1>8. CASE \E p \in Puts : SyncEnds(p)
  <2>1. PICK p \in Puts : SyncEnds(p)
    BY <1>8
  <2>2. /\ UNCHANGED <<now, seen, host, rules, startedAt, duration, acted>>
        /\ prev[p] # Idle /\ prev' = [prev EXCEPT ![p] = Idle]
        /\ RearmDurationLimits(prev[p], duration)
    BY <2>1 DEF SyncEnds
  <2>3. /\ prev' \in [Puts -> Durations \union {Idle}]
        /\ \A x \in Puts : x # p => prev'[x] = prev[x]
    BY <1>t, <2>2
  <2> DEFINE before == prev[p]
  <2>4. Ceilings \subseteq Ceilings' \union {before}
    BY <2>2, <2>3 DEF Ceilings
  <2>5. RearmDurationLimits(before, duration')
    BY <2>2
  <2> HIDE DEF before
  <2> QED
    BY <1>t, <2>2, <2>3, <2>4, <2>5, RearmKeepsInv
<1>6. ASSUME NEW u \in Users, Dial(u) \/ Leave(u) PROVE Inv'
  <2>1. inside' \in SUBSET Users /\ phase' = phase /\ (phase # "active" => inside' = {})
    BY <1>6, <1>t DEF Dial, Leave
  <2> QED
    BY <1>6, <1>t, <1>c, <2>1, RoomStep DEF Dial, Leave
<1>7. CASE UNCHANGED vars
  BY <1>7, <1>t, <1>c, RoomStep DEF vars, room
<1> QED
  BY <1>1, <1>2, <1>3, <1>4, <1>5, <1>6, <1>7, <1>8

----------------------------------------------------------------------------
(* Theorems *)

LEMMA InvHolds == Spec => []Inv
<1>1. Inv /\ [Next]_vars => Inv'
  BY DeliverKeepsInv, OtherStepsKeepInv DEF Next
<1> QED
  BY <1>1, InitInv, PTL DEF Spec

\* An event that expires while its id is remembered acts once, for any number
\* of relays, deliveries and other events between them.
THEOREM EachEventActsOnce == Spec => []ActsOnce
<1>1. Inv => ActsOnce
  BY DEF Inv, Remembered, ActsOnce
<1> QED
  BY <1>1, InvHolds, PTL

\* The ends that a timer covers are not in the past.
LEMMA CoveredIsInTime ==
  ASSUME TypeOK, NEW limit \in Ceilings, NEW t \in EndsOf(rules, startedAt, limit),
         Covers(timer, now, EndsOf(rules, startedAt, limit))
  PROVE  now <= t
<1> DEFINE ends == EndsOf(rules, startedAt, limit)
<1>0. /\ rules \in RuleSet /\ startedAt \in Nat /\ limit \in Nat /\ now \in Nat
      /\ MaxDelay \in Nat
  BY ControlAssumption, CeilingsTyped DEF TypeOK
<1>1. ends \subseteq Nat /\ Earliest(ends) \in ends /\ Earliest(ends) <= t
  BY <1>0, EarliestFacts
<1>2. now <= Earliest(ends)
  <2>1. Earliest(ends) \in Nat /\ Covers(timer, now, ends) /\ ends # {}
    BY <1>1
  <2> HIDE DEF ends
  <2> QED
    BY <1>0, <2>1 DEF Covers
<1>3. Earliest(ends) \in Nat /\ t \in Nat
  BY <1>1
<1> HIDE DEF ends
<1> QED
  BY <1>0, <1>1, <1>2, <1>3

\* No call outlives its rules and the ceiling, whichever changed last; while a
\* PUT that changed the ceiling awaits its sync, the ceiling it found may count.
THEOREM CallsEndInTime == Spec => []RoomEndsInTime
<1>1. Inv => RoomEndsInTime
  <2> SUFFICES ASSUME Inv, phase = "active"
               PROVE  /\ rules.endsAt # NoEnd => now <= rules.endsAt
                      /\ \E limit \in Ceilings : limit > 0 => now <= startedAt + limit
    BY DEF RoomEndsInTime
  <2>1. PICK limit \in Ceilings : Covers(timer, now, EndsOf(rules, startedAt, limit))
    BY DEF Inv, TimerCovers
  <2>2. rules.endsAt # NoEnd => rules.endsAt \in EndsOf(rules, startedAt, limit)
    BY DEF EndsOf
  <2>3. limit > 0 => startedAt + limit \in EndsOf(rules, startedAt, limit)
    BY DEF EndsOf
  <2> QED
    BY <2>1, <2>2, <2>3, CoveredIsInTime DEF Inv
<1> QED
  BY <1>1, InvHolds, PTL

\* No timer of earlier rules ends a call, and none of a ceiling that has been
\* replaced by a PUT which has ended.
THEOREM CallsDoNotEndEarly == Spec => NoEarlyEnd
<1>1. ASSUME Inv, EndsAtTimeout
      PROVE  \E limit \in Ceilings :
               LET ends == EndsOf(rules, startedAt, limit) IN
               /\ ends # {}
               /\ Earliest(ends) <= now \/ Earliest(ends) > now + MaxDelay
  <2>1. timer # NoEnd /\ timer <= now /\ phase = "active"
    BY <1>1 DEF EndsAtTimeout, Inv, TypeOK
  <2>2. PICK limit \in Ceilings : Covers(timer, now, EndsOf(rules, startedAt, limit))
    BY <1>1, <2>1 DEF Inv, TimerCovers
  <2> DEFINE ends == EndsOf(rules, startedAt, limit)
  <2>3. Covers(timer, now, ends)
    BY <2>2
  <2> HIDE DEF ends
  <2>4. ends # {} /\ (Earliest(ends) <= now \/ Earliest(ends) > now + MaxDelay)
    BY <2>1, <2>3 DEF Covers
  <2> QED
    BY <2>4 DEF ends
<1>2. Inv /\ [Next]_vars =>
        [EndsAtTimeout =>
           \E limit \in Ceilings :
             LET ends == EndsOf(rules, startedAt, limit) IN
             /\ ends # {}
             /\ Earliest(ends) <= now \/ Earliest(ends) > now + MaxDelay]_vars
  BY <1>1
<1> QED
  BY <1>2, InvHolds, PTL DEF Spec, NoEarlyEnd

\* The tables of listener and room hold what their declarations say, and a
\* room has members and a timer only while it is active.
THEOREM TypesHold == Spec => []TypeOK
BY InvHolds, PTL DEF Inv

----------------------------------------------------------------------------
(* The room of the channel *)

\* What the channel's room goes through, as its holder sees it.
LEMMA PhaseMoves ==
  ASSUME TypeOK, [Next]_vars
  PROVE  \/ phase' = phase
         \/ phase = "none" /\ phase' = "starting"
         \/ phase = "starting" /\ phase' \in {"active", "closed", "none"}
         \/ phase = "active" /\ phase' = "closed"
         \/ phase = "closed" /\ phase' = "none"
<1>1. \A r, t, n : ScheduleEndsAt(r, t, n) => phase' \in {"active", "closed"}
  BY DEF ScheduleEndsAt, CloseRoom
<1>2. \A r, n : Rearmed(r, n) => phase' = phase \/ (phase = "active" /\ phase' = "closed")
  BY <1>1 DEF Rearmed
<1>3. ASSUME NEW r \in Relays, NEW e \in Events, Deliver(r, e)
      PROVE  \/ phase' = phase
             \/ phase = "none" /\ phase' = "starting"
             \/ phase = "active" /\ phase' = "closed"
  BY <1>2, <1>3
  DEF Deliver, Ignore, Start, End, Kick, Update, Refuse, CloseRoom, room
<1>4. Started => phase = "starting" /\ phase' \in {"active", "closed"}
  BY <1>1 DEF Started
<1>5. Unlist => phase \in {"starting", "closed"} /\ phase' = "none"
  BY DEF Unlist
<1>6. EndsAtTimeout => phase = "active" /\ phase' = "closed"
  BY DEF EndsAtTimeout, CloseRoom, TypeOK
<1>7. \/ \E d \in Durations : SetMaxDuration(d)
      \/ \E p \in Puts : SyncEnds(p)
      => phase' = phase \/ (phase = "active" /\ phase' = "closed")
  BY <1>2 DEF SetMaxDuration, SyncEnds, RearmDurationLimits
<1>8. /\ \A u \in Users : Dial(u) \/ Leave(u) => phase' = phase
      /\ Tick \/ UNCHANGED vars => phase' = phase
  BY DEF Dial, Leave, Tick, vars, room
<1> QED
  BY <1>3, <1>4, <1>5, <1>6, <1>7, <1>8 DEF Next

\* No control event, from whomever and however often it comes, no change of the
\* ceiling and no timer moves a room in an order that RoomLife does not have.
THEOREM CallsLiveAsRooms == Spec => CallsRoomLife
<1> DEFINE L == [c \in {"its channel"} |-> phase]
<1>1. Init => Called!Init
  BY DEF Init, Called!Init
<1>2. TypeOK /\ [Next]_vars => [Called!Next]_L
  <2> SUFFICES ASSUME TypeOK, [Next]_vars PROVE Called!Next
    OBVIOUS
  <2>1. L["its channel"] = phase /\ L'["its channel"] = phase'
    OBVIOUS
  <2> QED
    BY <2>1, PhaseMoves
    DEF Called!Next, Called!Opens, Called!Ready, Called!Expires, Called!Fails,
        Called!Closes, Called!Freed, Called!Strays, Called!Stays, Called!Moves
<1> QED
  BY <1>1, <1>2, TypesHold, PTL DEF Spec, CallsRoomLife, Called!Spec
===============================================================================
