----------------------------- MODULE RelayHealth -----------------------------
(***************************************************************************)
(* Can the process still be heard?  publish of src/src/relay.ts with its   *)
(* retry after NIP-42 AUTH, the refresh of src/src/advertise.ts, the       *)
(* self-heal watchdog and the boot of src/src/index.ts, and the answer of  *)
(* /healthz (src/src/http-server.ts).                                      *)
(*                                                                         *)
(* A tick is the interval of the watchdog.  Times are kept as ages, so     *)
(* behaviours do not end; an age stops where no reader tells it apart.     *)
(***************************************************************************)
EXTENDS Integers, FiniteSets

CONSTANTS
  Write,     \* writeRelays
  NeedAuth,  \* those that refuse a write before AUTH as "restricted"
  Grace,     \* WATCHDOG_GRACE_MS (5 min)
  Refresh,   \* REFRESH_INTERVAL_MS (5 min)
  Alarm,     \* HEALTHZ_ALL_RELAYS_DEAD_SEC (15 min)
  Lag        \* the ticks a publish takes at most: its timeouts add up to seconds

ASSUME HealthAssumption ==
  /\ NeedAuth \subseteq Write /\ Write # {} /\ IsFiniteSet(Write)
  /\ {Grace, Refresh, Alarm, Lag} \subseteq Nat
  /\ 0 < Lag /\ 2 * Lag < Grace /\ Refresh <= Grace /\ 2 * Grace + 1 < Alarm

VARIABLES
  proc,      \* "profile" and "advert" (start() awaits them), "up", "stopping"
  uptime,    \* since bootedAt
  okAge,     \* per relay: since lastPublishOk; Alarm when longer or never
  authed,    \* relays whose present connection is authenticated
  reliable,  \* relays that take every event, though they drop idle connections
  job,       \* publishes under way: of an advertisement, of something else
  refreshIn, \* until the advertiser's timer fires
  due,       \* the watchdog's timer has fired
  firstBad   \* since firstBadAt; Healthy when null

world == <<authed, reliable>>
watchdog == <<due, firstBad>>
vars == <<proc, uptime, okAge, world, job, refreshIn, watchdog>>

Jobs == {"advert", "other"}
Running == proc # "stopping"
Healthy == -1

\* waits: relays that have not answered; retries: those that want AUTH first.
NoJob == [age |-> 0, waits |-> {}, retries |-> {}]
NewJob == [age |-> 0, waits |-> Write, retries |-> {}]
UnderWay(k) == job[k].waits \union job[k].retries # {}

\* A type invariant; a process that has just come up is not yet degraded.
TypeOK ==
  /\ proc \in {"profile", "advert", "up", "stopping"}
  /\ uptime \in 0..(Alarm + 1)
  /\ okAge \in [Write -> 0..Alarm]
  /\ authed \subseteq NeedAuth /\ reliable \subseteq Write
  /\ job \in [Jobs -> [age : 0..Lag, waits : SUBSET Write, retries : SUBSET NeedAuth]]
  /\ refreshIn \in 0..Refresh
  /\ due \in BOOLEAN
  /\ firstBad \in Healthy..Grace
  /\ uptime < Grace => firstBad = Healthy

\* A process starts to publish its profile; nobody has heard from it.
Boot ==
  /\ proc' = "profile" /\ uptime' = 0
  /\ okAge' = [r \in Write |-> Alarm]
  /\ authed' = {}
  /\ job' = [k \in Jobs |-> IF k = "other" THEN NewJob ELSE NoJob]
  /\ refreshIn' = Refresh
  /\ due' = FALSE /\ firstBad' = Healthy

Init ==
  /\ proc = "profile" /\ uptime = 0
  /\ okAge = [r \in Write |-> Alarm]
  /\ authed = {}
  /\ reliable \in SUBSET Write
  /\ job = [k \in Jobs |-> IF k = "other" THEN NewJob ELSE NoJob]
  /\ refreshIn = Refresh
  /\ due = FALSE /\ firstBad = Healthy

----------------------------------------------------------------------------
(* RelayPool.publish.  What a stopping process publishes nobody here reads. *)

\* A room, or the profile, publishes.  Bound: one such publish at a time.
Publish ==
  /\ proc = "up" /\ ~UnderWay("other")
  /\ job' = [job EXCEPT !["other"] = NewJob]
  /\ UNCHANGED <<proc, uptime, okAge, world, refreshIn, watchdog>>

\* The relay has settled; a job without open relays starts its age anew.
Settled(k, r) ==
  LET j == [job[k] EXCEPT !.waits = @ \ {r}, !.retries = @ \ {r}] IN
  [job EXCEPT ![k] = IF j.waits \union j.retries = {} THEN NoJob ELSE j]

\* lastPublishOk becomes the time at which publish() was called.
Recorded(k, r) == okAge' = [okAge EXCEPT ![r] = job[k].age]

Accept(k, r) ==
  /\ Running /\ r \in job[k].waits
  /\ r \in NeedAuth => r \in authed
  /\ Recorded(k, r)
  /\ job' = Settled(k, r)
  /\ UNCHANGED <<proc, uptime, world, refreshIn, watchdog>>

\* isRelayAccessDenied: the relay gets a second chance, after AUTH.
GiveUp(k, r) == Settled(k, r)
Retry(k, r) == [job EXCEPT ![k].waits = @ \ {r}, ![k].retries = @ \union {r}]
Restricted(k, r) ==
  /\ Running /\ r \in job[k].waits
  /\ r \in NeedAuth \ authed
  /\ job' = Retry(k, r)
  /\ UNCHANGED <<proc, uptime, okAge, world, refreshIn, watchdog>>

PublishAfterAuth(k, r) ==
  /\ Running /\ r \in job[k].retries
  /\ authed' = authed \union {r}
  /\ Recorded(k, r)
  /\ job' = Settled(k, r)
  /\ UNCHANGED <<proc, uptime, reliable, refreshIn, watchdog>>

\* No connection, no answer in time, another refusal: lastPublishErr, which
\* neither watchdog nor /healthz reads.
Fail(k, r) ==
  /\ Running /\ r \in job[k].waits \union job[k].retries
  /\ r \notin reliable
  /\ job' = Settled(k, r)
  /\ UNCHANGED <<proc, uptime, okAge, world, refreshIn, watchdog>>

----------------------------------------------------------------------------
(* Relays *)

\* A connection is lost; a reliable relay only drops it when it is idle.  The
\* next publish makes another.
Drop(r) ==
  /\ r \in authed
  /\ r \in reliable => \A k \in Jobs : r \notin job[k].waits \union job[k].retries
  /\ authed' = authed \ {r}
  /\ UNCHANGED <<proc, uptime, okAge, reliable, job, refreshIn, watchdog>>

----------------------------------------------------------------------------
(* Advertiser *)

\* start() awaits the profile, then the first advertisement.
ProfileDone ==
  /\ proc = "profile" /\ ~UnderWay("other")
  /\ proc' = "advert"
  /\ job' = [job EXCEPT !["advert"] = NewJob]
  /\ UNCHANGED <<uptime, okAge, world, refreshIn, watchdog>>

\* main() goes on: registry, listener, server, watchdog.
Ready ==
  /\ proc = "advert" /\ ~UnderWay("advert")
  /\ proc' = "up"
  /\ refreshIn' = Refresh
  /\ UNCHANGED <<uptime, okAge, world, job, watchdog>>

Heartbeat ==
  /\ proc = "up" /\ refreshIn = 0 /\ ~UnderWay("advert")
  /\ refreshIn' = Refresh
  /\ job' = [job EXCEPT !["advert"] = NewJob]
  /\ UNCHANGED <<proc, uptime, okAge, world, watchdog>>

\* SIGHUP or the admin.  Bound: one advertisement at a time.
Republish ==
  /\ proc = "up" /\ ~UnderWay("advert")
  /\ job' = [job EXCEPT !["advert"] = NewJob]
  /\ UNCHANGED <<proc, uptime, okAge, world, refreshIn, watchdog>>

----------------------------------------------------------------------------
(* The self-heal watchdog *)

\* getRelayHealth: the relays that took an event within d.
Alive(d) == {r \in Write : okAge[r] < d}

DegradedAtOnce == Alive(Grace) = {}
DegradedReason == uptime >= Grace /\ Alive(Grace) = {}

RecoveredKept == firstBad
Recovered == Healthy

SinceLastLook == 0
Since == firstBad
TooLong == firstBad >= Grace

Watch(bad, next) ==
  /\ proc = "up" /\ due
  /\ DegradedReason = bad
  /\ due' = FALSE
  /\ firstBad' = next
  /\ UNCHANGED <<uptime, okAge, world, job, refreshIn>>

WatchdogFine == Watch(FALSE, Recovered) /\ UNCHANGED proc
WatchdogNotes ==
  /\ firstBad = Healthy
  /\ Watch(TRUE, 0) /\ UNCHANGED proc
WatchdogWaits ==
  /\ firstBad # Healthy /\ ~TooLong
  /\ Watch(TRUE, Since) /\ UNCHANGED proc
WatchdogExits ==
  /\ TooLong
  /\ Watch(TRUE, firstBad)
  /\ proc' = "stopping"

\* A signal or an uncaught error ends the process, too.
Shutdown ==
  /\ proc = "up"
  /\ proc' = "stopping"
  /\ UNCHANGED <<uptime, okAge, world, job, refreshIn, watchdog>>

\* The supervisor, or the operator, starts it again.
Restart ==
  /\ proc = "stopping"
  /\ Boot
  /\ UNCHANGED reliable

\* handleHealth answers 503 "degraded".
HealthzDegraded == proc = "up" /\ uptime > Alarm /\ Alive(Alarm) = {}

----------------------------------------------------------------------------
Older(age, cap) == IF age < cap THEN age + 1 ELSE age

\* Timers fire on time, publishes settle, and the boot only waits for those.
Tick ==
  /\ Running
  /\ proc = "profile" => UnderWay("other")
  /\ proc = "advert" => UnderWay("advert")
  /\ ~due /\ (proc = "up" => refreshIn > 0)
  /\ \A k \in Jobs : UnderWay(k) => job[k].age < Lag
  /\ uptime' = Older(uptime, Alarm + 1)
  /\ okAge' = [r \in Write |-> Older(okAge[r], Alarm)]
  /\ job' = [k \in Jobs |-> IF UnderWay(k) THEN [job[k] EXCEPT !.age = @ + 1] ELSE job[k]]
  /\ refreshIn' = IF proc = "up" THEN refreshIn - 1 ELSE refreshIn
  /\ due' = (proc = "up")
  /\ firstBad' = IF firstBad = Healthy THEN Healthy ELSE Older(firstBad, Grace)
  /\ UNCHANGED <<proc, world>>

Next ==
  \/ Publish \/ Heartbeat \/ Republish
  \/ \E k \in Jobs, r \in Write :
       Accept(k, r) \/ Restricted(k, r) \/ PublishAfterAuth(k, r) \/ Fail(k, r)
  \/ \E r \in Write : Drop(r)
  \/ ProfileDone \/ Ready
  \/ WatchdogFine \/ WatchdogNotes \/ WatchdogWaits \/ WatchdogExits
  \/ Shutdown \/ Restart
  \/ Tick

Spec == Init /\ [][Next]_vars

----------------------------------------------------------------------------
(* Properties *)

\* The watchdog ends the process only when no relay has taken an event for
\* nearly two grace periods: one bad look that recovers starts the wait anew,
\* and a publish that ends late moves a relay's health back only a little.  One
\* relay that answers is enough, also one that drops idle connections and
\* refuses writes before AUTH: "the watchdog restarted the SFU every 10
\* minutes" before the retry.
RestartOnlyWhenDeaf ==
  [][WatchdogExits => Alive(2 * Grace - Lag) = {} /\ reliable = {}]_vars

\* The watchdog is sooner than the monitoring: a running process that nobody
\* hears has restarted before /healthz calls it degraded.
HealedBeforeAlarm == ~HealthzDegraded
=============================================================================
