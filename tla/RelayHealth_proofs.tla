-------------------------- MODULE RelayHealth_proofs --------------------------
(* When the watchdog of RelayHealth restarts the process, and when it does    *)
(* not, for any relays, periods and alarms that fit HealthAssumption.         *)
EXTENDS RelayHealth, TLAPS

----------------------------------------------------------------------------
(* Publishes under way *)

Waiting(k) == job[k].waits \union job[k].retries
Age(k) == job[k].age
Jobbed == job \in [Jobs -> [age : 0..Lag, waits : SUBSET Write, retries : SUBSET NeedAuth]]

LEMMA Bounds ==
  /\ Lag \in Nat /\ Grace \in Nat /\ Refresh \in Nat /\ Alarm \in Nat
  /\ 0 < Lag /\ 2 * Lag < Grace /\ Refresh <= Grace /\ 2 * Grace + 1 < Alarm
  /\ NeedAuth \subseteq Write /\ Write # {}
BY HealthAssumption DEF HealthAssumption

\* A relay that has settled is not waited for any more; the last one ends the
\* publish.
LEMMA SettledFacts ==
  ASSUME Jobbed, NEW k \in Jobs, NEW r \in Write, job' = Settled(k, r)
  PROVE  /\ Jobbed'
         /\ \A l \in Jobs : Waiting(l)' = IF l = k THEN Waiting(k) \ {r} ELSE Waiting(l)
         /\ \A l \in Jobs : Age(l)' = IF l = k /\ Waiting(k) \ {r} = {} THEN 0 ELSE Age(l)
<1> DEFINE j == [job[k] EXCEPT !.waits = @ \ {r}, !.retries = @ \ {r}]
           n == IF j.waits \union j.retries = {} THEN NoJob ELSE j
<1>1. job' = [job EXCEPT ![k] = n]
  BY DEF Settled
<1>2. /\ j \in [age : 0..Lag, waits : SUBSET Write, retries : SUBSET NeedAuth]
      /\ j.age = job[k].age /\ j.waits = job[k].waits \ {r} /\ j.retries = job[k].retries \ {r}
  BY DEF Jobbed
<1>3. /\ n \in [age : 0..Lag, waits : SUBSET Write, retries : SUBSET NeedAuth]
      /\ n.waits \union n.retries = Waiting(k) \ {r}
      /\ n.age = IF Waiting(k) \ {r} = {} THEN 0 ELSE Age(k)
  <2> HIDE DEF j
  <2>1. j.waits \union j.retries = Waiting(k) \ {r}
    BY <1>2 DEF Waiting
  <2>2. CASE Waiting(k) \ {r} = {}
    <3>1. n = NoJob
      BY <2>1, <2>2
    <3> QED
      BY <2>2, <3>1, Bounds DEF NoJob
  <2>3. CASE Waiting(k) \ {r} # {}
    <3>1. n = j
      BY <2>1, <2>3
    <3> QED
      BY <1>2, <2>1, <2>3, <3>1 DEF Age
  <2> QED
    BY <2>2, <2>3
<1> HIDE DEF n
<1> QED
  BY <1>1, <1>3 DEF Jobbed, Waiting, Age

LEMMA RetryFacts ==
  ASSUME Jobbed, NEW k \in Jobs, NEW r \in NeedAuth, r \in job[k].waits, job' = Retry(k, r)
  PROVE  /\ Jobbed'
         /\ \A l \in Jobs : Waiting(l)' = Waiting(l) /\ Age(l)' = Age(l)
<1> DEFINE n == [job[k] EXCEPT !.waits = @ \ {r}, !.retries = @ \union {r}]
<1>1. job' = [job EXCEPT ![k] = n]
  BY DEF Retry, Jobbed
<1>2. /\ n \in [age : 0..Lag, waits : SUBSET Write, retries : SUBSET NeedAuth]
      /\ n.age = job[k].age /\ n.waits \union n.retries = Waiting(k)
  BY DEF Jobbed, Waiting
<1> HIDE DEF n
<1> QED
  BY <1>1, <1>2 DEF Jobbed, Waiting, Age

LEMMA NewJobFacts ==
  ASSUME Jobbed, NEW k \in Jobs, job' = [job EXCEPT ![k] = NewJob]
  PROVE  /\ Jobbed'
         /\ \A l \in Jobs : Waiting(l)' = IF l = k THEN Write ELSE Waiting(l)
         /\ \A l \in Jobs : Age(l)' = IF l = k THEN 0 ELSE Age(l)
BY Bounds DEF Jobbed, NewJob, Waiting, Age

----------------------------------------------------------------------------
(* The invariant *)

\* The boot only waits for its publishes, so it is short, and who is reliable
\* has the first advertisement when it ends.
BootIsShort ==
  /\ proc = "profile" =>
       /\ Waiting("advert") = {}
       /\ uptime <= IF UnderWay("other") THEN Age("other") ELSE Lag
  /\ proc = "advert" =>
       LET a == IF UnderWay("advert") THEN Age("advert") ELSE Lag IN
       /\ Waiting("other") = {}
       /\ uptime <= Lag + a
       /\ \A r \in reliable \ Waiting("advert") : okAge[r] <= a
  /\ proc \in {"profile", "advert"} => ~due /\ firstBad = Healthy

\* A reliable relay has an advertisement of the last refresh, or is about to.
ReliableHeard ==
  proc = "up" =>
    \A r \in reliable :
      okAge[r] <= IF r \in Waiting("advert") THEN Refresh + Lag + Age("advert")
                  ELSE Lag + Refresh - refreshIn

\* How long a degraded process has been deaf at least: what a relay took since
\* the first bad look was just now.
DeafSince ==
  proc = "up" /\ firstBad # Healthy =>
    \A r \in Write : \/ okAge[r] >= Grace + firstBad
                     \/ okAge[r] <= Lag
                     \/ due /\ okAge[r] = Lag + 1

\* How long it can have been deaf at most.
Longest == IF firstBad # Healthy THEN Grace + firstBad ELSE IF due THEN Grace ELSE Grace - 1
LookedAfter ==
  proc = "up" =>
    /\ uptime <= Longest \/ \E r \in Write : okAge[r] <= Longest
    /\ ~due => firstBad < Grace

Inv == TypeOK /\ BootIsShort /\ ReliableHeard /\ DeafSince /\ LookedAfter

LEMMA InitInv == Init => Inv
<1> SUFFICES ASSUME Init PROVE Inv
  OBVIOUS
<1>1. job["other"] = NewJob /\ job["advert"] = NoJob /\ Jobbed
  BY Bounds DEF Init, Jobs, Jobbed, NewJob, NoJob
<1>2. TypeOK
  <2>1. okAge \in [Write -> 0..Alarm] /\ uptime \in 0..(Alarm + 1) /\ refreshIn \in 0..Refresh
    BY Bounds DEF Init
  <2>2. firstBad = Healthy /\ firstBad \in Healthy..Grace
    BY Bounds DEF Init, Healthy
  <2>3. authed \subseteq NeedAuth /\ reliable \subseteq Write
    BY DEF Init
  <2>4. proc \in {"profile", "advert", "up", "stopping"} /\ due \in BOOLEAN
    BY DEF Init
  <2> QED
    BY <1>1, <2>1, <2>2, <2>3, <2>4 DEF TypeOK, Jobbed
<1>3. BootIsShort
  <2>1. Waiting("advert") = {}
    BY <1>1 DEF Waiting, NoJob
  <2>2. Waiting("other") = Write /\ Age("other") = 0 /\ UnderWay("other")
    BY <1>1, Bounds DEF Waiting, Age, UnderWay, NewJob
  <2> QED
    BY <2>1, <2>2 DEF Init, BootIsShort
<1> QED
  BY <1>2, <1>3 DEF Init, Inv, ReliableHeard, DeafSince, LookedAfter

LEMMA TypedParts ==
  ASSUME TypeOK
  PROVE  /\ uptime \in Nat /\ okAge \in [Write -> 0..Alarm] /\ refreshIn \in 0..Refresh
         /\ firstBad \in {Healthy} \union 0..Grace /\ due \in BOOLEAN
         /\ authed \subseteq NeedAuth /\ reliable \subseteq Write /\ Jobbed
         /\ \A k \in Jobs : Age(k) \in 0..Lag
         /\ \A k \in Jobs : UnderWay(k) <=> Waiting(k) # {}
         /\ Longest \in Nat /\ Lag <= Longest
<1>1. /\ uptime \in Nat /\ okAge \in [Write -> 0..Alarm] /\ refreshIn \in 0..Refresh
      /\ due \in BOOLEAN /\ authed \subseteq NeedAuth /\ reliable \subseteq Write /\ Jobbed
  BY Bounds DEF TypeOK, Jobbed
<1>2. firstBad \in {Healthy} \union 0..Grace
  BY Bounds DEF TypeOK, Healthy
<1>3. \A k \in Jobs : Age(k) \in 0..Lag
  BY <1>1 DEF Jobbed, Age
<1>4. \A k \in Jobs : UnderWay(k) <=> Waiting(k) # {}
  BY DEF UnderWay, Waiting
<1>5. Longest \in Nat /\ Lag <= Longest
  BY <1>2, Bounds DEF Longest, Healthy
<1> QED
  BY <1>1, <1>2, <1>3, <1>4, <1>5

\* Relays that drop, or want AUTH first, change nothing else.
LEMMA FrameKeeps ==
  ASSUME Inv, UNCHANGED <<proc, uptime, okAge, reliable, refreshIn, watchdog>>,
         authed' \subseteq NeedAuth, Jobbed',
         \A l \in Jobs : Waiting(l)' = Waiting(l) /\ Age(l)' = Age(l)
  PROVE  Inv'
<1>0. "advert" \in Jobs /\ "other" \in Jobs
  BY DEF Jobs
<1>1. TypeOK'
  BY DEF Inv, TypeOK, Jobbed, watchdog
<1>2. UnderWay("advert")' = UnderWay("advert") /\ UnderWay("other")' = UnderWay("other")
  BY <1>0 DEF UnderWay, Waiting
<1>3. BootIsShort'
  BY <1>0, <1>2 DEF Inv, BootIsShort, watchdog
<1>4. ReliableHeard'
  BY <1>0 DEF Inv, ReliableHeard
<1>5. DeafSince' /\ LookedAfter'
  BY DEF Inv, DeafSince, LookedAfter, Longest, watchdog
<1> QED
  BY <1>1, <1>3, <1>4, <1>5 DEF Inv

\* A relay takes the event, or another one does not.
LEMMA SettledKeeps ==
  ASSUME Inv, NEW k \in Jobs, NEW r \in Write, r \in Waiting(k), job' = Settled(k, r),
         Recorded(k, r) \/ (UNCHANGED okAge /\ r \notin reliable),
         authed' \subseteq NeedAuth,
         UNCHANGED <<proc, uptime, reliable, refreshIn, watchdog>>
  PROVE  Inv'
<1>0. /\ uptime \in Nat /\ okAge \in [Write -> 0..Alarm] /\ refreshIn \in 0..Refresh
      /\ firstBad \in {Healthy} \union 0..Grace /\ reliable \subseteq Write /\ Jobbed
      /\ \A l \in Jobs : Age(l) \in 0..Lag
      /\ \A l \in Jobs : UnderWay(l) <=> Waiting(l) # {}
      /\ Longest \in Nat /\ Lag <= Longest
      /\ "advert" \in Jobs /\ "other" \in Jobs
  BY TypedParts DEF Inv, Jobs
<1>1. /\ Jobbed'
      /\ \A l \in Jobs : Waiting(l)' = IF l = k THEN Waiting(k) \ {r} ELSE Waiting(l)
      /\ \A l \in Jobs : Age(l)' = IF l = k /\ Waiting(k) \ {r} = {} THEN 0 ELSE Age(l)
  BY <1>0, SettledFacts
<1>2. \A l \in Jobs : UnderWay(l)' <=> Waiting(l)' # {}
  BY DEF UnderWay, Waiting
<1>3. /\ okAge' \in [Write -> 0..Alarm]
      /\ \A q \in Write : q # r => okAge'[q] = okAge[q]
      /\ okAge'[r] = Age(k) \/ (okAge'[r] = okAge[r] /\ r \notin reliable)
  BY <1>0, Bounds DEF Recorded, Age
<1>4. TypeOK'
  BY <1>1, <1>3 DEF Inv, TypeOK, Jobbed, watchdog
<1>5. BootIsShort'
  <2>1. CASE proc = "profile"
    <3>1. k = "other" /\ UnderWay("other") /\ Waiting("advert") = {}
      BY <1>0, <2>1 DEF Inv, BootIsShort, Jobs
    <3>2. Waiting("advert")' = {}
      BY <1>0, <1>1, <3>1
    <3>3. uptime' <= IF UnderWay("other")' THEN Age("other")' ELSE Lag
      <4>1. uptime <= Age("other")
        BY <2>1, <3>1 DEF Inv, BootIsShort
      <4> QED
        BY <1>0, <1>1, <1>2, <3>1, <4>1, Bounds
    <3> QED
      BY <2>1, <3>2, <3>3 DEF Inv, BootIsShort, watchdog
  <2>2. CASE proc = "advert"
    <3>1. k = "advert" /\ UnderWay("advert") /\ Waiting("other") = {}
      BY <1>0, <2>2 DEF Inv, BootIsShort, Jobs
    <3>2. Waiting("other")' = {}
      BY <1>0, <1>1, <3>1
    <3> DEFINE a == IF UnderWay("advert")' THEN Age("advert")' ELSE Lag
    <3>3. Age("advert") <= a /\ a \in 0..Lag
      BY <1>0, <1>1, <1>2, <3>1, Bounds
    <3>4. uptime <= Lag + Age("advert")
          /\ \A q \in reliable \ Waiting("advert") : okAge[q] <= Age("advert")
      BY <2>2, <3>1 DEF Inv, BootIsShort
    <3>5. uptime' <= Lag + a
      BY <1>0, <3>3, <3>4, Bounds
    <3>6. \A q \in reliable \ Waiting("advert")' : okAge'[q] <= a
      <4>1. ASSUME NEW q \in reliable \ Waiting("advert")' PROVE okAge'[q] <= a
        <5>1. CASE q = r
          BY <1>3, <3>1, <3>3, <5>1
        <5>2. CASE q # r
          <6>1. q \in reliable \ Waiting("advert") /\ q \in Write
            BY <1>0, <1>1, <3>1, <4>1, <5>2
          <6>2. okAge'[q] = okAge[q] /\ okAge[q] <= Age("advert") /\ okAge[q] \in Nat
            BY <1>0, <1>3, <3>4, <5>2, <6>1
          <6> QED
            BY <1>0, <3>3, <6>2, Bounds
        <5> QED
          BY <5>1, <5>2
      <4> QED
        BY <4>1
    <3> HIDE DEF a
    <3>7. ~due' /\ firstBad' = Healthy /\ proc' = "advert" /\ reliable' = reliable
      BY <2>2 DEF Inv, BootIsShort, watchdog
    <3> QED
      BY <3>2, <3>5, <3>6, <3>7 DEF BootIsShort, a
  <2> QED
    BY <2>1, <2>2 DEF BootIsShort
<1>6. ReliableHeard'
  <2>1. ASSUME proc = "up", NEW q \in reliable
        PROVE  okAge'[q] <= IF q \in Waiting("advert")' THEN Refresh + Lag + Age("advert")'
                            ELSE Lag + Refresh - refreshIn
    <3>1. q \in Write
      BY <1>0
    <3>2. CASE q = r
      <4>1. okAge'[q] = Age(k) /\ Age(k) \in 0..Lag
        BY <1>0, <1>3, <2>1, <3>2
      <4>2. Age("advert")' \in 0..Lag
        BY <1>0, <1>1, Bounds
      <4> QED
        BY <1>0, <4>1, <4>2, Bounds
    <3>3. CASE q # r
      <4>1. okAge'[q] = okAge[q] /\ (q \in Waiting("advert")' <=> q \in Waiting("advert"))
        BY <1>0, <1>1, <1>3, <3>1, <3>3
      <4>2. q \in Waiting("advert")' => Age("advert")' = Age("advert")
        BY <1>0, <1>1, <3>3
      <4> QED
        BY <2>1, <4>1, <4>2 DEF Inv, ReliableHeard
    <3> QED
      BY <3>2, <3>3
  <2> QED
    BY <2>1 DEF ReliableHeard
<1>7. DeafSince'
  <2>1. \A q \in Write : okAge'[q] = okAge[q] \/ okAge'[q] <= Lag
    BY <1>0, <1>3
  <2> QED
    BY <2>1 DEF Inv, DeafSince, watchdog
<1>8. LookedAfter'
  <2>1. Longest' = Longest
    BY DEF Longest, watchdog
  <2>2. ASSUME NEW w \in Write, okAge[w] <= Longest PROVE okAge'[w] <= Longest
    BY <1>0, <1>3, <2>2, Bounds
  <2> QED
    BY <2>1, <2>2 DEF Inv, LookedAfter, watchdog
<1> QED
  BY <1>4, <1>5, <1>6, <1>7, <1>8 DEF Inv

\* A publish begins: whoever is reliable had its last advertisement in time.
LEMMA PublishKeeps ==
  ASSUME Inv, Publish \/ Heartbeat \/ Republish
  PROVE  Inv'
<1>0. /\ uptime \in Nat /\ okAge \in [Write -> 0..Alarm] /\ refreshIn \in 0..Refresh
      /\ reliable \subseteq Write /\ Jobbed
      /\ \A l \in Jobs : Age(l) \in 0..Lag
      /\ \A l \in Jobs : UnderWay(l) <=> Waiting(l) # {}
      /\ "advert" \in Jobs /\ "other" \in Jobs
  BY TypedParts DEF Inv, Jobs
<1>1. proc = "up" /\ UNCHANGED <<proc, uptime, okAge, world, watchdog>>
  BY DEF Publish, Heartbeat, Republish
<1>2. PICK k \in Jobs : /\ job' = [job EXCEPT ![k] = NewJob] /\ ~UnderWay(k)
                        /\ refreshIn' \in 0..Refresh
                        /\ k = "advert" \/ refreshIn' = refreshIn
  BY <1>0, Bounds DEF Publish, Heartbeat, Republish
<1>3. /\ Jobbed'
      /\ \A l \in Jobs : Waiting(l)' = IF l = k THEN Write ELSE Waiting(l)
      /\ \A l \in Jobs : Age(l)' = IF l = k THEN 0 ELSE Age(l)
  BY <1>0, <1>2, NewJobFacts
<1>4. TypeOK'
  BY <1>1, <1>2, <1>3 DEF Inv, TypeOK, Jobbed, world, watchdog
<1>5. BootIsShort'
  BY <1>1 DEF BootIsShort
<1>6. ReliableHeard'
  <2>1. ASSUME NEW q \in reliable
        PROVE  okAge[q] <= IF q \in Waiting("advert")' THEN Refresh + Lag + Age("advert")'
                           ELSE Lag + Refresh - refreshIn'
    <3>1. okAge[q] <= IF q \in Waiting("advert") THEN Refresh + Lag + Age("advert")
                      ELSE Lag + Refresh - refreshIn
      BY <1>1 DEF Inv, ReliableHeard
    <3>2. CASE k = "advert"
      <4>1. q \notin Waiting("advert") /\ q \in Waiting("advert")' /\ Age("advert")' = 0
        BY <1>0, <1>2, <1>3, <3>2
      <4> QED
        BY <1>0, <3>1, <4>1, Bounds
    <3>3. CASE k # "advert"
      BY <1>0, <1>2, <1>3, <3>1, <3>3
    <3> QED
      BY <3>2, <3>3
  <2> QED
    BY <1>1, <2>1 DEF ReliableHeard, world
<1>7. DeafSince' /\ LookedAfter'
  BY <1>1 DEF Inv, DeafSince, LookedAfter, Longest, watchdog
<1> QED
  BY <1>4, <1>5, <1>6, <1>7 DEF Inv

\* start() goes on: profile, advertisement, then the rest of main().
LEMMA BootKeeps ==
  ASSUME Inv, ProfileDone \/ Ready
  PROVE  Inv'
<1>0. /\ uptime \in Nat /\ okAge \in [Write -> 0..Alarm] /\ refreshIn \in 0..Refresh
      /\ reliable \subseteq Write /\ Jobbed
      /\ \A l \in Jobs : Age(l) \in 0..Lag
      /\ \A l \in Jobs : UnderWay(l) <=> Waiting(l) # {}
      /\ "advert" \in Jobs /\ "other" \in Jobs
  BY TypedParts DEF Inv, Jobs
<1>1. UNCHANGED <<uptime, okAge, world, watchdog>>
  BY DEF ProfileDone, Ready
<1>2. CASE ProfileDone
  <2>1. /\ proc = "profile" /\ Waiting("other") = {} /\ proc' = "advert"
        /\ job' = [job EXCEPT !["advert"] = NewJob] /\ refreshIn' = refreshIn
    BY <1>0, <1>2 DEF ProfileDone
  <2>2. /\ Jobbed'
        /\ Waiting("advert")' = Write /\ Waiting("other")' = {} /\ Age("advert")' = 0
    BY <1>0, <2>1, NewJobFacts
  <2>3. UnderWay("advert")'
    BY <2>2, Bounds DEF UnderWay, Waiting
  <2>4. TypeOK'
    BY <1>1, <2>1, <2>2 DEF Inv, TypeOK, Jobbed, world, watchdog
  <2>5. BootIsShort'
    <3>1. uptime <= Lag /\ ~due /\ firstBad = Healthy
      BY <1>0, <2>1 DEF Inv, BootIsShort
    <3>2. uptime' <= Lag + Age("advert")'
      BY <1>0, <1>1, <2>2, <3>1, Bounds
    <3>3. reliable' \ Waiting("advert")' = {}
      BY <1>0, <1>1, <2>2 DEF world
    <3> QED
      BY <1>1, <2>1, <2>2, <2>3, <3>1, <3>2, <3>3 DEF BootIsShort, watchdog
  <2> QED
    BY <2>1, <2>4, <2>5 DEF Inv, ReliableHeard, DeafSince, LookedAfter
<1>3. CASE Ready
  <2>1. /\ proc = "advert" /\ Waiting("advert") = {} /\ ~UnderWay("advert")
        /\ proc' = "up" /\ job' = job /\ refreshIn' = Refresh
    BY <1>0, <1>3 DEF Ready
  <2>2. uptime <= Lag + Lag /\ (\A q \in reliable : okAge[q] <= Lag) /\ ~due /\ firstBad = Healthy
    BY <2>1 DEF Inv, BootIsShort
  <2>3. Waiting("advert")' = {}
    BY <2>1 DEF Waiting
  <2>4. TypeOK'
    BY <1>1, <2>1, Bounds DEF Inv, TypeOK, world, watchdog
  <2>5. BootIsShort' /\ DeafSince'
    BY <1>1, <2>1, <2>2 DEF BootIsShort, DeafSince, watchdog
  <2>6. ReliableHeard'
    BY <1>0, <1>1, <2>1, <2>2, <2>3, Bounds DEF ReliableHeard, world
  <2>7. LookedAfter'
    <3>1. Longest' = Grace - 1 /\ firstBad' < Grace
      BY <1>1, <2>2, Bounds DEF Longest, Healthy, watchdog
    <3>2. uptime' <= Longest'
      BY <1>0, <1>1, <2>2, <3>1, Bounds
    <3> QED
      BY <3>1, <3>2 DEF LookedAfter
  <2> QED
    BY <2>4, <2>5, <2>6, <2>7 DEF Inv
<1> QED
  BY <1>2, <1>3

\* A look of the watchdog: what is degraded has no relay within Grace, so what
\* was deaf before is deaf still; what is not has an ear that is younger.
LEMMA WatchKeeps ==
  ASSUME Inv, WatchdogFine \/ WatchdogNotes \/ WatchdogWaits \/ WatchdogExits
  PROVE  Inv'
<1>0. /\ uptime \in Nat /\ okAge \in [Write -> 0..Alarm]
      /\ firstBad \in {Healthy} \union 0..Grace /\ Healthy \notin Nat
  BY TypedParts DEF Inv, Healthy
<1>1. /\ proc = "up" /\ due /\ due' = FALSE
      /\ UNCHANGED <<uptime, okAge, world, job, refreshIn>>
  BY DEF WatchdogFine, WatchdogNotes, WatchdogWaits, WatchdogExits, Watch
<1>2. firstBad' \in {Healthy, 0, firstBad} /\ proc' \in {"up", "stopping"}
  BY <1>1 DEF WatchdogFine, WatchdogNotes, WatchdogWaits, WatchdogExits, Watch, Recovered, Since
<1>3. firstBad' # Healthy => DegradedReason
  BY DEF WatchdogFine, WatchdogNotes, WatchdogWaits, WatchdogExits, Watch, Recovered
<1>4. TypeOK'
  <2>1. firstBad' \in Healthy..Grace
    BY <1>0, <1>2, Bounds DEF Healthy
  <2>2. uptime' < Grace => firstBad' = Healthy
    BY <1>0, <1>1, <1>3, Bounds DEF DegradedReason
  <2> QED
    BY <1>1, <1>2, <2>1, <2>2 DEF Inv, TypeOK, world
<1>5. BootIsShort'
  BY <1>2 DEF BootIsShort
<1>6. ReliableHeard'
  <2>1. Waiting("advert")' = Waiting("advert") /\ Age("advert")' = Age("advert")
    BY <1>1 DEF Waiting, Age
  <2> QED
    BY <1>1, <2>1 DEF Inv, ReliableHeard, world
<1>7. DeafSince'
  <2>1. ASSUME proc' = "up", firstBad' # Healthy, NEW r \in Write
        PROVE  okAge[r] >= Grace + firstBad'
    <3>1. okAge[r] >= Grace /\ okAge[r] \in Nat
      BY <1>0, <1>3, <2>1, Bounds DEF DegradedReason, Alive
    <3>2. CASE WatchdogNotes
      BY <3>1, <3>2, Bounds DEF WatchdogNotes, Watch
    <3>3. CASE WatchdogWaits
      <4>1. firstBad' = firstBad /\ firstBad # Healthy
        BY <3>3 DEF WatchdogWaits, Watch, Since
      <4>2. \/ okAge[r] >= Grace + firstBad
            \/ okAge[r] <= Lag
            \/ okAge[r] = Lag + 1
        BY <1>1, <4>1 DEF Inv, DeafSince
      <4> QED
        BY <3>1, <4>1, <4>2, Bounds
    <3>4. CASE WatchdogFine
      BY <2>1, <3>4 DEF WatchdogFine, Watch, Recovered
    <3>5. CASE WatchdogExits
      BY <2>1, <3>5 DEF WatchdogExits
    <3> QED
      BY <3>2, <3>3, <3>4, <3>5
  <2> QED
    BY <1>1, <2>1 DEF DeafSince
<1>8. LookedAfter'
  <2>1. CASE WatchdogFine
    <3>1. firstBad' = Healthy /\ ~DegradedReason
      BY <2>1 DEF WatchdogFine, Watch, Recovered
    <3>2. Longest' = Grace - 1 /\ firstBad' < Grace
      BY <1>1, <3>1, Bounds DEF Longest, Healthy
    <3>3. uptime <= Grace - 1 \/ \E r \in Write : okAge[r] <= Grace - 1
      <4>1. uptime < Grace \/ \E r \in Write : okAge[r] < Grace
        BY <1>0, <3>1, Bounds DEF DegradedReason, Alive
      <4> QED
        BY <1>0, <4>1, Bounds
    <3> QED
      BY <1>1, <3>2, <3>3 DEF LookedAfter
  <2>2. CASE WatchdogNotes
    <3>1. firstBad = Healthy /\ firstBad' = 0
      BY <2>2 DEF WatchdogNotes, Watch
    <3>2. Longest = Grace /\ Longest' = Grace /\ firstBad' < Grace
      BY <1>0, <1>1, <3>1, Bounds DEF Longest
    <3> QED
      BY <1>1, <3>2 DEF Inv, LookedAfter
  <2>3. CASE WatchdogWaits
    <3>1. firstBad # Healthy /\ firstBad' = firstBad /\ firstBad < Grace
      BY <1>0, <2>3, Bounds DEF WatchdogWaits, Watch, Since, TooLong
    <3>2. Longest' = Longest
      BY <3>1 DEF Longest
    <3> QED
      BY <1>1, <3>1, <3>2 DEF Inv, LookedAfter
  <2>4. CASE WatchdogExits
    BY <2>4 DEF WatchdogExits, LookedAfter
  <2> QED
    BY <2>1, <2>2, <2>3, <2>4
<1> QED
  BY <1>4, <1>5, <1>6, <1>7, <1>8 DEF Inv

\* Time: everything ages together, and no tick comes before its look.
LEMMA TickKeeps ==
  ASSUME Inv, Tick
  PROVE  Inv'
<1>0. /\ uptime \in Nat /\ okAge \in [Write -> 0..Alarm] /\ refreshIn \in 0..Refresh
      /\ firstBad \in {Healthy} \union 0..Grace /\ Healthy \notin Nat
      /\ reliable \subseteq Write /\ Jobbed
      /\ \A l \in Jobs : Age(l) \in 0..Lag
      /\ \A l \in Jobs : UnderWay(l) <=> Waiting(l) # {}
      /\ "advert" \in Jobs /\ "other" \in Jobs
  BY TypedParts DEF Inv, Jobs, Healthy
<1>1. /\ ~due /\ UNCHANGED <<proc, world>> /\ due' = (proc = "up")
      /\ proc = "profile" => UnderWay("other")
      /\ proc = "advert" => UnderWay("advert")
      /\ uptime' = Older(uptime, Alarm + 1)
      /\ firstBad' = IF firstBad = Healthy THEN Healthy ELSE Older(firstBad, Grace)
      /\ proc = "up" => refreshIn > 0
      /\ refreshIn' = IF proc = "up" THEN refreshIn - 1 ELSE refreshIn
  BY DEF Tick
<1>2. /\ okAge' \in [Write -> 0..Alarm]
      /\ \A r \in Write : /\ okAge'[r] <= okAge[r] + 1
                          /\ okAge'[r] = okAge[r] + 1 \/ okAge'[r] = Alarm
  <2>1. okAge' = [r \in Write |-> Older(okAge[r], Alarm)]
    BY DEF Tick
  <2>2. ASSUME NEW r \in Write
        PROVE  /\ Older(okAge[r], Alarm) \in 0..Alarm
               /\ Older(okAge[r], Alarm) <= okAge[r] + 1
               /\ Older(okAge[r], Alarm) = okAge[r] + 1 \/ Older(okAge[r], Alarm) = Alarm
    <3>1. okAge[r] \in 0..Alarm
      BY <1>0
    <3> QED
      BY <3>1, Bounds DEF Older
  <2> QED
    BY <2>1, <2>2
<1>3. /\ Jobbed'
      /\ \A l \in Jobs : Waiting(l)' = Waiting(l)
      /\ \A l \in Jobs : Age(l)' = IF UnderWay(l) THEN Age(l) + 1 ELSE Age(l)
      /\ \A l \in Jobs : UnderWay(l)' = UnderWay(l)
  <2>1. /\ job' = [k \in Jobs |-> IF UnderWay(k) THEN [job[k] EXCEPT !.age = @ + 1] ELSE job[k]]
        /\ \A k \in Jobs : UnderWay(k) => job[k].age < Lag
    BY DEF Tick
  <2>2. ASSUME NEW l \in Jobs
        PROVE  /\ job'[l] \in [age : 0..Lag, waits : SUBSET Write, retries : SUBSET NeedAuth]
               /\ job'[l].waits = job[l].waits /\ job'[l].retries = job[l].retries
               /\ job'[l].age = IF UnderWay(l) THEN job[l].age + 1 ELSE job[l].age
    <3>1. job[l] \in [age : 0..Lag, waits : SUBSET Write, retries : SUBSET NeedAuth]
      BY <1>0 DEF Jobbed
    <3>2. CASE UnderWay(l)
      <4>1. job'[l] = [job[l] EXCEPT !.age = @ + 1] /\ job[l].age < Lag
        BY <2>1, <3>2
      <4>2. job[l].age + 1 \in 0..Lag
        BY <3>1, <4>1, Bounds
      <4> QED
        BY <3>1, <3>2, <4>1, <4>2
    <3>3. CASE ~UnderWay(l)
      <4>1. job'[l] = job[l]
        BY <2>1, <3>3
      <4> QED
        BY <3>1, <3>3, <4>1
    <3> QED
      BY <3>2, <3>3
  <2>3. Jobbed'
    BY <2>1, <2>2 DEF Jobbed
  <2> QED
    BY <2>2, <2>3 DEF Waiting, Age, UnderWay
<1>4. uptime' \in 0..(Alarm + 1) /\ uptime' <= uptime + 1 /\ uptime' >= uptime
  <2>1. uptime \in 0..(Alarm + 1)
    BY DEF Inv, TypeOK
  <2> QED
    BY <1>1, <2>1, Bounds DEF Older
<1>5. /\ firstBad = Healthy <=> firstBad' = Healthy
      /\ firstBad' \in {Healthy} \union 0..Grace
      /\ firstBad # Healthy /\ firstBad < Grace => firstBad' = firstBad + 1
  BY <1>0, <1>1, Bounds DEF Older
<1>6. TypeOK'
  <2>1. firstBad' \in Healthy..Grace
    BY <1>5, Bounds DEF Healthy
  <2>2. uptime' < Grace => firstBad' = Healthy
    BY <1>0, <1>4, <1>5, Bounds DEF Inv, TypeOK
  <2>3. refreshIn' \in 0..Refresh
    BY <1>0, <1>1, Bounds
  <2>4. due' \in BOOLEAN
    BY <1>1
  <2> QED
    BY <1>1, <1>2, <1>3, <1>4, <2>1, <2>2, <2>3, <2>4 DEF Inv, TypeOK, Jobbed, world
<1>7. BootIsShort'
  <2>1. CASE proc = "profile"
    <3>1. Waiting("advert") = {} /\ uptime <= Age("other") /\ UnderWay("other")
          /\ ~due /\ firstBad = Healthy
      BY <1>1, <2>1 DEF Inv, BootIsShort
    <3>2. uptime' <= Age("other")' /\ UnderWay("other")' /\ Waiting("advert")' = {}
      BY <1>0, <1>3, <1>4, <3>1, Bounds
    <3> QED
      BY <1>1, <1>5, <2>1, <3>1, <3>2 DEF BootIsShort
  <2>2. CASE proc = "advert"
    <3>1. Waiting("other") = {} /\ uptime <= Lag + Age("advert") /\ UnderWay("advert")
          /\ ~due /\ firstBad = Healthy
          /\ \A r \in reliable \ Waiting("advert") : okAge[r] <= Age("advert")
      BY <1>1, <2>2 DEF Inv, BootIsShort
    <3>2. uptime' <= Lag + Age("advert")' /\ UnderWay("advert")' /\ Waiting("other")' = {}
      BY <1>0, <1>3, <1>4, <3>1, Bounds
    <3>3. ASSUME NEW r \in reliable' \ Waiting("advert")' PROVE okAge'[r] <= Age("advert")'
      <4>1. r \in reliable \ Waiting("advert") /\ r \in Write
        BY <1>0, <1>1, <1>3, <3>3 DEF world
      <4> QED
        BY <1>0, <1>2, <1>3, <3>1, <4>1, Bounds
    <3> QED
      BY <1>1, <1>5, <2>2, <3>1, <3>2, <3>3 DEF BootIsShort
  <2> QED
    BY <1>1, <2>1, <2>2 DEF BootIsShort
<1>8. ReliableHeard'
  <2>1. ASSUME proc = "up", NEW r \in reliable
        PROVE  okAge'[r] <= IF r \in Waiting("advert")' THEN Refresh + Lag + Age("advert")'
                            ELSE Lag + Refresh - refreshIn'
    <3>1. r \in Write /\ okAge[r] \in Nat /\ okAge'[r] \in Nat /\ okAge'[r] <= okAge[r] + 1
      BY <1>0, <1>2, Bounds
    <3>2. okAge[r] <= IF r \in Waiting("advert") THEN Refresh + Lag + Age("advert")
                      ELSE Lag + Refresh - refreshIn
      BY <2>1 DEF Inv, ReliableHeard
    <3>3. CASE r \in Waiting("advert")
      <4>1. r \in Waiting("advert")' /\ Age("advert")' = Age("advert") + 1
        BY <1>0, <1>3, <3>3
      <4> QED
        BY <1>0, <3>1, <3>2, <3>3, <4>1, Bounds
    <3>4. CASE r \notin Waiting("advert")
      <4>1. r \notin Waiting("advert")' /\ refreshIn' = refreshIn - 1
        BY <1>0, <1>1, <1>3, <2>1, <3>4
      <4> QED
        BY <1>0, <3>1, <3>2, <3>4, <4>1, Bounds
    <3> QED
      BY <3>3, <3>4
  <2> QED
    BY <1>1, <2>1 DEF ReliableHeard, world
<1>9. ASSUME proc = "up" PROVE firstBad < Grace
  BY <1>1, <1>9 DEF Inv, LookedAfter
<1>10. DeafSince'
  <2>1. ASSUME proc = "up", firstBad' # Healthy, NEW r \in Write
        PROVE  \/ okAge'[r] >= Grace + firstBad'
               \/ okAge'[r] <= Lag
               \/ okAge'[r] = Lag + 1
    <3>1. firstBad # Healthy /\ firstBad \in 0..Grace /\ firstBad' = firstBad + 1
          /\ firstBad < Grace
      BY <1>0, <1>5, <1>9, <2>1
    <3>2. okAge[r] >= Grace + firstBad \/ okAge[r] <= Lag
      BY <1>1, <2>1, <3>1 DEF Inv, DeafSince
    <3>3. okAge[r] \in Nat /\ okAge'[r] \in Nat /\ okAge'[r] <= okAge[r] + 1
          /\ (okAge'[r] = okAge[r] + 1 \/ okAge'[r] = Alarm)
      BY <1>0, <1>2, Bounds
    <3> QED
      BY <3>1, <3>2, <3>3, Bounds
  <2> QED
    BY <1>1, <2>1 DEF DeafSince
<1>11. LookedAfter'
  <2>1. ASSUME proc = "up" PROVE Longest' = Longest + 1 /\ Longest \in Nat
    <3>1. CASE firstBad = Healthy
      <4>1. ~due /\ due' /\ firstBad' = Healthy
        BY <1>1, <1>5, <2>1, <3>1
      <4>2. Longest = Grace - 1 /\ Longest' = Grace
        BY <3>1, <4>1 DEF Longest
      <4> QED
        BY <4>2, Bounds
    <3>2. CASE firstBad # Healthy
      <4>1. firstBad \in 0..Grace /\ firstBad' = firstBad + 1 /\ firstBad' # Healthy
        BY <1>0, <1>5, <1>9, <2>1, <3>2
      <4> QED
        BY <3>2, <4>1, Bounds DEF Longest
    <3> QED
      BY <3>1, <3>2
  <2>2. ASSUME proc = "up" PROVE uptime' <= Longest' \/ \E r \in Write : okAge'[r] <= Longest'
    <3>1. uptime <= Longest \/ \E r \in Write : okAge[r] <= Longest
      BY <2>2 DEF Inv, LookedAfter
    <3>2. ASSUME NEW r \in Write, okAge[r] <= Longest PROVE okAge'[r] <= Longest'
      <4>1. okAge[r] \in Nat /\ okAge'[r] \in Nat /\ okAge'[r] <= okAge[r] + 1
        BY <1>0, <1>2, Bounds
      <4> QED
        BY <2>1, <2>2, <3>2, <4>1
    <3>3. uptime <= Longest => uptime' <= Longest'
      BY <1>0, <1>4, <2>1, <2>2, Bounds
    <3> QED
      BY <3>1, <3>2, <3>3
  <2> QED
    BY <1>1, <2>2 DEF LookedAfter
<1> QED
  BY <1>6, <1>7, <1>8, <1>10, <1>11 DEF Inv

\* The process ends, and the supervisor starts it again.
LEMMA RestartKeeps ==
  ASSUME Inv, Shutdown \/ Restart
  PROVE  Inv'
<1>1. CASE Shutdown
  <2>0. /\ proc' = "stopping"
        /\ UNCHANGED <<uptime, okAge, authed, reliable, job, refreshIn, due, firstBad>>
    BY <1>1 DEF Shutdown, world, watchdog
  <2>1. TypeOK'
    BY <2>0 DEF Inv, TypeOK
  <2> QED
    BY <2>0, <2>1 DEF Inv, BootIsShort, ReliableHeard, DeafSince, LookedAfter
<1>2. CASE Restart
  <2>1. /\ proc' = "profile" /\ uptime' = 0 /\ okAge' = [r \in Write |-> Alarm]
        /\ authed' = {} /\ refreshIn' = Refresh /\ due' = FALSE /\ firstBad' = Healthy
        /\ job' = [k \in Jobs |-> IF k = "other" THEN NewJob ELSE NoJob]
        /\ reliable' = reliable
    BY <1>2 DEF Restart, Boot
  <2>2. job'["other"] = NewJob /\ job'["advert"] = NoJob /\ Jobbed'
    BY <2>1, Bounds DEF Jobs, Jobbed, NewJob, NoJob
  <2>3. TypeOK'
    <3>1. okAge' \in [Write -> 0..Alarm] /\ uptime' \in 0..(Alarm + 1) /\ refreshIn' \in 0..Refresh
      BY <2>1, Bounds
    <3>2. firstBad' \in Healthy..Grace
      BY <2>1, Bounds DEF Healthy
    <3> QED
      BY <2>1, <2>2, <3>1, <3>2 DEF Inv, TypeOK, Jobbed
  <2>4. Waiting("advert")' = {} /\ UnderWay("other")' /\ Age("other")' = 0
    BY <2>2, Bounds DEF Waiting, UnderWay, Age, NewJob, NoJob
  <2>5. BootIsShort'
    BY <2>1, <2>4 DEF BootIsShort
  <2> QED
    BY <2>1, <2>3, <2>5 DEF Inv, ReliableHeard, DeafSince, LookedAfter
<1> QED
  BY <1>1, <1>2

LEMMA NextInv == Inv /\ [Next]_vars => Inv'
<1> SUFFICES ASSUME Inv, [Next]_vars PROVE Inv'
  OBVIOUS
<1>0. Jobbed /\ authed \subseteq NeedAuth
  BY TypedParts DEF Inv
<1>1. CASE Publish \/ Heartbeat \/ Republish
  BY <1>1, PublishKeeps
<1>2. ASSUME NEW k \in Jobs, NEW r \in Write,
             Accept(k, r) \/ PublishAfterAuth(k, r) \/ Fail(k, r)
      PROVE  Inv'
  <2>1. /\ r \in Waiting(k) /\ job' = Settled(k, r)
        /\ Recorded(k, r) \/ (UNCHANGED okAge /\ r \notin reliable)
        /\ UNCHANGED <<proc, uptime, reliable, refreshIn, watchdog>>
        /\ authed' = authed \/ authed' = authed \union {r}
    BY <1>2 DEF Accept, PublishAfterAuth, Fail, Waiting, world
  <2>2. authed' \subseteq NeedAuth
    BY <1>0, <1>2, <2>1 DEF Accept, PublishAfterAuth, Fail, world, Jobbed
  <2> QED
    BY <2>1, <2>2, SettledKeeps
<1>3. ASSUME NEW k \in Jobs, NEW r \in Write, Restricted(k, r) PROVE Inv'
  <2>1. r \in NeedAuth /\ r \in job[k].waits /\ job' = Retry(k, r)
        /\ UNCHANGED <<proc, uptime, okAge, authed, reliable, refreshIn, watchdog>>
    BY <1>3 DEF Restricted, world
  <2>2. Jobbed' /\ \A l \in Jobs : Waiting(l)' = Waiting(l) /\ Age(l)' = Age(l)
    BY <1>0, <2>1, RetryFacts
  <2> QED
    BY <1>0, <2>1, <2>2, FrameKeeps
<1>4. ASSUME (\E r \in Write : Drop(r)) \/ UNCHANGED vars PROVE Inv'
  <2>1. /\ UNCHANGED <<proc, uptime, okAge, reliable, refreshIn, watchdog, job>>
        /\ authed' \subseteq authed
    BY <1>4 DEF Drop, vars, world
  <2>2. Jobbed' /\ \A l \in Jobs : Waiting(l)' = Waiting(l) /\ Age(l)' = Age(l)
    BY <1>0, <2>1 DEF Jobbed, Waiting, Age
  <2> QED
    BY <1>0, <2>1, <2>2, FrameKeeps
<1>5. CASE ProfileDone \/ Ready
  BY <1>5, BootKeeps
<1>6. CASE WatchdogFine \/ WatchdogNotes \/ WatchdogWaits \/ WatchdogExits
  BY <1>6, WatchKeeps
<1>7. CASE Shutdown \/ Restart
  BY <1>7, RestartKeeps
<1>8. CASE Tick
  BY <1>8, TickKeeps
<1> QED
  BY <1>1, <1>2, <1>3, <1>4, <1>5, <1>6, <1>7, <1>8 DEF Next

LEMMA InvHolds == Spec => []Inv
BY InitInv, NextInv, PTL DEF Spec

----------------------------------------------------------------------------
(* Theorems *)

\* The variables stay in type, and a process that has just come up is not yet
\* degraded.
THEOREM TypesHold == Spec => []TypeOK
<1>1. Inv => TypeOK
  BY DEF Inv
<1> QED
  BY <1>1, InvHolds, PTL

\* A process that nobody hears has restarted before /healthz calls it degraded,
\* for any periods with 2 * Lag < Grace, Refresh <= Grace and 2 * Grace + 1 < Alarm.
THEOREM HealsFirst == Spec => []HealedBeforeAlarm
<1>1. Inv => HealedBeforeAlarm
  <2> SUFFICES ASSUME Inv, proc = "up", uptime > Alarm, Alive(Alarm) = {} PROVE FALSE
    BY DEF HealedBeforeAlarm, HealthzDegraded
  <2>1. /\ uptime \in Nat /\ okAge \in [Write -> 0..Alarm]
        /\ firstBad \in {Healthy} \union 0..Grace
    BY TypedParts DEF Inv
  <2>2. Longest \in Nat /\ Longest < Alarm
    BY <2>1, TypedParts, Bounds DEF Inv, Longest
  <2>3. uptime <= Longest \/ \E r \in Write : okAge[r] <= Longest
    BY DEF Inv, LookedAfter
  <2>4. \A r \in Write : ~(okAge[r] < Alarm)
    BY DEF Alive
  <2>5. \A r \in Write : okAge[r] \in Nat
    BY <2>1, Bounds
  <2> QED
    BY <2>1, <2>2, <2>3, <2>4, <2>5, Bounds
<1> QED
  BY <1>1, InvHolds, PTL

\* The watchdog restarts only a process that no relay has heard for nearly two
\* grace periods; one reliable relay, with AUTH or without, prevents it.
THEOREM OnlyTheDeafRestart == Spec => RestartOnlyWhenDeaf
<1> DEFINE A == WatchdogExits => Alive(2 * Grace - Lag) = {} /\ reliable = {}
<1>1. ASSUME Inv, WatchdogExits PROVE Alive(2 * Grace - Lag) = {} /\ reliable = {}
  <2>1. /\ okAge \in [Write -> 0..Alarm] /\ firstBad \in {Healthy} \union 0..Grace
        /\ Healthy \notin Nat /\ refreshIn \in 0..Refresh /\ reliable \subseteq Write
        /\ Age("advert") \in 0..Lag
    BY <1>1, TypedParts DEF Inv, Healthy, Jobs
  <2>2. proc = "up" /\ due /\ firstBad >= Grace /\ DegradedReason
    BY <1>1 DEF WatchdogExits, Watch, TooLong
  <2>3. firstBad = Grace
    BY <2>1, <2>2, Bounds DEF Healthy
  <2>4. ASSUME NEW r \in Write PROVE okAge[r] \in Nat /\ okAge[r] >= Grace + Grace
    <3>1. okAge[r] >= Grace /\ okAge[r] \in Nat
      BY <2>1, <2>2, Bounds DEF DegradedReason, Alive
    <3>2. \/ okAge[r] >= Grace + Grace
          \/ okAge[r] <= Lag
          \/ okAge[r] = Lag + 1
      BY <1>1, <2>1, <2>2, <2>3, Bounds DEF Inv, DeafSince
    <3> QED
      BY <3>1, <3>2, Bounds
  <2>5. Alive(2 * Grace - Lag) = {}
    BY <2>4, Bounds DEF Alive
  <2>6. ASSUME NEW r \in reliable PROVE FALSE
    <3>1. r \in Write /\ okAge[r] \in Nat /\ okAge[r] >= Grace + Grace
      BY <2>1, <2>4
    <3>2. okAge[r] <= IF r \in Waiting("advert") THEN Refresh + Lag + Age("advert")
                      ELSE Lag + Refresh - refreshIn
      BY <1>1, <2>2 DEF Inv, ReliableHeard
    <3> QED
      BY <2>1, <3>1, <3>2, Bounds
  <2> QED
    BY <2>5, <2>6
<1>2. Inv /\ [Next]_vars => [A]_vars
  BY <1>1
<1> QED
  BY <1>2, InvHolds, PTL DEF Spec, RestartOnlyWhenDeaf
===============================================================================
