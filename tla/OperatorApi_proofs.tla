-------------------------- MODULE OperatorApi_proofs --------------------------
(* Configuration, sessions and test peers of OperatorApi, for any guests,     *)
(* keys, tokens, patches, handlers and test peers.                            *)
EXTENDS OperatorApi, TLAPS

----------------------------------------------------------------------------
(* Test peers *)

\* A script that ends itself has told its ffmpegs; until it handles signals,
\* nobody else has.
EndingTold ==
  /\ \A p \in Peers : script[p] = "ending" => ffmpeg[p] # "up"
  /\ \A p \in own : script[p] = "streaming" => ffmpeg[p] \in {"up", "failed"}

PeersInv == TestPeersTypeOK /\ TestPeersTended /\ EndingTold

LEMMA PeersStart == TestPeersInit => PeersInv
BY DEF TestPeersInit, PeersInv, TestPeersTypeOK, TestPeersTended, EndingTold

\* SIGTERM, by whomever, leaves the types, and nobody of P goes on streaming
\* who handles it.
LEMMA TerminateFacts ==
  ASSUME PeersInv, NEW P \in SUBSET Peers, Terminate(P), UNCHANGED <<own, targets>>,
         listed' \subseteq listed, \A p \in listed' : p \notin P \/ script[p] = "running",
         listed \ listed' \subseteq P
  PROVE  PeersInv'
<1> USE DEF PeersInv
<1>1. /\ script' = [p \in Peers |-> IF p \in P THEN Signalled(p) ELSE script[p]]
      /\ ffmpeg' = [p \in Peers |-> IF p \in P /\ EndsFfmpeg(p) THEN "told" ELSE ffmpeg[p]]
      /\ caught' = caught \union {p \in P \intersect own : script[p] = "streaming"}
  BY DEF Terminate
<1>2. \A p \in Peers :
        /\ Signalled(p) \in {"none", "leaving", "ending"}
        /\ Signalled(p) = "leaving" => p \in Mesh
        /\ Signalled(p) = "ending" => EndsFfmpeg(p) \/ ffmpeg[p] # "up"
        /\ p \in P /\ p \in own /\ p \in listed /\ ffmpeg'[p] = "up" =>
             Signalled(p) = "leaving" \/ p \in caught'
        /\ p \in P /\ ffmpeg'[p] = "up" /\ script[p] = "leaving" => Signalled(p) = "leaving"
        /\ script[p] = "running" => Signalled(p) # "none"
  BY <1>1 DEF Signalled, Ending, HandlesSignals, EndsFfmpeg, TestPeersTypeOK, EndingTold
<1>3. TestPeersTypeOK'
  BY <1>1, <1>2 DEF TestPeersTypeOK
<1>4. EndingTold'
  BY <1>1, <1>2 DEF EndingTold, TestPeersTypeOK
<1>5. TestPeersTended'
  BY <1>1, <1>2 DEF TestPeersTended, TestPeersTypeOK
<1> QED
  BY <1>3, <1>4, <1>5

\* The scripts, their ffmpegs and the second blow of the sweep.
LEMMA TestPeersStepKeeps ==
  ASSUME PeersInv, TestPeersStep
  PROVE  PeersInv' /\ own' = own
<1> USE DEF PeersInv
<1>1. CASE Escalate
  BY <1>1 DEF Escalate, Killed, TestPeersTypeOK, TestPeersTended, EndingTold
<1>2. ASSUME NEW p \in Peers, GiveUp(p) \/ Leave(p) \/ BreakPipe(p) PROVE PeersInv' /\ own' = own
  <2>1. /\ Exited(p) /\ UNCHANGED <<ffmpeg, own, caught, targets>>
        /\ p \in own => script[p] \in {"starting", "ending"}
    BY <1>2 DEF GiveUp, Leave, BreakPipe
  <2>2. p \in own => ffmpeg[p] # "up"
    BY <2>1 DEF TestPeersTypeOK, EndingTold
  <2> QED
    BY <2>1, <2>2 DEF Exited, TestPeersTypeOK, TestPeersTended, EndingTold
<1>3. ASSUME NEW p \in Peers, StartFfmpeg(p) \/ InstallHandlers(p) \/ Goodbye(p) \/ FfmpegExits(p)
      PROVE  PeersInv' /\ own' = own
  <2>1. CASE StartFfmpeg(p)
    BY <2>1 DEF StartFfmpeg, TestPeersTypeOK, TestPeersTended, EndingTold
  <2>2. CASE InstallHandlers(p)
    <3>1. ffmpeg[p] \in {"up", "failed", "none", "told"}
      BY DEF TestPeersTypeOK
    <3> QED
      BY <2>2, <3>1 DEF InstallHandlers, TestPeersTypeOK, TestPeersTended, EndingTold
  <2>3. CASE Goodbye(p)
    BY <2>3 DEF Goodbye, TestPeersTypeOK, TestPeersTended, EndingTold
  <2>4. CASE FfmpegExits(p)
    BY <2>4 DEF FfmpegExits, TestPeersTypeOK, TestPeersTended, EndingTold
  <2> QED
    BY <1>3, <2>1, <2>2, <2>3, <2>4
<1>4. ASSUME NEW p \in Peers, ReachLifetime(p) PROVE PeersInv' /\ own' = own
  BY <1>4, TerminateFacts DEF ReachLifetime, TestPeersTypeOK
<1> QED
  BY <1>1, <1>2, <1>3, <1>4 DEF TestPeersStep

\* What the process does to them: spawn, stop, die, sweep at boot.
LEMMA SpawnerKeeps ==
  ASSUME PeersInv,
         \/ \E p \in Peers : SpawnPeer(p)
         \/ \E P \in SUBSET Peers : StopPeers(P)
         \/ LeaveOrphans
         \/ own = {} /\ ReapTestPeerOrphans
  PROVE  PeersInv'
<1> USE DEF PeersInv
<1>1. ASSUME NEW p \in Peers, SpawnPeer(p) PROVE PeersInv'
  BY <1>1 DEF SpawnPeer, TestPeersTypeOK, TestPeersTended, EndingTold
<1>2. ASSUME NEW P \in SUBSET Peers, StopPeers(P) PROVE PeersInv'
  BY <1>2, TerminateFacts DEF StopPeers
<1>3. CASE LeaveOrphans
  BY <1>3 DEF LeaveOrphans, TestPeersTypeOK, TestPeersTended, EndingTold
<1>4. CASE own = {} /\ ReapTestPeerOrphans
  BY <1>4 DEF ReapTestPeerOrphans, TestPeersTypeOK, TestPeersTended, EndingTold
<1> QED
  BY <1>1, <1>2, <1>3, <1>4

----------------------------------------------------------------------------
(* Configuration *)

\* A record of overrides, field by field.
FieldsTyped(o) ==
  /\ "allowed" \in DOMAIN o => o["allowed"] \in SUBSET Guests
  /\ "referents" \in DOMAIN o => o["referents"] \in SUBSET Referents
  /\ "duration" \in DOMAIN o => o["duration"] \in Durations
  /\ "admins" \in DOMAIN o => o["admins"] \in SUBSET Keys
  /\ "operator" \in DOMAIN o => o["operator"] \in Keys

LEMMA OverridesTyped ==
  ASSUME NEW o \in Overrides
  PROVE  DOMAIN o \in SUBSET Fields /\ FieldsTyped(o)
<1>1. PICK D \in SUBSET Fields, v \in Values : o = [f \in D |-> v[f]]
  BY DEF Overrides
<1> QED
  BY <1>1 DEF Values, FieldsTyped, Fields

LEMMA TypedAreOverrides ==
  ASSUME NEW D \in SUBSET Fields, NEW g, FieldsTyped([f \in D |-> g[f]])
  PROVE  [f \in D |-> g[f]] \in Overrides
<1> DEFINE v == [allowed |-> IF "allowed" \in D THEN g["allowed"] ELSE {},
                 referents |-> IF "referents" \in D THEN g["referents"] ELSE {},
                 duration |-> IF "duration" \in D THEN g["duration"] ELSE EnvDuration,
                 admins |-> IF "admins" \in D THEN g["admins"] ELSE {},
                 operator |-> IF "operator" \in D THEN g["operator"] ELSE EnvOperator]
<1>1. v \in Values
  BY OperatorAssumption DEF Values, FieldsTyped
<1>2. [f \in D |-> g[f]] = [f \in D |-> v[f]]
  <2>1. ASSUME NEW f \in D PROVE v[f] = g[f]
    <3>1. f \in {"allowed", "referents", "duration", "admins", "operator"}
      BY DEF Fields
    <3> QED
      BY <3>1
  <2> HIDE DEF v
  <2> QED
    BY <2>1
<1> HIDE DEF v
<1> QED
  BY <1>1, <1>2 DEF Overrides

\* Whatever is applied or merged stays in type.
LEMMA ApplyTyped ==
  ASSUME NEW c \in Values, NEW o \in Overrides
  PROVE  ApplyOverrides(c, o) \in Values
BY OverridesTyped DEF ApplyOverrides, Values, FieldsTyped, Fields

LEMMA MergedTyped ==
  ASSUME NEW o \in Overrides, NEW p \in Overrides
  PROVE  Merged(o, p) \in Overrides
<1> DEFINE D == DOMAIN o \union DOMAIN p
           g == [f \in D |-> IF f \in DOMAIN p THEN p[f] ELSE o[f]]
<1>1. DOMAIN o \in SUBSET Fields /\ FieldsTyped(o) /\ DOMAIN p \in SUBSET Fields /\ FieldsTyped(p)
  BY OverridesTyped
<1>2. D \in SUBSET Fields
  BY <1>1
<1>3. FieldsTyped([f \in D |-> g[f]])
  BY <1>1 DEF FieldsTyped
<1>4. Merged(o, p) = [f \in D |-> g[f]]
  BY DEF Merged
<1> HIDE DEF g, D
<1> QED
  BY <1>2, <1>3, <1>4, TypedAreOverrides

LEMMA EnvTyped ==
  ASSUME allowFile \in SUBSET Guests
  PROVE  Env \in Values
BY OperatorAssumption DEF Env, LoadAllowList, Values

----------------------------------------------------------------------------
(* The invariant *)

ConfigInv ==
  /\ cfg \in Values /\ runtime \in Overrides
  /\ allowFile \in SUBSET Guests /\ reloaded \in BOOLEAN /\ armed \in Durations
  /\ follows \in SUBSET Guests /\ followFile \in SUBSET Guests

\* A handler awaits one thing, and remembers a ceiling only while it does; a
\* process that is down has neither handlers nor children.
HandlersInv ==
  /\ proc \in {"up", "stopping", "down"}
  /\ reader \in [Handlers -> {Nobody} \union Keys]
  /\ query \in [Handlers -> [refs : SUBSET Referents, prev : {Unpatched} \union Durations]]
  /\ \A q \in Handlers :
       /\ Reading(q) => ~Asking(q)
       /\ query[q].prev # Unpatched => Asking(q)
       /\ ~Running => Free(q)
  /\ ~Running => own = {}

\* A revoked token is nowhere, unless its own revocation was not written; a
\* session that is neither revoked nor expired is in the file, unless the last
\* write of it failed.
ConsoleInv ==
  /\ sessions \in SUBSET Tokens /\ sessionFile \in SUBSET Tokens
  /\ expired \in SUBSET Tokens /\ revoked \in SUBSET Tokens
  /\ unwritten \in SUBSET (Files \union Tokens)
  /\ revoked \intersect (sessions \union sessionFile) \subseteq unwritten
  /\ sessions \ expired \subseteq sessionFile \/ "sessions" \in unwritten

\* Rooms that are not armed with the ceiling have a handler that will rearm
\* them: one that remembers another ceiling than the one in force.
ArmedOrAsked ==
  Running => \/ armed = cfg.duration
             \/ \E q \in Handlers : query[q].prev \notin {Unpatched, cfg.duration}

\* What runtime.json has is in force, even after a write of it has failed.
RuntimeInForce ==
  Running => \A f \in DOMAIN runtime : cfg[f] = runtime[f] \/ (f = "allowed" /\ reloaded)

Inv ==
  /\ PeersInv /\ ConfigInv /\ HandlersInv /\ ConsoleInv
  /\ ArmedOrAsked /\ RestartKeepsConfig /\ RuntimeInForce

LEMMA NothingOverridden == <<>> \in Overrides
<1> DEFINE D == {}
           g == Env
<1>1. FieldsTyped([f \in D |-> g[f]])
  BY DEF FieldsTyped
<1>2. [f \in D |-> g[f]] \in Overrides
  BY <1>1, TypedAreOverrides
<1>3. <<>> = [f \in D |-> g[f]]
  OBVIOUS
<1> QED
  BY <1>2, <1>3

LEMMA InitInv == Init => Inv
<1> SUFFICES ASSUME Init PROVE Inv
  OBVIOUS
<1>1. allowFile \in SUBSET Guests /\ Env \in Values
  BY EnvTyped DEF Init
<1>2. runtime \in Overrides
  BY NothingOverridden DEF Init
<1>3. ConfigInv
  BY <1>1, <1>2, OperatorAssumption DEF Init, ConfigInv
<1>4. HandlersInv
  BY DEF Init, HandlersInv, Reading, Asking, Idle, Running
<1>5. ConsoleInv
  BY DEF Init, ConsoleInv
<1>6. ArmedOrAsked
  BY DEF Init, ArmedOrAsked, Env
<1>7. RestartKeepsConfig
  BY <1>1 DEF Init, RestartKeepsConfig, ApplyOverrides
<1>8. PeersInv
  BY PeersStart DEF Init
<1>9. RuntimeInForce
  BY DEF Init, RuntimeInForce
<1> QED
  BY <1>3, <1>4, <1>5, <1>6, <1>7, <1>8, <1>9 DEF Inv

----------------------------------------------------------------------------
(* Steps that leave the configuration alone *)

LEMMA ConfigFrame ==
  ASSUME ConfigInv, RestartKeepsConfig, RuntimeInForce,
         UNCHANGED <<cfg, runtime, allowFile, reloaded, armed, follows, followFile>>,
         Running' => Running,
         "runtime" \in unwritten => "runtime" \in unwritten',
         "follows" \in unwritten => "follows" \in unwritten'
  PROVE  ConfigInv' /\ RestartKeepsConfig' /\ RuntimeInForce'
<1>1. ConfigInv'
  BY DEF ConfigInv
<1>2. Env' = Env
  BY DEF Env, LoadAllowList
<1>3. ApplyOverrides(Env, runtime)' = ApplyOverrides(Env, runtime)
  BY <1>2 DEF ApplyOverrides
<1>4. RestartKeepsConfig'
  BY <1>3 DEF RestartKeepsConfig
<1>5. RuntimeInForce'
  BY DEF RuntimeInForce
<1> QED
  BY <1>1, <1>4, <1>5

\* save(), with what is in memory before it drops what is expired.
LEMMA SaveKeeps ==
  ASSUME ConsoleInv, NEW S \in SUBSET Tokens, revoked \intersect S \subseteq unwritten,
         NEW written \in BOOLEAN, Save(S, written), unwritten' = Marked(written),
         UNCHANGED <<revoked, expired>>
  PROVE  ConsoleInv'
<1>1. Tokens \intersect Files = {}
  BY OperatorAssumption
<1>2. \A t \in Tokens : t \in unwritten => t \in unwritten'
  BY <1>1 DEF Marked, Files
<1> QED
  BY <1>2 DEF ConsoleInv, Save, Marked, Files

\* Sessions come, go and expire, with writes that fail.
LEMMA ConsoleKeepsInv ==
  ASSUME Inv, NEW t \in Tokens, Issue(t) \/ Revoke(t) \/ Expire(t) \/ LookupExpired(t)
  PROVE  Inv'
<1> USE DEF Inv
<1>1. /\ UNCHANGED <<proc, config, reader, followed, testPeers>>
      /\ \A w \in {"follows", "runtime"} : w \in unwritten => w \in unwritten'
  BY DEF Issue, Revoke, Expire, LookupExpired, Marked
<1>2. ConfigInv' /\ RestartKeepsConfig' /\ RuntimeInForce'
  BY <1>1, ConfigFrame DEF config, followed, Running
<1>3. HandlersInv' /\ ArmedOrAsked'
  BY <1>1 DEF HandlersInv, ArmedOrAsked, config, followed, testPeers, Running, Reading, Asking, Free
<1>4. PeersInv'
  BY <1>1 DEF PeersInv, testPeers, TestPeersTypeOK, TestPeersTended, EndingTold
<1>5. ConsoleInv'
  <2>1. CASE Issue(t)
    <3>1. PICK written \in BOOLEAN : Save(sessions \union {t}, written) /\ unwritten' = Marked(written)
      BY <2>1 DEF Issue, IssueSaved
    <3>2. t \notin revoked /\ revoked' = revoked /\ expired' = expired
      BY <2>1 DEF Issue
    <3>3. sessions \union {t} \in SUBSET Tokens
          /\ revoked \intersect (sessions \union {t}) \subseteq unwritten
      BY <3>2 DEF ConsoleInv
    <3> QED
      BY <3>1, <3>2, <3>3, SaveKeeps
  <2>2. CASE Revoke(t)
    <3>1. PICK written \in BOOLEAN :
            /\ Save(sessions \ {t}, written)
            /\ unwritten' = Marked(written) \union (IF written THEN {} ELSE {t})
      BY <2>2 DEF Revoke, RevokeSaved
    <3>2. revoked' = revoked \union {t} /\ expired' = expired
      BY <2>2 DEF Revoke
    <3> QED
      BY <3>1, <3>2, OperatorAssumption DEF Save, Marked, ConsoleInv, Files
  <2>3. CASE Expire(t)
    BY <2>3 DEF Expire, ConsoleInv
  <2>4. CASE LookupExpired(t)
    <3>1. PICK written \in BOOLEAN : Save(sessions \ {t}, written) /\ unwritten' = Marked(written)
      BY <2>4 DEF LookupExpired
    <3>2. revoked' = revoked /\ expired' = expired
      BY <2>4 DEF LookupExpired
    <3>3. sessions \ {t} \in SUBSET Tokens /\ revoked \intersect (sessions \ {t}) \subseteq unwritten
      BY DEF ConsoleInv
    <3> QED
      BY <3>1, <3>2, <3>3, SaveKeeps
  <2> QED
    BY <2>1, <2>2, <2>3, <2>4
<1> QED
  BY <1>2, <1>3, <1>4, <1>5

\* A body is read: the handler is free again, and so far only it has changed.
LEMMA BodyFacts ==
  ASSUME Inv, NEW q \in Handlers, HasBody(q)
  PROVE  /\ Running /\ Free(q)' = ~Asking(q)' /\ ~Asking(q)
         /\ reader' \in [Handlers -> {Nobody} \union Keys]
         /\ \A p \in Handlers : Reading(p)' => Reading(p) /\ p # q
BY DEF Inv, HandlersInv, HasBody, Reading, Free

\* Handlers that only begin or end, and the test peers.
LEMMA PeersKeepInv ==
  ASSUME Inv,
         \/ TestPeersGoOn
         \/ \E q \in Handlers : \/ BadBody(q)
                                \/ \E c \in Credentials : Begin(q, c)
                                \/ \E p \in Peers : Spawn(q, p) \/ StopPeer(q, p)
  PROVE  Inv'
<1> USE DEF Inv
<1>1. UNCHANGED <<proc, config, followed, console, unwritten>>
  BY DEF TestPeersGoOn, BadBody, Begin, Spawn, StopPeer
<1>2. ConfigInv' /\ RestartKeepsConfig' /\ RuntimeInForce'
  BY <1>1, ConfigFrame DEF config, followed, Running
<1>3. ConsoleInv' /\ ArmedOrAsked'
  BY <1>1 DEF ConsoleInv, ArmedOrAsked, config, followed, console, Running
<1>4. CASE TestPeersGoOn
  <2>1. PeersInv' /\ own' = own /\ reader' = reader
    BY <1>4, TestPeersStepKeeps DEF TestPeersGoOn
  <2>2. HandlersInv'
    BY <1>1, <2>1 DEF HandlersInv, followed, Running, Reading, Asking, Free
  <2> QED
    BY <1>2, <1>3, <2>1, <2>2
<1>5. ASSUME NEW q \in Handlers,
             HasBody(q) \/ (Running /\ Free(q) /\ \E k \in Keys : reader' = [reader EXCEPT ![q] = k])
      PROVE  HandlersInv'
  BY <1>1, <1>5 DEF HandlersInv, HasBody, followed, Running, Reading, Asking, Free
<1>6. ASSUME NEW q \in Handlers, BadBody(q) PROVE Inv'
  <2>1. PeersInv'
    BY <1>6 DEF BadBody, PeersInv, testPeers, TestPeersTypeOK, TestPeersTended, EndingTold
  <2> QED
    BY <1>2, <1>3, <1>5, <1>6, <2>1 DEF BadBody
<1>7. ASSUME NEW q \in Handlers, NEW c \in Credentials, Begin(q, c) PROVE Inv'
  <2>1. PeersInv'
    BY <1>7 DEF Begin, PeersInv, testPeers, TestPeersTypeOK, TestPeersTended, EndingTold
  <2>2. Bearer(c) \in Keys
    BY <1>7, OperatorAssumption
    DEF Begin, Authorised, Bearer, Lookup, VerifyNip98, Credentials, ConsoleInv
  <2> QED
    BY <1>2, <1>3, <1>5, <1>7, <2>1, <2>2 DEF Begin
<1>8. ASSUME NEW q \in Handlers, NEW p \in Peers, Spawn(q, p) \/ StopPeer(q, p) PROVE Inv'
  <2>1. PeersInv'
    <3>1. SpawnPeer(p) \/ StopPeers({p})
      BY <1>8 DEF Spawn, StopPeer
    <3>2. {p} \in SUBSET Peers
      OBVIOUS
    <3> QED
      BY <3>1, <3>2, SpawnerKeeps
  <2> QED
    BY <1>2, <1>3, <1>5, <1>8, <2>1 DEF Spawn, StopPeer
<1> QED
  BY <1>4, <1>6, <1>7, <1>8

----------------------------------------------------------------------------
(* The follow-derived list *)

\* What an answer, or a list that has become empty, leaves behind; also what
\* holds of handlers that leave the list alone.
FollowStep ==
  /\ follows' \in SUBSET Guests /\ followFile' \in SUBSET Guests
  /\ follows' = followFile' \/ "follows" \in unwritten'
  /\ unwritten' \in SUBSET (Files \union Tokens)
  /\ \A w \in {"runtime", "sessions"} \union Tokens : w \in unwritten => w \in unwritten'

LEMMA DerivedFacts ==
  ASSUME Inv, NEW F \in SUBSET Guests, Derived(F)
  PROVE  FollowStep
BY OperatorAssumption DEF Inv, ConfigInv, ConsoleInv, Derived, FollowStep, Files

LEMMA SameFollows ==
  ASSUME Inv, Running, UNCHANGED <<follows, followFile, unwritten>>
  PROVE  FollowStep
BY DEF Inv, ConfigInv, ConsoleInv, RestartKeepsConfig, FollowStep

LEMMA FollowConsole ==
  ASSUME ConsoleInv, FollowStep, UNCHANGED console
  PROVE  ConsoleInv'
BY DEF ConsoleInv, FollowStep, console

\* A free handler, or one that has read its body, asks: it remembers what it is
\* told to, and the others go on.
LEMMA AskFacts ==
  ASSUME Inv, Running, NEW q \in Handlers, ~Asking(q), NEW refs \in SUBSET Referents,
         NEW prev \in {Unpatched} \union Durations, AskOrClear(q, refs, prev)
  PROVE  /\ FollowStep
         /\ query' \in [Handlers -> [refs : SUBSET Referents, prev : {Unpatched} \union Durations]]
         /\ \A p \in Handlers : p # q => query'[p] = query[p]
         /\ refs # {} => query'[q] = [refs |-> refs, prev |-> prev]
         /\ refs = {} => query' = query
         /\ query[q].prev = Unpatched /\ query[q].refs = {}
<1>1. query \in [Handlers -> [refs : SUBSET Referents, prev : {Unpatched} \union Durations]]
  BY DEF Inv, HandlersInv
<1>2. query[q].prev = Unpatched /\ query[q].refs = {}
  BY DEF Inv, HandlersInv, Asking
<1>3. CASE refs = {}
  <2>1. Derived({}) /\ query' = query
    BY <1>3 DEF AskOrClear
  <2>2. FollowStep
    BY <2>1, DerivedFacts
  <2> QED
    BY <1>1, <1>2, <1>3, <2>1, <2>2
<1>4. CASE refs # {}
  <2>1. /\ query' = [query EXCEPT ![q] = [refs |-> refs, prev |-> prev]]
        /\ UNCHANGED <<follows, followFile, unwritten>>
    BY <1>4 DEF AskOrClear
  <2>2. FollowStep
    BY <2>1, SameFollows
  <2> QED
    BY <1>1, <1>2, <1>4, <2>1, <2>2
<1> QED
  BY <1>3, <1>4

LEMMA ForgetfulAsk ==
  ASSUME Inv, Running, NEW q \in Handlers, ~Asking(q), NEW refs \in SUBSET Referents,
         AskOrClear(q, refs, Unpatched)
  PROVE  /\ FollowStep
         /\ query' \in [Handlers -> [refs : SUBSET Referents, prev : {Unpatched} \union Durations]]
         /\ \A p \in Handlers : p # q => query'[p] = query[p]
         /\ query'[q].prev = Unpatched /\ query[q].prev = Unpatched
<1> DEFINE prev == Unpatched
<1>1. prev \in {Unpatched} \union Durations /\ AskOrClear(q, refs, prev)
  OBVIOUS
<1> HIDE DEF prev
<1>2. /\ FollowStep
      /\ query' \in [Handlers -> [refs : SUBSET Referents, prev : {Unpatched} \union Durations]]
      /\ \A p \in Handlers : p # q => query'[p] = query[p]
      /\ refs # {} => query'[q] = [refs |-> refs, prev |-> prev]
      /\ refs = {} => query' = query
      /\ query[q].prev = Unpatched
  BY <1>1, AskFacts
<1>3. query'[q].prev = Unpatched
  <2>1. CASE refs = {}
    BY <1>2, <2>1
  <2>2. CASE refs # {}
    BY <1>2, <2>2 DEF prev
  <2> QED
    BY <2>1, <2>2
<1> QED
  BY <1>2, <1>3

\* Handlers that ask or are answered: who was reading reads no more, and who
\* asks does not read.
LEMMA AskersKeep ==
  ASSUME Inv, Running, UNCHANGED <<proc, testPeers>>, NEW q \in Handlers,
         reader' \in [Handlers -> {Nobody} \union Keys], ~Reading(q)',
         \A p \in Handlers : p # q => reader'[p] = reader[p] /\ query'[p] = query[p],
         query' \in [Handlers -> [refs : SUBSET Referents, prev : {Unpatched} \union Durations]],
         query'[q].prev # Unpatched => query'[q].refs # {}
  PROVE  HandlersInv' /\ PeersInv'
<1>1. HandlersInv'
  BY DEF Inv, HandlersInv, Reading, Asking, Free, Running, testPeers
<1>2. PeersInv'
  BY DEF Inv, PeersInv, testPeers, TestPeersTypeOK, TestPeersTended, EndingTold
<1> QED
  BY <1>1, <1>2

\* A step that leaves the configuration alone and may ask.
LEMMA SameConfig ==
  ASSUME Inv, Running, UNCHANGED <<proc, cfg, runtime, allowFile, reloaded>>,
         armed' \in Durations, FollowStep
  PROVE  ConfigInv' /\ RestartKeepsConfig' /\ RuntimeInForce'
<1>1. ConfigInv'
  BY DEF Inv, ConfigInv, FollowStep
<1>2. ApplyOverrides(Env, runtime)' = ApplyOverrides(Env, runtime)
  BY DEF ApplyOverrides, Env, LoadAllowList
<1>3. RestartKeepsConfig'
  BY <1>2 DEF Inv, RestartKeepsConfig, FollowStep, Running
<1>4. RuntimeInForce'
  BY DEF Inv, RuntimeInForce, Running
<1> QED
  BY <1>1, <1>3, <1>4

LEMMA SyncKeepsInv ==
  ASSUME Inv, NEW q \in Handlers, NEW c \in Credentials, SyncFollows(q, c)
  PROVE  Inv'
<1>1. /\ Running /\ ~Asking(q) /\ ~Reading(q) /\ AskOrClear(q, cfg.referents, Unpatched)
      /\ UNCHANGED <<proc, config, reader, console, testPeers>>
  BY DEF SyncFollows, Free
<1>2. cfg.referents \in SUBSET Referents /\ armed \in Durations
  BY DEF Inv, ConfigInv, Values
<1>3. /\ FollowStep
      /\ query' \in [Handlers -> [refs : SUBSET Referents, prev : {Unpatched} \union Durations]]
      /\ \A p \in Handlers : p # q => query'[p] = query[p]
      /\ query'[q].prev = Unpatched /\ query[q].prev = Unpatched
  BY <1>1, <1>2, ForgetfulAsk
<1>4. HandlersInv' /\ PeersInv'
  <2>1. reader' \in [Handlers -> {Nobody} \union Keys] /\ ~Reading(q)'
    BY <1>1 DEF Inv, HandlersInv, Reading
  <2> QED
    BY <1>1, <1>3, <2>1, AskersKeep
<1>5. ConfigInv' /\ RestartKeepsConfig' /\ RuntimeInForce'
  BY <1>1, <1>2, <1>3, SameConfig DEF config
<1>6. ConsoleInv'
  BY <1>1, <1>3, FollowConsole DEF Inv
<1>7. ArmedOrAsked'
  BY <1>1, <1>3 DEF Inv, ArmedOrAsked, Running, config
<1> QED
  BY <1>4, <1>5, <1>6, <1>7 DEF Inv

\* The end of a query rearms if the handler remembers another ceiling, and no
\* other handler forgets what it remembers.
LEMMA AnswerKeepsInv ==
  ASSUME Inv, NEW q \in Handlers, QueryAnswered(q) \/ QueryFails(q)
  PROVE  Inv'
<1>1. /\ Running /\ Asking(q) /\ query' = [query EXCEPT ![q] = Idle]
      /\ Rearm(query[q].prev, cfg.duration)
      /\ UNCHANGED <<proc, cfg, runtime, allowFile, reloaded, reader, console, testPeers>>
  BY DEF QueryAnswered, QueryFails
<1>2. FollowStep
  <2>1. CASE QueryFails(q)
    BY <2>1, SameFollows DEF QueryFails
  <2>2. CASE QueryAnswered(q)
    <3>1. PICK A \in SUBSET query[q].refs : Derived(UNION {FollowsOf[r] : r \in A})
      BY <2>2 DEF QueryAnswered
    <3>2. A \in SUBSET Referents
      BY <3>1 DEF Inv, HandlersInv
    <3>3. UNION {FollowsOf[r] : r \in A} \in SUBSET Guests
      BY <3>2, OperatorAssumption
    <3> QED
      BY <3>1, <3>3, DerivedFacts
  <2> QED
    BY <2>1, <2>2
<1>3. /\ query \in [Handlers -> [refs : SUBSET Referents, prev : {Unpatched} \union Durations]]
      /\ cfg.duration \in Durations /\ armed \in Durations
  BY DEF Inv, HandlersInv, ConfigInv, Values
<1>4. /\ query' \in [Handlers -> [refs : SUBSET Referents, prev : {Unpatched} \union Durations]]
      /\ \A p \in Handlers : p # q => query'[p] = query[p]
      /\ query'[q].prev = Unpatched
  BY <1>1, <1>3 DEF Idle
<1>5. HandlersInv' /\ PeersInv'
  <2>1. reader' \in [Handlers -> {Nobody} \union Keys] /\ ~Reading(q)'
    BY <1>1 DEF Inv, HandlersInv, Reading
  <2> QED
    BY <1>1, <1>4, <2>1, AskersKeep
<1>6. ConfigInv' /\ RestartKeepsConfig' /\ RuntimeInForce'
  <2>1. armed' \in Durations
    BY <1>1, <1>3 DEF Rearm
  <2> QED
    BY <1>1, <1>2, <2>1, SameConfig
<1>7. ConsoleInv'
  BY <1>1, <1>2, FollowConsole DEF Inv
<1>8. ArmedOrAsked'
  <2>1. CASE query[q].prev \notin {Unpatched, cfg.duration}
    BY <1>1, <2>1 DEF ArmedOrAsked, Rearm, Rearms
  <2>2. CASE query[q].prev \in {Unpatched, cfg.duration}
    BY <1>1, <1>3, <1>4, <2>2 DEF Inv, ArmedOrAsked, Rearm, Rearms, Running
  <2> QED
    BY <2>1, <2>2
<1> QED
  BY <1>5, <1>6, <1>7, <1>8 DEF Inv

\* SIGHUP: only the allow list changes, and the history says so.
LEMMA SighupKeepsInv ==
  ASSUME Inv, NEW q \in Handlers, Sighup(q)
  PROVE  Inv'
<1>1. /\ Running /\ ~Asking(q) /\ ~Reading(q) /\ reloaded' = TRUE
      /\ cfg' = [cfg EXCEPT !.allowed = LoadAllowList]
      /\ UNCHANGED <<proc, runtime, allowFile, armed, reader, console, testPeers>>
  BY DEF Sighup, Free
<1>2. cfg \in Values /\ cfg.referents \in SUBSET Referents /\ LoadAllowList \in SUBSET Guests
  BY OperatorAssumption DEF Inv, ConfigInv, Values, LoadAllowList
<1>3. /\ FollowStep
      /\ query' \in [Handlers -> [refs : SUBSET Referents, prev : {Unpatched} \union Durations]]
      /\ \A p \in Handlers : p # q => query'[p] = query[p]
      /\ query'[q].prev = Unpatched /\ query[q].prev = Unpatched
  <2>1. CASE cfg.referents = {}
    <3>1. UNCHANGED <<query, follows, followFile, unwritten>>
      BY <2>1 DEF Sighup, followed
    <3>2. query[q].prev = Unpatched
      BY <1>1 DEF Inv, HandlersInv
    <3> QED
      BY <1>1, <3>1, <3>2, SameFollows DEF Inv, HandlersInv
  <2>2. CASE cfg.referents # {}
    <3>1. AskOrClear(q, cfg.referents, Unpatched)
      BY <2>2 DEF Sighup
    <3> QED
      BY <1>1, <1>2, <3>1, ForgetfulAsk
  <2> QED
    BY <2>1, <2>2
<1>4. HandlersInv' /\ PeersInv'
  <2>1. reader' \in [Handlers -> {Nobody} \union Keys] /\ ~Reading(q)'
    BY <1>1 DEF Inv, HandlersInv, Reading
  <2> QED
    BY <1>1, <1>3, <2>1, AskersKeep
<1>5. ConfigInv'
  BY <1>1, <1>2, <1>3 DEF Inv, ConfigInv, FollowStep, Values
<1>6. cfg' \in Values /\ \A f \in Fields : f # "allowed" => cfg'[f] = cfg[f]
  BY <1>1, <1>2 DEF Values, Fields
<1>7. RestartKeepsConfig'
  <2>1. ApplyOverrides(Env, runtime)' = ApplyOverrides(Env, runtime)
    BY <1>1 DEF ApplyOverrides, Env, LoadAllowList
  <2> QED
    BY <1>1, <1>3, <1>6, <2>1 DEF Inv, RestartKeepsConfig, FollowStep, Running
<1>8. RuntimeInForce'
  <2>1. DOMAIN runtime \in SUBSET Fields
    BY OverridesTyped DEF Inv, ConfigInv
  <2> QED
    BY <1>1, <1>6, <2>1 DEF Inv, RuntimeInForce, Running
<1>9. ConsoleInv'
  BY <1>1, <1>3, FollowConsole DEF Inv
<1>10. ArmedOrAsked'
  <2>1. cfg'.duration = cfg.duration
    BY <1>6 DEF Fields
  <2> QED
    BY <1>1, <1>3, <2>1 DEF Inv, ArmedOrAsked, Running
<1> QED
  BY <1>4, <1>5, <1>7, <1>8, <1>9, <1>10 DEF Inv

----------------------------------------------------------------------------
(* PUT /admin/state *)

\* What the patch leaves in runtime.json is in force afterwards, and the other
\* fields stay what they were.
LEMMA PatchInForce ==
  ASSUME Inv, Running, NEW patch \in Patches,
         runtime' = Merged(runtime, patch), cfg' = ApplyOverrides(cfg, runtime')
  PROVE  /\ cfg' \in Values /\ runtime' \in Overrides
         /\ DOMAIN runtime' = DOMAIN runtime \union DOMAIN patch
         /\ \A f \in Fields : cfg'[f] = IF f \in DOMAIN runtime' THEN runtime'[f] ELSE cfg[f]
         /\ "duration" \notin DOMAIN patch => cfg'["duration"] = cfg["duration"]
<1>1. patch \in Overrides /\ cfg \in Values /\ runtime \in Overrides
  BY OperatorAssumption DEF Inv, ConfigInv
<1>2. cfg' \in Values /\ runtime' \in Overrides
  BY <1>1, MergedTyped, ApplyTyped
<1>3. \A f \in Fields : cfg'[f] = IF f \in DOMAIN runtime' THEN runtime'[f] ELSE cfg[f]
  BY DEF ApplyOverrides
<1>4. /\ DOMAIN runtime' = DOMAIN runtime \union DOMAIN patch
      /\ \A f \in DOMAIN runtime' : f \notin DOMAIN patch => runtime'[f] = runtime[f]
  BY DEF Merged
<1>5. ASSUME "duration" \notin DOMAIN patch PROVE cfg'["duration"] = cfg["duration"]
  BY <1>3, <1>4, <1>5 DEF Inv, RuntimeInForce, Fields
<1> QED
  BY <1>2, <1>3, <1>4, <1>5

\* A PUT that changes the ceiling rearms at once, or when the query it asks has
\* ended; its handler remembers the old one until then.
LEMMA PutKeepsInv ==
  ASSUME Inv, NEW q \in Handlers, NEW patch \in Patches, Put(q, patch)
  PROVE  Inv'
<1> DEFINE prev == Prev(patch)
           d == cfg'["duration"]
           asks == "referents" \in DOMAIN patch /\ cfg'.referents # {}
<1>1. /\ Running /\ HasBody(q) /\ runtime' = Merged(runtime, patch)
      /\ cfg' = ApplyOverrides(cfg, runtime')
      /\ reloaded' = (reloaded /\ "allowed" \notin DOMAIN runtime')
      /\ UNCHANGED <<proc, allowFile, console, testPeers>>
      /\ "referents" \in DOMAIN patch => AskOrClear(q, cfg'.referents, prev)
      /\ "referents" \notin DOMAIN patch => UNCHANGED <<query, follows, followFile, unwritten>>
      /\ asks => armed' = armed
      /\ ~asks => Rearm(prev, d)
  BY DEF Put, HasBody, followed
<1>2. /\ cfg' \in Values /\ runtime' \in Overrides
      /\ DOMAIN runtime' = DOMAIN runtime \union DOMAIN patch
      /\ \A f \in Fields : cfg'[f] = IF f \in DOMAIN runtime' THEN runtime'[f] ELSE cfg[f]
      /\ "duration" \notin DOMAIN patch => d = cfg["duration"]
  BY <1>1, PatchInForce
<1>3. /\ ~Asking(q) /\ reader' \in [Handlers -> {Nobody} \union Keys] /\ ~Reading(q)'
      /\ \A p \in Handlers : p # q => reader'[p] = reader[p]
      /\ query[q].prev = Unpatched
  BY <1>1 DEF Inv, HandlersInv, HasBody, Reading
<1>4. /\ d \in Durations /\ cfg'.referents \in SUBSET Referents
      /\ cfg["duration"] \in Durations /\ armed \in Durations
  BY <1>2 DEF Values, Inv, ConfigInv
<1>5. /\ prev \in {Unpatched} \union Durations
      /\ "duration" \in DOMAIN patch => prev = cfg["duration"]
      /\ "duration" \notin DOMAIN patch => prev = Unpatched
  BY <1>4 DEF Prev
<1> HIDE DEF prev, d
<1>6. /\ FollowStep
      /\ query' \in [Handlers -> [refs : SUBSET Referents, prev : {Unpatched} \union Durations]]
      /\ \A p \in Handlers : p # q => query'[p] = query[p]
      /\ asks => query'[q] = [refs |-> cfg'.referents, prev |-> prev]
      /\ ~asks => query' = query
  <2>1. CASE "referents" \in DOMAIN patch
    BY <1>1, <1>3, <1>4, <1>5, <2>1, AskFacts
  <2>2. CASE "referents" \notin DOMAIN patch
    BY <1>1, <2>2, SameFollows DEF Inv, HandlersInv
  <2> QED
    BY <2>1, <2>2
<1>7. HandlersInv' /\ PeersInv'
  <2>1. query'[q].prev # Unpatched => query'[q].refs # {}
    <3>1. CASE asks
      BY <1>6, <3>1
    <3>2. CASE ~asks
      BY <1>3, <1>6, <3>2
    <3> QED
      BY <3>1, <3>2
  <2> QED
    BY <1>1, <1>3, <1>6, <2>1, AskersKeep
<1>8. ConfigInv'
  <2>1. armed' \in Durations
    BY <1>1, <1>4 DEF Rearm
  <2>2. reloaded' \in BOOLEAN
    BY <1>1
  <2> QED
    BY <1>1, <1>2, <1>6, <2>1, <2>2 DEF Inv, ConfigInv, FollowStep
<1>9. RestartKeepsConfig'
  <2>1. Env' = Env
    BY <1>1 DEF Env, LoadAllowList
  <2>2. \A f \in Fields : ApplyOverrides(Env, runtime)'[f]
                          = IF f \in DOMAIN runtime' THEN runtime'[f] ELSE Env[f]
    BY <2>1 DEF ApplyOverrides
  <2>3. \A f \in Fields : ApplyOverrides(Env, runtime)[f]
                          = IF f \in DOMAIN runtime THEN runtime[f] ELSE Env[f]
    BY DEF ApplyOverrides
  <2>4. follows' = followFile' \/ "follows" \in unwritten'
    BY <1>6 DEF FollowStep
  <2>5. CASE "runtime" \in unwritten
    BY <1>6, <2>4, <2>5 DEF RestartKeepsConfig, FollowStep
  <2>6. CASE "runtime" \notin unwritten
    <3>1. \A f \in Fields : \/ cfg[f] = ApplyOverrides(Env, runtime)[f]
                            \/ f = "allowed" /\ reloaded
      BY <1>1, <2>6 DEF Inv, RestartKeepsConfig
    <3>2. ASSUME NEW f \in Fields
          PROVE  \/ cfg'[f] = ApplyOverrides(Env, runtime)'[f]
                 \/ f = "allowed" /\ reloaded'
      <4>1. CASE f \in DOMAIN runtime'
        BY <1>2, <2>2, <4>1
      <4>2. CASE f \notin DOMAIN runtime'
        <5>1. f \notin DOMAIN runtime /\ cfg'[f] = cfg[f]
          BY <1>2, <4>2
        <5>2. ApplyOverrides(Env, runtime)'[f] = ApplyOverrides(Env, runtime)[f]
          BY <2>2, <2>3, <4>2, <5>1
        <5> QED
          BY <1>1, <3>1, <4>2, <5>1, <5>2
      <4> QED
        BY <4>1, <4>2
    <3> QED
      BY <2>4, <3>2 DEF RestartKeepsConfig
  <2> QED
    BY <2>5, <2>6
<1>10. RuntimeInForce'
  <2>1. DOMAIN runtime' \in SUBSET Fields
    BY <1>2, OverridesTyped
  <2> QED
    BY <1>2, <2>1 DEF RuntimeInForce
<1>11. ConsoleInv'
  BY <1>1, <1>6, FollowConsole DEF Inv
<1>12. ArmedOrAsked'
  <2>1. CASE d = cfg["duration"]
    <3>1. armed' = armed
      BY <1>1, <1>5, <2>1 DEF Rearm, Rearms
    <3> QED
      BY <1>1, <1>3, <1>6, <2>1, <3>1 DEF Inv, ArmedOrAsked, d
  <2>2. CASE d # cfg["duration"]
    <3>1. prev = cfg["duration"] /\ prev # Unpatched
      BY <1>2, <1>4, <1>5, <2>2, OperatorAssumption
    <3>2. CASE asks
      <4>1. query'[q].prev = prev
        BY <1>6, <3>2
      <4> QED
        BY <2>2, <3>1, <4>1 DEF ArmedOrAsked, d
    <3>3. CASE ~asks
      BY <1>1, <2>2, <3>1, <3>3 DEF ArmedOrAsked, Rearm, Rearms, d
    <3> QED
      BY <3>2, <3>3
  <2> QED
    BY <2>1, <2>2
<1> QED
  BY <1>7, <1>8, <1>9, <1>10, <1>11, <1>12 DEF Inv

----------------------------------------------------------------------------
(* The process *)

\* A new room, and allow.json edited by hand.
LEMMA OutsideKeepsInv ==
  ASSUME Inv, RoomStarts \/ \E F \in SUBSET Guests : EditAllowFile(F)
  PROVE  Inv'
<1> USE DEF Inv
<1>1. UNCHANGED <<proc, cfg, runtime, reader, followed, console, testPeers, unwritten>>
  BY DEF RoomStarts, EditAllowFile
<1>2. PeersInv'
  BY <1>1 DEF PeersInv, testPeers, TestPeersTypeOK, TestPeersTended, EndingTold
<1>3. HandlersInv' /\ ConsoleInv'
  BY <1>1 DEF HandlersInv, ConsoleInv, followed, console, testPeers, Running, Reading, Asking, Free
<1>4. CASE RoomStarts
  <2>1. UNCHANGED <<allowFile, reloaded>> /\ armed' = cfg.duration
    BY <1>4 DEF RoomStarts
  <2>2. ConfigInv'
    BY <1>1, <2>1 DEF ConfigInv, followed, Values
  <2>3. ApplyOverrides(Env, runtime)' = ApplyOverrides(Env, runtime)
    BY <1>1, <2>1 DEF ApplyOverrides, Env, LoadAllowList
  <2>4. RestartKeepsConfig' /\ RuntimeInForce' /\ ArmedOrAsked'
    BY <1>1, <2>1, <2>3 DEF RestartKeepsConfig, RuntimeInForce, ArmedOrAsked, followed, Running
  <2> QED
    BY <1>2, <1>3, <2>2, <2>4
<1>5. ASSUME NEW F \in SUBSET Guests, EditAllowFile(F) PROVE Inv'
  <2>1. allowFile' = F /\ reloaded' = TRUE /\ UNCHANGED armed
    BY <1>5 DEF EditAllowFile
  <2>2. ConfigInv'
    BY <1>1, <2>1 DEF ConfigInv, followed
  <2>3. \A f \in Fields : f # "allowed" => Env'[f] = Env[f]
    BY DEF Env, Fields
  <2>4. \A f \in Fields : f # "allowed" => ApplyOverrides(Env, runtime)'[f]
                                           = ApplyOverrides(Env, runtime)[f]
    BY <1>1, <2>3 DEF ApplyOverrides
  <2>5. RestartKeepsConfig'
    BY <1>1, <2>1, <2>4 DEF RestartKeepsConfig, followed, Running
  <2>6. RuntimeInForce' /\ ArmedOrAsked'
    BY <1>1, <2>1 DEF RuntimeInForce, ArmedOrAsked, followed, Running
  <2> QED
    BY <1>2, <1>3, <2>2, <2>5, <2>6
<1> QED
  BY <1>4, <1>5

\* A shutdown leaves the handlers to go on; a write that fails loses what
\* runtime.json had.
LEMMA ShutdownKeepsInv ==
  ASSUME Inv, Shutdown \/ \E q \in Handlers : PutFails(q)
  PROVE  Inv'
<1> USE DEF Inv
<1>1. /\ proc = "up" /\ proc' = "stopping" /\ StopPeers(listed)
      /\ UNCHANGED <<cfg, allowFile, reloaded, armed, followed, console>>
  BY DEF Shutdown, PutFails, StartShutdown, config
<1>2. Running /\ Running'
  BY <1>1 DEF Running
<1>3. PeersInv'
  <2>1. listed \in SUBSET Peers
    BY DEF PeersInv, TestPeersTypeOK
  <2> QED
    BY <1>1, <2>1, SpawnerKeeps
<1>4. /\ reader' \in [Handlers -> {Nobody} \union Keys]
      /\ \A p \in Handlers : Reading(p)' => Reading(p)
  BY DEF Shutdown, PutFails, HasBody, HandlersInv, Reading
<1>5. HandlersInv'
  BY <1>1, <1>2, <1>4 DEF HandlersInv, followed, Asking
<1>6. ArmedOrAsked'
  BY <1>1, <1>2 DEF ArmedOrAsked, followed
<1>7. CASE Shutdown
  <2>1. UNCHANGED <<config, unwritten>>
    BY <1>7 DEF Shutdown
  <2>2. ConfigInv' /\ RestartKeepsConfig' /\ RuntimeInForce'
    BY <1>1, <1>2, <2>1, ConfigFrame DEF config, followed
  <2>3. ConsoleInv'
    BY <1>1, <2>1 DEF ConsoleInv, console
  <2> QED
    BY <1>3, <1>5, <1>6, <2>2, <2>3
<1>8. ASSUME NEW q \in Handlers, PutFails(q) PROVE Inv'
  <2>1. runtime' \in {runtime, <<>>} /\ unwritten' = unwritten \union {"runtime"}
    BY <1>8 DEF PutFails
  <2>2. ConfigInv'
    BY <1>1, <2>1, NothingOverridden DEF ConfigInv, followed
  <2>3. RestartKeepsConfig'
    BY <1>1, <1>2, <2>1 DEF RestartKeepsConfig, followed
  <2>4. RuntimeInForce'
    <3>1. CASE runtime' = runtime
      BY <1>1, <1>2, <3>1 DEF RuntimeInForce
    <3>2. CASE runtime' = <<>>
      BY <3>2 DEF RuntimeInForce
    <3> QED
      BY <2>1, <3>1, <3>2
  <2>5. ConsoleInv'
    BY <1>1, <2>1 DEF ConsoleInv, console, Files
  <2> QED
    BY <1>3, <1>5, <1>6, <2>2, <2>3, <2>4, <2>5
<1> QED
  BY <1>7, <1>8

LEMMA ExitKeepsInv ==
  ASSUME Inv, Exit
  PROVE  Inv'
<1> USE DEF Inv
<1>1. /\ proc' = "down" /\ ~Running' /\ LeaveOrphans
      /\ reader' = [q \in Handlers |-> Nobody] /\ query' = [q \in Handlers |-> Idle]
      /\ UNCHANGED <<config, follows, followFile, console, unwritten>>
  BY DEF Exit, Running
<1>2. PeersInv'
  BY <1>1, SpawnerKeeps
<1>3. HandlersInv'
  BY <1>1 DEF HandlersInv, Idle, Reading, Asking, Free, LeaveOrphans
<1>4. ConfigInv' /\ ConsoleInv'
  BY <1>1 DEF ConfigInv, ConsoleInv, config, console
<1>5. ArmedOrAsked' /\ RestartKeepsConfig' /\ RuntimeInForce'
  BY <1>1 DEF ArmedOrAsked, RestartKeepsConfig, RuntimeInForce
<1> QED
  BY <1>2, <1>3, <1>4, <1>5

\* The boot reads what the files have: no handler is left from before, and a
\* revoked token comes back only with the file that still had it.
LEMMA BootKeepsInv ==
  ASSUME Inv, NEW q \in Handlers, Boot(q)
  PROVE  Inv'
<1> USE DEF Inv
<1>1. /\ ~Running /\ proc' = "up" /\ Running'
      /\ cfg' = ApplyOverrides(Env, runtime) /\ reloaded' = FALSE /\ armed' = cfg'.duration
      /\ follows' = followFile /\ sessions' = sessionFile \ expired
      /\ unwritten' = unwritten \ Files
      /\ ReapTestPeerOrphans
      /\ UNCHANGED <<runtime, allowFile, reader, followFile, sessionFile, expired, revoked>>
  BY DEF Boot, Running
<1>2. cfg' \in Values
  BY <1>1, EnvTyped, ApplyTyped DEF ConfigInv
<1>3. /\ own = {} /\ own' = {} /\ \A p \in Handlers : Free(p) /\ query[p].prev = Unpatched
  BY <1>1 DEF HandlersInv, ReapTestPeerOrphans, Free
<1>4. /\ query' \in [Handlers -> [refs : SUBSET Referents, prev : {Unpatched} \union Durations]]
      /\ \A p \in Handlers : query'[p].prev = Unpatched
  <2>1. cfg'.referents \in SUBSET Referents
    BY <1>2 DEF Values
  <2>2. CASE cfg'.referents = {}
    <3>1. query' = [query EXCEPT ![q] = Idle]
      BY <2>2 DEF Boot
    <3> QED
      BY <1>3, <3>1 DEF HandlersInv, Idle
  <2>3. CASE cfg'.referents # {}
    <3>1. query' = [query EXCEPT ![q] = [refs |-> cfg'.referents, prev |-> Unpatched]]
      BY <2>3 DEF Boot
    <3> QED
      BY <1>3, <2>1, <3>1 DEF HandlersInv
  <2> QED
    BY <2>2, <2>3
<1>5. HandlersInv'
  BY <1>1, <1>3, <1>4 DEF HandlersInv, Reading, Free
<1>6. PeersInv'
  BY <1>1, <1>3, SpawnerKeeps
<1>7. ConfigInv'
  BY <1>1, <1>2 DEF ConfigInv, Values
<1>8. ConsoleInv'
  BY <1>1, OperatorAssumption DEF ConsoleInv
<1>9. ArmedOrAsked'
  BY <1>1 DEF ArmedOrAsked
<1>10. ApplyOverrides(Env, runtime)' = cfg'
  BY <1>1 DEF ApplyOverrides, Env, LoadAllowList
<1>11. RestartKeepsConfig'
  BY <1>1, <1>10 DEF RestartKeepsConfig
<1>12. RuntimeInForce'
  <2>1. DOMAIN runtime \in SUBSET Fields
    BY OverridesTyped DEF ConfigInv
  <2> QED
    BY <1>1, <2>1 DEF RuntimeInForce, ApplyOverrides
<1> QED
  BY <1>5, <1>6, <1>7, <1>8, <1>9, <1>11, <1>12

LEMMA StutterKeepsInv ==
  ASSUME Inv, UNCHANGED vars
  PROVE  Inv'
<1> USE DEF Inv
<1>1. UNCHANGED <<proc, config, reader, followed, console, testPeers, unwritten>>
  BY DEF vars
<1>2. PeersInv'
  BY <1>1 DEF PeersInv, testPeers, TestPeersTypeOK, TestPeersTended, EndingTold
<1>3. HandlersInv' /\ ConsoleInv' /\ ArmedOrAsked'
  BY <1>1 DEF HandlersInv, ConsoleInv, ArmedOrAsked, config, followed, console, testPeers,
              Running, Reading, Asking, Free
<1>4. ConfigInv' /\ RestartKeepsConfig' /\ RuntimeInForce'
  BY <1>1, ConfigFrame DEF config, followed, Running
<1> QED
  BY <1>2, <1>3, <1>4

LEMMA NextInv == Inv /\ [Next]_vars => Inv'
<1> SUFFICES ASSUME Inv, [Next]_vars PROVE Inv'
  OBVIOUS
<1>1. CASE UNCHANGED vars
  BY <1>1, StutterKeepsInv
<1>2. ASSUME NEW q \in Handlers, NEW c \in Credentials, Begin(q, c) \/ SyncFollows(q, c) PROVE Inv'
  BY <1>2, PeersKeepInv, SyncKeepsInv
<1>3. ASSUME NEW q \in Handlers, BadBody(q) \/ PutFails(q) PROVE Inv'
  BY <1>3, PeersKeepInv, ShutdownKeepsInv
<1>4. ASSUME NEW q \in Handlers, NEW patch \in Patches, Put(q, patch) PROVE Inv'
  BY <1>4, PutKeepsInv
<1>5. ASSUME NEW q \in Handlers, NEW p \in Peers, Spawn(q, p) \/ StopPeer(q, p) PROVE Inv'
  BY <1>5, PeersKeepInv
<1>6. ASSUME NEW q \in Handlers, QueryAnswered(q) \/ QueryFails(q) PROVE Inv'
  BY <1>6, AnswerKeepsInv
<1>7. ASSUME NEW q \in Handlers, Sighup(q) \/ Boot(q) PROVE Inv'
  BY <1>7, SighupKeepsInv, BootKeepsInv
<1>8. ASSUME RoomStarts \/ \E F \in SUBSET Guests : EditAllowFile(F) PROVE Inv'
  BY <1>8, OutsideKeepsInv
<1>9. ASSUME NEW t \in Tokens, Issue(t) \/ Revoke(t) \/ Expire(t) \/ LookupExpired(t) PROVE Inv'
  BY <1>9, ConsoleKeepsInv
<1>10. ASSUME TestPeersGoOn \/ Shutdown \/ Exit PROVE Inv'
  BY <1>10, PeersKeepInv, ShutdownKeepsInv, ExitKeepsInv
<1> QED
  BY <1>1, <1>2, <1>3, <1>4, <1>5, <1>6, <1>7, <1>8, <1>9, <1>10 DEF Next

LEMMA InvHolds == Spec => []Inv
BY InitInv, NextInv, PTL DEF Spec

----------------------------------------------------------------------------
(* Theorems *)

\* The variables stay in type, and a process that is down has neither handlers
\* nor children.
THEOREM TypesHold == Spec => []TypeOK
<1>1. Inv => TypeOK
  BY DEF Inv, PeersInv, ConfigInv, HandlersInv, ConsoleInv, TypeOK
<1> QED
  BY <1>1, InvHolds, PTL

\* Whatever PUTs, queries, SIGHUPs, failed writes and restarts come, the next
\* start of the process gives the configuration and the derived list that are
\* in force now, unless a write failed; only the allow list may be out of step,
\* after SIGHUP or an edit of allow.json.
THEOREM RestartKeeps == Spec => []RestartKeepsConfig
<1>1. Inv => RestartKeepsConfig
  BY DEF Inv
<1> QED
  BY <1>1, InvHolds, PTL

\* When no handler has a rearming ahead of it, the end timers of the rooms are
\* armed with the ceiling in force, whatever PUTs overtook each other.
THEOREM RunningCallsArmed == Spec => []DurationArmed
<1>1. Inv => DurationArmed
  BY DEF Inv, ArmedOrAsked, DurationArmed
<1> QED
  BY <1>1, InvHolds, PTL

\* A revoked session is in no memory of the process again, whatever sessions
\* are written later and however often it restarts, unless the write of the
\* revocation failed.
THEOREM RevokedStay == Spec => []RevokedStaysOut
<1>1. Inv => RevokedStaysOut
  BY DEF Inv, ConsoleInv, RevokedStaysOut
<1> QED
  BY <1>1, InvHolds, PTL

\* The sweep of a boot never reaches test peers of the process that boots, and
\* whom the operator stopped was told to end, with its ffmpegs, unless its script
\* had these but no handler for signals yet.
THEOREM PeersTended == Spec => []TestPeersTended
<1>1. Inv => TestPeersTended
  BY DEF Inv, PeersInv
<1> QED
  BY <1>1, InvHolds, PTL

\* No session that is neither revoked nor expired ends, but with a restart for
\* which the last write of the session file had failed: whatever other sessions
\* begin and end, and however often the process restarts.
THEOREM SessionsSurvive == Spec => SessionsLast
<1> DEFINE A == \A t \in sessions \ sessions' :
                  t \in revoked' \union expired \/ (~Running /\ "sessions" \in unwritten)
<1>1. ASSUME Inv, Next PROVE A
  <2>1. CASE UNCHANGED sessions
    BY <2>1
  <2>2. ASSUME NEW t \in Tokens, Issue(t) \/ Revoke(t) \/ LookupExpired(t) PROVE A
    BY <2>2 DEF Issue, IssueSaved, Revoke, RevokeSaved, LookupExpired, Save
  <2>3. ASSUME NEW q \in Handlers, Boot(q) PROVE A
    <3>1. sessions' = sessionFile \ expired /\ ~Running
      BY <2>3 DEF Boot, Running
    <3>2. sessions \ expired \subseteq sessionFile \/ "sessions" \in unwritten
      BY <1>1 DEF Inv, ConsoleInv
    <3> QED
      BY <3>1, <3>2
  <2> QED
    BY <1>1, <2>1, <2>2, <2>3
    DEF Next, Begin, SyncFollows, BadBody, PutFails, Put, Spawn, StopPeer, QueryAnswered,
        QueryFails, Sighup, EditAllowFile, RoomStarts, Expire, TestPeersGoOn, Shutdown, Exit,
        console
<1>2. Inv /\ [Next]_vars => [A]_vars
  BY <1>1
<1> QED
  BY <1>2, InvHolds, PTL DEF Spec, SessionsLast
===============================================================================
