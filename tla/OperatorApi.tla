----------------------------- MODULE OperatorApi -----------------------------
(***************************************************************************)
(* What an operator changes on a running process and what a restart makes  *)
(* of it: the requests of /admin and who may send them                     *)
(* (src/src/http-server.ts, src/src/admin.ts, src/src/admin-session.ts),   *)
(* runtime.json, allow.json and the environment (src/src/config.ts),       *)
(* SIGHUP, the boot and the shutdown (src/src/index.ts), and the           *)
(* follow-derived allow list (src/src/follow-whitelist.ts).                *)
(*                                                                         *)
(* A handler is one step up to an await after which it uses what it knew   *)
(* before: the body of a request that is authorised, and the query of the  *)
(* follow lists.  Handlers go on while the process shuts down.             *)
(***************************************************************************)
EXTENDS Integers, TestPeers

CONSTANTS
  Guests,       \* pubkeys that an allow list may name
  Referents,    \* trusted referent accounts
  FollowsOf,    \* per referent: whom its contact list names
  Durations,    \* values of maxCallDurationSeconds
  Keys,         \* pubkeys that use the console
  Tokens,       \* session tokens
  KeyOf,        \* per token: the key it is issued to
  EnvAllowed,   \* SFU_ALLOWED_PUBKEYS
  EnvReferents, \* SFU_TRUSTED_REFERENT_PUBKEYS
  EnvDuration,  \* SFU_MAX_CALL_DURATION_SECONDS
  EnvAdmins,    \* SFU_ADMIN_PUBKEYS
  EnvOperator,  \* SFU_OPERATOR_PUBKEY, or the pubkey of the SFU
  Patches,      \* the valid bodies of a PUT
  Unpatched,    \* maxCallDurationSeconds is not in the patch
  Nobody,       \* no key
  Handlers      \* bound: handlers that await something

Fields == {"allowed", "referents", "duration", "admins", "operator"}
Values == [allowed : SUBSET Guests, referents : SUBSET Referents, duration : Durations,
           admins : SUBSET Keys, operator : Keys]

\* The files with some of the fields.
Overrides == {[f \in D |-> v[f]] : D \in SUBSET Fields, v \in Values}

\* What the process writes while it runs.
Files == {"follows", "runtime", "sessions"}

ASSUME OperatorAssumption ==
  /\ EnvAllowed \subseteq Guests /\ EnvReferents \subseteq Referents
  /\ EnvAdmins \subseteq Keys /\ EnvOperator \in Keys /\ Nobody \notin Keys
  /\ KeyOf \in [Tokens -> Keys] /\ Tokens \intersect Files = {}
  /\ FollowsOf \in [Referents -> SUBSET Guests]
  /\ EnvDuration \in Durations /\ Durations \subseteq Nat
  /\ Unpatched \notin Durations
  /\ Patches \subseteq Overrides

VARIABLES
  proc,        \* "up", "stopping" (shutdown() has begun), "down"
  cfg,         \* the fields as they are in force
  runtime,     \* runtime.json
  allowFile,   \* allow.json
  reloaded,    \* history: since cfg.allowed was set, allow.json was edited or read
  armed,       \* the ceiling that the end timers of the rooms are armed with
  reader,      \* per handler: who was authorised to send the body it awaits
  query,       \* per handler: Idle, or the referents asked and who asked
  follows,     \* followAllowedPubkeys
  followFile,  \* follow-allow.json
  sessions,    \* tokens in memory
  sessionFile, \* tokens in admin-sessions.json
  expired,     \* tokens past their time
  revoked,     \* history: tokens whose session was deleted
  unwritten    \* history: files whose last write failed, revocations not written

config == <<cfg, runtime, allowFile, reloaded, armed>>
followed == <<query, follows, followFile>>
console == <<sessions, sessionFile, expired, revoked>>
vars == <<proc, config, reader, followed, console, testPeers, unwritten>>

Running == proc # "down"
Idle == [refs |-> {}, prev |-> Unpatched]
Asking(q) == query[q].refs # {}
Reading(q) == reader[q] # Nobody
Free(q) == ~Asking(q) /\ ~Reading(q)

\* A type invariant; a process that is down has neither handlers nor children.
TypeOK ==
  /\ proc \in {"up", "stopping", "down"}
  /\ cfg \in Values /\ runtime \in Overrides
  /\ allowFile \subseteq Guests /\ reloaded \in BOOLEAN
  /\ armed \in Durations
  /\ reader \in [Handlers -> {Nobody} \union Keys]
  /\ query \in [Handlers -> [refs : SUBSET Referents, prev : {Unpatched} \union Durations]]
  /\ follows \subseteq Guests /\ followFile \subseteq Guests
  /\ sessions \subseteq Tokens /\ sessionFile \subseteq Tokens
  /\ expired \subseteq Tokens /\ revoked \subseteq Tokens
  /\ unwritten \subseteq Files \union Tokens
  /\ TestPeersTypeOK
  /\ ~Running => own = {} /\ \A q \in Handlers : Free(q)

\* applyOverrides: a field the overrides do not have stays.
ApplyOverrides(c, o) == [f \in Fields |-> IF f \in DOMAIN o THEN o[f] ELSE c[f]]

\* loadAllowList; a file that is missing or cannot be read counts as empty.
LoadAllowList == EnvAllowed \union allowFile

Env ==
  [allowed |-> LoadAllowList, referents |-> EnvReferents, duration |-> EnvDuration,
   admins |-> EnvAdmins, operator |-> EnvOperator]

Init ==
  /\ proc = "up"
  /\ allowFile = {} /\ runtime = <<>> /\ cfg = Env /\ reloaded = FALSE
  /\ armed = EnvDuration
  /\ reader = [q \in Handlers |-> Nobody] /\ query = [q \in Handlers |-> Idle]
  /\ follows = {} /\ followFile = {}
  /\ sessions = {} /\ sessionFile = {} /\ expired = {}
  /\ revoked = {} /\ unwritten = {}
  /\ TestPeersInit

----------------------------------------------------------------------------
(* Who may *)

IsConsoleAdmin(k) == k = cfg.operator \/ k \in cfg.admins

\* What comes with a request: a cookie, or an event signed by a key, which fits
\* when kind, age, method, url and signature do.
Credentials == [token : Tokens] \union [signer : Keys, fits : BOOLEAN]

VerifyNip98(c) == IF c.fits THEN c.signer ELSE Nobody
Lookup(c) == IF c.token \in sessions \ expired THEN KeyOf[c.token] ELSE Nobody
Bearer(c) == IF "token" \in DOMAIN c THEN Lookup(c) ELSE VerifyNip98(c)

\* "The admin check is repeated on every request".
Authorised(c) == Bearer(c) # Nobody /\ IsConsoleAdmin(Bearer(c))

\* PUT /admin/state, /admin/test-peer/spawn and stop: authOrFail, then the body.
Begin(q, c) ==
  /\ Running /\ Free(q)
  /\ Authorised(c)
  /\ reader' = [reader EXCEPT ![q] = Bearer(c)]
  /\ UNCHANGED <<proc, config, followed, console, testPeers, unwritten>>

HasBody(q) ==
  /\ Running /\ Reading(q)
  /\ reader' = [reader EXCEPT ![q] = Nobody]

\* 400 or 404: no JSON, a value out of its range, no such peer or channel.
BadBody(q) ==
  /\ HasBody(q)
  /\ UNCHANGED <<proc, config, followed, console, testPeers, unwritten>>

----------------------------------------------------------------------------
(* syncTrustedReferentFollows *)

\* The list is replaced in memory, then on disk; a failed write leaves the old
\* file or one cut off, which is read as empty.
Derived(F) ==
  /\ follows' = F
  /\ \/ followFile' = F /\ unwritten' = unwritten \ {"follows"}
     \/ followFile' \in {followFile, {}} /\ unwritten' = unwritten \union {"follows"}

\* Without referents there is nothing to wait for.
AskOrClear(q, refs, prev) ==
  IF refs = {} THEN Derived({}) /\ UNCHANGED query
  ELSE /\ query' = [query EXCEPT ![q] = [refs |-> refs, prev |-> prev]]
       /\ UNCHANGED <<follows, followFile, unwritten>>

\* rearmDurationLimits, when the ceiling is another than before the PUT.
RearmsWhenLower(prev, d) == prev # Unpatched /\ d < prev
Rearms(prev, d) == prev # Unpatched /\ d # prev
Rearm(prev, d) == armed' = IF Rearms(prev, d) THEN d ELSE armed

\* The relays answered for some of the referents, perhaps for none.
QueryAnswered(q) ==
  /\ Running /\ Asking(q)
  /\ \E A \in SUBSET query[q].refs : Derived(UNION {FollowsOf[r] : r \in A})
  /\ query' = [query EXCEPT ![q] = Idle]
  /\ Rearm(query[q].prev, cfg.duration)
  /\ UNCHANGED <<proc, cfg, runtime, allowFile, reloaded, reader, console, testPeers>>

\* The query throws: whoever asked logs it and goes on.
QueryFails(q) ==
  /\ Running /\ Asking(q)
  /\ query' = [query EXCEPT ![q] = Idle]
  /\ Rearm(query[q].prev, cfg.duration)
  /\ UNCHANGED <<proc, cfg, runtime, allowFile, reloaded, reader, follows, followFile,
                 console, testPeers, unwritten>>

----------------------------------------------------------------------------
(* Configuration *)

\* PUT /admin/state: { ...loadRuntimeOverrides(), ...patch }
MergedPatch(o, patch) == patch
Merged(o, patch) ==
  [f \in DOMAIN o \union DOMAIN patch |-> IF f \in DOMAIN patch THEN patch[f] ELSE o[f]]

Prev(patch) == IF "duration" \in DOMAIN patch THEN cfg.duration ELSE Unpatched

Put(q, patch) ==
  /\ HasBody(q)
  /\ runtime' = Merged(runtime, patch)
  /\ cfg' = ApplyOverrides(cfg, runtime')
  /\ reloaded' = (reloaded /\ "allowed" \notin DOMAIN runtime')
  /\ IF "referents" \in DOMAIN patch
     THEN /\ AskOrClear(q, cfg'.referents, Prev(patch))
          /\ IF cfg'.referents = {} THEN Rearm(Prev(patch), cfg'.duration)
             ELSE UNCHANGED armed
     ELSE /\ Rearm(Prev(patch), cfg'.duration)
          /\ UNCHANGED <<followed, unwritten>>
  /\ UNCHANGED <<proc, allowFile, console, testPeers>>

SyncFollows(q, c) ==
  /\ Running /\ Free(q)
  /\ Authorised(c)
  /\ AskOrClear(q, cfg.referents, Unpatched)
  /\ UNCHANGED <<proc, config, reader, console, testPeers>>

\* A room starts, with its timer, when the others are over.
RoomStarts ==
  /\ Running
  /\ armed' = cfg.duration
  /\ UNCHANGED <<proc, cfg, runtime, allowFile, reloaded, reader, followed, console,
                 testPeers, unwritten>>

EditAllowFile(F) ==
  /\ allowFile' = F
  /\ reloaded' = TRUE
  /\ UNCHANGED <<proc, cfg, runtime, armed, reader, followed, console, testPeers, unwritten>>

\* reloadAllowList takes environment and allow.json, not runtime.json.
Sighup(q) ==
  /\ Running /\ Free(q)
  /\ cfg' = [cfg EXCEPT !.allowed = LoadAllowList]
  /\ reloaded' = TRUE
  /\ IF cfg.referents = {} THEN UNCHANGED <<followed, unwritten>>
     ELSE AskOrClear(q, cfg.referents, Unpatched)
  /\ UNCHANGED <<proc, runtime, allowFile, armed, reader, console, testPeers>>

----------------------------------------------------------------------------
(* Console sessions *)

\* save() drops what is expired and writes all the others; a failure it only
\* logs, and the next save writes everything again.
Save(S, written) ==
  /\ sessions' = S \ expired
  /\ IF written THEN sessionFile' = S \ expired ELSE sessionFile' \in {sessionFile, {}}
Marked(written) ==
  IF written THEN unwritten \ {"sessions"} ELSE unwritten \union {"sessions"}

Known == sessions \union sessionFile

\* A random token: not one in use, nor one that a history variable is about.
IssueInMemory(t, written) == sessions' = sessions \union {t} /\ UNCHANGED sessionFile
IssueSaved(t, written) == Save(sessions \union {t}, written)
Issue(t) ==
  /\ Running
  /\ IsConsoleAdmin(KeyOf[t])
  /\ t \in Tokens \ (Known \union expired \union revoked)
  /\ \E written \in BOOLEAN : IssueSaved(t, written) /\ unwritten' = Marked(written)
  /\ UNCHANGED <<proc, config, reader, followed, testPeers, expired, revoked>>

RevokeInMemory(t, written) == sessions' = sessions \ {t} /\ UNCHANGED sessionFile
RevokeSaved(t, written) == Save(sessions \ {t}, written)
Revoke(t) ==
  /\ Running
  /\ t \in sessions
  /\ revoked' = revoked \union {t}
  /\ \E written \in BOOLEAN :
       /\ RevokeSaved(t, written)
       /\ unwritten' = Marked(written) \union (IF written THEN {} ELSE {t})
  /\ UNCHANGED <<proc, config, reader, followed, testPeers, expired>>

Expire(t) ==
  /\ t \in Known \ expired
  /\ expired' = expired \union {t}
  /\ UNCHANGED <<proc, config, reader, followed, testPeers, sessions, sessionFile, revoked, unwritten>>

\* lookup: an expired token goes when somebody uses it.
LookupExpired(t) ==
  /\ Running
  /\ t \in sessions \intersect expired
  /\ \E written \in BOOLEAN : Save(sessions \ {t}, written) /\ unwritten' = Marked(written)
  /\ UNCHANGED <<proc, config, reader, followed, testPeers, expired, revoked>>

----------------------------------------------------------------------------
(* Test peers *)

Spawn(q, p) ==
  /\ HasBody(q)
  /\ SpawnPeer(p)
  /\ UNCHANGED <<proc, config, followed, console, unwritten>>

StopPeer(q, p) ==
  /\ HasBody(q)
  /\ p \in listed
  /\ StopPeers({p})
  /\ UNCHANGED <<proc, config, followed, console, unwritten>>

TestPeersGoOn ==
  /\ TestPeersStep
  /\ UNCHANGED <<proc, config, reader, followed, console, unwritten>>

----------------------------------------------------------------------------
(* The process *)

StartShutdown ==
  /\ proc = "up"
  /\ proc' = "stopping"
  /\ StopPeers(listed)

\* A signal, or a rejection that nobody handles: a body that breaks off.
Shutdown ==
  /\ StartShutdown
  /\ UNCHANGED <<config, reader, followed, console, unwritten>>

\* So does a failed write of runtime.json, which may cut the file off: it is
\* read as empty then, and what it had is lost with the next start.
PutFails(q) ==
  /\ HasBody(q)
  /\ StartShutdown
  /\ runtime' \in {runtime, <<>>}
  /\ unwritten' = unwritten \union {"runtime"}
  /\ UNCHANGED <<cfg, allowFile, reloaded, armed, followed, console>>

\* The shutdown ends, an admin asked for a restart, or the process is killed.
Exit ==
  /\ Running
  /\ proc' = "down"
  /\ reader' = [q \in Handlers |-> Nobody] /\ query' = [q \in Handlers |-> Idle]
  /\ LeaveOrphans
  /\ UNCHANGED <<config, follows, followFile, console, unwritten>>

\* main(): files over environment; the sweep comes before any test peer.
Boot(q) ==
  /\ proc = "down"
  /\ proc' = "up"
  /\ cfg' = ApplyOverrides(Env, runtime)
  /\ reloaded' = FALSE
  /\ armed' = cfg'.duration
  /\ follows' = followFile
  /\ query' = [query EXCEPT ![q] = IF cfg'.referents = {} THEN Idle
                                   ELSE [refs |-> cfg'.referents, prev |-> Unpatched]]
  /\ sessions' = sessionFile \ expired
  /\ unwritten' = unwritten \ Files
  /\ ReapTestPeerOrphans
  /\ UNCHANGED <<runtime, allowFile, reader, followFile, sessionFile, expired, revoked>>

----------------------------------------------------------------------------
Next ==
  \/ \E q \in Handlers :
       \/ \E c \in Credentials : Begin(q, c) \/ SyncFollows(q, c)
       \/ BadBody(q) \/ PutFails(q)
       \/ \E patch \in Patches : Put(q, patch)
       \/ \E p \in Peers : Spawn(q, p) \/ StopPeer(q, p)
       \/ QueryAnswered(q) \/ QueryFails(q)
       \/ Sighup(q) \/ Boot(q)
  \/ \E F \in SUBSET Guests : EditAllowFile(F)
  \/ RoomStarts
  \/ \E t \in Tokens : Issue(t) \/ Revoke(t) \/ Expire(t) \/ LookupExpired(t)
  \/ TestPeersGoOn
  \/ Shutdown \/ Exit

Spec == Init /\ [][Next]_vars

----------------------------------------------------------------------------
(* Properties *)

\* After a restart the process does what it does now: PUTs of different fields
\* are all in runtime.json, and the derived list in its file, if these could be
\* written.  Only SIGHUP and allow.json put the allow list out of step.
RestartKeepsConfig ==
  Running =>
    /\ \/ "runtime" \in unwritten
       \/ \A f \in Fields :
            cfg[f] = ApplyOverrides(Env, runtime)[f] \/ (f = "allowed" /\ reloaded)
    /\ follows = followFile \/ "follows" \in unwritten

\* Running calls follow the ceiling, although a PUT may await a query between
\* setting it and rearming them, and others come in between.
DurationArmed ==
  Running /\ (\A q \in Handlers : query[q].prev = Unpatched) => armed = cfg.duration

\* A session that was ended does not come back with a restart, nor with the
\* writes of other sessions; one whose own revocation could not be written may.
RevokedStaysOut ==
  Running => revoked \intersect sessions \subseteq unwritten

\* A restart does not log the operator out, nor do other sessions that begin,
\* end or expire meanwhile: only its revocation and its age end a session, or
\* a restart for which the last write of the file had failed.
SessionsLast ==
  [][\A t \in sessions \ sessions' :
       t \in revoked' \union expired \/ (~Running /\ "sessions" \in unwritten)]_vars
=============================================================================
