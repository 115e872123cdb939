------------------------------ MODULE TestPeers ------------------------------
(***************************************************************************)
(* Test peers, the children that outlive a crash: the spawner              *)
(* (src/src/test-peer-spawner.ts), the scripts it starts                   *)
(* (src/scripts/test-peers/test-peer-ms.mjs, test-peer-mesh.mjs) with the  *)
(* ffmpegs of each, and the sweep of the next boot                         *)
(* (src/src/orphan-reaper.ts).  OperatorApi has the process they belong to *)
(* and the requests that spawn and stop them.                              *)
(*                                                                         *)
(* The two ffmpegs of a script start and end together and count as one: a  *)
(* signal between the two spawns leaves one ffmpeg instead of two.         *)
(* A script that is killed from outside is not modelled, nor are pids that *)
(* the system uses again.                                                  *)
(***************************************************************************)
CONSTANTS
  Peers,  \* ids of test peers
  Mesh    \* those that were spawned with mode "mesh"; the others have "sfu"

ASSUME TestPeersAssumption == Mesh \subseteq Peers

VARIABLES
  script,   \* per peer: "none"; "starting"; "streaming": its ffmpegs run, but it
            \*   handles no signal yet; "running"; "leaving": says goodbye before
            \*   it ends its ffmpegs; "ending"
  ffmpeg,   \* per peer: "none", "up", "failed" (by itself), "told" (SIGTERM)
  listed,   \* peers of the spawner
  own,      \* children of the present process
  caught,   \* history: those of own whom a signal found in "streaming"
  targets   \* ffmpegs that the reaper will SIGKILL

testPeers == <<script, ffmpeg, listed, own, caught, targets>>

\* A type invariant; only children are listed, and what the sweep has told
\* stays with it.
TestPeersTypeOK ==
  /\ script \in [Peers -> {"none", "starting", "streaming", "running", "leaving", "ending"}]
  /\ ffmpeg \in [Peers -> {"none", "up", "failed", "told"}]
  /\ listed \subseteq own /\ caught \subseteq own /\ own \subseteq Peers
  /\ targets \subseteq Peers \ own
  /\ \A p \in Peers \ Mesh : script[p] # "leaving"
  /\ \A p \in Peers : script[p] = "starting" => ffmpeg[p] = "none"
  /\ \A p \in listed : script[p] # "none"

TestPeersInit ==
  /\ script = [p \in Peers |-> "none"] /\ ffmpeg = [p \in Peers |-> "none"]
  /\ listed = {} /\ own = {} /\ caught = {} /\ targets = {}

----------------------------------------------------------------------------
(* The spawner *)

\* spawn(): a random id that nothing of an earlier peer goes by.
SpawnPeer(p) ==
  /\ script[p] = "none" /\ ffmpeg[p] = "none" /\ p \notin targets
  /\ script' = [script EXCEPT ![p] = "starting"]
  /\ listed' = listed \union {p}
  /\ own' = own \union {p}
  /\ caught' = caught \ {p}
  /\ UNCHANGED <<ffmpeg, targets>>

\* What SIGTERM does: node's default until the script has its handler, which
\* leaves its ffmpegs alone; then cleanup(), which in mesh mode first says
\* goodbye and ignores a second call.
Ending(p) == IF p \in Mesh THEN "leaving" ELSE "ending"
HandlesSignals(p) == script[p] \in {"running", "leaving", "ending"}
Signalled(p) ==
  IF script[p] = "running" THEN Ending(p) ELSE IF HandlesSignals(p) THEN script[p] ELSE "none"
EndsFfmpeg(p) == p \notin Mesh /\ HandlesSignals(p) /\ ffmpeg[p] = "up"

TerminateNobody(P) == UNCHANGED <<script, ffmpeg, caught>>
Terminate(P) ==
  /\ script' = [p \in Peers |-> IF p \in P THEN Signalled(p) ELSE script[p]]
  /\ ffmpeg' = [p \in Peers |-> IF p \in P /\ EndsFfmpeg(p) THEN "told" ELSE ffmpeg[p]]
  /\ caught' = caught \union {p \in P \intersect own : script[p] = "streaming"}

\* stop() for each of P.
StopPeers(P) ==
  /\ Terminate(P)
  /\ listed' = listed \ P
  /\ UNCHANGED <<own, targets>>

----------------------------------------------------------------------------
(* The scripts *)

\* "exit" reaches the process that spawned it, if that is still there.
StillListed(p) == script' = [script EXCEPT ![p] = "none"] /\ UNCHANGED listed
Exited(p) ==
  /\ script' = [script EXCEPT ![p] = "none"]
  /\ listed' = listed \ {p}

\* No advertisement, no room or injection refused, no ffmpeg to start.
GiveUp(p) ==
  /\ script[p] = "starting"
  /\ Exited(p)
  /\ UNCHANGED <<ffmpeg, own, caught, targets>>

\* The injections were answered, or the sinks are bound: two ffmpegs.
StartFfmpeg(p) ==
  /\ script[p] = "starting"
  /\ script' = [script EXCEPT ![p] = "streaming"]
  /\ ffmpeg' = [ffmpeg EXCEPT ![p] = "up"]
  /\ UNCHANGED <<listed, own, caught, targets>>

\* process.on: in the sfu script some lines after the two spawns, in mesh after
\* the first beacon.
InstallHandlers(p) ==
  /\ script[p] = "streaming"
  /\ script' = [script EXCEPT ![p] = "running"]
  /\ UNCHANGED <<ffmpeg, listed, own, caught, targets>>

\* MAX_LIFETIME_SEC: the script calls its own cleanup().
ReachLifetime(p) ==
  /\ script[p] = "running"
  /\ Terminate({p})
  /\ UNCHANGED <<listed, own, targets>>

Goodbye(p) ==
  /\ script[p] = "leaving"
  /\ script' = [script EXCEPT ![p] = "ending"]
  /\ ffmpeg' = [ffmpeg EXCEPT ![p] = IF @ = "up" THEN "told" ELSE @]
  /\ UNCHANGED <<listed, own, caught, targets>>

Leave(p) ==
  /\ script[p] = "ending"
  /\ Exited(p)
  /\ UNCHANGED <<ffmpeg, own, caught, targets>>

\* A script whose parent is gone may die of its next line of output, without
\* cleanup.
BreakPipe(p) ==
  /\ p \notin own /\ script[p] # "none"
  /\ Exited(p)
  /\ UNCHANGED <<ffmpeg, own, caught, targets>>

\* It ends when told, or by itself, which the script only logs.
FfmpegExits(p) ==
  /\ ffmpeg[p] # "none"
  /\ ffmpeg' = [ffmpeg EXCEPT ![p] = IF @ = "told" \/ script[p] = "none" THEN "none" ELSE "failed"]
  /\ UNCHANGED <<script, listed, own, caught, targets>>

----------------------------------------------------------------------------
(* The processes of the SFU *)

LeaveOrphans ==
  /\ own' = {} /\ listed' = {} /\ caught' = {} /\ targets' = {}
  /\ UNCHANGED <<script, ffmpeg>>

\* Every ffmpeg with the arguments of a test peer, whoever started it; the
\* scripts go on.
ReapTestPeerOrphans ==
  /\ targets' = {p \in Peers : ffmpeg[p] \in {"up", "told"}}
  /\ ffmpeg' = [p \in Peers |-> IF p \in targets' THEN "told" ELSE ffmpeg[p]]
  /\ UNCHANGED <<script, listed, own, caught>>

\* 2 s later, for those that ignored SIGTERM: the pids of then, not the
\* ffmpegs of now.
KilledNow == {p \in Peers : ffmpeg[p] \in {"up", "told"}}
Killed == targets
Escalate ==
  /\ targets # {}
  /\ ffmpeg' = [p \in Peers |-> IF p \in Killed THEN "none" ELSE ffmpeg[p]]
  /\ targets' = {}
  /\ UNCHANGED <<script, listed, own, caught>>

TestPeersStep ==
  \/ \E p \in Peers :
       \/ GiveUp(p) \/ StartFfmpeg(p) \/ InstallHandlers(p) \/ ReachLifetime(p)
       \/ Goodbye(p) \/ Leave(p) \/ BreakPipe(p) \/ FfmpegExits(p)
  \/ Escalate

----------------------------------------------------------------------------
(* Properties *)

\* Whom the operator sees streams until it ends itself: the sweep of the boot
\* never reaches a peer of this process.  Whom the operator does not see any
\* more is gone or going, and its ffmpegs were told to end, or will be by a
\* mesh script that still says goodbye; only a script that a signal found with
\* its ffmpegs up and no handler installed yet, in either mode, leaves them.
TestPeersTended ==
  \A p \in own :
    /\ p \in listed /\ script[p] = "running" => ffmpeg[p] \in {"up", "failed"}
    /\ p \notin listed => script[p] \in {"none", "leaving", "ending"}
    /\ p \notin listed /\ ffmpeg[p] = "up" => script[p] = "leaving" \/ p \in caught
=============================================================================
