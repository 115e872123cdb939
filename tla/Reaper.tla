------------------------------- MODULE Reaper -------------------------------
(***************************************************************************)
(* The activity reaper of a room: reap() of src/src/room-mediasoup.ts, seen *)
(* from one key of the peer table.  SfuRoom leaves its clock and its packet *)
(* counts open; here they are.                                             *)
(*                                                                         *)
(* A tick is REAPER_INTERVAL_MS.  The reaper adds up the packet counts of  *)
(* the producers with one await per producer, and meanwhile clients go on  *)
(* producing, closing and leaving.  Ages are counted from the times that   *)
(* the code keeps and stop one past the last value that is compared.       *)
(***************************************************************************)
EXTENDS Naturals, FiniteSets

CONSTANTS
  Producers,   \* mediasoup producer ids; bounds those alive at once
  MaxPackets,  \* bound: packets of one producer that are counted
  Inactivity,  \* RTP_INACTIVITY_TIMEOUT_MS, in ticks
  NoProducer   \* NO_PRODUCER_TIMEOUT_MS, in ticks

ASSUME ReaperAssumption ==
  /\ IsFiniteSet(Producers)
  /\ MaxPackets \in Nat /\ Inactivity \in Nat /\ NoProducer \in Nat

VARIABLES
  present,    \* the key has a PeerState in the table
  recv,       \* its recvTransport is set
  connected,  \* ICE of one of its transports has connected
  producers,  \* PeerState.producers
  dead,       \* those of them whose transport had closed before they resolved
  packets,    \* packetCount of each producer, in the worker
  lastSeen,   \* PeerState.lastSeenPacketCount
  silence,    \* age of PeerState.lastInboundPacketAt
  joined,     \* age of PeerState.joinedAt
  due,        \* the interval timer of the reaper is due
  sweep,      \* the sweep that awaits stats of this peer, or NoSweep
  vanished,   \* history: the client is gone without a word
  quiet,      \* history: whole ticks since a packet of this peer came in
  heard,      \* history: a packet came in during this tick
  lost        \* history: the PeerState has lost a producer

client  == <<recv, connected, producers, dead>>
counts  == <<lastSeen, silence, joined>>
history == <<quiet, heard>>
reaperVars == <<present, client, packets, counts, due, sweep, vanished, history, lost>>

NoSweep == [running |-> FALSE, read |-> {}, total |-> 0, any |-> FALSE]
MaxTotal == MaxPackets * Cardinality(Producers)

\* A type invariant; totals stay within what the producers can have sent.
ReaperTypeOK ==
  /\ present \in BOOLEAN /\ recv \in BOOLEAN /\ connected \in BOOLEAN
  /\ producers \in SUBSET Producers
  /\ dead \in SUBSET producers
  /\ packets \in [Producers -> 0..MaxPackets]
  /\ lastSeen \in 0..MaxTotal
  /\ silence \in 0..(Inactivity + 1)
  /\ joined \in 0..(NoProducer + 1)
  /\ due \in BOOLEAN
  /\ sweep \in [running : BOOLEAN, read : SUBSET Producers, total : 0..MaxTotal,
                any : BOOLEAN]
  /\ vanished \in BOOLEAN /\ heard \in BOOLEAN /\ lost \in BOOLEAN
  /\ quiet \in 0..(Inactivity + 1)

ReaperInit ==
  /\ present = FALSE /\ recv = FALSE /\ connected = FALSE
  /\ producers = {} /\ dead = {}
  /\ packets = [p \in Producers |-> 0]
  /\ lastSeen = 0 /\ silence = 0 /\ joined = 0
  /\ due = FALSE /\ sweep = NoSweep
  /\ vanished = FALSE /\ quiet = 0 /\ heard = FALSE /\ lost = FALSE

----------------------------------------------------------------------------
(* What clients do, and what mediasoup reports of them *)

\* getOrCreatePeer
Enter ==
  /\ ~present
  /\ present' = TRUE
  /\ lastSeen' = 0 /\ silence' = 0 /\ joined' = 0
  /\ quiet' = 0 /\ heard' = FALSE /\ lost' = FALSE
  /\ UNCHANGED <<client, packets, due, sweep, vanished>>

\* The PeerState leaves the table; a sweep that awaits its stats goes on with
\* an object without producers, and dropStalePeer refuses it.
Gone ==
  /\ present' = FALSE /\ recv' = FALSE /\ connected' = FALSE
  /\ producers' = {} /\ dead' = {}
  /\ sweep' = NoSweep
  /\ vanished' = FALSE
  /\ UNCHANGED <<packets, counts, history, lost>>

\* Every departure that is not the reaper's: leave, kick, socket close, reload.
Leave ==
  /\ present
  /\ Gone
  /\ UNCHANGED due

\* The recv transport comes up, or is closed to be re-created.
RecvTransport ==
  /\ present
  /\ recv' = ~recv
  /\ vanished => recv'
  /\ UNCHANGED <<present, connected, producers, dead, packets, counts, due, sweep,
                 vanished, history, lost>>

IceConnected ==
  /\ present /\ ~vanished /\ ~connected
  /\ connected' = TRUE
  /\ UNCHANGED <<present, recv, producers, dead, packets, counts, due, sweep,
                 vanished, history, lost>>

\* mediasoup mints a UUID: an id a sweep has read does not come again.  The
\* producer is dead when its transport was re-created during the await.
Produce(p) ==
  /\ present /\ ~vanished
  /\ p \notin producers \union sweep.read
  /\ producers' = producers \union {p}
  /\ dead' \in {dead, dead \union {p}}
  /\ packets' = [packets EXCEPT ![p] = 0]
  /\ UNCHANGED <<present, recv, connected, counts, due, sweep, vanished, history,
                 lost>>

\* closeProducer, or the send transport is re-created and all of them close.
Unpublish(P) ==
  /\ present /\ ~vanished
  /\ producers' = producers \ P
  /\ dead' = dead \ P
  /\ lost' = TRUE
  /\ UNCHANGED <<present, recv, connected, packets, counts, due, sweep, vanished,
                 history>>
CloseProducer(p) == p \in producers /\ Unpublish({p})
SendReplaced == producers # {} /\ Unpublish(producers)

Packet(p) ==
  /\ ~vanished /\ connected
  /\ p \in producers \ dead
  /\ packets[p] < MaxPackets
  /\ packets' = [packets EXCEPT ![p] = @ + 1]
  /\ heard' = TRUE
  /\ UNCHANGED <<present, client, counts, due, sweep, vanished, quiet, lost>>

\* The tab is closed, the network is lost: nothing comes from the client again.
Vanish ==
  /\ present /\ ~vanished
  /\ vanished' = TRUE
  /\ UNCHANGED <<present, client, packets, counts, due, sweep, history, lost>>

\* A transport that had connected loses ICE consent; its sweep timer drops the
\* peer (TransportUnhealthy of a client that does come back is a Leave).
ConsentLost ==
  /\ present /\ vanished /\ connected
  /\ Gone
  /\ UNCHANGED due

----------------------------------------------------------------------------
(* Time.  Bound: the stats of a sweep arrive before the next tick. *)

Older(age, last) == IF age > last THEN age ELSE age + 1
Tick ==
  /\ sweep = NoSweep
  /\ due' = TRUE
  /\ silence' = Older(silence, Inactivity)
  /\ joined' = Older(joined, NoProducer)
  /\ quiet' = IF heard THEN 0 ELSE Older(quiet, Inactivity)
  /\ heard' = FALSE
  /\ UNCHANGED <<present, client, packets, lastSeen, sweep, vanished, lost>>

----------------------------------------------------------------------------
(* reap() *)

\* A peer without producers: only one without recv transport can be dropped.
Idle == ~recv /\ joined > NoProducer
ReapIdle ==
  /\ due /\ present /\ producers = {}
  /\ due' = FALSE
  /\ IF Idle THEN Gone
     ELSE UNCHANGED <<present, client, packets, counts, sweep, vanished, history,
                      lost>>

FirstTotalCarried == lastSeen
FirstTotal == 0
ReapBegin ==
  /\ due /\ present /\ producers # {}
  /\ due' = FALSE
  /\ sweep' = [running |-> TRUE, read |-> {}, total |-> FirstTotal, any |-> FALSE]
  /\ UNCHANGED <<present, client, packets, counts, vanished, history, lost>>

\* One getStats: the map is iterated as it is, producers that came during the
\* sweep included.  The stats of a dead producer reject; a producer has no
\* inbound stream in the worker, and no packetCount, before its first packet.
ReadStats(p) ==
  /\ sweep.running
  /\ p \in producers \ sweep.read
  /\ sweep' = IF p \in dead \/ packets[p] = 0
              THEN [sweep EXCEPT !.read = @ \union {p}]
              ELSE [sweep EXCEPT !.read = @ \union {p}, !.total = @ + packets[p],
                                 !.any = TRUE]
  /\ UNCHANGED <<present, client, packets, counts, due, vanished, history, lost>>

MovedOrSame == sweep.total >= lastSeen
Moved == sweep.total > lastSeen
SilenceKept == silence
SilenceOnMove == 0

\* All stats are read.  Without any the peer is skipped; a larger total is
\* remembered, another one is held against the inactivity timeout.
ReapEnd ==
  /\ sweep.running
  /\ producers \subseteq sweep.read
  /\ UNCHANGED due
  /\ IF sweep.any /\ ~Moved /\ silence > Inactivity
     THEN Gone
     ELSE /\ sweep' = NoSweep
          /\ lastSeen' = IF sweep.any /\ Moved THEN sweep.total ELSE lastSeen
          /\ silence' = IF sweep.any /\ Moved THEN SilenceOnMove ELSE silence
          /\ UNCHANGED <<present, client, packets, joined, vanished, history, lost>>

ReaperNext ==
  \/ Enter \/ Leave \/ RecvTransport \/ IceConnected \/ Vanish \/ ConsentLost
  \/ \E p \in Producers :
       Produce(p) \/ CloseProducer(p) \/ Packet(p) \/ ReadStats(p)
  \/ SendReplaced
  \/ Tick
  \/ ReapIdle \/ ReapBegin \/ ReapEnd

\* Time passes, the interval timer of the room fires, the worker answers.
ReaperFairness ==
  /\ WF_reaperVars(Tick)
  /\ WF_reaperVars(ReapIdle) /\ WF_reaperVars(ReapBegin) /\ WF_reaperVars(ReapEnd)
  /\ \A p \in Producers : WF_reaperVars(ReadStats(p))

ReaperSpec == ReaperInit /\ [][ReaperNext]_reaperVars

\* No fairness of the sweep timer: ICE and DTLS may go on reading "healthy" (the
\* comment of reap).
FairSpec == ReaperSpec /\ ReaperFairness

----------------------------------------------------------------------------
(* Properties *)

\* A sender that keeps its producers is reaped only after a whole timeout
\* without a packet, although its counts are read one by one while packets come
\* in and further producers are added.
SteadySenderStays ==
  [][(ReapEnd /\ present /\ ~present' /\ ~lost) => quiet >= Inactivity]_reaperVars

\* A client that vanished goes, whatever ICE and DTLS say of it: one that has
\* sent media by its packet counts, one with no producer and no recv transport
\* by the age of its join.
HasSent == \E p \in producers \ dead : packets[p] > 0
VanishedPeerGoes ==
  (vanished /\ (HasSent \/ (producers = {} /\ ~recv)))
    ~> (~present \/ (producers = {} /\ recv))
==============================================================================
