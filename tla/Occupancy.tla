----------------------------- MODULE Occupancy -----------------------------
(***************************************************************************)
(* What a room promises about who is in it, whatever happens to devices,   *)
(* transports and requests: users enter below the cap in force when they   *)
(* enter, an empty room counts down once, a user's return stops the count, *)
(* and only an empty room ends by counting.                                *)
(***************************************************************************)
EXTENDS Naturals, FiniteSets

CONSTANTS
  Users,   \* who may be in the room
  Testers, \* those an operator may inject a test participant for
  Limits   \* the caps that may be in force

VARIABLES
  users,     \* who is in the room
  limit,     \* the cap in force
  counting,  \* the empty-room countdown runs
  open       \* the room has not ended

vars == <<users, limit, counting, open>>

Init ==
  /\ users = {}
  /\ limit \in Limits
  /\ counting = FALSE
  /\ open = TRUE

\* A user enters an open room that is not full.
Enter(u) ==
  /\ open = TRUE
  /\ u \notin users
  /\ Cardinality(users) < limit
  /\ users' = users \union {u}
  /\ counting' = FALSE
  /\ UNCHANGED <<limit, open>>

\* A test participant enters regardless of the cap, and even of the end of the
\* room when its injection was under way.
EnterTest(u) ==
  /\ u \in Testers \ users
  /\ users' = users \union {u}
  /\ counting' = FALSE
  /\ UNCHANGED <<limit, open>>

\* One user goes; the countdown may start at once or later, never early.
Exit(u) ==
  /\ u \in users
  /\ users' = users \ {u}
  /\ counting' \in BOOLEAN
  /\ counting' => open = TRUE /\ users' = {}
  /\ UNCHANGED <<limit, open>>

StartCounting ==
  /\ open = TRUE /\ users = {}
  /\ counting' = TRUE
  /\ UNCHANGED <<users, limit, open>>

SetLimit ==
  /\ open = TRUE
  /\ limit' \in Limits
  /\ UNCHANGED <<users, counting, open>>

\* The room ends: everybody is out and nothing counts any more.
End ==
  /\ open = TRUE
  /\ open' = FALSE
  /\ users' = {}
  /\ counting' = FALSE
  /\ UNCHANGED limit

Next ==
  \/ \E u \in Users : Enter(u) \/ EnterTest(u) \/ Exit(u)
  \/ StartCounting
  \/ SetLimit
  \/ End

Spec == Init /\ [][Next]_vars
=============================================================================
