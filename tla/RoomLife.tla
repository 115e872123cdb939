------------------------------ MODULE RoomLife ------------------------------
(***************************************************************************)
(* What channels promise about their rooms, to whoever holds one: the      *)
(* rooms of a channel come one after the other, each is started before it  *)
(* is in use, and one that was in use stays listed until it has closed.  A *)
(* channel goes astray when a room is closed in the middle of its start,   *)
(* or when the process stops; nothing is promised of it from then on.      *)
(***************************************************************************)
CONSTANT Channels  \* channel ids

VARIABLE life  \* per channel: of the listed room, "none" when none is listed

Init == life = [c \in Channels |-> "none"]

Moves(c, from, to) == life[c] = from /\ life'[c] = to

Opens(c)  == Moves(c, "none", "starting")
Ready(c)  == Moves(c, "starting", "active")
\* The end of the call has passed when its start is over.
Expires(c) == Moves(c, "starting", "closed")
Fails(c)  == Moves(c, "starting", "none")
Closes(c) == Moves(c, "active", "closed")
Freed(c)  == Moves(c, "closed", "none")
Strays(c) == life'[c] = "astray"
Stays(c)  == life'[c] = life[c]

\* Channels move on their own; a shutdown closes the rooms of all at once.
Next ==
  \A c \in Channels :
    \/ Opens(c) \/ Ready(c) \/ Expires(c) \/ Fails(c) \/ Closes(c)
    \/ Freed(c) \/ Strays(c) \/ Stays(c)

Spec == Init /\ [][Next]_life
=============================================================================
