------------------------------- MODULE MCRooms -------------------------------
(* Two channels competing for one place.  The safety runs that look for a   *)
(* counterexample have three room objects, with interchangeable names.      *)
EXTENDS SfuRoomsProps, TLC

RoomSymmetry == Permutations(Slots)
=============================================================================
