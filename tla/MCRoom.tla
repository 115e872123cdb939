------------------------------- MODULE MCRoom -------------------------------
(* Rooms of two users: alice with a phone, a laptop or a test injector, bob  *)
(* with a desktop.                                                           *)
EXTENDS SfuRoomProps, TLC

CONSTANTS alice, bob, phone, laptop, desktop, robot

MCUserOf == [d \in Devices |-> IF d = desktop THEN bob ELSE alice]
=============================================================================
