------------------------------- MODULE MCAdmin -------------------------------
(* Two referents that follow different guests, the operator and an admin who *)
(* may be removed, a test peer of each mode.  Handlers are interchangeable,  *)
(* and the run has no liveness property.                                     *)
EXTENDS OperatorApi, TLC

CONSTANTS g1, g2, r1, r2, t1, k1, k2

MCFollowsOf == [r \in Referents |-> IF r = r1 THEN {g1} ELSE {g2}]
MCKeyOf == [t \in Tokens |-> IF t = t1 THEN k1 ELSE k2]
MCSymmetry == Permutations(Handlers)

\* Bounds: one body is awaited at a time; a PUT has fields of one part, and of
\* the four parts, which have nothing in common but the process, only one
\* differs from its first state.
MCOneBody == \A q1, q2 \in Handlers : Reading(q1) /\ Reading(q2) => q1 = q2
Parts == {{"allowed"}, {"referents", "duration"}, {"admins", "operator"}}
MCPatches == UNION {{o \in Overrides : DOMAIN o \subseteq P} : P \in Parts}
Changed(F) == F \intersect DOMAIN runtime # {} \/ \E f \in F : cfg[f] # Env[f]
Moved ==
  {i \in 1..4 :
     CASE i = 1 -> Changed({"allowed"}) \/ allowFile # {} \/ reloaded
       [] i = 2 -> \/ Changed({"referents", "duration"})
                   \/ follows \union followFile # {} \/ armed # EnvDuration
                   \/ "follows" \in unwritten \/ \E q \in Handlers : Asking(q)
       [] i = 3 -> \/ Changed({"admins", "operator"})
                   \/ Known \union expired \union revoked # {}
       [] i = 4 -> own # {} \/ \E p \in Peers : script[p] # "none" \/ ffmpeg[p] # "none"}
MCOnePart == \A i, j \in Moved : i = j
=============================================================================
