------------------------------ MODULE MCControl ------------------------------
(* The operator, and a guest for whom a trusted relay vouches.               *)
EXTENDS ControlListener, TLC

CONSTANTS op, guest, trusted, plain, put1, put2

PutsAlike == Permutations(Puts)

Plain == [x \in {} |-> x]
E(s, a, x, t, p) ==
  [sender |-> s, action |-> a, expires |-> x, target |-> t, params |-> p]

\* A start that anybody's relay may bring and one that a trusted relay must
\* vouch for; a change of the rules that brings the end forward; a kick; an end.
ControlEvents == <<
  E(op, "start", 1, op, [endsAt |-> 2, allow |-> {op}]),
  E(guest, "start", MaxTime, guest, Plain),
  E(guest, "update", 1, op, [deny |-> {op}, endsAt |-> 1]),
  E(guest, "kick", 1, op, Plain),
  E(op, "end", 1, op, Plain) >>
=============================================================================
