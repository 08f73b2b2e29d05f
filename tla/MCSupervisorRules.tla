------------------------- MODULE MCSupervisorRules --------------------------
(* Small instances of SupervisorRules for TLC. *)
EXTENDS SupervisorRules, TLC

CONSTANTS k1, k2, fEnabled, fParams, old, new, u1, u2, unknown

DefaultContent == [k \in Rule |-> [f \in Field |-> old]]

\* Two changes of one rule, each of another field.
NamedOne == u1 :> k1 @@ u2 :> k1
UpdatesOne == u1 :> (fEnabled :> new) @@ u2 :> (fParams :> new)

\* A change of a rule, and one of a rule that is not there.
NamedUnknown == u1 :> k1 @@ u2 :> unknown

Symmetry == Permutations(Process) \cup Permutations(Req \ Change)
=============================================================================
