----------------------------- MODULE MCStorage ------------------------------
(* What keeps its state in StateStorage, on small instances.  The three     *)
(* components share the clock and the choice of the storage and nothing     *)
(* else, no key of one is a key of another: a behaviour follows one of      *)
(* them, while the others wait.                                             *)
EXTENDS RateLimit, Lockout, CircuitBreaker, TLC

CONSTANTS k1, i1, c1, c2, c3

Calls == {c1, c2, c3}

VARIABLE focus

\* A key with a tier of two requests a window, an address with one bug report.
Limits == k1 :> 2 @@ i1 :> 1

Init ==
    /\ focus \in {"requests", "lockout", "breaker"}
    /\ RateInit /\ LockoutInit /\ BreakerInit
    /\ focus # "lockout" => lockout = NoLock
    /\ focus # "breaker" => breaker = NoBreaker

Next ==
    /\ UNCHANGED focus
    /\ \/ focus = "requests" /\ RateNext /\ UNCHANGED <<accountVars, agentVars>>
       \/ focus = "lockout" /\ LockoutNext /\ UNCHANGED <<windowVars, agentVars>>
       \/ focus = "breaker" /\ BreakerNext /\ UNCHANGED <<windowVars, accountVars>>

Spec == Init /\ [][Next]_<<focus, now, redis, windowVars, accountVars, agentVars>>

\* Calls of the three components are the same three values, which makes the
\* symmetry group small.
Symmetry == Permutations(Call)
=============================================================================
