----------------------------- MODULE MCPlatform -----------------------------
(* Small instances of Platform for TLC. *)
EXTENDS Platform, TLC

CONSTANTS u1, s1, s2, d1

\* One user, with two subscriptions or with one, who deploys one agent.
SubUserOne == s1 :> u1 @@ s2 :> u1
SubUserSingle == s1 :> u1
DeployUserOne == d1 :> u1
NoPolls == <<>>
SubSymmetry == Permutations(Sub)

=============================================================================
