---------------------------- MODULE MCWithdrawal ----------------------------
(* Small instances of Withdrawal for TLC. *)
EXTENDS WithdrawalPayout, TLC

CONSTANTS u1, a1, a2, w1, w2

\* One user with one agent, or with two.
OwnerOne == a1 :> u1
OwnerTwo == a1 :> u1 @@ a2 :> u1

\* A quote is 3, or 4 after a transfer left the rent reserve: 3 and 4 exceed either
\* limit, 3 and 3 only the velocity limit.
Periods == {[span |-> 1, limit |-> 6], [span |-> 2, limit |-> 6]}
NoPeriods == {[span |-> 1, limit |-> 100]}

Symmetry == Permutations(Req) \cup Permutations(Change)
=============================================================================
