----------------------------- MODULE MCAccounts -----------------------------
(* Users alone, two accounts of them, or one account that buys, or two in the *)
(* referral programme: a behaviour follows one of the three.                  *)
EXTENDS Marketplace, Affiliates, TLC

CONSTANTS a1, a2, q1, q2, s1, p1, p2, d1, d2, g1, g2, g3, h1, n1

VARIABLE focus

\* Two requests of one account at once; the other account has only its events.
Senders == q1 :> a1 @@ q2 :> a1

\* Two purchase requests for one strategy, each of which may lead to a session.
Buyers == p1 :> a1 @@ p2 :> a1
Wants == p1 :> s1 @@ p2 :> s1
Carried == d1 :> p1 @@ d2 :> p2

\* One account asks twice for its code and earns, the other applies a code and asks.
Askers == g1 :> a1 @@ g2 :> a1 @@ g3 :> a2
Appliers == h1 :> a2
Earners == n1 :> a1

\* Who is in has signed up before and has a row; Clerk may send the first one's
\* event again.
RowsInit(in) ==
    /\ emailInToken = TRUE
    /\ clerk = [a \in Account |->
                  [status |-> IF a \in in THEN "active" ELSE "none", address |-> NoAddress]]
    /\ changes = 1
    /\ events = {[type |-> "created", account |-> a1, address |-> NoAddress]}
    /\ user = [a \in Account |-> IF a \notin in THEN NoRow
                                 ELSE IF a = a1 THEN NoAddress ELSE a]
    /\ author = {}
    /\ request = [q \in Request |-> "in"]

Init ==
    /\ TableInit /\ AffiliatesInit
    /\ \/ focus = "users" /\ UsersInit /\ free = {}
       \/ focus = "market" /\ RowsInit({a1})
       \/ focus = "referrals" /\ RowsInit({a1, a2}) /\ free = {}

\* While one account buys or earns, the other stays as it is, nobody else asks, and
\* changes of address make no difference.
OneLeaves ==
    /\ clerk'[a2] = clerk[a2] /\ clerk'[a1].address = NoAddress
    /\ request' = request /\ author' = author

Next ==
    /\ UNCHANGED focus
    /\ \/ focus = "users" /\ UsersStep /\ UNCHANGED referralVars
       \/ focus = "market" /\ MarketNext /\ OneLeaves /\ UNCHANGED referralVars
       \/ focus = "referrals" /\ AffiliatesNext /\ OneLeaves /\ UNCHANGED marketVars

FairSpec == /\ Init /\ [][Next]_<<focus, vars, referralVars>>
            /\ UsersFairness /\ MarketFairness
=============================================================================
