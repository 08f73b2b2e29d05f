---------------------------- MODULE Marketplace -----------------------------
(***************************************************************************)
(* Strategies for sale: POST /marketplace/strategies/:id/purchase          *)
(* (backend/routes/marketplace.routes.ts) gives free ones away and opens a *)
(* checkout for the others, which the Stripe webhook                       *)
(* (backend/routes/stripe.routes.ts) turns into a purchase.  Users come    *)
(* and go as in Users, and the purchases of a user go with the row.        *)
(*                                                                         *)
(* A step is one statement or one call to Stripe.  Stripe sends the event  *)
(* of a paid session until it is answered 2xx, sometimes again while an    *)
(* earlier delivery is being handled.                                      *)
(***************************************************************************)
EXTENDS Users, FiniteSets

CONSTANTS
    Strategy,
    Purchase,    \* purchase requests, each received at most once
    Buyer,       \* Buyer[p] is the account that sends purchase request p
    Wanted,      \* Wanted[p] is the strategy it is for
    Delivery,    \* deliveries of Stripe that may be handled at once
    Carries,     \* Carries[d] is the purchase request whose session d is about
    MaxSold      \* bound: purchases of a strategy, deleted ones included

ASSUME MarketplaceAssumption ==
    /\ Buyer \in [Purchase -> Account]
    /\ Wanted \in [Purchase -> Strategy]
    /\ Carries \in [Delivery -> Purchase]
    /\ MaxSold \in Nat
    /\ IsFiniteSet(Purchase) /\ IsFiniteSet(Delivery)

VARIABLES
    free,        \* the strategies with priceUsd 0
    owned,       \* the purchase table: pairs of account and strategy
    counter,     \* purchaseCount of each strategy
    purchase,    \* the local variable of each purchase request
    session,     \* the checkout session a purchase request opened at Stripe
    delivery,    \* the local variable of each delivery
    sold         \* history: purchases of each strategy stored so far

marketVars == <<free, owned, counter, purchase, session, delivery, sold>>
vars == <<usersVars, marketVars>>

-----------------------------------------------------------------------------
MarketTypeOK ==
    /\ UsersTypeOK
    /\ free \subseteq Strategy
    /\ owned \subseteq {a \in Account : user[a] # NoRow} \X Strategy
    /\ counter \in [Strategy -> Nat] /\ sold \in [Strategy -> Nat]
    /\ purchase \in [Purchase -> {"idle", "find", "create", "count", "checkout", "done"}]
    /\ session \in [Purchase -> {"none", "open", "paid", "answered", "expired"}]
    /\ delivery \in [Delivery -> {"idle", "create", "count", "answer"}]

TableInit ==
    /\ free \in SUBSET Strategy
    /\ owned = {}
    /\ counter = [s \in Strategy |-> 0] /\ sold = [s \in Strategy |-> 0]
    /\ purchase = [p \in Purchase |-> "idle"]
    /\ session = [p \in Purchase |-> "none"]
    /\ delivery = [d \in Delivery |-> "idle"]

MarketInit == UsersInit /\ TableInit

-----------------------------------------------------------------------------
(* Statements both paths share.                                            *)

\* The insert of a purchase succeeds: its user exists and has none for s.
CanOwn(a, s) == user[a] # NoRow /\ <<a, s>> \notin owned

\* Mutant of Insert: a purchase that is there is no error (the create made an upsert).
InsertAgain(a, s) ==
    /\ user[a] # NoRow
    /\ owned' = owned \cup {<<a, s>>}
    /\ sold' = [sold EXCEPT ![s] = IF <<a, s>> \in owned THEN @ ELSE @ + 1]

Insert(a, s) ==
    /\ CanOwn(a, s)
    /\ sold[s] < MaxSold
    /\ owned' = owned \cup {<<a, s>>}
    /\ sold' = [sold EXCEPT ![s] = @ + 1]

Increment(s) == counter' = [counter EXCEPT ![s] = @ + 1]

-----------------------------------------------------------------------------
(* The purchase request.                                                   *)

BuyMoves(p, pc) == purchase' = [purchase EXCEPT ![p] = pc]

\* The request is authenticated and the strategy has been found.
ReceivePurchase(p) ==
    /\ purchase[p] = "idle"
    /\ user[Buyer[p]] # NoRow
    /\ BuyMoves(p, "find")
    /\ UNCHANGED <<usersVars, free, owned, counter, session, delivery, sold>>

\* Mutant of FindPurchase: the price is not looked at.
FindPurchaseFree(p) ==
    /\ purchase[p] = "find"
    /\ BuyMoves(p, IF <<Buyer[p], Wanted[p]>> \in owned THEN "done" ELSE "create")
    /\ UNCHANGED <<usersVars, free, owned, counter, session, delivery, sold>>

\* A purchase there already is the answer; the price decides what comes next.
FindPurchase(p) ==
    /\ purchase[p] = "find"
    /\ BuyMoves(p, IF <<Buyer[p], Wanted[p]>> \in owned THEN "done"
                   ELSE IF Wanted[p] \in free THEN "create" ELSE "checkout")
    /\ UNCHANGED <<usersVars, free, owned, counter, session, delivery, sold>>

BuyFree(p) ==
    /\ purchase[p] = "create"
    /\ Insert(Buyer[p], Wanted[p])
    /\ BuyMoves(p, "count")
    /\ UNCHANGED <<usersVars, free, counter, session, delivery>>

CountFree(p) ==
    /\ purchase[p] = "count"
    /\ Increment(Wanted[p])
    /\ BuyMoves(p, "done")
    /\ UNCHANGED <<usersVars, free, owned, session, delivery, sold>>

OpenCheckout(p) ==
    /\ purchase[p] = "checkout"
    /\ session' = [session EXCEPT ![p] = "open"]
    /\ BuyMoves(p, "done")
    /\ UNCHANGED <<usersVars, free, owned, counter, delivery, sold>>

\* A statement fails, as the insert does that another request was ahead of, or
\* the process dies: nothing takes back what was stored before.
PurchaseThrows(p) ==
    /\ purchase[p] \in {"find", "create", "count", "checkout"}
    /\ BuyMoves(p, "done")
    /\ UNCHANGED <<usersVars, free, owned, counter, session, delivery, sold>>

-----------------------------------------------------------------------------
(* Stripe.                                                                 *)

SessionMoves(p, from, to) ==
    /\ session[p] = from
    /\ session' = [session EXCEPT ![p] = to]

Pay(p) ==
    /\ SessionMoves(p, "open", "paid")
    /\ UNCHANGED <<usersVars, free, owned, counter, purchase, delivery, sold>>

ExpireSession(p) ==
    /\ SessionMoves(p, "open", "expired")
    /\ UNCHANGED <<usersVars, free, owned, counter, purchase, delivery, sold>>

-----------------------------------------------------------------------------
(* The webhook, for checkout.session.completed of a strategy purchase.     *)

HookMoves(d, from, to) ==
    /\ delivery[d] = from
    /\ delivery' = [delivery EXCEPT ![d] = to]

\* The event has arrived and the strategy has been found.
Deliver(d) ==
    /\ session[Carries[d]] = "paid"
    /\ HookMoves(d, "idle", "create")
    /\ UNCHANGED <<usersVars, free, owned, counter, purchase, session, sold>>

\* Mutant of StorePaid: the event is answered before the purchase is stored.
StorePaidAnswered(d) ==
    /\ HookMoves(d, "create", "answer")
    /\ UNCHANGED <<usersVars, free, owned, counter, purchase, session, sold>>

StorePaid(d) ==
    /\ HookMoves(d, "create", "count")
    /\ Insert(Buyer[Carries[d]], Wanted[Carries[d]])
    /\ UNCHANGED <<usersVars, free, counter, purchase, session>>

CountPaid(d) ==
    /\ HookMoves(d, "count", "answer")
    /\ Increment(Wanted[Carries[d]])
    /\ UNCHANGED <<usersVars, free, owned, purchase, session, sold>>

\* The answer ends the deliveries, unless it is lost on its way.
Answer(d) ==
    /\ HookMoves(d, "answer", "idle")
    /\ session' \in {session, [session EXCEPT ![Carries[d]] = "answered"]}
    /\ UNCHANGED <<usersVars, free, owned, counter, purchase, sold>>

\* Mutant of DeliveryThrows: a failed statement is answered 200 all the same.
DeliveryThrowsSwallowed(d) ==
    /\ \E from \in {"create", "count"} : HookMoves(d, from, "answer")
    /\ UNCHANGED <<usersVars, free, owned, counter, purchase, session, sold>>

\* A statement fails and is answered 400, or the process dies.
DeliveryThrows(d) ==
    /\ \E from \in {"create", "count"} : HookMoves(d, from, "idle")
    /\ UNCHANGED <<usersVars, free, owned, counter, purchase, session, sold>>

-----------------------------------------------------------------------------
\* Mutant of UsersStep: purchases outlive their user.
UsersStepKeeping ==
    /\ UsersNext
    /\ UNCHANGED marketVars

\* A user row that is deleted takes its purchases with it; a strategy with an
\* author cannot go (prisma/schema.prisma).
UsersStep ==
    /\ UsersNext
    /\ owned' = {o \in owned : user'[o[1]] # NoRow}
    /\ UNCHANGED <<free, counter, purchase, session, delivery, sold>>

MarketNext ==
    \/ UsersStep
    \/ \E p \in Purchase :
         \/ ReceivePurchase(p) \/ FindPurchase(p) \/ BuyFree(p) \/ CountFree(p)
         \/ OpenCheckout(p) \/ PurchaseThrows(p)
         \/ Pay(p) \/ ExpireSession(p)
    \/ \E d \in Delivery :
         \/ Deliver(d) \/ StorePaid(d) \/ CountPaid(d) \/ Answer(d)
         \/ DeliveryThrows(d)

MarketSpec == MarketInit /\ [][MarketNext]_vars

\* Stripe goes on delivering, a delivery is handled to its end, and not every
\* insert fails for want of the database.
MarketFairness ==
    \A d \in Delivery :
      /\ WF_vars(Deliver(d) \/ CountPaid(d) \/ Answer(d) \/ DeliveryThrows(d))
      /\ SF_vars(StorePaid(d))

FairMarketSpec == MarketSpec /\ MarketFairness
-----------------------------------------------------------------------------
(* Properties.                                                             *)

Counting(s) == {p \in Purchase : purchase[p] = "count" /\ Wanted[p] = s}
CountingPaid(s) == {d \in Delivery : delivery[d] = "count" /\ Wanted[Carries[d]] = s}

\* The counter of a strategy is never ahead of its purchases: an event delivered
\* twice, two requests at once, or a retry after a failure counts no purchase
\* again (marketplace.routes.ts:92-97, stripe.routes.ts:49-54).  It may fall behind:
\* a purchase whose increment fails is never counted.
CountNeverAhead ==
    \A s \in Strategy :
      counter[s] + Cardinality(Counting(s)) + Cardinality(CountingPaid(s)) <= sold[s]

Settled(s) == {p \in Purchase : session[p] = "answered" /\ Wanted[p] = s}

\* Stripe stops sending the event of a paid session only once a purchase of that
\* strategy is in the counter for it: neither a failed insert or increment, nor a
\* lost answer, nor another delivery of the event settles what was not counted
\* (stripe.routes.ts:47-55 store and count before the answer, the catch answers a
\* failure 400).
AnsweredIsCounted == \A s \in Strategy : Cardinality(Settled(s)) <= counter[s]

\* Nobody owns what costs something without having paid, through either path
\* (marketplace.routes.ts:95-112, stripe.routes.ts:47-55).
OwnedIsPaid ==
    \A o \in owned :
      \/ o[2] \in free
      \/ \E p \in Purchase : /\ Buyer[p] = o[1] /\ Wanted[p] = o[2]
                             /\ session[p] \in {"paid", "answered"}

\* Whoever paid owns the strategy in the end, however often the webhook fails or
\* is lost, or else has left the platform (stripe.routes.ts:47-55).
PaidIsOwned ==
    \A p \in Purchase :
      session[p] = "paid" ~> \/ <<Buyer[p], Wanted[p]>> \in owned
                             \/ ~Active(Buyer[p])
=============================================================================
