--------------------------- MODULE AccountsProofs ----------------------------
(***************************************************************************)
(* Proofs about Users, Marketplace and Affiliates, for every set of        *)
(* accounts, requests and deliveries: the tables keep their types and      *)
(* unique keys, nobody owns what was not paid for, no counter is ahead of  *)
(* its purchases and no sum ahead of its payouts, and a settled referral   *)
(* code stays.                                                             *)
(***************************************************************************)
EXTENDS Marketplace, Affiliates, FiniteSetTheorems, TLAPS

-----------------------------------------------------------------------------
(* The user table.                                                         *)

\* A row that gets an email no other row holds leaves the emails unique and the
\* authors with their rows.
LEMMA RowWritten ==
  ASSUME UsersTypeOK, NEW a \in Account, NEW e \in Email, ~Taken(a, e),
         user' = [user EXCEPT ![a] = e], author' = author
  PROVE  /\ user' \in [Account -> Email \cup {NoRow}]
         /\ author' \subseteq {b \in Account : user'[b] # NoRow}
         /\ \A b, c \in Account : user'[b] = user'[c] /\ user'[b] # NoRow => b = c
<1>1. NoRow \notin Email
  BY UsersAssumption DEF Email
<1>2. \A b \in Account : user'[b] = IF b = a THEN e ELSE user[b]
  BY DEF UsersTypeOK
<1>3. user' \in [Account -> Email \cup {NoRow}]
  BY DEF UsersTypeOK
<1>4. author' \subseteq {b \in Account : user'[b] # NoRow}
  BY <1>1, <1>2 DEF UsersTypeOK
<1>5. \A b, c \in Account : user'[b] = user'[c] /\ user'[b] # NoRow => b = c
  BY <1>1, <1>2 DEF UsersTypeOK, Taken
<1> QED BY <1>3, <1>4, <1>5

\* An event that is handled leaves them so too (webhooks.routes.ts:6-44).
LEMMA EventHandled ==
  ASSUME UsersTypeOK, NEW ev \in Event, Handles(ev), author' = author
  PROVE  /\ user' \in [Account -> Email \cup {NoRow}]
         /\ author' \subseteq {b \in Account : user'[b] # NoRow}
         /\ \A b, c \in Account : user'[b] = user'[c] /\ user'[b] # NoRow => b = c
<1>1. PICK a \in Account, e \in Address \cup {NoAddress} : a = ev.account /\ e = ev.address
  BY DEF Event
<1>2. e \in Email
  BY DEF Email
<1>3. CASE user' = user
  BY <1>3 DEF UsersTypeOK
<1>4. CASE ~Taken(a, e) /\ user' = [user EXCEPT ![a] = e]
  BY <1>2, <1>4, RowWritten
<1>5. CASE a \notin author /\ user' = [user EXCEPT ![a] = NoRow]
  <2>1. \A b \in Account : user'[b] = IF b = a THEN NoRow ELSE user[b]
    BY <1>5 DEF UsersTypeOK
  <2> QED BY <1>5, <2>1 DEF UsersTypeOK
<1>6. user = [user EXCEPT ![a] = user[a]]
  BY DEF UsersTypeOK
<1>7. Store(a, e) => user' = user \/ (~Taken(a, e) /\ user' = [user EXCEPT ![a] = e])
  BY <1>6 DEF Store, CanInsert
<1>8. ev.type = "deleted" =>
        user' = user \/ (a \notin author /\ user' = [user EXCEPT ![a] = NoRow])
  BY <1>1, <1>6 DEF Handles
<1> QED BY <1>1, <1>3, <1>4, <1>5, <1>7, <1>8 DEF Handles, CanInsert

\* Every step leaves the user table, the accounts and their events well formed.
LEMMA UsersTyped ==
  ASSUME UsersTypeOK, UsersNext
  PROVE  UsersTypeOK'
<1>1. ASSUME NEW a \in Account, NEW status \in {"active", "deleted"},
             NEW e \in Address \cup {NoAddress},
             NEW type \in {"created", "updated", "deleted"}, Changes(a, status, e, type)
      PROVE  UsersTypeOK'
  <2>1. clerk' \in [Account -> ClerkAccount]
    BY <1>1 DEF Changes, UsersTypeOK, ClerkAccount
  <2>2. events' \subseteq Event
    BY <1>1 DEF Changes, UsersTypeOK, Event
  <2> QED BY <1>1, <2>1, <2>2 DEF Changes, UsersTypeOK
<1>2. ASSUME NEW a \in Account, NEW e \in Address \cup {NoAddress},
             SignUp(a, e) \/ ChangeAddress(a, e)
      PROVE  UsersTypeOK'
  BY <1>1, <1>2 DEF SignUp, ChangeAddress
<1>3. ASSUME NEW a \in Account, Leave(a) PROVE UsersTypeOK'
  <2>1. PICK e \in Address \cup {NoAddress} : e = clerk[a].address
    BY DEF UsersTypeOK, ClerkAccount
  <2> QED BY <1>1, <1>3, <2>1 DEF Leave
<1>4. ASSUME NEW a \in Account, Publish(a) PROVE UsersTypeOK'
  BY <1>4 DEF Publish, UsersTypeOK
<1>5. ASSUME NEW ev \in events, DeliverEvent(ev) PROVE UsersTypeOK'
  <2>1. ev \in Event
    BY DEF UsersTypeOK
  <2>2. Handles(ev) /\ author' = author
    BY <1>5 DEF DeliverEvent
  <2> QED BY <1>5, <2>1, <2>2, EventHandled DEF DeliverEvent, UsersTypeOK
<1>6. ASSUME NEW ev \in events, DropEvent(ev) PROVE UsersTypeOK'
  BY <1>6 DEF DropEvent, UsersTypeOK
<1>7. ASSUME NEW q \in Request, FindUser(q) \/ AuthThrows(q) PROVE UsersTypeOK'
  <2>1. request' \in [Request -> {"out", "create", "in"}]
    BY <1>7 DEF FindUser, AuthThrows, UsersTypeOK
  <2> QED BY <1>7, <2>1 DEF FindUser, AuthThrows, UsersTypeOK
<1>8. ASSUME NEW q \in Request, CreateUser(q) PROVE UsersTypeOK'
  <2>1. PICK a \in Account : a = Sender[q]
    BY UsersAssumption
  <2>2. PICK e \in Email : e = TokenEmail(a)
    BY DEF TokenEmail, Email, UsersTypeOK, ClerkAccount
  <2>3. request' \in [Request -> {"out", "create", "in"}]
    BY <1>8 DEF CreateUser, UsersTypeOK
  <2>4. CASE CanInsert(a, e) /\ user' = [user EXCEPT ![a] = e]
    BY <1>8, <2>3, <2>4, RowWritten DEF CanInsert, CreateUser, UsersTypeOK
  <2>5. CASE UNCHANGED user
    BY <1>8, <2>3, <2>5 DEF CreateUser, UsersTypeOK
  <2> QED BY <1>8, <2>1, <2>2, <2>4, <2>5 DEF CreateUser
<1> QED BY <1>2, <1>3, <1>4, <1>5, <1>6, <1>7, <1>8 DEF UsersNext

-----------------------------------------------------------------------------
(* The market.                                                             *)

BuyPc == {"idle", "find", "create", "count", "checkout", "done"}
SessionState == {"none", "open", "paid", "answered", "expired"}
HookPc == {"idle", "create", "count", "answer"}

\* A purchase request is for a free strategy when it stores a purchase and without a
\* session while it runs; a delivery under way is about a session that was paid.
PaidBefore ==
    /\ \A p \in Purchase :
         /\ purchase[p] = "create" => Wanted[p] \in free
         /\ purchase[p] # "done" => session[p] = "none"
    /\ \A d \in Delivery :
         delivery[d] # "idle" => session[Carries[d]] \in {"paid", "answered"}

IInv == MarketTypeOK /\ PaidBefore /\ OwnedIsPaid

\* No step takes back that a session was paid, and which strategies are free.
Kept ==
    /\ free' = free
    /\ \A p \in Purchase :
         session[p] \in {"paid", "answered"} => session'[p] \in {"paid", "answered"}

\* What an insert leaves of the purchase table.
LEMMA Inserted ==
  ASSUME IInv, NEW a \in Account, NEW s \in Strategy, Insert(a, s), user' = user
  PROVE  /\ owned' = owned \cup {<<a, s>>}
         /\ owned' \subseteq {b \in Account : user'[b] # NoRow} \X Strategy
         /\ sold' \in [Strategy -> Nat]
  BY DEF IInv, MarketTypeOK, Insert, CanOwn

\* Without a new purchase nobody owns what was not paid for.
LEMMA NothingNew ==
  ASSUME IInv, Kept, owned' \subseteq owned
  PROVE  OwnedIsPaid'
  BY DEF IInv, Kept, OwnedIsPaid

\* A step of a purchase request that touches no user.
LEMMA BuySteps ==
  ASSUME IInv, NEW p \in Purchase,
         \/ ReceivePurchase(p) \/ FindPurchase(p) \/ BuyFree(p) \/ CountFree(p)
         \/ OpenCheckout(p) \/ PurchaseThrows(p) \/ Pay(p) \/ ExpireSession(p)
  PROVE  IInv'
<1> USE MarketplaceAssumption
<1>1. UsersTypeOK' /\ user' = user
  BY DEF IInv, MarketTypeOK, UsersTypeOK, usersVars, ReceivePurchase, FindPurchase, BuyFree,
         CountFree, OpenCheckout, PurchaseThrows, Pay, ExpireSession
<1>2. PICK a \in Account, s \in Strategy : a = Buyer[p] /\ s = Wanted[p]
  OBVIOUS
<1>3. \A pc \in BuyPc : BuyMoves(p, pc) =>
        /\ purchase' \in [Purchase -> BuyPc]
        /\ \A q \in Purchase : purchase'[q] = IF q = p THEN pc ELSE purchase[q]
  BY DEF IInv, MarketTypeOK, BuyMoves, BuyPc
<1>4. CASE ReceivePurchase(p) \/ FindPurchase(p) \/ PurchaseThrows(p)
  <2>1. PICK pc \in BuyPc : /\ BuyMoves(p, pc)
                            /\ pc = "create" => Wanted[p] \in free
                            /\ purchase[p] # "done"
    BY <1>4 DEF ReceivePurchase, FindPurchase, PurchaseThrows, BuyPc
  <2>2. UNCHANGED <<free, owned, counter, session, delivery, sold>>
    BY <1>4 DEF ReceivePurchase, FindPurchase, PurchaseThrows
  <2>3. MarketTypeOK'
    BY <1>1, <1>3, <2>1, <2>2 DEF IInv, MarketTypeOK, BuyPc
  <2>4. PaidBefore'
    BY <1>3, <2>1, <2>2 DEF IInv, PaidBefore
  <2> QED BY <2>2, <2>3, <2>4, NothingNew DEF IInv, Kept
<1>5. CASE BuyFree(p)
  <2>1. BuyMoves(p, "count") /\ purchase[p] = "create"
    BY <1>5 DEF BuyFree
  <2>2. UNCHANGED <<free, counter, session, delivery>> /\ Insert(a, s)
    BY <1>2, <1>5 DEF BuyFree
  <2>3. MarketTypeOK'
    BY <1>1, <1>3, <2>1, <2>2, Inserted DEF IInv, MarketTypeOK, BuyPc
  <2>4. PaidBefore'
    BY <1>3, <2>1, <2>2 DEF IInv, PaidBefore, BuyPc
  <2>5. OwnedIsPaid'
    <3>1. s \in free
      BY <1>2, <2>1 DEF IInv, PaidBefore
    <3> QED BY <1>1, <2>2, <3>1, Inserted DEF IInv, OwnedIsPaid
  <2> QED BY <2>3, <2>4, <2>5 DEF IInv
<1>6. CASE CountFree(p)
  <2>1. BuyMoves(p, "done") /\ counter' \in [Strategy -> Nat]
    BY <1>6 DEF CountFree, Increment, IInv, MarketTypeOK
  <2>2. UNCHANGED <<free, owned, session, delivery, sold>>
    BY <1>6 DEF CountFree
  <2>3. MarketTypeOK'
    BY <1>1, <1>3, <2>1, <2>2 DEF IInv, MarketTypeOK, BuyPc
  <2>4. PaidBefore'
    BY <1>3, <2>1, <2>2 DEF IInv, PaidBefore, BuyPc
  <2> QED BY <2>2, <2>3, <2>4, NothingNew DEF IInv, Kept
<1>7. CASE OpenCheckout(p)
  <2>1. BuyMoves(p, "done") /\ session[p] = "none"
    BY <1>7 DEF OpenCheckout, IInv, PaidBefore
  <2>2. UNCHANGED <<free, owned, counter, delivery, sold>>
    BY <1>7 DEF OpenCheckout
  <2>3. session' \in [Purchase -> SessionState]
        /\ \A q \in Purchase : session'[q] = IF q = p THEN "open" ELSE session[q]
    BY <1>7 DEF OpenCheckout, IInv, MarketTypeOK, SessionState
  <2>4. MarketTypeOK'
    BY <1>1, <1>3, <2>1, <2>2, <2>3 DEF IInv, MarketTypeOK, BuyPc, SessionState
  <2>5. PaidBefore' /\ Kept
    BY <1>3, <2>1, <2>2, <2>3 DEF IInv, PaidBefore, Kept, BuyPc
  <2> QED BY <2>2, <2>4, <2>5, NothingNew DEF IInv
<1>8. CASE Pay(p) \/ ExpireSession(p)
  <2>1. PICK state \in {"paid", "expired"} :
          session[p] = "open" /\ session' = [session EXCEPT ![p] = state]
    BY <1>8 DEF Pay, ExpireSession, SessionMoves
  <2>2. UNCHANGED <<free, owned, counter, purchase, delivery, sold>>
    BY <1>8 DEF Pay, ExpireSession
  <2>3. session' \in [Purchase -> SessionState]
        /\ \A q \in Purchase : session'[q] = IF q = p THEN state ELSE session[q]
    BY <2>1 DEF IInv, MarketTypeOK, SessionState
  <2>4. MarketTypeOK'
    BY <1>1, <2>2, <2>3 DEF IInv, MarketTypeOK, SessionState
  <2>5. PaidBefore' /\ Kept
    BY <2>1, <2>2, <2>3 DEF IInv, PaidBefore, Kept
  <2> QED BY <2>2, <2>4, <2>5, NothingNew DEF IInv
<1> QED BY <1>4, <1>5, <1>6, <1>7, <1>8

\* A step of a delivery.
LEMMA HookSteps ==
  ASSUME IInv, NEW d \in Delivery,
         Deliver(d) \/ StorePaid(d) \/ CountPaid(d) \/ Answer(d) \/ DeliveryThrows(d)
  PROVE  IInv'
<1> USE MarketplaceAssumption
<1>1. UsersTypeOK' /\ user' = user /\ UNCHANGED <<free, purchase>>
  BY DEF IInv, MarketTypeOK, UsersTypeOK, usersVars, Deliver, StorePaid, CountPaid, Answer,
         DeliveryThrows
<1>2. PICK p \in Purchase : p = Carries[d]
  OBVIOUS
<1>3. PICK a \in Account, s \in Strategy : a = Buyer[p] /\ s = Wanted[p]
  OBVIOUS
<1>4. PICK pc \in HookPc :
        /\ delivery' = [delivery EXCEPT ![d] = pc]
        /\ session[p] \in {"paid", "answered"}
  BY <1>2 DEF Deliver, StorePaid, CountPaid, Answer, DeliveryThrows, HookMoves, HookPc,
              IInv, PaidBefore
<1>5. delivery' \in [Delivery -> HookPc]
      /\ \A e \in Delivery : delivery'[e] = IF e = d THEN pc ELSE delivery[e]
  BY <1>4 DEF IInv, MarketTypeOK, HookPc
<1>6. /\ session' \in [Purchase -> SessionState]
      /\ \A q \in Purchase :
           session'[q] = session[q] \/ (q = p /\ session'[q] = "answered")
  BY <1>2 DEF IInv, MarketTypeOK, SessionState, Deliver, StorePaid, CountPaid, Answer,
              DeliveryThrows
<1>7. PaidBefore' /\ Kept
  BY <1>1, <1>2, <1>4, <1>5, <1>6 DEF IInv, PaidBefore, Kept
<1>8. CASE StorePaid(d)
  <2>1. Insert(a, s) /\ UNCHANGED counter
    BY <1>2, <1>3, <1>8 DEF StorePaid
  <2>2. MarketTypeOK'
    BY <1>1, <1>5, <1>6, <2>1, Inserted DEF IInv, MarketTypeOK, HookPc, SessionState
  <2>3. OwnedIsPaid'
    <3>1. Buyer[p] = a /\ Wanted[p] = s /\ session'[p] \in {"paid", "answered"}
      BY <1>2, <1>3, <1>4, <1>7 DEF Kept
    <3>2. ASSUME NEW o \in owned
          PROVE  o[2] \in free' \/ \E q \in Purchase :
                   /\ Buyer[q] = o[1] /\ Wanted[q] = o[2]
                   /\ session'[q] \in {"paid", "answered"}
      BY <1>7 DEF IInv, OwnedIsPaid, Kept
    <3> QED BY <1>1, <2>1, <3>1, <3>2, Inserted DEF OwnedIsPaid
  <2> QED BY <1>7, <2>2, <2>3 DEF IInv
<1>9. CASE Deliver(d) \/ CountPaid(d) \/ Answer(d) \/ DeliveryThrows(d)
  <2>1. owned' = owned /\ sold' = sold /\ counter' \in [Strategy -> Nat]
    BY <1>9 DEF Deliver, CountPaid, Answer, DeliveryThrows, Increment, IInv, MarketTypeOK
  <2>2. MarketTypeOK'
    BY <1>1, <1>5, <1>6, <2>1 DEF IInv, MarketTypeOK, HookPc, SessionState
  <2> QED BY <1>7, <2>1, <2>2, NothingNew DEF IInv
<1> QED BY <1>8, <1>9

\* The invariant is inductive.
THEOREM Inductive == MarketSpec => []IInv
<1>1. MarketInit => IInv
  <2>1. UsersInit => UsersTypeOK
    BY DEF UsersInit, UsersTypeOK, ClerkAccount, Event
  <2>2. UsersInit /\ TableInit => MarketTypeOK
    BY <2>1 DEF TableInit, MarketTypeOK
  <2>3. TableInit => PaidBefore /\ OwnedIsPaid
    BY DEF TableInit, PaidBefore, OwnedIsPaid
  <2> QED BY <2>2, <2>3 DEF MarketInit, IInv
<1>2. IInv /\ [MarketNext]_vars => IInv'
  <2> SUFFICES ASSUME IInv, [MarketNext]_vars PROVE IInv'
    OBVIOUS
  <2>1. CASE UsersStep
    <3>1. UsersTypeOK'
      BY <2>1, UsersTyped DEF UsersStep, IInv, MarketTypeOK
    <3>2. MarketTypeOK'
      BY <2>1, <3>1 DEF UsersStep, IInv, MarketTypeOK
    <3>3. PaidBefore' /\ Kept /\ owned' \subseteq owned
      BY <2>1 DEF UsersStep, IInv, PaidBefore, Kept
    <3> QED BY <3>2, <3>3, NothingNew DEF IInv
  <2>2. CASE UNCHANGED vars
    BY <2>2 DEF vars, usersVars, marketVars, IInv, MarketTypeOK, UsersTypeOK, PaidBefore,
                OwnedIsPaid
  <2> QED BY <2>1, <2>2, BuySteps, HookSteps DEF MarketNext
<1> QED BY <1>1, <1>2, PTL DEF MarketSpec

\* The tables keep their types: one row per account and per email, and no purchase
\* without its user's row (webhooks.routes.ts, auth.ts, marketplace.routes.ts).
THEOREM MarketTyped == MarketSpec => []MarketTypeOK
BY Inductive, PTL DEF IInv

\* Nobody owns what costs something without having paid for it, on either path.
THEOREM NobodyOwnsUnpaid == MarketSpec => []OwnedIsPaid
BY Inductive, PTL DEF IInv

-----------------------------------------------------------------------------
(* No counter is ahead of its purchases.                                   *)

\* A member that starts to count, or stops to, is one more of them, or one less.
LEMMA OneMoves ==
  ASSUME NEW P, IsFiniteSet(P), NEW S \in SUBSET P, NEW T \in SUBSET P, NEW p \in P,
         S \ {p} = T \ {p}
  PROVE  /\ Cardinality(S) \in Nat /\ Cardinality(T) \in Nat
         /\ p \in S /\ p \notin T => Cardinality(T) = Cardinality(S) - 1
         /\ p \notin S /\ p \in T => Cardinality(T) = Cardinality(S) + 1
         /\ (p \in S <=> p \in T) => Cardinality(T) = Cardinality(S)
<1>1. IsFiniteSet(S) /\ IsFiniteSet(T)
  BY FS_Subset
<1>2. Cardinality(S) \in Nat /\ Cardinality(T) \in Nat
  BY <1>1, FS_CardinalityType
<1>3. ASSUME p \in S, p \notin T PROVE Cardinality(T) = Cardinality(S) - 1
  <2>1. T = S \ {p}
    BY <1>3
  <2> QED BY <1>1, <1>3, <2>1, FS_RemoveElement
<1>4. ASSUME p \notin S, p \in T PROVE Cardinality(T) = Cardinality(S) + 1
  <2>1. T = S \cup {p}
    BY <1>4
  <2> QED BY <1>1, <1>4, <2>1, FS_AddElement
<1>5. ASSUME p \in S <=> p \in T PROVE Cardinality(T) = Cardinality(S)
  <2>1. T = S
    BY <1>5
  <2> QED BY <2>1
<1> QED BY <1>2, <1>3, <1>4, <1>5

\* What a step of a purchase request does to the requests about to count.
LEMMA CountingMoves ==
  ASSUME MarketTypeOK, NEW p \in Purchase, NEW pc \in BuyPc, BuyMoves(p, pc),
         NEW s \in Strategy
  PROVE  /\ pc # "count" => Cardinality(Counting(s)') <= Cardinality(Counting(s))
         /\ purchase[p] = "count" /\ pc # "count" /\ Wanted[p] = s
              => Cardinality(Counting(s)') = Cardinality(Counting(s)) - 1
         /\ Cardinality(Counting(s)') <= Cardinality(Counting(s)) + 1
         /\ Wanted[p] # s => Cardinality(Counting(s)') = Cardinality(Counting(s))
<1>1. \A q \in Purchase : purchase'[q] = IF q = p THEN pc ELSE purchase[q]
  BY DEF MarketTypeOK, BuyMoves
<1>2. PICK S \in SUBSET Purchase : S = Counting(s)
  BY DEF Counting
<1>3. PICK T \in SUBSET Purchase : T = Counting(s)'
  BY DEF Counting
<1>4. S \ {p} = T \ {p}
  BY <1>1, <1>2, <1>3 DEF Counting
<1>5. /\ p \in S <=> (purchase[p] = "count" /\ Wanted[p] = s)
      /\ p \in T <=> (pc = "count" /\ Wanted[p] = s)
  BY <1>1, <1>2, <1>3 DEF Counting
<1>6. /\ Cardinality(S) \in Nat /\ Cardinality(T) \in Nat
      /\ p \in S /\ p \notin T => Cardinality(T) = Cardinality(S) - 1
      /\ p \notin S /\ p \in T => Cardinality(T) = Cardinality(S) + 1
      /\ (p \in S <=> p \in T) => Cardinality(T) = Cardinality(S)
  BY <1>4, OneMoves, MarketplaceAssumption
<1>7. Cardinality(Counting(s)) = Cardinality(S) /\ Cardinality(Counting(s)') = Cardinality(T)
  BY <1>2, <1>3
<1> QED BY <1>5, <1>6, <1>7

\* What a step of a delivery does to the deliveries about to count.
LEMMA CountingPaidMoves ==
  ASSUME MarketTypeOK, NEW d \in Delivery, NEW pc \in HookPc,
         delivery' = [delivery EXCEPT ![d] = pc], NEW s \in Strategy
  PROVE  /\ pc # "count" => Cardinality(CountingPaid(s)') <= Cardinality(CountingPaid(s))
         /\ delivery[d] = "count" /\ pc # "count" /\ Wanted[Carries[d]] = s
              => Cardinality(CountingPaid(s)') = Cardinality(CountingPaid(s)) - 1
         /\ Cardinality(CountingPaid(s)') <= Cardinality(CountingPaid(s)) + 1
         /\ Wanted[Carries[d]] # s
              => Cardinality(CountingPaid(s)') = Cardinality(CountingPaid(s))
<1>1. \A e \in Delivery : delivery'[e] = IF e = d THEN pc ELSE delivery[e]
  BY DEF MarketTypeOK
<1>2. PICK S \in SUBSET Delivery : S = CountingPaid(s)
  BY DEF CountingPaid
<1>3. PICK T \in SUBSET Delivery : T = CountingPaid(s)'
  BY DEF CountingPaid
<1>4. S \ {d} = T \ {d}
  BY <1>1, <1>2, <1>3 DEF CountingPaid
<1>5. /\ d \in S <=> (delivery[d] = "count" /\ Wanted[Carries[d]] = s)
      /\ d \in T <=> (pc = "count" /\ Wanted[Carries[d]] = s)
  BY <1>1, <1>2, <1>3 DEF CountingPaid
<1>6. /\ Cardinality(S) \in Nat /\ Cardinality(T) \in Nat
      /\ d \in S /\ d \notin T => Cardinality(T) = Cardinality(S) - 1
      /\ d \notin S /\ d \in T => Cardinality(T) = Cardinality(S) + 1
      /\ (d \in S <=> d \in T) => Cardinality(T) = Cardinality(S)
  BY <1>4, OneMoves, MarketplaceAssumption
<1>7. /\ Cardinality(CountingPaid(s)) = Cardinality(S)
      /\ Cardinality(CountingPaid(s)') = Cardinality(T)
  BY <1>2, <1>3
<1> QED BY <1>5, <1>6, <1>7

\* How many count is a natural number, before a step and after it.
LEMMA SumTypes ==
  ASSUME NEW s \in Strategy
  PROVE  /\ Cardinality(Counting(s)) \in Nat /\ Cardinality(Counting(s)') \in Nat
         /\ Cardinality(CountingPaid(s)) \in Nat /\ Cardinality(CountingPaid(s)') \in Nat
<1>1. /\ Counting(s) \subseteq Purchase /\ Counting(s)' \subseteq Purchase
      /\ CountingPaid(s) \subseteq Delivery /\ CountingPaid(s)' \subseteq Delivery
  BY DEF Counting, CountingPaid
<1> QED BY <1>1, MarketplaceAssumption, FS_Subset, FS_CardinalityType

\* The sum of a strategy, its counter and its purchases, before a step and after it,
\* as numbers: all that the steps below have to say about them.
LEMMA Summed ==
  ASSUME MarketTypeOK, MarketTypeOK', CountNeverAhead, NEW s \in Strategy,
         NEW more \in {0, 1},
         counter'[s] + Cardinality(Counting(s)') + Cardinality(CountingPaid(s)')
           <= counter[s] + Cardinality(Counting(s)) + Cardinality(CountingPaid(s)) + more,
         sold'[s] = sold[s] + more
  PROVE  counter'[s] + Cardinality(Counting(s)') + Cardinality(CountingPaid(s)') <= sold'[s]
<1>1. PICK c \in Nat, S \in Nat, V \in Nat, n \in Nat :
        /\ c = counter[s] /\ n = sold[s]
        /\ S = Cardinality(Counting(s)) /\ V = Cardinality(CountingPaid(s))
  BY SumTypes DEF MarketTypeOK
<1>2. PICK c2 \in Nat, S2 \in Nat, V2 \in Nat :
        /\ c2 = counter'[s]
        /\ S2 = Cardinality(Counting(s)') /\ V2 = Cardinality(CountingPaid(s)')
  BY SumTypes DEF MarketTypeOK
<1>3. c + S + V <= n
  BY <1>1 DEF CountNeverAhead
<1>4. c2 + S2 + V2 <= c + S + V + more /\ sold'[s] = n + more
  BY <1>1, <1>2
<1>5. c2 + S2 + V2 <= n + more
  BY <1>3, <1>4
<1> QED BY <1>2, <1>4, <1>5

\* No step makes a counter, with those about to count, grow more than its purchases.
LEMMA NeverAheadKept ==
  ASSUME IInv, MarketTypeOK', CountNeverAhead, [MarketNext]_vars
  PROVE  CountNeverAhead'
<1> SUFFICES ASSUME NEW s \in Strategy
             PROVE  counter'[s] + Cardinality(Counting(s)') + Cardinality(CountingPaid(s)')
                      <= sold'[s]
  BY DEF CountNeverAhead
<1> USE MarketplaceAssumption
<1>0. MarketTypeOK
  BY DEF IInv
<1>1. PICK c \in Nat, S \in Nat, V \in Nat, n \in Nat :
        /\ c = counter[s] /\ n = sold[s]
        /\ S = Cardinality(Counting(s)) /\ V = Cardinality(CountingPaid(s))
  BY <1>0, SumTypes DEF MarketTypeOK
<1>2. PICK S2 \in Nat, V2 \in Nat :
        S2 = Cardinality(Counting(s)') /\ V2 = Cardinality(CountingPaid(s)')
  BY SumTypes
<1>3. purchase' = purchase => S2 = S
  BY <1>1, <1>2 DEF Counting
<1>4. delivery' = delivery => V2 = V
  BY <1>1, <1>2 DEF CountingPaid
<1>5. ASSUME counter' = counter, sold' = sold, S2 <= S, V2 <= V
      PROVE  counter'[s] + S2 + V2 <= sold'[s]
  <2>1. c + S2 + V2 <= c + S + V + 0
    BY <1>5
  <2> QED BY <1>0, <1>1, <1>2, <1>5, <2>1, Summed DEF MarketTypeOK
<1>6. ASSUME NEW p \in Purchase, NEW pc \in BuyPc \ {"count"}, BuyMoves(p, pc),
             UNCHANGED <<counter, sold, delivery>>
      PROVE  counter'[s] + S2 + V2 <= sold'[s]
  <2>1. S2 <= S
    BY <1>0, <1>1, <1>2, <1>6, CountingMoves
  <2> QED BY <1>4, <1>5, <1>6, <2>1
<1>7. ASSUME NEW d \in Delivery, NEW pc \in HookPc \ {"count"},
             delivery' = [delivery EXCEPT ![d] = pc], UNCHANGED <<counter, sold, purchase>>
      PROVE  counter'[s] + S2 + V2 <= sold'[s]
  <2>1. V2 <= V
    BY <1>0, <1>1, <1>2, <1>7, CountingPaidMoves
  <2> QED BY <1>3, <1>5, <1>7, <2>1
<1>8. ASSUME NEW p \in Purchase, BuyFree(p)
      PROVE  counter'[s] + S2 + V2 <= sold'[s]
  <2>1. BuyMoves(p, "count") /\ Insert(Buyer[p], Wanted[p]) /\ UNCHANGED <<counter, delivery>>
    BY <1>8 DEF BuyFree
  <2>2. S2 <= S + 1 /\ (Wanted[p] # s => S2 = S)
    BY <1>0, <1>1, <1>2, <2>1, CountingMoves DEF BuyPc
  <2>3. sold'[s] = IF Wanted[p] = s THEN sold[s] + 1 ELSE sold[s]
    BY <1>0, <2>1 DEF Insert, MarketTypeOK
  <2> QED BY <1>0, <1>1, <1>2, <1>4, <2>1, <2>2, <2>3, Summed
<1>9. ASSUME NEW p \in Purchase, CountFree(p)
      PROVE  counter'[s] + S2 + V2 <= sold'[s]
  <2>1. /\ purchase[p] = "count" /\ BuyMoves(p, "done") /\ Increment(Wanted[p])
        /\ UNCHANGED <<sold, delivery>>
    BY <1>9 DEF CountFree
  <2>2. IF Wanted[p] = s THEN S2 = S - 1 ELSE S2 = S
    BY <1>0, <1>1, <1>2, <2>1, CountingMoves DEF BuyPc
  <2>3. counter'[s] = IF Wanted[p] = s THEN c + 1 ELSE c
    BY <1>0, <1>1, <2>1 DEF Increment, MarketTypeOK
  <2> QED BY <1>0, <1>1, <1>2, <1>4, <2>1, <2>2, <2>3, Summed
<1>10. ASSUME NEW d \in Delivery, StorePaid(d)
       PROVE  counter'[s] + S2 + V2 <= sold'[s]
  <2>1. /\ delivery' = [delivery EXCEPT ![d] = "count"]
        /\ Insert(Buyer[Carries[d]], Wanted[Carries[d]]) /\ UNCHANGED <<counter, purchase>>
    BY <1>10 DEF StorePaid, HookMoves
  <2>2. V2 <= V + 1 /\ (Wanted[Carries[d]] # s => V2 = V)
    BY <1>0, <1>1, <1>2, <2>1, CountingPaidMoves DEF HookPc
  <2>3. sold'[s] = IF Wanted[Carries[d]] = s THEN sold[s] + 1 ELSE sold[s]
    BY <1>0, <2>1 DEF Insert, MarketTypeOK
  <2> QED BY <1>0, <1>1, <1>2, <1>3, <2>1, <2>2, <2>3, Summed
<1>11. ASSUME NEW d \in Delivery, CountPaid(d)
       PROVE  counter'[s] + S2 + V2 <= sold'[s]
  <2>1. /\ delivery[d] = "count" /\ delivery' = [delivery EXCEPT ![d] = "answer"]
        /\ Increment(Wanted[Carries[d]]) /\ UNCHANGED <<sold, purchase>>
    BY <1>11 DEF CountPaid, HookMoves
  <2>2. IF Wanted[Carries[d]] = s THEN V2 = V - 1 ELSE V2 = V
    BY <1>0, <1>1, <1>2, <2>1, CountingPaidMoves DEF HookPc
  <2>3. counter'[s] = IF Wanted[Carries[d]] = s THEN c + 1 ELSE c
    BY <1>0, <1>1, <2>1 DEF Increment, MarketTypeOK
  <2> QED BY <1>0, <1>1, <1>2, <1>3, <2>1, <2>2, <2>3, Summed
<1>12. ASSUME NEW p \in Purchase,
              \/ ReceivePurchase(p) \/ FindPurchase(p) \/ OpenCheckout(p) \/ PurchaseThrows(p)
       PROVE  counter'[s] + S2 + V2 <= sold'[s]
  <2>1. /\ \E pc \in BuyPc \ {"count"} : BuyMoves(p, pc)
        /\ UNCHANGED <<counter, sold, delivery>>
    BY <1>12 DEF ReceivePurchase, FindPurchase, OpenCheckout, PurchaseThrows, BuyPc
  <2> QED BY <1>6, <2>1
<1>13. ASSUME NEW d \in Delivery, Deliver(d) \/ Answer(d) \/ DeliveryThrows(d)
       PROVE  counter'[s] + S2 + V2 <= sold'[s]
  <2>1. /\ \E pc \in HookPc \ {"count"} : delivery' = [delivery EXCEPT ![d] = pc]
        /\ UNCHANGED <<counter, sold, purchase>>
    BY <1>13 DEF Deliver, Answer, DeliveryThrows, HookMoves, HookPc
  <2> QED BY <1>7, <2>1
<1>14. ASSUME UNCHANGED <<counter, sold, purchase, delivery>>
       PROVE  counter'[s] + S2 + V2 <= sold'[s]
  BY <1>3, <1>4, <1>5, <1>14
<1>15. ASSUME \/ UsersStep \/ UNCHANGED vars
              \/ \E p \in Purchase : Pay(p) \/ ExpireSession(p)
       PROVE  UNCHANGED <<counter, sold, purchase, delivery>>
  BY <1>15 DEF UsersStep, vars, marketVars, Pay, ExpireSession
<1> QED BY <1>2, <1>8, <1>9, <1>10, <1>11, <1>12, <1>13, <1>14, <1>15 DEF MarketNext

\* A counter is never ahead of the purchases that were stored, for any number of
\* requests and deliveries at once.
THEOREM CountersBehind == MarketSpec => []CountNeverAhead
<1>1. MarketInit => CountNeverAhead
  <2>1. ASSUME MarketInit, NEW s \in Strategy
        PROVE  Counting(s) = {} /\ CountingPaid(s) = {} /\ counter[s] = 0 /\ sold[s] = 0
    BY <2>1 DEF MarketInit, TableInit, Counting, CountingPaid
  <2> QED BY <2>1, FS_EmptySet DEF CountNeverAhead
<1>2. IInv /\ IInv' /\ CountNeverAhead /\ [MarketNext]_vars => CountNeverAhead'
  BY NeverAheadKept DEF IInv
<1> QED BY <1>1, <1>2, Inductive, PTL DEF MarketSpec
-----------------------------------------------------------------------------
(* No session is settled that was not counted.                             *)

\* Deliveries that have counted a purchase of s and are about to say so.
Answering(s) == {d \in Delivery : delivery[d] = "answer" /\ Wanted[Carries[d]] = s}

\* What makes AnsweredIsCounted inductive: the counter has a purchase for each
\* settled session and for each delivery about to settle one.
AnswersCounted ==
    \A s \in Strategy :
      Cardinality(Settled(s)) + Cardinality(Answering(s)) <= counter[s]

LEMMA AnswerTypes ==
  ASSUME NEW s \in Strategy
  PROVE  /\ IsFiniteSet(Settled(s)) /\ IsFiniteSet(Settled(s)')
         /\ IsFiniteSet(Answering(s)) /\ IsFiniteSet(Answering(s)')
         /\ Cardinality(Settled(s)) \in Nat /\ Cardinality(Settled(s)') \in Nat
         /\ Cardinality(Answering(s)) \in Nat /\ Cardinality(Answering(s)') \in Nat
<1>1. /\ Settled(s) \subseteq Purchase /\ Settled(s)' \subseteq Purchase
      /\ Answering(s) \subseteq Delivery /\ Answering(s)' \subseteq Delivery
  BY DEF Settled, Answering
<1> QED BY <1>1, MarketplaceAssumption, FS_Subset, FS_CardinalityType

\* A step that settles no session and has no delivery about to settle one.
LEMMA SettlesNothing ==
  ASSUME AnswersCounted, NEW s \in Strategy,
         Settled(s)' \subseteq Settled(s), Answering(s)' \subseteq Answering(s),
         counter[s] \in Nat, counter'[s] \in Nat, counter[s] <= counter'[s]
  PROVE  Cardinality(Settled(s)') + Cardinality(Answering(s)') <= counter'[s]
<1>1. /\ Cardinality(Settled(s)') <= Cardinality(Settled(s))
      /\ Cardinality(Answering(s)') <= Cardinality(Answering(s))
  BY AnswerTypes, FS_Subset
<1> QED BY <1>1, AnswerTypes DEF AnswersCounted

\* The steps that leave the answers to Stripe alone.
LEMMA OtherSteps ==
  ASSUME MarketTypeOK, MarketTypeOK', AnswersCounted, NEW s \in Strategy,
         \/ UsersStep \/ UNCHANGED vars
         \/ \E p \in Purchase :
              \/ ReceivePurchase(p) \/ FindPurchase(p) \/ BuyFree(p) \/ CountFree(p)
              \/ OpenCheckout(p) \/ PurchaseThrows(p) \/ Pay(p) \/ ExpireSession(p)
         \/ \E d \in Delivery : Deliver(d) \/ StorePaid(d) \/ DeliveryThrows(d)
  PROVE  Cardinality(Settled(s)') + Cardinality(Answering(s)') <= counter'[s]
<1>1. counter[s] \in Nat /\ counter'[s] \in Nat
  BY DEF MarketTypeOK
<1>2. CASE UNCHANGED <<session, delivery, counter>>
  <2>1. Settled(s)' = Settled(s) /\ Answering(s)' = Answering(s)
    BY <1>2 DEF Settled, Answering
  <2> QED BY <1>1, <1>2, <2>1, SettlesNothing
<1>3. ASSUME NEW p \in Purchase, CountFree(p)
      PROVE  Cardinality(Settled(s)') + Cardinality(Answering(s)') <= counter'[s]
  <2>1. Settled(s)' = Settled(s) /\ Answering(s)' = Answering(s)
    BY <1>3 DEF CountFree, Settled, Answering
  <2>2. counter[s] <= counter'[s]
    BY <1>1, <1>3 DEF CountFree, Increment, MarketTypeOK
  <2> QED BY <1>1, <2>1, <2>2, SettlesNothing
<1>4. ASSUME NEW p \in Purchase, OpenCheckout(p) \/ Pay(p) \/ ExpireSession(p)
      PROVE  Cardinality(Settled(s)') + Cardinality(Answering(s)') <= counter'[s]
  <2>1. \A q \in Purchase : session'[q] = "answered" => session[q] = "answered"
    BY <1>4 DEF OpenCheckout, Pay, ExpireSession, SessionMoves, MarketTypeOK
  <2>2. delivery' = delivery /\ counter' = counter
    BY <1>4 DEF OpenCheckout, Pay, ExpireSession
  <2>3. Settled(s)' \subseteq Settled(s) /\ Answering(s)' = Answering(s)
    BY <2>1, <2>2 DEF Settled, Answering
  <2> QED BY <1>1, <2>2, <2>3, SettlesNothing
<1>5. ASSUME NEW d \in Delivery, Deliver(d) \/ StorePaid(d) \/ DeliveryThrows(d)
      PROVE  Cardinality(Settled(s)') + Cardinality(Answering(s)') <= counter'[s]
  <2>1. \A e \in Delivery : delivery'[e] = "answer" => delivery[e] = "answer"
    BY <1>5 DEF Deliver, StorePaid, DeliveryThrows, HookMoves, MarketTypeOK
  <2>2. session' = session /\ counter' = counter
    BY <1>5 DEF Deliver, StorePaid, DeliveryThrows
  <2>3. Settled(s)' = Settled(s) /\ Answering(s)' \subseteq Answering(s)
    BY <2>1, <2>2 DEF Settled, Answering
  <2> QED BY <1>1, <2>2, <2>3, SettlesNothing
<1>6. ASSUME \/ UsersStep \/ UNCHANGED vars
             \/ \E p \in Purchase : \/ ReceivePurchase(p) \/ FindPurchase(p) \/ BuyFree(p)
                                    \/ PurchaseThrows(p)
      PROVE  UNCHANGED <<session, delivery, counter>>
  BY <1>6 DEF UsersStep, vars, marketVars, ReceivePurchase, FindPurchase, BuyFree,
              PurchaseThrows
<1> QED BY <1>2, <1>3, <1>4, <1>5, <1>6

\* A purchase is counted, and its delivery is about to say so.
LEMMA CountStep ==
  ASSUME MarketTypeOK, MarketTypeOK', AnswersCounted, NEW s \in Strategy,
         NEW d \in Delivery, CountPaid(d)
  PROVE  Cardinality(Settled(s)') + Cardinality(Answering(s)') <= counter'[s]
<1> USE MarketplaceAssumption
<1>1. /\ delivery[d] = "count"
      /\ \A e \in Delivery : delivery'[e] = IF e = d THEN "answer" ELSE delivery[e]
      /\ session' = session
  BY DEF CountPaid, HookMoves, MarketTypeOK
<1>2. counter[s] \in Nat /\ counter'[s] = IF Wanted[Carries[d]] = s THEN counter[s] + 1
                                                               ELSE counter[s]
  BY DEF CountPaid, Increment, MarketTypeOK
<1>3. Settled(s)' = Settled(s)
  BY <1>1 DEF Settled
<1>4. CASE Wanted[Carries[d]] # s
  <2>1. Answering(s)' = Answering(s)
    BY <1>1, <1>4 DEF Answering
  <2> QED BY <1>2, <1>3, <1>4, <2>1, SettlesNothing
<1>5. CASE Wanted[Carries[d]] = s
  <2>1. Answering(s)' = Answering(s) \cup {d} /\ d \notin Answering(s)
    BY <1>1, <1>5 DEF Answering
  <2>2. Cardinality(Answering(s)') = Cardinality(Answering(s)) + 1
    BY <2>1, AnswerTypes, FS_AddElement
  <2>3. Cardinality(Settled(s)) + Cardinality(Answering(s)) <= counter[s]
    BY DEF AnswersCounted
  <2> QED BY <1>2, <1>3, <1>5, <2>2, <2>3, AnswerTypes
<1> QED BY <1>4, <1>5

\* A delivery is answered, and Stripe learns of it or does not.
LEMMA AnswerStep ==
  ASSUME MarketTypeOK, MarketTypeOK', AnswersCounted, NEW s \in Strategy,
         NEW d \in Delivery, Answer(d)
  PROVE  Cardinality(Settled(s)') + Cardinality(Answering(s)') <= counter'[s]
<1> USE MarketplaceAssumption
<1>1. /\ delivery[d] = "answer"
      /\ \A e \in Delivery : delivery'[e] = IF e = d THEN "idle" ELSE delivery[e]
  BY DEF Answer, HookMoves, MarketTypeOK
<1>2. counter' = counter /\ counter[s] \in Nat
  BY DEF Answer, MarketTypeOK
<1>3. PICK p \in Purchase : p = Carries[d]
  OBVIOUS
<1>4. \A q \in Purchase \ {p} : session'[q] = session[q]
  BY <1>3 DEF Answer, MarketTypeOK
<1>5. CASE Wanted[p] # s
  <2>1. Answering(s)' = Answering(s)
    BY <1>1, <1>3, <1>5 DEF Answering
  <2>2. Settled(s)' \subseteq Settled(s)
    BY <1>4, <1>5 DEF Settled
  <2> QED BY <1>2, <2>1, <2>2, SettlesNothing
<1>6. CASE Wanted[p] = s
  <2>1. Answering(s)' = Answering(s) \ {d} /\ d \in Answering(s)
    BY <1>1, <1>3, <1>6 DEF Answering
  <2>2. Cardinality(Answering(s)') = Cardinality(Answering(s)) - 1
    BY <2>1, AnswerTypes, FS_RemoveElement
  <2>3. PICK S \in SUBSET Purchase, T \in SUBSET Purchase :
           S = Settled(s) /\ T = Settled(s)'
    BY DEF Settled
  <2>4. Cardinality(Settled(s)') <= Cardinality(Settled(s)) + 1
    <3>1. S \ {p} = T \ {p}
      BY <1>4, <2>3 DEF Settled
    <3>2. /\ Cardinality(S) \in Nat
          /\ \/ Cardinality(T) = Cardinality(S) - 1
             \/ Cardinality(T) = Cardinality(S) + 1
             \/ Cardinality(T) = Cardinality(S)
      BY <3>1, OneMoves
    <3> QED BY <2>3, <3>2
  <2>5. Cardinality(Settled(s)) + Cardinality(Answering(s)) <= counter[s]
    BY DEF AnswersCounted
  <2> QED BY <1>2, <2>2, <2>4, <2>5, AnswerTypes
<1> QED BY <1>5, <1>6

\* Stripe is told that a session is settled only when its purchase was counted,
\* however often the event fails, is repeated or overtakes itself.
THEOREM SettledAreCounted == MarketSpec => []AnsweredIsCounted
<1>1. MarketInit => AnswersCounted
  <2>1. ASSUME MarketInit, NEW s \in Strategy
        PROVE  Settled(s) = {} /\ Answering(s) = {} /\ counter[s] = 0
    BY <2>1 DEF MarketInit, TableInit, Settled, Answering
  <2> QED BY <2>1, FS_EmptySet DEF AnswersCounted
<1>2. MarketTypeOK /\ MarketTypeOK' /\ AnswersCounted /\ [MarketNext]_vars => AnswersCounted'
  <2> SUFFICES ASSUME MarketTypeOK, MarketTypeOK', AnswersCounted, [MarketNext]_vars,
                      NEW s \in Strategy
               PROVE  Cardinality(Settled(s)') + Cardinality(Answering(s)') <= counter'[s]
    BY DEF AnswersCounted
  <2> QED BY OtherSteps, CountStep, AnswerStep DEF MarketNext
<1>3. MarketTypeOK /\ AnswersCounted => AnsweredIsCounted
  BY AnswerTypes DEF AnswersCounted, AnsweredIsCounted, MarketTypeOK
<1> QED BY <1>1, <1>2, <1>3, MarketTyped, PTL DEF MarketSpec

-----------------------------------------------------------------------------
(* The user table, under either of its two customers.                      *)

\* Neither the marketplace nor the referral programme does anything to the users,
\* their accounts and their events that Users does not.
THEOREM UsersRefined == (MarketSpec => UsersSpec) /\ (AffiliatesSpec => UsersSpec)
<1>1. [MarketNext]_vars => [UsersNext]_usersVars
  <2>1. ASSUME NEW p \in Purchase,
               \/ ReceivePurchase(p) \/ FindPurchase(p) \/ BuyFree(p) \/ CountFree(p)
               \/ OpenCheckout(p) \/ PurchaseThrows(p) \/ Pay(p) \/ ExpireSession(p)
        PROVE  UNCHANGED usersVars
    BY <2>1 DEF ReceivePurchase, FindPurchase, BuyFree, CountFree, OpenCheckout,
                PurchaseThrows, Pay, ExpireSession
  <2>2. ASSUME NEW d \in Delivery,
               Deliver(d) \/ StorePaid(d) \/ CountPaid(d) \/ Answer(d) \/ DeliveryThrows(d)
        PROVE  UNCHANGED usersVars
    BY <2>2 DEF Deliver, StorePaid, CountPaid, Answer, DeliveryThrows
  <2>3. /\ UsersStep => UsersNext
        /\ UNCHANGED vars => UNCHANGED usersVars
    BY DEF UsersStep, vars
  <2> QED BY <2>1, <2>2, <2>3 DEF MarketNext
<1>2. [AffiliatesNext]_affiliateVars => [UsersNext]_usersVars
  <2>1. ASSUME \/ \E g \in Asking : ReadCode(g) \/ StoreCode(g)
               \/ \E h \in Applying : FindReferrer(h) \/ StoreReferrer(h)
               \/ \E n \in Earning : CreatePayout(n) \/ Credit(n)
               \/ ReferralThrows
        PROVE  UNCHANGED usersVars
    BY <2>1 DEF ReadCode, StoreCode, FindReferrer, StoreReferrer, CreatePayout, Credit,
                ReferralThrows
  <2>2. /\ ReferralUsersStep => UsersNext
        /\ UNCHANGED affiliateVars => UNCHANGED usersVars
    BY DEF ReferralUsersStep, affiliateVars
  <2> QED BY <2>1, <2>2 DEF AffiliatesNext
<1>3. MarketInit => UsersInit
  BY DEF MarketInit
<1> QED BY <1>1, <1>2, <1>3, PTL DEF MarketSpec, AffiliatesSpec, UsersSpec

-----------------------------------------------------------------------------
(* The referral programme.                                                 *)

\* A commission that is about to be credited has its payout row, or had it.
CreditBacked ==
    \A n \in Earning :
      earning[n] = "credit" => n \in payout[Earns[n]] \cup gone[Earns[n]]

AInv ==
    /\ AffiliatesTypeOK
    /\ SettledCodeStays /\ SettledOnce
    /\ EarningsBacked /\ CreditBacked

\* Steps that leave the users alone leave their table well formed.
LEMMA UsersRest ==
  ASSUME UsersTypeOK, UNCHANGED usersVars
  PROVE  UsersTypeOK' /\ user' = user
BY DEF UsersTypeOK, usersVars

\* The two statements of generateReferralCode (affiliate.service.ts:13-31).
LEMMA CodeSteps ==
  ASSUME AInv, NEW g \in Asking, ReadCode(g) \/ StoreCode(g)
  PROVE  AInv'
<1> USE AffiliatesAssumption
<1>1. UsersTypeOK' /\ user' = user
  BY UsersRest DEF AInv, AffiliatesTypeOK, ReadCode, StoreCode
<1>2. UNCHANGED <<referrer, payout, credited, applying, earning, gone>>
  BY DEF ReadCode, StoreCode
<1>3. PICK a \in Account : a = Asks[g]
  OBVIOUS
<1>4. /\ asking' \in [Asking -> {"idle", "store", "done"}]
      /\ \A o \in Asking \ {g} : asking'[o] = asking[o]
  BY DEF ReadCode, StoreCode, Tells, AInv, AffiliatesTypeOK
<1>5. CASE ReadCode(g) /\ asking'[g] # "done"
  <2>1. code' = code /\ settled' = settled /\ code[a] = NoCode
    BY <1>3, <1>5 DEF ReadCode, Tells, AInv, AffiliatesTypeOK
  <2>2. settled[a] = {}
    BY <2>1 DEF AInv, SettledCodeStays, AffiliatesTypeOK
  <2>3. AffiliatesTypeOK'
    BY <1>1, <1>2, <1>4, <2>1 DEF AInv, AffiliatesTypeOK
  <2>4. SettledCodeStays' /\ SettledOnce'
    BY <1>3, <1>4, <2>1, <2>2 DEF AInv, SettledCodeStays, SettledOnce
  <2> QED BY <1>2, <2>3, <2>4 DEF AInv, EarningsBacked, CreditBacked
<1>6. ASSUME NEW c \in Code, Tells(g, c), code'[a] = c,
             \A b \in Account \ {a} : code'[b] = code[b],
             code' \in [Account -> Code \cup {NoCode}],
             \A b, d \in Account : code'[b] = code'[d] /\ code'[b] # NoCode => b = d,
             settled[a] \subseteq {c}
      PROVE  AInv'
  <2>1. asking'[g] = "done"
    BY <1>6 DEF Tells, AInv, AffiliatesTypeOK
  <2>2. /\ settled' \in [Account -> SUBSET Code]
        /\ settled'[a] \subseteq {c}
        /\ settled' # settled => MakesAlone(g)
        /\ \A b \in Account \ {a} : settled'[b] = settled[b]
    BY <1>3, <1>6 DEF Tells, AInv, AffiliatesTypeOK
  <2>3. AffiliatesTypeOK'
    BY <1>1, <1>2, <1>4, <1>6, <2>2 DEF AInv, AffiliatesTypeOK
  <2>4. SettledCodeStays'
    BY <1>6, <2>2 DEF AInv, SettledCodeStays
  <2>5. SettledOnce'
    BY <1>3, <1>4, <2>1, <2>2 DEF AInv, SettledOnce, MakesAlone
  <2> QED BY <1>2, <2>3, <2>4, <2>5 DEF AInv, EarningsBacked, CreditBacked
<1>7. CASE ReadCode(g) /\ asking'[g] = "done"
  <2>1. PICK c \in Code : c = code[a] /\ Tells(g, c) /\ code' = code
    BY <1>3, <1>7 DEF ReadCode, AInv, AffiliatesTypeOK
  <2> QED BY <1>6, <2>1 DEF AInv, AffiliatesTypeOK, SettledCodeStays
<1>8. CASE StoreCode(g)
  <2>1. PICK c \in Code \ {code[b] : b \in Account \ {a}} :
          code' = [code EXCEPT ![a] = c] /\ Tells(g, c)
    BY <1>3, <1>8 DEF StoreCode
  <2>2. settled[a] = {}
    BY <1>3, <1>8 DEF StoreCode, AInv, SettledOnce
  <2>3. /\ code' \in [Account -> Code \cup {NoCode}]
        /\ \A b \in Account : code'[b] = IF b = a THEN c ELSE code[b]
    BY <2>1 DEF AInv, AffiliatesTypeOK
  <2>4. \A b, d \in Account : code'[b] = code'[d] /\ code'[b] # NoCode => b = d
    BY <2>1, <2>3 DEF AInv, AffiliatesTypeOK
  <2> QED BY <1>6, <2>1, <2>2, <2>3, <2>4
<1> QED BY <1>5, <1>7, <1>8

\* applyReferralCode, recordReferralEarning, and statements that fail.
LEMMA ReferralSteps ==
  ASSUME AInv,
         \/ \E h \in Applying : FindReferrer(h) \/ StoreReferrer(h)
         \/ \E n \in Earning : CreatePayout(n) \/ Credit(n)
         \/ ReferralThrows
  PROVE  AInv'
<1> USE AffiliatesAssumption
<1>1. UsersTypeOK' /\ user' = user /\ UNCHANGED <<code, settled, gone>>
  BY UsersRest DEF AInv, AffiliatesTypeOK, FindReferrer, StoreReferrer, CreatePayout, Credit,
                   ReferralThrows
<1>2. CASE \E h \in Applying : FindReferrer(h)
  <2>1. applying' \in [Applying -> {"idle", "done"} \cup Account]
    BY <1>2 DEF FindReferrer, AInv, AffiliatesTypeOK
  <2>2. UNCHANGED <<referrer, payout, credited, asking, earning>>
    BY <1>2 DEF FindReferrer
  <2> QED BY <1>1, <2>1, <2>2 DEF AInv, AffiliatesTypeOK, SettledCodeStays, SettledOnce,
                                  EarningsBacked, CreditBacked
<1>3. CASE \E h \in Applying : StoreReferrer(h)
  <2>1. PICK h \in Applying : StoreReferrer(h)
    BY <1>3
  <2>2. applying' \in [Applying -> {"idle", "done"} \cup Account]
    BY <2>1 DEF StoreReferrer, AInv, AffiliatesTypeOK
  <2>3. /\ referrer' \in [Account -> Account \cup {NoRow}]
        /\ \A a \in Account : referrer'[a] # NoRow => user[referrer'[a]] # NoRow
    BY <2>1 DEF StoreReferrer, AInv, AffiliatesTypeOK
  <2>4. UNCHANGED <<payout, credited, asking, earning>>
    BY <2>1 DEF StoreReferrer
  <2> QED BY <1>1, <2>2, <2>3, <2>4 DEF AInv, AffiliatesTypeOK, SettledCodeStays, SettledOnce,
                                        EarningsBacked, CreditBacked
<1>4. CASE \E n \in Earning : CreatePayout(n) \/ Credit(n)
  <2>1. PICK n \in Earning : CreatePayout(n) \/ Credit(n)
    BY <1>4
  <2>2. PICK a \in Account : a = Earns[n]
    OBVIOUS
  <2>3. UNCHANGED <<referrer, asking, applying>>
    BY <2>1 DEF CreatePayout, Credit
  <2>4. /\ payout' \in [Account -> SUBSET Earning]
        /\ credited' \in [Account -> SUBSET Earning]
        /\ earning' \in [Earning -> {"idle", "credit", "done"}]
    <3>1. CASE CreatePayout(n)
      BY <3>1 DEF CreatePayout, AInv, AffiliatesTypeOK
    <3>2. CASE Credit(n)
      BY <3>2 DEF Credit, AInv, AffiliatesTypeOK
    <3> QED BY <2>1, <3>1, <3>2
  <2>5. EarningsBacked' /\ CreditBacked'
    <3>1. CASE CreatePayout(n)
      <4>1. \A b \in Account : payout'[b] = IF b = a THEN payout[b] \cup {n} ELSE payout[b]
        BY <2>2, <3>1 DEF CreatePayout, AInv, AffiliatesTypeOK
      <4>2. \A m \in Earning : earning'[m] = IF m = n THEN "credit" ELSE earning[m]
        BY <3>1 DEF CreatePayout, AInv, AffiliatesTypeOK
      <4>3. credited' = credited
        BY <3>1 DEF CreatePayout
      <4> QED BY <1>1, <2>2, <4>1, <4>2, <4>3 DEF AInv, EarningsBacked, CreditBacked
    <3>2. CASE Credit(n)
      <4>1. \A b \in Account :
              credited'[b] = IF b = a THEN credited[b] \cup {n} ELSE credited[b]
        BY <2>2, <3>2 DEF Credit, AInv, AffiliatesTypeOK
      <4>2. \A m \in Earning : earning'[m] = IF m = n THEN "done" ELSE earning[m]
        BY <3>2 DEF Credit, AInv, AffiliatesTypeOK
      <4>3. payout' = payout /\ gone' = gone
        BY <1>1, <3>2 DEF Credit
      <4>4. n \in payout[a] \cup gone[a]
        BY <2>2, <3>2 DEF Credit, AInv, CreditBacked
      <4>5. EarningsBacked'
        BY <4>1, <4>3, <4>4 DEF AInv, EarningsBacked
      <4>6. CreditBacked'
        BY <4>2, <4>3 DEF AInv, CreditBacked
      <4> QED BY <4>5, <4>6
    <3> QED BY <2>1, <3>1, <3>2
  <2> QED BY <1>1, <2>3, <2>4, <2>5 DEF AInv, AffiliatesTypeOK, SettledCodeStays, SettledOnce
<1>5. CASE ReferralThrows
  <2>1. /\ asking' \in [Asking -> {"idle", "store", "done"}]
        /\ applying' \in [Applying -> {"idle", "done"} \cup Account]
        /\ earning' \in [Earning -> {"idle", "credit", "done"}]
    BY <1>5 DEF ReferralThrows, AInv, AffiliatesTypeOK
  <2>2. /\ \A g \in Asking : asking'[g] = "store" => asking[g] = "store"
        /\ \A n \in Earning : earning'[n] = "credit" => earning[n] = "credit"
    BY <1>5 DEF ReferralThrows, AInv, AffiliatesTypeOK
  <2>3. UNCHANGED <<referrer, payout, credited>>
    BY <1>5 DEF ReferralThrows
  <2> QED BY <1>1, <2>1, <2>2, <2>3 DEF AInv, AffiliatesTypeOK, SettledCodeStays, SettledOnce,
                                        EarningsBacked, CreditBacked
<1> QED BY <1>2, <1>3, <1>4, <1>5

\* Users come and go.
LEMMA ReferralUsers ==
  ASSUME AInv, ReferralUsersStep
  PROVE  AInv'
<1>1. UsersTypeOK'
  BY UsersTyped DEF AInv, AffiliatesTypeOK, ReferralUsersStep
<1>2. UNCHANGED <<asking, applying, earning>>
  BY DEF ReferralUsersStep
<1>3. /\ code' \in [Account -> Code \cup {NoCode}]
      /\ \A a \in Account : code'[a] = IF user'[a] = NoRow THEN NoCode ELSE code[a]
  BY DEF ReferralUsersStep, Cleared, AInv, AffiliatesTypeOK
<1>4. /\ settled' \in [Account -> SUBSET Code]
      /\ \A a \in Account : settled'[a] = IF user'[a] = NoRow THEN {} ELSE settled[a]
  BY DEF ReferralUsersStep, Cleared, AInv, AffiliatesTypeOK
<1>5. /\ payout' \in [Account -> SUBSET Earning]
      /\ \A a \in Account : payout'[a] = IF user'[a] = NoRow THEN {} ELSE payout[a]
  BY DEF ReferralUsersStep, Cleared, AInv, AffiliatesTypeOK
<1>6. /\ credited' \in [Account -> SUBSET Earning]
      /\ \A a \in Account : credited'[a] = IF user'[a] = NoRow THEN {} ELSE credited[a]
  BY DEF ReferralUsersStep, Cleared, AInv, AffiliatesTypeOK
<1>7. /\ gone' \in [Account -> SUBSET Earning]
      /\ \A a \in Account : gone'[a] = gone[a] \cup (payout[a] \ payout'[a])
  BY DEF ReferralUsersStep, AInv, AffiliatesTypeOK
<1>8. /\ referrer' \in [Account -> Account \cup {NoRow}]
      /\ \A a \in Account : referrer'[a] # NoRow => user'[referrer'[a]] # NoRow
  BY DEF ReferralUsersStep, AInv, AffiliatesTypeOK
<1>9. AffiliatesTypeOK'
  BY <1>1, <1>2, <1>3, <1>4, <1>5, <1>6, <1>7, <1>8 DEF AInv, AffiliatesTypeOK
<1>10. SettledCodeStays' /\ SettledOnce'
  BY <1>2, <1>3, <1>4, AffiliatesAssumption DEF AInv, SettledCodeStays, SettledOnce
<1>11. EarningsBacked' /\ CreditBacked'
  <2>1. \A a \in Account : payout[a] \cup gone[a] \subseteq payout'[a] \cup gone'[a]
    BY <1>7
  <2>2. EarningsBacked'
    BY <1>6, <2>1 DEF AInv, EarningsBacked
  <2>3. CreditBacked'
    BY <1>2, <2>1, AffiliatesAssumption DEF AInv, CreditBacked
  <2> QED BY <2>2, <2>3
<1> QED BY <1>9, <1>10, <1>11 DEF AInv

\* The invariant of the referral programme is inductive.
THEOREM ReferralsInductive == AffiliatesSpec => []AInv
<1>1. UsersInit /\ AffiliatesInit => AInv
  <2>1. UsersInit => UsersTypeOK
    BY DEF UsersInit, UsersTypeOK, ClerkAccount, Event
  <2>2. UsersTypeOK /\ AffiliatesInit => AffiliatesTypeOK
    BY DEF AffiliatesInit, AffiliatesTypeOK
  <2>3. AffiliatesInit => SettledCodeStays /\ SettledOnce /\ EarningsBacked /\ CreditBacked
    BY DEF AffiliatesInit, SettledCodeStays, SettledOnce, EarningsBacked, CreditBacked
  <2> QED BY <2>1, <2>2, <2>3 DEF AInv
<1>2. AInv /\ [AffiliatesNext]_affiliateVars => AInv'
  <2> SUFFICES ASSUME AInv, [AffiliatesNext]_affiliateVars PROVE AInv'
    OBVIOUS
  <2>1. CASE UNCHANGED affiliateVars
    BY <2>1 DEF affiliateVars, usersVars, referralVars, AInv, AffiliatesTypeOK, UsersTypeOK,
                SettledCodeStays, SettledOnce, EarningsBacked, CreditBacked
  <2> QED BY <2>1, CodeSteps, ReferralSteps, ReferralUsers DEF AffiliatesNext
<1> QED BY <1>1, <1>2, PTL DEF AffiliatesSpec

\* Codes are unique and no referrer is named that is gone (affiliate.service.ts,
\* prisma/schema.prisma).
THEOREM ReferralsTyped == AffiliatesSpec => []AffiliatesTypeOK
BY ReferralsInductive, PTL DEF AInv

\* A code told while no other call was making one stays the user's code.
THEOREM CodesStay == AffiliatesSpec => []SettledCodeStays
BY ReferralsInductive, PTL DEF AInv

\* No sum of earnings counts a commission without a payout row.
THEOREM SumsBacked == AffiliatesSpec => []EarningsBacked
BY ReferralsInductive, PTL DEF AInv
=============================================================================
