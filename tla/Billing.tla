------------------------------ MODULE Billing -------------------------------
(***************************************************************************)
(* Subscriptions: the Stripe webhook (backend/routes/stripe.routes.ts,     *)
(* services/stripe.ts) that keeps the subscription rows, and the question  *)
(* the rest of the backend asks of them (lib/subscription.ts).             *)
(*                                                                         *)
(* Stripe keeps the subscriptions and sends each event until it is         *)
(* answered 2xx: events of a subscription arrive in any order, and an      *)
(* event whose answer was lost arrives again.                              *)
(***************************************************************************)
EXTENDS Naturals, Sequences

CONSTANTS
    User, Sub,
    SubUser,      \* SubUser[s] is the user who buys subscription s
    PeriodEnd,    \* current_period_end of an updated event; 0 is an absent one
    MaxEvents,    \* bound: events of a subscription
    MaxTime       \* bound on the clock

ASSUME BillingAssumption ==
    /\ SubUser \in [Sub -> User]
    /\ PeriodEnd \subseteq Nat
    /\ MaxEvents \in Nat /\ MaxTime \in Nat

VARIABLES
    now,
    stripe,     \* status of each subscription at Stripe
    log,        \* the events Stripe sends about a subscription, oldest first
    answered,   \* events (places in log) the webhook has answered 200
    rows,       \* the subscription table, oldest row first
    applied,    \* history: place of the event applied last
    inOrder     \* history: the events were applied in order, none skipped

vars == <<now, stripe, log, answered, rows, applied, inOrder>>

-----------------------------------------------------------------------------
Event == [type : {"completed", "updated", "deleted", "payment_failed"},
          status : {"active", "past_due", "canceled"}, end : PeriodEnd \cup {0}]

\* currentPeriodEnd 0 is null.
SubscriptionRow == [sub : Sub, status : {"active", "past_due", "canceled"},
                    currentPeriodEnd : PeriodEnd \cup {0}]

TypeOK ==
    /\ now \in Nat
    /\ stripe \in [Sub -> {"none", "active", "past_due", "canceled"}]
    /\ log \in [Sub -> Seq(Event)]
    /\ answered \in [Sub -> SUBSET Nat]
    /\ \A s \in Sub : answered[s] \subseteq DOMAIN log[s]
    /\ rows \in Seq(SubscriptionRow)
    /\ \A i, j \in DOMAIN rows : rows[i].sub = rows[j].sub => i = j
    /\ applied \in [Sub -> Nat] /\ inOrder \in [Sub -> BOOLEAN]

Init ==
    /\ now = 0
    /\ stripe = [s \in Sub |-> "none"]
    /\ log = [s \in Sub |-> <<>>]
    /\ answered = [s \in Sub |-> {}]
    /\ rows = <<>>
    /\ applied = [s \in Sub |-> 0]
    /\ inOrder = [s \in Sub |-> TRUE]

-----------------------------------------------------------------------------
(* Stripe.                                                                 *)

\* Stripe changes the status of s and sends the events that say so.
Becomes(s, status, events) ==
    /\ Len(log[s] \o events) <= MaxEvents
    /\ stripe' = [stripe EXCEPT ![s] = status]
    /\ log' = [log EXCEPT ![s] = @ \o events]
    /\ UNCHANGED <<now, answered, rows, applied, inOrder>>

Message(type, status, end) == [type |-> type, status |-> status, end |-> end]

CheckoutPaid(s) ==
    /\ stripe[s] = "none"
    /\ Becomes(s, "active", <<Message("completed", "active", 0)>>)

\* A renewal, or a payment that was overdue.
Paid(s, end) ==
    /\ stripe[s] \in {"active", "past_due"}
    /\ Becomes(s, "active", <<Message("updated", "active", end)>>)

PaymentFails(s) ==
    /\ stripe[s] = "active"
    /\ Becomes(s, "past_due", <<Message("payment_failed", "past_due", 0),
                                Message("updated", "past_due", 0)>>)

Cancelled(s) ==
    /\ stripe[s] \in {"active", "past_due"}
    /\ Becomes(s, "canceled", <<Message("deleted", "canceled", 0)>>)

Tick ==
    /\ now < MaxTime
    /\ now' = now + 1
    /\ UNCHANGED <<stripe, log, answered, rows, applied, inOrder>>

-----------------------------------------------------------------------------
(* POST /stripe/webhook: each event is one statement on the subscription   *)
(* table.  A statement that throws is answered 400, changes nothing and is *)
(* delivered again: no step.                                               *)

HasRow(s) == \E i \in DOMAIN rows : rows[i].sub = s

\* Mutant of Create: nothing keeps a subscription from having two rows.
CreateAgain(s) ==
    rows' = Append(rows, [sub |-> s, status |-> "active", currentPeriodEnd |-> 0])

\* subscription.create; stripeSubscriptionId is unique.
Create(s) ==
    /\ ~HasRow(s)
    /\ rows' = Append(rows, [sub |-> s, status |-> "active", currentPeriodEnd |-> 0])

\* subscription.updateMany; an absent currentPeriodEnd leaves the column alone.
UpdateMany(s, status, end) ==
    rows' = [i \in DOMAIN rows |->
               IF rows[i].sub = s
               THEN [rows[i] EXCEPT !.status = status,
                                    !.currentPeriodEnd = IF end = 0 THEN @ ELSE end]
               ELSE rows[i]]

\* Mutant of Apply: a deleted subscription keeps its row as it is.
ApplyUnlessDeleted(s, event) ==
    \/ event.type = "completed" /\ Create(s)
    \/ event.type = "updated" /\ UpdateMany(s, event.status, event.end)
    \/ event.type = "deleted" /\ UNCHANGED rows
    \/ event.type = "payment_failed" /\ UpdateMany(s, "past_due", 0)

\* An invoice that names no subscription is answered and changes nothing.
Apply(s, event) ==
    \/ event.type = "completed" /\ Create(s)
    \/ event.type = "updated" /\ UpdateMany(s, event.status, event.end)
    \/ event.type = "deleted" /\ UpdateMany(s, "canceled", 0)
    \/ event.type = "payment_failed" /\ UpdateMany(s, "past_due", 0)
    \/ event.type = "payment_failed" /\ UNCHANGED rows

\* An event of s, the first time or again, is handled and answered; the answer may be
\* lost, so Stripe may send it again.
Deliver(s, i) ==
    /\ Apply(s, log[s][i])
    /\ answered' = [answered EXCEPT ![s] = @ \cup {i}]
    /\ applied' = [applied EXCEPT ![s] = i]
    /\ inOrder' = [inOrder EXCEPT ![s] = @ /\ i \in {applied[s], applied[s] + 1}]
    /\ UNCHANGED <<now, stripe, log>>

Next ==
    \/ \E s \in Sub : \/ CheckoutPaid(s) \/ PaymentFails(s) \/ Cancelled(s)
                      \/ \E end \in PeriodEnd : Paid(s, end)
                      \/ \E i \in DOMAIN log[s] : Deliver(s, i)
    \/ Tick

Spec == Init /\ [][Next]_vars

-----------------------------------------------------------------------------
(* checkSubscriptionStatus.                                                *)

\* The rows the query of checkSubscriptionStatus selects for u.
Selected(u) ==
    {i \in DOMAIN rows :
       /\ SubUser[rows[i].sub] = u
       /\ rows[i].status \in {"active", "past_due"}
       /\ rows[i].currentPeriodEnd = 0 \/ rows[i].currentPeriodEnd > now}

\* Mutant of hasActiveSubscription: any selected row will do.
hasAnySubscription(u) == Selected(u) # {}

\* Mutant of hasActiveSubscription: the oldest row is taken.
hasOldestActive(u) ==
    \E i \in Selected(u) : /\ \A j \in Selected(u) : i <= j
                           /\ rows[i].status = "active"

\* The newest of them is active.
hasActiveSubscription(u) ==
    \E i \in Selected(u) : /\ \A j \in Selected(u) : j <= i
                           /\ rows[i].status = "active"

-----------------------------------------------------------------------------
(* Properties.                                                             *)

UpToDate(s) == inOrder[s] /\ applied[s] = Len(log[s])

\* A subscription whose events were applied in the order Stripe sent them, none of
\* them missing, has at Stripe the status of its row, however often the last event
\* arrived again and whatever happened to the user's other subscriptions
\* (stripe.routes.ts:47-88).
SyncedInOrder ==
    \A s \in Sub :
      UpToDate(s) /\ stripe[s] # "none" =>
        \E i \in DOMAIN rows : rows[i].sub = s /\ rows[i].status = stripe[s]

\* A user whose events arrived in order, who pays for a subscription and owes
\* nothing on a newer one, is let in until the paid period ends
\* (subscription.ts:14-36 looks at the newest row only).
PayingUserAdmitted ==
    \A u \in User, i \in DOMAIN rows :
      /\ \A s \in Sub : SubUser[s] = u => UpToDate(s)
      /\ SubUser[rows[i].sub] = u /\ stripe[rows[i].sub] = "active"
      /\ rows[i].currentPeriodEnd = 0 \/ rows[i].currentPeriodEnd > now
      /\ \A j \in DOMAIN rows :
           j > i /\ SubUser[rows[j].sub] = u => stripe[rows[j].sub] # "past_due"
      => hasActiveSubscription(u)
=============================================================================
