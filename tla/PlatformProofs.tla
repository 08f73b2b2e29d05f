--------------------------- MODULE PlatformProofs ----------------------------
(***************************************************************************)
(* Proofs about Billing, and about Platform where it meets AgentLifecycle, *)
(* for every set of users, subscriptions and deployments: rows that follow *)
(* the events, users who are let in, machines that somebody bought.        *)
(***************************************************************************)
EXTENDS Platform, SequenceTheorems, FiniteSetTheorems, TLAPS

Agents == INSTANCE AgentLifecycleProofs

Status == {"active", "past_due", "canceled"}

-----------------------------------------------------------------------------
(* What Stripe sends.                                                      *)

\* The events that a change at Stripe sends come after those sent before.
LEMMA LogGrows ==
  ASSUME TypeOK, NEW s \in Sub, NEW status \in Status, NEW events \in Seq(Event),
         Becomes(s, status, events)
  PROVE  /\ TypeOK'
         /\ \A t \in Sub \ {s} : log'[t] = log[t] /\ stripe'[t] = stripe[t]
         /\ stripe'[s] = status
         /\ log'[s] = log[s] \o events
         /\ Len(log'[s]) = Len(log[s]) + Len(events)
         /\ \A i \in 1 .. Len(log[s]) : log'[s][i] = log[s][i]
         /\ \A i \in 1 .. Len(events) : log'[s][Len(log[s]) + i] = events[i]
<1>1. log[s] \in Seq(Event) /\ log \in [Sub -> Seq(Event)]
  BY DEF TypeOK
<1>2. /\ log[s] \o events \in Seq(Event)
      /\ Len(log[s] \o events) = Len(log[s]) + Len(events)
      /\ \A i \in 1 .. Len(log[s]) + Len(events) :
           (log[s] \o events)[i] = IF i <= Len(log[s]) THEN log[s][i]
                                                     ELSE events[i - Len(log[s])]
  BY <1>1, ConcatProperties
<1>3. log' = [log EXCEPT ![s] = log[s] \o events] /\ stripe' = [stripe EXCEPT ![s] = status]
      /\ UNCHANGED <<now, answered, rows, applied, inOrder>>
  BY DEF Becomes
<1>4. \A t \in Sub : log'[t] = IF t = s THEN log[s] \o events ELSE log[t]
  BY <1>1, <1>3
<1>5. Len(log[s]) \in Nat /\ Len(events) \in Nat
  BY <1>1, LenProperties
<1>6. \A t \in Sub : DOMAIN log[t] \subseteq DOMAIN log'[t]
  <2>1. log'[s] \in Seq(Event) /\ Len(log'[s]) = Len(log[s]) + Len(events)
    BY <1>2, <1>4
  <2>2. DOMAIN log[s] = 1 .. Len(log[s]) /\ DOMAIN log'[s] = 1 .. Len(log'[s])
    BY <1>1, <2>1
  <2> QED BY <1>4, <1>5, <2>1, <2>2
<1>7. log' \in [Sub -> Seq(Event)]
  BY <1>1, <1>2, <1>3
<1>8. TypeOK'
  BY <1>3, <1>6, <1>7 DEF TypeOK, Status
<1>9. ASSUME NEW i \in 1 .. Len(log[s]) PROVE log'[s][i] = log[s][i]
  <2>1. i \in 1 .. Len(log[s]) + Len(events) /\ i <= Len(log[s])
    BY <1>5
  <2> QED BY <1>2, <1>4, <2>1
<1>10. ASSUME NEW i \in 1 .. Len(events) PROVE log'[s][Len(log[s]) + i] = events[i]
  <2>1. PICK n \in Nat, m \in Nat : n = Len(log[s]) /\ m = Len(events)
    BY <1>5
  <2>2. n + i \in 1 .. n + m /\ ~(n + i <= n) /\ (n + i) - n = i
    BY <2>1
  <2> QED BY <1>2, <1>4, <2>1, <2>2
<1> QED BY <1>2, <1>3, <1>4, <1>8, <1>9, <1>10 DEF TypeOK

\* What an event at place i of a subscription may be, of which Stripe sent n events and
\* which it then had in a status.
Fits(event, i, n, status) ==
    /\ event.type = "completed" <=> i = 1
    /\ event.type = "completed" => event.status = "active"
    /\ event.type = "deleted" => event.status = "canceled"
    /\ event.type = "payment_failed" => event.status = "past_due"
    /\ i = n => event.status = status /\ event.type # "payment_failed"

\* The events of a subscription start with the checkout that bought it, and the last
\* of them says what Stripe holds now.
Logged ==
    \A s \in Sub :
      /\ stripe[s] = "none" <=> Len(log[s]) = 0
      /\ \A i \in 1 .. Len(log[s]) : Fits(log[s][i], i, Len(log[s]), stripe[s])

\* What no change at Stripe disturbs.
Extends ==
    /\ \A t \in Sub : /\ Len(log[t]) <= Len(log'[t])
                      /\ \A i \in 1 .. Len(log[t]) : log'[t][i] = log[t][i]
    /\ UNCHANGED <<now, answered, rows, applied, inOrder>>

\* A change at Stripe whose events fit keeps them fitting.
LEMMA LoggedGrows ==
  ASSUME TypeOK, Logged, NEW s \in Sub, NEW status \in Status, NEW events \in Seq(Event),
         Becomes(s, status, events), Len(events) > 0,
         \A j \in 1 .. Len(events) :
           Fits(events[j], Len(log[s]) + j, Len(log[s]) + Len(events), status)
  PROVE  TypeOK' /\ Logged' /\ Extends
<1>1. PICK n \in Nat, m \in Nat : n = Len(log[s]) /\ m = Len(events)
  BY DEF TypeOK
<1>2. /\ TypeOK' /\ stripe'[s] = status /\ Len(log'[s]) = n + m
      /\ \A t \in Sub \ {s} : log'[t] = log[t] /\ stripe'[t] = stripe[t]
      /\ \A i \in 1 .. n : log'[s][i] = log[s][i]
      /\ \A i \in 1 .. m : log'[s][n + i] = events[i]
  BY <1>1, LogGrows
<1>3. \A i \in 1 .. n + m : i \in 1 .. n \/ (i - n \in 1 .. m /\ n + (i - n) = i)
  OBVIOUS
<1>4. ASSUME NEW i \in 1 .. n + m PROVE Fits(log'[s][i], i, n + m, status)
  <2>1. CASE i \in 1 .. n
    <3>1. Fits(log[s][i], i, n, stripe[s]) /\ i # n + m
      BY <1>1, <2>1 DEF Logged
    <3> QED BY <1>2, <2>1, <3>1 DEF Fits
  <2>2. CASE i - n \in 1 .. m
    <3>1. PICK j \in 1 .. m : j = i - n /\ n + j = i
      BY <1>3, <2>2
    <3>2. Fits(events[j], n + j, n + m, status)
      BY <1>1, <3>1
    <3> QED BY <1>2, <3>1, <3>2
  <2> QED BY <1>3, <2>1, <2>2
<1>5. Logged'
  <2>1. ASSUME NEW t \in Sub \ {s}
        PROVE  /\ stripe'[t] = "none" <=> Len(log'[t]) = 0
               /\ \A i \in 1 .. Len(log'[t]) :
                    Fits(log'[t][i], i, Len(log'[t]), stripe'[t])
    BY <1>2 DEF Logged
  <2>2. stripe'[s] # "none" /\ Len(log'[s]) # 0
    BY <1>1, <1>2 DEF Status
  <2> QED BY <1>2, <1>4, <2>1, <2>2 DEF Logged
<1>6. Extends
  BY <1>1, <1>2 DEF Extends, Becomes, TypeOK
<1> QED BY <1>2, <1>5, <1>6

\* Everything Stripe does sends events that fit.
LEMMA StripeLogged ==
  ASSUME TypeOK, Logged, NEW s \in Sub,
         \/ CheckoutPaid(s) \/ PaymentFails(s) \/ Cancelled(s)
         \/ \E end \in PeriodEnd : Paid(s, end)
  PROVE  TypeOK' /\ Logged' /\ Extends
<1>1. PICK n \in Nat : n = Len(log[s])
  BY DEF TypeOK
<1>2. ASSUME NEW status \in Status, NEW m \in Event, Becomes(s, status, <<m>>),
             Fits(m, n + 1, n + 1, status)
      PROVE  TypeOK' /\ Logged' /\ Extends
  <2>0. <<m>> \in Seq(Event) /\ Len(<<m>>) = 1 /\ <<m>>[1] = m
    OBVIOUS
  <2>1. PICK sent \in Seq(Event) : sent = <<m>> /\ Len(sent) = 1 /\ sent[1] = m
    BY <2>0, Zenon
  <2>2. \A j \in 1 .. Len(sent) :
          Fits(sent[j], Len(log[s]) + j, Len(log[s]) + Len(sent), status)
    BY <1>1, <1>2, <2>1
  <2>3. Becomes(s, status, sent) /\ Len(sent) > 0
    BY <1>2, <2>1
  <2> QED BY <2>2, <2>3, LoggedGrows
<1>3. CASE CheckoutPaid(s)
  <2>1. Message("completed", "active", 0) \in Event
    BY DEF Message, Event
  <2>2. n = 0
    BY <1>1, <1>3 DEF CheckoutPaid, Logged
  <2>3. Fits(Message("completed", "active", 0), n + 1, n + 1, "active")
    BY <2>2 DEF Fits, Message
  <2> QED BY <1>2, <1>3, <2>1, <2>3 DEF CheckoutPaid, Status
<1>4. ASSUME stripe[s] # "none" PROVE n > 0 /\ n + 1 # 1
  BY <1>1, <1>4 DEF Logged
<1>5. ASSUME NEW end \in PeriodEnd, Paid(s, end) PROVE TypeOK' /\ Logged' /\ Extends
  <2>1. Message("updated", "active", end) \in Event
    BY DEF Message, Event
  <2>2. Fits(Message("updated", "active", end), n + 1, n + 1, "active")
    BY <1>4, <1>5 DEF Fits, Message, Paid
  <2> QED BY <1>2, <1>5, <2>1, <2>2 DEF Paid, Status
<1>6. CASE Cancelled(s)
  <2>1. Message("deleted", "canceled", 0) \in Event
    BY DEF Message, Event
  <2>2. Fits(Message("deleted", "canceled", 0), n + 1, n + 1, "canceled")
    BY <1>4, <1>6 DEF Fits, Message, Cancelled
  <2> QED BY <1>2, <1>6, <2>1, <2>2 DEF Cancelled, Status
<1>7. CASE PaymentFails(s)
  <2>1. PICK a \in Event, b \in Event :
          a = Message("payment_failed", "past_due", 0) /\ b = Message("updated", "past_due", 0)
    BY DEF Message, Event
  <2>0. <<a, b>> \in Seq(Event) /\ Len(<<a, b>>) = 2 /\ <<a, b>>[1] = a /\ <<a, b>>[2] = b
    OBVIOUS
  <2>2. PICK sent \in Seq(Event) :
          sent = <<a, b>> /\ Len(sent) = 2 /\ sent[1] = a /\ sent[2] = b
    BY <2>0, Zenon
  <2>3. Fits(a, n + 1, n + 2, "past_due") /\ Fits(b, n + 2, n + 2, "past_due")
    BY <1>4, <1>7, <2>1 DEF Fits, Message, PaymentFails
  <2>4. Becomes(s, "past_due", sent) /\ Len(sent) > 0
    BY <1>7, <2>1, <2>2 DEF PaymentFails
  <2>5. \A j \in 1 .. Len(sent) : j = 1 \/ j = 2
    BY <2>2
  <2>6. \A j \in 1 .. Len(sent) :
          Fits(sent[j], Len(log[s]) + j, Len(log[s]) + Len(sent), "past_due")
    BY <1>1, <2>2, <2>3, <2>5
  <2> QED BY <2>4, <2>6, LoggedGrows DEF Status
<1> QED BY <1>3, <1>5, <1>6, <1>7

-----------------------------------------------------------------------------
(* What the webhook makes of it.                                           *)

\* A row comes of an event, and while events are applied in order it has the status
\* of the last one; a failed payment may not say whose it is.
Follows(i, s) ==
    /\ rows[i].sub = s
    /\ \/ log[s][applied[s]].type = "payment_failed"
       \/ rows[i].status = log[s][applied[s]].status

RowsFollow ==
    \A s \in Sub :
      /\ applied[s] <= Len(log[s])
      /\ HasRow(s) => applied[s] > 0
      /\ inOrder[s] /\ applied[s] > 0 => \E i \in DOMAIN rows : Follows(i, s)

\* No two rows are of one subscription.
Single == \A i, j \in DOMAIN rows : rows[i].sub = rows[j].sub => i = j

\* What an update leaves of the rows (stripe.routes.ts:69-88).
LEMMA Updated ==
  ASSUME TypeOK, NEW s \in Sub, NEW status \in Status, NEW end \in PeriodEnd \cup {0},
         UpdateMany(s, status, end)
  PROVE  /\ rows' \in Seq(SubscriptionRow) /\ Single'
         /\ DOMAIN rows' = DOMAIN rows
         /\ \A i \in DOMAIN rows :
              /\ rows'[i].sub = rows[i].sub
              /\ rows'[i].status = IF rows[i].sub = s THEN status ELSE rows[i].status
<1>1. rows \in Seq(SubscriptionRow) /\ Len(rows) \in Nat /\ DOMAIN rows = 1 .. Len(rows)
  BY DEF TypeOK
<1>2. ASSUME NEW i \in DOMAIN rows
      PROVE  /\ rows'[i] \in SubscriptionRow
             /\ rows'[i].sub = rows[i].sub
             /\ rows'[i].status = IF rows[i].sub = s THEN status ELSE rows[i].status
  <2>1. PICK r \in SubscriptionRow : r = rows[i]
    BY <1>1
  <2>2. PICK e \in PeriodEnd \cup {0} : e = IF end = 0 THEN r.currentPeriodEnd ELSE end
    BY DEF SubscriptionRow
  <2>3. rows'[i] = IF r.sub = s THEN [r EXCEPT !.status = status, !.currentPeriodEnd = e]
                                ELSE r
    BY <2>1, <2>2 DEF UpdateMany
  <2> QED BY <2>1, <2>3 DEF SubscriptionRow, Status
<1>3. DOMAIN rows' = DOMAIN rows
  BY DEF UpdateMany
<1>4. rows' \in [1 .. Len(rows) -> SubscriptionRow]
  BY <1>1, <1>2 DEF UpdateMany
<1>5. rows' \in Seq(SubscriptionRow)
  BY <1>1, <1>4
<1>6. Single'
  BY <1>2, <1>3 DEF Single, TypeOK
<1> QED BY <1>2, <1>3, <1>5, <1>6

\* What a checkout leaves of them (stripe.routes.ts:58-66).
LEMMA Created ==
  ASSUME TypeOK, NEW s \in Sub, Create(s)
  PROVE  /\ rows' \in Seq(SubscriptionRow) /\ Single'
         /\ \A i \in DOMAIN rows : i \in DOMAIN rows' /\ rows'[i] = rows[i]
         /\ \E i \in DOMAIN rows' : rows'[i].sub = s /\ rows'[i].status = "active"
         /\ \A i \in DOMAIN rows' \ DOMAIN rows : rows'[i].sub = s
<1> DEFINE new == [sub |-> s, status |-> "active", currentPeriodEnd |-> 0]
<1>1. rows \in Seq(SubscriptionRow) /\ Len(rows) \in Nat /\ DOMAIN rows = 1 .. Len(rows)
  BY DEF TypeOK
<1>2. new \in SubscriptionRow
  BY DEF SubscriptionRow
<1>3. rows' = Append(rows, new)
  BY DEF Create
<1>4. new.sub = s /\ new.status = "active"
  OBVIOUS
<1> HIDE DEF new
<1>5. /\ rows' \in Seq(SubscriptionRow) /\ Len(rows') = Len(rows) + 1
      /\ DOMAIN rows' = 1 .. Len(rows) + 1
      /\ \A i \in 1 .. Len(rows) : rows'[i] = rows[i]
      /\ rows'[Len(rows) + 1] = new
  BY <1>1, <1>2, <1>3, AppendProperties
<1>6. Single'
  <2>1. \A i \in 1 .. Len(rows) : rows[i].sub # s
    BY <1>1 DEF Create, HasRow
  <2>2. \A i \in 1 .. Len(rows) + 1 : i \in 1 .. Len(rows) \/ i = Len(rows) + 1
    BY <1>1
  <2> QED BY <1>1, <1>4, <1>5, <2>1, <2>2 DEF Single, TypeOK
<1> QED BY <1>1, <1>4, <1>5, <1>6

\* Handling an event keeps the rows following, the first time or again.
LEMMA DeliverFollows ==
  ASSUME TypeOK, Logged, RowsFollow, NEW s \in Sub, NEW k \in DOMAIN log[s], Deliver(s, k)
  PROVE  TypeOK' /\ Logged' /\ RowsFollow'
<1>0. log[s] \in Seq(Event) /\ Len(log[s]) \in Nat /\ DOMAIN log[s] = 1 .. Len(log[s])
  BY DEF TypeOK
<1>1. PICK n \in Nat : n = Len(log[s]) /\ k \in 1 .. n
  BY <1>0
<1>2. log[s][k] \in Event /\ Fits(log[s][k], k, n, stripe[s])
  BY <1>0, <1>1 DEF Logged
<1>3. PICK event \in Event : event = log[s][k]
  BY <1>2
<1>4. /\ applied' = [applied EXCEPT ![s] = k]
      /\ inOrder' = [inOrder EXCEPT ![s] = @ /\ k \in {applied[s], applied[s] + 1}]
      /\ answered' = [answered EXCEPT ![s] = @ \cup {k}]
      /\ UNCHANGED <<now, stripe, log>> /\ Apply(s, event)
  BY <1>3 DEF Deliver
<1>5. \/ event.type = "completed" /\ Create(s)
      \/ \E status \in Status, end \in PeriodEnd \cup {0} :
           /\ UpdateMany(s, status, end)
           /\ event.type # "completed" /\ status = event.status
      \/ event.type = "payment_failed" /\ UNCHANGED rows
  BY <1>2, <1>3, <1>4 DEF Apply, Fits, Status, Event
<1>6. /\ rows' \in Seq(SubscriptionRow) /\ Single'
      /\ \A i \in DOMAIN rows : i \in DOMAIN rows' /\ rows'[i].sub = rows[i].sub
      /\ \A i \in DOMAIN rows' \ DOMAIN rows : rows'[i].sub = s
      /\ \A i \in DOMAIN rows : rows[i].sub # s => rows'[i].status = rows[i].status
  BY <1>5, Updated, Created DEF TypeOK, Single
<1>7. TypeOK'
  BY <1>1, <1>4, <1>6 DEF TypeOK, Single
<1>8. Logged'
  BY <1>4 DEF Logged
<1>9. ASSUME NEW t \in Sub \ {s}
      PROVE  /\ applied'[t] <= Len(log'[t])
             /\ HasRow(t)' => applied'[t] > 0
             /\ inOrder'[t] /\ applied'[t] > 0 => \E i \in DOMAIN rows' : Follows(i, t)'
  <2>1. applied'[t] = applied[t] /\ inOrder'[t] = inOrder[t] /\ log' = log
    BY <1>4 DEF TypeOK
  <2>2. HasRow(t)' => HasRow(t)
    BY <1>6 DEF HasRow
  <2>3. \A i \in DOMAIN rows : Follows(i, t) => Follows(i, t)'
    BY <1>6, <2>1 DEF Follows
  <2> QED BY <1>6, <2>1, <2>2, <2>3 DEF RowsFollow
<1>10. /\ applied'[s] = k /\ log'[s] = log[s]
       /\ inOrder'[s] => inOrder[s] /\ k \in {applied[s], applied[s] + 1}
  BY <1>4 DEF TypeOK
<1>11. ASSUME inOrder'[s] PROVE \E i \in DOMAIN rows' : Follows(i, s)'
  <2>1. CASE event.type = "completed" /\ Create(s)
    BY <1>2, <1>3, <1>10, <2>1, Created DEF Follows, Fits
  <2>2. ASSUME event.type # "completed" PROVE \E i \in DOMAIN rows : rows[i].sub = s
    <3>1. k # 1 /\ applied[s] \in Nat
      BY <1>2, <1>3, <2>2 DEF Fits, TypeOK
    <3>2. applied[s] > 0
      BY <1>1, <1>10, <1>11, <3>1
    <3> QED BY <1>10, <1>11, <3>2 DEF RowsFollow, Follows
  <2>3. ASSUME NEW status \in Status, NEW end \in PeriodEnd \cup {0},
               UpdateMany(s, status, end), event.type # "completed", status = event.status
        PROVE  \E i \in DOMAIN rows' : Follows(i, s)'
    <3>1. PICK i \in DOMAIN rows : rows[i].sub = s
      BY <2>2, <2>3
    <3>2. i \in DOMAIN rows' /\ rows'[i].sub = s /\ rows'[i].status = status
      BY <2>3, <3>1, Updated
    <3> QED BY <1>3, <1>10, <2>3, <3>2 DEF Follows
  <2>4. CASE event.type = "payment_failed" /\ UNCHANGED rows
    BY <1>3, <1>10, <2>2, <2>4 DEF Follows
  <2> QED BY <1>5, <2>1, <2>3, <2>4
<1>12. RowsFollow'
  BY <1>1, <1>9, <1>10, <1>11 DEF RowsFollow
<1> QED BY <1>7, <1>8, <1>12

-----------------------------------------------------------------------------
(* The invariants of the subscriptions.                                    *)

BillingIInv == TypeOK /\ Logged /\ RowsFollow

\* A change at Stripe leaves the rows following the events that were applied.
LEMMA StripeFollows ==
  ASSUME TypeOK, TypeOK', RowsFollow, Extends
  PROVE  RowsFollow'
<1> SUFFICES ASSUME NEW s \in Sub
             PROVE  /\ applied'[s] <= Len(log'[s])
                    /\ HasRow(s)' => applied'[s] > 0
                    /\ inOrder'[s] /\ applied'[s] > 0 =>
                         \E i \in DOMAIN rows' : Follows(i, s)'
  BY DEF RowsFollow
<1>1. PICK n \in Nat, m \in Nat, k \in Nat :
        n = Len(log[s]) /\ m = Len(log'[s]) /\ k = applied[s]
  BY DEF TypeOK
<1>2. k <= n /\ n <= m
  BY <1>1 DEF RowsFollow, Extends
<1>3. applied' = applied /\ inOrder' = inOrder /\ rows' = rows
  BY DEF Extends
<1>4. k > 0 => log'[s][k] = log[s][k]
  BY <1>1, <1>2 DEF Extends
<1>5. \A i \in DOMAIN rows : k > 0 /\ Follows(i, s) => Follows(i, s)'
  BY <1>1, <1>3, <1>4 DEF Follows
<1> QED BY <1>1, <1>2, <1>3, <1>5 DEF RowsFollow, HasRow

\* The invariant is inductive.
THEOREM BillingInductive == Spec => []BillingIInv
<1>1. Init => BillingIInv
  <2>1. <<>> \in Seq(Event) /\ <<>> \in Seq(SubscriptionRow) /\ Len(<<>>) = 0
    BY EmptySeq
  <2>2. Init => TypeOK
    BY <2>1 DEF Init, TypeOK
  <2>3. Init => Logged /\ RowsFollow
    BY <2>1 DEF Init, Logged, RowsFollow, HasRow
  <2> QED BY <2>2, <2>3 DEF BillingIInv
<1>2. BillingIInv /\ [Next]_vars => BillingIInv'
  <2> SUFFICES ASSUME TypeOK, Logged, RowsFollow, [Next]_vars
               PROVE  BillingIInv'
    BY DEF BillingIInv
  <2>1. ASSUME NEW s \in Sub,
               \/ CheckoutPaid(s) \/ PaymentFails(s) \/ Cancelled(s)
               \/ \E end \in PeriodEnd : Paid(s, end)
        PROVE  BillingIInv'
    BY <2>1, StripeLogged, StripeFollows DEF BillingIInv
  <2>2. ASSUME NEW s \in Sub, NEW k \in DOMAIN log[s], Deliver(s, k)
        PROVE  BillingIInv'
    BY <2>2, DeliverFollows DEF BillingIInv
  <2>3. CASE Tick \/ UNCHANGED vars
    <3>1. TypeOK'
      BY <2>3 DEF Tick, vars, TypeOK
    <3>2. Logged' /\ RowsFollow'
      BY <2>3 DEF Tick, vars, Logged, RowsFollow, HasRow, Follows
    <3> QED BY <3>1, <3>2 DEF BillingIInv
  <2> QED BY <2>1, <2>2, <2>3 DEF Next
<1> QED BY <1>1, <1>2, PTL DEF Spec

\* A row says what Stripe says once its events were applied in order.
LEMMA InvSynced ==
  ASSUME BillingIInv
  PROVE  /\ SyncedInOrder
         /\ \A s \in Sub : HasRow(s) => stripe[s] # "none"
<1> USE DEF BillingIInv
<1>1. ASSUME NEW s \in Sub, UpToDate(s), stripe[s] # "none"
      PROVE  \E i \in DOMAIN rows : rows[i].sub = s /\ rows[i].status = stripe[s]
  <2>1. PICK n \in Nat : n = Len(log[s]) /\ n > 0 /\ applied[s] = n
    BY <1>1 DEF TypeOK, Logged, UpToDate
  <2>2. Fits(log[s][n], n, n, stripe[s])
    BY <2>1 DEF Logged
  <2>3. PICK i \in DOMAIN rows : Follows(i, s)
    BY <1>1, <2>1 DEF RowsFollow, UpToDate
  <2> QED BY <2>1, <2>2, <2>3 DEF Follows, Fits
<1>2. ASSUME NEW s \in Sub, HasRow(s) PROVE stripe[s] # "none"
  <2>1. PICK n \in Nat, k \in Nat : n = Len(log[s]) /\ k = applied[s]
    BY DEF TypeOK
  <2>2. k > 0 /\ k <= n
    BY <1>2, <2>1 DEF RowsFollow
  <2> QED BY <2>1, <2>2 DEF Logged
<1> QED BY <1>1, <1>2 DEF SyncedInOrder

\* Of a finite set of places one is the last.
LEMMA LastPlace ==
  ASSUME NEW n \in Nat, NEW T \in SUBSET (1 .. n), T # {}
  PROVE  \E i \in T : \A j \in T : j <= i
<1> DEFINE After(i) == {j \in T : j > i}
           C == {After(i) : i \in T}
           R == StrictSubsetOrdering(T)
<1>0. IsFiniteSet(1 .. n)
  BY FS_Interval
<1>1. IsFiniteSet(T)
  BY <1>0, FS_Subset
<1>2. FiniteSubsetsOf(T) = SUBSET T
  BY <1>1, FS_FiniteSubsetsOfFinite
<1>3. IsWellFoundedOn(R, SUBSET T)
  BY <1>2, FS_StrictSubsetOrderingWellFounded
<1>4. C \subseteq SUBSET T /\ C # {}
  OBVIOUS
<1> HIDE DEF R
<1>5. PICK least \in C : \A B \in C : ~(<<B, least>> \in R)
  BY <1>3, <1>4, WFMin
<1>6. PICK i \in T : least = After(i)
  OBVIOUS
<1>7. ASSUME NEW j \in T, ~(j <= i) PROVE FALSE
  <2>0. \A k \in T : k \in Nat
    OBVIOUS
  <2>1. j > i /\ ~(j > j) /\ \A k \in T : k > j => k > i
    BY <1>7, <2>0
  <2>2. After(j) \subseteq After(i) /\ j \in After(i) /\ j \notin After(j)
    BY <2>1
  <2>3. <<After(j), After(i)>> \in R
    BY <1>4, <2>2 DEF R, StrictSubsetOrdering
  <2> QED BY <1>5, <1>6, <2>3
<1> QED BY <1>7

\* A user who pays for a subscription, and owes nothing on a newer one, is let in.
LEMMA InvAdmitted ==
  ASSUME BillingIInv
  PROVE  PayingUserAdmitted
<1> SUFFICES ASSUME NEW u \in User, NEW i \in DOMAIN rows,
                    \A s \in Sub : SubUser[s] = u => UpToDate(s),
                    SubUser[rows[i].sub] = u, stripe[rows[i].sub] = "active",
                    rows[i].currentPeriodEnd = 0 \/ rows[i].currentPeriodEnd > now,
                    \A j \in DOMAIN rows :
                      j > i /\ SubUser[rows[j].sub] = u => stripe[rows[j].sub] # "past_due"
             PROVE  hasActiveSubscription(u)
  BY DEF PayingUserAdmitted
<1>1. rows \in Seq(SubscriptionRow) /\ Len(rows) \in Nat /\ DOMAIN rows = 1 .. Len(rows)
      /\ Single
  BY DEF BillingIInv, TypeOK, Single
<1>2. ASSUME NEW j \in DOMAIN rows, SubUser[rows[j].sub] = u
      PROVE  rows[j].status = stripe[rows[j].sub]
  <2>0. rows[j] \in SubscriptionRow
    BY <1>1
  <2>1. PICK s \in Sub : s = rows[j].sub
    BY <2>0 DEF SubscriptionRow
  <2>2. UpToDate(s) /\ stripe[s] # "none"
    BY <1>2, <2>1, InvSynced DEF HasRow
  <2>3. PICK k \in DOMAIN rows : rows[k].sub = s /\ rows[k].status = stripe[s]
    BY <2>2, InvSynced DEF SyncedInOrder
  <2> QED BY <1>1, <2>1, <2>3 DEF Single
<1>3. i \in Selected(u)
  BY <1>2 DEF Selected
<1>4. Selected(u) \in SUBSET (1 .. Len(rows))
  BY <1>1 DEF Selected
<1>5. PICK j \in Selected(u) : \A k \in Selected(u) : k <= j
  BY <1>1, <1>3, <1>4, LastPlace
<1>6. i <= j /\ i \in Nat /\ j \in Nat
  BY <1>1, <1>3, <1>4, <1>5
<1>7. /\ j \in DOMAIN rows /\ SubUser[rows[j].sub] = u
      /\ rows[j].status \in {"active", "past_due"}
  BY DEF Selected
<1>8. rows[j].status = "active"
  BY <1>2, <1>6, <1>7
<1> QED BY <1>5, <1>8 DEF hasActiveSubscription

\* Once the events of a subscription were applied in the order Stripe sent them, its
\* row says what Stripe says, for any number of events and of subscriptions.
THEOREM RowsSynced == Spec => []SyncedInOrder
<1>1. BillingIInv => SyncedInOrder
  BY InvSynced
<1> QED BY <1>1, BillingInductive, PTL

\* A user in good standing whose events arrived in order is never turned away.
THEOREM PayingUsersIn == Spec => []PayingUserAdmitted
<1>1. BillingIInv => PayingUserAdmitted
  BY InvAdmitted
<1> QED BY <1>1, BillingInductive, PTL

-----------------------------------------------------------------------------
(* The platform: subscriptions and agents together.                        *)

\* Whoever is let in has a subscription that was bought.
LEMMA LetInBought ==
  ASSUME BillingIInv, NEW u \in User, hasActiveSubscription(u)
  PROVE  /\ \E s \in SubsOf(u) : stripe[s] # "none"
         /\ (\A s \in SubsOf(u) : UpToDate(s)) => Pays(u)
<1>1. PICK i \in Selected(u) : rows[i].status = "active"
  BY DEF hasActiveSubscription
<1>2. i \in DOMAIN rows /\ SubUser[rows[i].sub] = u
  BY DEF Selected
<1>0. rows[i] \in SubscriptionRow
  BY <1>2 DEF BillingIInv, TypeOK
<1>3. PICK s \in Sub : s = rows[i].sub
  BY <1>0 DEF SubscriptionRow
<1>4. s \in SubsOf(u) /\ stripe[s] # "none"
  BY <1>2, <1>3, InvSynced DEF SubsOf, HasRow
<1>5. ASSUME UpToDate(s) PROVE stripe[s] = "active"
  <2>1. PICK j \in DOMAIN rows : rows[j].sub = s /\ rows[j].status = stripe[s]
    BY <1>4, <1>5, InvSynced DEF SyncedInOrder
  <2> QED BY <1>1, <1>2, <1>3, <2>1 DEF BillingIInv, TypeOK
<1> QED BY <1>4, <1>5 DEF Pays

\* Seen from the subscriptions, the platform is Billing.
LEMMA PlatformBills == PlatformSpec => Spec
<1>1. PlatformInit => Init
  BY DEF PlatformInit
<1>2. [PlatformNext]_<<billing, agents>> => [Next]_vars
  BY DEF PlatformNext, CheckSubscription, billing, vars
<1> QED BY <1>1, <1>2, PTL DEF PlatformSpec, Spec

\* Seen from the agents, it is AgentLifecycle.
LEMMA PlatformDeploys == PlatformSpec => Agents!Spec
<1>1. PlatformInit => Agents!Init
  BY DEF PlatformInit, A!Init, Agents!Init, A!IdleCommand, Agents!IdleCommand, A!IdlePoll,
         Agents!IdlePoll
<1>2. [PlatformNext]_<<billing, agents>> => [Agents!Next]_(Agents!vars)
  <2> SUFFICES ASSUME PlatformNext, UNCHANGED Agents!vars => FALSE
               PROVE  Agents!Next
    BY DEF billing, agents, Agents!vars
  <2>1. CASE Next /\ UNCHANGED agents
    BY <2>1 DEF agents, Agents!vars
  <2>2. CASE A!Running /\ UNCHANGED billing
    <3>1. Agents!Running
      BY <2>2, Zenon
         DEF A!Running, Agents!Running,
             A!Ended, Agents!Ended,
             A!DeployStep, Agents!DeployStep, A!CreateMachine, Agents!CreateMachine,
             A!LookUpIp, Agents!LookUpIp, A!InsertRow, Agents!InsertRow, A!Settle,
             Agents!Settle, A!MachineExits, Agents!MachineExits, A!Receive, Agents!Receive,
             A!CallFly, Agents!CallFly, A!WriteRow, Agents!WriteRow, A!BeginPoll,
             Agents!BeginPoll, A!PollAnswered, Agents!PollAnswered, A!PollWrites,
             Agents!PollWrites, A!PollThrows, Agents!PollThrows, A!Restart, Agents!Restart,
             A!HasRow, Agents!HasRow, A!AtFly, Agents!AtFly, A!Alive, Agents!Alive,
             A!Commanded, Agents!Commanded, A!Written, Agents!Written, A!IdlePoll,
             Agents!IdlePoll, A!Kind, Agents!Kind
    <3> QED BY <3>1 DEF Agents!Next
  <2>3. ASSUME NEW d \in Deploy, CheckSubscription(d) PROVE Agents!Next
    <3>1. PICK active \in BOOLEAN : Agents!CheckSubscription(d, active)
      BY <2>3 DEF CheckSubscription, A!CheckSubscription, Agents!CheckSubscription,
                  hasActiveSubscription
    <3> QED BY <3>1 DEF Agents!Next
  <2> QED BY <2>1, <2>2, <2>3 DEF PlatformNext
<1> QED BY <1>1, <1>2, PTL DEF PlatformSpec, Agents!Spec

\* The types of both, along any behaviour of the platform.
THEOREM PlatformTyped == PlatformSpec => []PlatformTypeOK
<1>1. Agents!AgentAssumption
  BY PlatformAssumption DEF A!AgentAssumption, Agents!AgentAssumption
<1>2. Agents!Spec => []Agents!TypeOK
  BY <1>1, Agents!AgentsTyped
<1>3. Agents!TypeOK => A!TypeOK
  BY Zenon DEF A!TypeOK, Agents!TypeOK, A!MachineState, Agents!MachineState, A!RowState,
         Agents!RowState, A!CommandState, Agents!CommandState, A!PollState,
         Agents!PollState, A!Kind, Agents!Kind
<1>4. BillingIInv /\ A!TypeOK => PlatformTypeOK
  BY DEF BillingIInv, PlatformTypeOK
<1> QED BY <1>2, <1>3, <1>4, BillingInductive, PlatformBills, PlatformDeploys, PTL

\* What either part keeps by itself the composition keeps: its rows follow the events
\* and let paying users in, whatever is deployed, and no command, poll or delete leaves
\* a machine or brings back a row, whatever Stripe sends.
THEOREM PartsKept ==
  PlatformSpec => /\ [](SyncedInOrder /\ PayingUserAdmitted)
                  /\ []A!NoSilentOrphan
                  /\ A!DeletedStays
<1>1. Agents!AgentAssumption
  BY PlatformAssumption DEF A!AgentAssumption, Agents!AgentAssumption
<1>2. Agents!Spec => []Agents!NoSilentOrphan
  BY <1>1, Agents!OrphansExplained
<1>3. Agents!Spec => Agents!DeletedStays
  BY <1>1, Agents!DeletedForGood
<1>4. Agents!NoSilentOrphan => A!NoSilentOrphan
  BY DEF A!NoSilentOrphan, Agents!NoSilentOrphan, A!Alive, Agents!Alive
<1>5. [\A d \in Deploy : row[d] \in {"deleted", "gone"} => row'[d] = row[d]]_(Agents!vars)
        => [\A d \in Deploy : row[d] \in {"deleted", "gone"} => row'[d] = row[d]]_(A!vars)
  BY DEF A!vars, Agents!vars
<1>6. Agents!DeletedStays => A!DeletedStays
  BY <1>5, PTL DEF A!DeletedStays, Agents!DeletedStays
<1> QED BY <1>2, <1>3, <1>4, <1>6, PlatformBills, PlatformDeploys, RowsSynced, PayingUsersIn, PTL

\* A deployment that got past the question.
Let == {"create", "ip", "insert"}

\* Only the answer of requireActiveSubscription lets a deployment past it, and only a
\* deployment past it makes a machine.
LEMMA AgentSteps ==
  ASSUME A!TypeOK, A!Running
  PROVE  \A d \in Deploy : /\ deploy'[d] \in Let => deploy[d] \in Let
                           /\ machine'[d] # "none" => machine[d] # "none" \/ deploy[d] \in Let
<1> USE DEF A!TypeOK, Let
<1>1. ASSUME NEW d \in Deploy, A!DeployStep(d) \/ A!Settle(d) \/ A!MachineExits(d)
      PROVE  \A e \in Deploy :
               /\ deploy'[e] \in Let => deploy[e] \in Let
               /\ machine'[e] # "none" => machine[e] # "none" \/ deploy[e] \in Let
  BY <1>1 DEF A!DeployStep, A!CreateMachine, A!LookUpIp, A!InsertRow, A!Settle,
              A!MachineExits
<1>2. ASSUME NEW c \in Command, A!CallFly(c)
      PROVE  \A e \in Deploy :
               /\ deploy'[e] \in Let => deploy[e] \in Let
               /\ machine'[e] # "none" => machine[e] # "none" \/ deploy[e] \in Let
  <2>1. PICK state : \/ UNCHANGED machine
                     \/ /\ A!AtFly(command[c].agent)
                        /\ machine' = [machine EXCEPT ![command[c].agent] = state]
    BY <1>2 DEF A!CallFly
  <2> QED BY <1>2, <2>1 DEF A!CallFly, A!AtFly, A!Alive
<1>3. ASSUME A!Restart
      PROVE  \A e \in Deploy :
               /\ deploy'[e] \in Let => deploy[e] \in Let
               /\ machine'[e] # "none" => machine[e] # "none" \/ deploy[e] \in Let
  BY <1>3 DEF A!Restart
<1>4. ASSUME UNCHANGED <<deploy, machine>>
      PROVE  \A e \in Deploy :
               /\ deploy'[e] \in Let => deploy[e] \in Let
               /\ machine'[e] # "none" => machine[e] # "none" \/ deploy[e] \in Let
  BY <1>4
<1>5. ASSUME \/ \E c \in Command, kind \in A!Kind, d \in Deploy : A!Receive(c, kind, d)
             \/ \E c \in Command : A!WriteRow(c)
             \/ \E p \in Poll : \/ A!BeginPoll(p) \/ A!PollAnswered(p)
                                \/ A!PollWrites(p) \/ A!PollThrows(p)
      PROVE  UNCHANGED <<deploy, machine>>
  BY <1>5 DEF A!Receive, A!WriteRow, A!BeginPoll, A!PollAnswered, A!PollWrites,
              A!PollThrows
<1> QED BY <1>1, <1>2, <1>3, <1>4, <1>5 DEF A!Running

\* A subscription that was bought stays one.
LEMMA BoughtStays ==
  ASSUME BillingIInv, [Next]_vars
  PROVE  \A s \in Sub : stripe[s] # "none" => stripe'[s] # "none"
<1> USE DEF BillingIInv, TypeOK
<1>1. ASSUME NEW s \in Sub,
             \/ CheckoutPaid(s) \/ PaymentFails(s) \/ Cancelled(s)
             \/ \E end \in PeriodEnd : Paid(s, end)
      PROVE  \E status \in Status : stripe' = [stripe EXCEPT ![s] = status]
  BY <1>1 DEF CheckoutPaid, PaymentFails, Cancelled, Paid, Becomes, Status
<1>2. ASSUME Tick \/ UNCHANGED vars \/ \E s \in Sub : \E i \in DOMAIN log[s] : Deliver(s, i)
      PROVE  stripe' = stripe
  BY <1>2 DEF Tick, vars, Deliver
<1> QED BY <1>1, <1>2 DEF Next, Status

Bought(d) == \E s \in SubsOf(DeployUser[d]) : stripe[s] # "none"

\* Nobody is past the question without having bought a subscription.
LetBought == \A d \in Deploy : deploy[d] \in Let \/ machine[d] # "none" => Bought(d)

\* What a step of the platform is for a deployment that it lets past the question.
LEMMA LetIn ==
  ASSUME PlatformTypeOK, [PlatformNext]_<<billing, agents>>, NEW d \in Deploy,
         deploy[d] \notin Let, deploy'[d] \in Let
  PROVE  hasActiveSubscription(DeployUser[d]) /\ UNCHANGED billing
<1>1. ~(UNCHANGED deploy)
  OBVIOUS
<1>2. ~(A!Running /\ UNCHANGED billing)
  BY AgentSteps DEF PlatformTypeOK
<1>3. PICK e \in Deploy : CheckSubscription(e)
  BY <1>1, <1>2 DEF PlatformNext, agents
<1>4. e = d
  BY <1>3 DEF CheckSubscription, A!CheckSubscription, PlatformTypeOK, A!TypeOK
<1> QED BY <1>3, <1>4 DEF CheckSubscription, A!CheckSubscription, PlatformTypeOK, A!TypeOK,
                          Let

\* Every machine was made for a user who bought a subscription, for any number of
\* users, subscriptions and deployments (deploy.routes.ts:29, subscription.ts:14-50).
THEOREM MachinesBought == PlatformSpec => []MachinesWerePaidFor
<1>1. PlatformInit => LetBought
  BY DEF PlatformInit, A!Init, LetBought, Let
<1>2. BillingIInv /\ PlatformTypeOK /\ LetBought /\ [PlatformNext]_<<billing, agents>>
        => LetBought'
  <2> SUFFICES ASSUME BillingIInv, PlatformTypeOK, LetBought,
                      [PlatformNext]_<<billing, agents>>, NEW d \in Deploy,
                      deploy'[d] \in Let \/ machine'[d] # "none"
               PROVE  Bought(d)'
    BY DEF LetBought
  <2>1. Bought(d) => Bought(d)'
    <3>1. [Next]_vars
      BY DEF PlatformNext, CheckSubscription, billing, vars
    <3> QED BY <3>1, BoughtStays DEF Bought, SubsOf
  <2>2. CASE deploy[d] \in Let \/ machine[d] # "none"
    BY <2>1, <2>2 DEF LetBought
  <2>3. CASE deploy[d] \notin Let /\ deploy'[d] \in Let
    <3>1. DeployUser[d] \in User
      BY PlatformAssumption
    <3> QED BY <2>1, <2>3, <3>1, LetIn, LetInBought DEF Bought
  <2>4. CASE machine[d] = "none" /\ machine'[d] # "none" /\ deploy[d] \notin Let
    <3>1. ~(A!Running /\ UNCHANGED billing)
      BY <2>4, AgentSteps DEF PlatformTypeOK
    <3> QED BY <2>4, <3>1
            DEF PlatformNext, CheckSubscription, A!CheckSubscription, agents
  <2> QED BY <2>2, <2>3, <2>4
<1>3. LetBought => MachinesWerePaidFor
  BY DEF LetBought, Bought, MachinesWerePaidFor
<1>4. PlatformSpec => []BillingIInv
  BY BillingInductive, PlatformBills, PTL
<1> QED BY <1>1, <1>2, <1>3, <1>4, PlatformTyped, PTL DEF PlatformSpec

\* So every agent belongs to a user who at some time bought a subscription, whatever
\* became of the row or of the machine since.
THEOREM AgentsBought ==
  PlatformSpec => [](\A d \in Deploy :
                       row[d] # "absent" => \E s \in SubsOf(DeployUser[d]) : stripe[s] # "none")
<1>1. PlatformTypeOK /\ MachinesWerePaidFor
        => \A d \in Deploy :
             row[d] # "absent" => \E s \in SubsOf(DeployUser[d]) : stripe[s] # "none"
  BY DEF PlatformTypeOK, A!TypeOK, MachinesWerePaidFor
<1> QED BY <1>1, PlatformTyped, MachinesBought, PTL

\* Only a user with an active subscription is let through to Fly, once the events of
\* all the user's subscriptions have been applied in order.
THEOREM OrderedDeploysPay == PlatformSpec => OrderedDeploysPaid
<1>1. BillingIInv /\ PlatformTypeOK /\ [PlatformNext]_<<billing, agents>>
        => [\A d \in Deploy :
              Admitted(d) /\ (\A s \in SubsOf(DeployUser[d]) : UpToDate(s))
                => Pays(DeployUser[d])]_<<billing, agents>>
  <2> SUFFICES ASSUME BillingIInv, PlatformTypeOK, [PlatformNext]_<<billing, agents>>,
                      NEW d \in Deploy, Admitted(d),
                      \A s \in SubsOf(DeployUser[d]) : UpToDate(s)
               PROVE  Pays(DeployUser[d])
    OBVIOUS
  <2>1. deploy[d] \notin Let /\ deploy'[d] \in Let
    BY DEF Admitted, Let
  <2>2. DeployUser[d] \in User
    BY PlatformAssumption
  <2> QED BY <2>1, <2>2, LetIn, LetInBought
<1>2. PlatformSpec => []BillingIInv
  BY BillingInductive, PlatformBills, PTL
<1> QED BY <1>1, <1>2, PlatformTyped, PTL DEF PlatformSpec, OrderedDeploysPaid
=============================================================================
