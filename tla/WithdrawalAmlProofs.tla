------------------------ MODULE WithdrawalAmlProofs -------------------------
(***************************************************************************)
(* The AML monitor remembers what it approved, and never approves more     *)
(* withdrawals of a user within the velocity window, or a greater total    *)
(* within a period, than it may.                                           *)
(***************************************************************************)
EXTENDS WithdrawalProofs, WellFoundedInduction

\* Pruning keeps every record that is still within Retention
\* (aml-transaction.utils.ts:9-15).
LEMMA WithRecordKeeps ==
    ASSUME NEW h, NEW t, NEW x \in h \cup {t}, x.timestamp > now - Retention
    PROVE  x \in WithRecord(h, t)
BY DEF WithRecord, Since

Approval(r) == [req |-> r, kind |-> "check", amount |-> req[r].quote,
                timestamp |-> req[r].approvedAt]

Undecided == {"idle", "whitelist", "quote"}

\* What the two theorems rest on: histories are finite, a request is approved at
\* most once, and approvals are remembered.
AmlInv ==
    /\ \A u \in User : IsFiniteSet(amlHistory[u])
    /\ \A r \in Req : req[r].approved => req[r].pc \notin Undecided
    /\ ApprovalRemembered

\* Steps that approve nothing and record nothing keep AmlInv.
LEMMA AmlFrame ==
    ASSUME TypeOK, AmlInv, now <= now', now' \in Nat, UNCHANGED amlHistory,
           \A r \in Req : req'[r].approved =>
             /\ req[r].approved /\ req'[r].pc \notin Undecided
             /\ req'[r].agent = req[r].agent /\ req'[r].quote = req[r].quote
             /\ req'[r].approvedAt = req[r].approvedAt
    PROVE  AmlInv'
<1>1. now \in Nat /\ \A r \in Req : req[r] \in Request
  BY DEF TypeOK
<1>2. ASSUME NEW r \in Req, req'[r].approved, req'[r].approvedAt > now' - Retention
      PROVE  Approval(r)' \in amlHistory'[Owner[req'[r].agent]]
  <2>1. /\ req[r].approved
        /\ req'[r].agent = req[r].agent /\ req'[r].quote = req[r].quote
        /\ req'[r].approvedAt = req[r].approvedAt
    BY <1>2
  <2>2. req[r].approvedAt \in Nat
    BY <1>1 DEF Request
  <2>3. req[r].approvedAt > now - Retention
    BY <1>1, <1>2, <2>1, <2>2, NumberAssumption
  <2> QED BY <2>1, <2>3 DEF AmlInv, ApprovalRemembered, Approval
<1>3. ApprovalRemembered'
  BY <1>2 DEF ApprovalRemembered, Approval
<1> QED BY <1>3 DEF AmlInv

\* Recording one more transaction of user u keeps what is remembered.
LEMMA RecordKeeps ==
    ASSUME TypeOK, AmlInv, NEW u \in User, NEW t,
           amlHistory' = [amlHistory EXCEPT ![u] = WithRecord(@, t)], UNCHANGED now
    PROVE  /\ \A v \in User : IsFiniteSet(amlHistory'[v])
           /\ \A v \in User : \A x \in amlHistory[v] :
                x.timestamp > now - Retention => x \in amlHistory'[v]
<1>1. \A v \in User : amlHistory'[v] = IF v = u THEN WithRecord(amlHistory[u], t)
                                                ELSE amlHistory[v]
  BY DEF TypeOK
<1>2. IsFiniteSet(amlHistory[u] \cup {t})
  BY FS_AddElement DEF AmlInv
<1>3. IsFiniteSet(WithRecord(amlHistory[u], t))
  BY <1>2, WithRecordSubset, FS_Subset
<1>4. \A x \in amlHistory[u] : x.timestamp > now - Retention
                                 => x \in WithRecord(amlHistory[u], t)
  BY WithRecordKeeps
<1> QED BY <1>1, <1>3, <1>4 DEF AmlInv

\* Every step keeps AmlInv.
LEMMA AmlStep ==
    ASSUME TypeOK, TypeOK', AmlInv, [Next]_vars
    PROVE  AmlInv'
<1> USE SetAssumption, NumberAssumption
<1>a. now \in Nat /\ now' \in Nat /\ now <= now' /\ Started
      /\ req \in [Req -> Request] /\ \A r \in Req : req[r] \in Request
  BY Monotone DEF TypeOK
<1>1. ASSUME UNCHANGED amlHistory, UNCHANGED req
      PROVE  AmlInv'
  BY <1>1, <1>a, AmlFrame DEF AmlInv
<1>2. ASSUME NEW c \in Change, WriteChange(c)
      PROVE  AmlInv'
  BY <1>2, <1>1 DEF WriteChange
<1>3. ASSUME NEW c \in Change, NEW a \in Agent, NEW w \in Addr, ReadForChange(c, a, w)
      PROVE  AmlInv'
  BY <1>3, <1>1 DEF ReadForChange
<1>4. ASSUME NEW u \in User, NEW w \in Addr, UpdateProfile(u, w)
      PROVE  AmlInv'
  BY <1>4, <1>1 DEF UpdateProfile
<1>5. ASSUME NEW r \in Req, NEW a \in Agent, NEW body \in Addr \cup {NoAddr},
             Receive(r, a, body)
      PROVE  AmlInv'
  <2>1. /\ UNCHANGED amlHistory /\ ~req'[r].approved
        /\ \A q \in Req : q # r => req'[q] = req[q]
    BY <1>5, <1>a DEF Receive, NoRequest
  <2> QED BY <2>1, <1>a, AmlFrame DEF AmlInv
<1>6. ASSUME NEW r \in Req,
             CheckWhitelist(r) \/ RouteThrows(r) \/ PrepareTransfer(r) \/ Send(r)
               \/ TransferThrows(r)
      PROVE  AmlInv'
  <2> DEFINE checked == [req[r] EXCEPT !.pc = "quote", !.checkedAt = now]
             maxTransfer == balance[req[r].agent] - Fee - Rent
             ready   == [req[r] EXCEPT !.pc = "send", !.amount = maxTransfer]
             going   == [req[r] EXCEPT !.pc = "confirm"]
             over    == [req[r] EXCEPT !.pc = "done"]
  <2>1. UNCHANGED amlHistory
    BY <1>6 DEF CheckWhitelist, RouteThrows, PrepareTransfer, Send, TransferThrows
  <2>2. \/ req[r].pc = "whitelist" /\ req' = [req EXCEPT ![r] = checked]
        \/ req' = [req EXCEPT ![r] = ready]
        \/ req' = [req EXCEPT ![r] = going]
        \/ req' = [req EXCEPT ![r] = over]
    BY <1>6 DEF CheckWhitelist, RouteThrows, PrepareTransfer, Send, TransferThrows
  <2>3. \A q \in {checked, ready, going, over} :
          /\ q.approved = req[r].approved /\ q.agent = req[r].agent
          /\ q.quote = req[r].quote /\ q.approvedAt = req[r].approvedAt
    BY <1>a DEF Request
  <2>4. \A q \in {ready, going, over} : q.pc \notin Undecided
    BY <1>a DEF Request, Undecided
  <2> HIDE DEF checked, ready, going, over
  <2>5. req[r].pc = "whitelist" => ~req[r].approved
    BY DEF AmlInv, Undecided
  <2>6. ASSUME NEW q \in Req, req'[q].approved
        PROVE  /\ req[q].approved /\ req'[q].pc \notin Undecided
               /\ req'[q].agent = req[q].agent /\ req'[q].quote = req[q].quote
               /\ req'[q].approvedAt = req[q].approvedAt
    <3>1. CASE q # r
      BY <2>2, <2>6, <3>1, <1>a DEF AmlInv
    <3>2. CASE q = r
      BY <2>2, <2>3, <2>4, <2>5, <2>6, <3>2, <1>a
    <3> QED BY <3>1, <3>2
  <2> QED BY <2>1, <2>6, <1>a, AmlFrame
<1>7. ASSUME NEW r \in Req, QuoteAndCheck(r)
      PROVE  AmlInv'
  <2> DEFINE u      == Owner[req[r].agent]
             amount == Max0(balance[req[r].agent] - QuoteMargin)
             no     == [req[r] EXCEPT !.pc = "done", !.quote = amount]
             new    == [req[r] EXCEPT
                          !.pc = IF req[r].agent \in HasKey THEN "prepare" ELSE "done",
                          !.quote = amount, !.approved = TRUE, !.approvedAt = now]
  <2>1. ~req[r].approved /\ req[r].pc = "quote"
    BY <1>7 DEF AmlInv, Undecided, QuoteAndCheck
  <2>2. no.approved = req[r].approved
    BY <1>a DEF Request
  <2>3. /\ new.agent = req[r].agent /\ new.quote = amount
        /\ new.approvedAt = now /\ new.pc \notin Undecided
    BY <1>a DEF Request, Undecided
  <2>4. CASE ~(limitAllows(amount) /\ amlAllows(amlHistory[u], amount))
    <3>1. UNCHANGED amlHistory
      BY <1>7, <2>4 DEF QuoteAndCheck
    <3>2. req' = [req EXCEPT ![r] = no]
      BY <1>7, <2>4 DEF QuoteAndCheck
    <3> HIDE DEF no
    <3>3. ~req'[r].approved /\ \A q \in Req : q # r => req'[q] = req[q]
      BY <3>2, <2>1, <2>2, <1>a
    <3> QED BY <3>1, <3>3, <1>a, AmlFrame DEF AmlInv
  <2>5. CASE limitAllows(amount) /\ amlAllows(amlHistory[u], amount)
    <3> DEFINE rec == CheckRecord(r, amount)
    <3>1. u \in User
      BY <2>1, <1>a DEF Started
    <3>2. amlHistory' = [amlHistory EXCEPT ![u] = WithRecord(@, rec)]
      BY <1>7, <2>5 DEF QuoteAndCheck
    <3>3. req' = [req EXCEPT ![r] = new] /\ UNCHANGED now
      BY <1>7, <2>5 DEF QuoteAndCheck
    <3>4. /\ rec.timestamp = now
          /\ rec = [req |-> r, kind |-> "check", amount |-> amount, timestamp |-> now]
      BY DEF CheckRecord
    <3> HIDE DEF new, rec, amount
    <3>5. req'[r] = new /\ \A q \in Req : q # r => req'[q] = req[q]
      BY <3>3, <1>a
    <3>6. /\ \A v \in User : IsFiniteSet(amlHistory'[v])
          /\ \A v \in User : \A x \in amlHistory[v] :
               x.timestamp > now - Retention => x \in amlHistory'[v]
      BY <3>1, <3>2, <3>3, RecordKeeps
    <3>7. now > now - Retention => rec \in amlHistory'[u]
      BY <3>1, <3>2, <3>4, WithRecordKeeps DEF TypeOK
    <3>8. ASSUME NEW q \in Req, req'[q].approved,
                 req'[q].approvedAt > now - Retention
          PROVE  Approval(q)' \in amlHistory'[Owner[req'[q].agent]]
      <4>1. CASE q = r
        BY <3>4, <3>5, <3>7, <3>8, <2>3, <4>1 DEF Approval
      <4>2. CASE q # r
        <5>1. /\ req'[q] = req[q] /\ Owner[req[q].agent] \in User
              /\ Approval(q) \in amlHistory[Owner[req[q].agent]]
          BY <3>5, <3>8, <4>2, <1>a DEF AmlInv, ApprovalRemembered, Approval,
             Undecided, Started
        <5>2. Approval(q).timestamp = req[q].approvedAt /\ Approval(q)' = Approval(q)
          BY <5>1 DEF Approval
        <5> QED BY <5>1, <5>2, <3>6, <3>8
      <4> QED BY <4>1, <4>2
    <3>9. ApprovalRemembered'
      BY <3>3, <3>8 DEF ApprovalRemembered, Approval
    <3>10. \A q \in Req : req'[q].approved => req'[q].pc \notin Undecided
      BY <3>5, <2>3 DEF AmlInv
    <3> QED BY <3>6, <3>9, <3>10 DEF AmlInv
  <2> QED BY <2>4, <2>5
<1>8. ASSUME NEW r \in Req, Confirm(r)
      PROVE  AmlInv'
  <2> DEFINE u   == Owner[req[r].agent]
             t   == CompleteRecord(r, req[r].amount)
             new == [req[r] EXCEPT !.pc = "done", !.success = TRUE]
  <2>1. u \in User
    BY <1>8, <1>a DEF Confirm, Started
  <2>2. /\ req' = [req EXCEPT ![r] = new] /\ UNCHANGED now
        /\ amlHistory' = [amlHistory EXCEPT ![u] = WithRecord(@, t)]
    BY <1>8 DEF Confirm
  <2>3. /\ new.pc \notin Undecided /\ new.agent = req[r].agent
        /\ new.approved = req[r].approved /\ new.quote = req[r].quote
        /\ new.approvedAt = req[r].approvedAt
    BY <1>a DEF Request, Undecided
  <2> HIDE DEF new, t
  <2>4. \A q \in Req : /\ req'[q].agent = req[q].agent
                       /\ req'[q].approved = req[q].approved
                       /\ req'[q].quote = req[q].quote
                       /\ req'[q].approvedAt = req[q].approvedAt
                       /\ req'[q].pc \in Undecided => req'[q].pc = req[q].pc
    BY <2>2, <2>3, <1>a
  <2>5. /\ \A v \in User : IsFiniteSet(amlHistory'[v])
        /\ \A v \in User : \A x \in amlHistory[v] :
             x.timestamp > now - Retention => x \in amlHistory'[v]
    BY <2>1, <2>2, RecordKeeps
  <2>6. ASSUME NEW q \in Req, req'[q].approved, req'[q].approvedAt > now' - Retention
        PROVE  Approval(q)' \in amlHistory'[Owner[req'[q].agent]]
    <3>1. /\ Owner[req[q].agent] \in User
          /\ Approval(q) \in amlHistory[Owner[req[q].agent]]
      BY <2>2, <2>4, <2>6, <1>a DEF AmlInv, ApprovalRemembered, Approval, Undecided,
         Started
    <3>2. Approval(q).timestamp = req[q].approvedAt /\ Approval(q)' = Approval(q)
      BY <2>4 DEF Approval
    <3> QED BY <3>1, <3>2, <2>2, <2>4, <2>5, <2>6
  <2>7. ApprovalRemembered'
    BY <2>6 DEF ApprovalRemembered, Approval
  <2>8. \A q \in Req : req'[q].approved => req'[q].pc \notin Undecided
    BY <2>4 DEF AmlInv
  <2> QED BY <2>5, <2>7, <2>8 DEF AmlInv
<1>9. ASSUME NEW r \in Req, Land(r) \/ Expire(r)
      PROVE  AmlInv'
  BY <1>9, <1>1 DEF Land, Expire
<1>10. ASSUME NEW a \in Agent, NEW n \in DepositAmount, Deposit(a, n)
       PROVE  AmlInv'
  BY <1>10, <1>1 DEF Deposit
<1>11. CASE Tick
  BY <1>11, <1>1 DEF Tick
<1>12. CASE Restart
  <2>1. amlHistory' = [u \in User |-> {}]
    BY <1>12 DEF Restart
  <2>2. \A u \in User : IsFiniteSet(amlHistory'[u])
    BY <2>1, FS_EmptySet
  <2>3. \A r \in Req : ~req'[r].approved
    BY <1>12, <1>a DEF Restart, Request
  <2> QED BY <2>2, <2>3 DEF AmlInv, ApprovalRemembered
<1>13. CASE UNCHANGED vars
  BY <1>13, <1>1 DEF vars
<1> QED
  BY <1>2, <1>3, <1>4, <1>5, <1>6, <1>7, <1>8, <1>9, <1>10, <1>11, <1>12, <1>13
  DEF Next

\* Whatever steps interleave, every state keeps AmlInv.
THEOREM AmlInvariant == Spec => []AmlInv
<1>1. Init => AmlInv
  <2> SUFFICES ASSUME Init PROVE AmlInv
    OBVIOUS
  <2>1. \A u \in User : amlHistory[u] = {}
    BY DEF Init
  <2>2. \A r \in Req : ~req[r].approved
    BY DEF Init, NoRequest
  <2> QED BY <2>1, <2>2, FS_EmptySet DEF AmlInv, ApprovalRemembered
<1>2. TypeOK /\ TypeOK' /\ AmlInv /\ [Next]_vars => AmlInv'
  BY AmlStep
<1> QED BY <1>1, <1>2, TypeCorrect, PTL DEF Spec

\* Every approval that a limit can still count is in the history of its user.
THEOREM ApprovalsRemembered == Spec => []ApprovalRemembered
<1>1. AmlInv => ApprovalRemembered
  BY DEF AmlInv
<1> QED BY <1>1, AmlInvariant, PTL
-----------------------------------------------------------------------------
(* The velocity limit.                                                     *)

\* The approvals of a user within a span no longer than Retention are finitely
\* many, and no more than the records of the user's history within that span.
LEMMA ApprovedCounted ==
    ASSUME TypeOK, AmlInv, NEW u \in User, NEW span \in Nat, span <= Retention
    PROVE  LET approved == ApprovedSince(u, span)
               recorded == Since(amlHistory[u], span)
           IN  /\ IsFiniteSet(approved) /\ IsFiniteSet(recorded)
               /\ Cardinality(approved) <= Cardinality(recorded)
<1> DEFINE approved == ApprovedSince(u, span)
           recorded == Since(amlHistory[u], span)
           f        == [r \in approved |-> Approval(r)]
<1>a. now \in Nat /\ \A r \in Req : req[r].approvedAt \in Nat
  BY DEF TypeOK, Request
<1>1. IsFiniteSet(recorded)
  BY FS_Subset DEF AmlInv, Since
<1>2. ASSUME NEW r \in approved PROVE Approval(r) \in recorded
  <2>1. /\ r \in Req /\ req[r].approved /\ Owner[req[r].agent] = u
        /\ req[r].approvedAt > now - span
    BY DEF ApprovedSince
  <2>2. req[r].approvedAt > now - Retention
    BY <2>1, <1>a, NumberAssumption
  <2>3. Approval(r) \in amlHistory[u]
    BY <2>1, <2>2 DEF AmlInv, ApprovalRemembered, Approval
  <2> QED BY <2>1, <2>3 DEF Since, Approval
<1>3. \A q, r \in approved : Approval(q) = Approval(r) => q = r
  BY DEF Approval
<1>4. f \in Injection(approved, recorded)
  BY <1>2, <1>3 DEF Injection, IsInjective
<1> QED BY <1>1, <1>4, FS_Injection

\* A step that approves only requests approved before keeps the cap.
LEMMA VelocityFrame ==
    ASSUME TypeOK, AmlInv, AmlVelocityCap, now <= now', now' \in Nat,
           \A r \in Req : req'[r].approved =>
             /\ req[r].approved /\ req'[r].agent = req[r].agent
             /\ req'[r].approvedAt = req[r].approvedAt
    PROVE  AmlVelocityCap'
<1> SUFFICES ASSUME NEW u \in User
             PROVE  Cardinality(ApprovedSince(u, VelocitySpan)') <= MaxVelocity
  BY DEF AmlVelocityCap
<1>a. now \in Nat /\ \A r \in Req : req[r].approvedAt \in Nat
  BY DEF TypeOK, Request
<1>1. ApprovedSince(u, VelocitySpan)' \subseteq ApprovedSince(u, VelocitySpan)
  BY <1>a, NumberAssumption DEF ApprovedSince
<1>2. IsFiniteSet(ApprovedSince(u, VelocitySpan))
  BY ApprovedCounted, NumberAssumption, RetentionAssumption
<1>3. /\ Cardinality(ApprovedSince(u, VelocitySpan)')
           <= Cardinality(ApprovedSince(u, VelocitySpan))
      /\ Cardinality(ApprovedSince(u, VelocitySpan)) <= MaxVelocity
      /\ Cardinality(ApprovedSince(u, VelocitySpan)) \in Nat
      /\ Cardinality(ApprovedSince(u, VelocitySpan)') \in Nat
  BY <1>1, <1>2, FS_Subset, FS_CardinalityType DEF AmlVelocityCap
<1> QED BY <1>3, NumberAssumption

\* Only QuoteAndCheck approves: after any other step what is approved was approved
\* before, for the same agent, amount and time.
LEMMA ApprovedBefore ==
    ASSUME TypeOK, [Next]_vars, \A r \in Req : ~QuoteAndCheck(r)
    PROVE  \A r \in Req : req'[r].approved =>
             /\ req[r].approved /\ req'[r].agent = req[r].agent
             /\ req'[r].quote = req[r].quote
             /\ req'[r].approvedAt = req[r].approvedAt
<1> DEFINE Kept == \A r \in Req : req'[r].approved =>
                     /\ req[r].approved /\ req'[r].agent = req[r].agent
                     /\ req'[r].quote = req[r].quote
                     /\ req'[r].approvedAt = req[r].approvedAt
<1>a. req \in [Req -> Request] /\ \A r \in Req : req[r] \in Request
  BY DEF TypeOK
<1>1. ASSUME UNCHANGED req PROVE Kept
  BY <1>1
<1>2. ASSUME NEW c \in Change,
             WriteChange(c) \/ \E a \in Agent, w \in Addr : ReadForChange(c, a, w)
      PROVE  Kept
  BY <1>2, <1>1 DEF WriteChange, ReadForChange
<1>3. ASSUME NEW u \in User, NEW w \in Addr, UpdateProfile(u, w)
      PROVE  Kept
  BY <1>3, <1>1 DEF UpdateProfile
<1>4. ASSUME NEW r \in Req, NEW a \in Agent, NEW body \in Addr \cup {NoAddr},
             Receive(r, a, body)
      PROVE  Kept
  <2>1. ~req'[r].approved /\ \A q \in Req : q # r => req'[q] = req[q]
    BY <1>4, <1>a DEF Receive, NoRequest
  <2> QED BY <2>1
<1>5. ASSUME NEW r \in Req,
             CheckWhitelist(r) \/ RouteThrows(r) \/ PrepareTransfer(r) \/ Send(r)
               \/ TransferThrows(r) \/ Confirm(r)
      PROVE  Kept
  <2> DEFINE checked == [req[r] EXCEPT !.pc = "quote", !.checkedAt = now]
             maxTransfer == balance[req[r].agent] - Fee - Rent
             ready   == [req[r] EXCEPT !.pc = "send", !.amount = maxTransfer]
             going   == [req[r] EXCEPT !.pc = "confirm"]
             over    == [req[r] EXCEPT !.pc = "done"]
             paid    == [req[r] EXCEPT !.pc = "done", !.success = TRUE]
  <2>1. \E q \in {checked, ready, going, over, paid} : req' = [req EXCEPT ![r] = q]
    BY <1>5 DEF CheckWhitelist, RouteThrows, PrepareTransfer, Send, TransferThrows,
       Confirm
  <2>2. \A q \in {checked, ready, going, over, paid} :
          /\ q.approved = req[r].approved /\ q.agent = req[r].agent
          /\ q.quote = req[r].quote /\ q.approvedAt = req[r].approvedAt
    BY <1>a DEF Request
  <2> HIDE DEF checked, ready, going, over, paid
  <2>3. \A q \in Req : /\ req'[q].approved = req[q].approved
                       /\ req'[q].agent = req[q].agent
                       /\ req'[q].quote = req[q].quote
                       /\ req'[q].approvedAt = req[q].approvedAt
    BY <2>1, <2>2, <1>a
  <2> QED BY <2>3
<1>6. ASSUME NEW r \in Req, Land(r) \/ Expire(r)
      PROVE  Kept
  BY <1>6, <1>1 DEF Land, Expire
<1>7. ASSUME NEW a \in Agent, NEW n \in DepositAmount, Deposit(a, n)
       PROVE  Kept
  BY <1>7, <1>1 DEF Deposit
<1>8. CASE Tick \/ UNCHANGED vars
  BY <1>8, <1>1 DEF Tick, vars
<1>9. CASE Restart
  <2>1. \A r \in Req : ~req'[r].approved
    BY <1>9, <1>a DEF Restart, Request
  <2> QED BY <2>1
<1> QED
  BY <1>2, <1>3, <1>4, <1>5, <1>6, <1>7, <1>8, <1>9 DEF Next

\* Every step keeps the velocity limit.
LEMMA VelocityStep ==
    ASSUME TypeOK, TypeOK', AmlInv, AmlVelocityCap, [Next]_vars
    PROVE  AmlVelocityCap'
<1> USE SetAssumption, NumberAssumption
<1>a. now \in Nat /\ now' \in Nat /\ now <= now' /\ Started
      /\ req \in [Req -> Request] /\ \A r \in Req : req[r] \in Request
  BY Monotone DEF TypeOK
<1>1. ASSUME NEW r \in Req, QuoteAndCheck(r)
      PROVE  AmlVelocityCap'
  <2> DEFINE u      == Owner[req[r].agent]
             amount == Max0(balance[req[r].agent] - QuoteMargin)
             no     == [req[r] EXCEPT !.pc = "done", !.quote = amount]
             new    == [req[r] EXCEPT
                          !.pc = IF req[r].agent \in HasKey THEN "prepare" ELSE "done",
                          !.quote = amount, !.approved = TRUE, !.approvedAt = now]
  <2>1. CASE ~(limitAllows(amount) /\ amlAllows(amlHistory[u], amount))
    <3>1. req' = [req EXCEPT ![r] = no]
      BY <1>1, <2>1 DEF QuoteAndCheck
    <3>2. /\ no.approved = req[r].approved /\ no.agent = req[r].agent
          /\ no.approvedAt = req[r].approvedAt
      BY <1>a DEF Request
    <3> HIDE DEF no
    <3>3. \A q \in Req : /\ req'[q].approved = req[q].approved
                         /\ req'[q].agent = req[q].agent
                         /\ req'[q].approvedAt = req[q].approvedAt
      BY <3>1, <3>2, <1>a
    <3> QED BY <3>3, <1>a, VelocityFrame
  <2>2. CASE limitAllows(amount) /\ amlAllows(amlHistory[u], amount)
    <3> SUFFICES ASSUME NEW v \in User
                 PROVE  Cardinality(ApprovedSince(v, VelocitySpan)') <= MaxVelocity
      BY DEF AmlVelocityCap
    <3> DEFINE before == ApprovedSince(v, VelocitySpan)
               after  == ApprovedSince(v, VelocitySpan)'
    <3>1. req' = [req EXCEPT ![r] = new] /\ UNCHANGED now
      BY <1>1, <2>2 DEF QuoteAndCheck
    <3>2. new.agent = req[r].agent
      BY <1>a DEF Request
    <3> HIDE DEF new, no
    <3>3. /\ \A q \in Req : q # r => req'[q] = req[q]
          /\ req'[r].agent = req[r].agent
      BY <3>1, <3>2, <1>a
    <3>4. after \subseteq before \cup {r}
      BY <3>1, <3>3 DEF ApprovedSince
    <3>5. v # u => after \subseteq before
      BY <3>1, <3>3 DEF ApprovedSince
    <3>6. /\ IsFiniteSet(before) /\ IsFiniteSet(Since(amlHistory[v], VelocitySpan))
          /\ Cardinality(before) <= Cardinality(Since(amlHistory[v], VelocitySpan))
      BY ApprovedCounted, RetentionAssumption
    <3>7. /\ Cardinality(before) \in Nat /\ Cardinality(before) <= MaxVelocity
          /\ Cardinality(Since(amlHistory[v], VelocitySpan)) \in Nat
      BY <3>6, FS_CardinalityType DEF AmlVelocityCap
    <3>8. CASE v # u
      <4>1. Cardinality(after) <= Cardinality(before) /\ IsFiniteSet(after)
        BY <3>5, <3>6, <3>8, FS_Subset
      <4>2. Cardinality(after) \in Nat
        BY <4>1, FS_CardinalityType
      <4> QED BY <4>1, <4>2, <3>7
    <3>9. CASE v = u
      <4>1. Cardinality(Since(amlHistory[v], VelocitySpan)) < MaxVelocity
        BY <2>2, <3>9 DEF amlAllows
      <4> HIDE DEF before, after
      <4>2. /\ IsFiniteSet(before \cup {r})
            /\ Cardinality(before \cup {r}) <= Cardinality(before) + 1
        <5>1. /\ IsFiniteSet(before \cup {r})
              /\ \/ Cardinality(before \cup {r}) = Cardinality(before)
                 \/ Cardinality(before \cup {r}) = Cardinality(before) + 1
          BY <3>6, FS_AddElement, Zenon
        <5> QED BY <5>1, <3>7
      <4>3. Cardinality(after) <= Cardinality(before \cup {r}) /\ IsFiniteSet(after)
        BY <3>4, <4>2, FS_Subset
      <4>4. Cardinality(after) \in Nat /\ Cardinality(before \cup {r}) \in Nat
        BY <4>2, <4>3, FS_CardinalityType
      <4> QED BY <4>1, <4>2, <4>3, <4>4, <3>6, <3>7 DEF after
    <3> QED BY <3>8, <3>9
  <2> QED BY <2>1, <2>2
<1>2. CASE \A r \in Req : ~QuoteAndCheck(r)
  BY <1>2, <1>a, ApprovedBefore, VelocityFrame
<1> QED BY <1>1, <1>2

\* At most maxTransactionsPerWindow withdrawals of a user, over all its agents and
\* however many requests run at once, are approved within the velocity window
\* (aml-monitoring.service.ts:70-76).
THEOREM VelocityCapped == Spec => []AmlVelocityCap
<1>1. Init => AmlVelocityCap
  <2> SUFFICES ASSUME Init, NEW u \in User
               PROVE  Cardinality(ApprovedSince(u, VelocitySpan)) <= MaxVelocity
    BY DEF AmlVelocityCap
  <2>1. ApprovedSince(u, VelocitySpan) = {}
    BY DEF Init, NoRequest, ApprovedSince
  <2> QED BY <2>1, FS_EmptySet, NumberAssumption
<1>2. TypeOK /\ TypeOK' /\ AmlInv /\ AmlVelocityCap /\ [Next]_vars => AmlVelocityCap'
  BY VelocityStep
<1> QED BY <1>1, <1>2, TypeCorrect, AmlInvariant, PTL DEF Spec
-----------------------------------------------------------------------------
(* Sums.  A total is counted in units, so that what is known of finite      *)
(* sets and their cardinality holds for it.                                *)

\* Induction over the subsets of a finite set, through a least counterexample.
LEMMA LeastSubset ==
    ASSUME NEW S, IsFiniteSet(S), NEW bad \in SUBSET SUBSET S, bad # {}
    PROVE  \E T \in bad : \A U \in bad : U \subseteq T => U = T
<1>1. IsWellFoundedOn(StrictSubsetOrdering(S), SUBSET S)
  BY FS_StrictSubsetOrderingWellFounded, FS_FiniteSubsetsOfFinite, Zenon
<1>2. PICK T \in bad : \A U \in bad : <<U, T>> \notin StrictSubsetOrdering(S)
  BY <1>1, WFMin
<1>3. \A U \in bad : U \subseteq T => U = T
  BY <1>2 DEF StrictSubsetOrdering
<1> QED BY <1>3

\* The units that the amounts g of the members of T are made of: their number is
\* the sum of the amounts.
Units(g, T) == UNION {{x} \X (1 .. g[x]) : x \in T}

\* One member has as many units as its amount.
LEMMA UnitsOfOne ==
    ASSUME NEW x, NEW n \in Nat
    PROVE  IsFiniteSet({x} \X (1 .. n)) /\ Cardinality({x} \X (1 .. n)) = n
<1>1. IsFiniteSet({x}) /\ Cardinality({x}) = 1
  BY FS_Singleton
<1>2. IsFiniteSet(1 .. n) /\ Cardinality(1 .. n) = n
  BY FS_Interval
<1>3. /\ IsFiniteSet({x} \X (1 .. n))
      /\ Cardinality({x} \X (1 .. n)) = Cardinality({x}) * Cardinality(1 .. n)
  BY <1>1, <1>2, FS_Product
<1> QED BY <1>1, <1>2, <1>3

\* One member more adds its units.
LEMMA UnitsAdd ==
    ASSUME NEW S, NEW g, \A x \in S : g[x] \in Nat, NEW T \in SUBSET S, NEW x \in T,
           IsFiniteSet(Units(g, T \ {x}))
    PROVE  /\ IsFiniteSet(Units(g, T))
           /\ Cardinality(Units(g, T)) = g[x] + Cardinality(Units(g, T \ {x}))
<1> DEFINE new == {x} \X (1 .. g[x])
           old == Units(g, T \ {x})
<1>1. Units(g, T) = new \cup old
  BY DEF Units
<1>2. new \cap old = {}
  BY DEF Units
<1>3. g[x] \in Nat
  OBVIOUS
<1>4. IsFiniteSet(new) /\ Cardinality(new) = g[x]
  BY <1>3, UnitsOfOne
<1>5. IsFiniteSet(old)
  OBVIOUS
<1> HIDE DEF new, old
<1>6. /\ IsFiniteSet(new \cup old)
      /\ Cardinality(new \cup old)
           = Cardinality(new) + Cardinality(old) - Cardinality(new \cap old)
  BY <1>4, <1>5, FS_Union
<1>7. Cardinality(old) \in Nat
  BY <1>5, FS_CardinalityType
<1>8. Cardinality(new \cap old) = 0
  BY <1>2, FS_EmptySet
<1>9. Cardinality(Units(g, T)) = g[x] + Cardinality(old)
  BY <1>1, <1>3, <1>4, <1>6, <1>7, <1>8
<1> QED BY <1>1, <1>6, <1>9 DEF old

\* Finitely many members have finitely many units.
LEMMA UnitsFinite ==
    ASSUME NEW S, IsFiniteSet(S), NEW g, \A x \in S : g[x] \in Nat
    PROVE  \A T \in SUBSET S : IsFiniteSet(Units(g, T))
<1> DEFINE bad == {T \in SUBSET S : ~IsFiniteSet(Units(g, T))}
<1>1. SUFFICES ASSUME bad # {} PROVE FALSE
  OBVIOUS
<1>2. PICK T \in bad : \A U \in bad : U \subseteq T => U = T
  <2> HIDE DEF bad
  <2>1. bad \in SUBSET SUBSET S
    BY DEF bad
  <2> QED BY <1>1, <2>1, LeastSubset
<1>3. T # {}
  BY <1>2, FS_EmptySet DEF Units
<1>4. PICK x \in T : TRUE
  BY <1>3
<1>5. T \ {x} \in SUBSET S /\ T \ {x} # T
  BY <1>2, <1>4
<1>6. IsFiniteSet(Units(g, T \ {x}))
  BY <1>2, <1>5
<1> QED BY <1>2, <1>4, <1>6, UnitsAdd

\* F sums up g over the subsets of S, one chosen element at a time.
Sums(F, g, S) ==
    F = [T \in SUBSET S |-> IF T = {} THEN 0
                            ELSE g[CHOOSE y \in T : TRUE]
                                   + F[T \ {CHOOSE y \in T : TRUE}]]

\* Whatever adds up counts units, in whichever order members are chosen.
LEMMA SumsCount ==
    ASSUME NEW S, IsFiniteSet(S), NEW g, \A x \in S : g[x] \in Nat, NEW F, Sums(F, g, S)
    PROVE  \A T \in SUBSET S : F[T] = Cardinality(Units(g, T))
<1> DEFINE bad == {T \in SUBSET S : F[T] # Cardinality(Units(g, T))}
<1>1. SUFFICES ASSUME bad # {} PROVE FALSE
  OBVIOUS
<1>2. PICK T \in bad : \A U \in bad : U \subseteq T => U = T
  <2> HIDE DEF bad
  <2>1. bad \in SUBSET SUBSET S
    BY DEF bad
  <2> QED BY <1>1, <2>1, LeastSubset
<1>3. T # {}
  <2>1. ASSUME T = {} PROVE FALSE
    <3>1. Units(g, T) = {}
      BY <2>1 DEF Units
    <3>2. F[T] = 0
      BY <2>1 DEF Sums
    <3> QED BY <3>1, <3>2, <1>2, FS_EmptySet
  <2> QED BY <2>1
<1> DEFINE x == CHOOSE y \in T : TRUE
<1>4. x \in T
  BY <1>3
<1>5. F[T] = g[x] + F[T \ {x}]
  BY <1>2, <1>3 DEF Sums
<1> HIDE DEF x
<1>6. T \ {x} \in SUBSET S /\ T \ {x} # T
  BY <1>2, <1>4
<1>7. F[T \ {x}] = Cardinality(Units(g, T \ {x}))
  BY <1>2, <1>6
<1>8. Cardinality(Units(g, T)) = g[x] + Cardinality(Units(g, T \ {x}))
  BY <1>2, <1>4, <1>6, UnitsFinite, UnitsAdd
<1> QED BY <1>2, <1>5, <1>7, <1>8

\* Counting units adds up.
LEMMA SumsExist ==
    ASSUME NEW S, IsFiniteSet(S), NEW g, \A x \in S : g[x] \in Nat
    PROVE  \E F : Sums(F, g, S)
<1> DEFINE F == [T \in SUBSET S |-> Cardinality(Units(g, T))]
<1>1. ASSUME NEW T \in SUBSET S
      PROVE  F[T] = IF T = {} THEN 0
                    ELSE g[CHOOSE y \in T : TRUE] + F[T \ {CHOOSE y \in T : TRUE}]
  <2>1. CASE T = {}
    <3>1. Units(g, T) = {}
      BY <2>1 DEF Units
    <3> QED BY <2>1, <3>1, FS_EmptySet
  <2>2. CASE T # {}
    <3> DEFINE x == CHOOSE y \in T : TRUE
    <3>1. x \in T
      BY <2>2
    <3> HIDE DEF x
    <3>2. T \ {x} \in SUBSET S
      OBVIOUS
    <3>3. Cardinality(Units(g, T)) = g[x] + Cardinality(Units(g, T \ {x}))
      BY <3>1, <3>2, UnitsFinite, UnitsAdd
    <3> QED BY <2>2, <3>2, <3>3 DEF x
  <2> QED BY <2>1, <2>2
<1>2. Sums(F, g, S)
  BY <1>1 DEF Sums
<1> HIDE DEF F
<1> QED BY <1>2

\* A part of the members, with amounts that are the same, has a part of the units.
LEMMA UnitsSubset ==
    ASSUME NEW S, NEW T \in SUBSET S, NEW g, NEW h, \A x \in T : g[x] = h[x]
    PROVE  Units(g, T) \subseteq Units(h, S)
BY DEF Units

\* Members that are mapped one to one to others of the same amount have no more
\* units than those.
LEMMA UnitsInjection ==
    ASSUME NEW S, NEW T, NEW f \in Injection(S, T), NEW g, NEW h,
           \A x \in S : g[x] = h[f[x]], IsFiniteSet(Units(h, T))
    PROVE  /\ IsFiniteSet(Units(g, S))
           /\ Cardinality(Units(g, S)) <= Cardinality(Units(h, T))
<1> DEFINE m == [p \in Units(g, S) |-> <<f[p[1]], p[2]>>]
<1>1. /\ \A x \in S : f[x] \in T
      /\ \A x, y \in S : f[x] = f[y] => x = y
  BY DEF Injection, IsInjective
<1>2. \A p \in Units(g, S) : p = <<p[1], p[2]>> /\ p[1] \in S /\ p[2] \in 1 .. g[p[1]]
  BY DEF Units
<1>3. ASSUME NEW p \in Units(g, S) PROVE m[p] \in Units(h, T)
  <2>1. f[p[1]] \in T /\ p[2] \in 1 .. h[f[p[1]]]
    BY <1>1, <1>2
  <2> QED BY <2>1 DEF Units
<1>4. ASSUME NEW p \in Units(g, S), NEW q \in Units(g, S), m[p] = m[q] PROVE p = q
  BY <1>1, <1>2, <1>4
<1>5. m \in Injection(Units(g, S), Units(h, T))
  <2> HIDE DEF m
  <2>1. m \in [Units(g, S) -> Units(h, T)]
    BY <1>3 DEF m
  <2> QED BY <2>1, <1>4 DEF Injection, IsInjective
<1> HIDE DEF m
<1> QED BY <1>5, FS_Injection

\* The total of the quotes of finitely many requests is the number of their units.
LEMMA QuoteTotal ==
    ASSUME NEW q \in [Req -> Request], NEW A \in SUBSET Req, IsFiniteSet(A)
    PROVE  MapThenSumSet(LAMBDA r : q[r].quote, A)
             = Cardinality(Units([r \in Req |-> q[r].quote], A))
<1> DEFINE g == [r \in Req |-> q[r].quote]
           adds(F) == F = [T \in SUBSET A |-> IF T = {} THEN 0
                             ELSE q[CHOOSE y \in T : TRUE].quote
                                    + F[T \ {CHOOSE y \in T : TRUE}]]
           F == CHOOSE iter : adds(iter)
<1>1. \A x \in A : g[x] \in Nat
  BY DEF Request
<1>2. \A T \in SUBSET A : T # {} => g[CHOOSE y \in T : TRUE]
                                      = q[CHOOSE y \in T : TRUE].quote
  OBVIOUS
<1>3. \A G : Sums(G, g, A) <=> adds(G)
  BY <1>2 DEF Sums
<1>4. adds(F)
  <2>1. \E G : Sums(G, g, A)
    BY <1>1, SumsExist
  <2> HIDE DEF adds, g
  <2> QED BY <2>1, <1>3
<1>5. F[A] = Cardinality(Units(g, A))
  <2> HIDE DEF F, g
  <2>1. Sums(F, g, A)
    BY <1>3, <1>4
  <2> QED BY <2>1, <1>1, SumsCount
<1>6. MapThenSumSet(LAMBDA r : q[r].quote, A) = F[A]
  BY DEF MapThenSumSet, MapThenFoldSet
<1> QED BY <1>5, <1>6

\* So is the total of the amounts of the records of a finite history.
LEMMA AmountTotal ==
    ASSUME NEW H \in SUBSET Record, IsFiniteSet(H)
    PROVE  MapThenSumSet(LAMBDA t : t.amount, H)
             = Cardinality(Units([t \in Record |-> t.amount], H))
<1> DEFINE g == [t \in Record |-> t.amount]
           adds(F) == F = [T \in SUBSET H |-> IF T = {} THEN 0
                             ELSE (CHOOSE y \in T : TRUE).amount
                                    + F[T \ {CHOOSE y \in T : TRUE}]]
           F == CHOOSE iter : adds(iter)
<1>1. \A x \in H : g[x] \in Nat
  BY DEF Record
<1>2. \A T \in SUBSET H : T # {} => g[CHOOSE y \in T : TRUE]
                                      = (CHOOSE y \in T : TRUE).amount
  OBVIOUS
<1>3. \A G : Sums(G, g, H) <=> adds(G)
  BY <1>2 DEF Sums
<1>4. adds(F)
  <2>1. \E G : Sums(G, g, H)
    BY <1>1, SumsExist
  <2> HIDE DEF adds, g
  <2> QED BY <2>1, <1>3
<1>5. F[H] = Cardinality(Units(g, H))
  <2> HIDE DEF F, g
  <2>1. Sums(F, g, H)
    BY <1>3, <1>4
  <2> QED BY <2>1, <1>1, SumsCount
<1>6. MapThenSumSet(LAMBDA t : t.amount, H) = F[H]
  BY DEF MapThenSumSet, MapThenFoldSet
<1> QED BY <1>5, <1>6

-----------------------------------------------------------------------------
(* The daily, weekly and monthly limits.                                   *)

Quotes == [r \in Req |-> req[r].quote]
Amounts == [t \in Record |-> t.amount]

\* The approvals of a user within a span no longer than Retention total no more
\* than the records of the user's history within that span.
LEMMA ApprovedTotal ==
    ASSUME TypeOK, AmlInv, NEW u \in User, NEW span \in Nat, span <= Retention
    PROVE  LET approved == ApprovedSince(u, span)
               recorded == Since(amlHistory[u], span)
           IN  /\ MapThenSumSet(LAMBDA r : req[r].quote, approved)
                    = Cardinality(Units(Quotes, approved))
               /\ IsFiniteSet(Units(Quotes, approved))
               /\ PeriodTotal(amlHistory[u], span) \in Nat
               /\ Cardinality(Units(Quotes, approved))
                    <= PeriodTotal(amlHistory[u], span)
<1> DEFINE approved == ApprovedSince(u, span)
           recorded == Since(amlHistory[u], span)
           f        == [r \in approved |-> Approval(r)]
<1>a. now \in Nat /\ req \in [Req -> Request] /\ amlHistory[u] \subseteq Record
  BY DEF TypeOK
<1>b. /\ \A r \in Req : req[r].approvedAt \in Nat /\ req[r].quote \in Nat
      /\ \A t \in Record : t.amount \in Nat
  BY <1>a DEF Request, Record
<1>1. IsFiniteSet(approved) /\ IsFiniteSet(recorded)
  BY ApprovedCounted
<1>2. approved \subseteq Req /\ recorded \subseteq Record
  BY <1>a DEF ApprovedSince, Since
<1>3. \A r \in approved : Quotes[r] \in Nat
  BY <1>2, <1>b DEF Quotes
<1>4. \A t \in recorded : Amounts[t] \in Nat
  BY <1>2, <1>b DEF Amounts
<1>5. IsFiniteSet(Units(Amounts, recorded)) /\ IsFiniteSet(Units(Quotes, approved))
  BY <1>1, <1>3, <1>4, UnitsFinite
<1>6. /\ MapThenSumSet(LAMBDA r : req[r].quote, approved)
           = Cardinality(Units(Quotes, approved))
      /\ PeriodTotal(amlHistory[u], span) = Cardinality(Units(Amounts, recorded))
  <2> HIDE DEF approved
  <2>1. MapThenSumSet(LAMBDA r : req[r].quote, approved)
          = Cardinality(Units(Quotes, approved))
    BY <1>a, <1>1, <1>2, QuoteTotal DEF Quotes
  <2>2. PeriodTotal(amlHistory[u], span) = MapThenSumSet(LAMBDA t : t.amount, recorded)
    BY DEF PeriodTotal
  <2> HIDE DEF recorded
  <2>3. MapThenSumSet(LAMBDA t : t.amount, recorded)
          = Cardinality(Units(Amounts, recorded))
    BY <1>1, <1>2, AmountTotal DEF Amounts
  <2> QED BY <2>1, <2>2, <2>3
<1>7. ASSUME NEW r \in approved PROVE Approval(r) \in recorded
  <2>1. /\ r \in Req /\ req[r].approved /\ Owner[req[r].agent] = u
        /\ req[r].approvedAt > now - span
    BY DEF ApprovedSince
  <2>2. req[r].approvedAt > now - Retention
    BY <2>1, <1>a, <1>b, NumberAssumption
  <2>3. Approval(r) \in amlHistory[u]
    BY <2>1, <2>2 DEF AmlInv, ApprovalRemembered, Approval
  <2> QED BY <2>1, <2>3 DEF Since, Approval
<1>8. f \in Injection(approved, recorded)
  <2>1. \A q, r \in approved : Approval(q) = Approval(r) => q = r
    BY DEF Approval
  <2> QED BY <1>7, <2>1 DEF Injection, IsInjective
<1>9. \A r \in approved : Quotes[r] = Amounts[f[r]]
  <2>1. \A r \in approved : Approval(r).amount = req[r].quote
    BY DEF Approval
  <2> QED BY <1>2, <1>7, <2>1 DEF Quotes, Amounts
<1> HIDE DEF approved, recorded, f
<1>10. Cardinality(Units(Quotes, approved)) <= Cardinality(Units(Amounts, recorded))
  BY <1>5, <1>8, <1>9, UnitsInjection
<1> QED BY <1>5, <1>6, <1>10, FS_CardinalityType DEF approved, recorded

\* A step that approves only requests approved before keeps the limits.
LEMMA PeriodFrame ==
    ASSUME TypeOK, TypeOK', AmlInv, AmlPeriodCap, now <= now',
           NEW u \in User, NEW p \in Period,
           \A r \in ApprovedSince(u, p.span)' :
             /\ req[r].approved /\ req'[r].agent = req[r].agent
             /\ req'[r].quote = req[r].quote
             /\ req'[r].approvedAt = req[r].approvedAt
    PROVE  MapThenSumSet(LAMBDA r : req'[r].quote, ApprovedSince(u, p.span)') <= p.limit
<1> DEFINE before == ApprovedSince(u, p.span)
           after  == ApprovedSince(u, p.span)'
<1>a. /\ now \in Nat /\ now' \in Nat /\ p.span \in Nat /\ p.limit \in Nat
      /\ p.span <= Retention
      /\ req' \in [Req -> Request]
      /\ \A r \in Req : req[r].approvedAt \in Nat
  BY NumberAssumption, RetentionAssumption DEF TypeOK, Request
<1>1. after \subseteq before /\ after \subseteq Req /\ before \subseteq Req
  BY <1>a DEF ApprovedSince
<1>2. IsFiniteSet(before)
  BY <1>a, ApprovedCounted
<1>3. /\ MapThenSumSet(LAMBDA r : req[r].quote, before)
           = Cardinality(Units(Quotes, before))
      /\ IsFiniteSet(Units(Quotes, before))
  BY <1>a, ApprovedTotal
<1>4. MapThenSumSet(LAMBDA r : req[r].quote, before) <= p.limit
  BY DEF AmlPeriodCap
<1>5. Units(Quotes', after) \subseteq Units(Quotes, before)
  <2>1. \A r \in after : Quotes'[r] = Quotes[r]
    BY <1>1 DEF Quotes
  <2> HIDE DEF before, after
  <2> QED BY <1>1, <2>1, UnitsSubset
<1>6. IsFiniteSet(after)
  BY <1>1, <1>2, FS_Subset
<1>7. MapThenSumSet(LAMBDA r : req'[r].quote, after) = Cardinality(Units(Quotes', after))
  <2> HIDE DEF after
  <2> QED BY <1>a, <1>1, <1>6, QuoteTotal DEF Quotes
<1>8. /\ Cardinality(Units(Quotes', after)) <= Cardinality(Units(Quotes, before))
      /\ Cardinality(Units(Quotes', after)) \in Nat
      /\ Cardinality(Units(Quotes, before)) \in Nat
  <2> HIDE DEF before, after
  <2> QED BY <1>3, <1>5, FS_Subset, FS_CardinalityType
<1>9. MapThenSumSet(LAMBDA r : req'[r].quote, after) <= p.limit
  BY <1>a, <1>3, <1>4, <1>7, <1>8
<1> QED BY <1>9

\* Every step keeps the limits.
LEMMA PeriodStep ==
    ASSUME TypeOK, TypeOK', AmlInv, AmlPeriodCap, [Next]_vars
    PROVE  AmlPeriodCap'
<1> USE SetAssumption, NumberAssumption
<1>a. now \in Nat /\ now' \in Nat /\ now <= now' /\ Started
      /\ req \in [Req -> Request] /\ req' \in [Req -> Request]
      /\ (\A r \in Req : req[r] \in Request) /\ balance \in [Agent -> Nat]
  BY Monotone DEF TypeOK
<1> SUFFICES ASSUME NEW v \in User, NEW p \in Period
             PROVE  MapThenSumSet(LAMBDA q : req'[q].quote, ApprovedSince(v, p.span)')
                      <= p.limit
  BY DEF AmlPeriodCap, MapThenSumSet, MapThenFoldSet
<1> DEFINE before == ApprovedSince(v, p.span)
           after  == ApprovedSince(v, p.span)'
<1>1. ASSUME NEW r \in Req, QuoteAndCheck(r)
      PROVE  MapThenSumSet(LAMBDA q : req'[q].quote, ApprovedSince(v, p.span)')
               <= p.limit
  <2> DEFINE u      == Owner[req[r].agent]
             amount == Max0(balance[req[r].agent] - QuoteMargin)
             no     == [req[r] EXCEPT !.pc = "done", !.quote = amount]
             new    == [req[r] EXCEPT
                          !.pc = IF req[r].agent \in HasKey THEN "prepare" ELSE "done",
                          !.quote = amount, !.approved = TRUE, !.approvedAt = now]
  <2>0. req[r].pc = "quote" /\ ~req[r].approved
    BY <1>1 DEF QuoteAndCheck, AmlInv, Undecided
  <2>1. CASE ~(limitAllows(amount) /\ amlAllows(amlHistory[u], amount))
    <3>1. req' = [req EXCEPT ![r] = no]
      BY <1>1, <2>1 DEF QuoteAndCheck
    <3>2. no.approved = req[r].approved
      BY <1>a DEF Request
    <3> HIDE DEF no
    <3>3. \A q \in after : q # r /\ req'[q] = req[q] /\ req[q].approved
      BY <3>1, <3>2, <2>0, <1>a DEF ApprovedSince
    <3> QED BY <3>3, <1>a, PeriodFrame
  <2>2. CASE limitAllows(amount) /\ amlAllows(amlHistory[u], amount)
    <3>1. req' = [req EXCEPT ![r] = new] /\ UNCHANGED now
      BY <1>1, <2>2 DEF QuoteAndCheck
    <3>2. new.agent = req[r].agent /\ new.quote = amount
      BY <1>a DEF Request
    <3>3. req[r].agent \in Agent /\ amount \in Nat
      BY <1>a, <2>0 DEF Started, Max0
    <3> HIDE DEF new, no, amount
    <3>4. /\ \A q \in Req : q # r => req'[q] = req[q]
          /\ req'[r].agent = req[r].agent /\ req'[r].quote = amount
      BY <3>1, <3>2, <1>a
    <3>5. CASE v # u
      <4>1. \A q \in after : q # r /\ req'[q] = req[q] /\ req[q].approved
        BY <3>4, <3>5 DEF ApprovedSince
      <4> QED BY <4>1, <1>a, PeriodFrame
    <3>6. CASE v = u
      <4>a. p.span \in Nat /\ p.limit \in Nat /\ p.span <= Retention
        BY RetentionAssumption
      <4>1. PeriodTotal(amlHistory[v], p.span) + amount <= p.limit
        BY <2>2, <3>6 DEF amlAllows, amount
      <4>2. /\ IsFiniteSet(before)
            /\ IsFiniteSet(Units(Quotes, before))
            /\ PeriodTotal(amlHistory[v], p.span) \in Nat
            /\ Cardinality(Units(Quotes, before)) <= PeriodTotal(amlHistory[v], p.span)
        BY <4>a, ApprovedCounted, ApprovedTotal
      <4>3. after \subseteq before \cup {r} /\ after \subseteq Req
        BY <3>1, <3>4 DEF ApprovedSince
      <4>4. Units(Quotes', after) \subseteq Units(Quotes, before) \cup ({r} \X (1 .. amount))
        <5>1. \A q \in after : Quotes'[q] = IF q = r THEN amount ELSE Quotes[q]
          BY <3>4, <4>3 DEF Quotes
        <5> HIDE DEF before, after
        <5> QED BY <4>3, <5>1 DEF Units
      <4>5. IsFiniteSet(after)
        <5> HIDE DEF before, after
        <5>1. IsFiniteSet(before \cup {r})
          BY <4>2, FS_AddElement, Zenon
        <5> QED BY <4>3, <5>1, FS_Subset
      <4>6. MapThenSumSet(LAMBDA q : req'[q].quote, after)
              = Cardinality(Units(Quotes', after))
        <5> HIDE DEF after
        <5> QED BY <1>a, <4>3, <4>5, QuoteTotal DEF Quotes
      <4>7. IsFiniteSet({r} \X (1 .. amount)) /\ Cardinality({r} \X (1 .. amount)) = amount
        BY <3>3, UnitsOfOne
      <4> DEFINE old   == Units(Quotes, before)
                 extra == {r} \X (1 .. amount)
                 all   == Units(Quotes', after)
      <4> HIDE DEF old, extra, all
      <4>8. IsFiniteSet(old) /\ IsFiniteSet(extra) /\ all \subseteq old \cup extra
        BY <4>2, <4>4, <4>7 DEF old, extra, all
      <4>9. /\ IsFiniteSet(old \cup extra)
            /\ Cardinality(old \cup extra)
                 = Cardinality(old) + Cardinality(extra) - Cardinality(old \cap extra)
        BY <4>8, FS_Union
      <4>10. IsFiniteSet(all) /\ IsFiniteSet(old \cap extra)
             /\ Cardinality(all) <= Cardinality(old \cup extra)
        BY <4>8, <4>9, FS_Subset, FS_Intersection
      <4>11. /\ Cardinality(all) \in Nat /\ Cardinality(old) \in Nat
             /\ Cardinality(old \cup extra) \in Nat
             /\ Cardinality(old \cap extra) \in Nat
        BY <4>8, <4>9, <4>10, FS_CardinalityType
      <4>12. Cardinality(extra) = amount
        BY <4>7 DEF extra
      <4>13. Cardinality(all) <= Cardinality(old) + amount
        BY <4>9, <4>10, <4>11, <4>12, <3>3
      <4>14. Cardinality(old) <= PeriodTotal(amlHistory[v], p.span)
        BY <4>2 DEF old
      <4>15. Cardinality(all) <= p.limit
        BY <4>1, <4>2, <4>a, <3>3, <4>11, <4>13, <4>14
      <4>16. MapThenSumSet(LAMBDA q : req'[q].quote, after) <= p.limit
        BY <4>6, <4>15 DEF all
      <4> QED BY <4>16
    <3> QED BY <3>5, <3>6
  <2> QED BY <2>1, <2>2
<1>2. CASE \A r \in Req : ~QuoteAndCheck(r)
  <2>1. \A r \in after : /\ req[r].approved /\ req'[r].agent = req[r].agent
                         /\ req'[r].quote = req[r].quote
                         /\ req'[r].approvedAt = req[r].approvedAt
    BY <1>2, ApprovedBefore DEF ApprovedSince
  <2> QED BY <2>1, <1>a, PeriodFrame
<1> QED BY <1>1, <1>2

\* The withdrawals approved for a user, over all its agents and however many
\* requests run at once, never total more than the daily, weekly or monthly limit
\* within that period (aml-monitoring.service.ts:93-108).
THEOREM PeriodCapped == Spec => []AmlPeriodCap
<1>1. Init => AmlPeriodCap
  <2> SUFFICES ASSUME Init, NEW u \in User, NEW p \in Period
               PROVE  MapThenSumSet(LAMBDA r : req[r].quote, ApprovedSince(u, p.span))
                        <= p.limit
    BY DEF AmlPeriodCap
  <2>1. ApprovedSince(u, p.span) = {}
    BY DEF Init, NoRequest, ApprovedSince
  <2>2. req \in [Req -> Request] /\ p.limit \in Nat
    BY NumberAssumption DEF Init, Request, NoRequest
  <2>3. MapThenSumSet(LAMBDA r : req[r].quote, {}) = Cardinality(Units(Quotes, {}))
    BY <2>2, FS_EmptySet, QuoteTotal DEF Quotes
  <2>4. Units(Quotes, {}) = {}
    BY DEF Units
  <2> QED BY <2>1, <2>2, <2>3, <2>4, FS_EmptySet
<1>2. TypeOK /\ TypeOK' /\ AmlInv /\ AmlPeriodCap /\ [Next]_vars => AmlPeriodCap'
  BY PeriodStep
<1> QED BY <1>1, <1>2, TypeCorrect, AmlInvariant, PTL DEF Spec
=============================================================================
