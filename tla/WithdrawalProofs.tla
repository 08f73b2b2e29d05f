-------------------------- MODULE WithdrawalProofs --------------------------
(***************************************************************************)
(* Proofs about Withdrawal, for every set of users, agents, requests and   *)
(* whitelist changes and every value of the limits and spans.              *)
(***************************************************************************)
EXTENDS Withdrawal, FiniteSetTheorems, TLAPS

\* Pruning keeps records only: the history it returns is part of what it was
\* given (aml-transaction.utils.ts:5-16).
LEMMA WithRecordSubset ==
    ASSUME NEW h, NEW t
    PROVE  WithRecord(h, t) \subseteq h \cup {t}
BY DEF WithRecord, Since

\* A step of a request in progress that keeps its agent and destination keeps
\* the shape of all requests and their start conditions.
LEMMA RequestStep ==
    ASSUME TypeOK, NEW r \in Req, NEW new \in Request,
           req[r].pc \notin {"idle", "done", "lost"},
           new.pc # "idle", new.agent = req[r].agent, new.dest = req[r].dest,
           req' = [req EXCEPT ![r] = new], UNCHANGED change,
           \A q \in Req : tx'[q] # "none" => q = r \/ tx[q] # "none"
    PROVE  req' \in [Req -> Request] /\ Started'
<1>1. req \in [Req -> Request] /\ Started
  BY DEF TypeOK
<1>2. req' \in [Req -> Request]
  BY <1>1
<1>3. \A q \in Req : req'[q] = IF q = r THEN new ELSE req[q]
  BY <1>1
<1>4. Started'
  BY <1>1, <1>3 DEF Started
<1> QED BY <1>2, <1>4

\* The types: every variable keeps the shape its table row, map or local
\* variables have, whichever step runs.
THEOREM TypeCorrect == Spec => []TypeOK
<1> USE SetAssumption, NumberAssumption
<1>1. Init => TypeOK
  BY DEF Init, TypeOK, Started, Row, NoRow, Request, NoRequest, WhitelistChange, NoChange
<1>2. TypeOK /\ [Next]_vars => TypeOK'
  <2> SUFFICES ASSUME TypeOK, [Next]_vars PROVE TypeOK'
    OBVIOUS
  <2> DEFINE ReqT    == [Req -> Request]
             ChangeT == [Change -> WhitelistChange]
             Status  == {"none", "pending", "paid", "failed", "expired"}
  <2>a. /\ now \in Nat /\ restarts \in Nat
        /\ req \in ReqT /\ change \in ChangeT
        /\ whitelist \in [Agent -> Row]
        /\ balance \in [Agent -> Nat]
        /\ tx \in [Req -> Status]
        /\ amlHistory \in [User -> SUBSET Record]
        /\ issued \subseteq Issue /\ transfers \subseteq Transfer
        /\ audit \subseteq (Req \X AuditEvent)
        /\ Started
    BY DEF TypeOK
  <2>b. \A r \in Req : req[r] \in Request
    BY <2>a
  <2>1. ASSUME NEW c \in Change, NEW a \in Agent, NEW w \in Addr,
               ReadForChange(c, a, w)
        PROVE  TypeOK'
    <3>1. CASE isLocked(whitelist[a])
      <4>1. change' = [change EXCEPT ![c].pc = "done"]
        BY <2>1, <3>1 DEF ReadForChange
      <4>2. change' \in ChangeT
        BY <4>1, <2>a DEF WhitelistChange
      <4>3. Started'
        BY <2>1, <3>1, <4>1, <2>a DEF Started, ReadForChange, chain, WhitelistChange
      <4> QED BY <2>1, <3>1, <4>2, <4>3 DEF TypeOK, ReadForChange, chain
    <3>2. CASE ~isLocked(whitelist[a])
      <4> DEFINE row == [wallet |-> w, lockedUntil |-> now + LockDuration]
                 chg == [pc |-> "update", agent |-> a, row |-> row]
                 iss == [agent |-> a, wallet |-> w, at |-> now]
      <4>1. change' = [change EXCEPT ![c] = chg] /\ issued' = issued \cup {iss}
        BY <2>1, <3>2 DEF ReadForChange
      <4>2. row \in Row /\ iss \in Issue
        BY <2>a DEF Row, Issue
      <4>3. chg \in WhitelistChange
        BY <4>2 DEF WhitelistChange
      <4>4. change' \in ChangeT /\ issued' \subseteq Issue
        BY <4>1, <4>2, <4>3, <2>a
      <4>5. Started'
        BY <2>1, <4>1, <2>a DEF Started, ReadForChange, chain
      <4> QED BY <2>1, <4>4, <4>5 DEF TypeOK, ReadForChange, chain
    <3> QED BY <3>1, <3>2
  <2>2. ASSUME NEW c \in Change, WriteChange(c)
        PROVE  TypeOK'
    <3>1. /\ whitelist' = [whitelist EXCEPT ![change[c].agent] = change[c].row]
          /\ change' = [change EXCEPT ![c].pc = "done"]
      BY <2>2 DEF WriteChange
    <3>2. change' \in ChangeT
      BY <3>1, <2>a DEF WhitelistChange
    <3>3. change[c].row \in Row
      BY <2>a DEF WhitelistChange
    <3>4. whitelist' \in [Agent -> Row]
      BY <3>1, <3>3, <2>a
    <3>5. Started'
      BY <2>2, <3>1, <2>a DEF Started, WriteChange, chain, WhitelistChange
    <3> QED BY <2>2, <3>2, <3>4, <3>5 DEF TypeOK, WriteChange, chain
  <2>3. ASSUME NEW u \in User, NEW w \in Addr, UpdateProfile(u, w)
        PROVE  TypeOK'
    BY <2>3 DEF TypeOK, Started, UpdateProfile, chain
  <2>4. ASSUME NEW r \in Req, NEW a \in Agent, NEW body \in Addr \cup {NoAddr},
               Receive(r, a, body)
        PROVE  TypeOK'
    <3> DEFINE dest == IF body # NoAddr THEN body ELSE profile[Owner[a]]
               new  == [NoRequest EXCEPT
                          !.pc = IF dest = NoAddr THEN "done" ELSE "whitelist",
                          !.agent = a, !.dest = dest]
    <3>1. req' = [req EXCEPT ![r] = new]
      BY <2>4 DEF Receive
    <3>2. dest \in Addr \cup {NoAddr}
      BY DEF TypeOK
    <3>3. new \in Request
      BY <3>2 DEF Request, NoRequest
    <3>4. req' \in ReqT
      BY <3>1, <3>3, <2>a
    <3>5. tx[r] = "none"
      BY <2>4, <2>a DEF Started, Receive
    <3>6. /\ new.pc \in {"done", "whitelist"} /\ new.agent \in Agent
          /\ new.pc # "done" => new.dest \in Addr
      BY <3>2 DEF NoRequest
    <3>7. Started'
      BY <2>4, <3>1, <3>5, <3>6, <2>a DEF Started, Receive, chain
    <3> QED BY <2>4, <3>4, <3>7 DEF TypeOK, Receive, chain
  <2>c. ASSUME NEW r \in Req, NEW p \in {"confirm", "done"},
               req[r].pc \notin {"idle", "done", "lost"},
               req' = [req EXCEPT ![r].pc = p], UNCHANGED change,
               \A q \in Req : tx'[q] # "none" => q = r \/ tx[q] # "none"
        PROVE  req' \in ReqT /\ Started'
    <3> DEFINE new == [req[r] EXCEPT !.pc = p]
    <3>1. /\ new \in Request /\ new.pc = p
          /\ new.agent = req[r].agent /\ new.dest = req[r].dest
      BY <2>b DEF Request
    <3>2. req' = [req EXCEPT ![r] = new]
      BY <2>c
    <3> HIDE DEF new
    <3> QED BY <2>c, <3>1, <3>2, RequestStep
  <2>5. ASSUME NEW r \in Req, CheckWhitelist(r)
        PROVE  TypeOK'
    <3>1. CASE withdrawalAllowed(req[r].agent, req[r].dest)
      <4> DEFINE new == [req[r] EXCEPT !.pc = "quote", !.checkedAt = now]
      <4>1. /\ new \in Request /\ new.pc = "quote"
            /\ new.agent = req[r].agent /\ new.dest = req[r].dest
        BY <2>a, <2>b DEF Request
      <4>2. req' = [req EXCEPT ![r] = new]
        BY <2>5, <3>1 DEF CheckWhitelist
      <4> HIDE DEF new
      <4>3. req' \in ReqT /\ Started'
        BY <2>5, <4>1, <4>2, RequestStep DEF CheckWhitelist, chain
      <4> QED BY <2>5, <3>1, <4>3 DEF TypeOK, CheckWhitelist, chain
    <3>2. CASE ~withdrawalAllowed(req[r].agent, req[r].dest)
      <4>1. req' \in ReqT /\ Started'
        BY <2>5, <3>2, <2>c DEF CheckWhitelist, chain
      <4>2. audit' \subseteq (Req \X AuditEvent)
        BY <2>5, <3>2, <2>a DEF CheckWhitelist, AuditEvent
      <4> QED BY <2>5, <3>2, <4>1, <4>2 DEF TypeOK, CheckWhitelist, chain
    <3> QED BY <3>1, <3>2
  <2>6. ASSUME NEW r \in Req, QuoteAndCheck(r)
        PROVE  TypeOK'
    <3> DEFINE a      == req[r].agent
               u      == Owner[a]
               amount == Max0(balance[a] - QuoteMargin)
               h      == WithRecord(amlHistory[u], CheckRecord(r, amount))
               no     == [req[r] EXCEPT !.pc = "done", !.quote = amount]
               yes    == [req[r] EXCEPT
                            !.pc = IF a \in HasKey THEN "prepare" ELSE "done",
                            !.quote = amount, !.approved = TRUE, !.approvedAt = now]
    <3>1. a \in Agent /\ u \in User
      BY <2>6, <2>a DEF QuoteAndCheck, Started
    <3>2. amount \in Nat
      BY <3>1, <2>a DEF Max0
    <3>3. /\ no \in Request /\ no.pc # "idle"
          /\ no.agent = req[r].agent /\ no.dest = req[r].dest
      BY <3>2, <2>b DEF Request
    <3>4. /\ yes \in Request /\ yes.pc # "idle"
          /\ yes.agent = req[r].agent /\ yes.dest = req[r].dest
      BY <3>2, <2>a, <2>b DEF Request
    <3>5. /\ \/ req' = [req EXCEPT ![r] = no]
             \/ req' = [req EXCEPT ![r] = yes]
          /\ \/ audit' = audit
             \/ audit' = audit \cup {<<r, "aml_blocked">>}
             \/ audit' = audit \cup {<<r, "error">>}
          /\ \/ amlHistory' = amlHistory
             \/ amlHistory' = [amlHistory EXCEPT ![u] = h]
      BY <2>6 DEF QuoteAndCheck
    <3>6. req[r].pc = "quote" /\ UNCHANGED <<change, tx>>
      BY <2>6 DEF QuoteAndCheck, chain
    <3>7. CheckRecord(r, amount) \in Record
      BY <3>2, <2>a DEF CheckRecord, Record
    <3>8. h \subseteq amlHistory[u] \cup {CheckRecord(r, amount)}
      BY WithRecordSubset
    <3>9. audit' \subseteq (Req \X AuditEvent)
      BY <3>5, <2>a DEF AuditEvent
    <3> HIDE DEF no, yes, h, amount
    <3>10. req' \in ReqT /\ Started'
      <4>1. CASE req' = [req EXCEPT ![r] = no]
        BY <3>3, <3>6, <4>1, RequestStep
      <4>2. CASE req' = [req EXCEPT ![r] = yes]
        BY <3>4, <3>6, <4>2, RequestStep
      <4> QED BY <3>5, <4>1, <4>2
    <3>11. amlHistory' \in [User -> SUBSET Record]
      BY <3>1, <3>5, <3>7, <3>8, <2>a
    <3> QED BY <2>6, <3>9, <3>10, <3>11 DEF TypeOK, QuoteAndCheck, chain
  <2>7. ASSUME NEW r \in Req, RouteThrows(r)
        PROVE  TypeOK'
    <3>1. req' \in ReqT /\ Started'
      BY <2>7, <2>c DEF RouteThrows, chain
    <3>2. audit' \subseteq (Req \X AuditEvent)
      BY <2>7, <2>a DEF RouteThrows, AuditEvent
    <3> QED BY <2>7, <3>1, <3>2 DEF TypeOK, RouteThrows, chain
  <2>8. ASSUME NEW r \in Req, PrepareTransfer(r)
        PROVE  TypeOK'
    <3> DEFINE maxTransfer == balance[req[r].agent] - Fee - Rent
               new == [req[r] EXCEPT !.pc = "send", !.amount = maxTransfer]
    <3>1. CASE maxTransfer <= 0
      <4>1. req' \in ReqT /\ Started'
        BY <2>8, <3>1, <2>a, <2>c DEF PrepareTransfer, chain, Started
      <4> QED BY <2>8, <4>1 DEF TypeOK, PrepareTransfer, chain
    <3>2. CASE ~(maxTransfer <= 0)
      <4>1. req[r].agent \in Agent
        BY <2>8, <2>a DEF PrepareTransfer, Started
      <4>2. maxTransfer \in Nat
        BY <3>2, <4>1, <2>a
      <4>3. /\ new \in Request /\ new.pc = "send"
            /\ new.agent = req[r].agent /\ new.dest = req[r].dest
        BY <4>2, <2>b DEF Request
      <4>4. req' = [req EXCEPT ![r] = new]
        BY <2>8, <3>2 DEF PrepareTransfer
      <4> HIDE DEF new
      <4>5. req' \in ReqT /\ Started'
        BY <2>8, <4>3, <4>4, RequestStep DEF PrepareTransfer, chain
      <4> QED BY <2>8, <4>5 DEF TypeOK, PrepareTransfer, chain
    <3> QED BY <3>1, <3>2
  <2>9. ASSUME NEW r \in Req, Send(r)
        PROVE  TypeOK'
    <3>1. tx' = [tx EXCEPT ![r] = "pending"]
      BY <2>9 DEF Send
    <3>2. /\ tx' \in [Req -> Status]
          /\ \A q \in Req : tx'[q] # "none" => q = r \/ tx[q] # "none"
      BY <3>1, <2>a
    <3>3. req' \in ReqT /\ Started'
      BY <2>9, <3>2, <2>c DEF Send
    <3> QED BY <2>9, <3>2, <3>3 DEF TypeOK, Send
  <2>10. ASSUME NEW r \in Req, TransferThrows(r)
         PROVE  TypeOK'
    <3>1. tx' = tx \/ tx' = [tx EXCEPT ![r] = "pending"]
      BY <2>10 DEF TransferThrows
    <3>2. /\ tx' \in [Req -> Status]
          /\ \A q \in Req : tx'[q] # "none" => q = r \/ tx[q] # "none"
      BY <3>1, <2>a
    <3>3. req' \in ReqT /\ Started'
      BY <2>10, <3>2, <2>c DEF TransferThrows
    <3> QED BY <2>10, <3>2, <3>3 DEF TypeOK, TransferThrows
  <2>11. ASSUME NEW r \in Req, Confirm(r)
         PROVE  TypeOK'
    <3> DEFINE u   == Owner[req[r].agent]
               rec == CompleteRecord(r, req[r].amount)
               h   == WithRecord(amlHistory[u], rec)
               new == [req[r] EXCEPT !.pc = "done", !.success = TRUE]
    <3>1. u \in User /\ req[r].amount \in Nat
      BY <2>11, <2>a, <2>b DEF Confirm, Started, Request
    <3>2. /\ new \in Request /\ new.pc = "done"
          /\ new.agent = req[r].agent /\ new.dest = req[r].dest
      BY <2>b DEF Request
    <3>3. rec \in Record
      BY <3>1, <2>a DEF CompleteRecord, Record
    <3>4. h \subseteq amlHistory[u] \cup {rec}
      BY WithRecordSubset
    <3>5. /\ req' = [req EXCEPT ![r] = new]
          /\ amlHistory' = [amlHistory EXCEPT ![u] = h]
      BY <2>11 DEF Confirm
    <3>6. audit' \subseteq (Req \X AuditEvent)
      BY <2>11, <2>a DEF Confirm, AuditEvent
    <3> HIDE DEF new, h, rec
    <3>7. req' \in ReqT /\ Started'
      BY <2>11, <3>2, <3>5, RequestStep DEF Confirm, chain
    <3>8. amlHistory' \in [User -> SUBSET Record]
      BY <3>1, <3>3, <3>4, <3>5, <2>a
    <3> QED BY <2>11, <3>6, <3>7, <3>8 DEF TypeOK, Confirm, chain
  <2>12. ASSUME NEW a \in Agent, NEW n \in DepositAmount, Deposit(a, n)
         PROVE  TypeOK'
    BY <2>12 DEF TypeOK, Started, Deposit
  <2>13. ASSUME NEW r \in Req, Land(r)
         PROVE  TypeOK'
    <3> DEFINE a    == req[r].agent
               rest == balance[a] - Fee - req[r].amount
               trn  == [req |-> r, agent |-> a, dest |-> req[r].dest,
                        amount |-> req[r].amount, at |-> now]
    <3>1. a \in Agent /\ req[r].dest \in Addr /\ req[r].pc # "idle"
      BY <2>13, <2>a DEF Land, Started
    <3>2. balance[a] \in Nat /\ req[r].amount \in Nat
      BY <3>1, <2>a, <2>b DEF Request
    <3>3. CASE Exempt(rest)
      <4>1. /\ tx' = [tx EXCEPT ![r] = "paid"]
            /\ balance' = [balance EXCEPT ![a] = rest]
            /\ transfers' = transfers \cup {trn}
        BY <2>13, <3>3 DEF Land
      <4>2. rest \in Nat
        BY <3>2, <3>3 DEF Exempt
      <4>3. trn \in Transfer
        BY <3>1, <3>2, <2>a DEF Transfer
      <4>4. /\ tx' \in [Req -> Status] /\ balance' \in [Agent -> Nat]
            /\ transfers' \subseteq Transfer
        BY <4>1, <4>2, <4>3, <2>a
      <4>5. Started'
        BY <2>13, <4>1, <3>1, <2>a DEF Land, Started
      <4> QED BY <2>13, <4>4, <4>5 DEF TypeOK, Land
    <3>4. CASE ~Exempt(rest)
      <4>1. /\ tx' = [tx EXCEPT ![r] = "failed"]
            /\ balance' = [balance EXCEPT ![a] = @ - Fee]
            /\ transfers' = transfers /\ Exempt(balance[a] - Fee)
        BY <2>13, <3>4 DEF Land
      <4>2. balance[a] - Fee \in Nat
        BY <3>2, <4>1 DEF Exempt
      <4>3. tx' \in [Req -> Status] /\ balance' \in [Agent -> Nat]
        BY <4>1, <4>2, <2>a
      <4>4. Started'
        BY <2>13, <4>1, <3>1, <2>a DEF Land, Started
      <4> QED BY <2>13, <4>1, <4>3, <4>4 DEF TypeOK, Land
    <3> QED BY <3>3, <3>4
  <2>14. ASSUME NEW r \in Req, Expire(r)
         PROVE  TypeOK'
    BY <2>14 DEF TypeOK, Started, Expire
  <2>15. ASSUME Tick
         PROVE  TypeOK'
    BY <2>15 DEF TypeOK, Started, Tick, chain
  <2>16. ASSUME Restart
         PROVE  TypeOK'
    <3> DEFINE after(r) == [req[r] EXCEPT
                  !.pc = IF @ \in {"idle", "done"} THEN @ ELSE "lost",
                  !.approved = FALSE]
    <3>1. req' = [r \in Req |-> after(r)] /\ UNCHANGED tx
      BY <2>16 DEF Restart, chain
    <3>2. \A r \in Req :
            /\ after(r) \in Request
            /\ after(r).pc \in {"idle", "done", "lost"}
            /\ after(r).pc = "idle" => req[r].pc = "idle"
            /\ req[r].pc = "idle" => after(r).pc = "idle"
            /\ after(r).agent = req[r].agent /\ after(r).dest = req[r].dest
      <4> SUFFICES ASSUME NEW r \in Req
                   PROVE  /\ after(r) \in Request
                          /\ after(r).pc \in {"idle", "done", "lost"}
                          /\ after(r).pc = "idle" => req[r].pc = "idle"
                          /\ req[r].pc = "idle" => after(r).pc = "idle"
                          /\ after(r).agent = req[r].agent
                          /\ after(r).dest = req[r].dest
        OBVIOUS
      <4> QED BY <2>b DEF Request
    <3> HIDE DEF after
    <3>3. change' \in ChangeT /\ \A c \in Change : change'[c].pc # "update"
      BY <2>16, <2>a DEF Restart, WhitelistChange
    <3>4. req' \in ReqT /\ \A r \in Req : req'[r] = after(r)
      BY <3>1, <3>2
    <3>5. Started'
      BY <3>1, <3>2, <3>3, <3>4, <2>a DEF Started
    <3>6. restarts' = restarts + 1 /\ audit' = {}
      BY <2>16 DEF Restart
    <3>b. restarts' \in Nat /\ audit' \subseteq (Req \X AuditEvent)
      BY <3>6, <2>a
    <3>7. amlHistory' = [u \in User |-> {}]
      BY <2>16 DEF Restart
    <3>8. amlHistory' \in [User -> SUBSET Record]
      BY <3>7
    <3>9. UNCHANGED <<now, profile, whitelist, balance, tx, transfers, issued>>
      BY <2>16 DEF Restart, chain
    <3> QED BY <3>3, <3>4, <3>5, <3>b, <3>8, <3>9 DEF TypeOK
  <2>17. CASE UNCHANGED vars
    BY <2>17 DEF TypeOK, Started, vars
  <2> QED
    BY <2>1, <2>2, <2>3, <2>4, <2>5, <2>6, <2>7, <2>8, <2>9, <2>10, <2>11,
       <2>12, <2>13, <2>14, <2>15, <2>16, <2>17 DEF Next
<1>3. QED BY <1>1, <1>2, PTL DEF Spec
-----------------------------------------------------------------------------
(* Transfers respect the whitelist lock.                                   *)

InProgress == {"quote", "prepare", "send", "confirm"}

\* A step may leave request r without a claim on its destination, or let it keep
\* the claim it had.
Keeps(r) ==
    \/ req'[r].pc \notin InProgress /\ tx'[r] = "none"
    \/ /\ req[r].pc \in InProgress \/ tx[r] # "none"
       /\ req'[r].agent = req[r].agent /\ req'[r].dest = req[r].dest
       /\ req'[r].checkedAt = req[r].checkedAt

\* A wallet issued in time for a row stays issued in time.
LEMMA RowIssuedKept ==
    ASSUME NEW a, NEW row, RowIssued(a, row), issued \subseteq issued'
    PROVE  row.wallet # NoAddr =>
             \E i \in issued' : /\ i.agent = a
                                /\ i.wallet = row.wallet
                                /\ i.at + LockDuration = row.lockedUntil
BY DEF RowIssued

\* A cleared request that keeps its fields stays cleared.
LEMMA ClearedKept ==
    ASSUME TypeOK, TypeOK', NEW r \in Req, Cleared(r),
           issued \subseteq issued', now <= now',
           req'[r].agent = req[r].agent, req'[r].dest = req[r].dest,
           req'[r].checkedAt = req[r].checkedAt
    PROVE  Cleared(r)'
<1>1. req[r].checkedAt \in Nat /\ now \in Nat /\ now' \in Nat
  BY DEF TypeOK, Request
<1> QED BY <1>1 DEF Cleared

\* Steps that write no row, start no update and execute no transfer keep LockInv.
LEMMA LockFrame ==
    ASSUME TypeOK, TypeOK', LockInv, issued \subseteq issued', now <= now',
           UNCHANGED <<whitelist, transfers>>,
           \A c \in Change : change'[c].pc = "update" => change'[c] = change[c],
           \A r \in Req : Keeps(r)
    PROVE  LockInv'
<1>1. ASSUME NEW a \in Agent PROVE RowIssued(a, whitelist[a])'
  BY DEF LockInv, RowIssued
<1>2. ASSUME NEW c \in Change, change'[c].pc = "update"
      PROVE  RowIssued(change[c].agent, change[c].row)'
  BY <1>2 DEF LockInv, RowIssued
<1>3. ASSUME NEW r \in Req, req'[r].pc \in InProgress \/ tx'[r] # "none"
      PROVE  Cleared(r)'
  <2>1. /\ req[r].pc \in InProgress \/ tx[r] # "none"
        /\ req'[r].agent = req[r].agent /\ req'[r].dest = req[r].dest
        /\ req'[r].checkedAt = req[r].checkedAt
    BY <1>3 DEF Keeps
  <2>2. Cleared(r)
    BY <2>1 DEF LockInv, InProgress
  <2> QED BY <2>1, <2>2, ClearedKept
<1>4. TransferRespectsLock'
  BY DEF LockInv, TransferRespectsLock
<1> QED BY <1>1, <1>2, <1>3, <1>4 DEF LockInv, InProgress
\* No step forgets an issued change or turns the clock back.
LEMMA Monotone ==
    ASSUME TypeOK, [Next]_vars
    PROVE  issued \subseteq issued' /\ now <= now'
<1>1. now \in Nat
  BY DEF TypeOK
<1>2. CASE UNCHANGED vars
  BY <1>1, <1>2 DEF vars
<1>3. ASSUME NEW c \in Change,
             WriteChange(c) \/ \E a \in Agent, w \in Addr : ReadForChange(c, a, w)
      PROVE  issued \subseteq issued' /\ now <= now'
  BY <1>1, <1>3 DEF WriteChange, ReadForChange
<1>4. ASSUME NEW r \in Req,
             \/ CheckWhitelist(r) \/ RouteThrows(r) \/ PrepareTransfer(r)
             \/ Send(r) \/ TransferThrows(r) \/ Confirm(r) \/ Land(r) \/ Expire(r)
      PROVE  issued \subseteq issued' /\ now <= now'
  <2>1. UNCHANGED <<issued, now>>
    BY <1>4 DEF CheckWhitelist, RouteThrows, PrepareTransfer, Send, TransferThrows,
       Confirm, Land, Expire
  <2> QED BY <1>1, <2>1
<1>5. ASSUME NEW r \in Req, QuoteAndCheck(r)
      PROVE  issued \subseteq issued' /\ now <= now'
  BY <1>1, <1>5 DEF QuoteAndCheck
<1>6. ASSUME NEW r \in Req, NEW a \in Agent, NEW body \in Addr \cup {NoAddr},
             Receive(r, a, body)
      PROVE  issued \subseteq issued' /\ now <= now'
  BY <1>1, <1>6 DEF Receive
<1>7. ASSUME NEW u \in User, NEW w \in Addr, UpdateProfile(u, w)
      PROVE  issued \subseteq issued' /\ now <= now'
  BY <1>1, <1>7 DEF UpdateProfile
<1>8. ASSUME NEW a \in Agent, NEW n \in DepositAmount, Deposit(a, n)
      PROVE  issued \subseteq issued' /\ now <= now'
  BY <1>1, <1>8 DEF Deposit
<1>9. CASE Tick
  BY <1>1, <1>9 DEF Tick
<1>10. CASE Restart
  <2>1. UNCHANGED <<issued, now>>
    BY <1>10 DEF Restart
  <2> QED BY <1>1, <2>1
<1> QED BY <1>2, <1>3, <1>4, <1>5, <1>6, <1>7, <1>8, <1>9, <1>10 DEF Next

\* LockInv is inductive, and it contains TransferRespectsLock.
LEMMA LockStep ==
    ASSUME TypeOK, TypeOK', LockInv, [Next]_vars
    PROVE  LockInv'
<1> USE SetAssumption, NumberAssumption
<1>a. issued \subseteq issued' /\ now <= now'
  BY Monotone
<1>b. now \in Nat /\ req \in [Req -> Request] /\ tx \in [Req -> {"none", "pending",
        "paid", "failed", "expired"}] /\ Started
  BY DEF TypeOK
<1>1. ASSUME NEW c \in Change, NEW a \in Agent, NEW w \in Addr,
             ReadForChange(c, a, w)
      PROVE  LockInv'
  <2>1. UNCHANGED <<whitelist, req, tx, transfers, now>>
    BY <1>1 DEF ReadForChange, chain
  <2>2. ASSUME NEW d \in Change, change'[d].pc = "update"
        PROVE  RowIssued(change[d].agent, change[d].row)'
    <3>1. CASE d # c \/ isLocked(whitelist[a])
      <4>1. change'[d] = change[d]
        BY <1>1, <2>2, <3>1 DEF ReadForChange, TypeOK, WhitelistChange
      <4> QED BY <4>1, <2>2, <1>a DEF LockInv, RowIssued
    <3>2. CASE d = c /\ ~isLocked(whitelist[a])
      <4> DEFINE iss == [agent |-> a, wallet |-> w, at |-> now]
      <4>1. /\ change'[d].agent = a /\ change'[d].row.wallet = w
            /\ change'[d].row.lockedUntil = now + LockDuration
            /\ iss \in issued'
        BY <1>1, <3>2 DEF ReadForChange, TypeOK
      <4>2. iss.agent = a /\ iss.wallet = w
              /\ iss.at + LockDuration = now + LockDuration
        OBVIOUS
      <4> QED BY <4>1, <4>2 DEF RowIssued
    <3> QED BY <3>1, <3>2
  <2>3. \A b \in Agent : RowIssued(b, whitelist[b])'
    BY <2>1, <1>a DEF LockInv, RowIssued
  <2>4. \A r \in Req : Cleared(r) => Cleared(r)'
    BY <2>1, <1>a DEF Cleared
  <2>5. TransferRespectsLock'
    BY <2>1, <1>a DEF LockInv, TransferRespectsLock
  <2> QED BY <2>1, <2>2, <2>3, <2>4, <2>5 DEF LockInv
<1>2. ASSUME NEW c \in Change, WriteChange(c)
      PROVE  LockInv'
  <2>1. /\ change[c].pc = "update"
        /\ whitelist' = [whitelist EXCEPT ![change[c].agent] = change[c].row]
        /\ change' = [change EXCEPT ![c].pc = "done"]
        /\ UNCHANGED <<req, tx, transfers, now, issued>>
    BY <1>2 DEF WriteChange, chain
  <2>2. RowIssued(change[c].agent, change[c].row)
    BY <2>1 DEF LockInv
  <2>3. \A b \in Agent : RowIssued(b, whitelist[b])'
    BY <2>1, <2>2 DEF LockInv, RowIssued, TypeOK
  <2>4. \A d \in Change : change'[d].pc = "update" => change'[d] = change[d]
    BY <2>1 DEF TypeOK, WhitelistChange
  <2>5. \A d \in Change : change'[d].pc = "update"
                            => RowIssued(change[d].agent, change[d].row)'
    BY <2>1, <2>4 DEF LockInv, RowIssued
  <2>6. \A r \in Req : Cleared(r) => Cleared(r)'
    BY <2>1 DEF Cleared
  <2>7. TransferRespectsLock'
    BY <2>1 DEF LockInv, TransferRespectsLock
  <2> QED BY <2>1, <2>3, <2>5, <2>6, <2>7 DEF LockInv
<1>3. ASSUME NEW r \in Req, CheckWhitelist(r)
      PROVE  LockInv'
  <2>1. UNCHANGED <<whitelist, change, transfers, tx, now, issued>>
    BY <1>3 DEF CheckWhitelist, chain
  <2>2. CASE ~withdrawalAllowed(req[r].agent, req[r].dest)
    <3>1. \A q \in Req : Keeps(q)
      BY <1>3, <2>1, <2>2, <1>b DEF CheckWhitelist, Keeps, InProgress, Request
    <3> QED BY <3>1, <2>1, <1>a, LockFrame
  <2>3. CASE withdrawalAllowed(req[r].agent, req[r].dest)
    <3> DEFINE row == whitelist[req[r].agent]
    <3>1. /\ req[r].pc = "whitelist" /\ req[r].agent \in Agent
          /\ row.wallet = req[r].dest /\ row.wallet # NoAddr
          /\ ~(now < row.lockedUntil) /\ row.lockedUntil \in Nat
      BY <1>3, <2>3, <1>b DEF CheckWhitelist, withdrawalAllowed, isLocked, Started,
         TypeOK, Row
    <3>2. /\ req'[r].checkedAt = now /\ req'[r].agent = req[r].agent
          /\ req'[r].dest = req[r].dest
          /\ \A q \in Req : q # r => req'[q] = req[q]
      BY <1>3, <2>3, <1>b DEF CheckWhitelist, Request
    <3>3. PICK i \in issued : /\ i.agent = req[r].agent
                              /\ i.wallet = req[r].dest
                              /\ i.at + LockDuration = row.lockedUntil
      BY <3>1 DEF LockInv, RowIssued
    <3>4. Cleared(r)'
      BY <3>1, <3>2, <3>3, <2>1, <1>b DEF Cleared
    <3>5. \A q \in Req : q # r /\ Cleared(q) => Cleared(q)'
      BY <2>1, <3>2 DEF Cleared
    <3>6. \A b \in Agent : RowIssued(b, whitelist[b])'
      BY <2>1 DEF LockInv, RowIssued
    <3>7. \A d \in Change : change'[d].pc = "update"
                              => RowIssued(change[d].agent, change[d].row)'
      BY <2>1 DEF LockInv, RowIssued
    <3>8. TransferRespectsLock'
      BY <2>1 DEF LockInv, TransferRespectsLock
    <3> QED BY <2>1, <3>2, <3>4, <3>5, <3>6, <3>7, <3>8 DEF LockInv
  <2> QED BY <2>2, <2>3
<1>4. ASSUME NEW r \in Req, Land(r)
      PROVE  LockInv'
  <2>1. UNCHANGED <<whitelist, change, req, now, issued>> /\ tx[r] = "pending"
    BY <1>4 DEF Land
  <2>2. \A q \in Req : tx'[q] # "none" => tx[q] # "none"
    BY <1>4, <1>b DEF Land
  <2>3. Cleared(r)
    BY <2>1 DEF LockInv
  <2>4. PICK i \in issued : /\ i.agent = req[r].agent
                            /\ i.wallet = req[r].dest
                            /\ i.at + LockDuration <= req[r].checkedAt
    BY <2>3 DEF Cleared
  <2>5. i.at \in Nat /\ req[r].checkedAt \in Nat /\ req[r].checkedAt <= now
    BY <2>3, <1>b DEF TypeOK, Issue, Cleared, Request
  <2>6. i.at + LockDuration <= now
    BY <2>4, <2>5, <1>b
  <2>7. ASSUME NEW t \in transfers'
        PROVE  \E j \in issued : /\ j.agent = t.agent
                                 /\ j.wallet = t.dest
                                 /\ j.at + LockDuration <= t.at
    <3>1. CASE t \in transfers
      BY <3>1 DEF LockInv, TransferRespectsLock
    <3>2. CASE t \notin transfers
      <4>1. t.agent = req[r].agent /\ t.dest = req[r].dest /\ t.at = now
        BY <1>4, <2>7, <3>2 DEF Land
      <4> QED BY <4>1, <2>4, <2>6
    <3> QED BY <3>1, <3>2
  <2>8. TransferRespectsLock'
    BY <2>1, <2>7 DEF TransferRespectsLock
  <2>9. /\ \A q \in Req : Cleared(q) => Cleared(q)'
        /\ \A b \in Agent : RowIssued(b, whitelist[b])'
        /\ \A d \in Change : change'[d].pc = "update"
                               => RowIssued(change[d].agent, change[d].row)'
    BY <2>1 DEF Cleared, RowIssued, LockInv
  <2> QED BY <2>1, <2>2, <2>8, <2>9 DEF LockInv
<1>5. ASSUME UNCHANGED <<whitelist, change, transfers>>,
             \A r \in Req : Keeps(r)
      PROVE  LockInv'
  BY <1>5, <1>a, LockFrame
<1>6. ASSUME NEW u \in User, NEW w \in Addr, UpdateProfile(u, w)
      PROVE  LockInv'
  BY <1>6, <1>5 DEF UpdateProfile, Keeps, InProgress, chain
<1>7. ASSUME NEW r \in Req, NEW a \in Agent, NEW body \in Addr \cup {NoAddr},
             Receive(r, a, body)
      PROVE  LockInv'
  <2>1. /\ req'[r].pc \notin InProgress /\ tx'[r] = "none"
        /\ \A q \in Req : q # r => req'[q] = req[q] /\ tx'[q] = tx[q]
    BY <1>7, <1>b DEF Receive, Started, InProgress, NoRequest, chain
  <2>2. \A q \in Req : Keeps(q)
    BY <2>1, <1>b DEF Keeps, InProgress
  <2> QED BY <1>7, <2>2, <1>5 DEF Receive, chain
<1>8. ASSUME NEW r \in Req,
             QuoteAndCheck(r) \/ PrepareTransfer(r) \/ Send(r) \/ TransferThrows(r)
               \/ Confirm(r)
      PROVE  LockInv'
  <2>1. req[r].pc \in InProgress
    BY <1>8 DEF QuoteAndCheck, PrepareTransfer, Send, TransferThrows, Confirm,
       InProgress
  <2>2. /\ req'[r].agent = req[r].agent /\ req'[r].dest = req[r].dest
        /\ req'[r].checkedAt = req[r].checkedAt
        /\ \A q \in Req : q # r => req'[q] = req[q] /\ tx'[q] = tx[q]
        /\ UNCHANGED <<whitelist, change, transfers>>
    <3>1. CASE QuoteAndCheck(r)
      <4> DEFINE amount == Max0(balance[req[r].agent] - QuoteMargin)
                 no     == [req[r] EXCEPT !.pc = "done", !.quote = amount]
                 yes    == [req[r] EXCEPT
                              !.pc = IF req[r].agent \in HasKey THEN "prepare"
                                     ELSE "done",
                              !.quote = amount, !.approved = TRUE,
                              !.approvedAt = now]
      <4>1. req' = [req EXCEPT ![r] = no] \/ req' = [req EXCEPT ![r] = yes]
        BY <3>1 DEF QuoteAndCheck
      <4>2. UNCHANGED <<whitelist, change, transfers, tx>>
        BY <3>1 DEF QuoteAndCheck, chain
      <4>3. \A q \in {no, yes} : /\ q.agent = req[r].agent /\ q.dest = req[r].dest
                                 /\ q.checkedAt = req[r].checkedAt
        BY <1>b DEF Request
      <4> HIDE DEF no, yes
      <4> QED BY <4>1, <4>2, <4>3, <1>b
    <3>2. CASE PrepareTransfer(r)
      BY <3>2, <1>b DEF PrepareTransfer, Request, chain
    <3>3. CASE Send(r) \/ TransferThrows(r)
      BY <3>3, <1>b DEF Send, TransferThrows, Request
    <3>4. CASE Confirm(r)
      BY <3>4, <1>b DEF Confirm, Request, chain
    <3> QED BY <1>8, <3>1, <3>2, <3>3, <3>4
  <2>3. \A q \in Req : Keeps(q)
    BY <2>1, <2>2, <1>b DEF Keeps
  <2> QED BY <2>2, <2>3, <1>5
<1>9. ASSUME NEW r \in Req, RouteThrows(r)
      PROVE  LockInv'
  <2>1. \A q \in Req : Keeps(q)
    BY <1>9, <1>b DEF RouteThrows, Keeps, InProgress, Request, chain
  <2> QED BY <1>9, <2>1, <1>5 DEF RouteThrows, chain
<1>10. ASSUME NEW a \in Agent, NEW n \in DepositAmount, Deposit(a, n)
       PROVE  LockInv'
  BY <1>10, <1>5 DEF Deposit, Keeps
<1>11. ASSUME NEW r \in Req, Expire(r)
       PROVE  LockInv'
  <2>1. \A q \in Req : Keeps(q)
    BY <1>11, <1>b DEF Expire, Keeps
  <2> QED BY <1>11, <2>1, <1>5 DEF Expire
<1>12. CASE Tick
  BY <1>12, <1>5 DEF Tick, Keeps, chain
<1>13. CASE Restart
  <2>1. \A r \in Req : /\ req'[r].pc \notin InProgress /\ tx'[r] = tx[r]
                        /\ req'[r].agent = req[r].agent
                        /\ req'[r].dest = req[r].dest
                        /\ req'[r].checkedAt = req[r].checkedAt
    BY <1>13, <1>b DEF Restart, chain, InProgress, Request
  <2>2. \A r \in Req : Keeps(r)
    BY <2>1 DEF Keeps
  <2>3. \A c \in Change : change'[c].pc # "update"
    BY <1>13 DEF Restart, TypeOK, WhitelistChange
  <2> QED BY <1>13, <2>2, <2>3, <1>a, LockFrame DEF Restart, chain
<1>14. CASE UNCHANGED vars
  BY <1>14, <1>5 DEF vars, Keeps
<1> QED
  BY <1>1, <1>2, <1>3, <1>4, <1>6, <1>7, <1>8, <1>9, <1>10, <1>11, <1>12, <1>13,
     <1>14 DEF Next

\* Whatever whitelist changes, withdrawals, profile updates, deposits, failures
\* and restarts interleave, the inductive invariant holds (TransferRespectsLock
\* is one of its conjuncts).
THEOREM LockInvariant == Spec => []LockInv
<1>1. Init => LockInv
  BY DEF Init, LockInv, RowIssued, NoRow, NoRequest, NoChange, TransferRespectsLock
<1>2. TypeOK /\ TypeOK' /\ LockInv /\ [Next]_vars => LockInv'
  BY LockStep
<1> QED BY <1>1, <1>2, TypeCorrect, PTL DEF Spec

\* Every transfer goes to a wallet requested for the agent's whitelist at least
\* LockDuration before it lands.
THEOREM LockRespected == Spec => []TransferRespectsLock
<1>1. LockInv => TransferRespectsLock
  BY DEF LockInv
<1> QED BY <1>1, LockInvariant, PTL
=============================================================================
