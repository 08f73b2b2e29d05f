---------------------- MODULE WithdrawalPayoutProofs ------------------------
(***************************************************************************)
(* Withdrawal implements Payout, for every set of agents, addresses,       *)
(* requests and changes: each of its steps is a step of Payout, seen       *)
(* through WithdrawalPayout, or changes nothing there.  So it keeps what   *)
(* Payout promises.                                                        *)
(***************************************************************************)
EXTENDS WithdrawalPayout, WithdrawalProofs

Stage == [r \in Req |-> StageOf(r)]
Payee == [r \in Req |-> PayeeOf(r)]
Payment == {PaymentOf(t) : t \in transfers}

\* What the mapping reads the stage of a request from: its handler has handed a
\* transaction over exactly when the chain knows of one, or the handler is over.
HandedOver ==
    \A r \in Req :
      /\ tx[r] # "none" => req[r].pc \in {"confirm", "done", "lost"}
      /\ req[r].pc = "confirm" => tx[r] # "none"

RInv == TypeOK /\ LockInv /\ HandedOver

-----------------------------------------------------------------------------
(* Steps of one request, seen through the mapping.                         *)

\* Nothing but request r and its transaction changed, and no payment was made.
Only(r) ==
    /\ UNCHANGED <<now, issued, transfers>>
    /\ \A q \in Req \ {r} : req'[q] = req[q] /\ tx'[q] = tx[q]

LEMMA OthersStay ==
  ASSUME NEW r \in Req, Only(r)
  PROVE  /\ UNCHANGED <<now, issued, Payment>>
         /\ Stage' = [Stage EXCEPT ![r] = StageOf(r)']
         /\ Payee' = [Payee EXCEPT ![r] = PayeeOf(r)']
<1>1. \A q \in Req \ {r} : StageOf(q)' = StageOf(q) /\ PayeeOf(q)' = PayeeOf(q)
  BY DEF Only, StageOf, PayeeOf
<1>2. UNCHANGED <<now, issued, Payment>>
  BY DEF Only, Payment, PaymentOf
<1> QED BY <1>1, <1>2 DEF Stage, Payee

\* A request that did not move.
LEMMA Stutters ==
  ASSUME NEW r \in Req, Only(r), StageOf(r)' = StageOf(r), PayeeOf(r)' = PayeeOf(r)
  PROVE  UNCHANGED P!vars
<1>1. Stage' = Stage /\ Payee' = Payee
  BY OthersStay DEF Stage, Payee
<1> QED BY <1>1, OthersStay DEF P!vars, Stage, Payee, Payment

\* A request that went on for the same payee.
LEMMA Proceeds ==
  ASSUME NEW r \in Req, Only(r), NEW from, NEW to,
         StageOf(r) = from, StageOf(r)' = to, PayeeOf(r)' = PayeeOf(r)
  PROVE  P!Proceed(r, from, to)
<1>1. Payee' = Payee
  BY OthersStay DEF Payee
<1> QED BY <1>1, OthersStay DEF P!Proceed, Stage, Payee, Payment

\* A request that ended without a payment.
LEMMA Ends ==
  ASSUME NEW r \in Req, Only(r), StageOf(r)' = "closed"
  PROVE  /\ StageOf(r) \in {"open", "cleared", "approved"} => P!GiveUp({r})
         /\ StageOf(r) = "sent" => P!Fail(r)
<1>1. PayeeOf(r)' = {}
  BY DEF PayeeOf
<1>2. /\ Stage' = [Stage EXCEPT ![r] = "closed"]
      /\ Payee' = [Payee EXCEPT ![r] = {}]
  BY <1>1, OthersStay
<1>3. /\ Stage' = [q \in Req |-> IF q \in {r} THEN "closed" ELSE Stage[q]]
      /\ Payee' = [q \in Req |-> IF q \in {r} THEN {} ELSE Payee[q]]
  BY <1>2 DEF Stage, Payee
<1> QED BY <1>2, <1>3, OthersStay DEF P!GiveUp, P!Fail, Stage, Payee, Payment

\* The stage of a request by its handler, and once it has a transaction by the chain.
LEMMA Stages ==
  ASSUME NEW r
  PROVE  /\ tx[r] = "none" =>
              /\ req[r].pc \in {"idle", "whitelist"} => StageOf(r) = "open"
              /\ req[r].pc = "quote" => StageOf(r) = "cleared"
              /\ req[r].pc \in {"prepare", "send"} => StageOf(r) = "approved"
              /\ req[r].pc \in {"done", "lost"} => StageOf(r) = "closed"
         /\ tx[r] = "pending" => StageOf(r) = "sent"
         /\ tx[r] = "paid" => StageOf(r) = "paid"
         /\ tx[r] \in {"failed", "expired"} => StageOf(r) = "closed"
BY DEF StageOf

LEMMA StagesNext ==
  ASSUME NEW r
  PROVE  /\ tx'[r] = "none" =>
              /\ req'[r].pc \in {"idle", "whitelist"} => StageOf(r)' = "open"
              /\ req'[r].pc = "quote" => StageOf(r)' = "cleared"
              /\ req'[r].pc \in {"prepare", "send"} => StageOf(r)' = "approved"
              /\ req'[r].pc \in {"done", "lost"} => StageOf(r)' = "closed"
         /\ tx'[r] = "pending" => StageOf(r)' = "sent"
         /\ tx'[r] = "paid" => StageOf(r)' = "paid"
         /\ tx'[r] \in {"failed", "expired"} => StageOf(r)' = "closed"
BY DEF StageOf

\* A step of the handler of r, by what it does to its program counter and transaction.
LEMMA HandlerMoves ==
  ASSUME RInv, TypeOK', NEW r \in Req,
         \/ CheckWhitelist(r) \/ QuoteAndCheck(r) \/ RouteThrows(r)
         \/ PrepareTransfer(r) \/ Send(r) \/ TransferThrows(r) \/ Confirm(r)
  PROVE  /\ Only(r)
         /\ req'[r].agent = req[r].agent /\ req'[r].dest = req[r].dest
         /\ req[r].pc \notin {"idle", "done", "lost"}
         /\ req[r].pc # "confirm" => tx[r] = "none"
         /\ \/ tx'[r] = tx[r] /\ req'[r].pc = "done"
            \/ /\ tx'[r] = tx[r] /\ req[r].pc # "confirm"
               /\ \/ /\ req[r].pc = "whitelist" /\ req'[r].pc = "quote"
                     /\ withdrawalAllowed(req[r].agent, req[r].dest)
                  \/ req[r].pc = "quote" /\ req'[r].pc = "prepare"
                  \/ req[r].pc = "prepare" /\ req'[r].pc = "send"
            \/ /\ tx'[r] = "pending" /\ req[r].pc = "send"
               /\ req'[r].pc \in {"confirm", "done"}
<1>1. req \in [Req -> Request] /\ tx \in [Req -> {"none", "pending", "paid", "failed", "expired"}]
  BY DEF RInv, TypeOK
<1>2. req[r] \in Request
  BY <1>1
<1>3. tx[r] # "none" => req[r].pc \in {"confirm", "done", "lost"}
  BY DEF RInv, HandedOver
<1>4. CASE CheckWhitelist(r)
  <2>1. UNCHANGED <<now, issued, transfers, tx>> /\ req[r].pc = "whitelist"
    BY <1>4 DEF CheckWhitelist, chain
  <2>2. CASE withdrawalAllowed(req[r].agent, req[r].dest)
    <3>1. req' = [req EXCEPT ![r] = [@ EXCEPT !.pc = "quote", !.checkedAt = now]]
      BY <1>4, <2>2 DEF CheckWhitelist
    <3> QED BY <1>1, <1>2, <1>3, <2>1, <2>2, <3>1 DEF Only, Request
  <2>3. CASE ~withdrawalAllowed(req[r].agent, req[r].dest)
    <3>1. req' = [req EXCEPT ![r].pc = "done"]
      BY <1>4, <2>3 DEF CheckWhitelist
    <3> QED BY <1>1, <1>2, <1>3, <2>1, <3>1 DEF Only, Request
  <2> QED BY <2>2, <2>3
<1>5. CASE QuoteAndCheck(r)
  <2>1. UNCHANGED <<now, issued, transfers, tx>> /\ req[r].pc = "quote"
    BY <1>5 DEF QuoteAndCheck, chain
  <2>2. /\ \A q \in Req \ {r} : req'[q] = req[q]
        /\ req'[r].pc \in {"prepare", "done"}
        /\ req'[r].agent = req[r].agent /\ req'[r].dest = req[r].dest
    <3> DEFINE amount == Max0(balance[req[r].agent] - QuoteMargin)
    <3>1. \/ req' = [req EXCEPT ![r] = [@ EXCEPT !.pc = "done", !.quote = amount]]
          \/ \E pc \in {"prepare", "done"} :
               req' = [req EXCEPT ![r] = [@ EXCEPT
                         !.pc = pc, !.quote = amount, !.approved = TRUE,
                         !.approvedAt = now]]
      BY <1>5 DEF QuoteAndCheck
    <3> HIDE DEF amount
    <3>2. CASE req' = [req EXCEPT ![r] = [@ EXCEPT !.pc = "done", !.quote = amount]]
      BY <1>1, <1>2, <3>2 DEF Request
    <3>3. ASSUME NEW pc \in {"prepare", "done"},
                 req' = [req EXCEPT ![r] = [@ EXCEPT
                           !.pc = pc, !.quote = amount, !.approved = TRUE,
                           !.approvedAt = now]]
          PROVE  /\ \A q \in Req \ {r} : req'[q] = req[q]
                 /\ req'[r].pc = pc
                 /\ req'[r].agent = req[r].agent /\ req'[r].dest = req[r].dest
      BY <1>1, <1>2, <3>3 DEF Request
    <3> QED BY <3>1, <3>2, <3>3
  <2> QED BY <1>3, <2>1, <2>2 DEF Only
<1>6. CASE RouteThrows(r)
  <2>1. UNCHANGED <<now, issued, transfers, tx>> /\ req[r].pc \in {"whitelist", "quote"}
        /\ req' = [req EXCEPT ![r].pc = "done"]
    BY <1>6 DEF RouteThrows, chain
  <2> QED BY <1>1, <1>2, <1>3, <2>1 DEF Only, Request
<1>7. CASE PrepareTransfer(r)
  <2>1. UNCHANGED <<now, issued, transfers, tx>> /\ req[r].pc = "prepare"
    BY <1>7 DEF PrepareTransfer, chain
  <2>2. /\ \A q \in Req \ {r} : req'[q] = req[q]
        /\ req'[r].pc \in {"send", "done"}
        /\ req'[r].agent = req[r].agent /\ req'[r].dest = req[r].dest
    <3> DEFINE most == balance[req[r].agent] - Fee - Rent
    <3>1. \/ req' = [req EXCEPT ![r].pc = "done"]
          \/ req' = [req EXCEPT ![r] = [@ EXCEPT !.pc = "send", !.amount = most]]
      BY <1>7 DEF PrepareTransfer
    <3> HIDE DEF most
    <3>2. CASE req' = [req EXCEPT ![r].pc = "done"]
      BY <1>1, <1>2, <3>2 DEF Request
    <3>3. CASE req' = [req EXCEPT ![r] = [@ EXCEPT !.pc = "send", !.amount = most]]
      BY <1>1, <1>2, <3>3 DEF Request
    <3> QED BY <3>1, <3>2, <3>3
  <2> QED BY <1>3, <2>1, <2>2 DEF Only
<1>8. CASE Send(r)
  <2>1. UNCHANGED <<now, issued, transfers>> /\ req[r].pc = "send"
        /\ req' = [req EXCEPT ![r].pc = "confirm"] /\ tx' = [tx EXCEPT ![r] = "pending"]
    BY <1>8 DEF Send
  <2> QED BY <1>1, <1>2, <1>3, <2>1 DEF Only, Request
<1>9. CASE TransferThrows(r)
  <2>1. UNCHANGED <<now, issued, transfers>> /\ req[r].pc \in {"prepare", "send", "confirm"}
        /\ req' = [req EXCEPT ![r].pc = "done"]
    BY <1>9 DEF TransferThrows
  <2>2. \/ UNCHANGED tx
        \/ req[r].pc = "send" /\ tx' = [tx EXCEPT ![r] = "pending"]
    BY <1>9 DEF TransferThrows
  <2> QED BY <1>1, <1>2, <1>3, <2>1, <2>2 DEF Only, Request
<1>10. CASE Confirm(r)
  <2>1. UNCHANGED <<now, issued, transfers, tx>> /\ req[r].pc = "confirm"
        /\ req' = [req EXCEPT ![r] = [@ EXCEPT !.pc = "done", !.success = TRUE]]
    BY <1>10 DEF Confirm, chain
  <2> QED BY <1>1, <1>2, <1>3, <2>1 DEF Only, Request
<1> QED BY <1>4, <1>5, <1>6, <1>7, <1>8, <1>9, <1>10

\* A wallet the whitelist lets pass was issued in time.
LEMMA AllowedIsMatured ==
  ASSUME RInv, NEW a \in Agent, NEW w \in Addr, withdrawalAllowed(a, w)
  PROVE  P!Matured(a, w)
<1>1. /\ RowIssued(a, whitelist[a]) /\ whitelist[a].wallet = w /\ w # NoAddr
      /\ ~(now < whitelist[a].lockedUntil)
  BY DEF RInv, LockInv, withdrawalAllowed, isLocked
<1>2. PICK i \in issued : i.agent = a /\ i.wallet = w
                          /\ i.at + LockDuration = whitelist[a].lockedUntil
  BY <1>1 DEF RowIssued
<1>3. now \in Nat /\ whitelist[a].lockedUntil \in Nat
  BY DEF RInv, TypeOK, Row
<1>4. i.at + LockDuration <= now
  BY <1>1, <1>2, <1>3
<1> QED BY <1>2, <1>4 DEF P!Matured

\* Each step of a handler is a step of Payout for its request, or nothing.
LEMMA HandlerSteps ==
  ASSUME RInv, TypeOK', NEW r \in Req,
         \/ CheckWhitelist(r) \/ QuoteAndCheck(r) \/ RouteThrows(r)
         \/ PrepareTransfer(r) \/ Send(r) \/ TransferThrows(r) \/ Confirm(r)
  PROVE  (P!Next \/ UNCHANGED P!vars) /\ HandedOver'
<1>1. /\ Only(r)
      /\ req'[r].agent = req[r].agent /\ req'[r].dest = req[r].dest
      /\ req[r].pc \notin {"idle", "done", "lost"}
      /\ req[r].pc # "confirm" => tx[r] = "none"
  BY HandlerMoves
<1>2. /\ req[r].pc \in {"whitelist", "quote", "prepare", "send", "confirm"}
      /\ req[r].agent \in Agent /\ req[r].dest \in Addr
      /\ tx[r] \in {"none", "pending", "paid", "failed", "expired"}
  BY <1>1 DEF RInv, TypeOK, Request, Started
<1>3. \A q \in Req \ {r} : /\ tx'[q] # "none" => req'[q].pc \in {"confirm", "done", "lost"}
                           /\ req'[q].pc = "confirm" => tx'[q] # "none"
  BY <1>1 DEF Only, RInv, HandedOver
<1>4. ASSUME StageOf(r)' = "closed", StageOf(r) \in {"open", "cleared", "approved"}
      PROVE  P!Next
  BY <1>1, <1>4, Ends DEF P!Next
<1>5. CASE tx'[r] = tx[r] /\ req'[r].pc = "done"
  <2>1. HandedOver'
    BY <1>3, <1>5 DEF HandedOver
  <2>2. CASE req[r].pc # "confirm"
    BY <1>1, <1>2, <1>4, <1>5, <2>1, <2>2, Stages, StagesNext
  <2>3. CASE req[r].pc = "confirm"
    <3>1. tx[r] # "none"
      BY <2>3 DEF RInv, HandedOver
    <3>2. StageOf(r)' = StageOf(r)
      BY <1>2, <1>5, <3>1, Stages DEF StageOf
    <3>3. PayeeOf(r)' = PayeeOf(r)
      BY <1>1, <3>2 DEF PayeeOf
    <3> QED BY <1>1, <2>1, <3>2, <3>3, Stutters
  <2> QED BY <2>2, <2>3
<1>6. ASSUME tx'[r] = tx[r], req[r].pc = "whitelist", req'[r].pc = "quote",
             withdrawalAllowed(req[r].agent, req[r].dest)
      PROVE  P!Next
  <2>1. StageOf(r) = "open" /\ StageOf(r)' = "cleared"
    BY <1>1, <1>6, Stages, StagesNext
  <2>2. PayeeOf(r)' = {<<req[r].agent, req[r].dest>>}
    BY <1>1, <2>1 DEF PayeeOf
  <2>3. P!Matured(req[r].agent, req[r].dest)
    BY <1>2, <1>6, AllowedIsMatured
  <2>4. P!Clear(r, req[r].agent, req[r].dest)
    BY <1>1, <2>1, <2>2, <2>3, OthersStay DEF P!Clear, Stage, Payee, Payment
  <2> QED BY <1>2, <2>4 DEF P!Next
<1>7. ASSUME tx'[r] = tx[r], req[r].pc = "quote", req'[r].pc = "prepare"
      PROVE  P!Next
  <2>1. StageOf(r) = "cleared" /\ StageOf(r)' = "approved"
    BY <1>1, <1>7, Stages, StagesNext
  <2>2. PayeeOf(r)' = PayeeOf(r)
    BY <1>1, <2>1 DEF PayeeOf
  <2>3. P!Approve(r)
    BY <1>1, <2>1, <2>2, Proceeds DEF P!Approve
  <2> QED BY <2>3 DEF P!Next
<1>8. ASSUME tx'[r] = tx[r], req[r].pc = "prepare", req'[r].pc = "send"
      PROVE  UNCHANGED P!vars
  <2>1. StageOf(r) = "approved" /\ StageOf(r)' = "approved"
    BY <1>1, <1>8, Stages, StagesNext
  <2>2. PayeeOf(r)' = PayeeOf(r)
    BY <1>1, <2>1 DEF PayeeOf
  <2> QED BY <1>1, <2>1, <2>2, Stutters
<1>9. ASSUME tx'[r] = "pending", req[r].pc = "send"
      PROVE  P!Next
  <2>1. StageOf(r) = "approved" /\ StageOf(r)' = "sent"
    BY <1>1, <1>9, Stages, StagesNext
  <2>2. PayeeOf(r)' = PayeeOf(r)
    BY <1>1, <2>1 DEF PayeeOf
  <2>3. P!Send(r)
    BY <1>1, <2>1, <2>2, Proceeds DEF P!Send
  <2> QED BY <2>3 DEF P!Next
<1>10. CASE /\ tx'[r] = tx[r] /\ req[r].pc # "confirm"
            /\ \/ /\ req[r].pc = "whitelist" /\ req'[r].pc = "quote"
                  /\ withdrawalAllowed(req[r].agent, req[r].dest)
               \/ req[r].pc = "quote" /\ req'[r].pc = "prepare"
               \/ req[r].pc = "prepare" /\ req'[r].pc = "send"
  <2>1. HandedOver'
    BY <1>1, <1>3, <1>10 DEF HandedOver
  <2> QED BY <1>6, <1>7, <1>8, <1>10, <2>1
<1>11. CASE tx'[r] = "pending" /\ req[r].pc = "send" /\ req'[r].pc \in {"confirm", "done"}
  <2>1. HandedOver'
    BY <1>3, <1>11 DEF HandedOver
  <2> QED BY <1>9, <1>11, <2>1
<1> QED BY <1>5, <1>10, <1>11, HandlerMoves

-----------------------------------------------------------------------------
(* The other steps.                                                        *)

\* A request is received.
LEMMA ReceiveStep ==
  ASSUME RInv, TypeOK', NEW r \in Req, NEW a \in Agent, NEW body \in Addr \cup {NoAddr},
         Receive(r, a, body)
  PROVE  (P!Next \/ UNCHANGED P!vars) /\ HandedOver'
<1> DEFINE dest == IF body # NoAddr THEN body ELSE profile[Owner[a]]
           new  == [NoRequest EXCEPT !.pc = IF dest = NoAddr THEN "done" ELSE "whitelist",
                                     !.agent = a, !.dest = dest]
<1>1. req[r].pc = "idle" /\ req' = [req EXCEPT ![r] = new]
      /\ UNCHANGED <<now, issued, transfers, tx>>
  BY DEF Receive, chain
<1>2. new.pc \in {"done", "whitelist"}
  BY DEF NoRequest
<1> HIDE DEF new, dest
<1>3. req'[r] = new /\ \A q \in Req \ {r} : req'[q] = req[q]
  BY <1>1 DEF RInv, TypeOK
<1>4. tx[r] = "none"
  BY <1>1 DEF RInv, HandedOver
<1>5. Only(r)
  BY <1>1, <1>3 DEF Only
<1>6. HandedOver'
  BY <1>1, <1>2, <1>3, <1>4 DEF RInv, HandedOver
<1>7. StageOf(r) = "open"
  BY <1>1, <1>4, Stages
<1>8. CASE new.pc = "done"
  <2>1. StageOf(r)' = "closed"
    BY <1>1, <1>3, <1>4, <1>8, StagesNext
  <2> QED BY <1>5, <1>6, <1>7, <2>1, Ends DEF P!Next
<1>9. CASE new.pc = "whitelist"
  <2>1. StageOf(r)' = "open"
    BY <1>1, <1>3, <1>4, <1>9, StagesNext
  <2>2. PayeeOf(r)' = PayeeOf(r)
    BY <1>7, <2>1 DEF PayeeOf
  <2> QED BY <1>5, <1>6, <1>7, <2>1, <2>2, Stutters
<1> QED BY <1>2, <1>8, <1>9

\* A transaction lands or expires.
LEMMA ChainStep ==
  ASSUME RInv, TypeOK', NEW r \in Req, Land(r) \/ Expire(r)
  PROVE  P!Next /\ HandedOver'
<1>1. /\ UNCHANGED <<now, issued, req>>
      /\ tx[r] = "pending"
      /\ tx \in [Req -> {"none", "pending", "paid", "failed", "expired"}]
  BY DEF Land, Expire, RInv, TypeOK
<1>2. PICK status \in {"paid", "failed", "expired"} : tx' = [tx EXCEPT ![r] = status]
  BY DEF Land, Expire
<1>3. tx'[r] = status /\ \A q \in Req \ {r} : tx'[q] = tx[q]
  BY <1>1, <1>2
<1>4. HandedOver'
  BY <1>1, <1>3 DEF RInv, HandedOver
<1>5. StageOf(r) = "sent"
  BY <1>1, Stages
<1>6. /\ req[r].agent \in Agent /\ req[r].dest \in Addr
      /\ PayeeOf(r) = {<<req[r].agent, req[r].dest>>}
  BY <1>1, <1>5 DEF RInv, TypeOK, Started, PayeeOf
<1>7. CASE status = "paid"
  <2> DEFINE t == [req |-> r, agent |-> req[r].agent, dest |-> req[r].dest,
                   amount |-> req[r].amount, at |-> now]
  <2>1. transfers' = transfers \cup {t}
    BY <1>1, <1>2, <1>7 DEF Land, Expire, TypeOK, RInv
  <2>2. PaymentOf(t) = [req |-> r, agent |-> req[r].agent, wallet |-> req[r].dest,
                        at |-> now]
    BY DEF PaymentOf
  <2> HIDE DEF t
  <2>3. {PaymentOf(x) : x \in transfers'} = {PaymentOf(x) : x \in transfers} \cup {PaymentOf(t)}
    BY <2>1
  <2>4. \A x : PaymentOf(x)' = PaymentOf(x)
    BY DEF PaymentOf
  <2>5. StageOf(r)' = "paid"
    BY <1>3, <1>7, StagesNext
  <2>6. PayeeOf(r)' = PayeeOf(r)
    BY <1>1, <1>5, <2>5 DEF PayeeOf
  <2>7. \A q \in Req \ {r} : StageOf(q)' = StageOf(q) /\ PayeeOf(q)' = PayeeOf(q)
    BY <1>1, <1>3 DEF StageOf, PayeeOf
  <2>8. /\ Stage' = [Stage EXCEPT ![r] = "paid"]
        /\ Payee' = Payee
    BY <2>5, <2>6, <2>7 DEF Stage, Payee
  <2>9. Payment' = Payment \cup {[req |-> r, agent |-> req[r].agent,
                                  wallet |-> req[r].dest, at |-> now]}
    BY <2>2, <2>3 DEF Payment, PaymentOf
  <2>10. P!Pay(r, req[r].agent, req[r].dest)
    BY <1>1, <1>5, <1>6, <2>8, <2>9 DEF P!Pay, Stage, Payee, Payment
  <2> QED BY <1>4, <1>6, <2>10 DEF P!Next
<1>8. CASE status # "paid"
  <2>1. transfers' = transfers
    BY <1>2, <1>3, <1>8 DEF Land, Expire
  <2>2. Only(r)
    BY <1>1, <1>3, <2>1 DEF Only
  <2>3. StageOf(r)' = "closed"
    BY <1>3, <1>8, StagesNext
  <2> QED BY <1>4, <1>5, <2>2, <2>3, Ends DEF P!Next
<1> QED BY <1>7, <1>8

\* A restart ends the requests in progress, and nothing that was sent.
LEMMA RestartStep ==
  ASSUME RInv, TypeOK', Restart
  PROVE  P!Next /\ HandedOver'
<1> DEFINE R == {r \in Req : tx[r] = "none" /\ req[r].pc \notin {"idle", "done", "lost"}}
<1>1. UNCHANGED <<now, issued, transfers, tx>>
  BY DEF Restart, chain
<1>2. /\ req \in [Req -> Request]
      /\ tx \in [Req -> {"none", "pending", "paid", "failed", "expired"}]
  BY DEF RInv, TypeOK
<1>3. req' = [r \in Req |-> [req[r] EXCEPT
                !.pc = IF @ \in {"idle", "done"} THEN @ ELSE "lost",
                !.approved = FALSE]]
  BY DEF Restart
<1>4. \A r \in Req :
        /\ req'[r].pc = IF req[r].pc \in {"idle", "done"} THEN req[r].pc ELSE "lost"
        /\ req'[r].agent = req[r].agent /\ req'[r].dest = req[r].dest
  BY <1>2, <1>3 DEF Request
<1>5. HandedOver'
  BY <1>1, <1>4 DEF RInv, HandedOver
<1>6. ASSUME NEW r \in Req
      PROVE  /\ r \in R => /\ StageOf(r) \in {"open", "cleared", "approved"}
                           /\ StageOf(r)' = "closed" /\ PayeeOf(r)' = {}
             /\ r \notin R => StageOf(r)' = StageOf(r) /\ PayeeOf(r)' = PayeeOf(r)
  <2>1. req[r].pc \in {"idle", "whitelist", "quote", "prepare", "send", "confirm",
                       "done", "lost"}
    BY <1>2 DEF Request
  <2>2. CASE r \in R
    <3>1. req[r].pc # "confirm"
      BY <2>2 DEF RInv, HandedOver
    <3>2. StageOf(r) \in {"open", "cleared", "approved"}
      BY <2>1, <2>2, <3>1, Stages
    <3>3. StageOf(r)' = "closed"
      BY <1>1, <1>4, <2>2, StagesNext
    <3> QED BY <2>2, <3>2, <3>3 DEF PayeeOf
  <2>3. CASE r \notin R
    <3>1. StageOf(r)' = StageOf(r)
      BY <1>1, <1>2, <1>4, <2>1, <2>3, Stages, StagesNext
    <3> QED BY <1>4, <2>3, <3>1 DEF PayeeOf
  <2> QED BY <2>2, <2>3
<1> HIDE DEF R
<1>7. /\ Stage' = [r \in Req |-> IF r \in R THEN "closed" ELSE Stage[r]]
      /\ Payee' = [r \in Req |-> IF r \in R THEN {} ELSE Payee[r]]
  BY <1>6 DEF Stage, Payee
<1>8. R \in SUBSET Req
  BY DEF R
<1>9. Payment' = Payment
  BY <1>1 DEF Payment, PaymentOf
<1>10. P!GiveUp(R)
  BY <1>1, <1>6, <1>7, <1>8, <1>9 DEF P!GiveUp, Stage, Payee, Payment
<1> QED BY <1>5, <1>8, <1>10 DEF P!Next

\* What changes neither requests nor the chain, apart from time and issued wallets.
LEMMA OutsideStep ==
  ASSUME RInv, UNCHANGED <<req, tx, transfers>>
  PROVE  /\ UNCHANGED <<Stage, Payee, Payment>>
         /\ HandedOver'
BY DEF RInv, HandedOver, Stage, Payee, Payment, StageOf, PayeeOf, PaymentOf

LEMMA OutsideSteps ==
  ASSUME RInv, UNCHANGED <<req, tx, transfers>>,
         \/ \E c \in Change, a \in Agent, w \in Addr : ReadForChange(c, a, w)
         \/ Tick
         \/ UNCHANGED <<now, issued>>
  PROVE  (P!Next \/ UNCHANGED P!vars) /\ HandedOver'
<1>1. HandedOver' /\ UNCHANGED <<Stage, Payee, Payment>>
  BY OutsideStep
<1>2. CASE UNCHANGED <<now, issued>>
  BY <1>1, <1>2 DEF P!vars, Stage, Payee, Payment
<1>3. CASE Tick
  <2>1. P!Tick
    BY <1>1, <1>3 DEF Tick, P!Tick, Stage, Payee, Payment
  <2> QED BY <1>1, <2>1 DEF P!Next
<1>4. ASSUME NEW c \in Change, NEW a \in Agent, NEW w \in Addr, ReadForChange(c, a, w)
      PROVE  P!Next \/ UNCHANGED P!vars
  <2>1. now' = now
    BY <1>4 DEF ReadForChange
  <2>2. CASE issued' = issued
    BY <1>2, <2>1, <2>2
  <2>3. CASE issued' = issued \cup {[agent |-> a, wallet |-> w, at |-> now]}
    <3>1. P!Issue(a, w)
      BY <1>1, <2>1, <2>3 DEF P!Issue, Stage, Payee, Payment
    <3> QED BY <3>1 DEF P!Next
  <2> QED BY <1>4, <2>2, <2>3 DEF ReadForChange
<1> QED BY <1>1, <1>2, <1>3, <1>4

-----------------------------------------------------------------------------
\* Each step of Withdrawal is a step of Payout, or nothing.
LEMMA EachStep ==
  ASSUME RInv, TypeOK', [Next]_vars
  PROVE  (P!Next \/ UNCHANGED P!vars) /\ HandedOver'
<1>1. CASE \E c \in Change, a \in Agent, w \in Addr : ReadForChange(c, a, w)
  <2>1. UNCHANGED <<req, tx, transfers>>
    BY <1>1 DEF ReadForChange, chain
  <2> QED BY <1>1, <2>1, OutsideSteps
<1>2. CASE \/ \E c \in Change : WriteChange(c)
           \/ \E u \in User, w \in Addr : UpdateProfile(u, w)
           \/ \E a \in Agent, n \in DepositAmount : Deposit(a, n)
           \/ UNCHANGED vars
  <2>1. UNCHANGED <<req, tx, transfers, now, issued>>
    BY <1>2 DEF WriteChange, UpdateProfile, Deposit, vars, chain
  <2> QED BY <2>1, OutsideSteps
<1>3. CASE Tick
  <2>1. UNCHANGED <<req, tx, transfers>>
    BY <1>3 DEF Tick, chain
  <2> QED BY <1>3, <2>1, OutsideSteps
<1> QED BY <1>1, <1>2, <1>3, ReceiveStep, HandlerSteps, ChainStep, RestartStep DEF Next

\* What the mapping relies on holds throughout.
THEOREM Reachable == Spec => []RInv
<1>1. Init => HandedOver
  BY DEF Init, HandedOver, NoRequest
<1>2. Spec => [](TypeOK /\ LockInv)
  BY TypeCorrect, LockInvariant, PTL
<1>3. (TypeOK /\ LockInv) /\ TypeOK' /\ HandedOver /\ [Next]_vars => HandedOver'
  BY EachStep DEF RInv
<1>4. (TypeOK /\ LockInv) /\ HandedOver => RInv
  BY DEF RInv
<1> QED BY <1>1, <1>2, <1>3, <1>4, PTL DEF Spec

\* Withdrawals are payouts: a request is paid at most once, after it was cleared,
\* approved and sent, to the wallet it was cleared for, and cleared only for a wallet
\* issued LockDuration before.
THEOREM Implements == Spec => ImplementsPayout
<1>1. Init => P!Init
  <2> SUFFICES ASSUME Init PROVE P!Init
    OBVIOUS
  <2>1. \A r \in Req : StageOf(r) = "open" /\ PayeeOf(r) = {}
    BY DEF Init, NoRequest, StageOf, PayeeOf
  <2> QED BY <2>1 DEF Init, P!Init
<1>2. RInv /\ TypeOK' /\ [Next]_vars => [P!Next]_(P!vars)
  BY EachStep
<1>3. Spec => []TypeOK
  BY TypeCorrect
<1> QED BY <1>1, <1>2, <1>3, Reachable, PTL DEF Spec, ImplementsPayout, P!Spec

-----------------------------------------------------------------------------
(* Only what landed is logged as complete.                                 *)

\* A transaction in a block stays as it is there: nothing is handed over twice.
LEMMA LandedStays ==
  ASSUME RInv, [Next]_vars, NEW q \in Req, tx[q] \in {"paid", "failed"}
  PROVE  tx'[q] = tx[q]
<1>1. tx \in [Req -> {"none", "pending", "paid", "failed", "expired"}]
  BY DEF RInv, TypeOK
<1>2. req[q].pc \in {"confirm", "done", "lost"}
  BY DEF RInv, HandedOver
<1>3. CASE UNCHANGED tx
  BY <1>3
<1>4. ASSUME NEW r \in Req, NEW status \in {"paid", "failed", "expired", "pending"},
             r # q, tx' = [tx EXCEPT ![r] = status]
      PROVE  tx'[q] = tx[q]
  BY <1>1, <1>4
<1>5. ASSUME NEW r \in Req, Send(r) \/ TransferThrows(r)
      PROVE  tx'[q] = tx[q]
  BY <1>2, <1>3, <1>4, <1>5 DEF Send, TransferThrows
<1>6. ASSUME NEW r \in Req, Land(r) \/ Expire(r)
      PROVE  tx'[q] = tx[q]
  BY <1>4, <1>6 DEF Land, Expire
<1>7. CASE \/ \E c \in Change, a \in Agent, w \in Addr : ReadForChange(c, a, w)
           \/ \E c \in Change : WriteChange(c)
           \/ \E u \in User, w \in Addr : UpdateProfile(u, w)
           \/ \E r \in Req, a \in Agent, body \in Addr \cup {NoAddr} : Receive(r, a, body)
           \/ \E r \in Req : \/ CheckWhitelist(r) \/ QuoteAndCheck(r) \/ RouteThrows(r)
                             \/ PrepareTransfer(r) \/ Confirm(r)
           \/ \E a \in Agent, n \in DepositAmount : Deposit(a, n)
           \/ Tick \/ Restart \/ UNCHANGED vars
  BY <1>3, <1>7 DEF ReadForChange, WriteChange, UpdateProfile, Receive, CheckWhitelist,
     QuoteAndCheck, RouteThrows, PrepareTransfer, Confirm, Deposit, Tick, Restart, vars, chain
<1> QED BY <1>5, <1>6, <1>7 DEF Next

\* A complete event is made only by a confirmation.
LEMMA CompleteIsConfirmed ==
  ASSUME [Next]_vars, NEW q \in Req, <<q, "complete">> \in audit'
  PROVE  <<q, "complete">> \in audit \/ tx[q] \in {"paid", "failed"}
<1>1. ASSUME NEW r \in Req, NEW e \in {"blocked", "aml_blocked", "error"},
             audit' = audit \cup {<<r, e>>}
      PROVE  <<q, "complete">> \in audit
  BY <1>1
<1>2. ASSUME NEW r \in Req, CheckWhitelist(r) \/ QuoteAndCheck(r) \/ RouteThrows(r)
      PROVE  <<q, "complete">> \in audit
  BY <1>1, <1>2 DEF CheckWhitelist, QuoteAndCheck, RouteThrows
<1>3. ASSUME NEW r \in Req, Confirm(r)
      PROVE  <<q, "complete">> \in audit \/ tx[q] \in {"paid", "failed"}
  BY <1>3 DEF Confirm
<1>4. CASE Restart
  BY <1>4 DEF Restart
<1>5. CASE \/ \E c \in Change, a \in Agent, w \in Addr : ReadForChange(c, a, w)
           \/ \E c \in Change : WriteChange(c)
           \/ \E u \in User, w \in Addr : UpdateProfile(u, w)
           \/ \E r \in Req, a \in Agent, body \in Addr \cup {NoAddr} : Receive(r, a, body)
           \/ \E r \in Req : \/ PrepareTransfer(r) \/ Send(r) \/ TransferThrows(r)
                             \/ Land(r) \/ Expire(r)
           \/ \E a \in Agent, n \in DepositAmount : Deposit(a, n)
           \/ Tick \/ UNCHANGED vars
  BY <1>5 DEF ReadForChange, WriteChange, UpdateProfile, Receive, PrepareTransfer, Send,
     TransferThrows, Land, Expire, Deposit, Tick, vars
<1> QED BY <1>2, <1>3, <1>4, <1>5 DEF Next

\* Nothing is logged as complete before its transaction is in a block.
THEOREM CompletesLanded == Spec => []CompleteMeansLanded
<1>1. Init => CompleteMeansLanded
  BY DEF Init, CompleteMeansLanded
<1>2. RInv /\ CompleteMeansLanded /\ [Next]_vars => CompleteMeansLanded'
  BY LandedStays, CompleteIsConfirmed DEF CompleteMeansLanded
<1> QED BY <1>1, <1>2, Reachable, PTL DEF Spec
-----------------------------------------------------------------------------
(* A request pays at most once.                                            *)

\* What makes PaidOnce inductive: the chain has the transaction of a request that
\* paid as paid, so that none of its transactions can land any more.
PaidKnown == \A t \in transfers : tx[t.req] = "paid"

\* Only a pending transaction that lands adds a transfer, the one of its request.
LEMMA LandPays ==
  ASSUME RInv, [Next]_vars, transfers' # transfers
  PROVE  \E r \in Req : \E t :
           /\ tx[r] = "pending" /\ tx'[r] = "paid"
           /\ t.req = r /\ transfers' = transfers \cup {t}
<1>1. \E r \in Req : Land(r)
  BY DEF Next, ReadForChange, WriteChange, UpdateProfile, Receive, CheckWhitelist,
     QuoteAndCheck, RouteThrows, PrepareTransfer, Send, TransferThrows, Confirm, Expire,
     Deposit, Tick, Restart, vars, chain
<1>2. PICK r \in Req : Land(r)
  BY <1>1
<1> DEFINE t == [req |-> r, agent |-> req[r].agent, dest |-> req[r].dest,
                 amount |-> req[r].amount, at |-> now]
<1>3. t.req = r
  OBVIOUS
<1>4. tx[r] = "pending" /\ tx' = [tx EXCEPT ![r] = "paid"] /\ transfers' = transfers \cup {t}
  BY <1>2 DEF Land
<1>5. tx'[r] = "paid"
  BY <1>4 DEF RInv, TypeOK
<1> HIDE DEF t
<1> QED BY <1>3, <1>4, <1>5

\* Whatever times out, throws after the send, or is lost in a restart, a request never
\* pays a second time.
THEOREM PaidAtMostOnce == Spec => []PaidOnce
<1>1. Init => PaidKnown /\ PaidOnce
  BY DEF Init, PaidKnown, PaidOnce
<1>2. RInv /\ PaidKnown /\ PaidOnce /\ [Next]_vars => PaidKnown' /\ PaidOnce'
  <2> SUFFICES ASSUME RInv, PaidKnown, PaidOnce, [Next]_vars
               PROVE  PaidKnown' /\ PaidOnce'
    OBVIOUS
  <2>1. \A t \in transfers : t.req \in Req /\ tx[t.req] = "paid" /\ tx'[t.req] = "paid"
    BY LandedStays DEF RInv, TypeOK, Transfer, PaidKnown
  <2>2. CASE transfers' = transfers
    BY <2>1, <2>2 DEF PaidKnown, PaidOnce
  <2>3. CASE transfers' # transfers
    <3>1. PICK r \in Req :
            \E t : /\ tx[r] = "pending" /\ tx'[r] = "paid"
                   /\ t.req = r /\ transfers' = transfers \cup {t}
      BY <2>3, LandPays
    <3> PICK t : t.req = r /\ transfers' = transfers \cup {t}
      BY <3>1
    <3>2. \A s \in transfers : s.req # r
      BY <2>1, <3>1
    <3> QED BY <2>1, <3>1, <3>2 DEF PaidKnown, PaidOnce
  <2> QED BY <2>2, <2>3
<1> QED BY <1>1, <1>2, Reachable, PTL DEF Spec
-----------------------------------------------------------------------------
(* What Payout promises by itself.                                         *)

\* Whoever a request was cleared for had a wallet issued in time, and a request that
\* was paid stays at the end of its stages.
PayoutInv ==
    /\ now \in Nat
    /\ \A i \in issued : i.at \in Nat
    /\ \A r \in Req : \A a, w : Payee[r] = {<<a, w>>} => P!Matured(a, w)
    /\ \A x \in Payment : x.req \in Req /\ Stage[x.req] = "paid"
    /\ P!PaysOnce /\ P!PaysMatured

\* A wallet that matured stays so.
LEMMA MaturedStays ==
  ASSUME PayoutInv, now' \in Nat, now <= now', issued \subseteq issued'
  PROVE  \A a, w : P!Matured(a, w) => P!Matured(a, w)'
BY NumberAssumption DEF PayoutInv, P!Matured

\* A step of Payout that makes no payment, takes no request out of its last stage and
\* clears nobody new.
LEMMA PaysNothing ==
  ASSUME PayoutInv, now' \in Nat, now <= now', issued \subseteq issued',
         \A i \in issued' : i.at \in Nat,
         Payment' = Payment,
         \A r \in Req : Stage[r] = "paid" => Stage'[r] = "paid",
         \A r \in Req : Payee'[r] \in {Payee[r], {}}
  PROVE  PayoutInv'
<1>1. \A r \in Req : \A a, w : Payee'[r] = {<<a, w>>} => P!Matured(a, w)'
  BY MaturedStays DEF PayoutInv
<1>2. P!PaysOnce' /\ P!PaysMatured'
  BY DEF PayoutInv, P!PaysOnce, P!PaysMatured, Payment
<1> QED BY <1>1, <1>2 DEF PayoutInv

LEMMA PayoutStep ==
  ASSUME PayoutInv, [P!Next]_(P!vars)
  PROVE  PayoutInv'
<1> USE NumberAssumption
<1>1. /\ now \in Nat /\ \A i \in issued : i.at \in Nat
      /\ \A r \in Req : \A a, w : Payee[r] = {<<a, w>>} => P!Matured(a, w)
  BY DEF PayoutInv
<1>2. Stage = [r \in Req |-> Stage[r]] /\ Payee = [r \in Req |-> Payee[r]]
  BY DEF Stage, Payee
<1>3. CASE UNCHANGED P!vars
  <2>1. UNCHANGED <<now, issued, Stage, Payee, Payment>>
    BY <1>3 DEF P!vars, Stage, Payee, Payment
  <2> QED BY <1>1, <2>1, PaysNothing
<1>4. ASSUME NEW a \in Agent, NEW w \in Addr, P!Issue(a, w)
      PROVE  PayoutInv'
  <2>1. UNCHANGED <<now, Stage, Payee, Payment>>
    BY <1>4 DEF P!Issue, Stage, Payee, Payment
  <2>2. issued \subseteq issued' /\ \A i \in issued' : i.at \in Nat
    BY <1>1, <1>4 DEF P!Issue
  <2> QED BY <1>1, <2>1, <2>2, PaysNothing
<1>5. ASSUME NEW r \in Req, NEW a \in Agent, NEW w \in Addr, P!Clear(r, a, w)
      PROVE  PayoutInv'
  <2>1. /\ UNCHANGED <<now, issued, Payment>> /\ Stage[r] = "open" /\ P!Matured(a, w)
        /\ Stage' = [Stage EXCEPT ![r] = "cleared"]
        /\ Payee' = [Payee EXCEPT ![r] = {<<a, w>>}]
    BY <1>5 DEF P!Clear, Stage, Payee, Payment
  <2>2. \A q \in Req : \A b, v : Payee'[q] = {<<b, v>>} => P!Matured(b, v)
    <3>1. ASSUME NEW b, NEW v, {<<a, w>>} = {<<b, v>>} PROVE P!Matured(b, v)
      <4>1. <<a, w>> = <<b, v>>
        BY <3>1, Zenon
      <4>2. a = b /\ w = v
        BY <4>1
      <4> QED BY <2>1, <4>2
    <3>2. \A q \in Req : Payee'[q] = IF q = r THEN {<<a, w>>} ELSE Payee[q]
      BY <1>2, <2>1
    <3> QED BY <1>1, <3>1, <3>2
  <2>3. \A q \in Req : \A b, v : Payee'[q] = {<<b, v>>} => P!Matured(b, v)'
    BY <1>1, <2>1, <2>2, MaturedStays
  <2>4. \A x \in Payment' : x.req \in Req /\ Stage'[x.req] = "paid"
    BY <1>2, <2>1 DEF PayoutInv
  <2>5. P!PaysOnce' /\ P!PaysMatured'
    BY <2>1 DEF PayoutInv, P!PaysOnce, P!PaysMatured, Payment
  <2> QED BY <1>1, <2>1, <2>3, <2>4, <2>5 DEF PayoutInv
<1>6. ASSUME NEW r \in Req, P!Approve(r) \/ P!Send(r)
      PROVE  PayoutInv'
  <2>1. /\ UNCHANGED <<now, issued, Payee, Payment>>
        /\ \E to : Stage[r] # "paid" /\ Stage' = [Stage EXCEPT ![r] = to]
    BY <1>6 DEF P!Approve, P!Send, P!Proceed, Stage, Payee, Payment
  <2>2. \A q \in Req : Stage[q] = "paid" => Stage'[q] = "paid"
    BY <1>2, <2>1
  <2> QED BY <1>1, <2>1, <2>2, PaysNothing
<1>7. ASSUME NEW r \in Req, P!Fail(r)
      PROVE  PayoutInv'
  <2>1. /\ UNCHANGED <<now, issued, Payment>> /\ Stage[r] = "sent"
        /\ Stage' = [Stage EXCEPT ![r] = "closed"] /\ Payee' = [Payee EXCEPT ![r] = {}]
    BY <1>7 DEF P!Fail, Stage, Payee, Payment
  <2>2. \A q \in Req : /\ Stage[q] = "paid" => Stage'[q] = "paid"
                       /\ Payee'[q] \in {Payee[q], {}}
    BY <1>2, <2>1
  <2> QED BY <1>1, <2>1, <2>2, PaysNothing
<1>8. ASSUME NEW R \in SUBSET Req, P!GiveUp(R)
      PROVE  PayoutInv'
  <2>1. /\ UNCHANGED <<now, issued, Payment>>
        /\ \A r \in R : Stage[r] \in {"open", "cleared", "approved"}
        /\ Stage' = [r \in Req |-> IF r \in R THEN "closed" ELSE Stage[r]]
        /\ Payee' = [r \in Req |-> IF r \in R THEN {} ELSE Payee[r]]
    BY <1>8 DEF P!GiveUp, Stage, Payee, Payment
  <2>2. \A q \in Req : /\ Stage[q] = "paid" => Stage'[q] = "paid"
                       /\ Payee'[q] \in {Payee[q], {}}
    BY <2>1
  <2> QED BY <1>1, <2>1, <2>2, PaysNothing
<1>9. CASE P!Tick
  <2>1. UNCHANGED <<issued, Stage, Payee, Payment>> /\ now' = now + 1
    BY <1>9 DEF P!Tick, Stage, Payee, Payment
  <2>2. now' \in Nat /\ now <= now'
    BY <1>1, <2>1
  <2> QED BY <1>1, <2>1, <2>2, PaysNothing
<1>10. ASSUME NEW r \in Req, NEW a \in Agent, NEW w \in Addr, P!Pay(r, a, w)
       PROVE  PayoutInv'
  <2> DEFINE p == [req |-> r, agent |-> a, wallet |-> w, at |-> now]
  <2>1. /\ UNCHANGED <<now, issued, Payee>>
        /\ Stage[r] = "sent" /\ Payee[r] = {<<a, w>>}
        /\ Stage' = [Stage EXCEPT ![r] = "paid"]
        /\ Payment' = Payment \cup {p}
    BY <1>10 DEF P!Pay, Stage, Payee, Payment
  <2>2. p.req = r /\ p.agent = a /\ p.wallet = w /\ p.at = now
    OBVIOUS
  <2> HIDE DEF p
  <2>3. \A x \in Payment : x.req \in Req /\ Stage[x.req] = "paid"
    BY DEF PayoutInv
  <2>4. \A q \in Req : Stage[q] = "paid" => Stage'[q] = "paid"
    BY <1>2, <2>1
  <2>5. \A x \in Payment' : x.req \in Req /\ Stage'[x.req] = "paid"
    BY <1>2, <2>1, <2>2, <2>3, <2>4
  <2>6. \A q \in Req : \A b, v : Payee'[q] = {<<b, v>>} => P!Matured(b, v)'
    BY <1>1, <2>1, MaturedStays
  <2>7. \A x, y \in Payment' : x.req = y.req => x = y
    <3>1. \A x, y \in Payment : x.req = y.req => x = y
      BY DEF PayoutInv, P!PaysOnce, Payment
    <3>2. \A x \in Payment : x.req # r
      BY <2>1, <2>3
    <3> QED BY <2>1, <2>2, <3>1, <3>2
  <2>8. P!PaysOnce'
    BY <2>7 DEF P!PaysOnce, Payment
  <2>9. \E i \in issued : i.agent = a /\ i.wallet = w /\ i.at + LockDuration <= now
    BY <1>1, <2>1 DEF P!Matured
  <2>10. \A x \in Payment' : \E i \in issued' : /\ i.agent = x.agent /\ i.wallet = x.wallet
                                              /\ i.at + LockDuration <= x.at
    <3>1. \A x \in Payment : \E i \in issued : /\ i.agent = x.agent /\ i.wallet = x.wallet
                                             /\ i.at + LockDuration <= x.at
      BY DEF PayoutInv, P!PaysMatured, Payment
    <3> QED BY <2>1, <2>2, <2>9, <3>1
  <2>11. P!PaysMatured'
    BY <2>10 DEF P!PaysMatured, Payment
  <2> QED BY <1>1, <2>1, <2>5, <2>6, <2>8, <2>11 DEF PayoutInv
<1> QED BY <1>3, <1>4, <1>5, <1>6, <1>7, <1>8, <1>9, <1>10 DEF P!Next

\* Payout says what it should: whatever steps it allows, a request is paid at most
\* once, and only to a wallet issued LockDuration before; and so does Withdrawal,
\* which implements it.
THEOREM PayoutPromises ==
  /\ P!Spec => [](P!PaysOnce /\ P!PaysMatured)
  /\ Spec => [](P!PaysOnce /\ P!PaysMatured)
<1>1. P!Init => PayoutInv
  <2> SUFFICES ASSUME P!Init PROVE PayoutInv
    OBVIOUS
  <2>1. /\ now = 0 /\ issued = {} /\ Payment = {}
        /\ \A r \in Req : Payee[r] = {}
    BY DEF P!Init, Payee, Payment
  <2> QED BY <2>1 DEF PayoutInv, P!PaysOnce, P!PaysMatured, Payment
<1>2. PayoutInv /\ [P!Next]_(P!vars) => PayoutInv'
  BY PayoutStep
<1>3. PayoutInv => P!PaysOnce /\ P!PaysMatured
  BY DEF PayoutInv
<1>4. P!Spec => [](P!PaysOnce /\ P!PaysMatured)
  BY <1>1, <1>2, <1>3, PTL DEF P!Spec
<1> QED BY <1>4, Implements, PTL DEF ImplementsPayout
=============================================================================
