-------------------------- MODULE WithdrawalPayout --------------------------
(***************************************************************************)
(* Withdrawal implements Payout.  The stage of a request is read off its   *)
(* handler until a transaction is handed over, and off the chain from then *)
(* on: what becomes of the handler no longer matters.                      *)
(***************************************************************************)
EXTENDS Withdrawal

StageOf(r) ==
    CASE tx[r] = "paid"                                      -> "paid"
      [] tx[r] = "pending"                                   -> "sent"
      [] tx[r] = "none" /\ req[r].pc \in {"idle", "whitelist"} -> "open"
      [] tx[r] = "none" /\ req[r].pc = "quote"                -> "cleared"
      [] tx[r] = "none" /\ req[r].pc \in {"prepare", "send"}  -> "approved"
      [] OTHER                                               -> "closed"

PayeeOf(r) ==
    IF StageOf(r) \in {"open", "closed"} THEN {}
                                         ELSE {<<req[r].agent, req[r].dest>>}

PaymentOf(t) == [req |-> t.req, agent |-> t.agent, wallet |-> t.dest, at |-> t.at]

P == INSTANCE Payout WITH
       stage <- [r \in Req |-> StageOf(r)],
       payee <- [r \in Req |-> PayeeOf(r)],
       paid  <- {PaymentOf(t) : t \in transfers}

\* Withdrawals are payouts: whatever handlers, whitelist changes, thrown calls,
\* expiring transactions and restarts do, a request is paid at most once, to the
\* wallet it was cleared for, after approval, and a wallet is cleared only when it
\* was issued LockDuration before (wallet.routes.ts:31-97, whitelist.service.ts:30-88,
\* solana-balance.ts:41-96).
ImplementsPayout == P!Spec
=============================================================================
