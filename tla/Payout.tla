------------------------------- MODULE Payout -------------------------------
(***************************************************************************)
(* What withdrawals promise, without the handlers, the database and the    *)
(* chain they are made of: a wallet is issued for an agent, a request is   *)
(* cleared for a wallet issued at least LockDuration ago, then approved,   *)
(* sent and paid, once, to that wallet.  Until it is paid it may be given  *)
(* up.  WithdrawalPayout shows that Withdrawal implements this.            *)
(***************************************************************************)
EXTENDS Naturals

CONSTANTS Agent, Addr, Req, LockDuration

VARIABLES
    now,
    issued,    \* wallets issued: [agent, wallet, at]
    stage,     \* how far each request is
    payee,     \* what each request was cleared for, a set of at most one
    paid       \* payments: [req, agent, wallet, at]

vars == <<now, issued, stage, payee, paid>>

Init ==
    /\ now = 0
    /\ issued = {}
    /\ stage = [r \in Req |-> "open"]
    /\ payee = [r \in Req |-> {}]
    /\ paid = {}

Matured(a, w) ==
    \E i \in issued : i.agent = a /\ i.wallet = w /\ i.at + LockDuration <= now

Issue(a, w) ==
    /\ issued' = issued \cup {[agent |-> a, wallet |-> w, at |-> now]}
    /\ UNCHANGED <<now, stage, payee, paid>>

Clear(r, a, w) ==
    /\ stage[r] = "open"
    /\ Matured(a, w)
    /\ stage' = [stage EXCEPT ![r] = "cleared"]
    /\ payee' = [payee EXCEPT ![r] = {<<a, w>>}]
    /\ UNCHANGED <<now, issued, paid>>

Proceed(r, from, to) ==
    /\ stage[r] = from
    /\ stage' = [stage EXCEPT ![r] = to]
    /\ UNCHANGED <<now, issued, payee, paid>>

Approve(r) == Proceed(r, "cleared", "approved")
Send(r) == Proceed(r, "approved", "sent")

Pay(r, a, w) ==
    /\ stage[r] = "sent"
    /\ payee[r] = {<<a, w>>}
    /\ stage' = [stage EXCEPT ![r] = "paid"]
    /\ paid' = paid \cup {[req |-> r, agent |-> a, wallet |-> w, at |-> now]}
    /\ UNCHANGED <<now, issued, payee>>

\* Requests that were not sent end together, as in a restart.
GiveUp(R) ==
    /\ \A r \in R : stage[r] \in {"open", "cleared", "approved"}
    /\ stage' = [r \in Req |-> IF r \in R THEN "closed" ELSE stage[r]]
    /\ payee' = [r \in Req |-> IF r \in R THEN {} ELSE payee[r]]
    /\ UNCHANGED <<now, issued, paid>>

\* What was sent never pays.
Fail(r) ==
    /\ stage[r] = "sent"
    /\ stage' = [stage EXCEPT ![r] = "closed"]
    /\ payee' = [payee EXCEPT ![r] = {}]
    /\ UNCHANGED <<now, issued, paid>>

Tick ==
    /\ now' = now + 1
    /\ UNCHANGED <<issued, stage, payee, paid>>

Next ==
    \/ \E a \in Agent, w \in Addr : Issue(a, w)
    \/ \E r \in Req, a \in Agent, w \in Addr : Clear(r, a, w) \/ Pay(r, a, w)
    \/ \E r \in Req : Approve(r) \/ Send(r) \/ Fail(r)
    \/ \E R \in SUBSET Req : GiveUp(R)
    \/ Tick

Spec == Init /\ [][Next]_vars
-----------------------------------------------------------------------------
\* What this comes to: a request is paid at most once, and only to a wallet that was
\* issued for its agent LockDuration before (wallet.routes.ts:31-97).
PaysOnce == \A x, y \in paid : x.req = y.req => x = y

PaysMatured ==
    \A x \in paid :
      \E i \in issued : i.agent = x.agent /\ i.wallet = x.wallet /\ i.at + LockDuration <= x.at
=============================================================================
