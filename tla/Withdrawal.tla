----------------------------- MODULE Withdrawal -----------------------------
(***************************************************************************)
(* POST /agents/:id/withdraw (backend/routes/wallet.routes.ts) with the    *)
(* services it calls: the per-agent withdrawal whitelist, the withdrawal   *)
(* limit, the AML monitor and the Solana transfer.                         *)
(*                                                                         *)
(* A step runs from the answer of one awaited call (database row, RPC      *)
(* reply) to the next call that leaves the process; Node runs that stretch *)
(* of the handler without interruption.  Concurrent requests, whitelist    *)
(* changes, deposits, the Solana cluster and process restarts interleave   *)
(* between steps.                                                          *)
(***************************************************************************)
EXTENDS Integers, FiniteSets, FiniteSetsExt

CONSTANTS
    User, Agent, Addr,
    Owner,            \* Owner[a] is the user an agent row belongs to
    NoAddr,           \* an absent address
    HasKey,           \* agents whose secrets decrypt and hold a wallet key
    Req,              \* withdrawal requests, each received at most once
    Change,           \* whitelist change requests, each received at most once
    LockDuration,     \* LOCK_DURATION_HOURS
    QuoteMargin,      \* the 0.001 SOL the route subtracts from the balance
    Fee, Rent,        \* TRANSFER_FEE_LAMPORTS, MIN_RENT_EXEMPT_BALANCE
    MaxPerTx,         \* MAX_WITHDRAWAL_PER_TX_SOL
    SingleLimit,      \* singleTransactionLimit
    Period,           \* the daily, weekly and monthly limits: [span, limit]
    VelocitySpan, MaxVelocity,  \* velocityWindowMs, maxTransactionsPerWindow
    HistoryLength, Retention,   \* 1000 records, 30 days
    DepositAmount,    \* amounts the environment may pay into an agent wallet
    MaxBalance, MaxTime, MaxRestarts    \* bounds of the model

ASSUME SetAssumption ==
    /\ Owner \in [Agent -> User]
    /\ NoAddr \notin Addr
    /\ HasKey \subseteq Agent

ASSUME NumberAssumption ==
    /\ LockDuration \in Nat /\ QuoteMargin \in Nat /\ Fee \in Nat /\ Rent \in Nat
    /\ MaxPerTx \in Nat /\ SingleLimit \in Nat
    /\ VelocitySpan \in Nat /\ MaxVelocity \in Nat
    /\ HistoryLength \in Nat /\ Retention \in Nat
    /\ MaxBalance \in Nat /\ MaxTime \in Nat /\ MaxRestarts \in Nat
    /\ DepositAmount \subseteq Nat
    /\ Period \subseteq [span : Nat, limit : Nat]

\* What record pruning relies on: no limit looks further back than Retention.
ASSUME RetentionAssumption ==
    /\ VelocitySpan <= Retention
    /\ \A p \in Period : p.span <= Retention

VARIABLES
    now,
    profile,      \* user.walletAddress
    whitelist,    \* agent.whitelistedWallet and agent.whitelistLockedUntil
    amlHistory,   \* transactionHistory, in the memory of the process
    audit,        \* audit events, in the memory of the process
    req,          \* the local variables of each withdrawal request
    change,       \* the local variables of each whitelist change
    balance,      \* lamports of each agent wallet on Solana
    tx,           \* what Solana did with the transaction of each request
    transfers,    \* transfers executed on Solana
    issued,       \* history: every whitelist change that passed its lock check
    restarts

vars == <<now, profile, whitelist, amlHistory, audit, req, change, balance,
          tx, transfers, issued, restarts>>
chain == <<balance, tx, transfers>>

-----------------------------------------------------------------------------
\* Mutant of Max0: the margin is subtracted without Math.max.
Max0Unclamped(n) == n

Max0(n) == IF n > 0 THEN n ELSE 0

\* A null whitelistLockedUntil is 0: no time is before it, the row is unlocked.
Row == [wallet : Addr \cup {NoAddr}, lockedUntil : Nat]
NoRow == [wallet |-> NoAddr, lockedUntil |-> 0]

\* transactionHistory is used through filters, sums and its length only, and a
\* request records at most once per kind: a set of records stands for the list.
Record == [req : Req, kind : {"check", "complete"}, amount : Nat, timestamp : Nat]

AuditEvent == {"blocked", "aml_blocked", "complete", "error"}

\* approved: the AML monitor of this process allowed the request, at approvedAt;
\* checkedAt is when the whitelist let it pass.
Request == [pc : {"idle", "whitelist", "quote", "prepare", "send", "confirm",
                  "done", "lost"},
            agent : Agent \cup {NoAddr}, dest : Addr \cup {NoAddr},
            checkedAt : Nat, quote : Nat, approved : BOOLEAN, approvedAt : Nat,
            amount : Nat, success : BOOLEAN]
NoRequest == [pc |-> "idle", agent |-> NoAddr, dest |-> NoAddr, checkedAt |-> 0,
              quote |-> 0, approved |-> FALSE, approvedAt |-> 0, amount |-> 0,
              success |-> FALSE]

WhitelistChange == [pc : {"idle", "update", "done"}, agent : Agent \cup {NoAddr},
                    row : Row]
NoChange == [pc |-> "idle", agent |-> NoAddr, row |-> NoRow]

Transfer == [req : Req, agent : Agent, dest : Addr, amount : Nat, at : Nat]
Issue == [agent : Agent, wallet : Addr, at : Nat]

\* A request that was received has an agent, one in progress or with a
\* transaction on its way has a destination, a pending update has an agent.
Started ==
    /\ \A r \in Req :
         /\ req[r].pc # "idle" => req[r].agent \in Agent
         /\ req[r].pc \notin {"idle", "done", "lost"} => req[r].dest \in Addr
         /\ tx[r] # "none" => req[r].pc # "idle" /\ req[r].dest \in Addr
    /\ \A c \in Change : change[c].pc = "update" => change[c].agent \in Agent

TypeOK ==
    /\ now \in Nat
    /\ profile \in [User -> Addr \cup {NoAddr}]
    /\ whitelist \in [Agent -> Row]
    /\ amlHistory \in [User -> SUBSET Record]
    /\ audit \subseteq (Req \X AuditEvent)
    /\ req \in [Req -> Request]
    /\ change \in [Change -> WhitelistChange]
    /\ balance \in [Agent -> Nat]
    /\ tx \in [Req -> {"none", "pending", "paid", "failed", "expired"}]
    /\ transfers \subseteq Transfer
    /\ issued \subseteq Issue
    /\ restarts \in Nat
    /\ Started

Init ==
    /\ now = 0
    /\ profile = [u \in User |-> NoAddr]
    /\ whitelist = [a \in Agent |-> NoRow]
    /\ amlHistory = [u \in User |-> {}]
    /\ audit = {}
    /\ req = [r \in Req |-> NoRequest]
    /\ change = [c \in Change |-> NoChange]
    /\ balance = [a \in Agent |-> 0]
    /\ tx = [r \in Req |-> "none"]
    /\ transfers = {}
    /\ issued = {}
    /\ restarts = 0

-----------------------------------------------------------------------------
(* The whitelist: services/security/whitelist.service.ts.                  *)

isLocked(row) == now < row.lockedUntil

\* The agent row of setWhitelistedWallet has been read.  A locked row throws;
\* otherwise the new row is computed from the clock and its update is issued.
ReadForChange(c, a, w) ==
    /\ change[c].pc = "idle"
    /\ \/ /\ isLocked(whitelist[a])
          /\ change' = [change EXCEPT ![c].pc = "done"]
          /\ UNCHANGED issued
       \/ /\ ~isLocked(whitelist[a])
          /\ change' = [change EXCEPT ![c] =
                 [pc |-> "update", agent |-> a,
                  row |-> [wallet |-> w, lockedUntil |-> now + LockDuration]]]
          /\ issued' = issued \cup {[agent |-> a, wallet |-> w, at |-> now]}
    /\ UNCHANGED <<now, profile, whitelist, amlHistory, audit, req, chain, restarts>>

\* Mutant of WriteChange: the lock is left out of the update.
WriteChangeWithoutLock(c) ==
    /\ change[c].pc = "update"
    /\ whitelist' = [whitelist EXCEPT ![change[c].agent].wallet = change[c].row.wallet]
    /\ change' = [change EXCEPT ![c].pc = "done"]
    /\ UNCHANGED <<now, profile, amlHistory, audit, req, chain, issued, restarts>>

\* The update reaches the database: wallet and lock are written together.
WriteChange(c) ==
    /\ change[c].pc = "update"
    /\ whitelist' = [whitelist EXCEPT ![change[c].agent] = change[c].row]
    /\ change' = [change EXCEPT ![c].pc = "done"]
    /\ UNCHANGED <<now, profile, amlHistory, audit, req, chain, issued, restarts>>

\* Mutant of withdrawalAllowed: the lock is not looked at.
withdrawalAllowedLocked(a, dest) ==
    /\ whitelist[a].wallet # NoAddr
    /\ whitelist[a].wallet = dest

withdrawalAllowed(a, dest) ==
    /\ whitelist[a].wallet # NoAddr
    /\ ~isLocked(whitelist[a])
    /\ whitelist[a].wallet = dest

\* PUT /user/wallet.
UpdateProfile(u, w) ==
    /\ profile[u] # w
    /\ profile' = [profile EXCEPT ![u] = w]
    /\ UNCHANGED <<now, whitelist, amlHistory, audit, req, change, chain, issued,
                   restarts>>

-----------------------------------------------------------------------------
(* The AML monitor: services/security/aml-monitoring.service.ts and        *)
(* aml-transaction.utils.ts.  No call in it leaves the process, so a check *)
(* and the record it makes are one step.                                   *)

Since(history, span) == {t \in history : t.timestamp > now - span}

PeriodTotal(history, span) ==
    MapThenSumSet(LAMBDA t : t.amount, Since(history, span))

\* Mutant of WithRecord: pruning keeps the velocity window only.
WithRecordPruned(history, t) ==
    IF Cardinality(history \cup {t}) > HistoryLength
    THEN Since(history \cup {t}, VelocitySpan)
    ELSE history \cup {t}

WithRecord(history, t) ==
    IF Cardinality(history \cup {t}) > HistoryLength
    THEN Since(history \cup {t}, Retention)
    ELSE history \cup {t}

\* Mutants of amlAllows: the new amount is not counted; one transaction too many.
amlAllowsPast(history, amount) ==
    /\ amount < SingleLimit
    /\ Cardinality(Since(history, VelocitySpan)) < MaxVelocity
    /\ \A p \in Period : PeriodTotal(history, p.span) <= p.limit
amlAllowsOneMore(history, amount) ==
    /\ amount < SingleLimit
    /\ Cardinality(Since(history, VelocitySpan)) <= MaxVelocity
    /\ \A p \in Period : PeriodTotal(history, p.span) + amount <= p.limit

amlAllows(history, amount) ==
    /\ amount < SingleLimit
    /\ Cardinality(Since(history, VelocitySpan)) < MaxVelocity
    /\ \A p \in Period : PeriodTotal(history, p.span) + amount <= p.limit

CheckRecord(r, amount) ==
    [req |-> r, kind |-> "check", amount |-> amount, timestamp |-> now]
CompleteRecord(r, amount) ==
    [req |-> r, kind |-> "complete", amount |-> amount, timestamp |-> now]

-----------------------------------------------------------------------------
(* The withdraw handler.                                                   *)

\* The agent and its user are read; the destination is the one of the body or
\* the profile wallet, and a request without either is answered 400.
Receive(r, a, body) ==
    /\ req[r].pc = "idle"
    /\ LET dest == IF body # NoAddr THEN body ELSE profile[Owner[a]]
       IN  req' = [req EXCEPT ![r] = [NoRequest EXCEPT
                     !.pc = IF dest = NoAddr THEN "done" ELSE "whitelist",
                     !.agent = a, !.dest = dest]]
    /\ UNCHANGED <<now, profile, whitelist, amlHistory, audit, change, chain,
                   issued, restarts>>

\* checkWithdrawalAllowed has read the agent row.
CheckWhitelist(r) ==
    /\ req[r].pc = "whitelist"
    /\ \/ /\ withdrawalAllowed(req[r].agent, req[r].dest)
          /\ req' = [req EXCEPT ![r] = [@ EXCEPT !.pc = "quote", !.checkedAt = now]]
          /\ UNCHANGED audit
       \/ /\ ~withdrawalAllowed(req[r].agent, req[r].dest)
          /\ req' = [req EXCEPT ![r].pc = "done"]
          /\ audit' = audit \cup {<<r, "blocked">>}
    /\ UNCHANGED <<now, profile, whitelist, amlHistory, change, chain, issued,
                   restarts>>

limitAllows(amount) == amount > 0 /\ amount <= MaxPerTx

\* getWalletBalance has answered: the withdrawal limit, the AML check with its
\* record, and the look-up of the wallet key all run before the next call.  An
\* agent without a key is answered 400, one whose secrets do not decrypt throws.
QuoteAndCheck(r) ==
    LET a      == req[r].agent
        u      == Owner[a]
        amount == Max0(balance[a] - QuoteMargin)
    IN  /\ req[r].pc = "quote"
        /\ \/ /\ ~limitAllows(amount)
              /\ req' = [req EXCEPT ![r] = [@ EXCEPT !.pc = "done", !.quote = amount]]
              /\ UNCHANGED <<amlHistory, audit>>
           \/ /\ limitAllows(amount) /\ ~amlAllows(amlHistory[u], amount)
              /\ req' = [req EXCEPT ![r] = [@ EXCEPT !.pc = "done", !.quote = amount]]
              /\ audit' = audit \cup {<<r, "aml_blocked">>}
              /\ UNCHANGED amlHistory
           \/ /\ limitAllows(amount) /\ amlAllows(amlHistory[u], amount)
              /\ amlHistory' = [amlHistory EXCEPT
                                  ![u] = WithRecord(@, CheckRecord(r, amount))]
              /\ req' = [req EXCEPT ![r] = [@ EXCEPT
                           !.pc = IF a \in HasKey THEN "prepare" ELSE "done",
                           !.quote = amount, !.approved = TRUE, !.approvedAt = now]]
              /\ \/ UNCHANGED audit
                 \/ a \notin HasKey /\ audit' = audit \cup {<<r, "error">>}
        /\ UNCHANGED <<now, profile, whitelist, change, chain, issued, restarts>>

\* An awaited call of the route itself throws: the catch block audits it.
RouteThrows(r) ==
    /\ req[r].pc \in {"whitelist", "quote"}
    /\ req' = [req EXCEPT ![r].pc = "done"]
    /\ audit' = audit \cup {<<r, "error">>}
    /\ UNCHANGED <<now, profile, whitelist, amlHistory, change, chain, issued,
                   restarts>>

\* withdrawFunds reads the balance again and builds a transfer of all of it but
\* the fee and the rent reserve.
PrepareTransfer(r) ==
    LET maxTransfer == balance[req[r].agent] - Fee - Rent
    IN  /\ req[r].pc = "prepare"
        /\ \/ /\ maxTransfer <= 0
              /\ req' = [req EXCEPT ![r].pc = "done"]
           \/ /\ maxTransfer > 0
              /\ req' = [req EXCEPT ![r] = [@ EXCEPT !.pc = "send",
                                                     !.amount = maxTransfer]]
        /\ UNCHANGED <<now, profile, whitelist, amlHistory, audit, change, chain,
                       issued, restarts>>

\* sendRawTransaction hands the signed transaction to the cluster.
Send(r) ==
    /\ req[r].pc = "send"
    /\ req' = [req EXCEPT ![r].pc = "confirm"]
    /\ tx' = [tx EXCEPT ![r] = "pending"]
    /\ UNCHANGED <<now, profile, whitelist, amlHistory, audit, change, balance,
                   transfers, issued, restarts>>

\* Mutant of TransferThrows: nothing is thrown while a confirmation is awaited.
TransferThrowsBeforeConfirm(r) ==
    /\ req[r].pc \in {"prepare", "send"}
    /\ req' = [req EXCEPT ![r].pc = "done"]
    /\ \/ UNCHANGED tx
       \/ req[r].pc = "send" /\ tx' = [tx EXCEPT ![r] = "pending"]
    /\ UNCHANGED <<now, profile, whitelist, amlHistory, audit, change, balance,
                   transfers, issued, restarts>>

\* Mutant of TransferThrows: a confirmation that times out is retried from the send.
TransferThrowsResend(r) ==
    /\ req[r].pc \in {"prepare", "send", "confirm"}
    /\ req' = [req EXCEPT ![r].pc = IF @ = "confirm" THEN "send" ELSE "done"]
    /\ UNCHANGED <<now, profile, whitelist, amlHistory, audit, change, tx, balance,
                   transfers, issued, restarts>>

\* An awaited call of withdrawFunds throws; its catch block answers
\* success: false and the route returns that answer.  When it is the send that
\* throws, the transaction may have been handed over all the same.
TransferThrows(r) ==
    /\ req[r].pc \in {"prepare", "send", "confirm"}
    /\ req' = [req EXCEPT ![r].pc = "done"]
    /\ \/ UNCHANGED tx
       \/ req[r].pc = "send" /\ tx' = [tx EXCEPT ![r] = "pending"]
    /\ UNCHANGED <<now, profile, whitelist, amlHistory, audit, change, balance,
                   transfers, issued, restarts>>

\* Mutant of Confirm: the confirmation is not awaited.
ConfirmUnawaited(r) ==
    LET u == Owner[req[r].agent]
    IN  /\ req[r].pc = "confirm"
        /\ amlHistory' = [amlHistory EXCEPT
                            ![u] = WithRecord(@, CompleteRecord(r, req[r].amount))]
        /\ audit' = audit \cup {<<r, "complete">>}
        /\ req' = [req EXCEPT ![r] = [@ EXCEPT !.pc = "done", !.success = TRUE]]
        /\ UNCHANGED <<now, profile, whitelist, change, chain, issued, restarts>>

\* confirmTransaction resolves once the transaction is in a block, whether or
\* not it succeeded there (the answer's err field is not read).
Confirm(r) ==
    LET u == Owner[req[r].agent]
    IN  /\ req[r].pc = "confirm"
        /\ tx[r] \in {"paid", "failed"}
        /\ amlHistory' = [amlHistory EXCEPT
                            ![u] = WithRecord(@, CompleteRecord(r, req[r].amount))]
        /\ audit' = audit \cup {<<r, "complete">>}
        /\ req' = [req EXCEPT ![r] = [@ EXCEPT !.pc = "done", !.success = TRUE]]
        /\ UNCHANGED <<now, profile, whitelist, change, chain, issued, restarts>>

-----------------------------------------------------------------------------
(* The environment: the Solana cluster, the clock, process restarts.       *)

\* An account stays at zero or at the rent-exempt minimum and above.
Exempt(n) == n = 0 \/ n >= Rent

Deposit(a, n) ==
    /\ balance[a] + n <= MaxBalance
    /\ Exempt(balance[a] + n)
    /\ balance' = [balance EXCEPT ![a] = @ + n]
    /\ UNCHANGED <<now, profile, whitelist, amlHistory, audit, req, change, tx,
                   transfers, issued, restarts>>

\* A pending transaction enters a block: it pays, or fails and costs its fee.
Land(r) ==
    LET a    == req[r].agent
        rest == balance[a] - Fee - req[r].amount
    IN  /\ tx[r] = "pending"
        /\ \/ /\ Exempt(rest)
              /\ tx' = [tx EXCEPT ![r] = "paid"]
              /\ balance' = [balance EXCEPT ![a] = rest]
              /\ transfers' = transfers \cup
                   {[req |-> r, agent |-> a, dest |-> req[r].dest,
                     amount |-> req[r].amount, at |-> now]}
           \/ /\ ~Exempt(rest) /\ Exempt(balance[a] - Fee)
              /\ tx' = [tx EXCEPT ![r] = "failed"]
              /\ balance' = [balance EXCEPT ![a] = @ - Fee]
              /\ UNCHANGED transfers
        /\ UNCHANGED <<now, profile, whitelist, amlHistory, audit, req, change,
                       issued, restarts>>

\* The blockhash of a pending transaction expires.
Expire(r) ==
    /\ tx[r] = "pending"
    /\ tx' = [tx EXCEPT ![r] = "expired"]
    /\ UNCHANGED <<now, profile, whitelist, amlHistory, audit, req, change,
                   balance, transfers, issued, restarts>>

Tick ==
    /\ now < MaxTime
    /\ now' = now + 1
    /\ UNCHANGED <<profile, whitelist, amlHistory, audit, req, change, chain,
                   issued, restarts>>

\* The process restarts: everything kept in memory is gone, the requests in
\* progress and what this process approved included; database rows and the
\* chain stay.
Restart ==
    /\ restarts < MaxRestarts
    /\ restarts' = restarts + 1
    /\ amlHistory' = [u \in User |-> {}]
    /\ audit' = {}
    /\ req' = [r \in Req |-> [req[r] EXCEPT
                 !.pc = IF @ \in {"idle", "done"} THEN @ ELSE "lost",
                 !.approved = FALSE]]
    /\ change' = [c \in Change |-> [change[c] EXCEPT
                    !.pc = IF @ = "update" THEN "done" ELSE @]]
    /\ UNCHANGED <<now, profile, whitelist, chain, issued>>

Next ==
    \/ \E c \in Change, a \in Agent, w \in Addr : ReadForChange(c, a, w)
    \/ \E c \in Change : WriteChange(c)
    \/ \E u \in User, w \in Addr : UpdateProfile(u, w)
    \/ \E r \in Req, a \in Agent, body \in Addr \cup {NoAddr} : Receive(r, a, body)
    \/ \E r \in Req :
         \/ CheckWhitelist(r) \/ QuoteAndCheck(r) \/ RouteThrows(r)
         \/ PrepareTransfer(r) \/ Send(r) \/ TransferThrows(r) \/ Confirm(r)
         \/ Land(r) \/ Expire(r)
    \/ \E a \in Agent, n \in DepositAmount : Deposit(a, n)
    \/ Tick
    \/ Restart

Spec == Init /\ [][Next]_vars

\* Awaited calls settle: the database and the RPC node answer or time out, and
\* a transaction lands or its blockhash expires.
Fairness ==
    \A r \in Req :
      /\ WF_vars(CheckWhitelist(r) \/ RouteThrows(r) \/ QuoteAndCheck(r))
      /\ WF_vars(PrepareTransfer(r) \/ Send(r) \/ TransferThrows(r) \/ Confirm(r))
      /\ WF_vars(Land(r) \/ Expire(r))
FairSpec == Spec /\ Fairness
-----------------------------------------------------------------------------
(* Properties.                                                             *)

\* A transfer goes only to a wallet that was requested for that agent's
\* whitelist at least LockDuration before the transfer lands, whatever whitelist
\* changes and withdrawals ran at the same time (whitelist.service.ts:44-51 sets
\* the lock, 77-85 refuse a locked or different wallet).
TransferRespectsLock ==
    \A t \in transfers :
      \E i \in issued :
        /\ i.agent = t.agent
        /\ i.wallet = t.dest
        /\ i.at + LockDuration <= t.at

\* A request pays at most once: neither a confirmation that never comes, nor a send
\* that throws although it reached the cluster, nor a restart makes a second transfer
\* (solana-balance.ts:75-95 signs and sends one transaction per request).
PaidOnce == \A s, t \in transfers : s.req = t.req => s = t

-----------------------------------------------------------------------------
(* The strengthening that makes TransferRespectsLock inductive: whatever   *)
(* can still become the whitelist row, or a transfer, was issued in time.  *)

\* The wallet of a row was issued for agent a, and the row's lock counts from
\* the moment it was issued (whitelist.service.ts:44-52).
RowIssued(a, row) ==
    row.wallet # NoAddr =>
      \E i \in issued : /\ i.agent = a
                        /\ i.wallet = row.wallet
                        /\ i.at + LockDuration = row.lockedUntil

\* Request r passed the whitelist check with a wallet whose lock was over.
Cleared(r) ==
    /\ req[r].checkedAt <= now
    /\ \E i \in issued : /\ i.agent = req[r].agent
                         /\ i.wallet = req[r].dest
                         /\ i.at + LockDuration <= req[r].checkedAt

\* What every reachable state keeps so that TransferRespectsLock holds in the
\* next one: a database row, a whitelist update on its way, a request past its
\* check and a transaction on its way each carry a wallet issued in time.
LockInv ==
    /\ \A a \in Agent : RowIssued(a, whitelist[a])
    /\ \A c \in Change : change[c].pc = "update"
                           => RowIssued(change[c].agent, change[c].row)
    /\ \A r \in Req : req[r].pc \in {"quote", "prepare", "send", "confirm"}
                        => Cleared(r)
    /\ \A r \in Req : tx[r] # "none" => Cleared(r)
    /\ TransferRespectsLock

-----------------------------------------------------------------------------
(* The AML limits.                                                         *)

ApprovedSince(u, span) ==
    {r \in Req : /\ req[r].approved
                 /\ Owner[req[r].agent] = u
                 /\ req[r].approvedAt > now - span}

\* The withdrawals approved for a user, over all of the user's agents and however
\* many requests run at once, never total more than the daily, weekly or monthly
\* limit within that period (aml-monitoring.service.ts:93-108: the record is made
\* before anything else can run).
AmlPeriodCap ==
    \A u \in User, p \in Period :
      MapThenSumSet(LAMBDA r : req[r].quote, ApprovedSince(u, p.span)) <= p.limit

\* At most maxTransactionsPerWindow withdrawals of a user are approved within the
\* velocity window (aml-monitoring.service.ts:70-76).
AmlVelocityCap ==
    \A u \in User : Cardinality(ApprovedSince(u, VelocitySpan)) <= MaxVelocity

\* Pruning a long history never drops an approval some limit still counts
\* (aml-transaction.utils.ts:9-15).
ApprovalRemembered ==
    \A r \in Req :
      req[r].approved /\ req[r].approvedAt > now - Retention =>
        [req |-> r, kind |-> "check", amount |-> req[r].quote,
         timestamp |-> req[r].approvedAt] \in amlHistory[Owner[req[r].agent]]

\* A withdrawal is logged as complete only once its transaction is in a block, not
\* while it is on its way or after it expired (solana-balance.ts:80-90 awaits the
\* confirmation before it answers; the block may still hold a failed transfer).
CompleteMeansLanded ==
    \A r \in Req : <<r, "complete">> \in audit => tx[r] \in {"paid", "failed"}

\* A transaction whose confirmation never comes does not hang its request: every
\* request received is answered or lost with the process.
EveryRequestEnds ==
    \A r \in Req : (req[r].pc # "idle") ~> (req[r].pc \in {"done", "lost"})

\* What the documents say.  ENV_REFERENCE.md:207 "Max withdrawal per transaction
\* (SOL)": no transfer moves more than MaxPerTx.
PerTransactionCap == \A t \in transfers : t.amount <= MaxPerTx

\* PRODUCTION_CHECKLIST.md:44 "Whitelist is locked for 24h after changes": the
\* whitelisted wallet does not change while its lock runs.
LockedWhitelistStays ==
    [][\A a \in Agent : whitelist'[a].wallet # whitelist[a].wallet
                          => ~isLocked(whitelist[a])]_vars
=============================================================================
