----------------------------- MODULE Affiliates ------------------------------
(***************************************************************************)
(* The referral programme (backend/services/affiliate/                     *)
(* affiliate.service.ts, mounted by routes/affiliate.routes.ts): codes,    *)
(* who referred whom, and what referrers earn.  All of it hangs on user    *)
(* rows, which come and go as in Users.                                    *)
(*                                                                         *)
(* A step is one statement.                                                *)
(***************************************************************************)
EXTENDS Users

CONSTANTS
    Code,
    Asking,       \* calls of generateReferralCode, each made at most once
    Asks,         \* Asks[g] is the account call g is for
    Applying,     \* calls of applyReferralCode, each made at most once
    Applies,      \* Applies[h] is the account call h is for
    Earning,      \* calls of recordReferralEarning, each made at most once
    Earns         \* Earns[n] is the account call n is for

NoCode == "no code"

ASSUME AffiliatesAssumption ==
    /\ NoCode \notin Code /\ {"idle", "done"} \cap Account = {}
    /\ Asks \in [Asking -> Account]
    /\ Applies \in [Applying -> Account]
    /\ Earns \in [Earning -> Account]

VARIABLES
    code,       \* User.referralCode
    referrer,   \* User.referredById
    payout,     \* the payout rows of each user, named by the call that made them
    credited,   \* the calls that make up totalReferralEarnings
    asking,     \* the local variables of each call
    applying,
    earning,
    settled,    \* history: codes told to a user while no other call made one
    gone        \* history: payout rows deleted with their user

referralVars == <<code, referrer, payout, credited, asking, applying, earning,
                  settled, gone>>
affiliateVars == <<usersVars, referralVars>>

-----------------------------------------------------------------------------
AffiliatesTypeOK ==
    /\ UsersTypeOK
    /\ code \in [Account -> Code \cup {NoCode}]
    /\ referrer \in [Account -> Account \cup {NoRow}]
    /\ payout \in [Account -> SUBSET Earning]
    /\ credited \in [Account -> SUBSET Earning]
    /\ asking \in [Asking -> {"idle", "store", "done"}]
    /\ applying \in [Applying -> {"idle", "done"} \cup Account]
    /\ earning \in [Earning -> {"idle", "credit", "done"}]
    /\ settled \in [Account -> SUBSET Code]
    /\ gone \in [Account -> SUBSET Earning]
    /\ \A a, b \in Account : code[a] = code[b] /\ code[a] # NoCode => a = b
    /\ \A a \in Account : referrer[a] # NoRow => user[referrer[a]] # NoRow

AffiliatesInit ==
    /\ code = [a \in Account |-> NoCode]
    /\ referrer = [a \in Account |-> NoRow]
    /\ payout = [a \in Account |-> {}] /\ gone = [a \in Account |-> {}]
    /\ credited = [a \in Account |-> {}]
    /\ asking = [g \in Asking |-> "idle"]
    /\ applying = [h \in Applying |-> "idle"]
    /\ earning = [n \in Earning |-> "idle"]
    /\ settled = [a \in Account |-> {}]

-----------------------------------------------------------------------------
(* generateReferralCode.                                                   *)

\* No other call for the same user is between its two statements.
MakesAlone(g) == \A o \in Asking \ {g} : asking[o] = "store" => Asks[o] # Asks[g]

\* The call answers with c.
Tells(g, c) ==
    /\ asking' = [asking EXCEPT ![g] = "done"]
    /\ settled' = IF MakesAlone(g) THEN [settled EXCEPT ![Asks[g]] = @ \cup {c}]
                                   ELSE settled

\* Mutant of ReadCode: the code there is is not looked at.
ReadCodeNever(g) ==
    /\ asking[g] = "idle"
    /\ asking' = [asking EXCEPT ![g] = "store"]
    /\ UNCHANGED <<usersVars, code, referrer, payout, credited, applying, earning,
                   settled, gone>>

\* The row has been read: its code is the answer, if it has one.
ReadCode(g) ==
    LET c == code[Asks[g]]
    IN  /\ asking[g] = "idle"
        /\ \/ c # NoCode /\ Tells(g, c)
           \/ /\ c = NoCode
              /\ asking' = [asking EXCEPT ![g] = "store"]
              /\ settled' = settled
        /\ UNCHANGED <<usersVars, code, referrer, payout, credited, applying, earning,
                       gone>>

\* A new code that no row has is stored, whatever the row holds by now.
StoreCode(g) ==
    /\ asking[g] = "store"
    /\ user[Asks[g]] # NoRow
    /\ \E c \in Code \ {code[b] : b \in Account \ {Asks[g]}} :
         /\ code' = [code EXCEPT ![Asks[g]] = c]
         /\ Tells(g, c)
    /\ UNCHANGED <<usersVars, referrer, payout, credited, applying, earning, gone>>

-----------------------------------------------------------------------------
(* applyReferralCode.                                                      *)

\* The owner of a code has been looked for; nobody refers himself.
FindReferrer(h) ==
    /\ applying[h] = "idle"
    /\ \E c \in Code :
         LET owners == {a \in Account : code[a] = c} \ {Applies[h]}
         IN  \/ owners = {} /\ applying' = [applying EXCEPT ![h] = "done"]
             \/ \E a \in owners : applying' = [applying EXCEPT ![h] = a]
    /\ UNCHANGED <<usersVars, code, referrer, payout, credited, asking, earning,
                   settled, gone>>

\* The owner is stored, if both rows are still there.
StoreReferrer(h) ==
    /\ applying[h] \in Account
    /\ user[Applies[h]] # NoRow /\ user[applying[h]] # NoRow
    /\ referrer' = [referrer EXCEPT ![Applies[h]] = applying[h]]
    /\ applying' = [applying EXCEPT ![h] = "done"]
    /\ UNCHANGED <<usersVars, code, payout, credited, asking, earning, settled, gone>>

-----------------------------------------------------------------------------
(* recordReferralEarning.                                                  *)

\* Mutant of CreatePayout: the sum comes first.
CreditFirst(n) ==
    /\ earning[n] = "idle"
    /\ user[Earns[n]] # NoRow
    /\ credited' = [credited EXCEPT ![Earns[n]] = @ \cup {n}]
    /\ earning' = [earning EXCEPT ![n] = "credit"]
    /\ UNCHANGED <<usersVars, code, referrer, payout, asking, applying, settled, gone>>

CreatePayout(n) ==
    /\ earning[n] = "idle"
    /\ user[Earns[n]] # NoRow
    /\ payout' = [payout EXCEPT ![Earns[n]] = @ \cup {n}]
    /\ earning' = [earning EXCEPT ![n] = "credit"]
    /\ UNCHANGED <<usersVars, code, referrer, credited, asking, applying, settled, gone>>

Credit(n) ==
    /\ earning[n] = "credit"
    /\ user[Earns[n]] # NoRow
    /\ credited' = [credited EXCEPT ![Earns[n]] = @ \cup {n}]
    /\ earning' = [earning EXCEPT ![n] = "done"]
    /\ UNCHANGED <<usersVars, code, referrer, payout, asking, applying, settled, gone>>

-----------------------------------------------------------------------------
\* A statement fails, for want of the row, of a free code or of the database: the
\* call answers 500 and takes nothing back.
ReferralThrows ==
    /\ \/ /\ \E g \in Asking : asking[g] # "done" /\ asking' = [asking EXCEPT ![g] = "done"]
          /\ UNCHANGED <<applying, earning>>
       \/ /\ \E h \in Applying : /\ applying[h] # "done"
                                 /\ applying' = [applying EXCEPT ![h] = "done"]
          /\ UNCHANGED <<asking, earning>>
       \/ /\ \E n \in Earning : /\ earning[n] # "done"
                                /\ earning' = [earning EXCEPT ![n] = "done"]
          /\ UNCHANGED <<asking, applying>>
    /\ UNCHANGED <<usersVars, code, referrer, payout, credited, settled, gone>>

Cleared(f, clear) == [a \in Account |-> IF user'[a] = NoRow THEN clear ELSE f[a]]

\* Mutant of ReferralUsersStep: whom a deleted user referred keeps naming the row.
ReferralUsersStepDangling ==
    /\ UsersNext
    /\ code' = Cleared(code, NoCode)
    /\ referrer' = Cleared(referrer, NoRow)
    /\ payout' = Cleared(payout, {}) /\ credited' = Cleared(credited, {})
    /\ gone' = [a \in Account |-> gone[a] \cup (payout[a] \ payout'[a])]
    /\ settled' = Cleared(settled, {})
    /\ UNCHANGED <<asking, applying, earning>>

\* A user row that is deleted takes its code, its sums and its payouts with it, and
\* whom it referred has no referrer any more (prisma/schema.prisma).
ReferralUsersStep ==
    /\ UsersNext
    /\ code' = Cleared(code, NoCode)
    /\ referrer' = [a \in Account |->
                      IF referrer[a] # NoRow /\ user'[a] # NoRow /\ user'[referrer[a]] # NoRow
                        THEN referrer[a] ELSE NoRow]
    /\ payout' = Cleared(payout, {}) /\ credited' = Cleared(credited, {})
    /\ gone' = [a \in Account |-> gone[a] \cup (payout[a] \ payout'[a])]
    /\ settled' = Cleared(settled, {})
    /\ UNCHANGED <<asking, applying, earning>>

AffiliatesNext ==
    \/ ReferralUsersStep
    \/ \E g \in Asking : ReadCode(g) \/ StoreCode(g)
    \/ \E h \in Applying : FindReferrer(h) \/ StoreReferrer(h)
    \/ \E n \in Earning : CreatePayout(n) \/ Credit(n)
    \/ ReferralThrows

AffiliatesSpec == UsersInit /\ AffiliatesInit /\ [][AffiliatesNext]_affiliateVars
-----------------------------------------------------------------------------
(* Properties.                                                             *)

\* A code that was told to a user while no other call was making one for the same
\* user stays the user's code as long as the row is there: only the first calls of a
\* user, made at once, can tell one that is overwritten (affiliate.service.ts:13-31).
SettledCodeStays == \A a \in Account : settled[a] \subseteq {code[a]}

\* What keeps it so: a user who has been told a code is making none.
SettledOnce ==
    \A g \in Asking : asking[g] = "store" => settled[Asks[g]] = {}

\* The sum of a user's earnings counts only commissions that have a payout row, or had
\* one that went with an earlier row of the same user: it may fall behind the payouts
\* when the second statement fails, and is never ahead (affiliate.service.ts:84-97).
EarningsBacked == \A a \in Account : credited[a] \subseteq payout[a] \cup gone[a]
=============================================================================
