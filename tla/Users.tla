------------------------------- MODULE Users --------------------------------
(***************************************************************************)
(* User rows: the Clerk webhook (backend/routes/webhooks.routes.ts) and    *)
(* getOrCreateUser (backend/lib/auth.ts), which both create them.          *)
(*                                                                         *)
(* Clerk keeps the accounts and sends an event about each change until it  *)
(* is answered 2xx, in any order, and again when the answer was lost.      *)
(* Each event is handled by one statement; a request reads and then        *)
(* inserts.                                                                *)
(***************************************************************************)
EXTENDS Naturals

CONSTANTS
    Account,      \* an account stands for its id, and for the address id@clerk.user
    Address,      \* email addresses
    NoAddress,    \* no address: undefined in an event, '' in a row created from it
    Request,      \* authenticated requests that may run at once, each again and again
    Sender,       \* Sender[q] is the account that sends request q
    MaxChanges    \* bound: changes at Clerk

NoRow == "no row"

ASSUME UsersAssumption ==
    /\ NoAddress \notin Address
    /\ (Address \cup {NoAddress}) \cap Account = {}
    /\ NoRow \notin Address \cup {NoAddress} \cup Account
    /\ Sender \in [Request -> Account]
    /\ MaxChanges \in Nat

VARIABLES
    emailInToken,   \* the session tokens carry the address of the account
    clerk,          \* the accounts at Clerk
    changes,        \* how often one of them changed
    events,         \* events Clerk has to send
    user,           \* the email of each account's user row
    author,         \* accounts whose row is the author of a strategy
    request         \* the local variable of each request

usersVars == <<emailInToken, clerk, changes, events, user, author, request>>

-----------------------------------------------------------------------------
Email == Address \cup {NoAddress} \cup Account

ClerkAccount == [status : {"none", "active", "deleted"},
                 address : Address \cup {NoAddress}]

Event == [type : {"created", "updated", "deleted"}, account : Account,
          address : Address \cup {NoAddress}]

UsersTypeOK ==
    /\ emailInToken \in BOOLEAN
    /\ clerk \in [Account -> ClerkAccount]
    /\ changes \in Nat
    /\ events \subseteq Event
    /\ user \in [Account -> Email \cup {NoRow}]
    /\ author \subseteq {a \in Account : user[a] # NoRow}
    /\ request \in [Request -> {"out", "create", "in"}]
    /\ \A a, b \in Account : user[a] = user[b] /\ user[a] # NoRow => a = b

UsersInit ==
    /\ emailInToken \in BOOLEAN
    /\ clerk = [a \in Account |->
                  [status |-> "none", address |-> NoAddress]]
    /\ changes = 0
    /\ events = {}
    /\ user = [a \in Account |-> NoRow]
    /\ author = {}
    /\ request = [q \in Request |-> "out"]

-----------------------------------------------------------------------------
(* Clerk.                                                                  *)

Active(a) == clerk[a].status = "active"

\* Clerk gives an address to one account at a time.
Free(e) == e = NoAddress \/ \A a \in Account : ~(Active(a) /\ clerk[a].address = e)

Changes(a, status, e, type) ==
    /\ changes < MaxChanges
    /\ changes' = changes + 1
    /\ clerk' = [clerk EXCEPT ![a] = [status |-> status, address |-> e]]
    /\ events' = events \cup {[type |-> type, account |-> a, address |-> e]}
    /\ UNCHANGED <<emailInToken, user, author, request>>

SignUp(a, e) ==
    /\ clerk[a].status = "none"
    /\ Free(e)
    /\ Changes(a, "active", e, "created")

ChangeAddress(a, e) ==
    /\ Active(a)
    /\ e # clerk[a].address
    /\ Free(e)
    /\ Changes(a, "active", e, "updated")

Leave(a) ==
    /\ Active(a)
    /\ Changes(a, "deleted", clerk[a].address, "deleted")

-----------------------------------------------------------------------------
(* The user table.                                                         *)

\* User.id and User.email are unique.
Taken(a, e) == \E b \in Account \ {a} : user[b] = e
CanInsert(a, e) == user[a] = NoRow /\ ~Taken(a, e)

-----------------------------------------------------------------------------
(* POST /clerk/webhook.                                                    *)

\* The upsert of an update: an undefined address leaves the one there is, and an
\* address another row holds fails the statement.
Store(a, e) ==
    \/ /\ CanInsert(a, e)
       /\ user' = [user EXCEPT ![a] = e]
    \/ /\ user[a] # NoRow
       /\ ~Taken(a, e) \/ e = NoAddress
       /\ user' = [user EXCEPT ![a] = IF e = NoAddress THEN @ ELSE e]

\* The statement of an event succeeds.
Handles(ev) ==
    LET a == ev.account
    IN  \/ /\ ev.type = "created"
           /\ CanInsert(a, ev.address)
           /\ user' = [user EXCEPT ![a] = ev.address]
        \/ /\ ev.type = "updated"
           /\ Store(a, ev.address)
        \/ /\ ev.type = "deleted"
           /\ user' = [user EXCEPT ![a] = IF a \in author THEN @ ELSE NoRow]

\* A delete fails for the author of a strategy, and its error is swallowed.
\* Any other error is answered 500 and the event is sent again later.
DeliverEvent(ev) ==
    /\ ev \in events
    /\ Handles(ev)
    /\ events' \in {events, events \ {ev}}
    /\ UNCHANGED <<emailInToken, clerk, changes, author, request>>

\* Clerk gives up on an event, after days of failures.
DropEvent(ev) ==
    /\ ev \in events
    /\ events' = events \ {ev}
    /\ UNCHANGED <<emailInToken, clerk, changes, user, author, request>>

-----------------------------------------------------------------------------
(* getOrCreateUser.                                                        *)

\* Mutant of TokenEmail: a missing address is '', as in the webhook.
TokenEmailEmpty(a) == IF emailInToken THEN clerk[a].address ELSE NoAddress

\* The email of a new row: the token's, or one made of the id.
TokenEmail(a) ==
    IF emailInToken /\ clerk[a].address # NoAddress THEN clerk[a].address ELSE a

\* A token outlives its account by up to a minute.  The row has been looked for.
FindUser(q) ==
    /\ clerk[Sender[q]].status # "none"
    /\ request[q] # "create"
    /\ request' = [request EXCEPT
                     ![q] = IF user[Sender[q]] = NoRow THEN "create" ELSE "in"]
    /\ UNCHANGED <<emailInToken, clerk, changes, events, user, author>>

\* An insert that another request, or the webhook, was ahead of fails, and so does
\* one whose email another row holds: 401.
CreateUser(q) ==
    LET a == Sender[q]
    IN  /\ request[q] = "create"
        /\ \/ /\ CanInsert(a, TokenEmail(a))
              /\ user' = [user EXCEPT ![a] = TokenEmail(a)]
              /\ request' = [request EXCEPT ![q] = "in"]
           \/ /\ ~CanInsert(a, TokenEmail(a))
              /\ request' = [request EXCEPT ![q] = "out"]
              /\ UNCHANGED user
        /\ UNCHANGED <<emailInToken, clerk, changes, events, author>>

AuthThrows(q) ==
    /\ request[q] = "create"
    /\ request' = [request EXCEPT ![q] = "out"]
    /\ UNCHANGED <<emailInToken, clerk, changes, events, user, author>>

\* POST /marketplace/strategies: from now on the row cannot be deleted.
Publish(a) ==
    /\ user[a] # NoRow
    /\ clerk[a].status # "none"
    /\ a \notin author
    /\ author' = author \cup {a}
    /\ UNCHANGED <<emailInToken, clerk, changes, events, user, request>>

UsersNext ==
    \/ \E a \in Account, e \in Address \cup {NoAddress} :
         SignUp(a, e) \/ ChangeAddress(a, e)
    \/ \E a \in Account : Leave(a) \/ Publish(a)
    \/ \E ev \in events : DeliverEvent(ev) \/ DropEvent(ev)
    \/ \E q \in Request : FindUser(q) \/ CreateUser(q) \/ AuthThrows(q)

UsersSpec == UsersInit /\ [][UsersNext]_usersVars

\* Whoever has an account keeps asking, and not every insert of a request fails for
\* want of the database.  The webhook is owed nothing.
UsersFairness ==
    \A q \in Request : /\ WF_usersVars(Active(Sender[q]) /\ FindUser(q))
                      /\ SF_usersVars(CreateUser(q))

FairUsersSpec == UsersSpec /\ UsersFairness
-----------------------------------------------------------------------------
(* Properties.                                                             *)

\* Whoever has an account gets in, whichever of the webhook and the requests creates
\* the row, in whatever order events arrive or not at all, and whatever fails in
\* between: unless tokens carry addresses and another user's row still holds this
\* one (auth.ts:79-88, webhooks.routes.ts:10-37).
EveryUserGetsIn ==
    \A q \in Request :
      LET a == Sender[q]
      IN  Active(a) ~> \/ request[q] = "in"
                       \/ ~Active(a)
                       \/ emailInToken /\ Taken(a, clerk[a].address)
=============================================================================
