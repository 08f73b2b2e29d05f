------------------------------ MODULE RuleBook -------------------------------
(***************************************************************************)
(* What the supervisor's rules promise, without processes, caches and the  *)
(* statements of the database: a book of versions that only grows, in      *)
(* which a request looks once and sees a page of one moment less than TTL  *)
(* before it asked, and to which a change adds one version, of what it saw *)
(* with its own values over it, in effect Delay after it saw it.           *)
(* SupervisorRules implements this.                                        *)
(***************************************************************************)
EXTENDS Naturals

CONSTANTS Rule, Req, Change, Named, Updates, Default, Nobody, Delay, TTL

VARIABLES
    now,
    book,       \* the versions
    asked,      \* when each request first asked, a set of at most one time
    seen,       \* the versions each request was shown
    seenAt      \* when it was shown them

vars == <<now, book, asked, seen, seenAt>>

\* The versions page holds are those in effect at time t, of those the book had at
\* time written; those written at that very moment may or may not count.
Page(page, written, t) ==
    /\ \A v \in page : v \in book /\ v.createdAt <= written /\ v.effectiveAt <= t
    /\ \A v, w \in page : v.rule = w.rule => v = w
    /\ \A v \in book : v.createdAt < written /\ v.effectiveAt <= t =>
         \E w \in page : w.rule = v.rule /\ v.effectiveAt <= w.effectiveAt

Init ==
    /\ now = 0
    /\ \/ book = {}
       \/ book = {[rule |-> k, content |-> Default[k], effectiveAt |-> 0,
                   createdAt |-> 0, by |-> Nobody] : k \in Rule}
    /\ asked = [r \in Req |-> {}]
    /\ seen = [r \in Req |-> {}]
    /\ seenAt = [r \in Req |-> 0]

\* The defaults are written, by whoever finds the book empty, which more than one may.
Seed ==
    /\ \E t \in 0 .. now :
         book' = book \cup {[rule |-> k, content |-> Default[k], effectiveAt |-> t,
                             createdAt |-> now, by |-> Nobody] : k \in Rule}
    /\ UNCHANGED <<now, asked, seen, seenAt>>

Ask(r) ==
    /\ asked[r] = {}
    /\ asked' = [asked EXCEPT ![r] = {now}]
    /\ UNCHANGED <<now, book, seen, seenAt>>

\* A request that asks, or has asked and saw nothing yet, is shown a page.
Look(r, page) ==
    /\ seen[r] = {}
    /\ seen' = [seen EXCEPT ![r] = page]
    /\ seenAt' = [seenAt EXCEPT ![r] = now]
    /\ \E from \in IF asked[r] = {} THEN {now} ELSE asked[r] :
         /\ asked' = [asked EXCEPT ![r] = {from}]
         /\ \E written \in 0 .. now : \E t \in written .. now :
              from < written + TTL /\ Page(page, written, t)
    /\ UNCHANGED <<now, book>>

\* A change adds its version of a rule it saw, once.
Write(u) ==
    /\ \A v \in book : v.by # u
    /\ \E v \in seen[u] :
         /\ v.rule = Named[u]
         /\ book' = book \cup
              {[rule |-> v.rule, effectiveAt |-> seenAt[u] + Delay, createdAt |-> now, by |-> u,
                content |-> [f \in DOMAIN v.content |->
                               IF f \in DOMAIN Updates[u] THEN Updates[u][f]
                                                          ELSE v.content[f]]]}
    /\ UNCHANGED <<now, asked, seen, seenAt>>

Tick ==
    /\ now' = now + 1
    /\ UNCHANGED <<book, asked, seen, seenAt>>

Next ==
    \/ Seed
    \/ \E r \in Req : Ask(r) \/ \E page \in SUBSET book : Look(r, page)
    \/ \E u \in Change : Write(u)
    \/ Tick

Spec == Init /\ [][Next]_vars
=============================================================================
