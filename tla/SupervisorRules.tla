--------------------------- MODULE SupervisorRules ---------------------------
(***************************************************************************)
(* The supervisor's rules (backend/services/supervisor/                    *)
(* supervisor-rules.service.ts): versions in the database, each in effect  *)
(* from a later time on, and in every backend process a cache of the rules *)
(* in effect.  A request evaluates a trade against the rules, lists them,  *)
(* or schedules a change of one (routes/advanced-features.routes.ts).      *)
(*                                                                         *)
(* A statement of the database is a step; the code that waits for its      *)
(* answer goes on in a later one.  The routes catch nothing: an error of a *)
(* statement, sent or landed, ends the process.                            *)
(***************************************************************************)
EXTENDS Naturals

CONSTANTS
    Rule,         \* the rules of DEFAULT_RULES
    Field, Value, \* what a rule says: enabled, params and description
    Default,      \* Default[k] is rule k of DEFAULT_RULES
    Process,      \* backend processes
    Req,          \* requests
    Change,       \* those that change a rule; the others evaluate or list them
    Named,        \* Named[u] is the rule a change names, which may not exist
    Updates,      \* Updates[u] gives the new values of the fields it changes
    Seeded,       \* whether the table was seeded before
    Nobody,       \* stands for the request of a version that was seeded
    Delay, TTL,   \* RULE_CHANGE_DELAY_MS, CACHE_TTL_MS
    MaxTime, MaxRestarts \* bounds on the clock and on the processes that end

ASSUME RuleAssumption ==
    /\ Default \in [Rule -> [Field -> Value]]
    /\ Change \subseteq Req
    /\ \A u \in Change : Updates[u] \in UNION {[F -> Value] : F \in SUBSET Field}
    /\ Nobody \notin Req /\ Process # {} /\ Seeded \in BOOLEAN
    /\ Delay \in Nat /\ TTL \in Nat \ {0} /\ MaxTime \in Nat /\ MaxRestarts \in Nat

VARIABLES
    now,
    versions,   \* the table supervisorRuleVersion
    cache,      \* rulesCache and cacheExpiry of each process; no rules stand for null
    call,       \* the local variables of each request
    restarts

vars == <<now, versions, cache, call, restarts>>

-----------------------------------------------------------------------------
\* A row; by is the change that created it.
Version == [rule : Rule, content : [Field -> Value], effectiveAt : Nat,
            createdAt : Nat, by : Change \cup {Nobody}]

\* began, at: when the request asked for the rules and when it got them; used: what
\* it got, a version for each rule; countedAt, rows: what it has seen in between, as
\* long as it needs it.
Call == [pc : {"idle", "count", "seed", "find", "answer", "store", "stored", "done",
               "lost"},
         process : Process, began : Nat, at : Nat, countedAt : Nat,
         rows : SUBSET Version, used : SUBSET Version]

TypeOK ==
    /\ now \in Nat
    /\ versions \subseteq Version
    /\ cache \in [Process -> [rules : SUBSET Version, expiry : Nat]]
    /\ call \in [Req -> Call]
    /\ restarts \in Nat

NoCall == [pc |-> "idle", process |-> CHOOSE p \in Process : TRUE, began |-> 0, at |-> 0,
           countedAt |-> 0, rows |-> {}, used |-> {}]

NoCache == [rules |-> {}, expiry |-> 0]

Seeds(effective, created) ==
    {[rule |-> k, content |-> Default[k], effectiveAt |-> effective,
      createdAt |-> created, by |-> Nobody] : k \in Rule}

\* DEFAULT_RULES themselves, which are in no table.
DefaultRules == Seeds(0, 0)

Init ==
    /\ now = 0
    /\ versions = IF Seeded THEN Seeds(0, 0) ELSE {}
    /\ cache = [p \in Process |-> NoCache]
    /\ call = [r \in Req |-> NoCall]
    /\ restarts = 0

-----------------------------------------------------------------------------
\* The versions that may be the first of their rules in the order of findMany, which
\* leaves open the order of rows with the same effectiveAt.
Newest(rows) ==
    {v \in rows : \A w \in rows : w.rule = v.rule => w.effectiveAt <= v.effectiveAt}

OnePerRule(rows) ==
    {S \in SUBSET rows : \A v \in rows : \E w \in S : \A x \in S : x.rule = v.rule <=> x = w}

\* Mutant of Effective: what waits for its delay is served too.
EffectiveUnfiltered(rows, cutoff) == OnePerRule(Newest(rows))

Effective(rows, cutoff) == OnePerRule(Newest({v \in rows : v.effectiveAt <= cutoff}))

\* Mutant of Hit: a cache is used a moment too long.
HitStale(p) == cache[p].rules # {} /\ cache[p].expiry >= now

Hit(p) == cache[p].rules # {} /\ cache[p].expiry > now

Current(u) == CHOOSE v \in call[u].used : v.rule = Named[u]

\* Mutant of Content: the other fields of the rule are dropped.
ContentUnmerged(u) == Updates[u]

\* What updateRule stores: the fields it was given over the rule in effect.
Content(u) ==
    [f \in Field |-> IF f \in DOMAIN Updates[u] THEN Updates[u][f] ELSE Current(u).content[f]]

NewVersion(u) ==
    [rule |-> Named[u], content |-> Content(u), effectiveAt |-> call[u].at + Delay,
     createdAt |-> now, by |-> u]

\* getEffectiveRules gave the request rules, and its own code goes on until it sends
\* a statement or its answer.
Goes(r, c, rules) ==
    [c EXCEPT !.pc = IF r \in Change THEN "store" ELSE "done",
              !.used = rules, !.at = now, !.rows = {}]

Finds(r, rules) == r \in Change => \E v \in rules : v.rule = Named[r]

\* The process ends, with the requests it worked on, and is started again.
Dies(p) ==
    /\ restarts < MaxRestarts /\ restarts' = restarts + 1
    /\ cache' = [cache EXCEPT ![p] = NoCache]
    /\ call' = [r \in Req |->
                  IF call[r].process = p /\ call[r].pc \notin {"idle", "done"}
                  THEN [call[r] EXCEPT !.pc = "lost", !.rows = {}, !.countedAt = 0]
                  ELSE call[r]]

-----------------------------------------------------------------------------
Asked(r, p) == [call[r] EXCEPT !.pc = "count", !.process = p, !.began = now]

\* A request that finds the cache filled.  A change of a rule that is not there ends
\* the process; the request may then come again.
BeginCached(r, p) ==
    /\ call[r].pc = "idle" /\ Hit(p)
    /\ \/ /\ Finds(r, cache[p].rules)
          /\ call' = [call EXCEPT ![r] = Goes(r, Asked(r, p), cache[p].rules)]
          /\ UNCHANGED <<cache, restarts>>
       \/ ~Finds(r, cache[p].rules) /\ Dies(p)
    /\ UNCHANGED <<now, versions>>

Begin(r, p) ==
    /\ call[r].pc = "idle" /\ ~Hit(p)
    /\ call' = [call EXCEPT ![r] = Asked(r, p)]
    /\ UNCHANGED <<now, versions, cache, restarts>>

Count(r) ==
    /\ call[r].pc = "count"
    /\ call' = [call EXCEPT ![r].pc = IF versions = {} THEN "seed" ELSE "find",
                            ![r].countedAt = IF versions = {} THEN now ELSE 0]
    /\ UNCHANGED <<now, versions, cache, restarts>>

\* createMany; its rows have the time at which the count was answered.
Seed(r) ==
    /\ call[r].pc = "seed"
    /\ \E t \in call[r].countedAt .. now :
         versions' = versions \cup Seeds(t, now)
    /\ call' = [call EXCEPT ![r].pc = "find", ![r].countedAt = 0]
    /\ UNCHANGED <<now, cache, restarts>>

FindMany(r) ==
    /\ call[r].pc = "find"
    /\ call' = [call EXCEPT ![r].pc = "answer", ![r].rows = versions]
    /\ UNCHANGED <<now, versions, cache, restarts>>

\* findMany answers: the rules in effect now, cached from when the request asked for
\* them, and what the request does with them.
Answer(r) ==
    /\ call[r].pc = "answer"
    /\ \E e \in Effective(call[r].rows, now) :
         LET p == call[r].process
             rules == IF e = {} THEN DefaultRules ELSE e
         IN \/ /\ Finds(r, rules)
               /\ cache' = IF e = {} THEN cache
                           ELSE [cache EXCEPT ![p] = [rules |-> e,
                                                      expiry |-> call[r].began + TTL]]
               /\ call' = [call EXCEPT ![r] = Goes(r, call[r], rules)]
               /\ UNCHANGED restarts
            \/ ~Finds(r, rules) /\ Dies(p)
    /\ UNCHANGED <<now, versions>>

\* Mutant of Store: a create whose answer is late is sent again.
StoreRetried(u) ==
    /\ call[u].pc = "store"
    /\ versions' = versions \cup {NewVersion(u)}
    /\ \E pc \in {"store", "stored"} : call' = [call EXCEPT ![u].pc = pc]
    /\ UNCHANGED <<now, cache, restarts>>

Store(u) ==
    /\ call[u].pc = "store"
    /\ versions' = versions \cup {NewVersion(u)}
    /\ call' = [call EXCEPT ![u].pc = "stored"]
    /\ UNCHANGED <<now, cache, restarts>>

\* The expiry of a cache that is null means nothing.
Stored(u) ==
    /\ call[u].pc = "stored"
    /\ cache' = [cache EXCEPT ![call[u].process] = NoCache]
    /\ call' = [call EXCEPT ![u].pc = "done"]
    /\ UNCHANGED <<now, versions, restarts>>

\* A deploy, a crash, or a statement that failed, whether it landed or not.
Restart(p) == Dies(p) /\ UNCHANGED <<now, versions>>

Tick == now < MaxTime /\ now' = now + 1 /\ UNCHANGED <<versions, cache, call, restarts>>

Next ==
    \/ \E r \in Req, p \in Process : BeginCached(r, p) \/ Begin(r, p)
    \/ \E r \in Req : Count(r) \/ Seed(r) \/ FindMany(r) \/ Answer(r)
    \/ \E u \in Change : Store(u) \/ Stored(u)
    \/ \E p \in Process : Restart(p)
    \/ Tick

Spec == Init /\ [][Next]_vars

-----------------------------------------------------------------------------
Given(r) == call[r].used # {}

\* No request is given a version before its time: a change waits for its delay, from
\* the moment its request computed it, in every process and through every cache.
NeverEarly ==
    \A r \in Req : \A v \in call[r].used :
        /\ v.effectiveAt <= call[r].at
        /\ v.by \in Change => call[v.by].at + Delay <= call[r].at

\* rules are those that were in effect at time t, of the versions that were in the
\* table at time seen; those created at that very moment may or may not count.
AsOf(rules, seen, t) ==
    /\ \A v \in rules : v \in versions /\ v.createdAt <= seen /\ v.effectiveAt <= t
    /\ \A v, w \in rules : v.rule = w.rule => v = w
    /\ \A v \in versions :
         v.createdAt < seen /\ v.effectiveAt <= t =>
             \E w \in rules : w.rule = v.rule /\ v.effectiveAt <= w.effectiveAt

\* All rules a request is given are from one moment, less than TTL before it asked:
\* no cache serves older ones, whichever reader filled it and whatever that reader
\* had read before, and no answer mixes the rules of two moments.
FreshSnapshot ==
    \A r \in Req : Given(r) =>
        \E seen \in 0 .. call[r].at : \E t \in seen .. call[r].at :
            /\ call[r].began < seen + TTL
            /\ AsOf(call[r].used, seen, t)

\* "rule changes apply after RULE_CHANGE_DELAY_MS" (README.md:598): a request that
\* asks long enough after a change is given the values it set, unless a later change
\* set that field again or the defaults were seeded later.
ChangesApply ==
    \A v \in versions, r \in Req :
        /\ v.by \in Change
        /\ Given(r) /\ v.effectiveAt + TTL <= call[r].began /\ v.createdAt < v.effectiveAt
        => \A f \in DOMAIN Updates[v.by] :
             \/ \E w \in versions : /\ w # v /\ w.rule = v.rule
                                    /\ w.effectiveAt >= v.effectiveAt
                                    /\ \/ w.by = Nobody
                                       \/ f \in DOMAIN Updates[w.by]
             \/ \E w \in call[r].used : w.rule = v.rule /\ w.content[f] = Updates[v.by][f]
-----------------------------------------------------------------------------
\* The book the processes keep between them: what a request was shown is what it was
\* given, and it asked when its code first ran.
Asks(r) == IF call[r].pc = "idle" THEN {} ELSE {call[r].began}

Book == INSTANCE RuleBook WITH
          book   <- versions,
          asked  <- [r \in Req |-> Asks(r)],
          seen   <- [r \in Req |-> call[r].used],
          seenAt <- [r \in Req |-> call[r].at]

\* Between them the processes keep one book of rules: whatever caches, seeds, failed
\* statements and restarts do, versions are never taken back, a request is given rules
\* once and all of one recent moment, and a change is written once, over the rule it
\* was given, for a time no sooner than its delay (supervisor-rules.service.ts:39-110).
ImplementsRuleBook == Book!Spec
=============================================================================
