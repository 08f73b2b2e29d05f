------------------------ MODULE SupervisorRulesProofs ------------------------
(* No request is given a version of a rule before its time, and every answer *)
(* is the table's content of one moment no further back than a cache may be, *)
(* proved for all rules, processes, requests, delays and TTLs.  The first    *)
(* invariant is EarlyInv; the second, FreshInv, adds to it what the table,   *)
(* the caches and the requests hold of past moments.                         *)
EXTENDS SupervisorRules, TLAPS, FiniteSetTheorems

-----------------------------------------------------------------------------
\* A change that is about to store, or has stored, was given the rule it names.
StoreFinds ==
    \A u \in Change : call[u].pc = "store" => \E v \in call[u].used : v.rule = Named[u]

\* A row of a change waits for the delay from when the change was computed, and the
\* change does not compute it again.
RowsWait ==
    \A v \in versions : v.by \in Change =>
        /\ call[v.by].pc \in {"stored", "done", "lost"}
        /\ v.effectiveAt = call[v.by].at + Delay

\* Rows that were read are rows of the table, which loses none.
ReadsAreRows == \A r \in Req : call[r].rows \subseteq versions

\* A cache holds rows that are in effect.
CachesInEffect ==
    \A p \in Process : \A v \in cache[p].rules : v \in versions /\ v.effectiveAt <= now

\* What a request was given was in effect when it got it, and a row if a change made it.
GivenInEffect ==
    \A r \in Req : \A v \in call[r].used :
        /\ v.effectiveAt <= call[r].at
        /\ v.by \in Change => v \in versions

EarlyInv == /\ TypeOK /\ StoreFinds /\ RowsWait /\ ReadsAreRows
            /\ CachesInEffect /\ GivenInEffect

-----------------------------------------------------------------------------
\* The defaults are versions, whatever the times.
LEMMA SeedsAreVersions ==
    ASSUME NEW e \in Nat, NEW t \in Nat
    PROVE  /\ Seeds(e, t) \subseteq Version
           /\ \A v \in Seeds(e, t) : v.by = Nobody /\ v.effectiveAt = e
BY RuleAssumption DEF Seeds, Version

LEMMA SeedsAreComplete ==
    ASSUME NEW e, NEW t
    PROVE  /\ \A v \in Seeds(e, t) : v.createdAt = t
           /\ \A k \in Rule : \E v \in Seeds(e, t) : v.rule = k /\ v.effectiveAt = e
<1>1. ASSUME NEW k \in Rule
      PROVE  \E v \in Seeds(e, t) : v.rule = k /\ v.effectiveAt = e
  <2> DEFINE v == [rule |-> k, content |-> Default[k], effectiveAt |-> e, createdAt |-> t,
                   by |-> Nobody]
  <2>1. v \in Seeds(e, t)
    BY DEF Seeds
  <2> QED
    BY <2>1
<1> QED
  BY <1>1 DEF Seeds

\* No change stands for Nobody.
LEMMA NobodyChanges == Nobody \notin Change
BY RuleAssumption

\* The rules in effect are rows that are due.
LEMMA EffectiveAreDue ==
    ASSUME NEW rows, NEW cutoff, NEW e \in Effective(rows, cutoff)
    PROVE  \A v \in e : v \in rows /\ v.effectiveAt <= cutoff
BY DEF Effective, OnePerRule, Newest

\* What an update stores is a version of the rule it was given.
LEMMA NewVersionTyped ==
    ASSUME TypeOK, StoreFinds, NEW u \in Change, call[u].pc = "store"
    PROVE  NewVersion(u) \in Version
<1>1. u \in Req /\ call[u] \in Call /\ now \in Nat
  BY RuleAssumption DEF TypeOK
<1>2. \E v \in call[u].used : v.rule = Named[u]
  BY DEF StoreFinds
<1>3. Current(u) \in Version /\ Current(u).rule = Named[u]
  BY <1>1, <1>2 DEF Current, Call
<1>4. Named[u] \in Rule /\ Current(u).content \in [Field -> Value]
  BY <1>3 DEF Version
<1>5. PICK F \in SUBSET Field : Updates[u] \in [F -> Value]
  BY RuleAssumption
<1>6. Content(u) \in [Field -> Value]
  BY <1>4, <1>5 DEF Content
<1>7. call[u].at + Delay \in Nat
  BY <1>1, RuleAssumption DEF Call
<1> QED
  BY <1>1, <1>4, <1>6, <1>7 DEF NewVersion, Version

LEMMA InitEarly == Init => EarlyInv
<1> SUFFICES ASSUME Init PROVE EarlyInv
  OBVIOUS
<1>1. versions \subseteq Version /\ \A v \in versions : v.by \notin Change
  BY SeedsAreVersions, NobodyChanges DEF Init
<1>2. (CHOOSE p \in Process : TRUE) \in Process
  BY RuleAssumption
<1>3. NoCall \in Call
  BY <1>2 DEF NoCall, Call
<1>4. TypeOK
  BY <1>1, <1>3 DEF Init, TypeOK, NoCache
<1> QED
  BY <1>1, <1>4, RuleAssumption DEF EarlyInv, Init, StoreFinds, RowsWait, ReadsAreRows,
     CachesInEffect, GivenInEffect, NoCall, NoCache

\* A step of one request, of which the table loses no row: what must hold of its local
\* variables for the invariant to hold of all requests.
LEMMA CallStep ==
    ASSUME EarlyInv, NEW r \in Req, NEW new \in Call,
           call' = [call EXCEPT ![r] = new],
           versions \subseteq versions',
           r \in Change /\ new.pc = "store" => \E v \in new.used : v.rule = Named[r],
           call[r].pc \in {"stored", "done", "lost"} =>
               new.pc \in {"stored", "done", "lost"} /\ new.at = call[r].at,
           new.rows \subseteq versions',
           \A v \in new.used : /\ v.effectiveAt <= new.at
                               /\ v.by \in Change => v \in versions'
    PROVE  /\ call' \in [Req -> Call]
           /\ StoreFinds' /\ ReadsAreRows' /\ GivenInEffect'
           /\ \A v \in versions : v.by \in Change =>
                /\ call'[v.by].pc \in {"stored", "done", "lost"}
                /\ v.effectiveAt = call'[v.by].at + Delay
<1>1. call \in [Req -> Call] /\ Change \subseteq Req
  BY RuleAssumption DEF EarlyInv, TypeOK
<1>2. call' \in [Req -> Call]
  BY <1>1
<1>3. \A q \in Req : call'[q] = IF q = r THEN new ELSE call[q]
  BY <1>1
<1>4. StoreFinds'
  BY <1>1, <1>3 DEF EarlyInv, StoreFinds
<1>5. ReadsAreRows'
  BY <1>3 DEF EarlyInv, ReadsAreRows
<1>6. GivenInEffect'
  BY <1>3 DEF EarlyInv, GivenInEffect
<1>7. \A v \in versions : v.by \in Change =>
        /\ call'[v.by].pc \in {"stored", "done", "lost"}
        /\ v.effectiveAt = call'[v.by].at + Delay
  BY <1>1, <1>3 DEF EarlyInv, RowsWait
<1> QED
  BY <1>2, <1>4, <1>5, <1>6, <1>7

\* A process that ends keeps the invariant.
LEMMA DiesEarly ==
    ASSUME EarlyInv, NEW p \in Process, Dies(p), UNCHANGED <<now, versions>>
    PROVE  EarlyInv'
<1>1. /\ call \in [Req -> Call] /\ Change \subseteq Req
      /\ cache \in [Process -> [rules : SUBSET Version, expiry : Nat]]
      /\ now \in Nat /\ restarts \in Nat /\ versions \subseteq Version
  BY RuleAssumption DEF EarlyInv, TypeOK
<1> DEFINE lost(c) == [c EXCEPT !.pc = "lost", !.rows = {}, !.countedAt = 0]
<1>2. \A c \in Call : /\ lost(c) \in Call /\ lost(c).pc = "lost" /\ lost(c).rows = {}
                      /\ lost(c).used = c.used /\ lost(c).at = c.at
  BY DEF Call
<1>3. \A q \in Req : \/ call'[q] = call[q]
                     \/ call[q].pc \notin {"idle", "done"} /\ call'[q] = lost(call[q])
  BY DEF Dies
<1> HIDE DEF lost
<1>4. call' \in [Req -> Call]
  <2>1. \A q \in Req : call'[q] \in Call
    BY <1>1, <1>2, <1>3
  <2> QED
    BY <2>1 DEF Dies
<1>5. cache' \in [Process -> [rules : SUBSET Version, expiry : Nat]]
  BY <1>1 DEF Dies, NoCache
<1>6. TypeOK'
  <2>1. restarts' \in Nat
    <3>1. restarts \in Nat
      BY <1>1
    <3>2. restarts' = restarts + 1
      BY DEF Dies
    <3> QED
      BY <3>1, <3>2
  <2>2. now' \in Nat /\ versions' \subseteq Version
    BY <1>1
  <2> QED
    BY <1>4, <1>5, <2>1, <2>2 DEF TypeOK
<1>7. StoreFinds'
  BY <1>1, <1>2, <1>3 DEF EarlyInv, StoreFinds
<1>8. RowsWait'
  BY <1>1, <1>2, <1>3 DEF EarlyInv, RowsWait
<1>9. ReadsAreRows'
  BY <1>1, <1>2, <1>3 DEF EarlyInv, ReadsAreRows
<1>10. CachesInEffect'
  BY <1>1 DEF EarlyInv, CachesInEffect, Dies, NoCache
<1>11. GivenInEffect'
  BY <1>1, <1>2, <1>3 DEF EarlyInv, GivenInEffect
<1> QED
  BY <1>6, <1>7, <1>8, <1>9, <1>10, <1>11 DEF EarlyInv

\* A request that is given rules in effect.
LEMMA GoesEarly ==
    ASSUME EarlyInv, NEW r \in Req, NEW c \in Call, NEW rules \in SUBSET Version,
           call[r].pc \notin {"stored", "done", "lost"},
           Finds(r, rules), call' = [call EXCEPT ![r] = Goes(r, c, rules)],
           \A v \in rules : /\ v.effectiveAt <= now
                            /\ v.by \in Change => v \in versions,
           UNCHANGED <<now, versions, restarts>>,
           cache' \in [Process -> [rules : SUBSET Version, expiry : Nat]],
           CachesInEffect'
    PROVE  EarlyInv'
<1> DEFINE new == Goes(r, c, rules)
<1>1. now \in Nat /\ restarts \in Nat /\ versions \subseteq Version
  BY DEF EarlyInv, TypeOK
<1>2. /\ new \in Call /\ new.used = rules /\ new.at = now /\ new.rows = {}
      /\ new.pc = "store" => r \in Change
  BY <1>1 DEF Goes, Call
<1>3. call' = [call EXCEPT ![r] = new]
  OBVIOUS
<1> HIDE DEF new
<1>4. r \in Change /\ new.pc = "store" => \E v \in new.used : v.rule = Named[r]
  BY <1>2 DEF Finds
<1>5. new.rows \subseteq versions'
  BY <1>2
<1>6. \A v \in new.used : v.effectiveAt <= new.at /\ (v.by \in Change => v \in versions')
  BY <1>2
<1>7. /\ call' \in [Req -> Call]
      /\ StoreFinds' /\ ReadsAreRows' /\ GivenInEffect'
      /\ \A v \in versions : v.by \in Change =>
           /\ call'[v.by].pc \in {"stored", "done", "lost"}
           /\ v.effectiveAt = call'[v.by].at + Delay
  BY <1>2, <1>3, <1>4, <1>5, <1>6, CallStep
<1>8. TypeOK' /\ RowsWait'
  BY <1>1, <1>7 DEF TypeOK, RowsWait
<1> QED
  BY <1>7, <1>8 DEF EarlyInv

\* A step of one request that is given nothing and leaves the table, the caches and
\* the clock alone.
LEMMA MovesEarly ==
    ASSUME EarlyInv, NEW r \in Req, NEW new \in Call,
           call' = [call EXCEPT ![r] = new],
           call[r].pc \notin {"stored", "done", "lost"},
           new.pc # "store", new.used = call[r].used, new.at = call[r].at,
           new.rows \subseteq versions, UNCHANGED <<now, versions, cache, restarts>>
    PROVE  EarlyInv'
<1>1. /\ TypeOK /\ \A v \in new.used : /\ v.effectiveAt <= new.at
                                       /\ v.by \in Change => v \in versions'
  BY DEF EarlyInv, GivenInEffect
<1>2. versions \subseteq versions' /\ new.rows \subseteq versions'
  OBVIOUS
<1>3. /\ call' \in [Req -> Call]
      /\ StoreFinds' /\ ReadsAreRows' /\ GivenInEffect'
      /\ \A v \in versions : v.by \in Change =>
           /\ call'[v.by].pc \in {"stored", "done", "lost"}
           /\ v.effectiveAt = call'[v.by].at + Delay
  BY <1>1, <1>2, CallStep
<1>4. TypeOK' /\ RowsWait'
  BY <1>1, <1>3 DEF TypeOK, RowsWait
<1>5. CachesInEffect'
  BY DEF EarlyInv, CachesInEffect
<1> QED
  BY <1>3, <1>4, <1>5 DEF EarlyInv

\* Every step keeps the invariant.
LEMMA NextEarly == EarlyInv /\ [Next]_vars => EarlyInv'
<1> SUFFICES ASSUME EarlyInv, [Next]_vars PROVE EarlyInv'
  OBVIOUS
<1>a. /\ now \in Nat /\ restarts \in Nat /\ versions \subseteq Version
      /\ cache \in [Process -> [rules : SUBSET Version, expiry : Nat]]
      /\ call \in [Req -> Call] /\ Change \subseteq Req
      /\ Delay \in Nat /\ TTL \in Nat
  BY RuleAssumption DEF EarlyInv, TypeOK
<1>b. \A r \in Req : call[r] \in Call
  BY <1>a
<1>1. ASSUME NEW r \in Req, NEW p \in Process, BeginCached(r, p)
      PROVE  EarlyInv'
  <2>1. CASE ~Finds(r, cache[p].rules) /\ Dies(p)
    BY <1>1, <2>1, DiesEarly DEF BeginCached
  <2>2. CASE /\ Finds(r, cache[p].rules)
             /\ call' = [call EXCEPT ![r] = Goes(r, Asked(r, p), cache[p].rules)]
             /\ UNCHANGED <<cache, restarts>>
    <3>1. Asked(r, p) \in Call /\ cache[p].rules \in SUBSET Version
      BY <1>a, <1>b DEF Asked, Call
    <3>2. \A v \in cache[p].rules : v.effectiveAt <= now /\ v \in versions
      BY DEF EarlyInv, CachesInEffect
    <3>3. CachesInEffect'
      BY <1>1, <2>2 DEF EarlyInv, CachesInEffect, BeginCached
    <3>4. /\ call[r].pc \notin {"stored", "done", "lost"}
          /\ UNCHANGED <<now, versions, restarts>>
      BY <1>1, <2>2 DEF BeginCached
    <3>5. cache' \in [Process -> [rules : SUBSET Version, expiry : Nat]]
      BY <1>a, <2>2
    <3> QED
      BY <2>2, <3>1, <3>2, <3>3, <3>4, <3>5, GoesEarly
  <2> QED
    BY <1>1, <2>1, <2>2 DEF BeginCached
<1>2. ASSUME NEW r \in Req, NEW p \in Process, Begin(r, p)
      PROVE  EarlyInv'
  <2>1. /\ Asked(r, p) \in Call /\ Asked(r, p).pc = "count"
        /\ Asked(r, p).used = call[r].used /\ Asked(r, p).at = call[r].at
        /\ Asked(r, p).rows = call[r].rows
    BY <1>a, <1>b DEF Asked, Call
  <2>2. Asked(r, p).rows \subseteq versions
    BY <2>1 DEF EarlyInv, ReadsAreRows
  <2> QED
    BY <1>2, <2>1, <2>2, MovesEarly DEF Begin
<1>3. ASSUME NEW r \in Req, Count(r) PROVE EarlyInv'
  <2> DEFINE new == [call[r] EXCEPT !.pc = IF versions = {} THEN "seed" ELSE "find",
                                    !.countedAt = IF versions = {} THEN now ELSE 0]
  <2>1. /\ new \in Call /\ new.pc # "store" /\ new.used = call[r].used
        /\ new.at = call[r].at /\ new.rows = call[r].rows
    BY <1>a, <1>b DEF Call
  <2>2. call' = [call EXCEPT ![r] = new]
    BY <1>3, <1>a DEF Count
  <2>3. new.rows \subseteq versions
    BY <2>1 DEF EarlyInv, ReadsAreRows
  <2> HIDE DEF new
  <2> QED
    BY <1>3, <2>1, <2>2, <2>3, MovesEarly DEF Count
<1>4. ASSUME NEW r \in Req, FindMany(r) PROVE EarlyInv'
  <2> DEFINE new == [call[r] EXCEPT !.pc = "answer", !.rows = versions]
  <2>1. /\ new \in Call /\ new.pc # "store" /\ new.used = call[r].used
        /\ new.at = call[r].at /\ new.rows = versions
    BY <1>a, <1>b DEF Call
  <2>2. call' = [call EXCEPT ![r] = new]
    BY <1>4, <1>a DEF FindMany
  <2> HIDE DEF new
  <2> QED
    BY <1>4, <2>1, <2>2, MovesEarly DEF FindMany
<1>5. ASSUME NEW r \in Req, Seed(r) PROVE EarlyInv'
  <2> DEFINE new == [call[r] EXCEPT !.pc = "find", !.countedAt = 0]
  <2>1. /\ new \in Call /\ new.pc = "find" /\ new.used = call[r].used
        /\ new.at = call[r].at /\ new.rows = call[r].rows
    BY <1>b DEF Call
  <2>2. call' = [call EXCEPT ![r] = new] /\ call[r].pc = "seed"
    BY <1>5, <1>a DEF Seed
  <2> HIDE DEF new
  <2>3. PICK t \in call[r].countedAt .. now : versions' = versions \cup Seeds(t, now)
    BY <1>5 DEF Seed
  <2>4. t \in Nat
    BY <1>a, <1>b DEF Call
  <2>5. /\ Seeds(t, now) \subseteq Version
        /\ \A v \in Seeds(t, now) : v.by \notin Change
    BY <1>a, <2>4, SeedsAreVersions, NobodyChanges
  <2>6. versions \subseteq versions' /\ new.rows \subseteq versions'
    BY <2>1, <2>3 DEF EarlyInv, ReadsAreRows
  <2>7. \A v \in new.used : v.effectiveAt <= new.at /\ (v.by \in Change => v \in versions')
    BY <2>1, <2>6 DEF EarlyInv, GivenInEffect
  <2>8. /\ call' \in [Req -> Call]
        /\ StoreFinds' /\ ReadsAreRows' /\ GivenInEffect'
        /\ \A v \in versions : v.by \in Change =>
             /\ call'[v.by].pc \in {"stored", "done", "lost"}
             /\ v.effectiveAt = call'[v.by].at + Delay
    BY <2>1, <2>2, <2>6, <2>7, CallStep
  <2>9. TypeOK' /\ RowsWait'
    BY <1>5, <1>a, <2>3, <2>5, <2>8 DEF TypeOK, RowsWait, Seed
  <2>10. CachesInEffect'
    BY <1>5, <2>6 DEF EarlyInv, CachesInEffect, Seed
  <2> QED
    BY <2>8, <2>9, <2>10 DEF EarlyInv
<1>6. ASSUME NEW r \in Req, Answer(r) PROVE EarlyInv'
  <2> DEFINE given(e) == IF e = {} THEN DefaultRules ELSE e
             p == call[r].process
  <2>1. call[r] \in Call /\ p \in Process
    BY <1>b DEF Call
  <2>2. PICK e \in Effective(call[r].rows, now) :
          \/ /\ Finds(r, given(e))
             /\ cache' = IF e = {} THEN cache
                         ELSE [cache EXCEPT ![p] = [rules |-> e,
                                                    expiry |-> call[r].began + TTL]]
             /\ call' = [call EXCEPT ![r] = Goes(r, call[r], given(e))]
             /\ UNCHANGED restarts
          \/ ~Finds(r, given(e)) /\ Dies(p)
    BY <1>6 DEF Answer
  <2>3. UNCHANGED <<now, versions>> /\ call[r].pc = "answer"
    BY <1>6 DEF Answer
  <2>4. CASE Dies(p)
    BY <2>1, <2>3, <2>4, DiesEarly
  <2>5. CASE /\ Finds(r, given(e))
             /\ cache' = IF e = {} THEN cache
                         ELSE [cache EXCEPT ![p] = [rules |-> e,
                                                    expiry |-> call[r].began + TTL]]
             /\ call' = [call EXCEPT ![r] = Goes(r, call[r], given(e))]
             /\ UNCHANGED restarts
    <3>1. \A v \in e : v \in versions /\ v.effectiveAt <= now
      BY EffectiveAreDue DEF EarlyInv, ReadsAreRows
    <3>2. given(e) \in SUBSET Version
      BY <1>a, <3>1, SeedsAreVersions DEF DefaultRules
    <3>3. \A v \in given(e) : v.effectiveAt <= now /\ (v.by \in Change => v \in versions)
      BY <1>a, <3>1, SeedsAreVersions, NobodyChanges DEF DefaultRules
    <3>4. call[r].began + TTL \in Nat
      BY <1>a, <2>1 DEF Call
    <3>5. cache' \in [Process -> [rules : SUBSET Version, expiry : Nat]]
      BY <1>a, <2>5, <3>1, <3>4
    <3>6. CachesInEffect'
      BY <1>a, <2>3, <2>5, <3>1 DEF EarlyInv, CachesInEffect
    <3>7. call[r].pc \notin {"stored", "done", "lost"} /\ UNCHANGED <<now, versions, restarts>>
      BY <2>3, <2>5
    <3> HIDE DEF given
    <3> QED
      BY <2>1, <2>5, <3>2, <3>3, <3>5, <3>6, <3>7, GoesEarly
  <2> QED
    BY <2>2, <2>4, <2>5
<1>7. ASSUME NEW u \in Change, Store(u) PROVE EarlyInv'
  <2> DEFINE new == [call[u] EXCEPT !.pc = "stored"]
  <2>1. /\ new \in Call /\ new.pc = "stored" /\ new.used = call[u].used
        /\ new.at = call[u].at /\ new.rows = call[u].rows
    BY <1>a, <1>b DEF Call
  <2>2. /\ call' = [call EXCEPT ![u] = new] /\ call[u].pc = "store"
        /\ versions' = versions \cup {NewVersion(u)}
    BY <1>7, <1>a DEF Store
  <2> HIDE DEF new
  <2>3. NewVersion(u) \in Version
    BY <2>2, NewVersionTyped DEF EarlyInv
  <2>4. versions \subseteq versions' /\ new.rows \subseteq versions' /\ u \in Req
    BY <1>a, <2>1, <2>2 DEF EarlyInv, ReadsAreRows
  <2>5. \A v \in new.used : v.effectiveAt <= new.at /\ (v.by \in Change => v \in versions')
    BY <2>1, <2>4 DEF EarlyInv, GivenInEffect
  <2>6. /\ call' \in [Req -> Call]
        /\ StoreFinds' /\ ReadsAreRows' /\ GivenInEffect'
        /\ \A v \in versions : v.by \in Change =>
             /\ call'[v.by].pc \in {"stored", "done", "lost"}
             /\ v.effectiveAt = call'[v.by].at + Delay
    BY <2>1, <2>2, <2>4, <2>5, CallStep
  <2>7. /\ NewVersion(u).by = u /\ NewVersion(u).effectiveAt = call[u].at + Delay
        /\ call'[u] = new
    BY <1>a, <2>2, <2>4 DEF NewVersion
  <2>8. RowsWait'
    BY <2>1, <2>2, <2>6, <2>7 DEF RowsWait
  <2>9. TypeOK'
    BY <1>7, <1>a, <2>2, <2>3, <2>6 DEF TypeOK, Store
  <2>10. CachesInEffect'
    BY <1>7, <2>4 DEF EarlyInv, CachesInEffect, Store
  <2> QED
    BY <2>6, <2>8, <2>9, <2>10 DEF EarlyInv
<1>8. ASSUME NEW u \in Change, Stored(u) PROVE EarlyInv'
  <2> DEFINE new == [call[u] EXCEPT !.pc = "done"]
  <2>1. /\ new \in Call /\ new.pc = "done" /\ new.used = call[u].used
        /\ new.at = call[u].at /\ new.rows = call[u].rows
    BY <1>a, <1>b DEF Call
  <2>2. call' = [call EXCEPT ![u] = new] /\ UNCHANGED <<now, versions, restarts>>
    BY <1>8, <1>a DEF Stored
  <2> HIDE DEF new
  <2>3. versions \subseteq versions' /\ new.rows \subseteq versions' /\ u \in Req
    BY <1>a, <2>1, <2>2 DEF EarlyInv, ReadsAreRows
  <2>4. \A v \in new.used : v.effectiveAt <= new.at /\ (v.by \in Change => v \in versions')
    BY <2>1, <2>3 DEF EarlyInv, GivenInEffect
  <2>5. /\ call' \in [Req -> Call]
        /\ StoreFinds' /\ ReadsAreRows' /\ GivenInEffect'
        /\ \A v \in versions : v.by \in Change =>
             /\ call'[v.by].pc \in {"stored", "done", "lost"}
             /\ v.effectiveAt = call'[v.by].at + Delay
    BY <2>1, <2>2, <2>3, <2>4, CallStep
  <2>6. cache' \in [Process -> [rules : SUBSET Version, expiry : Nat]]
    BY <1>8, <1>a DEF Stored, NoCache
  <2>7. TypeOK' /\ RowsWait'
    BY <1>a, <2>2, <2>5, <2>6 DEF TypeOK, RowsWait
  <2>8. CachesInEffect'
    BY <1>8, <1>a DEF EarlyInv, CachesInEffect, Stored, NoCache
  <2> QED
    BY <2>5, <2>7, <2>8 DEF EarlyInv
<1>9. ASSUME NEW p \in Process, Restart(p) PROVE EarlyInv'
  BY <1>9, DiesEarly DEF Restart
<1>10. CASE Tick
  <2>1. TypeOK' /\ StoreFinds' /\ RowsWait' /\ ReadsAreRows' /\ GivenInEffect'
    BY <1>10, <1>a DEF EarlyInv, TypeOK, StoreFinds, RowsWait, ReadsAreRows,
       GivenInEffect, Tick
  <2>2. \A p \in Process : \A v \in cache[p].rules : v.effectiveAt \in Nat
    BY <1>a DEF Version
  <2>3. CachesInEffect'
    BY <1>10, <1>a, <2>2 DEF EarlyInv, CachesInEffect, Tick
  <2> QED
    BY <2>1, <2>3 DEF EarlyInv
<1>11. CASE UNCHANGED vars
  BY <1>11 DEF EarlyInv, TypeOK, StoreFinds, RowsWait, ReadsAreRows, CachesInEffect,
     GivenInEffect, vars
<1> QED
  BY <1>1, <1>2, <1>3, <1>4, <1>5, <1>6, <1>7, <1>8, <1>9, <1>10, <1>11 DEF Next

-----------------------------------------------------------------------------
\* The types: the table, the caches and the local variables keep their shapes; what an
\* update stores is a full version of an existing rule (supervisor-rules.service.ts:82-91).
THEOREM RulesTyped == Spec => []TypeOK
<1>1. EarlyInv => TypeOK
  BY DEF EarlyInv
<1> QED
  BY <1>1, InitEarly, NextEarly, PTL DEF Spec

\* No request, in any process and through any cache, is given a change before its delay
\* is over, however statements, changes, seeds and restarts interleave.
THEOREM ChangesWait == Spec => []NeverEarly
<1>1. EarlyInv => NeverEarly
  BY DEF EarlyInv, GivenInEffect, RowsWait, NeverEarly
<1> QED
  BY <1>1, InitEarly, NextEarly, PTL DEF Spec

-----------------------------------------------------------------------------
(* Freshness.                                                              *)

\* Of rules that are due there is a newest: a greatest of some numbers up to n.
LEMMA Greatest ==
    ASSUME NEW n \in Nat, NEW X, X # {}, NEW f, \A x \in X : f[x] \in 0 .. n
    PROVE  \E x \in X : \A y \in X : f[y] <= f[x]
<1> DEFINE Above(x) == (f[x] + 1) .. n
           T == {Above(x) : x \in X}
           S == 0 .. n
<1>1. IsFiniteSet(S) /\ T \subseteq SUBSET S /\ T # {}
  <2>1. IsFiniteSet(S)
    BY FS_Interval
  <2>2. ASSUME NEW x \in X PROVE Above(x) \subseteq S
    OBVIOUS
  <2>3. T # {}
    OBVIOUS
  <2> HIDE DEF Above
  <2> QED
    BY <2>1, <2>2, <2>3
<1>2. FiniteSubsetsOf(S) = SUBSET S
  BY <1>1, FS_FiniteSubsetsOfFinite
<1>3. IsWellFoundedOn(StrictSubsetOrdering(S), SUBSET S)
  <2>1. IsWellFoundedOn(StrictSubsetOrdering(S), FiniteSubsetsOf(S))
    BY FS_StrictSubsetOrderingWellFounded
  <2> QED
    BY <1>2, <2>1
<1> HIDE DEF S, T
<1>4. PICK a \in T : \A b \in T : <<b, a>> \notin StrictSubsetOrdering(S)
  BY <1>1, <1>3, WFMin
<1>5. PICK x \in X : a = Above(x)
  BY <1>4 DEF T
<1>6. ASSUME NEW y \in X, f[y] > f[x] PROVE FALSE
  <2>1. Above(y) \in T /\ Above(y) \subseteq S /\ a \subseteq S
    BY <1>5 DEF T, S
  <2>2. Above(y) \subseteq a /\ f[y] \in a /\ f[y] \notin Above(y)
    BY <1>5, <1>6
  <2> HIDE DEF Above
  <2>3. <<Above(y), a>> \in StrictSubsetOrdering(S)
    BY <2>1, <2>2 DEF StrictSubsetOrdering
  <2> QED
    BY <1>4, <2>1, <2>3
<1>7. \A y \in X : f[y] \in Int /\ f[x] \in Int
  OBVIOUS
<1> QED
  BY <1>6, <1>7

\* Rows as they were read at time seen.
ReadAt(rows, seen) ==
    /\ \A v \in rows : v \in versions /\ v.createdAt <= seen
    /\ \A v \in versions : v.createdAt < seen => v \in rows

\* Every rule has a row that is due.
Complete(rows) == \A k \in Rule : \E v \in rows : v.rule = k /\ v.effectiveAt <= now

\* Rows are created at the time they say, and the table is empty or complete.
TableFresh ==
    /\ \A v \in versions : v.createdAt <= now
    /\ versions # {} => Complete(versions)

\* The rules of a cache are from one moment, the cache time before its expiry or later.
CacheFresh(k) ==
    k.rules # {} => \E seen \in 0 .. now : \E t \in seen .. now :
                      k.expiry <= seen + TTL /\ AsOf(k.rules, seen, t)

\* What a request read and was given.
CallFresh(c) ==
    /\ c.began <= now
    /\ c.pc = "idle" => c.used = {}
    /\ c.pc = "find" => Complete(versions)
    /\ c.pc = "answer" => /\ Complete(c.rows)
                          /\ \E seen \in c.began .. now : ReadAt(c.rows, seen)
    /\ c.used # {} => /\ c.at <= now
                      /\ \E seen \in 0 .. c.at : \E t \in seen .. c.at :
                           c.began < seen + TTL /\ AsOf(c.used, seen, t)

FreshInv == /\ EarlyInv
            /\ TableFresh
            /\ \A p \in Process : CacheFresh(cache[p])
            /\ \A r \in Req : CallFresh(call[r])

\* The table loses nothing, what is new in it is from now, and time does not go back.
Grown ==
    /\ versions \subseteq versions' /\ \A v \in versions' \ versions : v.createdAt = now
    /\ now \in Nat /\ now' \in Nat /\ now <= now'
    /\ versions' \subseteq Version

\* The past stays what it was.
LEMMA PastStays ==
    ASSUME Grown, NEW seen \in Nat, seen <= now, NEW rules, NEW t \in Nat
    PROVE  /\ AsOf(rules, seen, t) => AsOf(rules, seen, t)'
           /\ ReadAt(rules, seen) => ReadAt(rules, seen)'
<1>1. \A v \in versions' : v.createdAt < seen => v \in versions
  BY DEF Grown
<1>2. AsOf(rules, seen, t) => AsOf(rules, seen, t)'
  BY <1>1 DEF AsOf, Grown
<1>3. ReadAt(rules, seen) => ReadAt(rules, seen)'
  BY <1>1 DEF ReadAt, Grown
<1> QED
  BY <1>2, <1>3

LEMMA CompleteStays ==
    ASSUME Grown, NEW rows \in SUBSET Version, Complete(rows)
    PROVE  Complete(rows)' /\ (rows = versions => Complete(versions)')
<1>1. \A v \in Version : v.effectiveAt \in Nat
  BY DEF Version
<1> QED
  BY <1>1 DEF Complete, Grown

LEMMA CacheStays ==
    ASSUME Grown, TTL \in Nat, NEW k, k.expiry \in Nat, CacheFresh(k)
    PROVE  CacheFresh(k)'
<1> SUFFICES ASSUME k.rules # {}
             PROVE  \E seen \in 0 .. now' : \E t \in seen .. now' :
                      k.expiry <= seen + TTL /\ AsOf(k.rules, seen, t)'
  BY DEF CacheFresh
<1>1. PICK seen \in Nat, t \in Nat :
        seen <= t /\ t <= now /\ k.expiry <= seen + TTL /\ AsOf(k.rules, seen, t)
  BY DEF CacheFresh
<1>2. seen \in 0 .. now' /\ t \in seen .. now' /\ seen \in Nat /\ t \in Nat /\ seen <= now
  BY <1>1 DEF Grown
<1>3. AsOf(k.rules, seen, t)'
  BY <1>1, <1>2, PastStays
<1> QED
  BY <1>1, <1>2, <1>3

LEMMA CallStays ==
    ASSUME Grown, TTL \in Nat, versions \subseteq Version, NEW c \in Call, CallFresh(c)
    PROVE  CallFresh(c)'
<1>1. c.began \in Nat /\ c.at \in Nat /\ c.rows \in SUBSET Version
  BY DEF Call
<1>2. c.began <= now'
  BY <1>1 DEF CallFresh, Grown
<1>3. c.pc = "find" => Complete(versions)'
  BY CompleteStays DEF CallFresh
<1>4. ASSUME c.pc = "answer"
      PROVE  Complete(c.rows)' /\ \E seen \in c.began .. now' : ReadAt(c.rows, seen)'
  <2>1. PICK seen \in c.began .. now : ReadAt(c.rows, seen)
    BY <1>4 DEF CallFresh
  <2>2. seen \in Nat /\ seen <= now /\ seen \in c.began .. now'
    BY <1>1, <2>1 DEF Grown
  <2>3. ReadAt(c.rows, seen)'
    BY <2>1, <2>2, PastStays
  <2> QED
    BY <1>1, <1>4, <2>2, <2>3, CompleteStays DEF CallFresh
<1>5. ASSUME c.used # {}
      PROVE  /\ c.at <= now'
             /\ \E seen \in 0 .. c.at : \E t \in seen .. c.at :
                  c.began < seen + TTL /\ AsOf(c.used, seen, t)'
  <2>1. PICK seen \in Nat, t \in Nat :
          seen <= t /\ t <= c.at /\ c.began < seen + TTL /\ AsOf(c.used, seen, t)
    BY <1>5 DEF CallFresh
  <2>2. seen \in Nat /\ t \in Nat /\ seen <= now /\ c.at <= now'
    BY <1>1, <1>5, <2>1 DEF CallFresh, Grown
  <2>3. AsOf(c.used, seen, t)'
    BY <2>1, <2>2, PastStays
  <2>4. seen \in 0 .. c.at /\ t \in seen .. c.at
    BY <1>1, <2>1
  <2> QED
    BY <2>1, <2>2, <2>3, <2>4, Zenon
<1> QED
  BY <1>2, <1>3, <1>4, <1>5 DEF CallFresh

\* The rules in effect, of rows read at time seen, are a snapshot.
LEMMA EffectiveIsSnapshot ==
    ASSUME now \in Nat, versions \subseteq Version, NEW rows \in SUBSET Version,
           NEW seen, ReadAt(rows, seen), NEW e \in Effective(rows, now)
    PROVE  AsOf(e, seen, now)
<1> DEFINE due == {v \in rows : v.effectiveAt <= now}
<1>1. e \in OnePerRule(Newest(due))
  BY DEF Effective
<1>2. \A v \in e : v \in versions /\ v.createdAt <= seen /\ v.effectiveAt <= now
  BY EffectiveAreDue DEF ReadAt
<1>3. /\ e \subseteq Newest(due)
      /\ \A v \in Newest(due) : \E w \in e : \A x \in e : x.rule = v.rule <=> x = w
  BY <1>1 DEF OnePerRule
<1>4. ASSUME NEW v \in e, NEW w \in e, v.rule = w.rule PROVE v = w
  <2>1. PICK x \in e : \A y \in e : y.rule = v.rule <=> y = x
    BY <1>3
  <2> QED
    BY <1>4, <2>1
<1>5. ASSUME NEW v \in versions, v.createdAt < seen, v.effectiveAt <= now
      PROVE  \E w \in e : w.rule = v.rule /\ v.effectiveAt <= w.effectiveAt
  <2> DEFINE X == {w \in due : w.rule = v.rule}
             f == [w \in X |-> w.effectiveAt]
  <2>1. v \in X
    BY <1>5 DEF ReadAt
  <2>2. \A w \in X : f[w] = w.effectiveAt /\ f[w] \in 0 .. now
    BY DEF Version
  <2>3. PICK m \in X : \A y \in X : f[y] <= f[m]
    <3> HIDE DEF X, f
    <3> QED
      BY <2>1, <2>2, Greatest
  <2>4. m \in Newest(due) /\ v.effectiveAt <= m.effectiveAt /\ m.rule = v.rule
    BY <2>1, <2>2, <2>3 DEF Newest
  <2>5. PICK w \in e : \A x \in e : x.rule = m.rule <=> x = w
    BY <1>3, <2>4
  <2>6. w.rule = m.rule /\ w \in Newest(due)
    BY <1>3, <2>5
  <2>7. m.effectiveAt <= w.effectiveAt
    BY <2>3, <2>4, <2>6 DEF Newest
  <2>8. v.effectiveAt \in Nat /\ m.effectiveAt \in Nat /\ w.effectiveAt \in Nat
    BY <2>1, <2>3, <2>6 DEF Version, Newest
  <2> QED
    BY <2>4, <2>6, <2>7, <2>8
<1> QED
  BY <1>2, <1>4, <1>5 DEF AsOf

\* Complete rows leave no rule out: the defaults themselves are never needed.
LEMMA EffectiveOfComplete ==
    ASSUME now \in Nat, NEW rows \in SUBSET Version, Complete(rows), Rule # {},
           NEW e \in Effective(rows, now)
    PROVE  e # {}
<1> DEFINE due == {v \in rows : v.effectiveAt <= now}
<1>1. PICK k \in Rule : TRUE
  OBVIOUS
<1>2. PICK v \in due : v.rule = k
  BY DEF Complete
<1> DEFINE X == {w \in due : w.rule = k}
           f == [w \in X |-> w.effectiveAt]
<1>3. v \in X /\ \A w \in X : f[w] = w.effectiveAt /\ f[w] \in 0 .. now
  BY <1>2 DEF Version
<1>4. PICK m \in X : \A y \in X : f[y] <= f[m]
  <2> HIDE DEF X, f
  <2> QED
    BY <1>3, Greatest
<1>5. m \in Newest(due)
  BY <1>3, <1>4 DEF Newest
<1> QED
  BY <1>5 DEF Effective, OnePerRule

LEMMA InitFresh == Init => FreshInv
<1> SUFFICES ASSUME Init PROVE FreshInv
  OBVIOUS
<1>1. \A k \in Rule : \E v \in Seeds(0, 0) : v.rule = k /\ v.effectiveAt <= 0
  <2>1. \A k \in Rule : \E v \in Seeds(0, 0) : v.rule = k /\ v.effectiveAt = 0
    BY SeedsAreComplete
  <2>2. \A v \in Seeds(0, 0) : v.effectiveAt = 0 => v.effectiveAt <= 0
    OBVIOUS
  <2> QED
    BY <2>1, <2>2
<1>2. \A v \in versions : v.createdAt <= now
  BY DEF Init, Seeds
<1>3. TableFresh
  BY <1>1, <1>2 DEF Init, TableFresh, Complete
<1>4. \A p \in Process : CacheFresh(cache[p])
  BY DEF Init, NoCache, CacheFresh
<1>5. \A r \in Req : CallFresh(call[r])
  BY DEF Init, NoCall, CallFresh
<1> QED
  BY <1>3, <1>4, <1>5, InitEarly DEF FreshInv

\* What a step must show: that the table only grows, and of what it changed.
LEMMA FreshStep ==
    ASSUME FreshInv, [Next]_vars, Grown, TableFresh',
           \A p \in Process : cache'[p] = cache[p] \/ CacheFresh(cache[p])',
           \A r \in Req : call'[r] = call[r] \/ CallFresh(call[r])'
    PROVE  FreshInv'
<1>1. EarlyInv'
  BY NextEarly DEF FreshInv
<1>2. /\ TTL \in Nat /\ versions \subseteq Version
      /\ cache \in [Process -> [rules : SUBSET Version, expiry : Nat]]
      /\ call \in [Req -> Call]
  BY RuleAssumption DEF FreshInv, EarlyInv, TypeOK
<1>3. ASSUME NEW p \in Process PROVE CacheFresh(cache[p])'
  <2>1. PICK k : k = cache[p]
    OBVIOUS
  <2>2. k.expiry \in Nat /\ CacheFresh(k)
    BY <1>2, <2>1 DEF FreshInv
  <2>3. CacheFresh(k)'
    BY <1>2, <2>2, CacheStays
  <2> QED
    BY <2>1, <2>3
<1>4. ASSUME NEW r \in Req PROVE CallFresh(call[r])'
  <2>1. PICK c : c = call[r]
    OBVIOUS
  <2>2. c \in Call /\ CallFresh(c)
    BY <1>2, <2>1 DEF FreshInv
  <2>3. CallFresh(c)'
    BY <1>2, <2>2, CallStays
  <2> QED
    BY <2>1, <2>3
<1> QED
  BY <1>1, <1>3, <1>4 DEF FreshInv

\* A step that leaves the table and the clock alone.
LEMMA Unchanging ==
    ASSUME FreshInv, UNCHANGED <<now, versions>>
    PROVE  Grown /\ TableFresh'
<1>1. now \in Nat /\ versions \subseteq Version
  BY DEF FreshInv, EarlyInv, TypeOK
<1>2. Grown
  BY <1>1 DEF Grown
<1>3. TableFresh'
  BY DEF FreshInv, TableFresh, Complete
<1> QED
  BY <1>2, <1>3

\* A request that goes on without having read or been given anything more.
LEMMA MovesFresh ==
    ASSUME FreshInv, [Next]_vars, Grown, TableFresh', NEW r \in Req, NEW new \in Call,
           call' = [call EXCEPT ![r] = new],
           new.began = call[r].began, new.at = call[r].at, new.used = call[r].used,
           new.pc \notin {"idle", "answer"},
           new.pc = "find" => Complete(versions)',
           \A p \in Process : cache'[p] = cache[p] \/ CacheFresh(cache[p])'
    PROVE  FreshInv'
<1>1. /\ TTL \in Nat /\ versions \subseteq Version /\ call \in [Req -> Call]
  BY RuleAssumption DEF FreshInv, EarlyInv, TypeOK
<1>2. CallFresh([new EXCEPT !.pc = "done"])
  BY <1>1 DEF FreshInv, CallFresh, Call
<1>3. CallFresh([new EXCEPT !.pc = "done"])'
  <2>1. PICK c : c = [new EXCEPT !.pc = "done"]
    OBVIOUS
  <2>2. c \in Call
    BY <2>1 DEF Call
  <2>3. CallFresh(c)'
    BY <1>1, <1>2, <2>1, <2>2, CallStays
  <2> QED
    BY <2>1, <2>3
<1>4. CallFresh(new)'
  BY <1>3 DEF CallFresh, Call
<1>5. \A q \in Req : call'[q] = call[q] \/ (q = r /\ call'[q] = new)
  BY <1>1
<1>6. \A q \in Req : call'[q] = call[q] \/ CallFresh(call[q])'
  BY <1>4, <1>5
<1> QED
  BY <1>6, FreshStep

\* A process that ends.
LEMMA DiesFresh ==
    ASSUME FreshInv, [Next]_vars, NEW p \in Process, Dies(p), UNCHANGED <<now, versions>>
    PROVE  FreshInv'
<1>1. /\ TTL \in Nat /\ versions \subseteq Version
      /\ cache \in [Process -> [rules : SUBSET Version, expiry : Nat]]
      /\ call \in [Req -> Call]
  BY RuleAssumption DEF FreshInv, EarlyInv, TypeOK
<1>2. Grown /\ TableFresh'
  BY Unchanging
<1>3. \A q \in Process : cache'[q] = cache[q] \/ CacheFresh(cache[q])'
  BY <1>1 DEF Dies, NoCache, CacheFresh
<1>4. ASSUME NEW q \in Req PROVE call'[q] = call[q] \/ CallFresh(call[q])'
  <2>1. PICK c : c = [call[q] EXCEPT !.pc = "lost", !.rows = {}, !.countedAt = 0]
    OBVIOUS
  <2>2. /\ call[q] \in Call /\ c \in Call /\ c.pc = "lost" /\ c.used = call[q].used
        /\ c.at = call[q].at /\ c.began = call[q].began
    BY <1>1, <2>1 DEF Call
  <2>3. CallFresh(c)
    BY <2>2 DEF FreshInv, CallFresh
  <2>4. CallFresh(c)'
    BY <1>1, <1>2, <2>2, <2>3, CallStays
  <2>5. call'[q] = call[q] \/ call'[q] = c
    BY <2>1 DEF Dies
  <2> QED
    BY <2>4, <2>5
<1> QED
  BY <1>2, <1>3, <1>4, FreshStep

\* A request that is given rules of one moment.
LEMMA GoesFresh ==
    ASSUME FreshInv, [Next]_vars, UNCHANGED <<now, versions>>,
           NEW r \in Req, NEW c \in Call, NEW rules,
           call' = [call EXCEPT ![r] = Goes(r, c, rules)], c.began <= now,
           rules # {} => \E seen \in 0 .. now : \E t \in seen .. now :
                           c.began < seen + TTL /\ AsOf(rules, seen, t),
           \A p \in Process : cache'[p] = cache[p] \/ CacheFresh(cache[p])'
    PROVE  FreshInv'
<1>1. now \in Nat /\ call \in [Req -> Call] /\ Grown /\ TableFresh'
  BY Unchanging DEF FreshInv, EarlyInv, TypeOK
<1>2. PICK new : new = Goes(r, c, rules)
  OBVIOUS
<1>3. /\ new.used = rules /\ new.at = now /\ new.began = c.began
      /\ new.pc \in {"store", "done"}
  BY <1>2 DEF Goes, Call
<1>4. CallFresh(new)
  BY <1>1, <1>3 DEF CallFresh
<1>5. CallFresh(new)'
  BY <1>3, <1>4 DEF CallFresh, AsOf
<1>6. \A q \in Req : call'[q] = call[q] \/ (q = r /\ call'[q] = new)
  BY <1>1, <1>2
<1>7. \A q \in Req : call'[q] = call[q] \/ CallFresh(call[q])'
  BY <1>5, <1>6
<1> QED
  BY <1>1, <1>7, FreshStep

LEMMA NextFresh == FreshInv /\ [Next]_vars => FreshInv'
<1> SUFFICES ASSUME FreshInv, [Next]_vars PROVE FreshInv'
  OBVIOUS
<1>a. /\ now \in Nat /\ versions \subseteq Version /\ Change \subseteq Req
      /\ cache \in [Process -> [rules : SUBSET Version, expiry : Nat]]
      /\ call \in [Req -> Call] /\ TTL \in Nat /\ TTL > 0
  BY RuleAssumption DEF FreshInv, EarlyInv, TypeOK
<1>b. \A r \in Req : call[r] \in Call /\ CallFresh(call[r]) /\ call[r].began \in Nat
  BY <1>a DEF FreshInv, Call
<1>1. ASSUME NEW r \in Req, NEW p \in Process, BeginCached(r, p)
      PROVE  FreshInv'
  <2>1. CASE ~Finds(r, cache[p].rules) /\ Dies(p)
    BY <1>1, <2>1, DiesFresh DEF BeginCached
  <2>2. CASE /\ Finds(r, cache[p].rules)
             /\ call' = [call EXCEPT ![r] = Goes(r, Asked(r, p), cache[p].rules)]
             /\ UNCHANGED <<cache, restarts>>
    <3>1. Asked(r, p) \in Call /\ Asked(r, p).began = now
      BY <1>a, <1>b DEF Asked, Call
    <3>2. PICK seen \in Nat, t \in Nat :
            /\ seen <= t /\ t <= now /\ cache[p].expiry <= seen + TTL
            /\ AsOf(cache[p].rules, seen, t)
      BY <1>1, <1>a DEF BeginCached, Hit, FreshInv, CacheFresh
    <3>3. now < cache[p].expiry /\ cache[p].expiry \in Nat /\ UNCHANGED <<now, versions>>
      BY <1>1, <1>a DEF BeginCached, Hit
    <3>4. /\ seen \in 0 .. now /\ t \in seen .. now /\ now < seen + TTL /\ now <= now
      BY <1>a, <3>2, <3>3
    <3>5. \E s \in 0 .. now : \E u \in s .. now :
            Asked(r, p).began < s + TTL /\ AsOf(cache[p].rules, s, u)
      BY <3>1, <3>2, <3>4
    <3>6. \A q \in Process : cache'[q] = cache[q] \/ CacheFresh(cache[q])'
      BY <2>2
    <3> QED
      BY <1>a, <2>2, <3>1, <3>3, <3>4, <3>5, <3>6, GoesFresh
  <2> QED
    BY <1>1, <2>1, <2>2 DEF BeginCached
<1>2. ASSUME NEW r \in Req, NEW p \in Process, Begin(r, p)
      PROVE  FreshInv'
  <2>1. PICK new : new = Asked(r, p)
    OBVIOUS
  <2>2. new.began = now /\ new.pc = "count" /\ new.used = {}
    BY <1>2, <1>b, <2>1 DEF Begin, Asked, Call, CallFresh
  <2>3. /\ UNCHANGED <<now, versions, cache>> /\ Grown /\ TableFresh'
        /\ call' = [call EXCEPT ![r] = new]
    BY <1>2, <2>1, Unchanging DEF Begin
  <2>4. CallFresh(new)'
    BY <1>a, <2>2, <2>3 DEF CallFresh
  <2>5. \A q \in Req : call'[q] = call[q] \/ (q = r /\ call'[q] = new)
    BY <1>a, <2>3
  <2>6. \A q \in Req : call'[q] = call[q] \/ CallFresh(call[q])'
    BY <2>4, <2>5
  <2> QED
    BY <2>3, <2>6, FreshStep
<1>3. ASSUME NEW r \in Req, Count(r) PROVE FreshInv'
  <2> DEFINE new == [call[r] EXCEPT !.pc = IF versions = {} THEN "seed" ELSE "find",
                                    !.countedAt = IF versions = {} THEN now ELSE 0]
  <2>1. /\ new \in Call /\ new.used = call[r].used /\ new.began = call[r].began
        /\ new.at = call[r].at /\ new.pc = IF versions = {} THEN "seed" ELSE "find"
    BY <1>a, <1>b DEF Call
  <2>2. call' = [call EXCEPT ![r] = new] /\ UNCHANGED <<now, versions, cache>>
    BY <1>3, <1>a DEF Count
  <2> HIDE DEF new
  <2>3. Grown /\ TableFresh'
    BY <2>2, Unchanging
  <2>4. new.pc = "find" => Complete(versions)'
    BY <2>1, <2>2, <2>3 DEF TableFresh
  <2> QED
    BY <2>1, <2>2, <2>3, <2>4, MovesFresh
<1>4. ASSUME NEW r \in Req, FindMany(r) PROVE FreshInv'
  <2>1. PICK new : new = [call[r] EXCEPT !.pc = "answer", !.rows = versions]
    OBVIOUS
  <2>2. /\ new.used = call[r].used /\ new.began = call[r].began /\ new.at = call[r].at
        /\ new.pc = "answer" /\ new.rows = versions /\ call[r].pc = "find"
    BY <1>4, <1>a, <1>b, <2>1 DEF FindMany, Call
  <2>3. /\ UNCHANGED <<now, versions, cache>> /\ Grown /\ TableFresh'
        /\ call' = [call EXCEPT ![r] = new]
    BY <1>4, <1>a, <2>1, Unchanging DEF FindMany
  <2>4. now \in new.began .. now /\ ReadAt(new.rows, now) /\ Complete(new.rows)
    BY <1>a, <1>b, <2>2 DEF FreshInv, TableFresh, ReadAt, CallFresh
  <2>5. CallFresh(new)
    BY <1>b, <2>2, <2>4 DEF CallFresh
  <2>6. CallFresh(new)'
    BY <2>3, <2>5 DEF CallFresh, Complete, ReadAt, AsOf
  <2>7. \A q \in Req : call'[q] = call[q] \/ (q = r /\ call'[q] = new)
    BY <1>a, <2>3
  <2>8. \A q \in Req : call'[q] = call[q] \/ CallFresh(call[q])'
    BY <2>6, <2>7
  <2> QED
    BY <2>3, <2>8, FreshStep
<1>5. ASSUME NEW r \in Req, Seed(r) PROVE FreshInv'
  <2> DEFINE new == [call[r] EXCEPT !.pc = "find", !.countedAt = 0]
  <2>1. /\ new \in Call /\ new.pc = "find" /\ new.used = call[r].used
        /\ new.at = call[r].at /\ new.began = call[r].began
    BY <1>b DEF Call
  <2>2. call' = [call EXCEPT ![r] = new] /\ UNCHANGED <<now, cache>>
    BY <1>5, <1>a DEF Seed
  <2> HIDE DEF new
  <2>3. PICK t \in call[r].countedAt .. now : versions' = versions \cup Seeds(t, now)
    BY <1>5 DEF Seed
  <2>4. t \in Nat /\ t <= now
    BY <1>a, <1>b DEF Call
  <2>5. /\ Seeds(t, now) \subseteq Version
        /\ \A v \in Seeds(t, now) : v.createdAt = now
        /\ \A k \in Rule : \E v \in Seeds(t, now) : v.rule = k /\ v.effectiveAt = t
    BY <1>a, <2>4, SeedsAreVersions, SeedsAreComplete
  <2>6. Grown
    BY <1>a, <2>2, <2>3, <2>5 DEF Grown
  <2>7. Complete(versions)'
    BY <2>2, <2>3, <2>4, <2>5 DEF Complete
  <2>8. TableFresh'
    BY <1>a, <2>2, <2>3, <2>5, <2>7 DEF TableFresh, FreshInv
  <2> QED
    BY <2>1, <2>2, <2>6, <2>7, <2>8, MovesFresh
<1>6. ASSUME NEW r \in Req, Answer(r) PROVE FreshInv'
  <2> DEFINE given(e) == IF e = {} THEN DefaultRules ELSE e
             p == call[r].process
  <2>1. /\ UNCHANGED <<now, versions>> /\ call[r].pc = "answer"
        /\ p \in Process /\ call[r].rows \in SUBSET Version
    BY <1>6, <1>b DEF Answer, Call
  <2>2. PICK e \in Effective(call[r].rows, now) :
          \/ /\ Finds(r, given(e))
             /\ cache' = IF e = {} THEN cache
                         ELSE [cache EXCEPT ![p] = [rules |-> e,
                                                    expiry |-> call[r].began + TTL]]
             /\ call' = [call EXCEPT ![r] = Goes(r, call[r], given(e))]
             /\ UNCHANGED restarts
          \/ ~Finds(r, given(e)) /\ Dies(p)
    BY <1>6 DEF Answer
  <2>3. CASE Dies(p)
    BY <2>1, <2>3, DiesFresh
  <2>4. CASE /\ cache' = IF e = {} THEN cache
                         ELSE [cache EXCEPT ![p] = [rules |-> e,
                                                    expiry |-> call[r].began + TTL]]
             /\ call' = [call EXCEPT ![r] = Goes(r, call[r], given(e))]
    <3>1. PICK seen \in call[r].began .. now : ReadAt(call[r].rows, seen)
      BY <1>b, <2>1 DEF CallFresh
    <3>2. seen \in 0 .. now /\ now \in seen .. now /\ call[r].began < seen + TTL
          /\ call[r].began + TTL <= seen + TTL
      BY <1>a, <1>b, <3>1
    <3>3. AsOf(e, seen, now)
      BY <1>a, <2>1, <3>1, EffectiveIsSnapshot
    <3>4. e = {} => given(e) = {}
      <4>1. Rule # {} => e # {}
        BY <1>a, <1>b, <2>1, EffectiveOfComplete DEF CallFresh
      <4>2. Rule = {} => DefaultRules = {}
        BY DEF DefaultRules, Seeds
      <4> QED
        BY <4>1, <4>2
    <3>5. given(e) # {} => \E s \in 0 .. now : \E u \in s .. now :
                             call[r].began < s + TTL /\ AsOf(given(e), s, u)
      BY <3>2, <3>3, <3>4
    <3>6. ASSUME NEW q \in Process PROVE cache'[q] = cache[q] \/ CacheFresh(cache[q])'
      <4>1. CASE cache'[q] = cache[q]
        BY <4>1
      <4>2. CASE cache'[q] = [rules |-> e, expiry |-> call[r].began + TTL]
        <5>1. AsOf(e, seen, now)'
          BY <2>1, <3>3 DEF AsOf
        <5> QED
          BY <2>1, <3>2, <4>2, <5>1 DEF CacheFresh
      <4> QED
        BY <1>a, <2>4, <4>1, <4>2
    <3> HIDE DEF given
    <3>7. call[r] \in Call /\ call[r].began <= now
      BY <1>b DEF CallFresh
    <3> QED
      BY <2>1, <2>4, <3>5, <3>6, <3>7, GoesFresh
  <2> QED
    BY <2>2, <2>3, <2>4
<1>7. ASSUME NEW u \in Change, Store(u) PROVE FreshInv'
  <2> DEFINE new == [call[u] EXCEPT !.pc = "stored"]
  <2>1. /\ new \in Call /\ new.pc = "stored" /\ new.used = call[u].used
        /\ new.at = call[u].at /\ new.began = call[u].began
    BY <1>a, <1>b DEF Call
  <2>2. /\ call' = [call EXCEPT ![u] = new] /\ call[u].pc = "store"
        /\ versions' = versions \cup {NewVersion(u)} /\ UNCHANGED <<now, cache>>
    BY <1>7, <1>a DEF Store
  <2> HIDE DEF new
  <2>3. NewVersion(u) \in Version /\ NewVersion(u).createdAt = now /\ u \in Req
    BY <1>a, <2>2, NewVersionTyped DEF FreshInv, EarlyInv, NewVersion
  <2>4. Grown
    BY <1>a, <2>2, <2>3 DEF Grown
  <2>5. versions # {}
    BY <1>b, <2>2, <2>3 DEF FreshInv, EarlyInv, StoreFinds, CallFresh, AsOf
  <2>6. Complete(versions)'
    BY <1>a, <2>4, <2>5, CompleteStays DEF FreshInv, TableFresh
  <2>7. TableFresh'
    BY <1>a, <2>2, <2>3, <2>6 DEF TableFresh, FreshInv
  <2> QED
    BY <2>1, <2>2, <2>3, <2>4, <2>7, MovesFresh
<1>8. ASSUME NEW u \in Change, Stored(u) PROVE FreshInv'
  <2> DEFINE new == [call[u] EXCEPT !.pc = "done"]
  <2>1. /\ new \in Call /\ new.pc = "done" /\ new.used = call[u].used
        /\ new.at = call[u].at /\ new.began = call[u].began
    BY <1>a, <1>b DEF Call
  <2>2. /\ call' = [call EXCEPT ![u] = new] /\ UNCHANGED <<now, versions>> /\ u \in Req
        /\ \A q \in Process : cache'[q] = cache[q] \/ cache'[q] = NoCache
    BY <1>8, <1>a DEF Stored
  <2> HIDE DEF new
  <2>3. Grown /\ TableFresh'
    BY <2>2, Unchanging
  <2>4. \A q \in Process : cache'[q] = cache[q] \/ CacheFresh(cache[q])'
    BY <2>2 DEF NoCache, CacheFresh
  <2> QED
    BY <2>1, <2>2, <2>3, <2>4, MovesFresh
<1>9. ASSUME NEW p \in Process, Restart(p) PROVE FreshInv'
  BY <1>9, DiesFresh DEF Restart
<1>10. CASE Tick
  <2>1. Grown
    BY <1>10, <1>a DEF Tick, Grown
  <2>2. versions' = versions
    BY <1>10 DEF Tick
  <2>3. versions # {} => Complete(versions)'
    BY <1>a, <2>1, CompleteStays DEF FreshInv, TableFresh
  <2>4. \A v \in versions : v.createdAt \in Nat /\ v.createdAt <= now
    BY <1>a DEF FreshInv, TableFresh, Version
  <2>5. TableFresh'
    BY <1>10, <1>a, <2>2, <2>3, <2>4 DEF TableFresh, Tick
  <2> QED
    BY <1>10, <2>1, <2>5, FreshStep DEF Tick
<1>11. CASE UNCHANGED vars
  BY <1>11, Unchanging, FreshStep DEF vars
<1> QED
  BY <1>1, <1>2, <1>3, <1>4, <1>5, <1>6, <1>7, <1>8, <1>9, <1>10, <1>11 DEF Next

\* Whatever caches, seeds, changes and restarts do, all rules a request is given are
\* those of one moment, less than the cache time before it asked
\* (supervisor-rules.service.ts:39-65, 93).
THEOREM AnswersAreFresh == Spec => []FreshSnapshot
<1>1. FreshInv => FreshSnapshot
  BY DEF FreshInv, FreshSnapshot, Given, CallFresh
<1> QED
  BY <1>1, InitFresh, NextFresh, PTL DEF Spec
-----------------------------------------------------------------------------
(* The processes keep one book of rules between them.                      *)

BookAsked == [r \in Req |-> Asks(r)]
BookSeen == [r \in Req |-> call[r].used]
BookSeenAt == [r \in Req |-> call[r].at]

\* A request that waits for its rules has none.
Waiting == {"idle", "count", "seed", "find", "answer"}
NotYetGiven == \A r \in Req : call[r].pc \in Waiting => call[r].used = {}

BookInv == FreshInv /\ NotYetGiven

\* A step that, for each request, leaves alone when it asked, and what it was given.
LEMMA BookStays ==
    ASSUME \A r \in Req : /\ Asks(r)' = Asks(r)
                          /\ call'[r].used = call[r].used /\ call'[r].at = call[r].at
    PROVE  UNCHANGED <<BookAsked, BookSeen, BookSeenAt>>
BY DEF BookAsked, BookSeen, BookSeenAt

\* A request goes on: it asked when it did, and was given what it was.
LEMMA BookMoves ==
    ASSUME BookInv, NEW r \in Req, NEW new \in Call, call' = [call EXCEPT ![r] = new],
           call[r].pc # "idle", new.pc # "idle", new.pc \in Waiting => call[r].pc \in Waiting,
           new.began = call[r].began, new.used = call[r].used, new.at = call[r].at
    PROVE  /\ UNCHANGED <<BookAsked, BookSeen, BookSeenAt>>
           /\ NotYetGiven'
<1>1. call \in [Req -> Call]
  BY DEF BookInv, FreshInv, EarlyInv, TypeOK
<1>2. \A q \in Req : call'[q] = IF q = r THEN new ELSE call[q]
  BY <1>1
<1>3. \A q \in Req : /\ Asks(q)' = Asks(q)
                     /\ call'[q].used = call[q].used /\ call'[q].at = call[q].at
  BY <1>2 DEF Asks
<1>4. NotYetGiven'
  BY <1>2 DEF BookInv, NotYetGiven, Waiting
<1> QED
  BY <1>3, <1>4, BookStays

\* A process that ends takes nothing back.
LEMMA BookDies ==
    ASSUME BookInv, NEW p \in Process, Dies(p), UNCHANGED <<now, versions>>
    PROVE  UNCHANGED Book!vars /\ NotYetGiven'
<1>1. call \in [Req -> Call]
  BY DEF BookInv, FreshInv, EarlyInv, TypeOK
<1>2. ASSUME NEW q \in Req
      PROVE  /\ Asks(q)' = Asks(q)
             /\ call'[q].used = call[q].used /\ call'[q].at = call[q].at
             /\ call'[q].pc \in {call[q].pc, "lost"}
  <2>1. PICK c : c = [call[q] EXCEPT !.pc = "lost", !.rows = {}, !.countedAt = 0]
    OBVIOUS
  <2>2. /\ c.pc = "lost" /\ c.used = call[q].used /\ c.at = call[q].at
        /\ c.began = call[q].began
    BY <1>1, <2>1 DEF Call
  <2>3. call'[q] = call[q] \/ (call'[q] = c /\ call[q].pc # "idle")
    BY <2>1 DEF Dies
  <2> QED
    BY <2>2, <2>3 DEF Asks
<1>3. NotYetGiven'
  BY <1>2 DEF BookInv, NotYetGiven, Waiting
<1>4. UNCHANGED <<BookAsked, BookSeen, BookSeenAt>>
  BY <1>2, BookStays
<1> QED
  BY <1>3, <1>4 DEF Book!vars, BookAsked, BookSeen, BookSeenAt

\* A request is given rules: those of a page of the book.
LEMMA BookLooks ==
    ASSUME BookInv, FreshInv', UNCHANGED <<now, versions>>, NEW r \in Req,
           NEW c \in Call, NEW rules, call' = [call EXCEPT ![r] = Goes(r, c, rules)],
           call[r].used = {},
           c.began = IF call[r].pc = "idle" THEN now ELSE call[r].began,
           rules = {} => Rule = {}
    PROVE  Book!Next /\ NotYetGiven'
<1>1. /\ call \in [Req -> Call] /\ call' \in [Req -> Call] /\ now \in Nat
      /\ TTL \in Nat \ {0} /\ versions \subseteq Version
  BY RuleAssumption DEF BookInv, FreshInv, EarlyInv, TypeOK
<1>2. PICK new : new = Goes(r, c, rules)
  OBVIOUS
<1>3. /\ new.used = rules /\ new.at = now /\ new.began = c.began
      /\ new.pc \in {"store", "done"}
  BY <1>2 DEF Goes, Call
<1>4. call' = [call EXCEPT ![r] = new]
  BY <1>2
<1>5. \A q \in Req : call'[q] = IF q = r THEN new ELSE call[q]
  BY <1>1, <1>4
<1>6. NotYetGiven'
  BY <1>3, <1>5 DEF BookInv, NotYetGiven, Waiting
<1>7. /\ BookAsked' = [BookAsked EXCEPT ![r] = {c.began}]
      /\ BookSeen' = [BookSeen EXCEPT ![r] = rules]
      /\ BookSeenAt' = [BookSeenAt EXCEPT ![r] = now]
  <2>1. \A q \in Req : /\ Asks(q)' = IF q = r THEN {c.began} ELSE Asks(q)
                       /\ call'[q].used = IF q = r THEN rules ELSE call[q].used
                       /\ call'[q].at = IF q = r THEN now ELSE call[q].at
    BY <1>3, <1>5 DEF Asks
  <2> QED
    BY <2>1 DEF BookAsked, BookSeen, BookSeenAt
<1>8. /\ BookSeen[r] = {}
      /\ c.began \in IF BookAsked[r] = {} THEN {now} ELSE BookAsked[r]
  BY DEF BookAsked, BookSeen, Asks
<1>9. \E written \in 0 .. now : \E t \in written .. now :
        c.began < written + TTL /\ Book!Page(rules, written, t)
  <2>1. CASE rules # {}
    <3>1. CallFresh(new)'
      BY <1>5 DEF FreshInv
    <3>2. PICK written \in 0 .. now : \E t \in written .. now :
                   c.began < written + TTL /\ AsOf(rules, written, t)'
      BY <1>3, <2>1, <3>1 DEF CallFresh
    <3>3. \A t : AsOf(rules, written, t)' => Book!Page(rules, written, t)
      BY DEF AsOf, Book!Page
    <3> QED
      BY <3>2, <3>3
  <2>2. CASE rules = {}
    <3>1. versions = {}
      BY <1>1, <2>2 DEF Version
    <3>2. Book!Page(rules, now, now)
      BY <2>2, <3>1 DEF Book!Page
    <3>3. c.began <= now
      BY <1>1 DEF BookInv, FreshInv, CallFresh
    <3>4. c.began \in Nat
      BY DEF Call
    <3> QED
      BY <1>1, <3>2, <3>3, <3>4
  <2> QED
    BY <2>1, <2>2
<1>10. Book!Look(r, rules)
  BY <1>7, <1>8, <1>9 DEF Book!Look, BookAsked, BookSeen, BookSeenAt
<1>11. rules \in SUBSET versions
  BY <1>9 DEF Book!Page
<1> QED
  BY <1>6, <1>10, <1>11 DEF Book!Next

\* A change is written to the book: once, over the rule it was given.
LEMMA BookWrites ==
    ASSUME BookInv, NEW u \in Change, Store(u)
    PROVE  Book!Next /\ NotYetGiven'
<1>1. /\ call \in [Req -> Call] /\ u \in Req /\ StoreFinds /\ RowsWait
      /\ call[u] \in Call
  BY RuleAssumption DEF BookInv, FreshInv, EarlyInv, TypeOK
<1>2. PICK new : new = [call[u] EXCEPT !.pc = "stored"]
  OBVIOUS
<1>3. /\ new \in Call /\ new.pc = "stored" /\ new.used = call[u].used
      /\ new.at = call[u].at /\ new.began = call[u].began
  BY <1>1, <1>2 DEF Call
<1>4. /\ call' = [call EXCEPT ![u] = new] /\ call[u].pc = "store" /\ now' = now
      /\ versions' = versions \cup {NewVersion(u)}
  BY <1>1, <1>2 DEF Store
<1>5. UNCHANGED <<BookAsked, BookSeen, BookSeenAt>> /\ NotYetGiven'
  BY <1>1, <1>3, <1>4, BookMoves DEF Waiting
<1>6. \A v \in versions : v.by # u
  BY <1>1, <1>4 DEF RowsWait
<1>7. Current(u) \in call[u].used /\ Current(u).rule = Named[u]
  BY <1>1, <1>4 DEF StoreFinds, Current
<1>8. DOMAIN Current(u).content = Field
  BY <1>1, <1>7 DEF Call, Version
<1>9. NewVersion(u) =
        [rule |-> Current(u).rule, effectiveAt |-> BookSeenAt[u] + Delay, createdAt |-> now,
         by |-> u,
         content |-> [f \in DOMAIN Current(u).content |->
                        IF f \in DOMAIN Updates[u] THEN Updates[u][f]
                                                   ELSE Current(u).content[f]]]
  BY <1>1, <1>7, <1>8 DEF NewVersion, Content, BookSeenAt
<1>10. Current(u) \in BookSeen[u]
  BY <1>1, <1>7 DEF BookSeen
<1> HIDE DEF Current
<1>11. Book!Write(u)
  BY <1>4, <1>5, <1>6, <1>7, <1>9, <1>10 DEF Book!Write, BookAsked, BookSeen, BookSeenAt
<1> QED
  BY <1>5, <1>11 DEF Book!Next

\* Each step of SupervisorRules is a step of RuleBook, or nothing there.
LEMMA BookSteps ==
    ASSUME BookInv, FreshInv', [Next]_vars
    PROVE  (Book!Next \/ UNCHANGED Book!vars) /\ NotYetGiven'
<1>1. /\ call \in [Req -> Call] /\ now \in Nat /\ versions \subseteq Version /\ Change \subseteq Req
      /\ \A r \in Req : call[r] \in Call /\ CallFresh(call[r])
  BY RuleAssumption DEF BookInv, FreshInv, EarlyInv, TypeOK
<1>2. ASSUME UNCHANGED <<now, versions, BookAsked, BookSeen, BookSeenAt>>
      PROVE  UNCHANGED Book!vars
  BY <1>2 DEF Book!vars, BookAsked, BookSeen, BookSeenAt
<1>3. ASSUME NEW r \in Req, NEW p \in Process, BeginCached(r, p)
      PROVE  (Book!Next \/ UNCHANGED Book!vars) /\ NotYetGiven'
  <2>1. CASE Dies(p)
    BY <1>3, <2>1, BookDies DEF BeginCached
  <2>2. CASE call' = [call EXCEPT ![r] = Goes(r, Asked(r, p), cache[p].rules)]
    <3>1. /\ Asked(r, p) \in Call /\ Asked(r, p).began = now /\ call[r].pc = "idle"
          /\ cache[p].rules # {} /\ UNCHANGED <<now, versions>>
      BY <1>1, <1>3 DEF Asked, Call, BeginCached, Hit
    <3>2. call[r].used = {}
      BY <3>1 DEF BookInv, NotYetGiven, Waiting
    <3> QED
      BY <2>2, <3>1, <3>2, BookLooks
  <2> QED
    BY <1>3, <2>1, <2>2 DEF BeginCached
<1>4. ASSUME NEW r \in Req, NEW p \in Process, Begin(r, p)
      PROVE  Book!Next /\ NotYetGiven'
  <2>1. PICK new : new = Asked(r, p)
    OBVIOUS
  <2>2. /\ new.pc = "count" /\ new.began = now /\ new.used = call[r].used /\ new.at = call[r].at
        /\ call[r].pc = "idle" /\ UNCHANGED <<now, versions>>
    BY <1>1, <1>4, <2>1 DEF Begin, Asked, Call
  <2>3. \A q \in Req : call'[q] = IF q = r THEN new ELSE call[q]
    BY <1>1, <1>4, <2>1 DEF Begin
  <2>4. NotYetGiven'
    BY <2>2, <2>3 DEF BookInv, NotYetGiven, Waiting
  <2>5. \A q \in Req : /\ Asks(q)' = IF q = r THEN {now} ELSE Asks(q)
                       /\ call'[q].used = call[q].used /\ call'[q].at = call[q].at
    BY <2>2, <2>3 DEF Asks
  <2>6. /\ BookAsked' = [BookAsked EXCEPT ![r] = {now}]
        /\ UNCHANGED <<BookSeen, BookSeenAt>>
    BY <2>5 DEF BookAsked, BookSeen, BookSeenAt
  <2>7. BookAsked[r] = {}
    BY <2>2 DEF BookAsked, Asks
  <2>8. Book!Ask(r)
    BY <2>2, <2>6, <2>7 DEF Book!Ask, BookAsked, BookSeen, BookSeenAt
  <2> QED
    BY <2>4, <2>8 DEF Book!Next
<1>5. ASSUME NEW r \in Req, Count(r) \/ FindMany(r)
      PROVE  UNCHANGED Book!vars /\ NotYetGiven'
  <2>1. call[r].pc \in {"count", "find"} /\ UNCHANGED <<now, versions>>
    BY <1>5 DEF Count, FindMany
  <2>2. ASSUME NEW new \in Call, call' = [call EXCEPT ![r] = new],
               new.pc \in {"seed", "find", "answer"}, new.used = call[r].used,
               new.at = call[r].at, new.began = call[r].began
        PROVE  UNCHANGED Book!vars /\ NotYetGiven'
    BY <1>2, <2>1, <2>2, BookMoves DEF Waiting
  <2>3. CASE Count(r)
    <3>1. PICK pc \in {"seed", "find"}, n \in Nat :
            call' = [call EXCEPT ![r] = [call[r] EXCEPT !.pc = pc, !.countedAt = n]]
      BY <1>1, <2>3 DEF Count
    <3>2. PICK new : new = [call[r] EXCEPT !.pc = pc, !.countedAt = n]
      OBVIOUS
    <3>3. /\ new \in Call /\ new.pc = pc /\ new.used = call[r].used
          /\ new.at = call[r].at /\ new.began = call[r].began
      BY <1>1, <3>2 DEF Call
    <3> QED
      BY <2>2, <3>1, <3>2, <3>3
  <2>4. CASE FindMany(r)
    <3>1. PICK new : new = [call[r] EXCEPT !.pc = "answer", !.rows = versions]
      OBVIOUS
    <3>2. call' = [call EXCEPT ![r] = new]
      BY <1>1, <2>4, <3>1 DEF FindMany
    <3>3. /\ new \in Call /\ new.pc = "answer" /\ new.used = call[r].used
          /\ new.at = call[r].at /\ new.began = call[r].began
      BY <1>1, <3>1 DEF Call
    <3> QED
      BY <2>2, <3>2, <3>3
  <2> QED
    BY <1>5, <2>3, <2>4
<1>6. ASSUME NEW r \in Req, Seed(r)
      PROVE  Book!Next /\ NotYetGiven'
  <2>1. PICK new : new = [call[r] EXCEPT !.pc = "find", !.countedAt = 0]
    OBVIOUS
  <2>2. /\ new \in Call /\ new.pc = "find" /\ new.used = call[r].used
        /\ new.at = call[r].at /\ new.began = call[r].began
    BY <1>1, <2>1 DEF Call
  <2>3. call' = [call EXCEPT ![r] = new] /\ call[r].pc = "seed" /\ now' = now
    BY <1>1, <1>6, <2>1 DEF Seed
  <2>4. UNCHANGED <<BookAsked, BookSeen, BookSeenAt>> /\ NotYetGiven'
    BY <2>2, <2>3, BookMoves DEF Waiting
  <2>5. PICK t \in 0 .. now : versions' = versions \cup Seeds(t, now)
    BY <1>1, <1>6 DEF Seed, Call
  <2>6. Book!Seed
    BY <2>3, <2>4, <2>5 DEF Book!Seed, Seeds, BookAsked, BookSeen, BookSeenAt
  <2> QED
    BY <2>4, <2>6 DEF Book!Next
<1>7. ASSUME NEW r \in Req, Answer(r)
      PROVE  (Book!Next \/ UNCHANGED Book!vars) /\ NotYetGiven'
  <2>1. PICK e \in Effective(call[r].rows, now) :
          \/ call' = [call EXCEPT ![r] = Goes(r, call[r], IF e = {} THEN DefaultRules ELSE e)]
          \/ Dies(call[r].process)
    BY <1>7 DEF Answer
  <2>2. /\ call[r].pc = "answer" /\ UNCHANGED <<now, versions>>
        /\ call[r].process \in Process /\ call[r].rows \in SUBSET Version
    BY <1>1, <1>7 DEF Answer, Call
  <2>3. CASE Dies(call[r].process)
    BY <2>2, <2>3, BookDies
  <2>4. CASE call' = [call EXCEPT ![r] = Goes(r, call[r], IF e = {} THEN DefaultRules ELSE e)]
    <3>1. Rule # {} => e # {}
      BY <1>1, <2>2, EffectiveOfComplete DEF CallFresh
    <3>2. PICK rules : rules = IF e = {} THEN DefaultRules ELSE e
      OBVIOUS
    <3>3. rules = {} => Rule = {}
      BY <3>1, <3>2
    <3>4. call[r].used = {}
      BY <2>2 DEF BookInv, NotYetGiven, Waiting
    <3> QED
      BY <1>1, <2>2, <2>4, <3>2, <3>3, <3>4, BookLooks
  <2> QED
    BY <2>1, <2>3, <2>4
<1>8. ASSUME NEW u \in Change, Stored(u)
      PROVE  UNCHANGED Book!vars /\ NotYetGiven'
  <2>1. PICK new : new = [call[u] EXCEPT !.pc = "done"]
    OBVIOUS
  <2>2. /\ new \in Call /\ new.pc = "done" /\ new.used = call[u].used
        /\ new.at = call[u].at /\ new.began = call[u].began
    BY <1>1, <2>1 DEF Call
  <2>3. call' = [call EXCEPT ![u] = new] /\ call[u].pc = "stored" /\ UNCHANGED <<now, versions>>
    BY <1>1, <1>8, <2>1 DEF Stored
  <2> QED
    BY <1>1, <1>2, <2>2, <2>3, BookMoves DEF Waiting
<1>9. CASE Tick
  <2>1. now' = now + 1 /\ versions' = versions /\ call' = call
    BY <1>9 DEF Tick
  <2>2. NotYetGiven' /\ UNCHANGED <<BookAsked, BookSeen, BookSeenAt>>
    BY <2>1 DEF BookInv, NotYetGiven, BookAsked, BookSeen, BookSeenAt, Asks
  <2>3. Book!Tick
    BY <2>1, <2>2 DEF Book!Tick, BookAsked, BookSeen, BookSeenAt
  <2> QED
    BY <2>2, <2>3 DEF Book!Next
<1>10. CASE UNCHANGED vars
  BY <1>2, <1>10 DEF vars, BookInv, NotYetGiven, BookAsked, BookSeen, BookSeenAt, Asks
<1>11. ASSUME NEW p \in Process, Restart(p)
       PROVE  UNCHANGED Book!vars /\ NotYetGiven'
  BY <1>11, BookDies DEF Restart
<1> QED
  BY <1>3, <1>4, <1>5, <1>6, <1>7, <1>8, <1>9, <1>10, <1>11, BookWrites DEF Next

\* What backend processes do about the rules, with their caches, seeds, restarts and
\* failing statements, is what one book of rules would do that every request looks
\* into once (supervisor-rules.service.ts:39-110).
THEOREM KeepsRuleBook == Spec => ImplementsRuleBook
<1>1. Init => Book!Init /\ NotYetGiven
  <2> SUFFICES ASSUME Init PROVE Book!Init /\ NotYetGiven
    OBVIOUS
  <2>1. \A r \in Req : call[r] = NoCall /\ Asks(r) = {} /\ call[r].used = {} /\ call[r].at = 0
    BY DEF Init, NoCall, Asks
  <2> QED
    BY <2>1 DEF Init, Book!Init, Seeds, NotYetGiven
<1>2. Spec => []FreshInv
  BY InitFresh, NextFresh, PTL DEF Spec
<1>3. FreshInv /\ NotYetGiven /\ FreshInv' /\ [Next]_vars
        => NotYetGiven' /\ [Book!Next]_(Book!vars)
  BY BookSteps DEF BookInv
<1> QED
  BY <1>1, <1>2, <1>3, PTL DEF Spec, ImplementsRuleBook, Book!Spec
=============================================================================
