----------------------------- MODULE RateLimit ------------------------------
(***************************************************************************)
(* The request windows of the public API (backend/middleware/              *)
(* api-auth.middleware.ts with services/api-keys/api-key.service.ts) and   *)
(* of bug reports (rate-limit-public.ts), over Redis or process memory.    *)
(*                                                                         *)
(* A step runs from the answer of one awaited call, of the database or of  *)
(* Redis, to the next one.                                                 *)
(***************************************************************************)
EXTENDS StateStorage

CONSTANTS
    Key,          \* API keys
    Address,      \* client addresses that report bugs
    Call,         \* requests, each received at most once
    Limit,        \* requests per window: RATE_LIMITS of a key's tier, BUG_REPORT_LIMIT
    WindowSpan,   \* RATE_LIMIT_WINDOW_MS, BUG_REPORT_WINDOW_MS
    MaxDeaths     \* bound of the model

Id == Key \cup Address

ASSUME RateAssumption ==
    /\ Key \cap Address = {} /\ 0 \notin Id
    /\ Limit \in [Id -> Nat \ {0}]
    /\ WindowSpan \in Nat \ {0}
    /\ IsFiniteSet(Call)

VARIABLES
    keyRow,    \* the row of each API key
    window,    \* the window record of each key and address
    call,      \* the local variables of each request
    counted,   \* history: the window each request was counted in
    life       \* processes that died, with the windows they kept in memory

windowVars == <<keyRow, window, call, counted, life>>
rateVars == <<now, redis, windowVars>>

-----------------------------------------------------------------------------
\* An absent record counts 0; expiresAt is the expiry Redis gives the record.
Record == [count : Nat, resetAt : Nat, expiresAt : Nat]
NoRecord == [count |-> 0, resetAt |-> 0, expiresAt |-> 0]

\* at: the clock read before the first call to the storage; record and ttl: what
\* incrementRateLimit is about to write back.
CallState == [pc : {"idle", "find", "touch", "get", "increment", "ttl", "put", "set",
                    "admitted", "limited", "refused", "lost"},
              id : Id \cup {0}, at : Nat, record : Record, ttl : Nat]
NoCall == [pc |-> "idle", id |-> 0, at |-> 0, record |-> NoRecord, ttl |-> 0]

\* A request that was counted at all, in which window and by which process.
Count == [resetAt : Nat, life : Nat]
Uncounted == [resetAt |-> 0, life |-> 0]

Over == {"admitted", "limited", "refused", "lost"}

RateTypeOK ==
    /\ StorageTypeOK
    /\ keyRow \in [Key -> {"active", "revoked", "gone"}]
    /\ window \in [Id -> Record]
    /\ call \in [Call -> CallState]
    /\ counted \in [Call -> Count]
    /\ life \in Nat
    /\ \A c \in Call : call[c].pc # "idle" => call[c].id \in Id
    /\ \A c \in Call : call[c].pc \in {"find", "touch"} => call[c].id \in Key

RateInit ==
    /\ StorageInit
    /\ keyRow = [k \in Key |-> "active"]
    /\ window = [i \in Id |-> NoRecord]
    /\ call = [c \in Call |-> NoCall]
    /\ counted = [c \in Call |-> Uncounted]
    /\ life = 0

Goes(c, pc) == call' = [call EXCEPT ![c].pc = pc]

\* What a read of the record finds: Redis has dropped an expired record, a map
\* keeps it.
Found(i) == IF redis /\ window[i].expiresAt <= now THEN NoRecord ELSE window[i]

-----------------------------------------------------------------------------
(* Counting a request.                                                     *)

\* Mutant of Starts: a new window goes on with the count of the last one.
StartsUncleared(i, at) ==
    [count |-> window[i].count + 1, resetAt |-> at + WindowSpan,
     expiresAt |-> now + WindowSpan]

\* setRateLimit with a count of one.
Starts(i, at) ==
    [count |-> 1, resetAt |-> at + WindowSpan, expiresAt |-> now + WindowSpan]

\* Mutant of Full: one request too many is let in.
FullLate(record, i) == record.count > Limit[i]

Full(record, i) == record.count >= Limit[i]

Stores(c, i, record) ==
    /\ window' = [window EXCEPT ![i] = record]
    /\ counted' = [counted EXCEPT ![c] = [resetAt |-> record.resetAt, life |-> life]]

\* The clock has been read and the window is looked at.  In memory, all of it
\* happens before another request runs; Redis is asked first.
BeginWindow(c, i) ==
    \/ /\ redis
       /\ call' = [call EXCEPT ![c] = [@ EXCEPT !.pc = "get", !.id = i, !.at = now]]
       /\ UNCHANGED <<window, counted>>
    \/ /\ ~redis
       /\ LET open  == window[i].resetAt > now
              allow == ~(open /\ Full(window[i], i))
          IN  /\ call' = [call EXCEPT ![c] = [@ EXCEPT
                            !.pc = IF allow THEN "admitted" ELSE "limited",
                            !.id = i, !.at = now]]
              /\ IF allow
                   THEN Stores(c, i, IF open
                                       THEN [window[i] EXCEPT !.count = @ + 1]
                                       ELSE Starts(i, now))
                   ELSE UNCHANGED <<window, counted>>

\* getRateLimit has answered.
GetWindow(c) ==
    LET i == call[c].id
        open == Found(i).resetAt > call[c].at
    IN  /\ call[c].pc = "get"
        /\ Goes(c, IF ~open THEN "set" ELSE IF Full(Found(i), i) THEN "limited"
                                                                 ELSE "increment")
        /\ UNCHANGED <<now, redis, keyRow, window, counted, life>>

\* incrementRateLimit reads the record again; a record that is gone is not counted.
ReadToIncrement(c) ==
    LET record == Found(call[c].id)
    IN  /\ call[c].pc = "increment"
        /\ \/ /\ record.count = 0
              /\ Goes(c, "admitted")
           \/ /\ record.count # 0
              /\ call' = [call EXCEPT ![c] = [@ EXCEPT !.pc = "ttl",
                                              !.record = [record EXCEPT !.count = @ + 1]]]
        /\ UNCHANGED <<now, redis, keyRow, window, counted, life>>

\* Mutant of ReadTtl: a record that expired meanwhile is written back too.
ReadTtlExpired(c) ==
    /\ call[c].pc = "ttl"
    /\ call' = [call EXCEPT ![c] = [@ EXCEPT !.pc = "put",
                  !.ttl = window[call[c].id].expiresAt - now]]
    /\ UNCHANGED <<now, redis, keyRow, window, counted, life>>

\* pttl has answered: what is left of the record that is there now.
ReadTtl(c) ==
    LET expiry == window[call[c].id].expiresAt
    IN  /\ call[c].pc = "ttl"
        /\ \/ /\ expiry <= now
              /\ Goes(c, "admitted")
           \/ /\ expiry > now
              /\ call' = [call EXCEPT ![c] = [@ EXCEPT !.pc = "put", !.ttl = expiry - now]]
        /\ UNCHANGED <<now, redis, keyRow, window, counted, life>>

\* The incremented record is written over whatever is there.
PutWindow(c) ==
    /\ call[c].pc = "put"
    /\ Stores(c, call[c].id, [call[c].record EXCEPT !.expiresAt = now + call[c].ttl])
    /\ Goes(c, "admitted")
    /\ UNCHANGED <<now, redis, keyRow, life>>

SetWindow(c) ==
    /\ call[c].pc = "set"
    /\ Stores(c, call[c].id, Starts(call[c].id, call[c].at))
    /\ Goes(c, "admitted")
    /\ UNCHANGED <<now, redis, keyRow, life>>

\* Redis does not answer: the request is let through uncounted.  (A write that
\* lands although its answer is lost is PutWindow or SetWindow.)
StorageThrows(c) ==
    /\ call[c].pc \in {"get", "increment", "ttl", "put", "set"}
    /\ Goes(c, "admitted")
    /\ UNCHANGED <<now, redis, keyRow, window, counted, life>>

-----------------------------------------------------------------------------
(* API keys.                                                               *)

ReceiveKey(c, k) ==
    /\ call[c].pc = "idle"
    /\ call' = [call EXCEPT ![c] = [@ EXCEPT !.pc = "find", !.id = k]]
    /\ UNCHANGED <<now, redis, keyRow, window, counted, life>>

ReceiveReport(c, i) ==
    /\ call[c].pc = "idle"
    /\ BeginWindow(c, i)
    /\ UNCHANGED <<now, redis, keyRow, life>>

\* validateApiKey has read the row of the key.
FindKey(c) ==
    /\ call[c].pc = "find"
    /\ Goes(c, IF keyRow[call[c].id] = "active" THEN "touch" ELSE "refused")
    /\ UNCHANGED <<now, redis, keyRow, window, counted, life>>

\* The last use of the key has been stored; the row may have been revoked since.
TouchKey(c) ==
    /\ call[c].pc = "touch"
    /\ keyRow[call[c].id] # "gone"
    /\ BeginWindow(c, call[c].id)
    /\ UNCHANGED <<now, redis, keyRow, life>>

\* A database error, or a row deleted between the two statements, rejects
\* apiKeyAuth, which nobody awaits: the process dies and is started again.  The
\* requests it was serving are lost, and the windows unless they are in Redis.
Dies(c, served) ==
    /\ life < MaxDeaths
    /\ call[c].pc \in {"find", "touch"}
    /\ c \in served
    /\ call' = [d \in Call |-> IF d \in served /\ call[d].pc \notin Over \cup {"idle"}
                                 THEN [call[d] EXCEPT !.pc = "lost"] ELSE call[d]]
    /\ window' = IF redis THEN window ELSE [i \in Id |-> NoRecord]
    /\ life' = life + 1
    /\ UNCHANGED <<now, redis, keyRow, counted>>

Revoke(k) ==
    /\ keyRow[k] = "active"
    /\ keyRow' = [keyRow EXCEPT ![k] = "revoked"]
    /\ UNCHANGED <<now, redis, window, call, counted, life>>

\* The owner's user row is deleted, and the key's row with it.
RemoveOwner(k) ==
    /\ keyRow[k] # "gone"
    /\ keyRow' = [keyRow EXCEPT ![k] = "gone"]
    /\ UNCHANGED <<now, redis, window, call, counted, life>>

RateTick == Tick /\ UNCHANGED windowVars

\* Redis is shared by several processes, memory is one process's.
Serving(c) == IF redis THEN {S \in SUBSET Call : c \in S} ELSE {Call}

RateNext ==
    \/ \E c \in Call, k \in Key : ReceiveKey(c, k)
    \/ \E c \in Call, i \in Address : ReceiveReport(c, i)
    \/ \E c \in Call :
         \/ FindKey(c) \/ TouchKey(c)
         \/ GetWindow(c) \/ ReadToIncrement(c) \/ ReadTtl(c) \/ PutWindow(c)
         \/ SetWindow(c) \/ StorageThrows(c)
         \/ \E served \in Serving(c) : Dies(c, served)
    \/ \E k \in Key : Revoke(k) \/ RemoveOwner(k)
    \/ RateTick

RateSpec == RateInit /\ [][RateNext]_rateVars
-----------------------------------------------------------------------------
(* Properties.                                                             *)

\* The requests of i counted in the window that ends at t.
CountedIn(i, t) == {c \in Call : call[c].id = i /\ counted[c].resetAt = t}

\* Nobody is refused early: a request is answered 429 only when the limit's
\* number of requests of the same key or address were counted in one window that
\* had not ended when the request came, however increments overwrite each other,
\* windows restart and records expire (api-auth.middleware.ts:34-45,
\* redis-storage.ts:29-41).
NeverRefusedEarly ==
    \A c \in Call :
      call[c].pc = "limited" =>
        \E t \in 1 .. now + WindowSpan :
          /\ t > call[c].at
          /\ Cardinality(CountedIn(call[c].id, t)) >= Limit[call[c].id]

\* What keeps it so: neither a stored record nor one about to be written back
\* counts more requests than were counted, and no call is counted twice.
Backed(i, record, more) ==
    /\ record.count = 0 \/ record.resetAt > 0
    /\ record.resetAt <= now + WindowSpan
    /\ record.count <= Cardinality(CountedIn(i, record.resetAt)) + more

RecordsBacked ==
    /\ \A i \in Id : Backed(i, window[i], 0)
    /\ \A c \in Call :
         /\ call[c].at <= now
         /\ call[c].pc = "idle" => call[c].id = 0
         /\ call[c].pc \notin Over => counted[c] = Uncounted
         /\ call[c].pc \in {"ttl", "put"} => /\ call[c].record.resetAt > 0
                                           /\ Backed(call[c].id, call[c].record, 1)

\* The requests of i counted in one window of one process.
SharesWindow(i, count) == {d \in Call : call[d].id = i /\ counted[d] = count}

\* Without Redis no window admits more than its limit, and no request is admitted
\* uncounted: reading and counting are not separated by a call that leaves the
\* process (state-storage.ts:15-17, memory-storage.ts:13-28).
ExactInMemory ==
    ~redis =>
      /\ \A c \in Call : call[c].pc = "admitted" => counted[c] # Uncounted
      /\ \A i \in Id, c \in Call :
           counted[c] # Uncounted => Cardinality(SharesWindow(i, counted[c])) <= Limit[i]

\* What keeps it so: no call is between two steps with a window, and the record of a
\* window, never above its limit, counts every request that was counted in it.
WindowsExact ==
    ~redis =>
      /\ \A c \in Call :
           /\ call[c].pc \notin {"get", "increment", "ttl", "put", "set"}
           /\ counted[c] # Uncounted => counted[c].resetAt > 0
           /\ counted[c].life <= life
      /\ \A i \in Id :
           /\ window[i].count <= Limit[i]
           /\ window[i].resetAt > 0 =>
                Cardinality(SharesWindow(i, [resetAt |-> window[i].resetAt, life |-> life]))
                  <= window[i].count
           /\ \A c \in Call :
                /\ call[c].id = i /\ counted[c].life = life
                => counted[c].resetAt <= window[i].resetAt
=============================================================================
