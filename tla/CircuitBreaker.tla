--------------------------- MODULE CircuitBreaker ---------------------------
(***************************************************************************)
(* The circuit breaker of one agent (onchain/services/circuit-breaker.ts)  *)
(* over Redis or process memory.  Agents share nothing.                    *)
(*                                                                         *)
(* A step runs from the answer of one call to Redis to the next one; in    *)
(* memory an operation is one step.                                        *)
(***************************************************************************)
EXTENDS StateStorage

CONSTANTS
    Visit,           \* calls of the service, each made at most once
    ResetTimeout,    \* config.resetTimeout
    PauseDuration    \* config.pauseDuration

ASSUME BreakerAssumption == ResetTimeout \in Nat /\ PauseDuration \in Nat

VARIABLES
    breaker,     \* the stored record
    visit,       \* the local variables of each call
    heldOpen     \* history: until when a trip holds that no stale copy undoes

agentVars == <<breaker, visit, heldOpen>>
breakerVars == <<now, redis, agentVars>>

-----------------------------------------------------------------------------
\* Status "none" is an agent without a breaker, a null pausedUntil is 0.  A failure
\* count is stored but nothing reads it.
Breaker == [status : {"none", "closed", "open", "half-open"}, lastReset : Nat,
            pausedUntil : Nat]
NoBreaker == [status |-> "none", lastReset |-> 0, pausedUntil |-> 0]
Fresh(at) == [status |-> "closed", lastReset |-> at, pausedUntil |-> 0]

\* excess: the metrics of a check exceed a threshold; copy: the record the call
\* writes back.
VisitState == [pc : {"idle", "check", "half", "close", "trip", "open", "reset", "put",
                     "allowed", "refused", "done"},
               excess : BOOLEAN, copy : Breaker]
NoVisit == [pc |-> "idle", excess |-> FALSE, copy |-> NoBreaker]

Busy == {"check", "half", "close", "trip", "open", "reset", "put"}

BreakerTypeOK ==
    /\ StorageTypeOK
    /\ breaker \in Breaker
    /\ visit \in [Visit -> VisitState]
    /\ heldOpen \in Nat

\* An agent's breaker may have been initialised before, and tripped since.
BreakerInit ==
    /\ StorageInit
    /\ breaker \in {NoBreaker, Fresh(0), [Fresh(0) EXCEPT !.status = "open"]}
    /\ visit = [v \in Visit |-> NoVisit]
    /\ heldOpen = 0

Moves(v, pc) == visit' = [visit EXCEPT ![v].pc = pc]

\* Call w is not about to write away, or to shorten, a trip until t: it holds no copy
\* of an earlier record, unless one that is open as long.
SparesTrip(w, t) ==
    /\ visit[w].pc \notin {"half", "close"}
    /\ visit[w].pc = "open" => t <= visit[w].copy.pausedUntil

-----------------------------------------------------------------------------
(* What a check makes of the record it reads.                              *)

\* Mutant of Paused: the pause is not looked at.
PausedUnread(b) == FALSE

Paused(b) == b.status = "open" /\ b.pausedUntil > now

\* After its pause a breaker stays open until its last reset is long enough ago.
Probes(b) == b.status = "open" /\ ~Paused(b) /\ now - b.lastReset > ResetTimeout
Refuses(b) == b.status = "open" /\ ~Probes(b)

Verdict(v) == IF visit[v].excess THEN "trip" ELSE "allowed"

\* Mutant of Tripped: the pause counts backwards.
TrippedBackwards(b) ==
    [b EXCEPT !.status = "open", !.pausedUntil = now - PauseDuration]

Tripped(b) == [b EXCEPT !.status = "open", !.pausedUntil = now + PauseDuration]

-----------------------------------------------------------------------------
(* checkBreaker over Redis.                                                *)

BeginCheck(v) ==
    /\ redis
    /\ visit[v].pc = "idle"
    /\ \E excess \in BOOLEAN :
         visit' = [visit EXCEPT ![v] = [@ EXCEPT !.pc = "check", !.excess = excess]]
    /\ UNCHANGED <<now, redis, breaker, heldOpen>>

\* The record has been read: an open breaker refuses or is probed, a half-open one
\* is closed, a closed one goes by the metrics.
ReadCheck(v) ==
    /\ visit[v].pc = "check"
    /\ visit' = [visit EXCEPT ![v] = [@ EXCEPT
         !.pc = CASE breaker.status = "none"      -> "allowed"
                  [] Refuses(breaker)             -> "refused"
                  [] Probes(breaker)              -> "half"
                  [] breaker.status = "half-open" -> "close"
                  [] breaker.status = "closed"    -> Verdict(v),
         !.copy = IF Probes(breaker)
                    THEN [breaker EXCEPT !.status = "half-open", !.lastReset = now]
                    ELSE breaker]]
    /\ UNCHANGED <<now, redis, breaker, heldOpen>>

\* The copy it read is written back as half-open, then as closed.
WriteHalfOpen(v) ==
    /\ visit[v].pc = "half"
    /\ breaker' = visit[v].copy
    /\ Moves(v, "close")
    /\ UNCHANGED <<now, redis, heldOpen>>

WriteClosed(v) ==
    /\ visit[v].pc = "close"
    /\ breaker' = [visit[v].copy EXCEPT !.status = "closed"]
    /\ Moves(v, Verdict(v))
    /\ UNCHANGED <<now, redis, heldOpen>>

\* tripBreaker reads the record again and writes it back open.
ReadTrip(v) ==
    /\ visit[v].pc = "trip"
    /\ \/ /\ breaker.status = "none"
          /\ Moves(v, "refused")
       \/ /\ breaker.status # "none"
          /\ visit' = [visit EXCEPT ![v] = [@ EXCEPT !.pc = "open",
                                                     !.copy = Tripped(breaker)]]
    /\ UNCHANGED <<now, redis, breaker, heldOpen>>

WriteOpen(v) ==
    /\ visit[v].pc = "open"
    /\ breaker' = visit[v].copy
    /\ LET until == visit[v].copy.pausedUntil
       IN  heldOpen' = IF \A w \in Visit \ {v} : SparesTrip(w, until)
                         THEN Later(heldOpen, until) ELSE heldOpen
    /\ Moves(v, "refused")
    /\ UNCHANGED <<now, redis>>

-----------------------------------------------------------------------------
(* resetBreaker and initializeBreaker over Redis.                          *)

BeginReset(v) ==
    /\ redis
    /\ visit[v].pc = "idle"
    /\ Moves(v, "reset")
    /\ UNCHANGED <<now, redis, breaker, heldOpen>>

ReadReset(v) ==
    /\ visit[v].pc = "reset"
    /\ visit' = [visit EXCEPT ![v] = [@ EXCEPT
                   !.pc = IF breaker.status = "none" THEN "done" ELSE "put",
                   !.copy = Fresh(now)]]
    /\ UNCHANGED <<now, redis, breaker, heldOpen>>

\* The new record does not depend on the old one: no read before the write.
BeginInitialize(v) ==
    /\ redis
    /\ visit[v].pc = "idle"
    /\ visit' = [visit EXCEPT ![v] = [@ EXCEPT !.pc = "put", !.copy = Fresh(now)]]
    /\ UNCHANGED <<now, redis, breaker, heldOpen>>

\* A fresh record ends every trip.
PutFresh(v) ==
    /\ visit[v].pc = "put"
    /\ breaker' = visit[v].copy
    /\ heldOpen' = 0
    /\ Moves(v, "done")
    /\ UNCHANGED <<now, redis>>

\* Redis does not answer: the call rejects.
VisitThrows(v) ==
    /\ visit[v].pc \in Busy
    /\ Moves(v, "done")
    /\ UNCHANGED <<now, redis, breaker, heldOpen>>

-----------------------------------------------------------------------------
(* In memory.                                                              *)

\* The record a check leaves behind when it does not refuse: closed.
Closed(b) == IF Probes(b) THEN [b EXCEPT !.status = "closed", !.lastReset = now]
                          ELSE [b EXCEPT !.status = "closed"]

CheckInMemory(v) ==
    /\ ~redis
    /\ visit[v].pc = "idle"
    /\ \E excess \in BOOLEAN :
         LET pass == ~Refuses(breaker) /\ (breaker.status = "none" \/ ~excess)
             trip == ~Refuses(breaker) /\ ~pass
         IN  /\ visit' = [visit EXCEPT ![v] = [@ EXCEPT
                            !.pc = IF pass THEN "allowed" ELSE "refused",
                            !.excess = excess]]
             /\ breaker' = CASE trip                                  -> Tripped(Closed(breaker))
                             [] pass /\ breaker.status # "none"       -> Closed(breaker)
                             [] OTHER                                 -> breaker
             /\ heldOpen' = IF trip THEN now + PauseDuration ELSE heldOpen
    /\ UNCHANGED <<now, redis>>

RenewInMemory(v) ==
    /\ ~redis
    /\ visit[v].pc = "idle"
    /\ Moves(v, "done")
    /\ \/ breaker' = Fresh(now)
       \/ breaker.status = "none" /\ breaker' = breaker
    /\ heldOpen' = 0
    /\ UNCHANGED <<now, redis>>

BreakerTick == Tick /\ UNCHANGED agentVars

BreakerNext ==
    \/ \E v \in Visit :
         \/ BeginCheck(v) \/ ReadCheck(v) \/ WriteHalfOpen(v) \/ WriteClosed(v)
         \/ ReadTrip(v) \/ WriteOpen(v)
         \/ BeginReset(v) \/ ReadReset(v) \/ BeginInitialize(v) \/ PutFresh(v)
         \/ VisitThrows(v)
         \/ CheckInMemory(v) \/ RenewInMemory(v)
    \/ BreakerTick

BreakerSpec == BreakerInit /\ [][BreakerNext]_breakerVars
-----------------------------------------------------------------------------
(* Properties.                                                             *)

\* A trip holds: every check answered before its pause ends is refused, whatever
\* checks and trips run when it is stored or start later, unless the breaker is reset
\* or initialised (circuit-breaker.ts:32-43, 69-78).  There is one exception: a call
\* that read the breaker before and has its copy still to write, half-open or closed
\* (lines 39, 48) or open for less long (line 77), writes it over the trip.
TripHolds ==
    [][\A v \in Visit : visit[v].pc # "allowed" /\ visit'[v].pc = "allowed" =>
         heldOpen' <= now]_breakerVars

\* What keeps it so: in memory no call is ever between two steps; a trip writes an
\* open record, of at most PauseDuration from now; and while a trip holds the stored
\* record is open and paused, and no running call has a copy that would undo it.
StaysOpen(b) == b.status = "open" /\ heldOpen <= b.pausedUntil

TripKept ==
    /\ \A v \in Visit : visit[v].pc \in Busy => redis
    /\ \A v \in Visit :
         visit[v].pc = "open" => /\ visit[v].copy.status = "open"
                                 /\ visit[v].copy.pausedUntil <= now + PauseDuration
    /\ heldOpen <= now + PauseDuration
    /\ now < heldOpen => StaysOpen(breaker) /\ \A v \in Visit : SparesTrip(v, heldOpen)
=============================================================================
