---------------------------- MODULE StorageProofs ----------------------------
(***************************************************************************)
(* Proofs about what keeps its state in StateStorage, for every set of     *)
(* keys, addresses, accounts and calls, every limit and every duration:    *)
(* the circuit breaker, the lockout and the request windows.               *)
(***************************************************************************)
EXTENDS RateLimit, Lockout, CircuitBreaker, FiniteSetTheorems, TLAPS

-----------------------------------------------------------------------------
(* The circuit breaker.                                                    *)

VisitPc == {"idle", "check", "half", "close", "trip", "open", "reset", "put",
            "allowed", "refused", "done"}

\* A step that gives one call a new position and a new copy keeps the types.
LEMMA VisitMoves ==
  ASSUME BreakerTypeOK, NEW v \in Visit, NEW pc \in VisitPc, NEW excess \in BOOLEAN,
         NEW copy \in Breaker
  PROVE  /\ [visit EXCEPT ![v].pc = pc] \in [Visit -> VisitState]
         /\ [visit EXCEPT ![v] = [@ EXCEPT !.pc = pc, !.copy = copy]]
              \in [Visit -> VisitState]
         /\ [visit EXCEPT ![v] = [@ EXCEPT !.pc = pc, !.excess = excess]]
              \in [Visit -> VisitState]
  BY DEF BreakerTypeOK, VisitState, VisitPc

\* The records the operations make are records.
LEMMA BreakerRecords ==
  ASSUME BreakerTypeOK, NEW b \in Breaker
  PROVE  /\ Fresh(now) \in Breaker
         /\ Tripped(b) \in Breaker
         /\ Closed(b) \in Breaker
         /\ [b EXCEPT !.status = "half-open", !.lastReset = now] \in Breaker
         /\ [b EXCEPT !.status = "closed"] \in Breaker
<1> USE DEF BreakerTypeOK, StorageTypeOK, Breaker
<1>1. Fresh(now) \in Breaker
  BY DEF Fresh
<1>2. Tripped(b) \in Breaker
<2>1. now + PauseDuration \in Nat
  BY BreakerAssumption
<2> QED BY <2>1 DEF Tripped
<1>3. /\ [b EXCEPT !.status = "half-open", !.lastReset = now] \in Breaker
      /\ [b EXCEPT !.status = "closed"] \in Breaker
      /\ [b EXCEPT !.status = "closed", !.lastReset = now] \in Breaker
  OBVIOUS
<1>4. Closed(b) \in Breaker
  BY <1>3 DEF Closed
<1> QED BY <1>1, <1>2, <1>3, <1>4

\* The record, the copies calls hold of it and the history keep their types
\* (circuit-breaker.ts:7-89).
THEOREM BreakerTyped == BreakerSpec => []BreakerTypeOK
<1>1. BreakerInit => BreakerTypeOK
  BY DEF BreakerInit, BreakerTypeOK, StorageInit, StorageTypeOK, NoBreaker, Fresh,
         Breaker, NoVisit, VisitState
<1>2. BreakerTypeOK /\ [BreakerNext]_breakerVars => BreakerTypeOK'
  <2> SUFFICES ASSUME BreakerTypeOK, [BreakerNext]_breakerVars
               PROVE  BreakerTypeOK'
    OBVIOUS
  <2>a. breaker \in Breaker
    BY DEF BreakerTypeOK
  <2>b. ASSUME NEW v \in Visit
        PROVE  visit[v].copy \in Breaker /\ visit[v].copy.pausedUntil \in Nat
    BY DEF BreakerTypeOK, VisitState, Breaker
  <2>c. ASSUME now' = now, redis' = redis, breaker' \in Breaker, heldOpen' \in Nat,
               visit' \in [Visit -> VisitState]
        PROVE  BreakerTypeOK'
    BY <2>c DEF BreakerTypeOK, StorageTypeOK
  <2>1. ASSUME NEW v \in Visit, BeginCheck(v) PROVE BreakerTypeOK'
    <3>1. PICK excess \in BOOLEAN :
            visit' = [visit EXCEPT ![v] = [@ EXCEPT !.pc = "check", !.excess = excess]]
      BY <2>1 DEF BeginCheck
    <3>2. visit' \in [Visit -> VisitState]
      BY <3>1, <2>a, VisitMoves DEF VisitPc
    <3> QED BY <2>1, <3>2, <2>a, <2>c DEF BeginCheck, BreakerTypeOK
  <2>2. ASSUME NEW v \in Visit, ReadCheck(v) PROVE BreakerTypeOK'
    <3> DEFINE pc == CASE breaker.status = "none"      -> "allowed"
                       [] Refuses(breaker)             -> "refused"
                       [] Probes(breaker)              -> "half"
                       [] breaker.status = "half-open" -> "close"
                       [] breaker.status = "closed"    -> Verdict(v)
               copy == IF Probes(breaker)
                         THEN [breaker EXCEPT !.status = "half-open", !.lastReset = now]
                         ELSE breaker
    <3>1. pc \in VisitPc
      BY <2>a DEF Refuses, Verdict, VisitPc, Breaker
    <3>2. copy \in Breaker
      BY <2>a, BreakerRecords
    <3>3. visit' = [visit EXCEPT ![v] = [@ EXCEPT !.pc = pc, !.copy = copy]]
      BY <2>2 DEF ReadCheck
    <3> HIDE DEF pc, copy
    <3>4. visit' \in [Visit -> VisitState]
      BY <3>1, <3>2, <3>3, VisitMoves
    <3> QED BY <2>2, <3>4, <2>a, <2>c DEF ReadCheck, BreakerTypeOK
  <2>3. ASSUME NEW v \in Visit, WriteHalfOpen(v) PROVE BreakerTypeOK'
    <3>1. visit' \in [Visit -> VisitState]
      BY <2>3, <2>a, VisitMoves DEF WriteHalfOpen, Moves, VisitPc
    <3> QED BY <2>3, <3>1, <2>b, <2>c DEF WriteHalfOpen, BreakerTypeOK
  <2>4. ASSUME NEW v \in Visit, WriteClosed(v) PROVE BreakerTypeOK'
    <3>1. Verdict(v) \in VisitPc
      BY DEF Verdict, VisitPc
    <3>2. visit' \in [Visit -> VisitState]
      BY <2>4, <3>1, <2>a, VisitMoves DEF WriteClosed, Moves
    <3>3. breaker' \in Breaker
      BY <2>4, <2>b, BreakerRecords DEF WriteClosed
    <3> QED BY <2>4, <3>2, <3>3, <2>c DEF WriteClosed, BreakerTypeOK
  <2>5. ASSUME NEW v \in Visit, ReadTrip(v) PROVE BreakerTypeOK'
    <3>1. Tripped(breaker) \in Breaker
      BY <2>a, BreakerRecords
    <3>2. visit' \in [Visit -> VisitState]
      <4>1. CASE Moves(v, "refused")
        BY <4>1, <2>a, VisitMoves DEF Moves, VisitPc
      <4>2. CASE visit' = [visit EXCEPT ![v] = [@ EXCEPT !.pc = "open",
                                                         !.copy = Tripped(breaker)]]
        BY <4>2, <3>1, VisitMoves DEF VisitPc
      <4> QED BY <2>5, <4>1, <4>2 DEF ReadTrip
    <3> QED BY <2>5, <3>2, <2>a, <2>c DEF ReadTrip, BreakerTypeOK
  <2>6. ASSUME NEW v \in Visit, WriteOpen(v) PROVE BreakerTypeOK'
    <3>1. visit' \in [Visit -> VisitState]
      BY <2>6, <2>a, VisitMoves DEF WriteOpen, Moves, VisitPc
    <3>2. breaker' \in Breaker /\ heldOpen' \in Nat
      BY <2>6, <2>b DEF WriteOpen, Later, BreakerTypeOK
    <3> QED BY <2>6, <3>1, <3>2, <2>c DEF WriteOpen
  <2>7. ASSUME NEW v \in Visit, BeginReset(v) \/ VisitThrows(v) PROVE BreakerTypeOK'
    <3>1. PICK pc \in VisitPc : visit' = [visit EXCEPT ![v].pc = pc]
      BY <2>7 DEF BeginReset, VisitThrows, Moves, VisitPc
    <3>2. visit' \in [Visit -> VisitState]
      BY <3>1, <2>a, VisitMoves
    <3> QED BY <2>7, <3>2, <2>a, <2>c DEF BeginReset, VisitThrows, BreakerTypeOK
  <2>8. ASSUME NEW v \in Visit, ReadReset(v) \/ BeginInitialize(v) PROVE BreakerTypeOK'
    <3>1. Fresh(now) \in Breaker
      BY <2>a, BreakerRecords
    <3>2. PICK pc \in {"put", "done"} :
            visit' = [visit EXCEPT ![v] = [@ EXCEPT !.pc = pc, !.copy = Fresh(now)]]
      BY <2>8 DEF ReadReset, BeginInitialize
    <3>3. visit' \in [Visit -> VisitState]
      BY <3>1, <3>2, VisitMoves DEF VisitPc
    <3> QED BY <2>8, <3>3, <2>a, <2>c DEF ReadReset, BeginInitialize, BreakerTypeOK
  <2>9. ASSUME NEW v \in Visit, PutFresh(v) PROVE BreakerTypeOK'
    <3>1. visit' \in [Visit -> VisitState]
      BY <2>9, <2>a, VisitMoves DEF PutFresh, Moves, VisitPc
    <3> QED BY <2>9, <3>1, <2>b, <2>c DEF PutFresh
  <2>10. ASSUME NEW v \in Visit, CheckInMemory(v) PROVE BreakerTypeOK'
    <3>1. PICK excess \in BOOLEAN, pc \in {"allowed", "refused"} :
            visit' = [visit EXCEPT ![v] = [@ EXCEPT !.pc = pc, !.excess = excess]]
      BY <2>10 DEF CheckInMemory
    <3>2. visit' \in [Visit -> VisitState]
      BY <3>1, <2>a, VisitMoves DEF VisitPc
    <3>3. Tripped(Closed(breaker)) \in Breaker /\ Closed(breaker) \in Breaker
      BY <2>a, BreakerRecords
    <3>4. breaker' \in Breaker
      BY <2>10, <2>a, <3>3 DEF CheckInMemory
    <3>5. heldOpen' \in Nat
      BY <2>10, BreakerAssumption DEF CheckInMemory, BreakerTypeOK, StorageTypeOK
    <3> QED BY <2>10, <3>2, <3>4, <3>5, <2>c DEF CheckInMemory
  <2>11. ASSUME NEW v \in Visit, RenewInMemory(v) PROVE BreakerTypeOK'
    <3>1. visit' \in [Visit -> VisitState]
      BY <2>11, <2>a, VisitMoves DEF RenewInMemory, Moves, VisitPc
    <3>2. breaker' \in Breaker
      BY <2>11, <2>a, BreakerRecords DEF RenewInMemory
    <3> QED BY <2>11, <3>1, <3>2, <2>c DEF RenewInMemory
  <2>12. CASE BreakerTick
    BY <2>12 DEF BreakerTick, Tick, agentVars, BreakerTypeOK, StorageTypeOK
  <2>13. CASE UNCHANGED breakerVars
    BY <2>13, <2>c, <2>a DEF breakerVars, agentVars, BreakerTypeOK
  <2> QED
    BY <2>1, <2>2, <2>3, <2>4, <2>5, <2>6, <2>7, <2>8, <2>9, <2>10, <2>11, <2>12, <2>13
       DEF BreakerNext
<1> QED BY <1>1, <1>2, PTL DEF BreakerSpec

\* The invariant that makes a trip hold is inductive.
THEOREM TripInvariant == BreakerSpec => []TripKept
<1>1. BreakerInit => TripKept
  BY BreakerAssumption DEF BreakerInit, TripKept, StorageInit, NoVisit, Busy
<1>2. BreakerTypeOK /\ TripKept /\ [BreakerNext]_breakerVars => TripKept'
  <2> SUFFICES ASSUME BreakerTypeOK, TripKept, [BreakerNext]_breakerVars
               PROVE  TripKept'
    OBVIOUS
  <2>a. /\ visit \in [Visit -> VisitState] /\ breaker \in Breaker
        /\ now \in Nat /\ heldOpen \in Nat /\ now + PauseDuration \in Nat
        /\ \A v \in Visit : visit[v].copy.pausedUntil \in Nat
    BY BreakerAssumption DEF BreakerTypeOK, StorageTypeOK, VisitState, Breaker
  \* A check that reads an open and paused record refuses.
  <2>b. now < heldOpen => Refuses(breaker) /\ ~Probes(breaker)
    BY <2>a DEF TripKept, StaysOpen, Refuses, Probes, Paused, Breaker
  <2>1. ASSUME NEW v \in Visit, BeginCheck(v) PROVE TripKept'
    BY <2>1, <2>a DEF BeginCheck, TripKept, StaysOpen, SparesTrip, Busy, VisitState
  <2>2. ASSUME NEW v \in Visit, ReadCheck(v) PROVE TripKept'
    <3>1. /\ redis /\ visit'[v].pc # "open"
          /\ \A w \in Visit \ {v} : visit'[w] = visit[w]
          /\ now < heldOpen => visit'[v].pc \in {"allowed", "refused"}
      BY <2>2, <2>a, <2>b DEF ReadCheck, TripKept, Busy, VisitState, Breaker, Verdict, Refuses
    <3> QED BY <2>2, <2>a, <3>1 DEF ReadCheck, TripKept, StaysOpen, SparesTrip
  <2>3. ASSUME NEW v \in Visit, WriteHalfOpen(v) PROVE TripKept'
    BY <2>3, <2>a DEF WriteHalfOpen, Moves, TripKept, SparesTrip, Busy, VisitState
  <2>4. ASSUME NEW v \in Visit, WriteClosed(v) PROVE TripKept'
    BY <2>4, <2>a DEF WriteClosed, Moves, Verdict, TripKept, SparesTrip, Busy, VisitState
  <2>5. ASSUME NEW v \in Visit, ReadTrip(v) PROVE TripKept'
    <3>1. redis /\ UNCHANGED <<now, redis, breaker, heldOpen>>
      BY <2>5 DEF ReadTrip, TripKept, Busy
    <3>2. /\ Tripped(breaker).status = "open"
          /\ Tripped(breaker).pausedUntil = now + PauseDuration
      BY <2>a DEF Tripped, Breaker
    <3>3. /\ \A w \in Visit \ {v} : visit'[w] = visit[w]
          /\ visit'[v].pc \in {"open", "refused"}
          /\ visit'[v].pc = "open" => visit'[v].copy = Tripped(breaker)
      BY <2>5, <2>a DEF ReadTrip, Moves, VisitState
    <3>4. ASSUME NEW w \in Visit, visit'[w].pc = "open"
          PROVE  /\ visit'[w].copy.status = "open"
                 /\ visit'[w].copy.pausedUntil <= now' + PauseDuration
      <4>1. CASE w = v
        BY <3>1, <3>2, <3>3, <3>4, <4>1, <2>a
      <4>2. CASE w # v
        BY <3>1, <3>3, <3>4, <4>2 DEF TripKept
      <4> QED BY <4>1, <4>2
    <3>5. ASSUME NEW w \in Visit, now < heldOpen PROVE SparesTrip(w, heldOpen)'
      <4>1. CASE w = v
        BY <3>1, <3>2, <3>3, <4>1 DEF TripKept, SparesTrip
      <4>2. CASE w # v
        BY <3>1, <3>3, <3>5, <4>2 DEF TripKept, SparesTrip
      <4> QED BY <4>1, <4>2
    <3> QED BY <3>1, <3>4, <3>5 DEF TripKept, StaysOpen
  <2>6. ASSUME NEW v \in Visit, WriteOpen(v) PROVE TripKept'
    <3>1. /\ \A w \in Visit \ {v} : visit'[w] = visit[w]
          /\ visit'[v].pc = "refused"
      BY <2>6, <2>a DEF WriteOpen, Moves, VisitState
    <3> DEFINE until == visit[v].copy.pausedUntil
    <3>2. /\ redis /\ UNCHANGED <<now, redis>>
          /\ breaker'.status = "open" /\ breaker'.pausedUntil = until
          /\ until \in Nat /\ until <= now + PauseDuration
      BY <2>6, <2>a DEF WriteOpen, TripKept, Busy
    \* Until the trip that held before ends, it is this one that is longer.
    <3>3. /\ now < heldOpen => heldOpen <= until
          /\ now < heldOpen => \A w \in Visit : SparesTrip(w, heldOpen)
      BY <2>6 DEF WriteOpen, TripKept, SparesTrip
    <3>4. CASE \A w \in Visit \ {v} : SparesTrip(w, until)
      <4>1. heldOpen' = Later(heldOpen, until)
        BY <2>6, <3>4 DEF WriteOpen
      <4>2. /\ heldOpen' <= now + PauseDuration
            /\ now < heldOpen' => heldOpen' = until
        BY <2>a, <3>2, <3>3, <4>1 DEF TripKept, Later
      <4>3. ASSUME now' < heldOpen' PROVE (\A w \in Visit : SparesTrip(w, heldOpen))'
        BY <3>1, <3>2, <3>4, <4>2, <4>3 DEF SparesTrip
      <4>4. /\ \A w \in Visit : visit'[w].pc \in Busy => redis'
            /\ \A w \in Visit :
                 visit'[w].pc = "open" => /\ visit'[w].copy.status = "open"
                                          /\ visit'[w].copy.pausedUntil <= now' + PauseDuration
        BY <3>1, <3>2 DEF TripKept
      <4>5. now' < heldOpen' => StaysOpen(breaker)'
        BY <3>2, <4>2, <2>a DEF StaysOpen
      <4> HIDE DEF until
      <4> QED BY <3>2, <4>2, <4>3, <4>4, <4>5 DEF TripKept
    <3>5. CASE heldOpen' = heldOpen
      <4>1. now < heldOpen => \A w \in Visit : SparesTrip(w, heldOpen)'
        BY <3>1, <3>3, <3>5 DEF SparesTrip
      <4> HIDE DEF until
      <4> QED BY <3>1, <3>2, <3>3, <3>5, <4>1 DEF TripKept, StaysOpen
    <3> QED BY <2>6, <3>4, <3>5 DEF WriteOpen
  <2>7. ASSUME NEW v \in Visit, BeginReset(v) \/ VisitThrows(v) PROVE TripKept'
    <3>1. PICK pc \in {"reset", "done"} :
            /\ visit' = [visit EXCEPT ![v].pc = pc]
            /\ pc = "reset" => redis
      BY <2>7 DEF BeginReset, VisitThrows, Moves
    <3>2. /\ \A w \in Visit \ {v} : visit'[w] = visit[w]
          /\ visit'[v].pc = pc
      BY <3>1, <2>a DEF VisitState
    <3>3. UNCHANGED <<now, redis, breaker, heldOpen>>
      BY <2>7 DEF BeginReset, VisitThrows
    <3> QED BY <3>1, <3>2, <3>3 DEF TripKept, StaysOpen, SparesTrip, Busy
  <2>8. ASSUME NEW v \in Visit, ReadReset(v) \/ BeginInitialize(v) PROVE TripKept'
    <3>1. redis /\ UNCHANGED <<now, redis, breaker, heldOpen>>
      BY <2>8 DEF ReadReset, BeginInitialize, TripKept, Busy
    <3>2. /\ \A w \in Visit \ {v} : visit'[w] = visit[w]
          /\ visit'[v].pc \in {"put", "done"}
      BY <2>8, <2>a DEF ReadReset, BeginInitialize, VisitState
    <3> QED BY <3>1, <3>2 DEF TripKept, StaysOpen, SparesTrip, Busy
  <2>9. ASSUME NEW v \in Visit, PutFresh(v) PROVE TripKept'
    BY <2>9, <2>a DEF PutFresh, Moves, TripKept, SparesTrip, Busy, VisitState
  <2>10. ASSUME NEW v \in Visit, CheckInMemory(v) PROVE TripKept'
    <3>1. /\ ~redis
          /\ \A w \in Visit : visit'[w].pc \notin Busy
      BY <2>10, <2>a DEF CheckInMemory, TripKept, Busy, VisitState
    <3>2. CASE breaker' = breaker /\ heldOpen' = heldOpen
      BY <2>10, <3>1, <3>2, <2>a DEF CheckInMemory, TripKept, StaysOpen, SparesTrip, Busy
    <3>3. CASE breaker' = Tripped(Closed(breaker)) /\ heldOpen' = now + PauseDuration
      <4>1. Closed(breaker) \in Breaker
        BY <2>a, BreakerRecords
      <4>2. breaker'.status = "open" /\ breaker'.pausedUntil = now + PauseDuration
        BY <4>1, <3>3 DEF Tripped, Breaker
      <4> QED BY <2>10, <3>1, <3>3, <4>2, <2>a, BreakerAssumption
                 DEF CheckInMemory, TripKept, StaysOpen, SparesTrip, Busy
    <3>4. CASE ~(now < heldOpen) /\ heldOpen' = heldOpen
      BY <2>10, <3>1, <3>4, <2>a DEF CheckInMemory, TripKept, Busy
    <3> QED BY <2>10, <3>2, <3>3, <3>4, <2>b DEF CheckInMemory
  <2>11. ASSUME NEW v \in Visit, RenewInMemory(v) PROVE TripKept'
    BY <2>11, <2>a DEF RenewInMemory, Moves, TripKept, SparesTrip, Busy, VisitState
  <2>12. CASE BreakerTick
    BY <2>12, <2>a, BreakerAssumption
       DEF BreakerTick, Tick, agentVars, TripKept, StaysOpen, SparesTrip
  <2>13. CASE UNCHANGED breakerVars
    BY <2>13 DEF breakerVars, agentVars, TripKept, StaysOpen, SparesTrip
  <2> QED
    BY <2>1, <2>2, <2>3, <2>4, <2>5, <2>6, <2>7, <2>8, <2>9, <2>10, <2>11, <2>12, <2>13
       DEF BreakerNext
<1> QED BY <1>1, <1>2, BreakerTyped, PTL DEF BreakerSpec

\* No check is answered in a way the trip forbids.
THEOREM TripsHold == BreakerSpec => TripHolds
<1>1. BreakerTypeOK /\ TripKept /\ [BreakerNext]_breakerVars =>
        [\A v \in Visit : visit[v].pc # "allowed" /\ visit'[v].pc = "allowed" =>
           heldOpen' <= now]_breakerVars
  <2> SUFFICES ASSUME BreakerTypeOK, TripKept, BreakerNext,
                      NEW v \in Visit, visit[v].pc # "allowed", visit'[v].pc = "allowed",
                      ~(heldOpen' <= now)
               PROVE  FALSE
    OBVIOUS
  <2>a. /\ visit \in [Visit -> VisitState] /\ breaker \in Breaker
        /\ now \in Nat /\ heldOpen \in Nat
    BY DEF BreakerTypeOK, StorageTypeOK
  <2>b. now < heldOpen => Refuses(breaker) /\ ~Probes(breaker)
    BY <2>a DEF TripKept, StaysOpen, Refuses, Probes, Paused, Breaker
  <2>c. ASSUME heldOpen' = heldOpen PROVE now < heldOpen
    BY <2>a, <2>c
  <2>d. PICK w \in Visit :
          \/ BeginCheck(w) \/ ReadCheck(w) \/ WriteHalfOpen(w) \/ WriteClosed(w)
          \/ ReadTrip(w) \/ WriteOpen(w)
          \/ BeginReset(w) \/ ReadReset(w) \/ BeginInitialize(w) \/ PutFresh(w)
          \/ VisitThrows(w)
          \/ CheckInMemory(w) \/ RenewInMemory(w)
    BY DEF BreakerNext, BreakerTick, agentVars
  <2>1. CASE BeginCheck(w) \/ WriteHalfOpen(w) \/ ReadTrip(w) \/ WriteOpen(w)
    BY <2>1, <2>a DEF BeginCheck, WriteHalfOpen, ReadTrip, WriteOpen, Moves, VisitState
  <2>2. CASE BeginReset(w) \/ ReadReset(w) \/ BeginInitialize(w) \/ PutFresh(w)
             \/ VisitThrows(w) \/ RenewInMemory(w)
    BY <2>2, <2>a DEF BeginReset, ReadReset, BeginInitialize, PutFresh, VisitThrows,
                      RenewInMemory, Moves, VisitState
  <2>3. CASE ReadCheck(w)
    <3>1. breaker.status = "open" /\ Refuses(breaker)
      BY <2>3, <2>b, <2>c DEF ReadCheck, Refuses
    <3>2. visit'[w].pc = "refused" /\ (v # w => visit'[v] = visit[v])
      BY <2>3, <2>a, <3>1 DEF ReadCheck, VisitState
    <3> QED BY <3>2
  <2>4. CASE WriteClosed(w)
    BY <2>4, <2>c DEF WriteClosed, TripKept, SparesTrip
  <2>5. CASE CheckInMemory(w)
    <3>1. CASE ~Refuses(breaker) /\ heldOpen' = heldOpen
      BY <3>1, <2>b, <2>c
    <3>2. CASE visit' = [visit EXCEPT ![w] = [@ EXCEPT
                            !.pc = "refused", !.excess = visit'[w].excess]]
      BY <3>2, <2>a DEF VisitState
    <3> QED BY <2>5, <3>1, <3>2, <2>a DEF CheckInMemory, VisitState
  <2> QED BY <2>d, <2>1, <2>2, <2>3, <2>4, <2>5
<1> QED BY <1>1, BreakerTyped, TripInvariant, PTL DEF BreakerSpec, TripHolds

-----------------------------------------------------------------------------
(* The lockout.                                                            *)

OpPc == {"idle", "fail", "write", "status", "drop", "clear", "sweep", "free", "locked",
         "done"}

\* A failed attempt makes a record of a record, and a lock only when it is due.
LEMMA FailedRecord ==
  ASSUME NEW lock \in Lock, NEW at \in Nat, NEW later \in Nat, at <= later
  PROVE  /\ Failed(lock, at) \in Lock
         /\ (lock.lockedUntil # 0 => lock.count >= MaxFailed)
            => (Failed(lock, at).lockedUntil # 0 => Failed(lock, at).count >= MaxFailed)
         /\ lock.lockedUntil <= later + LockSpan
            => Failed(lock, at).lockedUntil <= later + LockSpan
<1> USE LockoutAssumption
<1> DEFINE restart == lock.count = 0 \/ lock.firstAttempt + ResetSpan < at
           count   == IF restart THEN 1 ELSE lock.count + 1
           first   == IF restart THEN at ELSE lock.firstAttempt
           until   == IF count >= MaxFailed THEN at + LockSpan
                      ELSE IF restart THEN 0 ELSE lock.lockedUntil
<1>1. /\ lock.count \in Nat /\ lock.firstAttempt \in Nat /\ lock.lockedUntil \in Nat
      /\ at + LockSpan \in Nat
  BY DEF Lock
<1>2. count \in Nat /\ first \in Nat /\ until \in Nat
  BY <1>1
<1>3. Failed(lock, at) = [count |-> count, firstAttempt |-> first, lockedUntil |-> until]
  BY DEF Failed
<1>4. (lock.lockedUntil # 0 => lock.count >= MaxFailed) => (until # 0 => count >= MaxFailed)
  BY <1>1
<1>5. lock.lockedUntil <= later + LockSpan => until <= later + LockSpan
  BY <1>1
<1> HIDE DEF count, first, until
<1> QED BY <1>2, <1>3, <1>4, <1>5 DEF Lock

\* The record, the calls and the history keep their types
\* (account-lockout.service.ts:24-115).
THEOREM LockoutTyped == LockoutSpec => []LockoutTypeOK
<1>1. LockoutInit => LockoutTypeOK
  BY LockoutAssumption
     DEF LockoutInit, LockoutTypeOK, StorageInit, StorageTypeOK, NoLock, Lock, NoOp, OpState
<1>2. LockoutTypeOK /\ [LockoutNext]_lockoutVars => LockoutTypeOK'
  <2> SUFFICES ASSUME LockoutTypeOK, [LockoutNext]_lockoutVars
               PROVE  LockoutTypeOK'
    OBVIOUS
  <2>a. /\ now \in Nat /\ lockout \in Lock /\ heldUntil \in Nat
        /\ op \in [Op -> OpState] /\ NoLock \in Lock /\ NoOp \in OpState
    BY DEF LockoutTypeOK, StorageTypeOK, NoLock, Lock, NoOp, OpState
  <2>b. ASSUME NEW o \in Op PROVE op[o].at \in Nat /\ op[o].lock \in Lock
    BY <2>a DEF OpState
  <2>c. ASSUME now' = now, redis' = redis, lockout' \in Lock, heldUntil' \in Nat,
               op' \in [Op -> OpState]
        PROVE  LockoutTypeOK'
    BY <2>c DEF LockoutTypeOK, StorageTypeOK
  <2>d. ASSUME NEW o \in Op, NEW pc \in OpPc, Called(o, pc) PROVE op' \in [Op -> OpState]
    BY <2>a, <2>d DEF Called, OpState, OpPc
  <2>e. ASSUME NEW o \in Op, NEW pc \in OpPc, Becomes(o, pc) PROVE op' \in [Op -> OpState]
    BY <2>a, <2>e DEF Becomes, NoOp, OpState, OpPc
  <2>f. ASSUME NEW o \in Op, NEW lock \in Lock, Saved(o, lock)
        PROVE  lockout' \in Lock /\ heldUntil' \in Nat
    BY <2>a, <2>f, LockoutAssumption DEF Saved, HoldsUntil, Later, Lock
  <2>1. ASSUME NEW o \in Op, BeginInRedis(o) \/ BeginSuccess(o) PROVE LockoutTypeOK'
    BY <2>1, <2>a, <2>c, <2>d DEF BeginInRedis, BeginSuccess, OpPc
  <2>2. ASSUME NEW o \in Op, ReadFailed(o) PROVE LockoutTypeOK'
    <3>1. Failed(lockout, op[o].at) \in Lock
      BY <2>a, <2>b, FailedRecord
    <3>2. op' \in [Op -> OpState]
      BY <2>2, <2>a, <3>1 DEF ReadFailed, OpState
    <3> QED BY <2>2, <2>a, <2>c, <3>2 DEF ReadFailed
  <2>3. ASSUME NEW o \in Op, WriteFailed(o) PROVE LockoutTypeOK'
    <3>1. op' \in [Op -> OpState]
      BY <2>3, <2>a DEF WriteFailed, OpState
    <3> QED BY <2>3, <2>b, <2>c, <2>f, <3>1 DEF WriteFailed
  <2>4. ASSUME NEW o \in Op,
              ReadStatus(o) \/ Drop(o) \/ Clear(o) \/ ReadSweep(o) \/ OpThrows(o)
        PROVE  LockoutTypeOK'
    <3>1. \E pc \in OpPc : Becomes(o, pc)
      BY <2>4 DEF ReadStatus, Drop, Clear, ReadSweep, OpThrows, OpPc
    <3>2. op' \in [Op -> OpState]
      BY <2>e, <3>1
    <3> QED BY <2>4, <2>a, <2>c, <3>2 DEF ReadStatus, Drop, Clear, ReadSweep, OpThrows
  <2>5. ASSUME NEW o \in Op, FailInMemory(o) PROVE LockoutTypeOK'
    <3>1. Failed(lockout, now) \in Lock
      BY <2>a, FailedRecord
    <3>2. lockout' \in Lock /\ heldUntil' \in Nat
      BY <2>5, <2>f, <3>1 DEF FailInMemory
    <3>3. op' \in [Op -> OpState]
      BY <2>5, <2>d DEF FailInMemory, OpPc
    <3> QED BY <2>5, <2>c, <3>2, <3>3 DEF FailInMemory
  <2>6. ASSUME NEW o \in Op, SuccessInMemory(o) \/ StatusInMemory(o) \/ SweepInMemory(o)
        PROVE  LockoutTypeOK'
    <3>1. \E pc \in OpPc : Called(o, pc)
      BY <2>6 DEF SuccessInMemory, StatusInMemory, SweepInMemory, OpPc
    <3>2. op' \in [Op -> OpState]
      BY <2>d, <3>1
    <3> QED BY <2>6, <2>a, <2>c, <3>2 DEF SuccessInMemory, StatusInMemory, SweepInMemory
  <2>7. CASE LockoutTick
    BY <2>7 DEF LockoutTick, Tick, accountVars, LockoutTypeOK, StorageTypeOK
  <2>8. CASE UNCHANGED lockoutVars
    BY <2>8, <2>a, <2>c DEF lockoutVars, accountVars
  <2> QED BY <2>1, <2>2, <2>3, <2>4, <2>5, <2>6, <2>7, <2>8 DEF LockoutNext
<1> QED BY <1>1, <1>2, PTL DEF LockoutSpec

\* The invariant that makes a lock hold is inductive.
THEOREM LockInvariantKept == LockoutSpec => []LockKept
<1>1. LockoutInit => LockKept
  BY LockoutAssumption
     DEF LockoutInit, LockKept, Earned, StorageInit, NoLock, NoOp, Running
<1>2. LockoutTypeOK /\ LockKept /\ [LockoutNext]_lockoutVars => LockKept'
  <2> SUFFICES ASSUME LockoutTypeOK, LockKept, [LockoutNext]_lockoutVars
               PROVE  LockKept'
    OBVIOUS
  <2>a. /\ now \in Nat /\ lockout \in Lock /\ heldUntil \in Nat
        /\ op \in [Op -> OpState] /\ Earned(NoLock) /\ NoOp.at = 0 /\ NoOp.lock = NoLock
    BY LockoutAssumption DEF LockoutTypeOK, StorageTypeOK, Earned, NoLock, NoOp
  <2>b. ASSUME NEW o \in Op PROVE op[o].at \in Nat /\ op[o].lock \in Lock /\ op[o].at <= now
    BY <2>a DEF OpState, LockKept
  \* A status check or a cleanup reads a lock that holds and leaves it.
  <2>c. ASSUME NEW at \in Nat, at <= now, now < heldUntil
        PROVE  /\ Locked(lockout, at) /\ ~Outdated(lockout, at)
               /\ ~(lockout.lockedUntil < at)
    BY <2>a, <2>c, LockoutAssumption DEF LockKept, Lasts, Locked, Outdated, Lock
  \* What a failed attempt makes of a lock that holds lasts as long.
  <2>d. ASSUME NEW at \in Nat, at <= now, now < heldUntil, heldUntil <= at + LockSpan
        PROVE  Lasts(Failed(lockout, at), heldUntil)
    <3>1. /\ lockout.count \in Nat /\ lockout.count >= MaxFailed /\ lockout.count # 0
          /\ ~(lockout.firstAttempt + ResetSpan < at)
          /\ heldUntil <= lockout.firstAttempt + ResetSpan
      BY <2>a, <2>d, LockoutAssumption DEF LockKept, Lasts, Lock
    <3>2. Failed(lockout, at) = [count        |-> lockout.count + 1,
                                 firstAttempt |-> lockout.firstAttempt,
                                 lockedUntil  |-> at + LockSpan]
      BY <3>1, LockoutAssumption DEF Failed
    <3> QED BY <3>1, <3>2, <2>d, LockoutAssumption DEF Lasts
  <2>1. ASSUME NEW o \in Op, BeginInRedis(o) \/ BeginSuccess(o) PROVE LockKept'
    <3>1. PICK pc \in {"fail", "status", "sweep", "clear"} : Called(o, pc)
      BY <2>1 DEF BeginInRedis, BeginSuccess
    <3>2. /\ \A p \in Op \ {o} : op'[p] = op[p]
          /\ op'[o].pc = pc /\ op'[o].at = now /\ op'[o].lock = op[o].lock
      BY <3>1, <2>a DEF Called, OpState
    <3>3. redis /\ UNCHANGED <<now, redis, lockout, heldUntil>>
      BY <2>1 DEF BeginInRedis, BeginSuccess
    <3>4. now < heldUntil => heldUntil <= now + LockSpan
      BY DEF LockKept
    <3> QED BY <3>2, <3>3, <3>4, <2>a DEF LockKept, Earned, SparesLock
  <2>2. ASSUME NEW o \in Op, ReadFailed(o) PROVE LockKept'
    <3> DEFINE lock == Failed(lockout, op[o].at)
    <3>1. /\ \A p \in Op \ {o} : op'[p] = op[p]
          /\ op'[o].pc = "write" /\ op'[o].at = op[o].at /\ op'[o].lock = lock
      BY <2>2, <2>a DEF ReadFailed, OpState
    <3>2. redis /\ UNCHANGED <<now, redis, lockout, heldUntil>>
      BY <2>2 DEF ReadFailed, LockKept, Running
    <3>3. Earned(lock)
      BY <2>a, <2>b, FailedRecord DEF LockKept, Earned
    <3>4. now < heldUntil => Lasts(lock, heldUntil)
      BY <2>2, <2>b, <2>d DEF ReadFailed, LockKept, SparesLock
    <3> HIDE DEF lock
    <3> QED BY <3>1, <3>2, <3>3, <3>4, <2>b DEF LockKept, Earned, SparesLock
  <2>e. ASSUME NEW o \in Op, NEW lock \in Lock, Saved(o, lock), now' = now, Earned(lock),
               now < heldUntil => Lasts(lock, heldUntil)
        PROVE  /\ Earned(lockout)' /\ heldUntil' <= now + LockSpan
               /\ now < heldUntil' =>
                    /\ Lasts(lockout', heldUntil')
                    /\ \/ heldUntil' = heldUntil
                       \/ \A p \in Op \ {o} : SparesLock(p, heldUntil')
    <3> DEFINE until == HoldsUntil(lock)
    <3>1. lockout' = lock /\ lock.lockedUntil \in Nat /\ lock.firstAttempt + ResetSpan \in Nat
      BY <2>e, LockoutAssumption DEF Saved, Lock
    <3>2. /\ until \in Nat /\ until <= lock.lockedUntil
          /\ until <= lock.firstAttempt + ResetSpan
      BY <3>1 DEF HoldsUntil
    <3>3. now < until => Lasts(lock, until)
      BY <2>a, <2>e, <3>1, <3>2 DEF Earned, Lasts
    <3>4. until <= now + LockSpan /\ heldUntil <= now + LockSpan /\ Earned(lockout)'
      BY <2>a, <2>e, <3>1, <3>2, LockoutAssumption DEF Earned, LockKept
    <3>5. heldUntil' = heldUntil \/ heldUntil' = until
      BY <2>a, <2>e, <3>2 DEF Saved, Later
    <3>6. heldUntil' # heldUntil => \A p \in Op \ {o} : SparesLock(p, until)
      BY <2>e DEF Saved
    <3> HIDE DEF until
    <3> QED BY <2>e, <3>1, <3>3, <3>4, <3>5, <3>6
  <2>3. ASSUME NEW o \in Op, WriteFailed(o) PROVE LockKept'
    <3>1. /\ \A p \in Op \ {o} : op'[p] = op[p]
          /\ op'[o].pc = "status" /\ op'[o].at = now /\ op'[o].lock = NoLock
      BY <2>3, <2>a DEF WriteFailed, OpState
    <3>2. redis /\ UNCHANGED <<now, redis>>
      BY <2>3 DEF WriteFailed, LockKept, Running
    <3>3. /\ Earned(lockout)' /\ heldUntil' <= now + LockSpan
          /\ now < heldUntil' =>
               /\ Lasts(lockout', heldUntil')
               /\ \/ heldUntil' = heldUntil
                  \/ \A p \in Op \ {o} : SparesLock(p, heldUntil')
      BY <2>3, <2>b, <2>e, <3>2 DEF WriteFailed, LockKept, SparesLock
    <3>4. now < heldUntil' => \A p \in Op \ {o} : SparesLock(p, heldUntil')
      BY <3>3 DEF LockKept
    <3>5. now < heldUntil' => \A p \in Op : SparesLock(p, heldUntil)'
      BY <3>1, <3>4 DEF SparesLock
    <3> QED BY <3>1, <3>2, <3>3, <3>5, <2>a DEF LockKept, Earned
  <2>4. ASSUME NEW o \in Op,
              ReadStatus(o) \/ Drop(o) \/ Clear(o) \/ ReadSweep(o) \/ OpThrows(o)
        PROVE  LockKept'
    <3>1. PICK pc \in {"locked", "drop", "free", "done"} :
            /\ Becomes(o, pc)
            /\ pc = "drop" => ~(now < heldUntil) /\ op[o].pc \in {"status", "sweep"}
      BY <2>4, <2>b, <2>c DEF ReadStatus, Drop, Clear, ReadSweep, OpThrows
    <3>2. /\ \A p \in Op \ {o} : op'[p] = op[p]
          /\ op'[o].pc = pc
          /\ op'[o].at \in {op[o].at, 0} /\ op'[o].lock \in {op[o].lock, NoLock}
      BY <3>1, <2>a DEF Becomes, OpState, Running, NoOp
    <3>3. UNCHANGED <<now, redis>>
      BY <2>4 DEF ReadStatus, Drop, Clear, ReadSweep, OpThrows
    <3>4. /\ op'[o].at <= now /\ Earned(op'[o].lock) /\ (pc = "drop" => redis)
          /\ pc \notin {"fail", "write"} /\ (pc # "drop" => pc \notin Running)
      BY <3>1, <3>2, <2>a, <2>b DEF LockKept, Running
    <3>5. CASE UNCHANGED <<lockout, heldUntil>>
      BY <3>1, <3>2, <3>3, <3>4, <3>5 DEF LockKept, Earned, SparesLock
    <3>6. CASE lockout' = NoLock /\ heldUntil' = heldUntil /\ ~(now < heldUntil)
      BY <3>1, <3>2, <3>3, <3>4, <3>6, <2>a DEF LockKept, Earned
    <3>7. CASE lockout' = NoLock /\ heldUntil' = 0
      BY <3>1, <3>2, <3>3, <3>4, <3>7, <2>a, LockoutAssumption DEF LockKept, Earned
    <3> QED BY <2>4, <3>5, <3>6, <3>7
               DEF ReadStatus, Drop, Clear, ReadSweep, OpThrows, LockKept, SparesLock
  <2>5. ASSUME NEW o \in Op, FailInMemory(o) PROVE LockKept'
    <3> DEFINE lock == Failed(lockout, now)
    <3>1. ~redis /\ UNCHANGED <<now, redis>> /\ Saved(o, lock)
      BY <2>5 DEF FailInMemory
    <3>2. \A p \in Op : op[p].pc \notin Running
      BY <3>1 DEF LockKept
    <3>3. lock \in Lock /\ Earned(lock)
      BY <2>a, FailedRecord DEF LockKept, Earned
    <3>7. now < heldUntil => Lasts(lock, heldUntil)
      BY <2>a, <2>d DEF LockKept
    <3> HIDE DEF lock
    <3>4. /\ Earned(lockout)' /\ heldUntil' <= now + LockSpan
          /\ now < heldUntil' => Lasts(lockout', heldUntil')
      BY <2>e, <3>1, <3>3, <3>7
    <3>5. PICK pc \in {"locked", "free"} : Called(o, pc)
      BY <2>5 DEF FailInMemory
    <3>6. /\ \A p \in Op \ {o} : op'[p] = op[p]
          /\ op'[o].pc = pc /\ op'[o].at = now /\ op'[o].lock = op[o].lock
      BY <3>5, <2>a DEF Called, OpState
    <3> QED BY <3>1, <3>2, <3>4, <3>6, <2>a DEF LockKept, Earned, SparesLock, Running
  <2>6. ASSUME NEW o \in Op, SuccessInMemory(o) \/ StatusInMemory(o) \/ SweepInMemory(o)
        PROVE  LockKept'
    <3>1. PICK pc \in {"locked", "free", "done"} : Called(o, pc)
      BY <2>6 DEF SuccessInMemory, StatusInMemory, SweepInMemory
    <3>2. /\ \A p \in Op \ {o} : op'[p] = op[p]
          /\ op'[o].pc = pc /\ op'[o].at = now /\ op'[o].lock = op[o].lock
      BY <3>1, <2>a DEF Called, OpState
    <3>3. UNCHANGED <<now, redis>>
      BY <2>6 DEF SuccessInMemory, StatusInMemory, SweepInMemory
    <3>4. CASE UNCHANGED <<lockout, heldUntil>>
      BY <3>2, <3>3, <3>4, <2>a DEF LockKept, Earned, SparesLock, Running
    <3>5. CASE lockout' = NoLock /\ heldUntil' = heldUntil /\ ~(now < heldUntil)
      BY <3>2, <3>3, <3>5, <2>a DEF LockKept, Earned, Running
    <3>6. CASE lockout' = NoLock /\ heldUntil' = 0
      BY <3>2, <3>3, <3>6, <2>a, LockoutAssumption DEF LockKept, Earned, Running
    <3> QED BY <2>6, <3>4, <3>5, <3>6, <2>a, <2>c
               DEF SuccessInMemory, StatusInMemory, SweepInMemory
  <2>7. CASE LockoutTick
    BY <2>7, <2>a, <2>b, LockoutAssumption
       DEF LockoutTick, Tick, accountVars, LockKept, Earned, SparesLock, Lock
  <2>8. CASE UNCHANGED lockoutVars
    BY <2>8 DEF lockoutVars, accountVars, LockKept, Earned, SparesLock
  <2> QED BY <2>1, <2>2, <2>3, <2>4, <2>5, <2>6, <2>7, <2>8 DEF LockoutNext
<1> QED BY <1>1, <1>2, LockoutTyped, PTL DEF LockoutSpec

\* Nobody is told that an account is free while its lock holds.
THEOREM LocksHold == LockoutSpec => LockHolds
<1>1. LockoutTypeOK /\ LockKept /\ LockKept' /\ [LockoutNext]_lockoutVars =>
        [\A o \in Op : op[o].pc # "free" /\ op'[o].pc = "free" =>
           heldUntil' <= now]_lockoutVars
  <2> SUFFICES ASSUME LockoutTypeOK, LockKept, LockKept', LockoutNext,
                      NEW o \in Op, op[o].pc # "free", op'[o].pc = "free"
               PROVE  heldUntil' <= now
    OBVIOUS
  <2>a. /\ now \in Nat /\ lockout \in Lock /\ heldUntil \in Nat
        /\ op \in [Op -> OpState]
    BY DEF LockoutTypeOK, StorageTypeOK
  <2>b. ASSUME NEW at \in Nat, at <= now, ~Locked(lockout, at) PROVE heldUntil <= now
    BY <2>a, <2>b DEF LockKept, Lasts, Locked, Lock
  <2>c. PICK p \in Op :
          \/ BeginInRedis(p) \/ BeginSuccess(p)
          \/ ReadFailed(p) \/ WriteFailed(p) \/ ReadStatus(p) \/ Drop(p)
          \/ Clear(p) \/ ReadSweep(p) \/ OpThrows(p)
          \/ FailInMemory(p) \/ SuccessInMemory(p) \/ StatusInMemory(p)
          \/ SweepInMemory(p)
    BY DEF LockoutNext, LockoutTick, accountVars
  <2>d. ASSUME NEW pc \in OpPc, Called(p, pc) \/ Becomes(p, pc) PROVE p = o /\ pc = "free"
    BY <2>a, <2>d DEF Called, Becomes, OpState, NoOp, Running, OpPc
  <2>1. CASE BeginInRedis(p) \/ BeginSuccess(p)
    BY <2>1, <2>d DEF BeginInRedis, BeginSuccess, OpPc
  <2>2. CASE ReadFailed(p) \/ WriteFailed(p)
    BY <2>2, <2>a DEF ReadFailed, WriteFailed, OpState
  <2>3. CASE ReadStatus(p)
    <3>1. ~Locked(lockout, op[p].at)
      BY <2>3, <2>d DEF ReadStatus, OpPc
    <3> QED BY <2>3, <3>1, <2>a, <2>b DEF ReadStatus, LockKept, OpState
  <2>4. CASE Drop(p)
    BY <2>4, <2>a DEF Drop, LockKept, SparesLock
  <2>5. CASE Clear(p) \/ ReadSweep(p) \/ OpThrows(p)
    BY <2>5, <2>d DEF Clear, ReadSweep, OpThrows, OpPc
  <2>6. CASE FailInMemory(p)
    <3>1. Failed(lockout, now) \in Lock /\ ~Locked(Failed(lockout, now), now)
      BY <2>6, <2>a, <2>d, FailedRecord DEF FailInMemory, OpPc
    <3>2. lockout' = Failed(lockout, now) /\ now' = now
      BY <2>6 DEF FailInMemory, Saved
    <3>3. heldUntil' \in Nat
      BY <2>6, <2>a, <3>1, LockoutAssumption DEF FailInMemory, Saved, Later, HoldsUntil, Lock
    <3>4. now < heldUntil' => heldUntil' <= lockout'.lockedUntil
      BY <3>2 DEF LockKept, Lasts
    <3> QED BY <3>1, <3>2, <3>3, <3>4, <2>a DEF Locked, Lock
  <2>7. CASE StatusInMemory(p)
    <3>1. ~Locked(lockout, now)
      BY <2>7, <2>d DEF StatusInMemory, OpPc
    <3> QED BY <2>7, <3>1, <2>a, <2>b DEF StatusInMemory
  <2>8. CASE SuccessInMemory(p) \/ SweepInMemory(p)
    BY <2>8, <2>d DEF SuccessInMemory, SweepInMemory, OpPc
  <2> QED BY <2>c, <2>1, <2>2, <2>3, <2>4, <2>5, <2>6, <2>7, <2>8
<1> QED BY <1>1, LockoutTyped, LockInvariantKept, PTL DEF LockoutSpec, LockHolds

-----------------------------------------------------------------------------
(* The request windows.                                                    *)

CallPc == {"idle", "find", "touch", "get", "increment", "ttl", "put", "set",
           "admitted", "limited", "refused", "lost"}

\* The records windows are made of are records.
LEMMA WindowRecords ==
  ASSUME RateTypeOK, NEW i \in Id, NEW at \in Nat, NEW record \in Record, NEW ttl \in Nat
  PROVE  /\ Found(i) \in Record /\ Found(i) \in {window[i], NoRecord}
         /\ Starts(i, at) \in Record
         /\ [record EXCEPT !.count = @ + 1] \in Record
         /\ [record EXCEPT !.expiresAt = now + ttl] \in Record
<1> USE RateAssumption DEF RateTypeOK, StorageTypeOK, Record
<1>1. Found(i) \in Record /\ Found(i) \in {window[i], NoRecord}
  BY DEF Found, NoRecord
<1>2. at + WindowSpan \in Nat /\ now + WindowSpan \in Nat /\ now + ttl \in Nat
      /\ record.count + 1 \in Nat
  OBVIOUS
<1>3. Starts(i, at) \in Record
  BY <1>2 DEF Starts
<1> QED BY <1>1, <1>2, <1>3

\* What the calls may become, and what the storage.
LEMMA CallMoves ==
  ASSUME RateTypeOK, NEW c \in Call, NEW pc \in CallPc, Goes(c, pc),
         pc \in {"find", "touch"} => call[c].id \in Key,
         call[c].id \in Id
  PROVE  /\ call' \in [Call -> CallState]
         /\ \A d \in Call : call'[d].pc # "idle" => call'[d].id \in Id
         /\ \A d \in Call : call'[d].pc \in {"find", "touch"} => call'[d].id \in Key
  BY DEF RateTypeOK, Goes, CallState, CallPc

\* A window that is stored, and the count of its call, have their types.
LEMMA Storing ==
  ASSUME RateTypeOK, NEW c \in Call, NEW i \in Id, NEW record \in Record,
         Stores(c, i, record)
  PROVE  window' \in [Id -> Record] /\ counted' \in [Call -> Count]
  BY DEF RateTypeOK, Stores, Record, Count

\* Looking at a window, in memory or by asking Redis, keeps the types.
LEMMA Beginning ==
  ASSUME RateTypeOK, NEW c \in Call, NEW i \in Id, BeginWindow(c, i)
  PROVE  /\ window' \in [Id -> Record] /\ counted' \in [Call -> Count]
         /\ \E pc \in {"get", "admitted", "limited"} :
              call' = [call EXCEPT ![c] = [@ EXCEPT !.pc = pc, !.id = i, !.at = now]]
         /\ call' \in [Call -> CallState]
         /\ \A d \in Call : call'[d].pc # "idle" => call'[d].id \in Id
         /\ \A d \in Call : call'[d].pc \in {"find", "touch"} => call'[d].id \in Key
<1>1. PICK pc \in {"get", "admitted", "limited"} :
        call' = [call EXCEPT ![c] = [@ EXCEPT !.pc = pc, !.id = i, !.at = now]]
  BY DEF BeginWindow
<1>2. /\ call' \in [Call -> CallState]
      /\ \A d \in Call : call'[d].pc # "idle" => call'[d].id \in Id
      /\ \A d \in Call : call'[d].pc \in {"find", "touch"} => call'[d].id \in Key
  BY <1>1 DEF RateTypeOK, StorageTypeOK, CallState
<1>3. /\ window[i] \in Record /\ now \in Nat
      /\ [window[i] EXCEPT !.count = @ + 1] \in Record /\ Starts(i, now) \in Record
  BY WindowRecords DEF RateTypeOK, StorageTypeOK
<1>4. \/ UNCHANGED <<window, counted>>
      \/ Stores(c, i, [window[i] EXCEPT !.count = @ + 1])
      \/ Stores(c, i, Starts(i, now))
  BY DEF BeginWindow
<1>5. window' \in [Id -> Record] /\ counted' \in [Call -> Count]
  BY <1>3, <1>4, Storing DEF RateTypeOK
<1> QED BY <1>1, <1>2, <1>5

\* The windows and what calls hold of them keep their types; a time to live is never
\* below zero (api-auth.middleware.ts:16-52, redis-storage.ts:20-41).
THEOREM RateTyped == RateSpec => []RateTypeOK
<1>1. RateInit => RateTypeOK
  BY DEF RateInit, RateTypeOK, StorageInit, StorageTypeOK, NoRecord, Record, NoCall,
         CallState, Count, Uncounted
<1>2. RateTypeOK /\ [RateNext]_rateVars => RateTypeOK'
  <2> SUFFICES ASSUME RateTypeOK, [RateNext]_rateVars
               PROVE  RateTypeOK'
    OBVIOUS
  <2>a. ASSUME NEW c \in Call
        PROVE  /\ call[c] \in CallState /\ call[c].at \in Nat /\ call[c].ttl \in Nat
               /\ call[c].record \in Record
               /\ call[c].pc # "idle" => call[c].id \in Id
    BY DEF RateTypeOK, CallState
  <2>b. ASSUME UNCHANGED <<now, redis, life>>, UNCHANGED keyRow,
               window' \in [Id -> Record], counted' \in [Call -> Count],
               call' \in [Call -> CallState],
               \A d \in Call : call'[d].pc # "idle" => call'[d].id \in Id,
               \A d \in Call : call'[d].pc \in {"find", "touch"} => call'[d].id \in Key
        PROVE  RateTypeOK'
    BY <2>b DEF RateTypeOK, StorageTypeOK
  <2>1. ASSUME NEW c \in Call, NEW k \in Key, ReceiveKey(c, k) PROVE RateTypeOK'
    BY <2>1 DEF ReceiveKey, RateTypeOK, StorageTypeOK, CallState, Id
  <2>2. ASSUME NEW c \in Call, NEW i \in Address, ReceiveReport(c, i) PROVE RateTypeOK'
    BY <2>2, <2>b, Beginning DEF ReceiveReport, Id
  <2>3. ASSUME NEW c \in Call, FindKey(c) PROVE RateTypeOK'
    <3>1. call[c].id \in Id /\ call[c].id \in Key
      BY <2>3 DEF FindKey, RateTypeOK
    <3> QED BY <2>3, <2>b, <3>1, CallMoves DEF FindKey, CallPc, RateTypeOK
  <2>4. ASSUME NEW c \in Call, TouchKey(c) PROVE RateTypeOK'
    BY <2>4, <2>a, <2>b, Beginning DEF TouchKey
  <2>5. ASSUME NEW c \in Call, GetWindow(c) \/ StorageThrows(c) PROVE RateTypeOK'
    <3>1. PICK pc \in {"set", "limited", "increment", "admitted"} : Goes(c, pc)
      BY <2>5 DEF GetWindow, StorageThrows
    <3>2. call[c].id \in Id /\ UNCHANGED <<now, redis, keyRow, window, counted, life>>
      BY <2>5, <2>a DEF GetWindow, StorageThrows
    <3> QED BY <2>b, <3>1, <3>2, CallMoves DEF CallPc, RateTypeOK
  <2>6. ASSUME NEW c \in Call, ReadToIncrement(c) PROVE RateTypeOK'
    <3> DEFINE record == Found(call[c].id)
    <3>1. call[c].id \in Id
      BY <2>6, <2>a DEF ReadToIncrement
    <3>2. record \in Record /\ [record EXCEPT !.count = @ + 1] \in Record
      <4>1. record \in Record
        BY <2>a, <3>1, WindowRecords
      <4> HIDE DEF record
      <4> QED BY <2>a, <3>1, <4>1, WindowRecords
    <3>3. CASE Goes(c, "admitted")
      BY <2>6, <2>b, <3>1, <3>3, CallMoves DEF ReadToIncrement, CallPc, RateTypeOK
    <3>4. CASE call' = [call EXCEPT ![c] = [@ EXCEPT !.pc = "ttl",
                          !.record = [record EXCEPT !.count = @ + 1]]]
      <4> DEFINE more == [record EXCEPT !.count = @ + 1]
      <4>1. more \in Record /\ call' = [call EXCEPT ![c] = [@ EXCEPT !.pc = "ttl",
                                                                     !.record = more]]
        BY <3>2, <3>4
      <4> HIDE DEF more
      <4>2. /\ call' \in [Call -> CallState]
            /\ \A d \in Call : call'[d].pc # "idle" => call'[d].id \in Id
            /\ \A d \in Call : call'[d].pc \in {"find", "touch"} => call'[d].id \in Key
        BY <3>1, <4>1 DEF RateTypeOK, CallState
      <4> QED BY <2>6, <2>b, <4>2 DEF ReadToIncrement, RateTypeOK
    <3> QED BY <2>6, <3>3, <3>4 DEF ReadToIncrement
  <2>7. ASSUME NEW c \in Call, ReadTtl(c) PROVE RateTypeOK'
    <3>1. call[c].id \in Id
      BY <2>7, <2>a DEF ReadTtl
    <3>2. CASE Goes(c, "admitted")
      BY <2>7, <2>b, <3>1, <3>2, CallMoves DEF ReadTtl, CallPc, RateTypeOK
    <3>3. CASE ~Goes(c, "admitted")
      <4>1. PICK ttl \in Nat : call' = [call EXCEPT ![c] = [@ EXCEPT !.pc = "put",
                                                                     !.ttl = ttl]]
        <5> DEFINE ttl == window[call[c].id].expiresAt - now
        <5>1. ttl \in Nat
          BY <2>7, <3>1, <3>3 DEF ReadTtl, RateTypeOK, StorageTypeOK, Record
        <5>2. call' = [call EXCEPT ![c] = [@ EXCEPT !.pc = "put", !.ttl = ttl]]
          BY <2>7, <3>3 DEF ReadTtl
        <5> QED BY <5>1, <5>2
      <4>2. /\ call' \in [Call -> CallState]
            /\ \A d \in Call : call'[d].pc # "idle" => call'[d].id \in Id
            /\ \A d \in Call : call'[d].pc \in {"find", "touch"} => call'[d].id \in Key
        BY <3>1, <4>1 DEF RateTypeOK, CallState
      <4> QED BY <2>7, <2>b, <4>2 DEF ReadTtl, RateTypeOK
    <3> QED BY <3>2, <3>3
  <2>8. ASSUME NEW c \in Call, PutWindow(c) PROVE RateTypeOK'
    <3>1. call[c].id \in Id
      BY <2>8, <2>a DEF PutWindow
    <3>2. [call[c].record EXCEPT !.expiresAt = now + call[c].ttl] \in Record
      BY <2>a, <3>1, WindowRecords
    <3> QED BY <2>8, <2>b, <3>1, <3>2, CallMoves, Storing DEF PutWindow, CallPc
  <2>9. ASSUME NEW c \in Call, SetWindow(c) PROVE RateTypeOK'
    <3>1. call[c].id \in Id
      BY <2>9, <2>a DEF SetWindow
    <3>2. Starts(call[c].id, call[c].at) \in Record
      BY <2>a, <3>1, WindowRecords
    <3> QED BY <2>9, <2>b, <3>1, <3>2, CallMoves, Storing DEF SetWindow, CallPc
  <2>10. ASSUME NEW c \in Call, NEW served, Dies(c, served) PROVE RateTypeOK'
    <3>1. NoRecord \in Record
      BY DEF NoRecord, Record
    <3>2. window' \in [Id -> Record]
      BY <2>10, <3>1 DEF Dies, RateTypeOK
    <3>3. \A d \in Call : call'[d] \in {call[d], [call[d] EXCEPT !.pc = "lost"]}
      BY <2>10 DEF Dies
    <3>4. ASSUME NEW d \in Call
          PROVE  /\ call'[d] \in CallState
                 /\ call'[d].pc # "idle" => call'[d].id \in Id
                 /\ call'[d].pc \in {"find", "touch"} => call'[d].id \in Key
      <4>1. CASE call'[d] = call[d]
        BY <4>1 DEF RateTypeOK
      <4>2. CASE call'[d] # call[d]
        <5>1. call[d].pc # "idle" /\ call'[d] = [call[d] EXCEPT !.pc = "lost"]
          BY <2>10, <4>2 DEF Dies
        <5> QED BY <5>1, <2>a DEF CallState
      <4> QED BY <4>1, <4>2
    <3>5. call' \in [Call -> CallState]
      BY <2>10, <3>4 DEF Dies
    <3> QED BY <2>10, <3>2, <3>4, <3>5 DEF Dies, RateTypeOK, StorageTypeOK
  <2>11. ASSUME NEW k \in Key, Revoke(k) \/ RemoveOwner(k) PROVE RateTypeOK'
    BY <2>11 DEF Revoke, RemoveOwner, RateTypeOK, StorageTypeOK
  <2>12. CASE RateTick
    BY <2>12 DEF RateTick, Tick, windowVars, RateTypeOK, StorageTypeOK
  <2>13. CASE UNCHANGED rateVars
    BY <2>13 DEF rateVars, windowVars, RateTypeOK, StorageTypeOK
  <2> QED
    BY <2>1, <2>2, <2>3, <2>4, <2>5, <2>6, <2>7, <2>8, <2>9, <2>10, <2>11, <2>12, <2>13
       DEF RateNext
<1> QED BY <1>1, <1>2, PTL DEF RateSpec

-----------------------------------------------------------------------------
(* Nobody is refused early.                                                *)

\* A step that counts no call leaves those that are over, and what they are
\* counted in, as they are.
Quiet ==
    /\ counted' = counted /\ now <= now' /\ now' \in Nat
    /\ \A d \in Call :
         call[d].pc \in Over => /\ call'[d].id = call[d].id /\ call'[d].pc = call[d].pc
                               /\ call'[d].at = call[d].at

\* A step that counts call c, of i, in a window.
Counts(c, i, record) ==
    /\ Stores(c, i, record)
    /\ call[c].pc \notin Over
    /\ now' = now /\ life' = life /\ redis' = redis
    /\ call'[c].pc = "admitted" /\ call'[c].id = i /\ call'[c].at <= now
    /\ \A d \in Call \ {c} : call'[d] = call[d]

\* The window of a call that was counted is never taken from it.
LEMMA CountsGrow ==
  ASSUME RateTypeOK, RecordsBacked, NEW i \in Id, NEW t \in Nat, t > 0,
         \/ Quiet
         \/ \E c \in Call, j \in Id, record \in Record : Counts(c, j, record)
  PROVE  /\ Cardinality(CountedIn(i, t)) \in Nat
         /\ Cardinality(CountedIn(i, t))' \in Nat
         /\ Cardinality(CountedIn(i, t)) <= Cardinality(CountedIn(i, t))'
<1>1. IsFiniteSet(Call) /\ CountedIn(i, t) \subseteq Call /\ CountedIn(i, t)' \subseteq Call
  BY RateAssumption DEF CountedIn
<1>2. IsFiniteSet(CountedIn(i, t)') /\ Cardinality(CountedIn(i, t)') \in Nat
  BY <1>1, FS_Subset, FS_CardinalityType
<1>3. CountedIn(i, t) \subseteq CountedIn(i, t)'
  <2> SUFFICES ASSUME NEW d \in CountedIn(i, t) PROVE d \in CountedIn(i, t)'
    OBVIOUS
  <2>1. d \in Call /\ call[d].id = i /\ counted[d].resetAt = t /\ call[d].pc \in Over
    BY DEF CountedIn, RecordsBacked, Uncounted
  <2>2. CASE Quiet
    BY <2>1, <2>2 DEF Quiet, CountedIn
  <2>3. CASE \E c \in Call, j \in Id, record \in Record : Counts(c, j, record)
    BY <2>1, <2>3 DEF Counts, Stores, CountedIn, RateTypeOK
  <2> QED BY <2>2, <2>3
<1>4. Cardinality(CountedIn(i, t)) <= Cardinality(CountedIn(i, t)')
  BY <1>2, <1>3, FS_Subset
<1>5. Cardinality(CountedIn(i, t)) \in Nat
  BY <1>1, FS_Subset, FS_CardinalityType
<1> QED BY <1>2, <1>4, <1>5

\* The call that is counted makes it one more.
LEMMA CountsOneMore ==
  ASSUME RateTypeOK, RecordsBacked, NEW c \in Call, NEW i \in Id, NEW record \in Record,
         record.resetAt > 0, Counts(c, i, record)
  PROVE  Cardinality(CountedIn(i, record.resetAt))'
           = Cardinality(CountedIn(i, record.resetAt)) + 1
<1> DEFINE S == {d \in Call : call[d].id = i /\ counted[d].resetAt = record.resetAt}
<1>1. IsFiniteSet(S)
  BY RateAssumption, FS_Subset
<1>2. counted[c] = Uncounted /\ record.resetAt # 0
  BY DEF Counts, RecordsBacked, Record
<1>3. c \notin S
  BY <1>2 DEF Uncounted
<1>5. {d \in Call : call'[d].id = i /\ counted'[d].resetAt = record.resetAt} = S \cup {c}
  BY <1>3 DEF Counts, Stores, RateTypeOK
<1>6. Cardinality(S \cup {c}) = Cardinality(S) + 1
  BY <1>1, <1>3, FS_AddElement
<1> QED BY <1>5, <1>6 DEF CountedIn

\* How many requests a window counted is a natural number, before and after a step.
LEMMA CountedType ==
  ASSUME NEW i \in Id, NEW t \in Nat
  PROVE  Cardinality(CountedIn(i, t)) \in Nat /\ Cardinality(CountedIn(i, t))' \in Nat
<1>1. IsFiniteSet(Call) /\ CountedIn(i, t) \subseteq Call /\ CountedIn(i, t)' \subseteq Call
  BY RateAssumption DEF CountedIn
<1>2. IsFiniteSet(CountedIn(i, t)) /\ IsFiniteSet(CountedIn(i, t)')
  BY <1>1, FS_Subset
<1> QED BY <1>2, FS_CardinalityType

\* A record that is backed stays so, and one more call that is counted backs one more.
LEMMA BackedStays ==
  ASSUME RateTypeOK, RecordsBacked, NEW i \in Id, NEW record \in Record, NEW more \in Nat,
         Backed(i, record, more),
         \/ Quiet
         \/ \E c \in Call, j \in Id, r \in Record : Counts(c, j, r)
  PROVE  Backed(i, record, more)'
<1>1. /\ record.resetAt \in Nat /\ record.count \in Nat
      /\ now \in Nat /\ now' \in Nat /\ now <= now' /\ WindowSpan \in Nat
  BY RateAssumption DEF Record, Quiet, Counts, RateTypeOK, StorageTypeOK
<1>2. /\ Cardinality(CountedIn(i, record.resetAt)) \in Nat
      /\ Cardinality(CountedIn(i, record.resetAt))' \in Nat
  BY <1>1, CountedType
<1>3. CASE record.resetAt > 0
  <2>1. Cardinality(CountedIn(i, record.resetAt)) <= Cardinality(CountedIn(i, record.resetAt))'
    BY <1>1, <1>3, CountsGrow
  <2> QED BY <1>1, <1>2, <2>1 DEF Backed
<1>4. CASE ~(record.resetAt > 0)
  BY <1>1, <1>2, <1>4 DEF Backed
<1> QED BY <1>3, <1>4

\* What a step that counts no call leaves to show.
LEMMA QuietKeeps ==
  ASSUME RateTypeOK, RateTypeOK', RecordsBacked, Quiet,
         \/ window' = window
         \/ window' = [i \in Id |-> NoRecord],
         \A d \in Call :
           /\ call'[d].at <= now'
           /\ call'[d].pc = "idle" => call'[d].id = 0
           /\ call'[d].pc \notin Over => call[d].pc \notin Over
           /\ call'[d].pc \in {"ttl", "put"} => /\ call'[d].record.resetAt > 0
                                              /\ Backed(call'[d].id, call'[d].record, 1)
  PROVE  RecordsBacked'
<1>0. 0 \in Nat /\ 1 \in Nat
  OBVIOUS
<1>1. ASSUME NEW i \in Id PROVE Backed(i, window[i], 0)'
  <2>1. PICK record \in Record : record = window'[i]
    BY DEF RateTypeOK
  <2>2. Backed(i, record, 0)
    <3>1. CASE window' = window
      BY <2>1, <3>1 DEF RecordsBacked
    <3>2. CASE window' = [j \in Id |-> NoRecord]
      BY <2>1, <3>2, CountedType, RateAssumption
         DEF Backed, NoRecord, RateTypeOK, StorageTypeOK
    <3> QED BY <3>1, <3>2
  <2>3. Backed(i, record, 0)'
    BY <1>0, <2>2, BackedStays
  <2> QED BY <2>1, <2>3 DEF Backed
<1>2. ASSUME NEW d \in Call, call'[d].pc \in {"ttl", "put"}
      PROVE  Backed(call[d].id, call[d].record, 1)'
  <2>1. PICK i \in Id, record \in Record : i = call'[d].id /\ record = call'[d].record
    BY <1>2 DEF RateTypeOK, CallState
  <2>2. Backed(i, record, 1)'
    BY <1>0, <1>2, <2>1, BackedStays
  <2> QED BY <2>1, <2>2 DEF Backed
<1> QED BY <1>1, <1>2 DEF RecordsBacked, Quiet

\* What a step that counts a call leaves to show.
LEMMA CountingKeeps ==
  ASSUME RateTypeOK, RateTypeOK', RecordsBacked,
         NEW c \in Call, NEW i \in Id, NEW record \in Record, Counts(c, i, record),
         Backed(i, record, 1), record.resetAt > 0
  PROVE  RecordsBacked'
<1>0. 0 \in Nat /\ 1 \in Nat /\ Cardinality(CountedIn(i, record.resetAt)) \in Nat
  BY CountedType DEF Record
<1>1. Backed(i, record, 0)'
  <2>1. Cardinality(CountedIn(i, record.resetAt))'
          = Cardinality(CountedIn(i, record.resetAt)) + 1
    BY CountsOneMore
  <2> QED BY <1>0, <2>1 DEF Backed, Counts, Record
<1>2. ASSUME NEW j \in Id PROVE Backed(j, window[j], 0)'
  <2>1. CASE j = i
    BY <1>1, <2>1 DEF Counts, Stores, RateTypeOK, Backed
  <2>2. CASE j # i
    <3>1. PICK r \in Record : r = window[j] /\ r = window'[j]
      BY <2>2 DEF Counts, Stores, RateTypeOK
    <3>2. Backed(j, r, 0)'
      BY <1>0, <3>1, BackedStays DEF RecordsBacked
    <3> QED BY <3>1, <3>2 DEF Backed
  <2> QED BY <2>1, <2>2
<1>3. ASSUME NEW d \in Call
      PROVE  /\ call'[d].at <= now'
             /\ call'[d].pc = "idle" => call'[d].id = 0
             /\ call'[d].pc \notin Over => counted'[d] = Uncounted
             /\ call'[d].pc \in {"ttl", "put"} => /\ call'[d].record.resetAt > 0
                                                /\ Backed(call[d].id, call[d].record, 1)'
  <2>1. CASE d = c
    BY <2>1 DEF Counts, Over
  <2>2. CASE d # c
    <3>1. call'[d] = call[d] /\ counted'[d] = counted[d] /\ now' = now
      BY <2>2 DEF Counts, Stores, RateTypeOK
    <3>2. ASSUME call'[d].pc \in {"ttl", "put"}
          PROVE  call'[d].record.resetAt > 0 /\ Backed(call[d].id, call[d].record, 1)'
      <4>1. PICK j \in Id, r \in Record : j = call[d].id /\ r = call[d].record
        BY <3>1, <3>2 DEF RateTypeOK, CallState
      <4>2. Backed(j, r, 1)'
        BY <1>0, <3>1, <3>2, <4>1, BackedStays DEF RecordsBacked
      <4> QED BY <3>1, <3>2, <4>1, <4>2 DEF Backed, RecordsBacked
    <3> QED BY <3>1, <3>2 DEF RecordsBacked
  <2> QED BY <2>1, <2>2
<1> QED BY <1>2, <1>3 DEF RecordsBacked

\* Looking at a window in memory, or asking Redis for it.
LEMMA BeginningCounts ==
  ASSUME RateTypeOK, RecordsBacked, NEW c \in Call, NEW i \in Id, BeginWindow(c, i),
         call[c].pc \notin Over, UNCHANGED <<now, redis, life>>
  PROVE  \/ /\ Quiet /\ window' = window
            /\ \A d \in Call \ {c} : call'[d] = call[d]
            /\ call'[c].pc \in {"get", "limited"} /\ call'[c].at <= now
         \/ \E record \in Record : /\ Counts(c, i, record) /\ Backed(i, record, 1)
                                   /\ record.resetAt > 0
<1>1. PICK pc \in {"get", "admitted", "limited"} :
        call' = [call EXCEPT ![c] = [@ EXCEPT !.pc = pc, !.id = i, !.at = now]]
  BY Beginning
<1>2. /\ \A d \in Call \ {c} : call'[d] = call[d]
      /\ call'[c].pc = pc /\ call'[c].id = i /\ call'[c].at = now
      /\ now \in Nat /\ window[i] \in Record
  BY <1>1 DEF RateTypeOK, StorageTypeOK, CallState
<1> DEFINE full == window[i].resetAt > now /\ Full(window[i], i)
<1>a. redis => pc = "get" /\ UNCHANGED <<window, counted>>
  <2>1. redis => call' = [call EXCEPT ![c] = [@ EXCEPT !.pc = "get", !.id = i, !.at = now]]
    BY DEF BeginWindow
  <2>2. [call EXCEPT ![c] = [@ EXCEPT !.pc = "get", !.id = i, !.at = now]][c].pc = "get"
    BY DEF RateTypeOK, CallState
  <2> QED BY <1>2, <2>1, <2>2 DEF BeginWindow
<1>b. ~redis => pc = IF full THEN "limited" ELSE "admitted"
  <2>1. ~redis => call' = [call EXCEPT ![c] = [@ EXCEPT
                             !.pc = IF ~full THEN "admitted" ELSE "limited",
                             !.id = i, !.at = now]]
    BY DEF BeginWindow
  <2> HIDE DEF full
  <2>2. ~redis => call'[c].pc = IF ~full THEN "admitted" ELSE "limited"
    BY <2>1 DEF RateTypeOK, CallState
  <2> QED BY <1>2, <2>2
<1>c. ~redis /\ full => UNCHANGED <<window, counted>>
  BY DEF BeginWindow
<1>3. CASE UNCHANGED <<window, counted>> /\ pc # "admitted"
  BY <1>2, <1>3 DEF Quiet
<1>4. CASE pc = "admitted"
  <2> DEFINE more == [window[i] EXCEPT !.count = @ + 1]
  <2>1. more \in Record /\ Starts(i, now) \in Record
    BY <1>2, WindowRecords
  <2>2. Cardinality(CountedIn(i, now + WindowSpan)) \in Nat
        /\ Cardinality(CountedIn(i, window[i].resetAt)) \in Nat
    BY <1>2, CountedType, RateAssumption DEF Record
  <2>3. CASE Stores(c, i, more) /\ window[i].resetAt > now
    <3>1. Counts(c, i, more)
      BY <1>2, <1>4, <2>3 DEF Counts
    <3>2. Backed(i, window[i], 0)
      BY DEF RecordsBacked
    <3>3. /\ more.count = window[i].count + 1 /\ more.resetAt = window[i].resetAt
          /\ window[i].resetAt \in Nat /\ window[i].count \in Nat
      BY <1>2 DEF Record
    <3>4. Backed(i, more, 1) /\ more.resetAt > 0
      BY <1>2, <2>2, <2>3, <3>2, <3>3 DEF Backed
    <3> QED BY <2>1, <3>1, <3>4
  <2>4. CASE Stores(c, i, Starts(i, now))
    <3>1. Counts(c, i, Starts(i, now))
      BY <1>2, <1>4, <2>4 DEF Counts
    <3>2. Backed(i, Starts(i, now), 1) /\ Starts(i, now).resetAt > 0
      BY <1>2, <2>2, RateAssumption DEF Backed, Starts
    <3> QED BY <2>1, <3>1, <3>2
  <2>5. \/ Stores(c, i, more) /\ window[i].resetAt > now
        \/ Stores(c, i, Starts(i, now))
    <3>1. ~redis
      BY <1>4, <1>a
    <3>2. ~full
      BY <1>4, <1>b, <3>1
    <3> QED BY <3>1, <3>2 DEF BeginWindow
  <2> QED BY <2>3, <2>4, <2>5
<1> QED
  <2>1. pc # "admitted" => UNCHANGED <<window, counted>>
    BY <1>a, <1>b, <1>c
  <2> QED BY <1>3, <1>4, <2>1

\* What every step is.
Tame == Quiet \/ \E c \in Call, i \in Id, record \in Record : Counts(c, i, record)

\* Every step counts one call, or none, and leaves every record backed.
LEMMA RateStep ==
  ASSUME RateTypeOK, RateTypeOK', RecordsBacked, [RateNext]_rateVars
  PROVE  RecordsBacked' /\ Tame
<1>a. ASSUME NEW c \in Call
      PROVE  /\ call[c] \in CallState /\ call[c].at \in Nat /\ call[c].at <= now
             /\ call[c].record \in Record
             /\ call[c].pc # "idle" => call[c].id \in Id
             /\ now \in Nat /\ now + WindowSpan \in Nat
  BY RateAssumption DEF RateTypeOK, StorageTypeOK, CallState, RecordsBacked
\* A call goes on without a word about its window.
<1>b. ASSUME NEW c \in Call, call[c].pc \notin Over, UNCHANGED <<now, window, counted>>,
             \A d \in Call \ {c} : call'[d] = call[d],
             call'[c].pc # "idle", call'[c].at <= now,
             call'[c].pc \in {"ttl", "put"} => /\ call'[c].record.resetAt > 0
                                             /\ Backed(call'[c].id, call'[c].record, 1)
      PROVE  RecordsBacked' /\ Tame
  <2>1. Quiet
    BY <1>a, <1>b DEF Quiet
  <2> QED BY <1>b, <2>1, QuietKeeps DEF RecordsBacked, Tame
<1>c. ASSUME NEW c \in Call, NEW i \in Id, BeginWindow(c, i), call[c].pc \notin Over,
             UNCHANGED <<now, redis, life>>
      PROVE  RecordsBacked' /\ Tame
  <2>1. CASE /\ Quiet /\ window' = window
             /\ \A d \in Call \ {c} : call'[d] = call[d]
             /\ call'[c].pc \in {"get", "limited"} /\ call'[c].at <= now
    BY <1>b, <1>c, <2>1 DEF Quiet
  <2>2. CASE \E record \in Record : /\ Counts(c, i, record) /\ Backed(i, record, 1)
                                    /\ record.resetAt > 0
    BY <2>2, CountingKeeps DEF Tame
  <2> QED BY <1>c, <2>1, <2>2, BeginningCounts
<1>1. ASSUME NEW c \in Call, NEW k \in Key, ReceiveKey(c, k) PROVE RecordsBacked' /\ Tame
  <2>1. /\ call'[c].pc = "find" /\ call'[c].at <= now /\ call[c].pc \notin Over
        /\ \A d \in Call \ {c} : call'[d] = call[d]
    BY <1>1, <1>a DEF ReceiveKey, Over, RateTypeOK, CallState
  <2> QED BY <1>1, <1>b, <2>1 DEF ReceiveKey
<1>2. ASSUME NEW c \in Call, NEW i \in Address, ReceiveReport(c, i)
      PROVE  RecordsBacked' /\ Tame
  BY <1>2, <1>c DEF ReceiveReport, Id, Over
<1>3. ASSUME NEW c \in Call, FindKey(c) \/ GetWindow(c) \/ StorageThrows(c)
      PROVE  RecordsBacked' /\ Tame
  <2>1. PICK pc \in {"touch", "refused", "set", "limited", "increment", "admitted"} :
          Goes(c, pc)
    BY <1>3 DEF FindKey, GetWindow, StorageThrows
  <2>2. /\ call'[c].pc = pc /\ call'[c].at <= now
        /\ \A d \in Call \ {c} : call'[d] = call[d]
    BY <1>a, <2>1 DEF Goes, RateTypeOK, CallState
  <2>3. call[c].pc \notin Over /\ UNCHANGED <<now, window, counted>>
    BY <1>3 DEF FindKey, GetWindow, StorageThrows, Over
  <2> QED BY <1>b, <2>2, <2>3
<1>4. ASSUME NEW c \in Call, TouchKey(c) PROVE RecordsBacked' /\ Tame
  BY <1>4, <1>a, <1>c DEF TouchKey, Over
<1>5. ASSUME NEW c \in Call, ReadToIncrement(c) PROVE RecordsBacked' /\ Tame
  <2> DEFINE record == Found(call[c].id)
             more   == [record EXCEPT !.count = @ + 1]
  <2>1. call[c].id \in Id /\ call[c].pc \notin Over /\ UNCHANGED <<now, window, counted>>
    BY <1>5, <1>a DEF ReadToIncrement, Over
  <2>2. record \in Record /\ record \in {window[call[c].id], NoRecord}
    BY <1>a, <2>1, WindowRecords
  <2>3. CASE record.count = 0 /\ Goes(c, "admitted")
    <3>1. /\ call'[c].pc = "admitted" /\ call'[c].at <= now
          /\ \A d \in Call \ {c} : call'[d] = call[d]
      BY <1>a, <2>3 DEF Goes, RateTypeOK, CallState
    <3> QED BY <1>b, <2>1, <3>1
  <2>4. CASE record.count # 0 /\ call' = [call EXCEPT ![c] = [@ EXCEPT !.pc = "ttl",
                                                                    !.record = more]]
    <3>1. record = window[call[c].id]
      BY <2>2, <2>4 DEF NoRecord
    <3>2. Backed(call[c].id, record, 0)
      BY <2>1, <3>1 DEF RecordsBacked
    <3> HIDE DEF record
    <3>3. more.count = record.count + 1 /\ more.resetAt = record.resetAt
      BY <2>2 DEF Record
    <3>4. Cardinality(CountedIn(call[c].id, record.resetAt)) \in Nat
      BY <2>1, <2>2, CountedType DEF Record
    <3>5. Backed(call[c].id, more, 1) /\ more.resetAt > 0
      BY <2>2, <2>4, <3>2, <3>3, <3>4 DEF Backed, Record
    <3> HIDE DEF more
    <3>6. /\ call'[c].pc = "ttl" /\ call'[c].at <= now
          /\ call'[c].id = call[c].id /\ call'[c].record = more
          /\ \A d \in Call \ {c} : call'[d] = call[d]
      BY <1>a, <2>4 DEF RateTypeOK, CallState
    <3> QED BY <1>b, <2>1, <3>5, <3>6
  <2> QED BY <1>5, <2>3, <2>4 DEF ReadToIncrement
<1>6. ASSUME NEW c \in Call, ReadTtl(c) PROVE RecordsBacked' /\ Tame
  <2>1. CASE Goes(c, "admitted")
    <3>1. /\ call'[c].pc = "admitted" /\ call'[c].at <= now
          /\ \A d \in Call \ {c} : call'[d] = call[d]
      BY <1>a, <2>1 DEF Goes, RateTypeOK, CallState
    <3> QED BY <1>6, <1>b, <3>1 DEF ReadTtl, Over
  <2>2. CASE ~Goes(c, "admitted")
    <3>1. call' = [call EXCEPT ![c] = [@ EXCEPT
                      !.pc = "put", !.ttl = window[call[c].id].expiresAt - now]]
      BY <1>6, <2>2 DEF ReadTtl
    <3>2. /\ call'[c].pc = "put" /\ call'[c].at = call[c].at
          /\ call'[c].id = call[c].id /\ call'[c].record = call[c].record
          /\ \A d \in Call \ {c} : call'[d] = call[d]
      BY <3>1 DEF RateTypeOK, CallState
    <3> QED BY <1>6, <1>a, <1>b, <3>2 DEF ReadTtl, RecordsBacked, Over
  <2> QED BY <2>1, <2>2
<1>7. ASSUME NEW c \in Call, PutWindow(c) PROVE RecordsBacked' /\ Tame
  <2> DEFINE record == [call[c].record EXCEPT !.expiresAt = now + call[c].ttl]
  <2>1. /\ call[c].id \in Id /\ call[c].pc = "put" /\ call[c].ttl \in Nat
        /\ Backed(call[c].id, call[c].record, 1) /\ call[c].record.resetAt > 0
    BY <1>7, <1>a DEF PutWindow, RecordsBacked, CallState
  <2>2. /\ record \in Record /\ record.count = call[c].record.count
        /\ record.resetAt = call[c].record.resetAt
    <3>1. record \in Record
      BY <1>a, <2>1, WindowRecords
    <3> QED BY <1>a, <3>1 DEF Record
  <2>3. Stores(c, call[c].id, record)
    BY <1>7 DEF PutWindow
  <2> HIDE DEF record
  <2>4. Counts(c, call[c].id, record)
    BY <1>7, <1>a, <2>1, <2>3 DEF PutWindow, Goes, Counts, Over, RateTypeOK, CallState
  <2>5. Backed(call[c].id, record, 1)
    BY <2>1, <2>2 DEF Backed
  <2> QED BY <2>1, <2>2, <2>4, <2>5, CountingKeeps DEF Tame
<1>8. ASSUME NEW c \in Call, SetWindow(c) PROVE RecordsBacked' /\ Tame
  <2> DEFINE record == Starts(call[c].id, call[c].at)
  <2>1. call[c].id \in Id /\ call[c].pc = "set"
    BY <1>8, <1>a DEF SetWindow
  <2>2. record \in Record
    BY <1>a, <2>1, WindowRecords
  <2>3. /\ record.count = 1 /\ record.resetAt = call[c].at + WindowSpan
    BY DEF Starts
  <2>4. Stores(c, call[c].id, record)
    BY <1>8 DEF SetWindow
  <2> HIDE DEF record
  <2>5. Counts(c, call[c].id, record)
    BY <1>8, <1>a, <2>1, <2>4 DEF SetWindow, Goes, Counts, Over, RateTypeOK, CallState
  <2>6. Cardinality(CountedIn(call[c].id, record.resetAt)) \in Nat
    BY <2>1, <2>2, CountedType DEF Record
  <2>7. Backed(call[c].id, record, 1) /\ record.resetAt > 0
    BY <1>a, <2>3, <2>6, RateAssumption DEF Backed
  <2> QED BY <2>1, <2>2, <2>5, <2>7, CountingKeeps DEF Tame
<1>9. ASSUME NEW c \in Call, NEW served, Dies(c, served) PROVE RecordsBacked' /\ Tame
  <2>1. Quiet /\ window' \in {window, [i \in Id |-> NoRecord]} /\ now' = now
    BY <1>9, <1>a DEF Dies, Quiet, Over
  <2>2. ASSUME NEW d \in Call
        PROVE  \/ call'[d] = call[d]
               \/ call'[d].pc = "lost" /\ call'[d].at = call[d].at /\ call[d].pc \notin Over
    BY <1>9, <1>a DEF Dies, CallState
  <2>3. ASSUME NEW d \in Call
        PROVE  /\ call'[d].at <= now'
               /\ call'[d].pc = "idle" => call'[d].id = 0
               /\ call'[d].pc \notin Over => call[d].pc \notin Over
               /\ call'[d].pc \in {"ttl", "put"} => /\ call'[d].record.resetAt > 0
                                                  /\ Backed(call'[d].id, call'[d].record, 1)
    BY <2>1, <2>2 DEF RecordsBacked, Over
  <2> QED BY <2>1, <2>3, QuietKeeps DEF Tame
<1>10. CASE \/ \E k \in Key : Revoke(k) \/ RemoveOwner(k)
            \/ RateTick
            \/ UNCHANGED rateVars
  <2>1. UNCHANGED <<window, call, counted>> /\ now' \in {now, now + 1}
    BY <1>10 DEF Revoke, RemoveOwner, RateTick, Tick, rateVars, windowVars
  <2>2. Quiet /\ now <= now' /\ now \in Nat
    BY <2>1 DEF Quiet, RateTypeOK, StorageTypeOK
  <2>3. ASSUME NEW d \in Call
        PROVE  /\ call'[d].at <= now'
               /\ call'[d].pc = "idle" => call'[d].id = 0
               /\ call'[d].pc \notin Over => call[d].pc \notin Over
               /\ call'[d].pc \in {"ttl", "put"} => /\ call'[d].record.resetAt > 0
                                                  /\ Backed(call'[d].id, call'[d].record, 1)
    BY <1>a, <2>1 DEF RecordsBacked
  <2> QED BY <2>1, <2>2, <2>3, QuietKeeps DEF Tame
<1> QED
  BY <1>1, <1>2, <1>3, <1>4, <1>5, <1>6, <1>7, <1>8, <1>9, <1>10 DEF RateNext

\* Neither a stored record nor one about to be written back counts more requests than
\* were counted.
THEOREM WindowsBacked == RateSpec => []RecordsBacked
<1>1. RateInit => RecordsBacked
  <2> SUFFICES ASSUME RateInit PROVE RecordsBacked
    OBVIOUS
  <2>1. ASSUME NEW i \in Id PROVE Cardinality(CountedIn(i, 0)) \in Nat
    BY CountedType
  <2> QED BY <2>1, RateAssumption
             DEF RateInit, RecordsBacked, Backed, StorageInit, NoRecord, NoCall, Over
<1>2. RateTypeOK /\ RateTypeOK' /\ RecordsBacked /\ [RateNext]_rateVars => RecordsBacked'
  BY RateStep
<1> QED BY <1>1, <1>2, RateTyped, PTL DEF RateSpec

\* A call is limited only on a window that was full and had not ended.
LEMMA LimitedOnFull ==
  ASSUME RateTypeOK, RecordsBacked, [RateNext]_rateVars, NEW c \in Call,
         call'[c].pc = "limited", call[c].pc # "limited"
  PROVE  /\ call'[c].id \in Id
         /\ window[call'[c].id].resetAt > call'[c].at
         /\ window[call'[c].id].count >= Limit[call'[c].id]
<1>1. PICK d \in Call :
        \/ \E k \in Key : ReceiveKey(d, k)
        \/ \E i \in Address : ReceiveReport(d, i)
        \/ FindKey(d) \/ TouchKey(d)
        \/ GetWindow(d) \/ ReadToIncrement(d) \/ ReadTtl(d) \/ PutWindow(d)
        \/ SetWindow(d) \/ StorageThrows(d)
        \/ \E served : Dies(d, served)
  BY DEF RateNext, Revoke, RemoveOwner, RateTick, rateVars, windowVars
<1>2. CASE (\E k \in Key : ReceiveKey(d, k)) \/ FindKey(d) \/ ReadToIncrement(d)
           \/ ReadTtl(d) \/ PutWindow(d) \/ SetWindow(d) \/ StorageThrows(d)
  <2>1. ASSUME NEW pc \in {"touch", "refused", "admitted"}, Goes(d, pc) PROVE FALSE
    BY <2>1 DEF Goes, RateTypeOK, CallState
  <2> QED BY <1>2, <2>1 DEF ReceiveKey, FindKey, ReadToIncrement, ReadTtl, PutWindow,
                           SetWindow, StorageThrows, RateTypeOK, CallState
<1>3. CASE \E served : Dies(d, served)
  BY <1>3 DEF Dies, RateTypeOK, CallState
<1>4. ASSUME NEW i \in Id, BeginWindow(d, i)
      PROVE  /\ call'[c].id = i /\ window[i].resetAt > call'[c].at
             /\ window[i].count >= Limit[i]
  <2> DEFINE full == window[i].resetAt > now /\ Full(window[i], i)
  <2>1. PICK pc \in {"get", "admitted", "limited"} :
          call' = [call EXCEPT ![d] = [@ EXCEPT !.pc = pc, !.id = i, !.at = now]]
    BY <1>4, Beginning
  <2>2. d = c /\ call'[c].id = i /\ call'[c].at = now
    BY <2>1 DEF RateTypeOK, CallState
  <2>3. ~redis
    <3>1. redis => call' = [call EXCEPT ![d] = [@ EXCEPT !.pc = "get", !.id = i, !.at = now]]
      BY <1>4 DEF BeginWindow
    <3>2. [call EXCEPT ![d] = [@ EXCEPT !.pc = "get", !.id = i, !.at = now]][d].pc = "get"
      BY DEF RateTypeOK, CallState
    <3> QED BY <2>2, <3>1, <3>2
  <2>4. full
    <3>1. call' = [call EXCEPT ![d] = [@ EXCEPT
                     !.pc = IF ~full THEN "admitted" ELSE "limited", !.id = i, !.at = now]]
      BY <1>4, <2>3 DEF BeginWindow
    <3> HIDE DEF full
    <3>2. call'[d].pc = IF ~full THEN "admitted" ELSE "limited"
      BY <3>1 DEF RateTypeOK, CallState
    <3> QED BY <2>2, <3>2
  <2> QED BY <2>2, <2>4 DEF Full
<1>5. CASE (\E i \in Address : ReceiveReport(d, i)) \/ TouchKey(d)
  BY <1>4, <1>5 DEF ReceiveReport, TouchKey, Id, RateTypeOK
<1>6. CASE GetWindow(d)
  <2> DEFINE record == Found(call[d].id)
  <2>1. call[d].pc = "get" /\ call[d].id \in Id /\ call[d].at \in Nat /\ call[d] \in CallState
    BY <1>6 DEF GetWindow, RateTypeOK, CallState
  <2>2. record \in {window[call[d].id], NoRecord}
    BY DEF Found
  <2>3. Goes(d, IF ~(record.resetAt > call[d].at) THEN "set"
                ELSE IF Full(record, call[d].id) THEN "limited" ELSE "increment")
    BY <1>6 DEF GetWindow
  <2> HIDE DEF record
  <2>4. d = c /\ call'[d].id = call[d].id /\ call'[d].at = call[d].at
        /\ record.resetAt > call[d].at /\ Full(record, call[d].id)
    BY <2>1, <2>3 DEF Goes, RateTypeOK, CallState
  <2> QED BY <2>1, <2>2, <2>4 DEF Full, NoRecord
<1> QED BY <1>1, <1>2, <1>3, <1>5, <1>6

\* Nobody is answered 429 before the limit's number of requests was counted in one
\* window, for any limits, keys, addresses and interleaving.
THEOREM RefusedInTime == RateSpec => []NeverRefusedEarly
<1>1. RateInit => NeverRefusedEarly
  BY DEF RateInit, NeverRefusedEarly, NoCall
<1>2. RateTypeOK /\ RateTypeOK' /\ RecordsBacked /\ NeverRefusedEarly /\ [RateNext]_rateVars
        => NeverRefusedEarly'
  <2> SUFFICES ASSUME RateTypeOK, RateTypeOK', RecordsBacked, NeverRefusedEarly,
                      [RateNext]_rateVars, NEW c \in Call, call'[c].pc = "limited"
               PROVE  \E t \in 1 .. now' + WindowSpan :
                        /\ t > call'[c].at
                        /\ Cardinality(CountedIn(call[c].id, t))' >= Limit[call'[c].id]
    BY DEF NeverRefusedEarly
  <2>1. Tame
    BY RateStep
  <2>2. /\ now \in Nat /\ now' \in Nat /\ now <= now' /\ WindowSpan \in Nat
        /\ Limit \in [Id -> Nat]
    BY <2>1, RateAssumption DEF Tame, Quiet, Counts, RateTypeOK, StorageTypeOK
  <2>3. PICK i \in Id, t \in Nat :
          /\ i = call'[c].id /\ t > 0 /\ t <= now + WindowSpan /\ t > call'[c].at
          /\ Cardinality(CountedIn(i, t)) >= Limit[i]
    <3>1. CASE call[c].pc = "limited"
      <4>1. call'[c].id = call[c].id /\ call'[c].at = call[c].at /\ call[c].id \in Id
        BY <2>1, <3>1 DEF Tame, Quiet, Counts, Over, RateTypeOK
      <4>2. PICK t \in 1 .. now + WindowSpan :
              t > call[c].at /\ Cardinality(CountedIn(call[c].id, t)) >= Limit[call[c].id]
        BY <3>1 DEF NeverRefusedEarly
      <4>3. t \in Nat /\ t > 0 /\ t <= now + WindowSpan
        BY <2>2, <4>2
      <4> QED BY <4>1, <4>2, <4>3
    <3>2. CASE call[c].pc # "limited"
      <4>1. PICK i \in Id : i = call'[c].id
        BY <3>2, LimitedOnFull
      <4>2. window[i].resetAt > call'[c].at /\ window[i].count >= Limit[i]
        BY <3>2, <4>1, LimitedOnFull
      <4>3. /\ window[i] \in Record /\ window[i].resetAt \in Nat /\ window[i].count \in Nat
            /\ call'[c].at \in Nat
        BY DEF RateTypeOK, Record, CallState
      <4>4. Backed(i, window[i], 0) /\ Cardinality(CountedIn(i, window[i].resetAt)) \in Nat
        BY <4>3, CountedType DEF RecordsBacked
      <4> QED BY <2>2, <4>1, <4>2, <4>3, <4>4 DEF Backed
    <3> QED BY <3>1, <3>2
  <2>4. Cardinality(CountedIn(i, t)) <= Cardinality(CountedIn(i, t))'
        /\ Cardinality(CountedIn(i, t)) \in Nat /\ Cardinality(CountedIn(i, t))' \in Nat
    BY <2>1, <2>3, CountsGrow DEF Tame
  <2>5. Limit[i] \in Nat /\ t \in 1 .. now' + WindowSpan
    <3>1. PICK at \in Nat, later \in Nat, span \in Nat :
            at = now /\ later = now' /\ span = WindowSpan
      BY <2>2
    <3>2. t \in Nat /\ t > 0 /\ t <= at + span /\ at <= later
      BY <2>2, <2>3, <3>1
    <3>3. t \in 1 .. later + span
      BY <3>2
    <3> QED BY <2>2, <3>1, <3>3
  <2>6. Cardinality(CountedIn(i, t))' >= Limit[i]
    BY <2>3, <2>4, <2>5
  <2> QED BY <2>3, <2>5, <2>6 DEF CountedIn
<1> QED BY <1>1, <1>2, RateTyped, WindowsBacked, PTL DEF RateSpec

-----------------------------------------------------------------------------
(* Windows in memory are exact.                                            *)

Between == {"get", "increment", "ttl", "put", "set"}

\* The record a request leaves behind that memory lets in.
LetsIn(i, record) ==
    \/ /\ window[i].resetAt > now /\ ~Full(window[i], i)
       /\ record = [window[i] EXCEPT !.count = @ + 1]
    \/ /\ ~(window[i].resetAt > now)
       /\ record = Starts(i, now)

Admits(c) ==
    \E i \in Id, record \in Record : Counts(c, i, record) /\ LetsIn(i, record)

\* In memory a request is let in and counted in one step.
LEMMA MemoryBegins ==
  ASSUME RateTypeOK, ~redis, NEW c \in Call, NEW i \in Id, BeginWindow(c, i),
         call[c].pc \notin Over, UNCHANGED <<now, redis, life>>
  PROVE  /\ \A d \in Call \ {c} : call'[d] = call[d]
         /\ \/ Admits(c)
            \/ UNCHANGED <<window, counted>> /\ call'[c].pc = "limited"
<1> DEFINE full == window[i].resetAt > now /\ Full(window[i], i)
           more == [window[i] EXCEPT !.count = @ + 1]
<1>1. call' = [call EXCEPT ![c] = [@ EXCEPT
                 !.pc = IF ~full THEN "admitted" ELSE "limited", !.id = i, !.at = now]]
  BY DEF BeginWindow
<1>2. IF ~full THEN Stores(c, i, IF window[i].resetAt > now THEN more ELSE Starts(i, now))
               ELSE UNCHANGED <<window, counted>>
  BY DEF BeginWindow
<1>3. now \in Nat /\ window[i] \in Record
  BY DEF RateTypeOK, StorageTypeOK
<1>4. more \in Record /\ Starts(i, now) \in Record
  BY <1>3, WindowRecords
<1>5. full => window[i].resetAt > now
  OBVIOUS
<1>6. ~full => ~(window[i].resetAt > now) \/ ~Full(window[i], i)
  OBVIOUS
<1> HIDE DEF full
<1>7. /\ \A d \in Call \ {c} : call'[d] = call[d]
      /\ call'[c].pc = IF ~full THEN "admitted" ELSE "limited"
      /\ call'[c].id = i /\ call'[c].at = now
  BY <1>1, <1>3 DEF RateTypeOK, CallState
<1>8. CASE ~full
  <2>1. PICK record \in Record : Stores(c, i, record) /\ LetsIn(i, record)
    <3>1. CASE window[i].resetAt > now
      BY <1>2, <1>4, <1>6, <1>8, <3>1 DEF LetsIn
    <3>2. CASE ~(window[i].resetAt > now)
      BY <1>2, <1>4, <1>8, <3>2 DEF LetsIn
    <3> QED BY <3>1, <3>2
  <2>2. Counts(c, i, record)
    BY <1>3, <1>7, <1>8, <2>1 DEF Counts
  <2> QED BY <1>7, <2>1, <2>2 DEF Admits
<1>9. CASE full
  BY <1>2, <1>7, <1>9
<1> QED BY <1>8, <1>9

\* What a step is in memory: it counts nothing, or ends the process, or admits.
LEMMA MemoryStep ==
  ASSUME RateTypeOK, RecordsBacked, WindowsExact, ~redis, [RateNext]_rateVars
  PROVE  /\ ~redis'
         /\ \A c \in Call : call'[c].pc \notin Between
         /\ \A c \in Call : call'[c].pc = "admitted" => call[c].pc = "admitted" \/ Admits(c)
         /\ \/ Quiet /\ window' = window /\ life' = life
            \/ Quiet /\ window' = [i \in Id |-> NoRecord] /\ life' = life + 1
            \/ \E c \in Call : Admits(c)
<1>a. now \in Nat /\ \A c \in Call : call[c].pc \notin Between
  BY DEF WindowsExact, Between, RateTypeOK, StorageTypeOK
<1>b. ASSUME NEW c \in Call, call[c].pc \notin Over,
             UNCHANGED <<now, redis, window, counted, life>>,
             \A d \in Call \ {c} : call'[d] = call[d],
             call'[c].pc \notin Between \cup {"admitted"}
      PROVE  /\ ~redis'
             /\ \A d \in Call : call'[d].pc \notin Between
             /\ \A d \in Call : call'[d].pc = "admitted" => call[d].pc = "admitted"
             /\ Quiet /\ window' = window /\ life' = life
  BY <1>a, <1>b DEF Quiet
<1>1. ASSUME NEW c \in Call, NEW k \in Key, ReceiveKey(c, k)
      PROVE  call'[c].pc = "find" /\ \A d \in Call \ {c} : call'[d] = call[d]
  BY <1>1 DEF ReceiveKey, RateTypeOK, CallState
<1>2. ASSUME NEW c \in Call, FindKey(c)
      PROVE  /\ call'[c].pc \in {"touch", "refused"}
             /\ \A d \in Call \ {c} : call'[d] = call[d]
  BY <1>2 DEF FindKey, Goes, RateTypeOK, CallState
<1>3. CASE \E c \in Call : (\E k \in Key : ReceiveKey(c, k)) \/ FindKey(c)
  <2>1. PICK c \in Call : (\E k \in Key : ReceiveKey(c, k)) \/ FindKey(c)
    BY <1>3
  <2>2. /\ call'[c].pc \notin Between \cup {"admitted"} /\ call[c].pc \notin Over
        /\ \A d \in Call \ {c} : call'[d] = call[d]
    BY <1>1, <1>2, <2>1 DEF Between, Over, ReceiveKey, FindKey
  <2>3. UNCHANGED <<now, redis, window, counted, life>>
    BY <2>1 DEF ReceiveKey, FindKey
  <2> QED BY <1>b, <2>2, <2>3
<1>4. CASE \E c \in Call : (\E i \in Address : ReceiveReport(c, i)) \/ TouchKey(c)
  <2>1. PICK c \in Call, i \in Id :
          BeginWindow(c, i) /\ call[c].pc \notin Over /\ UNCHANGED <<now, redis, life>>
    BY <1>4 DEF ReceiveReport, TouchKey, Id, Over, RateTypeOK
  <2>2. CASE Admits(c)
    <3>1. call'[c].pc = "admitted" /\ \A d \in Call \ {c} : call'[d] = call[d]
      BY <2>2 DEF Admits, Counts
    <3> QED BY <1>a, <2>1, <2>2, <3>1 DEF Between
  <2>3. CASE ~Admits(c)
    <3>1. /\ call'[c].pc \notin Between \cup {"admitted"} /\ UNCHANGED <<window, counted>>
          /\ \A d \in Call \ {c} : call'[d] = call[d]
      BY <2>1, <2>3, MemoryBegins DEF Between
    <3> QED BY <1>b, <2>1, <3>1
  <2> QED BY <2>2, <2>3
<1>5. CASE \E c \in Call, served \in SUBSET Call : Dies(c, served)
  <2>1. /\ window' = [i \in Id |-> NoRecord] /\ life' = life + 1
        /\ UNCHANGED <<now, redis, counted>>
        /\ \A d \in Call : \/ call'[d] = call[d]
                           \/ call'[d].pc = "lost" /\ call[d].pc \notin Over
    BY <1>5 DEF Dies, RateTypeOK, CallState
  <2> QED BY <1>a, <2>1 DEF Quiet, Between
<1>6. CASE \/ \E k \in Key : Revoke(k) \/ RemoveOwner(k)
           \/ RateTick
           \/ UNCHANGED rateVars
  BY <1>6, <1>a DEF Revoke, RemoveOwner, RateTick, Tick, rateVars, windowVars, Quiet
<1>7. ASSUME NEW c \in Call, GetWindow(c) \/ ReadToIncrement(c) \/ ReadTtl(c)
                             \/ PutWindow(c) \/ SetWindow(c) \/ StorageThrows(c)
      PROVE  FALSE
  BY <1>7, <1>a DEF GetWindow, ReadToIncrement, ReadTtl, PutWindow, SetWindow,
                    StorageThrows, Between
<1> QED
  BY <1>3, <1>4, <1>5, <1>6, <1>7 DEF RateNext, Serving

\* The calls counted in a window of a process stay the same in a quiet step.
LEMMA SharesStay ==
  ASSUME RateTypeOK, RecordsBacked, NEW i \in Id, NEW count \in Count, count.resetAt > 0,
         Quiet
  PROVE  SharesWindow(i, count)' = SharesWindow(i, count)
<1>1. ASSUME NEW d \in Call, counted[d] = count PROVE call'[d].id = call[d].id
  <2>1. call[d].pc \in Over
    BY <1>1 DEF RecordsBacked, Uncounted
  <2> QED BY <2>1 DEF Quiet
<1> QED BY <1>1 DEF SharesWindow, Quiet

\* A call that is admitted joins its own window and no other.
LEMMA SharesGrow ==
  ASSUME RateTypeOK, RecordsBacked, NEW c \in Call, NEW i \in Id, NEW record \in Record,
         Counts(c, i, record), NEW j \in Id, NEW count \in Count, count.resetAt > 0
  PROVE  /\ j = i /\ count = [resetAt |-> record.resetAt, life |-> life]
            => SharesWindow(j, count)' = SharesWindow(j, count) \cup {c}
         /\ j # i \/ count # [resetAt |-> record.resetAt, life |-> life]
            => SharesWindow(j, count)' = SharesWindow(j, count)
<1>1. counted[c] # count
  BY DEF RecordsBacked, Counts, Uncounted
<1>2. /\ counted' = [counted EXCEPT ![c] = [resetAt |-> record.resetAt, life |-> life]]
      /\ call'[c].id = i /\ \A d \in Call \ {c} : call'[d] = call[d]
      /\ \A d \in Call \ {c} : counted'[d] = counted[d]
      /\ counted'[c] = [resetAt |-> record.resetAt, life |-> life]
  BY DEF Counts, Stores, RateTypeOK
<1>3. SharesWindow(j, count)' = {d \in Call : call'[d].id = j /\ counted'[d] = count}
  BY DEF SharesWindow
<1> QED BY <1>1, <1>2, <1>3 DEF SharesWindow

\* How many calls share a window is a natural number, before and after a step.
LEMMA SharesType ==
  ASSUME NEW i \in Id, NEW count
  PROVE  /\ IsFiniteSet(SharesWindow(i, count))
         /\ Cardinality(SharesWindow(i, count)) \in Nat
<1>1. IsFiniteSet(Call) /\ SharesWindow(i, count) \subseteq Call
  BY RateAssumption DEF SharesWindow
<1>2. IsFiniteSet(SharesWindow(i, count))
  BY <1>1, FS_Subset
<1> QED BY <1>2, FS_CardinalityType

\* The record of a window that admits a call counts it and those before it, and is
\* within the limit.
LEMMA AdmitsWithin ==
  ASSUME RateTypeOK, RecordsBacked, WindowsExact, ~redis,
         NEW c \in Call, NEW i \in Id, NEW record \in Record,
         Counts(c, i, record), LetsIn(i, record)
  PROVE  /\ record.resetAt > 0 /\ record.resetAt >= window[i].resetAt
         /\ record.count <= Limit[i] /\ record.count \in Nat /\ Limit[i] \in Nat
         /\ Cardinality(SharesWindow(i, [resetAt |-> record.resetAt, life |-> life])) + 1
              <= record.count
<1> DEFINE count == [resetAt |-> record.resetAt, life |-> life]
<1>1. /\ now \in Nat /\ window[i] \in Record /\ Limit[i] \in Nat \ {0}
      /\ WindowSpan \in Nat \ {0} /\ window[i].resetAt \in Nat /\ window[i].count \in Nat
      /\ record.count \in Nat
  BY RateAssumption DEF RateTypeOK, StorageTypeOK, Record
<1>2. Cardinality(SharesWindow(i, count)) \in Nat
  BY SharesType
<1>3. CASE window[i].resetAt > now /\ ~Full(window[i], i)
           /\ record = [window[i] EXCEPT !.count = @ + 1]
  <2>1. record.count = window[i].count + 1 /\ record.resetAt = window[i].resetAt
    BY <1>1, <1>3 DEF Record
  <2>2. Cardinality(SharesWindow(i, count)) <= window[i].count
    BY <1>1, <1>3, <2>1 DEF WindowsExact
  <2> QED BY <1>1, <1>2, <1>3, <2>1, <2>2 DEF Full
<1>4. CASE ~(window[i].resetAt > now) /\ record = Starts(i, now)
  <2>1. record.count = 1 /\ record.resetAt = now + WindowSpan
    BY <1>4 DEF Starts
  <2>2. ASSUME NEW d \in SharesWindow(i, count) PROVE FALSE
    <3>1. d \in Call /\ call[d].id = i /\ counted[d] = count
      BY DEF SharesWindow
    <3>2. counted[d].life = life /\ counted[d].resetAt = now + WindowSpan
      BY <2>1, <3>1
    <3>3. counted[d].resetAt <= window[i].resetAt
      BY <3>1, <3>2 DEF WindowsExact
    <3> QED BY <1>1, <1>4, <3>2, <3>3
  <2>3. Cardinality(SharesWindow(i, count)) = 0
    <3>1. SharesWindow(i, count) = {}
      BY <2>2
    <3> QED BY <3>1, FS_EmptySet
  <2> QED BY <1>1, <1>4, <2>1, <2>3
<1> QED BY <1>3, <1>4 DEF LetsIn

\* Windows in memory stay exact in every step.
LEMMA ExactStep ==
  ASSUME RateTypeOK, RateTypeOK', RecordsBacked, WindowsExact, [RateNext]_rateVars
  PROVE  WindowsExact'
<1> SUFFICES ASSUME ~redis' PROVE WindowsExact'
  BY DEF WindowsExact
<1>0. ~redis
  BY DEF RateNext, ReceiveKey, ReceiveReport, FindKey, TouchKey, GetWindow, ReadToIncrement,
         ReadTtl, PutWindow, SetWindow, StorageThrows, Dies, Revoke, RemoveOwner, RateTick,
         Tick, rateVars
<1>a. /\ life \in Nat /\ \A c \in Call : counted[c] \in Count /\ counted[c].life \in Nat
                                           /\ counted[c].resetAt \in Nat
      /\ \A i \in Id : /\ window[i] \in Record /\ window[i].resetAt \in Nat
                       /\ Limit[i] \in Nat
  BY RateAssumption DEF RateTypeOK, Count, Record
<1>b. \A c \in Call : call'[c].pc \notin Between
  BY <1>0, MemoryStep
\* Those that were not counted were counted in no window.
<1>c. ASSUME Quiet, NEW c \in Call, NEW i \in Id, call'[c].id = i, counted[c].life = life
      PROVE  counted[c].resetAt <= window[i].resetAt
  <2>1. CASE call[c].pc \in Over
    <3>1. call[c].id = i
      BY <1>c, <2>1 DEF Quiet
    <3> QED BY <1>0, <1>c, <3>1 DEF WindowsExact
  <2>2. CASE call[c].pc \notin Over
    <3>1. counted[c].resetAt = 0
      BY <2>2 DEF RecordsBacked, Uncounted
    <3> QED BY <1>a, <3>1
  <2> QED BY <2>1, <2>2
<1>1. CASE Quiet /\ window' = window /\ life' = life
  <2>1. ASSUME NEW i \in Id, window[i].resetAt > 0
        PROVE  SharesWindow(i, [resetAt |-> window[i].resetAt, life |-> life])'
                 = SharesWindow(i, [resetAt |-> window[i].resetAt, life |-> life])
    <3>1. PICK count \in Count : count = [resetAt |-> window[i].resetAt, life |-> life]
      BY <1>a DEF Count
    <3>2. SharesWindow(i, count)' = SharesWindow(i, count)
      BY <1>1, <2>1, <3>1, SharesStay
    <3>3. count = [resetAt |-> window'[i].resetAt, life |-> life']
      BY <1>1, <3>1
    <3> QED BY <3>1, <3>2, <3>3 DEF SharesWindow
  <2>2. counted' = counted
    BY <1>1 DEF Quiet
  <2> QED BY <1>0, <1>1, <1>b, <1>c, <2>1, <2>2 DEF WindowsExact, Between
<1>2. CASE Quiet /\ window' = [i \in Id |-> NoRecord] /\ life' = life + 1
  <2>1. counted' = counted
    BY <1>2 DEF Quiet
  <2>2. ASSUME NEW c \in Call PROVE counted'[c].life <= life' /\ counted'[c].life # life'
    BY <1>0, <1>2, <1>a, <2>1 DEF WindowsExact
  <2> QED BY <1>0, <1>2, <1>a, <1>b, <2>1, <2>2 DEF WindowsExact, Between, NoRecord
<1>3. CASE \E c \in Call : Admits(c)
  <2>1. PICK c \in Call, i \in Id, record \in Record :
          Counts(c, i, record) /\ LetsIn(i, record)
    BY <1>3 DEF Admits
  <2>2. /\ record.resetAt > 0 /\ record.resetAt >= window[i].resetAt
        /\ record.count <= Limit[i] /\ record.count \in Nat /\ record.resetAt \in Nat
        /\ Cardinality(SharesWindow(i, [resetAt |-> record.resetAt, life |-> life])) + 1
              <= record.count
    BY <1>0, <2>1, AdmitsWithin DEF Record
  <2>3. /\ window' = [window EXCEPT ![i] = record] /\ life' = life
        /\ counted'[c] = [resetAt |-> record.resetAt, life |-> life]
        /\ \A d \in Call \ {c} : counted'[d] = counted[d] /\ call'[d] = call[d]
        /\ call'[c].id = i
    BY <2>1 DEF Counts, Stores, RateTypeOK
  <2>4. \A d \in Call : /\ counted'[d] # Uncounted => counted'[d].resetAt > 0
                       /\ counted'[d].life <= life'
    BY <1>0, <1>a, <2>2, <2>3 DEF WindowsExact
  <2>5. ASSUME NEW j \in Id, window'[j].resetAt > 0
        PROVE  Cardinality(SharesWindow(j, [resetAt |-> window[j].resetAt, life |-> life]))'
                 <= window'[j].count
    <3>1. PICK count \in Count : count = [resetAt |-> window'[j].resetAt, life |-> life]
      <4>1. window'[j] \in Record
        BY DEF RateTypeOK
      <4> QED BY <1>a, <4>1 DEF Count, Record
    <3>2. SharesWindow(j, [resetAt |-> window[j].resetAt, life |-> life])'
            = SharesWindow(j, count)'
      BY <2>3, <3>1 DEF SharesWindow
    <3>3. CASE j = i
      <4>1. count = [resetAt |-> record.resetAt, life |-> life] /\ window'[j] = record
        BY <2>3, <3>1, <3>3 DEF RateTypeOK
      <4>2. SharesWindow(j, count)' = SharesWindow(i, count) \cup {c}
        BY <2>1, <2>2, <3>3, <4>1, SharesGrow
      <4>3. /\ IsFiniteSet(SharesWindow(i, count))
            /\ Cardinality(SharesWindow(i, count)) \in Nat
        BY SharesType
      <4>4. Cardinality(SharesWindow(i, count) \cup {c})
              = IF c \in SharesWindow(i, count) THEN Cardinality(SharesWindow(i, count))
                                              ELSE Cardinality(SharesWindow(i, count)) + 1
        BY <4>3, FS_AddElement
      <4> QED BY <2>2, <3>2, <4>1, <4>2, <4>3, <4>4
    <3>4. CASE j # i
      <4>1. window'[j] = window[j]
        BY <2>3, <3>4 DEF RateTypeOK
      <4>2. SharesWindow(j, count)' = SharesWindow(j, count)
        BY <2>1, <2>5, <3>1, <3>4, SharesGrow
      <4>3. Cardinality(SharesWindow(j, count)) <= window[j].count
        BY <1>0, <2>5, <3>1, <4>1 DEF WindowsExact
      <4> QED BY <3>2, <4>1, <4>2, <4>3
    <3> QED BY <3>3, <3>4
  <2>6. ASSUME NEW j \in Id PROVE window'[j].count <= Limit[j]
    BY <1>0, <2>2, <2>3, <2>6 DEF WindowsExact, RateTypeOK
  <2>7. ASSUME NEW j \in Id, NEW d \in Call, call'[d].id = j, counted'[d].life = life'
        PROVE  counted'[d].resetAt <= window'[j].resetAt
    <3>1. CASE d = c
      BY <2>2, <2>3, <2>7, <3>1 DEF RateTypeOK
    <3>2. CASE d # c
      <4>1. counted[d].resetAt <= window[j].resetAt
        BY <1>0, <2>3, <2>7, <3>2 DEF WindowsExact
      <4>2. window[j].resetAt <= window'[j].resetAt
        BY <1>a, <2>2, <2>3 DEF RateTypeOK
      <4>3. counted'[d] = counted[d] /\ window'[j].resetAt \in Nat
        BY <2>3, <3>2 DEF RateTypeOK, Record
      <4> QED BY <1>a, <4>1, <4>2, <4>3
    <3> QED BY <3>1, <3>2
  <2> QED BY <1>b, <2>4, <2>5, <2>6, <2>7 DEF WindowsExact, Between
<1> QED BY <1>0, <1>1, <1>2, <1>3, MemoryStep

\* In memory the record of a window, never above its limit, counts every request that
\* was counted in it (memory-storage.ts:13-28).
THEOREM MemoryExact == RateSpec => []WindowsExact
<1>1. RateInit => WindowsExact
  BY RateAssumption
     DEF RateInit, WindowsExact, NoRecord, NoCall, Uncounted, StorageInit
<1>2. RateTypeOK /\ RateTypeOK' /\ RecordsBacked /\ WindowsExact /\ [RateNext]_rateVars
        => WindowsExact'
  BY ExactStep
<1> QED BY <1>1, <1>2, RateTyped, WindowsBacked, PTL DEF RateSpec

\* Without Redis, no window admits more than its limit and nobody uncounted.
THEOREM ExactWithoutRedis == RateSpec => []ExactInMemory
<1>1. RateInit => ExactInMemory
  BY DEF RateInit, ExactInMemory, NoCall
<1>2. /\ RateTypeOK /\ RateTypeOK' /\ RecordsBacked /\ WindowsExact /\ WindowsExact'
      /\ ExactInMemory /\ [RateNext]_rateVars
      => ExactInMemory'
  <2> SUFFICES ASSUME RateTypeOK, RateTypeOK', RecordsBacked, WindowsExact, WindowsExact',
                      ExactInMemory, [RateNext]_rateVars, ~redis'
               PROVE  /\ \A c \in Call : call'[c].pc = "admitted" => counted'[c] # Uncounted
                      /\ \A i \in Id, c \in Call :
                           counted'[c] # Uncounted =>
                             Cardinality(SharesWindow(i, counted[c]))' <= Limit[i]
    BY DEF ExactInMemory
  <2>0. ~redis
    BY DEF RateNext, ReceiveKey, ReceiveReport, FindKey, TouchKey, GetWindow,
           ReadToIncrement, ReadTtl, PutWindow, SetWindow, StorageThrows, Dies, Revoke,
           RemoveOwner, RateTick, Tick, rateVars
  <2>1. ASSUME NEW c \in Call, call'[c].pc = "admitted" PROVE counted'[c] # Uncounted
    <3>1. CASE Admits(c)
      <4>1. PICK i \in Id, record \in Record : Counts(c, i, record) /\ LetsIn(i, record)
        BY <3>1 DEF Admits
      <4>2. counted'[c].resetAt > 0
        BY <2>0, <4>1, AdmitsWithin DEF Counts, Stores, RateTypeOK
      <4> QED BY <4>2 DEF Uncounted
    <3>2. CASE call[c].pc = "admitted"
      <4>1. counted[c] # Uncounted
        BY <2>0, <3>2 DEF ExactInMemory
      <4>2. counted'[c] = counted[c]
        BY <2>0, <3>2, MemoryStep DEF Quiet, Admits, Counts, Stores, Over, RateTypeOK
      <4> QED BY <4>1, <4>2
    <3> QED BY <2>0, <2>1, <3>1, <3>2, MemoryStep
  <2>2. ASSUME NEW i \in Id, NEW c \in Call, counted'[c] # Uncounted
        PROVE  Cardinality(SharesWindow(i, counted[c]))' <= Limit[i]
    <3>1. PICK count \in Count : count = counted'[c] /\ count # Uncounted /\ count.resetAt > 0
      BY <2>2 DEF WindowsExact, RateTypeOK
    <3>2. Limit[i] \in Nat
      BY RateAssumption
    <3>3. ASSUME SharesWindow(i, count)' = SharesWindow(i, count)
          PROVE  Cardinality(SharesWindow(i, count))' <= Limit[i]
      <4>1. CASE SharesWindow(i, count) = {}
        <5>1. SharesWindow(i, count)' = {}
          BY <3>3, <4>1
        <5>2. Cardinality(SharesWindow(i, count)') = 0
          BY <5>1, FS_EmptySet
        <5> QED BY <3>2, <5>2
      <4>2. CASE SharesWindow(i, count) # {}
        <5>1. PICK d \in Call : counted[d] = count
          BY <4>2 DEF SharesWindow
        <5>2. Cardinality(SharesWindow(i, counted[d])) <= Limit[i]
          BY <2>0, <3>1, <5>1 DEF ExactInMemory
        <5>3. Cardinality(SharesWindow(i, count)') <= Limit[i]
          BY <3>3, <5>1, <5>2
        <5> QED BY <5>3
      <4> QED BY <4>1, <4>2
    <3>4. CASE Quiet
      BY <3>1, <3>3, <3>4, SharesStay
    <3>5. CASE \E d \in Call : Admits(d)
      <4>1. PICK d \in Call, j \in Id, record \in Record :
              Counts(d, j, record) /\ LetsIn(j, record)
        BY <3>5 DEF Admits
      <4>2. CASE i = j /\ count = [resetAt |-> record.resetAt, life |-> life]
        <5>1. window'[i] = record /\ life' = life
          BY <4>1, <4>2 DEF Counts, Stores, RateTypeOK
        <5>2. Cardinality(SharesWindow(i, [resetAt |-> window[i].resetAt, life |-> life]))'
                <= record.count
          BY <3>1, <4>2, <5>1 DEF WindowsExact
        <5>3. SharesWindow(i, [resetAt |-> window[i].resetAt, life |-> life])'
                = SharesWindow(i, count)'
          BY <4>2, <5>1 DEF SharesWindow
        <5>4. Cardinality(SharesWindow(i, count))' <= record.count
          BY <5>2, <5>3
        <5>5. record.count <= Limit[i] /\ record.count \in Nat
          BY <2>0, <4>1, <4>2, AdmitsWithin
        <5>6. Cardinality(SharesWindow(i, count)') \in Nat
          <6>1. SharesWindow(i, count)' \subseteq Call /\ IsFiniteSet(Call)
            BY RateAssumption DEF SharesWindow
          <6>2. IsFiniteSet(SharesWindow(i, count)')
            BY <6>1, FS_Subset
          <6> QED BY <6>2, FS_CardinalityType
        <5>7. SharesWindow(i, counted[c])' = SharesWindow(i, count)'
          BY <3>1 DEF SharesWindow
        <5>8. Cardinality(SharesWindow(i, count)') <= Limit[i]
          BY <3>2, <5>4, <5>5, <5>6
        <5> QED BY <5>7, <5>8
      <4>3. CASE ~(i = j /\ count = [resetAt |-> record.resetAt, life |-> life])
        BY <3>1, <3>3, <4>1, <4>3, SharesGrow
      <4> QED BY <4>2, <4>3
    <3> QED BY <2>0, <3>4, <3>5, MemoryStep
  <2> QED BY <2>1, <2>2
<1> QED BY <1>1, <1>2, RateTyped, WindowsBacked, MemoryExact, PTL DEF RateSpec
=============================================================================
