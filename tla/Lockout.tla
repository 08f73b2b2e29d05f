------------------------------ MODULE Lockout -------------------------------
(***************************************************************************)
(* The lockout of one account (backend/services/security/                  *)
(* account-lockout.service.ts) over Redis or process memory.  Accounts     *)
(* share nothing: the cleanup visits their records one by one.             *)
(*                                                                         *)
(* A step runs from the answer of one call to Redis to the next one; in    *)
(* memory an operation is one step.                                        *)
(***************************************************************************)
EXTENDS StateStorage

CONSTANTS
    Op,           \* calls of the service, each made at most once
    MaxFailed,    \* maxFailedAttempts
    LockSpan,     \* lockoutDurationMs
    ResetSpan     \* resetWindowMs

ASSUME LockoutAssumption ==
    MaxFailed \in Nat \ {0} /\ LockSpan \in Nat \ {0} /\ ResetSpan \in Nat

VARIABLES
    lockout,     \* the stored record
    op,          \* the local variables of each call
    heldUntil    \* history: until when a lock holds that no stale record undoes

accountVars == <<lockout, op, heldUntil>>
lockoutVars == <<now, redis, accountVars>>

-----------------------------------------------------------------------------
\* An absent record counts 0, a null lockedUntil is 0.
Lock == [count : Nat, firstAttempt : Nat, lockedUntil : Nat]
NoLock == [count |-> 0, firstAttempt |-> 0, lockedUntil |-> 0]

OpState == [pc : {"idle", "fail", "write", "status", "drop", "clear", "sweep",
                  "free", "locked", "done"},
            at : Nat, lock : Lock]
NoOp == [pc |-> "idle", at |-> 0, lock |-> NoLock]

Running == {"fail", "write", "status", "drop", "clear", "sweep"}

LockoutTypeOK ==
    /\ StorageTypeOK
    /\ lockout \in Lock
    /\ op \in [Op -> OpState]
    /\ heldUntil \in Nat

\* Time is counted from the first failure of an account that may be one attempt
\* short of its lock.
LockoutInit ==
    /\ StorageInit
    /\ lockout \in {NoLock, [NoLock EXCEPT !.count = MaxFailed - 1]}
    /\ op = [o \in Op |-> NoOp]
    /\ heldUntil = 0

\* The locals of a call that is over do not matter any more.
Becomes(o, pc) ==
    op' = [op EXCEPT ![o] = IF pc \in Running THEN [@ EXCEPT !.pc = pc]
                            ELSE [NoOp EXCEPT !.pc = pc]]

-----------------------------------------------------------------------------
\* Mutant of Failed: a failed attempt on a locked account drops the lock.
FailedUnlocking(lock, at) ==
    LET restart == lock.count = 0 \/ lock.firstAttempt + ResetSpan < at
        count   == IF restart THEN 1 ELSE lock.count + 1
    IN  [count        |-> count,
         firstAttempt |-> IF restart THEN at ELSE lock.firstAttempt,
         lockedUntil  |-> IF count = MaxFailed THEN at + LockSpan ELSE 0]

\* Mutant of Failed: the lock counts backwards.
FailedBackwards(lock, at) ==
    LET restart == lock.count = 0 \/ lock.firstAttempt + ResetSpan < at
        count   == IF restart THEN 1 ELSE lock.count + 1
    IN  [count        |-> count,
         firstAttempt |-> IF restart THEN at ELSE lock.firstAttempt,
         lockedUntil  |-> IF count >= MaxFailed THEN at - LockSpan ELSE 0]

\* The record after one more failed attempt: it starts anew when there is none or
\* its window is over, and from MaxFailed on every attempt moves the lock.
Failed(lock, at) ==
    LET restart == lock.count = 0 \/ lock.firstAttempt + ResetSpan < at
        count   == IF restart THEN 1 ELSE lock.count + 1
    IN  [count        |-> count,
         firstAttempt |-> IF restart THEN at ELSE lock.firstAttempt,
         lockedUntil  |-> IF count >= MaxFailed THEN at + LockSpan
                          ELSE IF restart THEN 0 ELSE lock.lockedUntil]

Locked(lock, at) == lock.lockedUntil > at
Outdated(lock, at) == lock.count # 0 /\ lock.firstAttempt + ResetSpan < at

\* A lock outlives its window: it holds until the earlier end of the two.
HoldsUntil(lock) ==
    IF lock.lockedUntil <= lock.firstAttempt + ResetSpan
      THEN lock.lockedUntil ELSE lock.firstAttempt + ResetSpan

\* A record keeps an account locked until t, and a failed attempt keeps it so.
Lasts(lock, t) ==
    /\ lock.count >= MaxFailed
    /\ t <= lock.lockedUntil
    /\ t <= lock.firstAttempt + ResetSpan

\* Call p is not about to undo, or to shorten, a lock until t: it deletes nothing, and
\* what it has to write, or will make of the record, lasts as long.
SparesLock(p, t) ==
    /\ op[p].pc # "drop"
    /\ op[p].pc = "fail" => t <= op[p].at + LockSpan
    /\ op[p].pc = "write" => Lasts(op[p].lock, t)

\* setLockout: the record written over whatever is there.
Saved(o, lock) ==
    /\ lockout' = lock
    /\ heldUntil' = IF \A p \in Op \ {o} : SparesLock(p, HoldsUntil(lock))
                      THEN Later(heldUntil, HoldsUntil(lock)) ELSE heldUntil

-----------------------------------------------------------------------------
(* The operations.  Each reads the clock before it asks the storage.       *)

Called(o, pc) ==
    /\ op[o].pc = "idle"
    /\ op' = [op EXCEPT ![o] = [@ EXCEPT !.pc = pc, !.at = now]]

\* recordFailedAttempt, checkLockoutStatus and the cleanup over Redis.
BeginInRedis(o) ==
    /\ redis
    /\ \E pc \in {"fail", "status", "sweep"} : Called(o, pc)
    /\ UNCHANGED <<now, redis, lockout, heldUntil>>

\* recordSuccessfulAuth.
BeginSuccess(o) ==
    /\ redis
    /\ Called(o, "clear")
    /\ UNCHANGED <<now, redis, lockout, heldUntil>>

ReadFailed(o) ==
    /\ op[o].pc = "fail"
    /\ op' = [op EXCEPT ![o] = [@ EXCEPT !.pc = "write",
                                         !.lock = Failed(lockout, op[o].at)]]
    /\ UNCHANGED <<now, redis, lockout, heldUntil>>

\* The record is stored, and its status is asked for like any other.
WriteFailed(o) ==
    /\ op[o].pc = "write"
    /\ Saved(o, op[o].lock)
    /\ op' = [op EXCEPT ![o] = [@ EXCEPT !.pc = "status", !.at = now, !.lock = NoLock]]
    /\ UNCHANGED <<now, redis>>

ReadStatus(o) ==
    /\ op[o].pc = "status"
    /\ Becomes(o, IF Locked(lockout, op[o].at) THEN "locked"
                  ELSE IF Outdated(lockout, op[o].at) THEN "drop" ELSE "free")
    /\ UNCHANGED <<now, redis, lockout, heldUntil>>

\* An outdated record is deleted, whatever is stored by now.
Drop(o) ==
    /\ op[o].pc = "drop"
    /\ lockout' = NoLock
    /\ Becomes(o, "free")
    /\ UNCHANGED <<now, redis, heldUntil>>

\* A success unlocks.
Clear(o) ==
    /\ op[o].pc = "clear"
    /\ lockout' = NoLock
    /\ heldUntil' = 0
    /\ Becomes(o, "done")
    /\ UNCHANGED <<now, redis>>

\* The cleanup has read a record: it deletes outdated and unlocked ones.
ReadSweep(o) ==
    LET over == lockout.lockedUntil # 0 /\ lockout.lockedUntil < op[o].at
    IN  /\ op[o].pc = "sweep"
        /\ Becomes(o, IF Outdated(lockout, op[o].at) \/ over THEN "drop" ELSE "done")
        /\ UNCHANGED <<now, redis, lockout, heldUntil>>

\* Redis does not answer: the call rejects.
OpThrows(o) ==
    /\ op[o].pc \in Running
    /\ Becomes(o, "done")
    /\ UNCHANGED <<now, redis, lockout, heldUntil>>

\* In memory.
FailInMemory(o) ==
    /\ ~redis
    /\ Called(o, IF Locked(Failed(lockout, now), now) THEN "locked" ELSE "free")
    /\ Saved(o, Failed(lockout, now))
    /\ UNCHANGED <<now, redis>>

SuccessInMemory(o) ==
    /\ ~redis
    /\ Called(o, "done")
    /\ lockout' = NoLock
    /\ heldUntil' = 0
    /\ UNCHANGED <<now, redis>>

StatusInMemory(o) ==
    /\ ~redis
    /\ Called(o, IF Locked(lockout, now) THEN "locked" ELSE "free")
    /\ lockout' = IF ~Locked(lockout, now) /\ Outdated(lockout, now)
                    THEN NoLock ELSE lockout
    /\ UNCHANGED <<now, redis, heldUntil>>

SweepInMemory(o) ==
    LET over == lockout.lockedUntil # 0 /\ lockout.lockedUntil < now
    IN  /\ ~redis
        /\ Called(o, "done")
        /\ lockout' = IF Outdated(lockout, now) \/ over THEN NoLock ELSE lockout
        /\ UNCHANGED <<now, redis, heldUntil>>

LockoutTick == Tick /\ UNCHANGED accountVars

LockoutNext ==
    \/ \E o \in Op :
         \/ BeginInRedis(o) \/ BeginSuccess(o)
         \/ ReadFailed(o) \/ WriteFailed(o) \/ ReadStatus(o) \/ Drop(o)
         \/ Clear(o) \/ ReadSweep(o) \/ OpThrows(o)
         \/ FailInMemory(o) \/ SuccessInMemory(o) \/ StatusInMemory(o)
         \/ SweepInMemory(o)
    \/ LockoutTick

LockoutSpec == LockoutInit /\ [][LockoutNext]_lockoutVars
-----------------------------------------------------------------------------
(* Properties.                                                             *)

\* A lock holds: nobody is told while it holds that the account is free, whatever
\* failures, status checks and cleanups run when it is stored or start later, until a
\* success unlocks it; it ends with its duration or with the window of the first
\* failure, whichever is earlier (account-lockout.service.ts:38-55, 74-85,
\* redis-storage.ts:65-85).  There is one exception: a call that started before
\* and has a shorter lock, or none, still to write, or is about to delete the record it
\* found outdated, does so over the lock (lines 48, 99).
LockHolds ==
    [][\A o \in Op : op[o].pc # "free" /\ op'[o].pc = "free" =>
         heldUntil' <= now]_lockoutVars

\* What keeps it so: in memory no call is ever between two steps; only enough
\* failures make a lock, of at most LockSpan from now; and the stored record, like
\* any on its way into the storage, lasts as long as the lock is said to hold.
Earned(lock) ==
    /\ lock.lockedUntil # 0 => lock.count >= MaxFailed
    /\ lock.lockedUntil <= now + LockSpan

LockKept ==
    /\ \A o \in Op : /\ op[o].pc \in Running => redis
                     /\ op[o].at <= now
                     /\ Earned(op[o].lock)
    /\ Earned(lockout)
    /\ heldUntil <= now + LockSpan
    /\ now < heldUntil =>
         Lasts(lockout, heldUntil) /\ \A o \in Op : SparesLock(o, heldUntil)
=============================================================================
