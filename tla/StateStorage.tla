---------------------------- MODULE StateStorage ----------------------------
(***************************************************************************)
(* backend/lib/state-storage.ts: rate limits, lockouts and circuit         *)
(* breakers are kept in Redis when REDIS_URL is set, and otherwise in maps *)
(* of the process.  The two differ in one way that matters: an await on a  *)
(* map does not leave the process, so whoever reads a map acts on it       *)
(* before anyone else runs; an await on Redis lets others in between.      *)
(* (Requests that become ready in one turn of the event loop are taken to  *)
(* run one after the other.)                                               *)
(***************************************************************************)
EXTENDS Naturals, FiniteSets

CONSTANT MaxTime    \* bound of the model

VARIABLES
    now,
    redis    \* REDIS_URL is set

\* Which storage a deployment has is decided once.
StorageInit == now = 0 /\ redis \in BOOLEAN

StorageTypeOK == now \in Nat /\ redis \in BOOLEAN

Tick == now < MaxTime /\ now' = now + 1 /\ redis' = redis

Later(s, t) == IF s > t THEN s ELSE t
=============================================================================
