--------------------------- MODULE AgentLifecycle ---------------------------
(***************************************************************************)
(* Agents and the Fly machines that run them: POST /deploy-agent           *)
(* (backend/routes/deploy.routes.ts, services/fly.ts), start, stop,        *)
(* restart, delete and status of an agent (routes/agents.routes.ts,        *)
(* services/fly-lifecycle.ts) and the start and stop of the public API     *)
(* (routes/public-api.routes.ts).                                          *)
(*                                                                         *)
(* A deployment request makes at most one machine and one agent row, so    *)
(* one identifier names all three.  A step ends at the next awaited call.  *)
(* MOCK_FLY_DEPLOY, in which no call reaches Fly, is not modelled.         *)
(***************************************************************************)
EXTENDS Naturals

CONSTANTS
    Deploy,     \* deployment requests, and the machines and agents they make
    Command,    \* requests that change an agent, each received at most once
    Poll,       \* dashboards that poll the status of an agent
    PollOf      \* PollOf[p] is the agent p polls

ASSUME AgentAssumption == Deploy # {} /\ PollOf \in [Poll -> Deploy]

VARIABLES
    deploy,       \* how far each deployment request is
    defaultApp,   \* the machine was created in DEFAULT_APP_NAME
    machine,      \* the state of each machine at Fly
    row,          \* agent.status, "absent" before the row, "deleted" after it was
                  \* deleted and "gone" after it went with its owner
    command,      \* the local variables of each command
    poll          \* the local variables of each status request

vars == <<deploy, defaultApp, machine, row, command, poll>>

-----------------------------------------------------------------------------
MachineState == {"none", "starting", "started", "stopping", "stopped", "destroyed"}
RowState == {"absent", "starting", "running", "stopping", "stopped", "deleted",
             "gone"}
Kind == {"start", "stop", "restart", "delete", "v1 start", "v1 stop"}

\* flyError: Fly answered a delete with an error or not at all.
CommandState == [pc : {"idle", "call", "write", "done"}, kind : Kind,
                 agent : Deploy, flyError : BOOLEAN]

\* seen is the agent row the handler read, state what Fly answered.
PollState == [pc : {"idle", "call", "write"}, seen : RowState, state : MachineState]

TypeOK ==
    /\ deploy \in [Deploy -> {"idle", "create", "ip", "insert", "done"}]
    /\ defaultApp \in [Deploy -> BOOLEAN]
    /\ machine \in [Deploy -> MachineState]
    /\ row \in [Deploy -> RowState]
    /\ command \in [Command -> CommandState]
    /\ poll \in [Poll -> PollState]
    /\ \A d \in Deploy : row[d] # "absent" => machine[d] # "none"

IdleCommand == [pc |-> "idle", kind |-> "start", agent |-> CHOOSE d \in Deploy : TRUE,
                flyError |-> FALSE]
IdlePoll == [pc |-> "idle", seen |-> "absent", state |-> "none"]

Init ==
    /\ deploy = [d \in Deploy |-> "idle"]
    /\ defaultApp = [d \in Deploy |-> TRUE]
    /\ machine = [d \in Deploy |-> "none"]
    /\ row = [d \in Deploy |-> "absent"]
    /\ command = [c \in Command |-> IdleCommand]
    /\ poll = [p \in Poll |-> IdlePoll]

HasRow(d) == row[d] \notin {"absent", "deleted", "gone"}
Alive(d) == machine[d] \notin {"none", "destroyed"}

-----------------------------------------------------------------------------
(* POST /deploy-agent.                                                     *)

\* requireActiveSubscription has answered; the body is valid and a wallet is made.
CheckSubscription(d, active) ==
    /\ deploy[d] = "idle"
    /\ deploy' = [deploy EXCEPT ![d] = IF active THEN "create" ELSE "done"]
    /\ UNCHANGED <<defaultApp, machine, row, command, poll>>

\* Mutant of CreateMachine: an error status of Fly is taken for a machine.
CreateMachineUnchecked(d, inDefault) ==
    /\ deploy[d] = "create"
    /\ deploy' = [deploy EXCEPT ![d] = "ip"]
    /\ defaultApp' = [defaultApp EXCEPT ![d] = inDefault]
    /\ machine' \in {machine, [machine EXCEPT ![d] = "starting"]}
    /\ UNCHANGED <<row, command, poll>>

\* createFlyMachine, in the app the body names or in the default one.  The call
\* fails with a machine (the answer is lost) or without.
CreateMachine(d, inDefault) ==
    /\ deploy[d] = "create"
    /\ \/ /\ machine' = [machine EXCEPT ![d] = "starting"]
          /\ defaultApp' = [defaultApp EXCEPT ![d] = inDefault]
          /\ deploy' = [deploy EXCEPT ![d] = "ip"]
       \/ /\ machine' = [machine EXCEPT ![d] = "starting"]
          /\ defaultApp' = [defaultApp EXCEPT ![d] = inDefault]
          /\ deploy' = [deploy EXCEPT ![d] = "done"]
       \/ /\ deploy' = [deploy EXCEPT ![d] = "done"]
          /\ UNCHANGED <<machine, defaultApp>>
    /\ UNCHANGED <<row, command, poll>>

\* getMachineIP: an error status is a null address, a failed fetch throws.
LookUpIp(d) ==
    /\ deploy[d] = "ip"
    /\ deploy' \in {[deploy EXCEPT ![d] = next] : next \in {"insert", "done"}}
    /\ UNCHANGED <<defaultApp, machine, row, command, poll>>

\* The agent row is created, or the database throws; the machine stays.
InsertRow(d) ==
    /\ deploy[d] = "insert"
    /\ deploy' = [deploy EXCEPT ![d] = "done"]
    /\ row' \in {row, [row EXCEPT ![d] = "running"]}
    /\ UNCHANGED <<defaultApp, machine, command, poll>>

-----------------------------------------------------------------------------
(* start, stop, restart and delete, and the public API's start and stop.   *)

\* The agent row has been read; without one the request is answered 404.  The
\* routes of the public API only write the row.
Receive(c, kind, d) ==
    /\ command[c].pc = "idle"
    /\ HasRow(d)
    /\ command' = [command EXCEPT ![c] = [@ EXCEPT
                     !.pc = IF kind \in {"v1 start", "v1 stop"} THEN "write" ELSE "call",
                     !.kind = kind, !.agent = d]]
    /\ UNCHANGED <<deploy, defaultApp, machine, row, poll>>

\* The request is over: its locals do not matter any more, an error of a delete apart.
Ended(request) ==
    [request EXCEPT !.pc = "done", !.kind = IF @ = "delete" THEN @ ELSE "start"]

\* What Fly does with a machine it was asked to start, stop, restart or destroy.
Commanded(kind, state) ==
    CASE kind = "start"   -> IF state = "started" THEN state ELSE "starting"
      [] kind = "restart" -> "starting"
      [] kind = "stop"    -> IF state = "stopped" THEN state ELSE "stopping"
      [] kind = "delete"  -> "destroyed"

\* The lifecycle functions name the default app: Fly finds the machine only there.
AtFly(d) == defaultApp[d] /\ Alive(d)

\* Mutant of CallFly: a delete does not wait for Fly.
CallFlyUnawaited(c) ==
    /\ command[c].pc = "call"
    /\ command' = [command EXCEPT ![c].pc = "write"]
    /\ UNCHANGED <<deploy, defaultApp, machine, row, poll>>

\* The call to Fly.  An error ends the request, but a delete ignores it; the
\* machine may have been commanded all the same.
CallFly(c) ==
    LET d    == command[c].agent
        kind == command[c].kind
        Obey == AtFly(d) /\ machine' = [machine EXCEPT ![d] = Commanded(kind, @)]
    IN  /\ command[c].pc = "call"
        /\ \/ /\ Obey
              /\ command' = [command EXCEPT ![c].pc = "write"]
           \/ /\ Obey \/ UNCHANGED machine
              /\ command' = [command EXCEPT ![c] =
                               IF kind = "delete"
                                 THEN [@ EXCEPT !.pc = "write", !.flyError = TRUE]
                                 ELSE Ended(@)]
        /\ UNCHANGED <<deploy, defaultApp, row, poll>>

Written(kind) ==
    CASE kind \in {"start", "restart"} -> "running"
      [] kind = "stop"                 -> "stopped"
      [] kind = "delete"               -> "deleted"
      [] kind = "v1 start"             -> "starting"
      [] kind = "v1 stop"              -> "stopping"

\* Mutant of WriteRow: the update creates the row when it is gone.
UpsertRow(c) ==
    LET d == command[c].agent
    IN  /\ command[c].pc = "write"
        /\ command' = [command EXCEPT ![c] = Ended(@)]
        /\ row' = [row EXCEPT ![d] = Written(command[c].kind)]
        /\ UNCHANGED <<deploy, defaultApp, machine, poll>>

\* The row is updated or deleted.  Prisma throws when the row is gone, and a
\* database error leaves the row as it was.
WriteRow(c) ==
    LET d == command[c].agent
    IN  /\ command[c].pc = "write"
        /\ command' = [command EXCEPT ![c] = Ended(@)]
        /\ \/ HasRow(d) /\ row' = [row EXCEPT ![d] = Written(command[c].kind)]
           \/ UNCHANGED row
        /\ UNCHANGED <<deploy, defaultApp, machine, poll>>

-----------------------------------------------------------------------------
(* GET /agents/:id/status, which the dashboard asks again and again.       *)

BeginPoll(p) ==
    LET d == PollOf[p]
    IN  /\ poll[p].pc = "idle"
        /\ HasRow(d)
        /\ poll' = [poll EXCEPT ![p] = [pc |-> "call", seen |-> row[d], state |-> "none"]]
        /\ UNCHANGED <<deploy, defaultApp, machine, row, command>>

\* Mutant of PollAnswered: "running" is taken for the name of a machine state.
PollAnsweredUnlessRunning(p) ==
    LET d == PollOf[p]
    IN  /\ poll[p].pc = "call"
        /\ defaultApp[d]
        /\ poll' = [poll EXCEPT ![p] =
                     IF machine[d] = poll[p].seen \/ poll[p].seen = "running"
                     THEN IdlePoll
                     ELSE [@ EXCEPT !.pc = "write", !.state = machine[d]]]
        /\ UNCHANGED <<deploy, defaultApp, machine, row, command>>

\* Fly has answered, a destroyed machine too: the row is written when it differs
\* from the machine's state.
PollAnswered(p) ==
    LET d == PollOf[p]
    IN  /\ poll[p].pc = "call"
        /\ defaultApp[d]
        /\ poll' = [poll EXCEPT ![p] =
                     IF machine[d] = poll[p].seen
                     THEN IdlePoll
                     ELSE [@ EXCEPT !.pc = "write", !.state = machine[d]]]
        /\ UNCHANGED <<deploy, defaultApp, machine, row, command>>

PollWrites(p) ==
    LET d == PollOf[p]
    IN  /\ poll[p].pc = "write"
        /\ HasRow(d)
        /\ row' = [row EXCEPT ![d] = IF poll[p].state = "started" THEN "running"
                                                                  ELSE "stopped"]
        /\ poll' = [poll EXCEPT ![p] = IdlePoll]
        /\ UNCHANGED <<deploy, defaultApp, machine, command>>

\* Fly or the database throws.
PollThrows(p) ==
    /\ poll[p].pc # "idle"
    /\ poll' = [poll EXCEPT ![p] = IdlePoll]
    /\ UNCHANGED <<deploy, defaultApp, machine, row, command>>

-----------------------------------------------------------------------------
(* The environment: Fly and the restarts of the backend.                   *)

Settle(d) ==
    /\ \/ machine[d] = "starting" /\ machine' = [machine EXCEPT ![d] = "started"]
       \/ machine[d] = "stopping" /\ machine' = [machine EXCEPT ![d] = "stopped"]
    /\ UNCHANGED <<deploy, defaultApp, row, command, poll>>

\* The agent's process exits.
MachineExits(d) ==
    /\ machine[d] = "started"
    /\ machine' = [machine EXCEPT ![d] = "stopped"]
    /\ UNCHANGED <<deploy, defaultApp, row, command, poll>>

\* The owner's account is deleted, and the row with it: nobody tells Fly.
OwnerLeaves(d) ==
    /\ HasRow(d)
    /\ row' = [row EXCEPT ![d] = "gone"]
    /\ UNCHANGED <<deploy, defaultApp, machine, command, poll>>

\* Every request in progress is lost.
Restart ==
    /\ deploy' = [d \in Deploy |-> IF deploy[d] = "idle" THEN "idle" ELSE "done"]
    /\ command' = [c \in Command |-> IF command[c].pc = "idle" THEN command[c]
                                                            ELSE Ended(command[c])]
    /\ poll' = [p \in Poll |-> IdlePoll]
    /\ UNCHANGED <<defaultApp, machine, row>>

DeployStep(d) ==
    \/ \E inDefault \in BOOLEAN : CreateMachine(d, inDefault)
    \/ LookUpIp(d)
    \/ InsertRow(d)

Running ==
    \/ \E d \in Deploy : DeployStep(d) \/ Settle(d) \/ MachineExits(d)
    \/ \E c \in Command, kind \in Kind, d \in Deploy : Receive(c, kind, d)
    \/ \E c \in Command : CallFly(c) \/ WriteRow(c)
    \/ \E p \in Poll : BeginPoll(p) \/ PollAnswered(p) \/ PollWrites(p) \/ PollThrows(p)
    \/ Restart

Next ==
    \/ \E d \in Deploy, active \in BOOLEAN : CheckSubscription(d, active)
    \/ \E d \in Deploy : OwnerLeaves(d)
    \/ Running

Spec == Init /\ [][Next]_vars

\* The dashboard polls every five seconds (use-agents.ts, POLL_INTERVAL), Fly and
\* the database answer a poll now and then, and a machine comes to rest.
Fairness ==
    /\ \A p \in Poll : /\ WF_vars(BeginPoll(p))
                       /\ SF_vars(PollAnswered(p))
                       /\ SF_vars(PollWrites(p))
    /\ \A d \in Deploy : WF_vars(Settle(d))
FairSpec == Spec /\ Fairness

-----------------------------------------------------------------------------
(* Properties.                                                             *)

Agrees(d) == (row[d] = "running") <=> (machine[d] = "started")

\* However starts, stops, restarts, crashes and polls overlapped, and whichever of
\* their writes came last, the status of a polled agent in the default app agrees
\* in the end with its machine (agents.routes.ts:95-107 writes what Fly answered).
StatusHeals ==
    \A p \in Poll :
      LET d == PollOf[p]
      IN  <>[](HasRow(d) /\ AtFly(d) => Agrees(d))

\* A machine outlives a row that was deleted only when Fly failed the call that was
\* to destroy it: no order of a delete and the other requests leaves one behind
\* (agents.routes.ts:89-90).  A row that goes with its owner always leaves one.
NoSilentOrphan ==
    \A d \in Deploy :
      row[d] = "deleted" /\ Alive(d) =>
        \E c \in Command : /\ command[c].kind = "delete"
                           /\ command[c].agent = d
                           /\ command[c].flyError

\* A start, stop or poll that was under way when its agent was deleted, or its owner,
\* does not bring the row back (agents.routes.ts:54, 66, 78, 103 update and never
\* create).
DeletedStays ==
    [][\A d \in Deploy : row[d] \in {"deleted", "gone"} => row'[d] = row[d]]_vars
=============================================================================
