------------------------ MODULE AgentLifecycleProofs -------------------------
(***************************************************************************)
(* Proofs about AgentLifecycle, for every set of deployments, commands and *)
(* dashboards: its types, that a deleted row stays deleted, and that only  *)
(* a call Fly failed leaves a machine behind.                              *)
(***************************************************************************)
EXTENDS AgentLifecycle, TLAPS

-----------------------------------------------------------------------------
(* The inductive invariant.                                                *)

\* A row is inserted once, and not before its machine is there.
Deployed ==
    \A d \in Deploy :
      /\ deploy[d] \in {"idle", "create"} => machine[d] = "none"
      /\ deploy[d] \in {"ip", "insert"} => machine[d] # "none"
      /\ deploy[d] # "done" => row[d] = "absent"

\* What a command knows: Fly is asked for four kinds only, and a delete that goes
\* on to the row without an error has destroyed the machine.
Asked ==
    \A c \in Command :
      /\ command[c].pc = "idle" => ~command[c].flyError
      /\ command[c].pc = "call" => command[c].kind \in {"start", "restart", "stop", "delete"}
      /\ command[c].pc = "write" /\ command[c].kind = "delete" /\ ~command[c].flyError
           => machine[command[c].agent] = "destroyed"

IInv == TypeOK /\ Deployed /\ Asked /\ NoSilentOrphan

-----------------------------------------------------------------------------
(* What the steps do.                                                      *)

\* A destroyed machine stays destroyed, a machine that was alive stays one, and
\* only a deployment makes one.
Machines ==
    \A d \in Deploy :
      /\ machine[d] = "destroyed" => machine'[d] = "destroyed"
      /\ machine[d] # "none" => machine'[d] # "none"
      /\ machine[d] = "none" /\ machine'[d] # "none" => row[d] = "absent"

\* A step that leaves the commands alone, and no row deleted that was not.
LEMMA CommandsKept ==
  ASSUME IInv, Machines, command' = command,
         \A d \in Deploy : row'[d] = "deleted" => row[d] = "deleted"
  PROVE  Asked' /\ NoSilentOrphan'
<1>1. Asked'
  BY DEF IInv, Asked, Machines, TypeOK, CommandState
<1>2. ASSUME NEW d \in Deploy, row'[d] = "deleted", machine'[d] \notin {"none", "destroyed"}
      PROVE  \E c \in Command : /\ command'[c].kind = "delete"
                                /\ command'[c].agent = d
                                /\ command'[c].flyError
  BY <1>2 DEF IInv, NoSilentOrphan, Machines, Alive
<1> QED BY <1>1, <1>2 DEF NoSilentOrphan, Alive

\* A command that Fly was asked for leaves a machine in one of its states.
LEMMA CommandedState ==
  ASSUME NEW kind \in {"start", "restart", "stop", "delete"}, NEW state \in MachineState
  PROVE  /\ Commanded(kind, state) \in MachineState \ {"none"} \/ state = "none"
         /\ Commanded(kind, state) \in MachineState
         /\ kind = "delete" => Commanded(kind, state) = "destroyed"
  BY DEF Commanded, MachineState

\* CreateMachine leaves the invariant (deploy.routes.ts:57).
LEMMA CreateMachineKeeps ==
  ASSUME IInv, NEW d \in Deploy, NEW inDefault \in BOOLEAN, CreateMachine(d, inDefault)
  PROVE  IInv'
<1>1. machine[d] = "none" /\ row[d] = "absent"
  BY DEF IInv, Deployed, CreateMachine
<1>2. TypeOK'
  BY <1>1 DEF IInv, TypeOK, CreateMachine, MachineState
<1>3. Deployed'
  BY <1>1 DEF IInv, TypeOK, Deployed, CreateMachine
<1>4. Machines
  BY <1>1 DEF IInv, TypeOK, CreateMachine, Machines
<1> QED BY <1>2, <1>3, <1>4, CommandsKept DEF IInv, CreateMachine

\* What is left of a request that is over.
LEMMA EndedRequest ==
  ASSUME NEW request \in CommandState
  PROVE  /\ Ended(request) \in CommandState
         /\ Ended(request).pc = "done"
         /\ Ended(request).agent = request.agent
         /\ Ended(request).flyError = request.flyError
         /\ Ended(request).kind = "delete" <=> request.kind = "delete"
BY DEF Ended, CommandState, Kind

\* CallFly leaves the invariant: a delete goes on to the row with the machine
\* destroyed, or with the error remembered (fly-lifecycle.ts, agents.routes.ts:48-89).
LEMMA CallFlyKeeps ==
  ASSUME IInv, NEW c \in Command, CallFly(c)
  PROVE  IInv'
<1> DEFINE d == command[c].agent
           kind == command[c].kind
<1>1. /\ d \in Deploy /\ machine[d] \in MachineState
      /\ kind \in {"start", "restart", "stop", "delete"}
      /\ command[c].pc = "call"
  BY DEF IInv, TypeOK, Asked, CallFly, CommandState
<1>2. \/ UNCHANGED machine
      \/ AtFly(d) /\ machine' = [machine EXCEPT ![d] = Commanded(kind, @)]
  BY DEF CallFly
<1>3. /\ machine' \in [Deploy -> MachineState]
      /\ \A e \in Deploy : machine[e] # "none" => machine'[e] # "none"
  BY <1>1, <1>2, CommandedState DEF IInv, TypeOK, AtFly, Alive
<1>4. Machines
  BY <1>1, <1>2, <1>3, CommandedState DEF IInv, TypeOK, AtFly, Alive, Machines
<1>5. PICK request \in CommandState :
        /\ command' = [command EXCEPT ![c] = request]
        /\ request.agent = d /\ request.pc \in {"write", "done"}
        /\ request.kind = "delete" <=> kind = "delete"
        /\ command[c].flyError => request.flyError
        /\ kind = "delete" /\ request.pc = "write" /\ ~request.flyError
             => machine'[d] = "destroyed"
  <2>0. command \in [Command -> CommandState]
    BY DEF IInv, TypeOK
  <2>1. CASE /\ AtFly(d) /\ machine' = [machine EXCEPT ![d] = Commanded(kind, @)]
             /\ command' = [command EXCEPT ![c].pc = "write"]
    <3>1. [command[c] EXCEPT !.pc = "write"] \in CommandState
      BY <2>0 DEF CommandState
    <3>2. command' = [command EXCEPT ![c] = [command[c] EXCEPT !.pc = "write"]]
      BY <2>1
    <3>3. kind = "delete" => machine'[d] = "destroyed"
      BY <1>1, <2>1, CommandedState DEF IInv, TypeOK
    <3> QED BY <2>0, <3>1, <3>2, <3>3 DEF CommandState
  <2>2. CASE /\ kind = "delete"
             /\ command' = [command EXCEPT ![c] = [@ EXCEPT !.pc = "write", !.flyError = TRUE]]
    <3>1. [command[c] EXCEPT !.pc = "write", !.flyError = TRUE] \in CommandState
      BY <2>0 DEF CommandState
    <3> QED BY <2>0, <2>2, <3>1 DEF CommandState
  <2>3. CASE kind # "delete" /\ command' = [command EXCEPT ![c] = Ended(@)]
    BY <2>0, <2>3, EndedRequest
  <2> QED BY <2>1, <2>2, <2>3 DEF CallFly
<1>6. command' \in [Command -> CommandState]
  BY <1>5 DEF IInv, TypeOK
<1>7. TypeOK'
  BY <1>3, <1>6 DEF IInv, TypeOK, CallFly
<1>8. Deployed'
  BY <1>1, <1>2, <1>3, <1>4 DEF IInv, TypeOK, Deployed, CallFly, Machines, AtFly, Alive
<1>9. Asked'
  BY <1>1, <1>4, <1>5 DEF IInv, TypeOK, Asked, Machines, CommandState
<1>10. NoSilentOrphan'
  <2>1. \A b \in Command : /\ command'[b].kind = "delete" <=> command[b].kind = "delete"
                           /\ command'[b].agent = command[b].agent
                           /\ command[b].flyError => command'[b].flyError
    BY <1>5 DEF IInv, TypeOK, CommandState
  <2>2. row' = row
    BY DEF CallFly
  <2>3. \A e \in Deploy : machine'[e] \notin {"none", "destroyed"} /\ row[e] # "absent"
                            => machine[e] \notin {"none", "destroyed"}
    BY <1>4 DEF Machines
  <2> QED BY <2>1, <2>2, <2>3 DEF IInv, NoSilentOrphan, Alive
<1> QED BY <1>7, <1>8, <1>9, <1>10 DEF IInv

\* WriteRow leaves the invariant: it deletes a row only after the machine was
\* destroyed or the error remembered (agents.routes.ts:54-90).
LEMMA WriteRowKeeps ==
  ASSUME IInv, NEW c \in Command, WriteRow(c)
  PROVE  IInv'
<1> DEFINE d == command[c].agent
           kind == command[c].kind
<1>1. d \in Deploy /\ kind \in Kind /\ command[c].pc = "write"
  BY DEF IInv, TypeOK, WriteRow, CommandState
<1>2. Written(kind) \in RowState \ {"absent"} /\ (Written(kind) = "deleted" => kind = "delete")
  BY <1>1 DEF Written, RowState, Kind
<1>3. \/ UNCHANGED row
      \/ HasRow(d) /\ row' = [row EXCEPT ![d] = Written(kind)]
  BY DEF WriteRow
<1>4. /\ row' \in [Deploy -> RowState]
      /\ \A e \in Deploy : row'[e] # "absent" <=> row[e] # "absent"
      /\ \A e \in Deploy :
           row'[e] = "deleted" => row[e] = "deleted" \/ (e = d /\ kind = "delete")
  <2>1. PICK state \in RowState \ {"absent"} :
          state = Written(kind) /\ (state = "deleted" => kind = "delete")
    BY <1>2
  <2>2. row \in [Deploy -> RowState]
    BY DEF IInv, TypeOK
  <2> HIDE DEF d, kind
  <2>3. CASE UNCHANGED row
    BY <2>2, <2>3
  <2>4. CASE HasRow(d) /\ row' = [row EXCEPT ![d] = state]
    <3>1. row[d] # "absent"
      BY <2>4 DEF HasRow
    <3>2. \A e \in Deploy : row'[e] = IF e = d THEN state ELSE row[e]
      BY <2>2, <2>4
    <3>3. row' \in [Deploy -> RowState]
      BY <1>1, <2>1, <2>2, <2>4
    <3> QED BY <2>1, <3>1, <3>2, <3>3
  <2> QED BY <1>3, <2>1, <2>3, <2>4
<1>5. command' \in [Command -> CommandState]
      /\ \A b \in Command : /\ command'[b].kind = "delete" <=> command[b].kind = "delete"
                            /\ command'[b].agent = command[b].agent
                            /\ command'[b].flyError = command[b].flyError
                            /\ command'[b] = command[b] \/ command'[b].pc = "done"
  <2>1. command \in [Command -> CommandState]
    BY DEF IInv, TypeOK
  <2>2. command' = [command EXCEPT ![c] = Ended(command[c])]
    BY DEF WriteRow
  <2> QED BY <2>1, <2>2, EndedRequest
<1>6. TypeOK' /\ Deployed'
  BY <1>4, <1>5 DEF IInv, TypeOK, Deployed, WriteRow
<1>7. Asked'
  BY <1>5 DEF IInv, Asked, WriteRow
<1>8. NoSilentOrphan'
  <2>1. kind = "delete" => command[c].flyError \/ machine[d] = "destroyed"
    BY <1>1 DEF IInv, Asked
  <2>2. machine' = machine
    BY DEF WriteRow
  <2> QED BY <1>4, <1>5, <2>1, <2>2 DEF IInv, NoSilentOrphan, Alive
<1> QED BY <1>6, <1>7, <1>8 DEF IInv

-----------------------------------------------------------------------------
(* The theorems.                                                           *)

\* The invariant is inductive.
THEOREM Inductive == Spec => []IInv
<1> USE AgentAssumption
<1>1. Init => IInv
  <2>1. PICK e \in Deploy : e = CHOOSE d \in Deploy : TRUE
    OBVIOUS
  <2>2. IdleCommand = [pc |-> "idle", kind |-> "start", agent |-> e, flyError |-> FALSE]
    BY <2>1 DEF IdleCommand
  <2>3. IdlePoll \in PollState
    BY DEF IdlePoll, PollState, MachineState, RowState
  <2>4. IdleCommand \in CommandState /\ IdleCommand.pc = "idle" /\ ~IdleCommand.flyError
    BY <2>2 DEF CommandState, Kind
  <2>5. Init => TypeOK
    BY <2>3, <2>4 DEF Init, TypeOK, MachineState, RowState
  <2>6. Init => Deployed /\ Asked /\ NoSilentOrphan
    BY <2>4 DEF Init, Deployed, Asked, NoSilentOrphan
  <2> QED BY <2>5, <2>6 DEF IInv
<1>2. IInv /\ [Next]_vars => IInv'
  <2> SUFFICES ASSUME IInv, [Next]_vars PROVE IInv'
    OBVIOUS
  <2>1. ASSUME NEW d \in Deploy, NEW active \in BOOLEAN, CheckSubscription(d, active)
        PROVE  IInv'
    <3>1. TypeOK' /\ Deployed' /\ Machines
      BY <2>1 DEF IInv, TypeOK, Deployed, CheckSubscription, Machines
    <3> QED BY <2>1, <3>1, CommandsKept DEF IInv, CheckSubscription
  <2>2. ASSUME NEW d \in Deploy, DeployStep(d) PROVE IInv'
    <3>1. ASSUME LookUpIp(d) PROVE IInv'
      <4>1. TypeOK' /\ Deployed' /\ Machines
        BY <3>1 DEF IInv, TypeOK, Deployed, LookUpIp, Machines
      <4> QED BY <3>1, <4>1, CommandsKept DEF IInv, LookUpIp
    <3>2. ASSUME InsertRow(d) PROVE IInv'
      <4>1. TypeOK' /\ Deployed' /\ Machines
        BY <3>2 DEF IInv, TypeOK, Deployed, InsertRow, Machines, RowState
      <4>2. \A e \in Deploy : row'[e] = "deleted" => row[e] = "deleted"
        BY <3>2 DEF IInv, TypeOK, InsertRow
      <4> QED BY <3>2, <4>1, <4>2, CommandsKept DEF IInv, InsertRow
    <3> QED BY <2>2, <3>1, <3>2, CreateMachineKeeps DEF DeployStep
  <2>3. ASSUME NEW d \in Deploy, Settle(d) \/ MachineExits(d) PROVE IInv'
    <3>1. TypeOK' /\ Deployed' /\ Machines
      BY <2>3 DEF IInv, TypeOK, Deployed, Settle, MachineExits, Machines, MachineState
    <3> QED BY <2>3, <3>1, CommandsKept DEF IInv, Settle, MachineExits
  <2>4. ASSUME NEW c \in Command, NEW kind \in Kind, NEW d \in Deploy, Receive(c, kind, d)
        PROVE  IInv'
    <3>1. PICK pc \in {"call", "write"} :
            /\ command' = [command EXCEPT ![c] = [@ EXCEPT
                             !.pc = pc, !.kind = kind, !.agent = d]]
            /\ pc = "write" <=> kind \in {"v1 start", "v1 stop"}
      BY <2>4 DEF Receive
    <3>2. command' \in [Command -> CommandState]
      BY <3>1 DEF IInv, TypeOK, CommandState
    <3>a. TypeOK' /\ Deployed'
      BY <2>4, <3>2 DEF IInv, TypeOK, Deployed, Receive
    <3>b. /\ command'[c].pc = pc /\ command'[c].kind = kind
          /\ command'[c].flyError = command[c].flyError
          /\ \A b \in Command : b # c => command'[b] = command[b]
      BY <3>1 DEF IInv, TypeOK, CommandState
    <3>c. command[c].pc = "idle" /\ machine' = machine
      BY <2>4 DEF Receive
    <3>3. Asked'
      BY <3>1, <3>b, <3>c DEF IInv, Asked, Kind
    <3>4. \A b \in Command : command[b].flyError => command'[b] = command[b]
      BY <3>b, <3>c DEF IInv, Asked
    <3>5. NoSilentOrphan'
      <4>1. row' = row /\ machine' = machine
        BY <2>4 DEF Receive
      <4> QED BY <3>4, <4>1 DEF IInv, NoSilentOrphan, Alive
    <3> QED BY <3>a, <3>3, <3>5 DEF IInv
  <2>5. ASSUME NEW p \in Poll, BeginPoll(p) \/ PollAnswered(p) \/ PollThrows(p)
        PROVE  IInv'
    <3>1. poll' \in [Poll -> PollState]
      <4>1. IdlePoll \in PollState
        BY DEF IdlePoll, PollState, MachineState, RowState
      <4>2. PICK d \in Deploy : d = PollOf[p]
        OBVIOUS
      <4>3. [pc |-> "call", seen |-> row[d], state |-> "none"] \in PollState
        BY DEF IInv, TypeOK, PollState, MachineState
      <4>4. [poll[p] EXCEPT !.pc = "write", !.state = machine[d]] \in PollState
        BY DEF IInv, TypeOK, PollState
      <4>5. \E next \in PollState : poll' = [poll EXCEPT ![p] = next]
        BY <2>5, <4>1, <4>2, <4>3, <4>4 DEF BeginPoll, PollAnswered, PollThrows
      <4> QED BY <4>5 DEF IInv, TypeOK
    <3>2. TypeOK' /\ Deployed' /\ Machines
      BY <2>5, <3>1
      DEF IInv, TypeOK, Deployed, Machines, BeginPoll, PollAnswered, PollThrows
    <3> QED BY <2>5, <3>2, CommandsKept DEF IInv, BeginPoll, PollAnswered, PollThrows
  <2>6. ASSUME NEW p \in Poll, PollWrites(p) PROVE IInv'
    <3>1. PICK state \in {"running", "stopped"} :
            row' = [row EXCEPT ![PollOf[p]] = state]
      BY <2>6 DEF PollWrites
    <3>2. HasRow(PollOf[p]) /\ PollOf[p] \in Deploy
      BY <2>6 DEF PollWrites
    <3>3. poll' \in [Poll -> PollState]
      BY <2>6 DEF IInv, TypeOK, PollWrites, IdlePoll, PollState, MachineState, RowState
    <3>4. row' \in [Deploy -> RowState]
          /\ \A d \in Deploy : /\ row'[d] # "absent" <=> row[d] # "absent"
                               /\ row'[d] = "deleted" => row[d] = "deleted"
      BY <3>1, <3>2 DEF IInv, TypeOK, HasRow, RowState
    <3>5. TypeOK' /\ Deployed' /\ Machines
      BY <2>6, <3>3, <3>4 DEF IInv, TypeOK, Deployed, Machines, PollWrites
    <3> QED BY <2>6, <3>4, <3>5, CommandsKept DEF IInv, PollWrites
  <2>7. ASSUME Restart PROVE IInv'
    <3>0. command \in [Command -> CommandState]
      BY DEF IInv, TypeOK
    <3>1. \A c \in Command : /\ command'[c] \in CommandState
                             /\ command'[c].kind = "delete" <=> command[c].kind = "delete"
                             /\ command'[c].agent = command[c].agent
                             /\ command'[c].flyError = command[c].flyError
                             /\ command'[c].pc = IF command[c].pc = "idle" THEN "idle"
                                                                           ELSE "done"
      BY <2>7, <3>0, EndedRequest DEF Restart
    <3>2. TypeOK'
      <4>2. command' \in [Command -> CommandState]
        BY <2>7, <3>1 DEF Restart
      <4>3. IdlePoll \in PollState
        BY DEF IdlePoll, PollState, MachineState, RowState
      <4>4. poll' \in [Poll -> PollState]
        BY <2>7, <4>3 DEF Restart
      <4> QED BY <2>7, <4>2, <4>4 DEF IInv, TypeOK, Restart
    <3>3. Deployed' /\ Asked' /\ NoSilentOrphan'
      BY <2>7, <3>1 DEF IInv, Deployed, Asked, NoSilentOrphan, Restart, Alive
    <3> QED BY <3>2, <3>3 DEF IInv
  <2>a. ASSUME NEW d \in Deploy, OwnerLeaves(d) PROVE IInv'
    <3>1. \A e \in Deploy : row'[e] = IF e = d THEN "gone" ELSE row[e]
      BY <2>a DEF IInv, TypeOK, OwnerLeaves
    <3>2. row[d] # "absent" /\ row' \in [Deploy -> RowState]
      BY <2>a DEF IInv, TypeOK, OwnerLeaves, HasRow, RowState
    <3>3. TypeOK' /\ Deployed' /\ Machines
      BY <2>a, <3>1, <3>2 DEF IInv, TypeOK, Deployed, OwnerLeaves, Machines
    <3> QED BY <2>a, <3>1, <3>3, CommandsKept DEF IInv, OwnerLeaves
  <2>8. CASE UNCHANGED vars
    BY <2>8 DEF vars, IInv, TypeOK, Deployed, Asked, NoSilentOrphan, Alive
  <2> QED BY <2>1, <2>2, <2>3, <2>4, <2>5, <2>6, <2>7, <2>8, <2>a, CallFlyKeeps, WriteRowKeeps
          DEF Next, Running
<1> QED BY <1>1, <1>2, PTL DEF Spec

\* Rows, machines, commands and polls keep their types, and no agent has a row
\* before its machine (deploy.routes.ts:57-84).
THEOREM AgentsTyped == Spec => []TypeOK
BY Inductive, PTL DEF IInv

\* Whatever requests overlap with a delete, a machine that outlives its agent's row
\* is one Fly did not answer for (agents.routes.ts:89-90).
THEOREM OrphansExplained == Spec => []NoSilentOrphan
BY Inductive, PTL DEF IInv

\* No step brings back a row that was deleted or is gone with its owner.
THEOREM DeletedForGood == Spec => DeletedStays
<1>1. IInv /\ [Next]_vars
        => [\A d \in Deploy : row[d] \in {"deleted", "gone"} => row'[d] = row[d]]_vars
  <2> SUFFICES ASSUME IInv, Next, NEW d \in Deploy, row[d] \in {"deleted", "gone"},
                      row'[d] # row[d]
               PROVE  FALSE
    OBVIOUS
  <2>1. ASSUME NEW e \in Deploy, InsertRow(e) PROVE FALSE
    BY <2>1 DEF IInv, TypeOK, Deployed, InsertRow
  <2>2. ASSUME NEW c \in Command, WriteRow(c) PROVE FALSE
    BY <2>2 DEF IInv, TypeOK, WriteRow, HasRow
  <2>3. ASSUME NEW p \in Poll, PollWrites(p) PROVE FALSE
    BY <2>3 DEF IInv, TypeOK, PollWrites, HasRow
  <2>4. ASSUME NEW e \in Deploy, OwnerLeaves(e) PROVE FALSE
    BY <2>4 DEF IInv, TypeOK, OwnerLeaves, HasRow
  <2> QED BY <2>1, <2>2, <2>3, <2>4 DEF Next, Running, DeployStep, CheckSubscription, CreateMachine,
             LookUpIp, Settle, MachineExits, Receive, CallFly, BeginPoll, PollAnswered,
             PollThrows, Restart
<1> QED BY <1>1, Inductive, PTL DEF Spec, DeletedStays
=============================================================================
