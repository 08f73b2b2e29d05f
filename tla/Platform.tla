------------------------------ MODULE Platform ------------------------------
(***************************************************************************)
(* Deployment against subscriptions: Billing and AgentLifecycle composed   *)
(* at the one call between them, requireActiveSubscription at the start of *)
(* POST /deploy-agent (backend/routes/deploy.routes.ts).  Without          *)
(* ALLOW_DEPLOY_WITHOUT_SUBSCRIPTION, as in production.                    *)
(***************************************************************************)
EXTENDS Billing

CONSTANTS
    Deploy, Command, Poll, PollOf,
    DeployUser    \* DeployUser[d] is the user who sends deployment request d

VARIABLES
    deploy, defaultApp, machine, row, command, poll

A == INSTANCE AgentLifecycle

ASSUME PlatformAssumption ==
    /\ DeployUser \in [Deploy -> User]
    /\ A!AgentAssumption

billing == <<now, stripe, log, answered, rows, applied, inOrder>>
agents == <<deploy, defaultApp, machine, row, command, poll>>

PlatformInit == Init /\ A!Init

\* Mutant of CheckSubscription: the answer is not looked at.
CheckNothing(d) ==
    /\ A!CheckSubscription(d, TRUE)
    /\ UNCHANGED billing

\* requireActiveSubscription reads the rows and lets the request go on or not.
CheckSubscription(d) ==
    /\ A!CheckSubscription(d, hasActiveSubscription(DeployUser[d]))
    /\ UNCHANGED billing

PlatformNext ==
    \/ Next /\ UNCHANGED agents
    \/ A!Running /\ UNCHANGED billing
    \/ \E d \in Deploy : CheckSubscription(d)

PlatformSpec == PlatformInit /\ [][PlatformNext]_<<billing, agents>>

-----------------------------------------------------------------------------
(* Properties.                                                             *)

\* The subscription table has one row per subscription whatever Stripe sends again
\* (prisma/schema.prisma:39), and no agent row exists without its machine.
PlatformTypeOK == TypeOK /\ A!TypeOK

SubsOf(u) == {s \in Sub : SubUser[s] = u}
Admitted(d) == deploy[d] = "idle" /\ deploy'[d] = "create"
Pays(u) == \E s \in SubsOf(u) : stripe[s] = "active"

\* Every machine was made for a user who at some time bought a subscription,
\* whatever order, repetition or loss of events (deploy.routes.ts:29,
\* subscription.ts:14-50).
MachinesWerePaidFor ==
    \A d \in Deploy :
      machine[d] # "none" => \E s \in SubsOf(DeployUser[d]) : stripe[s] # "none"

\* When the events of all subscriptions of a user have been applied in order, the
\* user is let through to Fly only while one of them is active at Stripe: a user
\* who cancelled or whose payment failed is not (stripe.routes.ts:69-88,
\* subscription.ts:14-36).
OrderedDeploysPaid ==
    [][\A d \in Deploy :
         Admitted(d) /\ (\A s \in SubsOf(DeployUser[d]) : UpToDate(s))
           => Pays(DeployUser[d])]_<<billing, agents>>

\* PRODUCTION_CHECKLIST.md:63 "Deploy should require an active subscription so only
\* paying users can deploy agents": once the webhook has answered every event, only
\* a user with an active subscription is let through.
OnlyPayingUsersDeploy ==
    [][\A d \in Deploy :
         Admitted(d) /\ (\A s \in SubsOf(DeployUser[d]) : answered[s] = DOMAIN log[s])
           => Pays(DeployUser[d])]_<<billing, agents>>
=============================================================================
