--------------------------- MODULE MCNodeLifecycle ---------------------------
(***************************************************************************)
(* The life of one Node between Hub and Agent, for TLC: its run commands,  *)
(* the replacement of its machine, the staged activation of the new one,   *)
(* the pairing of a machine that is not registered yet, its updates, the   *)
(* configuration the Hub stores, its delivery to a Node, and what the      *)
(* Hub's own core runs of it.                                              *)
(* The protocols touch disjoint rows and hold each other off with the      *)
(* checks their modules model; a behaviour exercises one of them.          *)
(***************************************************************************)
EXTENDS NodeCommands, NodeUpdater, TLC

CONSTANTS
    HubWorkers,         \* threads of the Hub
    Attempts,           \* replacements of the Node's machine, numbered from 1
    Pairings,           \* pairings of one more machine, numbered from 1
    OwnTokens,          \* tokens the owner may choose for it
    StageEdits,         \* edits of the configuration while a machine is activated
    StageCommands,      \* bound on the revision of its run commands
    NodeInbounds,       \* inbounds the Hub may assign to the Node
    ConfigEdits,        \* edits of the Node's desired configuration
    ConfigFaults,       \* failures while it is delivered
    StoreInbounds,      \* identities of the Hub's own inbounds, numbered in their order
    DataPorts,          \* ports the owner asks for
    PanelPort,          \* the port of the panel
    Customers,          \* customers attached to the inbounds
    OwnerEdits,         \* edits of the store
    Handlers,           \* request threads that apply a configuration
    Endpoints,          \* WARP endpoints, numbered from 1
    HubRequests,        \* their requests
    HubFaults           \* failed starts and crashes meanwhile

\* Rows, ports and endpoints are numbered from 1: a number of 0 says that there is none.
ASSUME LifecycleAssumption ==
    /\ 0 \notin Attempts /\ 0 \notin Pairings /\ 0 \notin Endpoints
    /\ StageEdits \in Nat /\ StageCommands \in Nat \ {0}
    /\ ConfigEdits \in Nat /\ ConfigFaults \in Nat /\ OwnerEdits \in Nat
    /\ HubRequests \in Nat /\ HubFaults \in Nat
    /\ StoreInbounds \subseteq Nat \ {0} /\ DataPorts \subseteq Nat \ {0}
    /\ PanelPort \in Nat \ {0}
    /\ {"none", "pass", "owner"} \intersect Handlers = {}

VARIABLES
    part,                                               \* the protocol exercised
    bind, journal, history, machine, net, op,           \* NodeReplacement
    conf, desired, command, deploy, act, enabled,       \* NodeActivation
    reviewed, server, sent, work, starts,
    pairing, pairEnd, hubToken, handoff, spent,         \* NodePairing
    candidate, posts, task,
    assigned, edit, enabledNode, want, thread, lock,    \* NodeDesired
    link, wire, state, rows, running, apply, edits,
    desiredFaults, named, fatalSince,
    inb, born, sec, attached, wished, allowed, matrix,  \* ConfigStore
    tail, checked, ownerEdits,
    saved, active, child, applied, autostart, engine,   \* HubRuntime
    req, hubRequests, hubFaults

R == INSTANCE NodeReplacement WITH
        receipt <- history
A == INSTANCE NodeActivation WITH
        control <- command, agent <- server, job <- work, MaxEdits <- StageEdits,
        MaxCommands <- StageCommands
P == INSTANCE NodePairing WITH
        agent <- candidate, PairWorkers <- HubWorkers, MaxPairRevision <- MaxRevision
D == INSTANCE NodeDesired WITH
        core <- running, Inbounds <- NodeInbounds, Monitor <- "monitor", Owner <- "owner",
        MaxEdits <- ConfigEdits, DesiredFaults <- ConfigFaults
C == INSTANCE ConfigStore WITH
        core <- attached, row <- wished, Inbounds <- StoreInbounds, MaxOwnerEdits <- OwnerEdits
H == INSTANCE HubRuntime WITH
        disk <- active, proc <- child, wants <- autostart, eng <- engine,
        MaxHubRequests <- HubRequests

rVars == <<bind, journal, history, machine, net, op>>
aVars == <<conf, desired, command, deploy, act, enabled, reviewed, server, sent, work, starts>>
pVars == <<pairing, pairEnd, hubToken, handoff, spent, candidate, posts, task>>
dVars == <<assigned, edit, enabledNode, want, thread, lock, link, wire, state, rows, running,
           apply, edits, desiredFaults, named, fatalSince>>
cVars == <<inb, born, sec, attached, wished, allowed, matrix, tail, checked, ownerEdits>>
hVars == <<saved, active, child, applied, autostart, engine, req, hubRequests, hubFaults>>
lifecycleVars == <<part, vars, rVars, aVars, pVars, nodeUpdateVars, dVars, cVars, hVars>>
Symmetry == Permutations(Ids) \cup Permutations(HubWorkers)

LifecycleInit ==
    /\ part \in {"commands", "replacement", "activation", "pairing", "update",
             "configuration", "store", "generation"}
    /\ Init /\ R!ReplacementInit /\ A!ActivationInit /\ P!PairInit
    /\ NodeUpdateInit /\ D!DesiredInit /\ C!StoreInit /\ H!RuntimeInit
    \* The machines of the other parts are off.
    /\ part # "commands" => ~control.desired /\ ~armed
    /\ part # "replacement" => \A a \in Attempts : ~machine[a].running
    /\ part # "pairing" => ~candidate.running
    /\ part # "configuration" => ~enabledNode
    /\ part # "generation" => ~autostart

\* Bounded attempts, edits and revisions: these parts come to an end.
OutOfBounds ==
    part # "commands" /\ UNCHANGED lifecycleVars

Commanding ==
    /\ part = "commands" /\ Next
    /\ UNCHANGED <<part, rVars, aVars, pVars, nodeUpdateVars, dVars, cVars, hVars>>
Replacing ==
    /\ part = "replacement" /\ R!ReplacementNext
    /\ UNCHANGED <<part, vars, aVars, pVars, nodeUpdateVars, dVars, cVars, hVars>>
Activating ==
    /\ part = "activation" /\ A!ActivationNext
    /\ UNCHANGED <<part, vars, rVars, pVars, nodeUpdateVars, dVars, cVars, hVars>>
Pairing ==
    /\ part = "pairing" /\ P!PairNext
    /\ UNCHANGED <<part, vars, rVars, aVars, nodeUpdateVars, dVars, cVars, hVars>>
Updating ==
    /\ part = "update" /\ NodeUpdateNext
    /\ UNCHANGED <<part, vars, rVars, aVars, pVars, dVars, cVars, hVars>>
Configuring ==
    /\ part = "configuration" /\ D!DesiredNext
    /\ UNCHANGED <<part, vars, rVars, aVars, pVars, nodeUpdateVars, cVars, hVars>>
Storing ==
    /\ part = "store" /\ C!StoreNext
    /\ UNCHANGED <<part, vars, rVars, aVars, pVars, nodeUpdateVars, dVars, hVars>>
Running ==
    /\ part = "generation" /\ H!RuntimeNext
    /\ UNCHANGED <<part, vars, rVars, aVars, pVars, nodeUpdateVars, dVars, cVars>>

LifecycleNext ==
    \/ Commanding \/ Replacing \/ Activating \/ Pairing \/ Updating \/ Configuring
    \/ Storing \/ Running \/ OutOfBounds

LifecycleSpec == LifecycleInit /\ [][LifecycleNext]_lifecycleVars

------------------------------------------------------------------------------
\* A part that is not exercised keeps its initial state, so each is checked where it runs.

\* The rows and messages of every protocol keep their types.
LifecycleTypeOK ==
    CASE part = "commands"      -> TypeOK
      [] part = "replacement"   -> R!ReplacementTypeOK
      [] part = "activation"    -> A!ActivationTypeOK
      [] part = "pairing"       -> P!PairTypeOK
      [] part = "update"        -> NodeUpdateTypeOK
      [] part = "configuration" -> D!DesiredTypeOK
      [] part = "store"         -> C!StoreTypeOK
      [] part = "generation"    -> H!RuntimeTypeOK

\* The Hub never loses access to a machine it bound or prepares, by replacement
\* (HubHoldsToken) or by pairing and token handoff (HubKeepsAccess); a machine it has
\* discarded stays stopped and revoked.
TakeoverIsSafe ==
    /\ part = "replacement" => R!HubHoldsToken /\ R!DiscardedIsRevoked
    /\ part = "pairing" => P!HubKeepsAccess /\ P!DiscardedPairingIsRevoked

\* NodeActivation: the hold keeps the server off, what is paused can be finished, and
\* the new machine is started once.
ActivationHolds == part = "activation" => A!HeldIsOff /\ A!PauseCanFinish /\ A!StartsOnce

\* The binding moves to a proven, idle machine only, and what is started on it was reviewed.
TakeoverIsReviewed == R!SwitchIsProven /\ A!ActivatedAsReviewed

\* NodeDesired: what the Hub holds for applied is what the Node carries, and only such
\* routes are offered.
DesiredStateHolds == part = "configuration" => D!DesiredStateHolds

\* ConfigStore and HubRuntime: the stored configuration stays free of dangling references
\* and of colliding ports, and the core runs, on disk and by its hash, one generation.
HubConfigurationHolds ==
    /\ part = "store" => C!StoreIsClosed
    /\ part = "generation" => H!RuntimeIsSound
=============================================================================
