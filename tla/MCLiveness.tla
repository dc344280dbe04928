------------------------------ MODULE MCLiveness ------------------------------
(***************************************************************************)
(* What must eventually happen, for TLC: the settling of run commands      *)
(* ("commands"), of a client's traffic reset ("reset"), of the             *)
(* configuration of a Node ("configuration"), and of what the Hub's own    *)
(* core runs ("generation").                                               *)
(***************************************************************************)
EXTENDS NodeCommands

CONSTANTS Nodes, NoNode     \* Nodes that serve the client

VARIABLES
    part,                                               \* the question asked
    counter, base, starts, remembered, exec, stray,     \* TrafficAccounting
    row, charged, adopted, order, sync, mgr, op, local, localTotal, last,
    localCharged, used, asked, trouble,
    assigned, edit, enabledNode, want, thread, lock,    \* NodeDesired
    link, wire, state, rows, running, apply, edits,
    desiredFaults, named, fatalSince,
    saved, active, child, applied, autostart, engine,   \* HubRuntime
    req, hubRequests, hubFaults

\* Two resets, two faults, no traffic.
T == INSTANCE TrafficAccounting WITH
        late <- stray, issued <- asked, faults <- trouble,
        Readers <- {}, MaxBytes <- 0, MaxFaults <- 2
\* Two requests of the owner, one fault.
D == INSTANCE NodeDesired WITH
        core <- running, Inbounds <- {"a"}, Monitor <- "monitor", Owner <- "owner",
        MaxEdits <- 2, DesiredFaults <- 1
\* Two requests, two faults.
H == INSTANCE HubRuntime WITH
        disk <- active, proc <- child, wants <- autostart, eng <- engine,
        Handlers <- {"h1", "h2"}, Endpoints <- {1}, MaxHubRequests <- 2, HubFaults <- 2

tVars == <<counter, base, starts, remembered, exec, stray, row, charged, adopted, order,
           sync, mgr, op, local, localTotal, last, localCharged, used, asked, trouble>>
dVars == <<assigned, edit, enabledNode, want, thread, lock, link, wire, state, rows, running,
           apply, edits, desiredFaults, named, fatalSince>>
hVars == <<saved, active, child, applied, autostart, engine, req, hubRequests, hubFaults>>
liveVars == <<part, vars, tVars, dVars, hVars>>

LiveInit ==
    /\ part \in {"commands", "reset", "configuration", "generation"}
    /\ Init /\ T!Init /\ D!DesiredInit /\ H!RuntimeInit
    /\ part # "commands" => ~control.desired /\ ~armed     \* that machine is off
    /\ part # "configuration" => ~enabledNode
    /\ part # "generation" => ~autostart

Commanding  == part = "commands" /\ Next /\ UNCHANGED <<part, tVars, dVars, hVars>>
Resetting   == part = "reset" /\ T!Next /\ UNCHANGED <<part, vars, dVars, hVars>>
Configuring == part = "configuration" /\ D!DesiredNext /\ UNCHANGED <<part, vars, tVars, hVars>>
Running     == part = "generation" /\ H!RuntimeNext /\ UNCHANGED <<part, vars, tVars, dVars>>

\* A Node that stays disabled, its owner's requests used up; a core nobody starts, or
\* whose generation is the one saved.
Quiet ==
    /\ (part = "configuration" /\ ~enabledNode) \/ part = "generation"
    /\ UNCHANGED liveVars

LiveNext == Commanding \/ Resetting \/ Configuring \/ Running \/ Quiet

\* The fairness of the last two asks nothing where the Node or the core stays off.
LiveSpec ==
    /\ LiveInit /\ [][LiveNext]_liveVars
    /\ (part = "commands" => Fairness)
    /\ (part = "reset" => T!Fairness)
    /\ D!DesiredFairness /\ H!RuntimeFairness

------------------------------------------------------------------------------
\* A requested reset is eventually done, or left for the owner to resolve.
ResetSettles == T!ResetSettles

\* Whatever was lost, refused or killed on the way, the configuration of an enabled Node
\* ends up as the owner left it, and the Hub's core runs what is saved.
ConfigurationSettles == D!ConfigurationSettles /\ H!HubSettles
===============================================================================
