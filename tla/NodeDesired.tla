------------------------------ MODULE NodeDesired ------------------------------
(***************************************************************************)
(* Configuration of one Node: the Hub compiles its desired state, numbers  *)
(* every change of it, and delivers it over a link that fails; the Agent   *)
(* replaces its rows and restarts Xray in crash-separable steps, and puts  *)
(* everything back when Xray does not start.  The hash of a document is    *)
(* the document.  Run control is NodeCommands; here the core should run.   *)
(***************************************************************************)
EXTENDS Integers, FiniteSets

CONSTANTS
    Inbounds,
    Monitor, Owner,     \* the Node's monitor thread and a request of the owner
    MaxEdits,           \* bounds: the owner's requests, and faults
    DesiredFaults

VARIABLES
    assigned,   \* remote_node_inbounds: per inbound no row, or new, deployed, failed
    edit,       \* everything else a document is compiled from
    enabledNode,
    want,       \* remote_node_desired_state: revision and document, wanted and applied
    thread,     \* what each thread of the Hub is doing
    lock,       \* _node_operation of this Node
    link,       \* last_error of the Node, consecutive failures, last_seen since it was enabled
    wire,       \* state/apply requests on their way
    state,      \* node_runtime_state of the Agent: revision, document, error
    rows,       \* the document the Agent's tables hold
    core,       \* the document Xray runs; Off
    apply,      \* the request being applied under engine.lock
    edits, desiredFaults,
    named,      \* history: the document of each revision
    fatalSince  \* history: an identity or TLS failure since the last success

desiredVars == <<assigned, edit, enabledNode, want, thread, lock, link, wire, state, rows, core,
                 apply, edits, desiredFaults, named, fatalSince>>

HubThreads == {Monitor, Owner}
Off == [inb |-> {}, edit |-> -1]
Blank == [inb |-> {}, edit |-> 0]
Rest == [pc |-> "rest", rev |-> 0, doc |-> Blank]
NoApply == [pc |-> "none", by |-> "gone", rev |-> 0, doc |-> Blank, old |-> Blank]

DesiredInit ==
    /\ assigned = [i \in Inbounds |-> "none"] /\ edit = 0 /\ enabledNode \in BOOLEAN
    /\ want = [rev |-> 0, doc |-> Blank, appliedRev |-> 0, applied |-> Blank, err |-> FALSE]
    /\ thread = [w \in HubThreads |-> Rest] /\ lock = "free"
    /\ link = [err |-> "none", n |-> 0, seen |-> FALSE]
    /\ wire = {} /\ state = [rev |-> 0, doc |-> Blank, err |-> FALSE]
    /\ rows = Blank /\ core = Blank /\ apply = NoApply
    /\ edits = 0 /\ desiredFaults = 0
    /\ named = [r \in 0..(3*MaxEdits+1) |-> Blank] /\ fatalSince = FALSE

Assigned == {i \in Inbounds : assigned[i] # "none"}
Compiled == [inb |-> Assigned, edit |-> edit]
Due == want.rev # want.appliedRev \/ want.err
DesiredFault == desiredFaults < DesiredFaults /\ desiredFaults' = desiredFaults + 1

hubConfig == <<assigned, edit, enabledNode, edits>>
agentVars == <<state, rows, core, apply>>

---------------------------------------------------------------------------
(* The owner changes the configuration. *)

Edits ==
    /\ edits < MaxEdits /\ edits' = edits + 1
    /\ UNCHANGED <<want, thread, lock, link, wire, agentVars, desiredFaults, named, fatalSince>>

\* set_inbound_assignment; a row that is there keeps what it says.
Assign(i) ==
    /\ Edits
    /\ assigned' = [assigned EXCEPT ![i] = IF @ = "none" THEN "new" ELSE "none"]
    /\ UNCHANGED <<edit, enabledNode>>

\* Limits, sections, hosts, certificates.
Change == Edits /\ edit' = edit + 1 /\ UNCHANGED <<assigned, enabledNode>>

\* set_enabled and put forget what was known of the connection, but not the count of its
\* failures.
Enable ==
    /\ edits < MaxEdits /\ edits' = edits + 1
    /\ enabledNode' = ~enabledNode /\ link' = [link EXCEPT !.err = "none", !.seen = FALSE]
    /\ UNCHANGED <<assigned, edit, want, thread, lock, wire, agentVars, desiredFaults, named,
                   fatalSince>>

---------------------------------------------------------------------------
(* A thread of the Hub: ensure_node_desired_state, then sync_desired_state *)

\* build_node_desired_payload reads the configuration without a lock.
Build(w) ==
    /\ thread[w] = Rest
    /\ IF w = Monitor THEN enabledNode /\ UNCHANGED edits
       ELSE edits < MaxEdits /\ edits' = edits + 1
    /\ thread' = [thread EXCEPT ![w] = [pc |-> "built", rev |-> 0, doc |-> Compiled]]
    /\ UNCHANGED <<assigned, edit, enabledNode, want, lock, link, wire, agentVars, desiredFaults,
                   named, fatalSince>>

\* set_desired_state numbers a document that differs, then the row is read back.
Store(w) ==
    /\ thread[w].pc = "built"
    /\ IF thread[w].doc = want.doc /\ want.rev > 0 THEN want' = want
       ELSE /\ want.rev < 3*MaxEdits+1     \* the cap of named
            /\ want' = [want EXCEPT !.rev = @ + 1, !.doc = thread[w].doc, !.err = FALSE]
    /\ named' = [named EXCEPT ![want'.rev] = want'.doc]
    /\ thread' = [thread EXCEPT ![w] = [pc |-> "stored", rev |-> want'.rev, doc |-> want'.doc]]
    /\ UNCHANGED <<hubConfig, lock, link, wire, agentVars, desiredFaults, fatalSince>>

\* Nothing to deliver for the monitor; the owner's request may only store.
Rests(w) ==
    /\ thread[w].pc = "stored"
    /\ w = Monitor => ~Due \/ ~enabledNode
    /\ thread' = [thread EXCEPT ![w] = Rest]
    /\ UNCHANGED <<hubConfig, want, lock, link, wire, agentVars, desiredFaults, named,
                   fatalSince>>

\* Under the lock of the Node the row must still be what was stored.
Deliver(w) ==
    /\ thread[w].pc = "stored" /\ lock = "free" /\ enabledNode
    /\ w = Monitor => Due
    /\ IF thread[w].rev = want.rev
       THEN /\ lock' = w /\ thread' = [thread EXCEPT ![w].pc = "sent"]
            /\ wire' = wire \union {[by |-> w, rev |-> want.rev, doc |-> want.doc]}
       ELSE /\ thread' = [thread EXCEPT ![w] = Rest]
            /\ UNCHANGED <<lock, wire>>
    /\ UNCHANGED <<hubConfig, want, link, agentVars, desiredFaults, named, fatalSince>>

\* _request_ok: the answer clears what was held against the connection.
Answered == link' = [err |-> "none", n |-> 0, seen |-> TRUE] /\ fatalSince' = FALSE

\* The row and the assignments must not have changed meanwhile.
Matches(w) == thread[w].rev = want.rev /\ thread[w].doc.inb \subseteq Assigned

\* The transaction that records the acknowledgement, with the rows of the assignments.
Acknowledge(w) ==
    /\ thread[w].pc = "ok" /\ lock = w
    /\ IF Matches(w)
       THEN /\ assigned' = [i \in Inbounds |->
                               IF assigned[i] = "none" THEN "none"
                               ELSE IF i \in thread[w].doc.inb THEN "deployed" ELSE "failed"]
            /\ want' = [want EXCEPT !.appliedRev = thread[w].rev, !.applied = thread[w].doc,
                                    !.err = FALSE]
       ELSE UNCHANGED <<assigned, want>>
    /\ lock' = "free" /\ thread' = [thread EXCEPT ![w] = Rest]
    /\ UNCHANGED <<edit, enabledNode, edits, link, wire, agentVars, desiredFaults, named,
                   fatalSince>>

\* mark_desired_state with an error, refused for a revision that is no longer wanted.
MarkError(w) ==
    want' = IF thread[w].rev = want.rev THEN [want EXCEPT !.err = TRUE] ELSE want

\* Faulty variant: a failed call keeps the Node's lock.
HoldingGone(w) ==
    /\ wire' = {[m EXCEPT !.by = IF @ = w THEN "gone" ELSE @] : m \in wire}
    /\ apply' = [apply EXCEPT !.by = IF @ = w THEN "gone" ELSE @]
    /\ thread' = [thread EXCEPT ![w] = Rest] /\ UNCHANGED lock

\* The caller gives up; its request is delivered all the same, or applied already.
Gone(w) ==
    /\ wire' = {[m EXCEPT !.by = IF @ = w THEN "gone" ELSE @] : m \in wire}
    /\ apply' = [apply EXCEPT !.by = IF @ = w THEN "gone" ELSE @]
    /\ lock' = "free" /\ thread' = [thread EXCEPT ![w] = Rest]

\* A further timeout does not clear an identity or TLS failure.
Failed(kind) ==
    link' = [link EXCEPT !.err = IF @ = "fatal" THEN "fatal" ELSE kind,
                         !.n = IF @ < 3 THEN @ + 1 ELSE 3]

\* _request_failed: the caller goes, the request perhaps does not.
CallFails(w, kind) ==
    /\ thread[w].pc = "sent"
    /\ \/ DesiredFault
       \/ /\ \A m \in wire : m.by # w
          /\ apply.by # w /\ kind = "transient" /\ UNCHANGED desiredFaults
    /\ Failed(kind) /\ fatalSince' = (fatalSince \/ kind = "fatal")
    /\ MarkError(w) /\ Gone(w)
    /\ UNCHANGED <<hubConfig, state, rows, core, named>>

\* An HTTP error is a failure too, and one that is not of the passing kind.
CallRefused(w) ==
    /\ thread[w].pc = "refused"
    /\ Failed("fatal") /\ fatalSince' = TRUE
    /\ MarkError(w) /\ Gone(w)
    /\ UNCHANGED <<hubConfig, desiredFaults, state, rows, core, named>>

\* Any other request to the Node, its health first of all.
OtherCall(kind) ==
    /\ enabledNode
    /\ \/ kind = "none" /\ Answered /\ UNCHANGED desiredFaults
       \/ /\ kind # "none" /\ DesiredFault
          /\ Failed(kind) /\ fatalSince' = (fatalSince \/ kind = "fatal")
    /\ UNCHANGED <<hubConfig, want, thread, lock, wire, agentVars, named>>

HubRestarts ==
    /\ DesiredFault
    /\ thread' = [w \in HubThreads |-> Rest] /\ lock' = "free"
    /\ wire' = {[m EXCEPT !.by = "gone"] : m \in wire} /\ apply' = [apply EXCEPT !.by = "gone"]
    /\ UNCHANGED <<hubConfig, want, link, state, rows, core, named, fatalSince>>

---------------------------------------------------------------------------
(* The Agent *)

Tell(w, answer) ==
    IF w = "gone" THEN UNCHANGED <<thread, link, fatalSince>>
    ELSE /\ thread' = [thread EXCEPT ![w].pc = answer]
         /\ IF answer = "ok" THEN Answered ELSE UNCHANGED <<link, fatalSince>>

\* Faulty variant: only a revision that names two documents is refused.
RefusedConflict(m) == m.rev = state.rev /\ m.doc # state.doc

\* An older revision, or a revision that names two documents.
Refused(m) == m.rev < state.rev \/ (m.rev = state.rev /\ m.doc # state.doc)
Known(m) == m.rev = state.rev /\ m.doc = state.doc /\ ~state.err

\* _apply_locked, to the end of its comparison of revisions.
Arrive(m) ==
    /\ apply.pc = "none" /\ wire' = wire \ {m}
    /\ IF Refused(m) THEN Tell(m.by, "refused") /\ UNCHANGED apply
       ELSE IF Known(m) THEN Tell(m.by, "ok") /\ UNCHANGED apply
       ELSE /\ apply' = [pc |-> "stop", by |-> m.by, rev |-> m.rev, doc |-> m.doc, old |-> rows]
            /\ UNCHANGED <<thread, link, fatalSince>>
    /\ UNCHANGED <<hubConfig, want, lock, state, rows, core, desiredFaults, named>>

OnAgent == UNCHANGED <<hubConfig, want, lock, wire, desiredFaults, named>>

\* The old generation is stopped, unless it runs this very document; its rows are remembered.
StopGeneration ==
    /\ apply.pc = "stop" /\ core' = IF core = apply.doc THEN core ELSE Off
    /\ apply' = [apply EXCEPT !.pc = "write"]
    /\ OnAgent /\ UNCHANGED <<thread, link, fatalSince, state, rows>>

WriteRows ==
    /\ apply.pc = "write" /\ rows' = apply.doc
    /\ apply' = [apply EXCEPT !.pc = "start"]
    /\ OnAgent /\ UNCHANGED <<thread, link, fatalSince, state, core>>

StartGeneration ==
    /\ apply.pc = "start" /\ core' = rows
    /\ apply' = [apply EXCEPT !.pc = "commit"]
    /\ OnAgent /\ UNCHANGED <<thread, link, fatalSince, state, rows>>

CommitState ==
    /\ apply.pc = "commit"
    /\ state' = [rev |-> apply.rev, doc |-> apply.doc, err |-> FALSE]
    /\ Tell(apply.by, "ok") /\ apply' = NoApply
    /\ OnAgent /\ UNCHANGED <<rows, core>>

\* _restore_snapshot
RestoreRows == rows' = apply.old

\* A step fails, Xray perhaps running already: rows, guard ports and core go back.
Rollback ==
    /\ apply.pc \in {"write", "start", "commit"}
    /\ desiredFaults < DesiredFaults /\ desiredFaults' = desiredFaults + 1
    /\ RestoreRows /\ core' = apply.old
    /\ state' = [state EXCEPT !.err = TRUE]
    /\ Tell(apply.by, "refused") /\ apply' = NoApply
    /\ UNCHANGED <<hubConfig, want, lock, wire, named>>

\* The process dies; what it starts with are the rows it finds.
AgentRestarts ==
    /\ DesiredFault /\ apply' = NoApply /\ core' = rows
    /\ UNCHANGED <<hubConfig, want, thread, lock, link, wire, state, rows, named, fatalSince>>

---------------------------------------------------------------------------
HubNext ==
    \/ \E w \in HubThreads :
          \/ Build(w) \/ Store(w) \/ Rests(w) \/ Deliver(w) \/ Acknowledge(w) \/ CallRefused(w)
          \/ \E kind \in {"transient", "fatal"} : CallFails(w, kind)
    \/ \E kind \in {"none", "transient", "fatal"} : OtherCall(kind)
    \/ HubRestarts

AgentNext ==
    \/ \E m \in wire : Arrive(m)
    \/ StopGeneration \/ WriteRows \/ StartGeneration \/ CommitState
    \/ Rollback \/ AgentRestarts

OwnerNext == Change \/ Enable \/ \E i \in Inbounds : Assign(i)

DesiredNext == HubNext \/ AgentNext \/ OwnerNext

\* The monitor comes back every few seconds, and a request in progress goes on.
DesiredFairness ==
    /\ WF_desiredVars(Build(Monitor)) /\ WF_desiredVars(Store(Monitor))
    /\ WF_desiredVars(Rests(Monitor)) /\ WF_desiredVars(Deliver(Monitor))
    /\ \A w \in HubThreads :
          /\ WF_desiredVars(Acknowledge(w)) /\ WF_desiredVars(CallRefused(w))
          /\ WF_desiredVars(CallFails(w, "transient"))
    /\ WF_desiredVars(\E m \in wire : Arrive(m))
    /\ WF_desiredVars(StopGeneration \/ WriteRows \/ StartGeneration \/ CommitState)

DesiredSpec == DesiredInit /\ [][DesiredNext]_desiredVars /\ DesiredFairness

---------------------------------------------------------------------------
Documents == [inb : SUBSET Inbounds, edit : 0..MaxEdits]

\* Rows, threads, requests and documents.
DesiredTypeOK ==
    /\ assigned \in [Inbounds -> {"none", "new", "deployed", "failed"}]
    /\ want.doc \in Documents /\ want.applied \in Documents /\ want.appliedRev <= want.rev
    /\ \A w \in HubThreads :
          thread[w].pc \in {"rest", "built", "stored", "sent", "ok", "refused"}
    /\ lock \in HubThreads \union {"free"}
    /\ link \in [err : {"none", "transient", "fatal"}, n : 0..3, seen : BOOLEAN]
    /\ rows \in Documents /\ core \in Documents \union {Off} /\ state.doc \in Documents
    /\ \A m \in wire : m.doc \in Documents /\ m.by \in HubThreads \union {"gone"}

\* _assignment_state of an inbound for subscriptions, for a Node whose health is good.
Ready(i) ==
    /\ enabledNode /\ assigned[i] = "deployed" /\ ~Due
    /\ link.seen /\ (link.err = "none" \/ (link.err = "transient" /\ link.n < 3))

\* A revision names one document on both sides; what the Hub holds for applied is what the
\* Agent's tables and, unless it is just being started, its Xray have.
AppliedIsServed ==
    /\ want.doc = named[want.rev] /\ state.doc = named[state.rev]
    /\ want.appliedRev <= state.rev
    /\ want.rev = want.appliedRev => state.rev = want.rev /\ rows = want.doc
    /\ want.rev = want.appliedRev /\ apply.pc = "none" => core = want.doc

\* A route is offered only for an inbound the Node really carries, and never over a
\* connection whose identity was refused since it last worked.
RoutesAreSound ==
    \A i \in Inbounds : Ready(i) => i \in rows.inb /\ ~fatalSince

\* Both of the above.
DesiredStateHolds == AppliedIsServed /\ RoutesAreSound

\* Whatever was lost, refused or killed on the way, an enabled Node ends up with the
\* configuration the Hub has at last.
ConfigurationSettles ==
    <>[]enabledNode => <>[](rows = Compiled /\ want.doc = Compiled /\ ~Due)
================================================================================
