---------------------------- MODULE NodeCommands ----------------------------
(***************************************************************************)
(* Durable run control of one Node.                                        *)
(*                                                                         *)
(* The Hub keeps one register per Node, the latest Start/Stop/Restart      *)
(* intent, and retries it over HTTPS until the Agent acknowledges exactly  *)
(* that command (backend/node_commands.py).  The Agent keeps one receipt,  *)
(* the newest command it accepted, and a control row; it executes commands *)
(* under engine.lock, in steps a crash can separate                        *)
(* (backend/node_runtime.py), while the maintenance loop (EngineLoop) and  *)
(* the accounting lease act on the same Xray process.                      *)
(***************************************************************************)
EXTENDS Naturals, FiniteSets

CONSTANTS
    Ids,            \* command identities (uuid4().hex); each is used once
    NoId,           \* the empty identity of a register with no command
    MaxRevision,    \* bound on the revisions the Hub records
    MaxFaults,      \* bound on lost calls, crashes, expiries and failures
    Restores        \* whether a stale Hub backup may be restored

ASSUME ConstantsAssumption ==
    /\ NoId \notin Ids
    /\ MaxRevision \in Nat
    /\ MaxFaults \in Nat
    /\ Restores \in BOOLEAN

VARIABLES
    hub,        \* remote_node_control row: the latest intent and its ack
    backup,     \* the Hub row as saved in the last Hub backup
    call,       \* the delivery in progress (one per Node: _node_operation)
    late,       \* requests whose caller gave up, still on their way
    receipt,    \* node_runtime_commands row of the Agent
    control,    \* node_runtime_control row of the Agent
    wants,      \* engine.wants_running
    core,       \* the Xray child process
    armed,      \* hub_lease.required, the durable enforcement latch
    lease,      \* hub_lease.allowed and not trip_recorded
    job,        \* the command handler that holds engine.lock
    flush,      \* where the maintenance loop is
    faults,     \* faults injected so far
    issued,     \* history: every command the Hub ever recorded
    done        \* history: commands whose receipt was committed as applied

hubVars   == <<hub, backup, issued>>
netVars   == <<call, late>>
agentVars == <<receipt, control, wants, core, armed, lease, job, flush, done>>
vars == <<hubVars, netVars, agentVars, faults>>

Actions == {"start", "stop", "restart"}
Cmd     == [rev: 1..MaxRevision, id: Ids, action: Actions]
NoCmd   == [rev |-> 0, id |-> NoId, action |-> "none"]
AnyCmd  == Cmd \cup {NoCmd}
Legacy  == [rev: {0}, id: {NoId}, action: Actions]
HubRow  == [cmd: AnyCmd, applied: 0..MaxRevision]
Call    == [cmd: AnyCmd, state: {"idle", "sent", "handled", "acked", "refused"}]
Request == [cmd: Cmd, n: 0..MaxFaults]
Receipt == [cmd: AnyCmd, phase: {"none", "pending", "applied", "failed"}]
Control == [desired: BOOLEAN, manual: BOOLEAN]
Job     == [cmd: AnyCmd \cup Legacy, step: {"idle", "control", "effect", "commit"},
            live: BOOLEAN, prev: Control, prevWants: BOOLEAN]
NoJob   == [cmd |-> NoCmd, step |-> "idle", live |-> FALSE,
            prev |-> [desired |-> FALSE, manual |-> FALSE], prevWants |-> FALSE]
NoCall  == [cmd |-> NoCmd, state |-> "idle"]

TypeOK ==
    /\ hub \in HubRow /\ backup \in HubRow
    /\ call \in Call /\ late \subseteq Request
    /\ receipt \in Receipt /\ control \in Control
    /\ wants \in BOOLEAN /\ armed \in BOOLEAN /\ lease \in BOOLEAN
    /\ core \in {"running", "stopped"}
    /\ job \in Job
    /\ flush \in {"idle", "check", "apply"}
    /\ faults \in 0..MaxFaults
    /\ issued \subseteq Cmd /\ done \subseteq Cmd

Pending     == hub.applied # hub.cmd.rev
Expected(a) == IF a = "stop" THEN "stopped" ELSE "running"
Effective(c) == c.desired /\ ~c.manual
Unlocked    == job.step = "idle"        \* nobody holds engine.lock
IsOrdered(c) == c.rev > 0               \* a legacy command has no revision

\* The Agent starts Xray at boot if it should run; a failed start is retried.
CoreAfterStart(w) == IF w THEN {"running", "stopped"} ELSE {"stopped"}

\* Anything that goes wrong draws on a finite budget: with it the model stays
\* finite, and liveness is asked of a system whose faults eventually cease.
Fault == faults < MaxFaults /\ faults' = faults + 1

Init ==
    /\ hub = [cmd |-> NoCmd, applied |-> 0]
    /\ backup = hub
    /\ call = NoCall
    /\ late = {}
    /\ receipt = [cmd |-> NoCmd, phase |-> "none"]
    /\ control \in [desired: BOOLEAN, manual: {FALSE}]
    /\ armed \in BOOLEAN /\ lease = ~armed     \* an Agent never armed needs no grant
    /\ wants = (Effective(control) /\ lease)
    /\ core \in CoreAfterStart(wants)
    /\ job = NoJob
    /\ flush = "idle"
    /\ faults = 0
    /\ issued = {} /\ done = {}

-----------------------------------------------------------------------------
(* The Hub.                                                                *)

\* A retry of the pending action keeps its identity; any other request gets
\* the next revision and a fresh identity.  Does not wait for a delivery.
Record(a) ==
    /\ ~(hub.cmd.action = a /\ Pending)
    /\ hub.cmd.rev < MaxRevision
    /\ \E i \in Ids :
          /\ \A c \in issued : c.id # i
          /\ LET new == [rev |-> hub.cmd.rev + 1, id |-> i, action |-> a] IN
                /\ hub' = [hub EXCEPT !.cmd = new]
                /\ issued' = issued \cup {new}
    /\ UNCHANGED <<backup, netVars, agentVars, faults>>

\* Read the register and POST the command.
Send ==
    /\ Pending
    /\ call.state = "idle"
    /\ call' = [cmd |-> hub.cmd, state |-> "sent"]
    /\ UNCHANGED <<hubVars, late, agentVars, faults>>

\* Faulty variant: any acknowledgement settles whatever is in the register.
ReplyToAny ==
    /\ call.state \in {"acked", "refused"}
    /\ hub' = IF call.state = "acked" THEN [hub EXCEPT !.applied = hub.cmd.rev] ELSE hub
    /\ call' = NoCall
    /\ UNCHANGED <<backup, issued, late, agentVars, faults>>

\* The reply arrived.  Only an exact acknowledgement of the command still in
\* the register settles it; any other reply is recorded as a diagnostic.
Reply ==
    /\ call.state \in {"acked", "refused"}
    /\ hub' = IF call.state = "acked" /\ hub.cmd.rev = call.cmd.rev
                                      /\ hub.cmd.id = call.cmd.id
              THEN [hub EXCEPT !.applied = call.cmd.rev] ELSE hub
    /\ call' = NoCall
    /\ UNCHANGED <<backup, issued, late, agentVars, faults>>

\* The caller times out, loses the connection or restarts: an unread request
\* may still be executed, an answer on its way is lost.
Hangup ==
    /\ call' = NoCall
    /\ late' = IF call.state = "sent" THEN late \cup {[cmd |-> call.cmd, n |-> faults]}
                                      ELSE late
    /\ job' = [job EXCEPT !.live = FALSE]
    /\ UNCHANGED <<receipt, control, wants, core, armed, lease, flush, done>>

LoseCall ==
    /\ call.state # "idle"
    /\ Fault
    /\ Hangup
    /\ UNCHANGED hubVars

TakeBackup ==
    /\ Restores
    /\ backup' = hub
    /\ UNCHANGED <<hub, issued, netVars, agentVars, faults>>

\* The Hub database is replaced by an older copy of itself.
RestoreBackup ==
    /\ Restores
    /\ hub # backup
    /\ Fault
    /\ hub' = backup
    /\ Hangup
    /\ UNCHANGED <<backup, issued>>

-----------------------------------------------------------------------------
(* The Agent: ordered_command, in the steps a crash can separate.          *)

\* What the waiting caller, if there is one, is told.
Answer(live, state) ==
    call' = IF live THEN [call EXCEPT !.state = state] ELSE call

\* Faulty variant: stale revisions are not refused.
ConflictNotStale(c) ==
    \/ c.rev = receipt.cmd.rev /\ c # receipt.cmd
    \/ c.rev > receipt.cmd.rev /\ c.id = receipt.cmd.id

Conflict(c) ==
    \/ c.rev < receipt.cmd.rev
    \/ c.rev = receipt.cmd.rev /\ c # receipt.cmd
    \/ c.rev > receipt.cmd.rev /\ c.id = receipt.cmd.id

\* Faulty variant: no command counts as already carried out.
DuplicateNever(c) == c.rev = 0

Duplicate(c) == c = receipt.cmd /\ receipt.phase = "applied"

Begin(c, live) ==
    job' = [cmd |-> c, step |-> "control", live |-> live,
            prev |-> control, prevWants |-> Effective(control) /\ lease]

\* Faulty variant: the lease is checked before the receipt is written.
AcceptWithLease(c, live) ==
    /\ ~Conflict(c)
    /\ ~Duplicate(c)
    /\ IF c.action = "stop" \/ lease
       THEN /\ receipt' = [cmd |-> c, phase |-> "pending"]
            /\ Begin(c, live)
            /\ Answer(live, "handled")
       ELSE /\ Answer(live, "refused")
            /\ UNCHANGED <<receipt, job>>

\* The receipt is durable before Xray is touched, so that even a command that
\* fails fences the older ones.
Accept(c, live) ==
    /\ ~Conflict(c)
    /\ ~Duplicate(c)
    /\ receipt' = [cmd |-> c, phase |-> "pending"]
    /\ Begin(c, live)
    /\ Answer(live, "handled")

Refuse(c, live) ==
    /\ Conflict(c)
    /\ Answer(live, "refused")
    /\ UNCHANGED <<receipt, job>>

\* A committed receipt turns a retry into a read of the present core state.
AnswerDuplicate(c, live) ==
    /\ ~Conflict(c)
    /\ Duplicate(c)
    /\ Answer(live, IF core = Expected(c.action) THEN "acked" ELSE "refused")
    /\ UNCHANGED <<receipt, job>>

Handle(c, live) ==
    /\ Unlocked
    /\ Accept(c, live) \/ Refuse(c, live) \/ AnswerDuplicate(c, live)
    /\ UNCHANGED <<hubVars, control, wants, core, armed, lease, flush, done, faults>>

Receive == call.state = "sent" /\ Handle(call.cmd, TRUE) /\ UNCHANGED late

ReceiveLate ==
    \E m \in late : Handle(m.cmd, FALSE) /\ late' = late \ {m}

\* An old Hub's unversioned command: refused once a receipt exists.
LegacyCommand(a) ==
    /\ Unlocked
    /\ receipt.phase = "none"
    /\ Fault                            \* bounds how often an old Hub calls
    /\ Begin([rev |-> 0, id |-> NoId, action |-> a], FALSE)
    /\ UNCHANGED <<hubVars, netVars, receipt, control, wants, core, armed, lease, flush, done>>

\* Faulty variant: a legacy command is committed like an ordered one.
FinishAnyJob(phase, answer) ==
    /\ receipt' = [receipt EXCEPT !.phase = phase]
    /\ Answer(job.live, answer)
    /\ job' = NoJob
    /\ done' = IF phase = "applied" THEN done \cup {job.cmd} ELSE done

FinishJob(phase, answer) ==
    /\ receipt' = IF IsOrdered(job.cmd) THEN [receipt EXCEPT !.phase = phase] ELSE receipt
    /\ Answer(job.live, answer)
    /\ job' = NoJob
    /\ done' = IF IsOrdered(job.cmd) /\ phase = "applied" THEN done \cup {job.cmd} ELSE done

\* _command_locked up to the engine call: the control row is written first.
PersistStop ==
    /\ job.step = "control"
    /\ job.cmd.action = "stop"
    /\ control' = [control EXCEPT !.manual = TRUE]
    /\ wants' = FALSE
    /\ job' = [job EXCEPT !.step = "effect"]
    /\ UNCHANGED <<hubVars, netVars, receipt, core, armed, lease, flush, done, faults>>

PersistStart ==
    /\ job.step = "control"
    /\ job.cmd.action # "stop"
    /\ lease
    /\ control' = [desired |-> TRUE, manual |-> FALSE]
    /\ job' = [job EXCEPT !.step = "effect"]
    /\ UNCHANGED <<hubVars, netVars, receipt, wants, core, armed, lease, flush, done, faults>>

\* Start and Restart wait for the Hub accounting lease.
StartWithoutLease ==
    /\ job.step = "control"
    /\ job.cmd.action # "stop"
    /\ ~lease
    /\ FinishJob("failed", "refused")
    /\ UNCHANGED <<hubVars, late, control, wants, core, armed, lease, flush, faults>>

StopCore ==
    /\ job.step = "effect"
    /\ job.cmd.action = "stop"
    /\ core' = "stopped" /\ wants' = FALSE
    /\ job' = [job EXCEPT !.step = "commit"]
    /\ UNCHANGED <<hubVars, netVars, receipt, control, armed, lease, flush, done, faults>>

\* The strict final traffic snapshot failed: Xray keeps running, the pause
\* stays on record.
StopCoreFails ==
    /\ job.step = "effect"
    /\ job.cmd.action = "stop"
    /\ core = "running"
    /\ Fault
    /\ FinishJob("failed", "refused")
    /\ UNCHANGED <<hubVars, late, control, wants, core, armed, lease, flush>>

\* Start of a running core with an unchanged configuration changes nothing.
StartCore ==
    /\ job.step = "effect"
    /\ job.cmd.action # "stop"
    /\ \/ /\ job.cmd.action = "start" /\ core = "running"
          /\ UNCHANGED <<core, wants>>
       \/ /\ lease                         \* start_guard of _spawn
          /\ core' = "running" /\ wants' = TRUE
    /\ job' = [job EXCEPT !.step = "commit"]
    /\ UNCHANGED <<hubVars, netVars, receipt, control, armed, lease, flush, done, faults>>

\* engine.command raised: refused before the old process was stopped, rolled
\* back to it, or stopped for good.  The previous control row comes back.
StartCoreFails ==
    /\ job.step = "effect"
    /\ job.cmd.action # "stop"
    /\ \/ Fault /\ core' \in {core, "stopped"}
       \/ ~lease /\ core' = "stopped" /\ UNCHANGED faults
    /\ control' = job.prev
    /\ wants' = job.prevWants
    /\ FinishJob("failed", "refused")
    /\ UNCHANGED <<hubVars, late, armed, lease, flush>>

Commit ==
    /\ job.step = "commit"
    /\ IF core = Expected(job.cmd.action) THEN FinishJob("applied", "acked")
                                          ELSE FinishJob("failed", "refused")
    /\ UNCHANGED <<hubVars, late, control, wants, core, armed, lease, flush, faults>>

\* The effect is done but the receipt cannot be written: it is left failed, or
\* pending if that cannot be written either.
CommitFails ==
    /\ job.step = "commit"
    /\ Fault
    /\ \E phase \in {"failed", "pending"} : FinishJob(phase, "refused")
    /\ UNCHANGED <<hubVars, late, control, wants, core, armed, lease, flush>>

-----------------------------------------------------------------------------
(* The Agent: maintenance, configuration, lease and crashes.               *)

\* reconcile_control: restore the durable intent, stop what must not run.
StopUnwanted ==
    \/ core' = "stopped" /\ UNCHANGED faults
    \/ core = "running" /\ lease /\ Fault /\ UNCHANGED core  \* snapshot failed

Reconcile ==
    /\ wants' = (Effective(control) /\ lease)
    /\ IF wants' THEN UNCHANGED <<core, faults>> ELSE StopUnwanted

Tick ==
    /\ flush = "idle"
    /\ Unlocked
    /\ Reconcile
    /\ flush' = "check"
    /\ UNCHANGED <<hubVars, netVars, receipt, control, armed, lease, job, done>>

\* Faulty variant: the loop starts Xray whatever wants_running says.
FlushCheckAlways ==
    /\ flush = "check"
    /\ flush' = "apply"
    /\ UNCHANGED <<hubVars, netVars, receipt, control, wants, core, armed, lease, job, done,
                   faults>>

\* flush reads wants_running without engine.lock (and waits a few seconds
\* after a start that did not last) ...
FlushCheck ==
    /\ flush = "check"
    /\ \/ flush' = (IF wants THEN "apply" ELSE "idle") /\ UNCHANGED faults
       \/ flush' = "idle" /\ core = "stopped" /\ Fault
    /\ UNCHANGED <<hubVars, netVars, receipt, control, wants, core, armed, lease, job, done>>

\* ... and starts Xray under it, whatever happened in between: apply(start=True)
\* does nothing for a running core with the same configuration, else it stops
\* it and starts the new one.
FlushApply ==
    /\ flush = "apply"
    /\ Unlocked
    /\ flush' = "idle"
    /\ \/ core = "running" /\ UNCHANGED <<core, wants, faults>>
       \/ lease /\ core' = "running" /\ wants' = TRUE /\ UNCHANGED faults
       \/ ~lease /\ core' = "stopped" /\ UNCHANGED <<wants, faults>>
       \/ Fault /\ core' \in {core, "stopped"} /\ UNCHANGED wants
    /\ UNCHANGED <<hubVars, netVars, receipt, control, armed, lease, job, done>>

\* Faulty variant: the payload's desiredRunning always decides.
ApplyConfigFromPayload(payloadRunning) ==
    LET run == payloadRunning /\ ~control.manual /\ lease
    IN  /\ Unlocked
        /\ control' = [control EXCEPT !.desired = payloadRunning]
        /\ core' = Expected(IF run THEN "start" ELSE "stop")
        /\ wants' = run
        /\ UNCHANGED <<hubVars, netVars, receipt, armed, lease, job, flush, done, faults>>

\* A configuration snapshot is applied (NodeRuntime.apply): the old generation
\* is stopped and the new one started, or everything is rolled back.  Once a
\* receipt exists, the payload's desiredRunning no longer decides.
ApplyConfig(payloadRunning) ==
    LET desired == IF receipt.phase # "none" THEN control.desired ELSE payloadRunning
        run     == desired /\ ~control.manual /\ lease
    IN  /\ Unlocked
        /\ \/ /\ control' = [control EXCEPT !.desired = desired]
              /\ IF run THEN /\ core' = "running"
                             /\ wants' = TRUE \/ (core = "running" /\ UNCHANGED wants)
                        ELSE core' = "stopped" /\ wants' = FALSE
              /\ UNCHANGED faults
           \/ /\ Fault
              /\ \/ UNCHANGED <<core, wants>>
                 \/ core' = "stopped" /\ wants' = FALSE       \* the rollback failed too
                 \/ run /\ core' = "running" /\ wants' = TRUE
              /\ UNCHANGED control
           \/ Reconcile /\ UNCHANGED control                  \* an identical revision
        /\ UNCHANGED <<hubVars, netVars, receipt, armed, lease, job, flush, done>>

\* An accounting grant names the command revision the Hub has read; the Agent
\* refuses it unless that is the revision of its own receipt.  The handler
\* then reconciles control and starts a core that should run.
RenewLease ==
    /\ Unlocked
    /\ receipt.cmd.rev <= hub.cmd.rev   \* read now, or before a newer intent
    /\ armed' = TRUE /\ lease' = TRUE
    /\ wants' = Effective(control)
    /\ \/ core' = Expected(IF wants' THEN "start" ELSE "stop") /\ UNCHANGED faults
       \/ Fault /\ core' \in IF wants' THEN {core, "stopped"} ELSE {core}
    /\ UNCHANGED <<hubVars, netVars, receipt, control, job, flush, done>>

\* The lease runs out; the guard fences Xray once it has the engine lock.
ExpireLease ==
    /\ armed /\ lease
    /\ Fault
    /\ lease' = FALSE
    /\ UNCHANGED <<hubVars, netVars, receipt, control, wants, core, armed, job, flush, done>>

FenceExpired ==
    /\ Unlocked
    /\ ~lease
    /\ core = "running" \/ wants
    /\ core' = "stopped" /\ wants' = FALSE
    /\ UNCHANGED <<hubVars, netVars, receipt, control, armed, lease, job, flush, done, faults>>

CoreCrash ==
    /\ core = "running"
    /\ Fault
    /\ core' = "stopped"
    /\ UNCHANGED <<hubVars, netVars, receipt, control, wants, armed, lease, job, flush, done>>

\* The Agent process dies with its cgroup and is restarted: the receipt, the
\* control row and the latch survive, the grant and the handler do not.
AgentCrash ==
    /\ Fault
    /\ job' = NoJob
    /\ Answer(job.live, "refused")
    /\ lease' = ~armed
    /\ wants' = (Effective(control) /\ ~armed)
    /\ core' \in CoreAfterStart(wants')
    /\ flush' = "idle"
    /\ UNCHANGED <<hubVars, late, receipt, control, armed, done>>

-----------------------------------------------------------------------------
HubStep ==
    \/ \E a \in Actions : Record(a)
    \/ Send \/ Reply \/ LoseCall \/ TakeBackup \/ RestoreBackup

JobStep ==
    \/ PersistStop \/ PersistStart \/ StartWithoutLease
    \/ StopCore \/ StopCoreFails \/ StartCore \/ StartCoreFails
    \/ Commit \/ CommitFails

AgentStep ==
    \/ Receive \/ ReceiveLate
    \/ \E a \in Actions : LegacyCommand(a)
    \/ JobStep
    \/ Tick \/ FlushCheck \/ FlushApply
    \/ \E b \in BOOLEAN : ApplyConfig(b)
    \/ RenewLease \/ ExpireLease \/ FenceExpired
    \/ CoreCrash \/ AgentCrash

Next == HubStep \/ AgentStep

Spec == Init /\ [][Next]_vars

\* The monitor worker retries every cycle and reads every reply; a handler
\* that has the engine lock runs on; the maintenance and guard loops tick.
\* The lease step of a monitor cycle comes between two deliveries, so a grant
\* that is possible again and again is eventually made (strong fairness).
Fairness ==
    /\ WF_vars(Send) /\ WF_vars(Reply)
    /\ WF_vars(Receive) /\ WF_vars(ReceiveLate)
    /\ WF_vars(JobStep)
    /\ WF_vars(Tick) /\ WF_vars(FlushCheck) /\ WF_vars(FlushApply)
    /\ SF_vars(RenewLease /\ receipt.cmd.rev = hub.cmd.rev)
    /\ WF_vars(FenceExpired)

FairSpec == Spec /\ Fairness

-----------------------------------------------------------------------------
(* Safety.                                                                 *)

\* A command that holds the lock is strictly newer than every command whose
\* receipt was ever committed: delayed, duplicated and reordered requests
\* never undo a newer intent, and a committed Restart is never done again
\* (ordered_command keeps only the latest receipt, not a list).
ExecutedInOrder ==
    job.step # "idle" /\ IsOrdered(job.cmd) =>
        \A d \in done : d.rev < job.cmd.rev

\* What the Hub shows as acknowledged was committed by the Agent, this very
\* command, even if calls were lost, the register moved on while the answer
\* was on its way, or a backup was restored (NodeCommands.deliver).
AcknowledgedWasCommitted ==
    /\ hub.cmd.rev > 0 /\ ~Pending => hub.cmd \in done
    /\ call.state = "acked" => call.cmd \in done

\* The control row, which decides after every restart, carries the intent of
\* the committed receipt whatever failed, crashed or was rolled back before.
Carries(action) == IF action = "stop" THEN control.manual
                                      ELSE control.desired /\ ~control.manual
ControlCarriesIntent == receipt.phase = "applied" => Carries(receipt.cmd.action)

\* A Stop the Hub shows as acknowledged is a durable pause on the Agent until
\* a newer command arrives: no configuration, lease grant, crash or late
\* Start lifts it (_command_locked, _apply_locked).
AcknowledgedStopPauses ==
    hub.cmd.action = "stop" /\ ~Pending /\ receipt.cmd.rev <= hub.cmd.rev
        => control.manual

\* Commands take effect in the order of their revisions, and the latest one for good
\* (ordered_command, set_desired).
ControlFollowsIntent == ExecutedInOrder /\ ControlCarriesIntent

\* An acknowledgement is genuine and, of a Stop, lasting (deliver, _command_locked).
AcknowledgementsHold == AcknowledgedWasCommitted /\ AcknowledgedStopPauses

\* The fence only moves forward: the revision grows, or the receipt keeps its
\* command, and a committed receipt is not reopened.
FenceAdvances ==
    [][ \/ receipt'.cmd.rev > receipt.cmd.rev
        \/ receipt'.cmd = receipt.cmd /\ receipt.phase # "applied" ]_receipt

\* "An authenticated Stop is a durable pause, not a temporary process kill"
\* (_command_locked): Xray is not running once the Stop is committed.
CommittedStopIsStopped ==
    receipt.phase = "applied" /\ receipt.cmd.action = "stop" => core = "stopped"

-----------------------------------------------------------------------------
(* Liveness, under FairSpec.                                               *)

\* When faults cease and no newer intent is recorded, every intent is
\* acknowledged.  A Start may need a refused first delivery: it moves the
\* Agent's revision to the Hub's, which the lease grant depends on.
IntentSettles == []<>(~Pending)

\* ... and Xray then follows the latest intent for good, even after the
\* maintenance loop started it behind a Stop.
CoreFollowsIntent ==
    <>[](hub.cmd.rev > 0 => core = Expected(hub.cmd.action))

-----------------------------------------------------------------------------
(* Refinement: the network, the lock and the crashes hide behind RunIntent. *)

Promise == INSTANCE RunIntent WITH
    register <- [cmd |-> hub.cmd, acked |-> ~Pending],
    fence    <- receipt,
    settled  <- done

ImplementsRunIntent == Promise!Spec
=============================================================================
