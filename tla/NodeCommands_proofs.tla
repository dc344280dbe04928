------------------------- MODULE NodeCommands_proofs -------------------------
(***************************************************************************)
(* Proofs about NodeCommands, for any identities, any bound on revisions   *)
(* and faults, with and without Hub restores.                              *)
(***************************************************************************)
EXTENDS NodeCommands, TLAPS

-----------------------------------------------------------------------------
(* The inductive invariant.                                                *)

IdsAreUnique == \A c, d \in issued : c.id = d.id => c = d

Recorded == issued \cup {NoCmd}

\* Every command anywhere in the system was recorded by the Hub.
CommandsAreRecorded ==
    /\ hub.cmd \in Recorded /\ backup.cmd \in Recorded
    /\ call.cmd \in Recorded /\ receipt.cmd \in Recorded
    /\ call.state # "idle" => call.cmd \in issued
    /\ \A m \in late : m.cmd \in issued
    /\ done \subseteq issued

\* The receipt fences everything that was committed.
FenceIsNewest ==
    /\ \A d \in done : \/ d.rev < receipt.cmd.rev
                       \/ d = receipt.cmd /\ receipt.phase = "applied"
    /\ receipt.phase = "applied" => receipt.cmd \in done
    /\ receipt.phase = "none" => receipt.cmd = NoCmd

\* The handler in engine.lock works for the receipt, or for no receipt at all.
JobIsCurrent ==
    /\ job.step = "idle" => ~job.live
    /\ job.step # "idle" /\ IsOrdered(job.cmd) =>
          receipt.cmd = job.cmd /\ receipt.phase = "pending"
    /\ job.step # "idle" /\ ~IsOrdered(job.cmd) => receipt.phase = "none" /\ ~job.live
    /\ job.live => call.cmd = job.cmd /\ call.state = "handled"

GenuineAck(row) ==
    /\ row.applied <= row.cmd.rev
    /\ row.cmd.rev > 0 /\ row.applied = row.cmd.rev => row.cmd \in done
AcksAreGenuine ==
    /\ GenuineAck(hub) /\ GenuineAck(backup)
    /\ call.state = "acked" => call.cmd \in done

\* After its control step, a handler finds its own intent in the control row.
ControlIsReady == job.step \in {"effect", "commit"} => Carries(job.cmd.action)

HistoryInv == /\ IdsAreUnique /\ CommandsAreRecorded /\ FenceIsNewest
              /\ JobIsCurrent /\ AcksAreGenuine
ControlInv == ControlIsReady /\ ControlCarriesIntent
Inv == TypeOK /\ HistoryInv /\ ControlInv

-----------------------------------------------------------------------------
(* Shapes of steps.                                                        *)

\* Maintenance, configuration, lease and core crash: no command moves.
ProcessStep ==
    \/ Tick \/ FlushCheck \/ FlushApply
    \/ \E b \in BOOLEAN : ApplyConfig(b)
    \/ RenewLease \/ ExpireLease \/ FenceExpired \/ CoreCrash

ControlSteps == PersistStop \/ PersistStart \/ StopCore \/ StartCore
FinishSteps  == StartWithoutLease \/ StopCoreFails \/ StartCoreFails \/ Commit \/ CommitFails
HandleSteps  == Receive \/ ReceiveLate \/ \E a \in Actions : LegacyCommand(a)

LEMMA ProcessFrame ==
  ASSUME ProcessStep PROVE UNCHANGED <<hubVars, netVars, receipt, job, done>>
  BY DEF ProcessStep, Tick, FlushCheck, FlushApply, ApplyConfig, RenewLease, ExpireLease,
         FenceExpired, CoreCrash

LEMMA ControlFrame ==
  ASSUME ControlSteps
  PROVE  /\ UNCHANGED <<hubVars, netVars, receipt, done, armed, lease, flush, faults>>
         /\ job.step # "idle"
         /\ \E x \in {"effect", "commit"} : job' = [job EXCEPT !.step = x]
  BY DEF ControlSteps, PersistStop, PersistStart, StopCore, StartCore

LEMMA FinishFrame ==
  ASSUME FinishSteps
  PROVE  /\ UNCHANGED <<hubVars, late, armed, lease, flush>>
         /\ job.step # "idle"
         /\ \E phase \in {"applied", "failed", "pending"}, answer \in {"acked", "refused"} :
               /\ FinishJob(phase, answer)
               /\ answer = "acked" => phase = "applied"
               /\ phase = "applied" => job.step = "commit"
  BY DEF FinishSteps, StartWithoutLease, StopCoreFails, StartCoreFails, Commit, CommitFails

-----------------------------------------------------------------------------
(* Types.                                                                  *)

LEMMA Constants ==
  /\ NoCmd \in AnyCmd /\ NoCmd \notin Cmd /\ NoCall \in Call
  /\ NoJob.step = "idle" /\ NoJob.live = FALSE /\ NoJob.cmd = NoCmd
  /\ NoCmd.rev = 0 /\ NoCall.cmd = NoCmd /\ NoCall.state = "idle"
  /\ ~IsOrdered(NoCmd)
  BY ConstantsAssumption DEF NoCmd, AnyCmd, Cmd, NoCall, Call, NoJob, IsOrdered

LEMMA NoJobType == NoJob \in Job
<1>1. [desired |-> FALSE, manual |-> FALSE] \in Control
  BY DEF Control
<1> QED BY <1>1, Constants DEF NoJob, Job

LEMMA InitType == Init => TypeOK
<1> SUFFICES ASSUME Init PROVE TypeOK
  OBVIOUS
<1>1. hub \in HubRow /\ backup \in HubRow
  BY Constants, ConstantsAssumption DEF Init, HubRow
<1>2. call \in Call /\ late \subseteq Request /\ issued \subseteq Cmd /\ done \subseteq Cmd
  BY Constants DEF Init
<1>3. receipt \in Receipt
  BY Constants DEF Init, Receipt
<1>4. control \in Control
  BY DEF Init, Control
<1>5. wants \in BOOLEAN /\ armed \in BOOLEAN /\ lease \in BOOLEAN
  BY DEF Init
<1>6. core \in {"running", "stopped"} /\ flush \in {"idle", "check", "apply"}
  BY DEF Init, CoreAfterStart
<1>7. job \in Job
  BY NoJobType DEF Init
<1>8. faults \in 0..MaxFaults
  BY ConstantsAssumption DEF Init
<1> QED BY <1>1, <1>2, <1>3, <1>4, <1>5, <1>6, <1>7, <1>8 DEF TypeOK

LEMMA FaultType ==
  ASSUME TypeOK, Fault \/ UNCHANGED faults PROVE faults' \in 0..MaxFaults
  BY ConstantsAssumption DEF TypeOK, Fault

LEMMA ProcessType == TypeOK /\ ProcessStep => TypeOK'
<1> SUFFICES ASSUME TypeOK, ProcessStep PROVE TypeOK'
  OBVIOUS
<1>1. UNCHANGED <<hub, backup, issued, call, late, receipt, job, done>>
  BY ProcessFrame DEF hubVars, netVars
<1>2. faults' \in 0..MaxFaults
  <2>1. Fault \/ UNCHANGED faults
    BY DEF ProcessStep, Tick, FlushCheck, FlushApply, ApplyConfig, RenewLease, ExpireLease,
           FenceExpired, CoreCrash, Reconcile, StopUnwanted
  <2> QED BY <2>1, FaultType
<1>3. control' \in Control
  <2>1. CASE \E b \in BOOLEAN : ApplyConfig(b)
    <3> PICK b \in BOOLEAN : ApplyConfig(b)
      BY <2>1
    <3>1. CASE UNCHANGED control
      BY <3>1 DEF TypeOK
    <3>2. CASE control' = [control EXCEPT !.desired = b]
      BY <3>2 DEF TypeOK, Control
    <3>3. CASE control' = [control EXCEPT !.desired = control.desired]
      BY <3>3 DEF TypeOK, Control
    <3> QED BY <3>1, <3>2, <3>3 DEF ApplyConfig
  <2>2. CASE UNCHANGED control
    BY <2>2 DEF TypeOK
  <2> QED BY <2>1, <2>2 DEF ProcessStep, Tick, FlushCheck, FlushApply, RenewLease, ExpireLease,
                            FenceExpired, CoreCrash
<1>4. wants' \in BOOLEAN /\ armed' \in BOOLEAN /\ lease' \in BOOLEAN
  BY DEF TypeOK, ProcessStep, Tick, FlushCheck, FlushApply, ApplyConfig, RenewLease, ExpireLease,
         FenceExpired, CoreCrash, Reconcile, Effective, Control
<1>5. core' \in {"running", "stopped"} /\ flush' \in {"idle", "check", "apply"}
  BY DEF TypeOK, ProcessStep, Tick, FlushCheck, FlushApply, ApplyConfig, RenewLease, ExpireLease,
         FenceExpired, CoreCrash, Reconcile, StopUnwanted, Expected
<1> QED BY <1>1, <1>2, <1>3, <1>4, <1>5 DEF TypeOK

LEMMA ControlType == TypeOK /\ ControlSteps => TypeOK'
<1> SUFFICES ASSUME TypeOK, ControlSteps PROVE TypeOK'
  OBVIOUS
<1>1. UNCHANGED <<hub, backup, issued, call, late, receipt, done, armed, lease, flush, faults>>
  BY ControlFrame DEF hubVars, netVars
<1>2. job' \in Job
  <2> PICK x \in {"effect", "commit"} : job' = [job EXCEPT !.step = x]
    BY ControlFrame
  <2> QED BY DEF TypeOK, Job
<1>3. control' \in Control
  <2>1. control \in Control
    BY DEF TypeOK
  <2>2. CASE control' = control
    BY <2>1, <2>2
  <2>3. CASE control' = [control EXCEPT !.manual = TRUE]
    BY <2>1, <2>3 DEF Control
  <2>4. CASE control' = [desired |-> TRUE, manual |-> FALSE]
    BY <2>4 DEF Control
  <2> QED BY <2>2, <2>3, <2>4 DEF ControlSteps, PersistStop, PersistStart, StopCore, StartCore
<1>4. wants' \in BOOLEAN /\ core' \in {"running", "stopped"}
  BY DEF TypeOK, ControlSteps, PersistStop, PersistStart, StopCore, StartCore
<1> QED BY <1>1, <1>2, <1>3, <1>4 DEF TypeOK

\* The answer reaches the call that is waiting, if any.
LEMMA AnswerType ==
  ASSUME TypeOK, NEW live, NEW state \in {"idle", "sent", "handled", "acked", "refused"},
         Answer(live, state)
  PROVE  call' \in Call /\ call'.cmd = call.cmd
  BY DEF TypeOK, Answer, Call

LEMMA FinishType == TypeOK /\ FinishSteps => TypeOK'
<1> SUFFICES ASSUME TypeOK, FinishSteps PROVE TypeOK'
  OBVIOUS
<1>1. UNCHANGED <<hub, backup, issued, late, armed, lease, flush>>
  BY FinishFrame DEF hubVars
<1>2. PICK phase \in {"applied", "failed", "pending"}, answer \in {"acked", "refused"} :
         FinishJob(phase, answer)
  BY FinishFrame
<1>3. receipt' \in Receipt
  BY <1>2 DEF TypeOK, FinishJob, Receipt
<1>4. call' \in Call
  BY <1>2, AnswerType DEF FinishJob
<1>5. job' \in Job
  BY <1>2, NoJobType DEF FinishJob
<1>6. done' \subseteq Cmd
  <2>1. IsOrdered(job.cmd) => job.cmd \in Cmd
    BY DEF TypeOK, Job, AnyCmd, Legacy, NoCmd, IsOrdered
  <2> QED BY <1>2, <2>1 DEF TypeOK, FinishJob
<1>7. faults' \in 0..MaxFaults
  <2>1. Fault \/ UNCHANGED faults
    BY DEF FinishSteps, StartWithoutLease, StopCoreFails, StartCoreFails, Commit, CommitFails
  <2> QED BY <2>1, FaultType
<1>8. control' \in Control
  BY DEF TypeOK, FinishSteps, StartWithoutLease, StopCoreFails, StartCoreFails, Commit,
         CommitFails, Job
<1>9. wants' \in BOOLEAN
  BY DEF TypeOK, FinishSteps, StartWithoutLease, StopCoreFails, StartCoreFails, Commit,
         CommitFails, Job
<1>10. core' \in {"running", "stopped"}
  BY DEF TypeOK, FinishSteps, StartWithoutLease, StopCoreFails, StartCoreFails, Commit,
         CommitFails
<1> QED BY <1>1, <1>3, <1>4, <1>5, <1>6, <1>7, <1>8, <1>9, <1>10 DEF TypeOK

\* A new handler starts on the command it was given.
LEMMA BeginType ==
  ASSUME TypeOK, NEW c \in Cmd \cup Legacy, NEW live \in BOOLEAN, Begin(c, live)
  PROVE  job' \in Job /\ job'.cmd = c /\ job'.step = "control" /\ job'.live = live
<1>1. control \in Control
  BY DEF TypeOK
<1>2. (Effective(control) /\ lease) \in BOOLEAN
  OBVIOUS
<1>3. \E w \in BOOLEAN : job' = [cmd |-> c, step |-> "control", live |-> live,
                                 prev |-> control, prevWants |-> w]
  BY <1>2, Zenon DEF Begin
<1> QED BY <1>1, <1>3 DEF Job, AnyCmd

LEMMA HandleType ==
  ASSUME TypeOK, NEW c \in Cmd, NEW live \in BOOLEAN, Handle(c, live)
  PROVE  /\ receipt' \in Receipt /\ job' \in Job /\ call' \in Call
         /\ UNCHANGED <<hub, backup, issued, control, wants, core, armed, lease, flush, done,
                        faults>>
<1>1. CASE Accept(c, live)
  <2>1. receipt' \in Receipt
    BY <1>1 DEF Accept, Receipt, AnyCmd
  <2>2. job' \in Job
    BY <1>1, BeginType DEF Accept
  <2>3. call' \in Call
    BY <1>1, AnswerType DEF Accept
  <2> QED BY <2>1, <2>2, <2>3 DEF Handle, hubVars
<1>2. CASE Refuse(c, live)
  BY <1>2, AnswerType DEF Handle, hubVars, Refuse, TypeOK
<1>3. CASE AnswerDuplicate(c, live)
  BY <1>3, AnswerType DEF Handle, hubVars, AnswerDuplicate, TypeOK
<1> QED BY <1>1, <1>2, <1>3 DEF Handle

LEMMA HandleStepsType == TypeOK /\ CommandsAreRecorded /\ HandleSteps => TypeOK'
<1> SUFFICES ASSUME TypeOK, CommandsAreRecorded, HandleSteps PROVE TypeOK'
  OBVIOUS
<1>1. CASE Receive
  <2>1. call.cmd \in Cmd
    BY <1>1 DEF Receive, TypeOK, CommandsAreRecorded
  <2> QED BY <1>1, <2>1, HandleType DEF Receive, TypeOK
<1>2. CASE ReceiveLate
  <2> PICK m \in late : Handle(m.cmd, FALSE) /\ late' = late \ {m}
    BY <1>2 DEF ReceiveLate
  <2>1. m.cmd \in Cmd /\ FALSE \in BOOLEAN
    BY DEF TypeOK, Request
  <2> QED BY <2>1, HandleType DEF TypeOK
<1>3. CASE \E a \in Actions : LegacyCommand(a)
  <2> PICK a \in Actions : LegacyCommand(a)
    BY <1>3
  <2>1. [rev |-> 0, id |-> NoId, action |-> a] \in Legacy
    BY DEF Legacy
  <2>2. job' \in Job
    BY <2>1, BeginType DEF LegacyCommand
  <2>3. faults' \in 0..MaxFaults
    BY FaultType DEF LegacyCommand
  <2> QED BY <2>2, <2>3 DEF LegacyCommand, TypeOK, hubVars, netVars
<1> QED BY <1>1, <1>2, <1>3 DEF HandleSteps

LEMMA HangupType ==
  ASSUME TypeOK, CommandsAreRecorded, Hangup
  PROVE  /\ call' \in Call /\ late' \subseteq Request /\ job' \in Job
         /\ UNCHANGED <<receipt, control, wants, core, armed, lease, flush, done>>
<1>1. call.state = "sent" => [cmd |-> call.cmd, n |-> faults] \in Request
  BY DEF TypeOK, CommandsAreRecorded, Request
<1>2. late' \subseteq Request
  BY <1>1 DEF TypeOK, Hangup
<1>3. job' \in Job
  BY DEF TypeOK, Hangup, Job
<1> QED BY <1>2, <1>3, Constants DEF Hangup

LEMMA HubType == TypeOK /\ HistoryInv /\ HubStep => TypeOK'
<1> SUFFICES ASSUME TypeOK, HistoryInv, HubStep PROVE TypeOK'
  OBVIOUS
<1>1. CASE \E a \in Actions : Record(a)
  <2> PICK a \in Actions, i \in Ids :
         LET new == [rev |-> hub.cmd.rev + 1, id |-> i, action |-> a] IN
           /\ hub.cmd.rev < MaxRevision
           /\ hub' = [hub EXCEPT !.cmd = new]
           /\ issued' = issued \cup {new}
           /\ UNCHANGED <<backup, netVars, agentVars, faults>>
    BY <1>1 DEF Record
  <2>1. hub.cmd.rev \in 0..MaxRevision
    BY ConstantsAssumption DEF TypeOK, HubRow, AnyCmd, Cmd, NoCmd
  <2>2. [rev |-> hub.cmd.rev + 1, id |-> i, action |-> a] \in Cmd
    BY <2>1, ConstantsAssumption DEF Cmd
  <2>3. hub' \in HubRow /\ issued' \subseteq Cmd
    BY <2>2 DEF TypeOK, HubRow, AnyCmd
  <2> QED BY <2>3 DEF TypeOK, netVars, agentVars
<1>2. CASE Send
  <2>1. call' \in Call
    BY <1>2 DEF TypeOK, Send, HubRow, Call
  <2> QED BY <1>2, <2>1 DEF Send, TypeOK, hubVars, agentVars
<1>3. CASE Reply
  <2>1. hub' \in HubRow
    <3>1. CASE hub' = hub
      BY <3>1 DEF TypeOK
    <3>2. CASE hub' = [hub EXCEPT !.applied = hub.cmd.rev]
      BY <3>2, ConstantsAssumption DEF TypeOK, HubRow, AnyCmd, Cmd, NoCmd
    <3> QED BY <1>3, <3>1, <3>2 DEF Reply
  <2> QED BY <1>3, <2>1, Constants DEF Reply, TypeOK, agentVars
<1>4. CASE LoseCall
  BY <1>4, HangupType, FaultType DEF LoseCall, TypeOK, HistoryInv, hubVars
<1>5. CASE TakeBackup
  BY <1>5 DEF TakeBackup, TypeOK, netVars, agentVars
<1>6. CASE RestoreBackup
  BY <1>6, HangupType, FaultType DEF RestoreBackup, TypeOK, HistoryInv
<1> QED BY <1>1, <1>2, <1>3, <1>4, <1>5, <1>6 DEF HubStep

LEMMA CrashType == TypeOK /\ AgentCrash => TypeOK'
<1> SUFFICES ASSUME TypeOK, AgentCrash PROVE TypeOK'
  OBVIOUS
<1>1. call' \in Call
  BY AnswerType DEF AgentCrash
<1>2. wants' \in BOOLEAN /\ lease' \in BOOLEAN
  BY DEF AgentCrash
<1>3. core' \in {"running", "stopped"}
  BY DEF AgentCrash, CoreAfterStart
<1>4. faults' \in 0..MaxFaults
  BY FaultType DEF AgentCrash
<1> QED BY <1>1, <1>2, <1>3, <1>4, NoJobType DEF AgentCrash, TypeOK, hubVars

LEMMA TypeInv == TypeOK /\ HistoryInv /\ [Next]_vars => TypeOK'
<1> SUFFICES ASSUME TypeOK, HistoryInv, [Next]_vars PROVE TypeOK'
  OBVIOUS
<1>1. CASE HubStep
  BY <1>1, HubType
<1>2. CASE HandleSteps
  BY <1>2, HandleStepsType DEF HistoryInv
<1>3. CASE ControlSteps
  BY <1>3, ControlType
<1>4. CASE FinishSteps
  BY <1>4, FinishType
<1>5. CASE ProcessStep
  BY <1>5, ProcessType
<1>6. CASE AgentCrash
  BY <1>6, CrashType
<1>7. CASE UNCHANGED vars
  BY <1>7 DEF vars, hubVars, netVars, agentVars, TypeOK
<1> QED BY <1>1, <1>2, <1>3, <1>4, <1>5, <1>6, <1>7
    DEF Next, AgentStep, JobStep, HandleSteps, ControlSteps, FinishSteps, ProcessStep

-----------------------------------------------------------------------------
(* The history of commands.                                                *)

LEMMA InitHistory == Init => HistoryInv /\ ControlInv
  BY Constants
  DEF Init, HistoryInv, IdsAreUnique, CommandsAreRecorded, Recorded, FenceIsNewest, JobIsCurrent,
      AcksAreGenuine, GenuineAck, ControlInv, ControlIsReady, ControlCarriesIntent

\* Nothing in the history changes while Xray is managed.
LEMMA ProcessHistory == HistoryInv /\ ProcessStep => HistoryInv'
  BY ProcessFrame
  DEF hubVars, netVars, HistoryInv, IdsAreUnique, CommandsAreRecorded, Recorded, FenceIsNewest,
      JobIsCurrent, AcksAreGenuine, GenuineAck

LEMMA ControlHistory == TypeOK /\ HistoryInv /\ ControlSteps => HistoryInv'
<1> SUFFICES ASSUME TypeOK, HistoryInv, ControlSteps PROVE HistoryInv'
  OBVIOUS
<1>1. UNCHANGED <<hub, backup, issued, call, late, receipt, done>> /\ job.step # "idle"
  BY ControlFrame DEF hubVars, netVars
<1>2. job'.step # "idle" /\ job'.cmd = job.cmd /\ job'.live = job.live
  BY ControlFrame DEF TypeOK, Job
<1>3. JobIsCurrent'
  BY <1>1, <1>2 DEF HistoryInv, JobIsCurrent
<1> QED BY <1>1, <1>3
    DEF HistoryInv, IdsAreUnique, CommandsAreRecorded, Recorded, FenceIsNewest, AcksAreGenuine,
        GenuineAck

\* A handler ends: only an ordered one, still current, touches the receipt.
LEMMA FinishHistory == TypeOK /\ HistoryInv /\ FinishSteps => HistoryInv'
<1> SUFFICES ASSUME TypeOK, HistoryInv, FinishSteps PROVE HistoryInv'
  OBVIOUS
<1>1. UNCHANGED <<hub, backup, issued, late>> /\ job.step # "idle"
  BY FinishFrame DEF hubVars
<1>2. PICK phase \in {"applied", "failed", "pending"}, answer \in {"acked", "refused"} :
         FinishJob(phase, answer) /\ (answer = "acked" => phase = "applied")
  BY FinishFrame
<1>3. job' = NoJob /\ call' \in Call /\ call'.cmd = call.cmd
  BY <1>2, AnswerType DEF FinishJob
<1>4. call.state = "handled" \/ call' = call
  BY <1>2 DEF FinishJob, Answer, HistoryInv, JobIsCurrent
<1>5. done \subseteq done'
  BY <1>2 DEF FinishJob
<1>6. CASE IsOrdered(job.cmd)
  <2>1. receipt.cmd = job.cmd /\ receipt.phase = "pending"
    BY <1>1, <1>6 DEF HistoryInv, JobIsCurrent
  <2>2. receipt'.cmd = job.cmd /\ receipt'.phase = phase
    BY <1>2, <1>6, <2>1 DEF FinishJob, TypeOK, Receipt
  <2>3. done' = IF phase = "applied" THEN done \cup {job.cmd} ELSE done
    BY <1>2, <1>6 DEF FinishJob
  <2>4. job.cmd \in issued
    BY <1>6, <2>1, Constants DEF HistoryInv, CommandsAreRecorded, Recorded
  <2>5. FenceIsNewest'
    BY <2>1, <2>2, <2>3 DEF HistoryInv, FenceIsNewest
  <2>6. CommandsAreRecorded'
    <3>1. call'.state # "idle" => call.state # "idle"
      BY <1>4
    <3> QED BY <1>1, <1>3, <2>1, <2>2, <2>3, <2>4, <3>1
        DEF HistoryInv, CommandsAreRecorded, Recorded
  <2>7. call'.state = "acked" => call'.cmd \in done'
    <3>1. CASE job.live
      <4>1. call.cmd = job.cmd /\ call'.state = answer
        BY <3>1, <1>2 DEF FinishJob, Answer, HistoryInv, JobIsCurrent, TypeOK, Call
      <4> QED BY <4>1, <1>2, <1>3, <2>3
    <3>2. CASE ~job.live
      BY <3>2, <1>2, <1>5 DEF FinishJob, Answer, HistoryInv, AcksAreGenuine
    <3> QED BY <3>1, <3>2
  <2> QED BY <1>1, <1>3, <1>5, <2>5, <2>6, <2>7, Constants
      DEF HistoryInv, IdsAreUnique, JobIsCurrent, AcksAreGenuine, GenuineAck
<1>7. CASE ~IsOrdered(job.cmd)
  <2>1. ~job.live
    BY <1>1, <1>7 DEF HistoryInv, JobIsCurrent
  <2>2. UNCHANGED <<receipt, call, done>>
    BY <1>2, <1>7, <2>1 DEF FinishJob, Answer
  <2> QED BY <1>1, <1>3, <2>2, Constants
      DEF HistoryInv, IdsAreUnique, CommandsAreRecorded, Recorded, FenceIsNewest, JobIsCurrent,
          AcksAreGenuine, GenuineAck
<1> QED BY <1>6, <1>7

\* What a request can do to the fence, whoever waits for it.
LEMMA HandleHistory ==
  ASSUME TypeOK, HistoryInv, NEW c \in issued, NEW live \in BOOLEAN, Handle(c, live),
         live => call.cmd = c /\ call.state = "sent"
  PROVE  /\ FenceIsNewest' /\ JobIsCurrent'
         /\ receipt'.cmd \in issued \cup {receipt.cmd} /\ call'.cmd = call.cmd
         /\ call'.state # "idle" => call.state # "idle"
         /\ call'.state = "acked" => call'.cmd \in done
<1>1. c \in Cmd /\ c.rev \in Nat /\ c.rev > 0 /\ IsOrdered(c) /\ c # NoCmd
  BY Constants, ConstantsAssumption DEF TypeOK, Cmd, IsOrdered
<1>2. job.step = "idle" /\ ~job.live /\ UNCHANGED done
  BY DEF Handle, Unlocked, HistoryInv, JobIsCurrent
<1>3. CASE Accept(c, live)
  <2>1. receipt'.cmd = c /\ receipt'.phase = "pending"
    BY <1>3 DEF Accept
  <2>2. job'.cmd = c /\ job'.step = "control" /\ job'.live = live
    BY <1>3, <1>1, BeginType DEF Accept
  <2>3. call'.cmd = call.cmd /\ call' \in Call /\ (live => call'.state = "handled")
        /\ (~live => call' = call)
    BY <1>3, AnswerType DEF Accept, Answer, TypeOK, Call
  <2>4. \A d \in done : d.rev < c.rev
    <3>1. receipt.cmd.rev \in Nat
      BY Constants, ConstantsAssumption DEF TypeOK, Receipt, AnyCmd, Cmd
    <3>2. c.rev > receipt.cmd.rev \/ (c = receipt.cmd /\ receipt.phase # "applied")
      BY <1>3, <1>1, <3>1 DEF Accept, Conflict, Duplicate
    <3>3. \A d \in done : d.rev \in Nat
      BY ConstantsAssumption DEF TypeOK, Cmd
    <3> QED BY <1>1, <3>1, <3>2, <3>3 DEF HistoryInv, FenceIsNewest
  <2>5. FenceIsNewest'
    BY <1>2, <2>1, <2>4 DEF FenceIsNewest
  <2>6. JobIsCurrent'
    BY <1>1, <2>1, <2>2, <2>3 DEF JobIsCurrent
  <2> QED BY <2>1, <2>3, <2>5, <2>6 DEF HistoryInv, AcksAreGenuine
<1>4. CASE Refuse(c, live) \/ AnswerDuplicate(c, live)
  <2>1. UNCHANGED <<receipt, job>>
    BY <1>4 DEF Refuse, AnswerDuplicate
  <2>2. call'.cmd = call.cmd
    BY <1>4, AnswerType DEF Refuse, AnswerDuplicate
  <2>3. call' = call \/ (live /\ call'.state = "refused")
        \/ (live /\ call'.state = "acked" /\ c \in done)
    BY <1>4 DEF Refuse, AnswerDuplicate, Answer, TypeOK, Call, Duplicate, HistoryInv, FenceIsNewest
  <2>4. FenceIsNewest' /\ JobIsCurrent'
    BY <1>2, <2>1 DEF HistoryInv, FenceIsNewest, JobIsCurrent
  <2> QED BY <2>1, <2>2, <2>3, <2>4 DEF HistoryInv, AcksAreGenuine
<1> QED BY <1>3, <1>4 DEF Handle

LEMMA HandleStepsHistory == TypeOK /\ HistoryInv /\ HandleSteps => HistoryInv'
<1> SUFFICES ASSUME TypeOK, HistoryInv, HandleSteps PROVE HistoryInv'
  OBVIOUS
<1> DEFINE Result == /\ FenceIsNewest' /\ JobIsCurrent'
                     /\ receipt'.cmd \in issued \cup {receipt.cmd} /\ call'.cmd = call.cmd
                     /\ call'.state # "idle" => call.state # "idle"
                     /\ call'.state = "acked" => call'.cmd \in done
<1>1. /\ UNCHANGED <<hub, backup, issued, done>>
      /\ late' \subseteq late
  BY DEF HandleSteps, Receive, ReceiveLate, LegacyCommand, Handle, hubVars, netVars
<1>2. Result => HistoryInv'
  BY <1>1 DEF HistoryInv, IdsAreUnique, CommandsAreRecorded, Recorded, AcksAreGenuine, GenuineAck
<1>3. CASE Receive
  <2>1. call.cmd \in issued
    BY <1>3 DEF Receive, HistoryInv, CommandsAreRecorded
  <2> QED BY <1>2, <1>3, <2>1, HandleHistory DEF Receive
<1>4. CASE ReceiveLate
  <2> PICK m \in late : Handle(m.cmd, FALSE)
    BY <1>4 DEF ReceiveLate
  <2>1. m.cmd \in issued
    BY DEF HistoryInv, CommandsAreRecorded
  <2> QED BY <1>2, <2>1, HandleHistory
<1>5. CASE \E a \in Actions : LegacyCommand(a)
  <2> PICK a \in Actions : LegacyCommand(a)
    BY <1>5
  <2>1. [rev |-> 0, id |-> NoId, action |-> a] \in Legacy
    BY DEF Legacy
  <2>2. job'.cmd = [rev |-> 0, id |-> NoId, action |-> a] /\ job'.live = FALSE
    BY <2>1, BeginType DEF LegacyCommand
  <2>3. ~IsOrdered(job'.cmd)
    BY <2>2 DEF IsOrdered
  <2>4. UNCHANGED <<receipt, call>> /\ receipt.phase = "none"
    BY DEF LegacyCommand, netVars
  <2> QED BY <1>1, <1>2, <2>2, <2>3, <2>4
      DEF HistoryInv, FenceIsNewest, JobIsCurrent, AcksAreGenuine
<1> QED BY <1>3, <1>4, <1>5 DEF HandleSteps

\* The caller is gone: nobody waits for the handler any more.
LEMMA HangupHistory ==
  ASSUME TypeOK, HistoryInv, Hangup, UNCHANGED <<backup, issued>>, hub' \in {hub, backup}
  PROVE  HistoryInv'
<1>1. call' = NoCall /\ job'.live = FALSE /\ job'.step = job.step /\ job'.cmd = job.cmd
      /\ UNCHANGED <<receipt, done>>
  BY DEF Hangup, TypeOK, Job
<1>2. \A m \in late' : m.cmd \in issued
  BY DEF Hangup, HistoryInv, CommandsAreRecorded
<1>3. CommandsAreRecorded'
  BY <1>1, <1>2, Constants DEF HistoryInv, CommandsAreRecorded, Recorded
<1>4. JobIsCurrent'
  BY <1>1 DEF HistoryInv, JobIsCurrent
<1>5. AcksAreGenuine'
  BY <1>1, Constants DEF HistoryInv, AcksAreGenuine, GenuineAck
<1> QED BY <1>1, <1>3, <1>4, <1>5 DEF HistoryInv, IdsAreUnique, FenceIsNewest

\* Only an acknowledgement of the very command in the register settles it: a
\* revision and an identity name one command.
LEMMA ReplyHistory == TypeOK /\ HistoryInv /\ Reply => HistoryInv'
<1> SUFFICES ASSUME TypeOK, HistoryInv, Reply PROVE HistoryInv'
  OBVIOUS
<1>1. UNCHANGED <<backup, issued, late, receipt, job, done>> /\ call' = NoCall
  BY DEF Reply, agentVars
<1>2. hub'.cmd = hub.cmd
  BY DEF Reply, TypeOK, HubRow
<1>3. GenuineAck(hub)'
  <2>1. CASE hub' = hub
    BY <1>1, <2>1 DEF HistoryInv, AcksAreGenuine, GenuineAck
  <2>2. CASE hub' # hub
    <3>1. /\ call.cmd \in done /\ hub.cmd.id = call.cmd.id
          /\ hub'.applied = hub.cmd.rev
      BY <2>2 DEF Reply, HistoryInv, AcksAreGenuine, TypeOK, HubRow
    <3>2. call.cmd \in issued /\ call.cmd.id # NoId
      BY <3>1, ConstantsAssumption DEF HistoryInv, CommandsAreRecorded, TypeOK, Cmd
    <3>3. hub.cmd \in issued
      BY <3>1, <3>2 DEF HistoryInv, CommandsAreRecorded, Recorded, NoCmd
    <3>4. hub.cmd = call.cmd
      BY <3>1, <3>2, <3>3 DEF HistoryInv, IdsAreUnique
    <3>5. hub.cmd.rev \in Nat
      BY <3>3, ConstantsAssumption DEF TypeOK, Cmd
    <3> QED BY <1>1, <1>2, <3>1, <3>4, <3>5 DEF GenuineAck
  <2> QED BY <2>1, <2>2
<1>4. JobIsCurrent'
  BY <1>1 DEF Reply, HistoryInv, JobIsCurrent
<1>5. CommandsAreRecorded'
  BY <1>1, <1>2, Constants DEF HistoryInv, CommandsAreRecorded, Recorded
<1>6. AcksAreGenuine'
  BY <1>1, <1>3, Constants DEF HistoryInv, AcksAreGenuine, GenuineAck
<1> QED BY <1>1, <1>4, <1>5, <1>6 DEF HistoryInv, IdsAreUnique, FenceIsNewest

LEMMA RecordHistory == TypeOK /\ HistoryInv /\ (\E a \in Actions : Record(a)) => HistoryInv'
<1> SUFFICES ASSUME TypeOK, HistoryInv, NEW a \in Actions, Record(a) PROVE HistoryInv'
  OBVIOUS
<1> PICK i \in Ids :
      /\ \A c \in issued : c.id # i
      /\ LET new == [rev |-> hub.cmd.rev + 1, id |-> i, action |-> a] IN
           /\ hub' = [hub EXCEPT !.cmd = new]
           /\ issued' = issued \cup {new}
  BY DEF Record
<1> DEFINE new == [rev |-> hub.cmd.rev + 1, id |-> i, action |-> a]
<1>1. UNCHANGED <<backup, call, late, receipt, job, done>>
  BY DEF Record, netVars, agentVars
<1>2. hub'.cmd = new /\ hub'.applied = hub.applied /\ issued' = issued \cup {new}
  BY DEF TypeOK, HubRow
<1>3. IdsAreUnique'
  BY <1>2 DEF HistoryInv, IdsAreUnique
<1>4. CommandsAreRecorded'
  BY <1>1, <1>2 DEF HistoryInv, CommandsAreRecorded, Recorded
<1>5. GenuineAck(hub)'
  <2>1. hub.applied \in Nat /\ hub.cmd.rev \in Nat /\ hub.applied <= hub.cmd.rev
    BY Constants, ConstantsAssumption
    DEF TypeOK, HubRow, AnyCmd, Cmd, HistoryInv, AcksAreGenuine, GenuineAck
  <2> QED BY <1>2, <2>1 DEF GenuineAck
<1>6. AcksAreGenuine'
  BY <1>1, <1>5 DEF HistoryInv, AcksAreGenuine, GenuineAck
<1> QED BY <1>1, <1>3, <1>4, <1>6 DEF HistoryInv, FenceIsNewest, JobIsCurrent

LEMMA HubHistory == TypeOK /\ HistoryInv /\ HubStep => HistoryInv'
<1> SUFFICES ASSUME TypeOK, HistoryInv, HubStep PROVE HistoryInv'
  OBVIOUS
<1>1. CASE \E a \in Actions : Record(a)
  BY <1>1, RecordHistory
<1>2. CASE Send
  <2>1. hub.cmd # NoCmd
    <3>1. hub.applied \in Nat /\ hub.cmd.rev \in Nat
      BY Constants, ConstantsAssumption DEF TypeOK, HubRow, AnyCmd, Cmd
    <3> QED BY <1>2, <3>1, Constants DEF Send, Pending, HistoryInv, AcksAreGenuine, GenuineAck
  <2>2. hub.cmd \in issued
    BY <2>1 DEF HistoryInv, CommandsAreRecorded, Recorded
  <2> QED BY <1>2, <2>2
      DEF Send, hubVars, agentVars, HistoryInv, IdsAreUnique, CommandsAreRecorded, Recorded,
          FenceIsNewest, JobIsCurrent, AcksAreGenuine, GenuineAck
<1>3. CASE Reply
  BY <1>3, ReplyHistory
<1>4. CASE LoseCall
  BY <1>4, HangupHistory DEF LoseCall, hubVars
<1>5. CASE TakeBackup
  BY <1>5
  DEF TakeBackup, netVars, agentVars, HistoryInv, IdsAreUnique, CommandsAreRecorded, Recorded,
      FenceIsNewest, JobIsCurrent, AcksAreGenuine, GenuineAck
<1>6. CASE RestoreBackup
  BY <1>6, HangupHistory DEF RestoreBackup
<1> QED BY <1>1, <1>2, <1>3, <1>4, <1>5, <1>6 DEF HubStep

LEMMA CrashHistory == TypeOK /\ HistoryInv /\ AgentCrash => HistoryInv'
<1> SUFFICES ASSUME TypeOK, HistoryInv, AgentCrash PROVE HistoryInv'
  OBVIOUS
<1>1. UNCHANGED <<hub, backup, issued, late, receipt, done>> /\ job' = NoJob
  BY DEF AgentCrash, hubVars
<1>2. call'.cmd = call.cmd /\ (call' = call \/ call'.state = "refused")
      /\ (call'.state # "idle" => call.state # "idle")
  BY AnswerType DEF AgentCrash, Answer, TypeOK, Call, HistoryInv, JobIsCurrent
<1> QED BY <1>1, <1>2, Constants
    DEF HistoryInv, IdsAreUnique, CommandsAreRecorded, Recorded, FenceIsNewest, JobIsCurrent,
        AcksAreGenuine, GenuineAck

LEMMA NextHistory == TypeOK /\ HistoryInv /\ [Next]_vars => HistoryInv'
<1> SUFFICES ASSUME TypeOK, HistoryInv, [Next]_vars PROVE HistoryInv'
  OBVIOUS
<1>1. CASE UNCHANGED vars
  BY <1>1
  DEF vars, hubVars, netVars, agentVars, HistoryInv, IdsAreUnique, CommandsAreRecorded, Recorded,
      FenceIsNewest, JobIsCurrent, AcksAreGenuine, GenuineAck
<1> QED
  BY <1>1, HubHistory, HandleStepsHistory, ControlHistory, FinishHistory, ProcessHistory,
     CrashHistory
  DEF Next, AgentStep, JobStep, HandleSteps, ControlSteps, FinishSteps, ProcessStep

-----------------------------------------------------------------------------
(* The control row.                                                        *)

\* Nobody but a handler writes the row against a committed receipt.
LEMMA ControlUntouched ==
  ASSUME TypeOK, ControlInv,
         UNCHANGED <<control, receipt>>,
         job'.step = "idle" \/ (job'.step = job.step /\ job'.cmd = job.cmd)
  PROVE  ControlInv'
  BY DEF ControlInv, ControlIsReady, ControlCarriesIntent, Carries

LEMMA ProcessControl == TypeOK /\ ControlInv /\ ProcessStep => ControlInv'
<1> SUFFICES ASSUME TypeOK, ControlInv, ProcessStep PROVE ControlInv'
  OBVIOUS
<1>1. UNCHANGED <<receipt, job>>
  BY ProcessFrame
<1>2. CASE UNCHANGED control
  BY <1>1, <1>2, ControlUntouched
<1>3. CASE control' # control
  <2>1. PICK b \in BOOLEAN : ApplyConfig(b)
    BY <1>3 DEF ProcessStep, Tick, FlushCheck, FlushApply, RenewLease, ExpireLease, FenceExpired,
                CoreCrash
  <2>2. job.step = "idle"
    BY <2>1 DEF ApplyConfig, Unlocked
  <2>3. control \in Control
    BY DEF TypeOK
  <2>4. receipt.phase = "none"
    <3>1. [control EXCEPT !.desired = control.desired] = control
      BY <2>3 DEF Control
    <3> QED BY <1>3, <2>1, <3>1 DEF ApplyConfig
  <2> QED BY <1>1, <2>2, <2>4 DEF ControlInv, ControlIsReady, ControlCarriesIntent
<1> QED BY <1>2, <1>3

LEMMA ControlControl == TypeOK /\ HistoryInv /\ ControlInv /\ ControlSteps => ControlInv'
<1> SUFFICES ASSUME TypeOK, HistoryInv, ControlInv, ControlSteps PROVE ControlInv'
  OBVIOUS
<1>1. UNCHANGED receipt /\ job.step # "idle"
  BY ControlFrame
<1>2. job'.cmd = job.cmd
  BY ControlFrame DEF TypeOK, Job
<1>3. receipt.phase # "applied"
  BY <1>1 DEF HistoryInv, JobIsCurrent
<1>4. Carries(job.cmd.action)'
  <2>1. CASE PersistStop
    BY <1>2, <2>1 DEF PersistStop, Carries, TypeOK, Control
  <2>2. CASE PersistStart
    BY <1>2, <2>2 DEF PersistStart, Carries
  <2>3. CASE StopCore \/ StartCore
    BY <1>2, <2>3 DEF StopCore, StartCore, ControlInv, ControlIsReady, Carries
  <2> QED BY <2>1, <2>2, <2>3 DEF ControlSteps
<1> QED BY <1>1, <1>3, <1>4 DEF ControlInv, ControlIsReady, ControlCarriesIntent

LEMMA FinishControl == TypeOK /\ HistoryInv /\ ControlInv /\ FinishSteps => ControlInv'
<1> SUFFICES ASSUME TypeOK, HistoryInv, ControlInv, FinishSteps PROVE ControlInv'
  OBVIOUS
<1>1. PICK phase \in {"applied", "failed", "pending"}, answer \in {"acked", "refused"} :
         FinishJob(phase, answer) /\ (phase = "applied" => job.step = "commit")
  BY FinishFrame
<1>2. job'.step = "idle" /\ job.step # "idle"
  BY <1>1, FinishFrame, Constants DEF FinishJob
<1>3. CASE IsOrdered(job.cmd)
  <2>1. receipt'.cmd = job.cmd /\ receipt'.phase = phase
    BY <1>1, <1>2, <1>3 DEF FinishJob, TypeOK, Receipt, HistoryInv, JobIsCurrent
  <2>2. phase = "applied" => Carries(job.cmd.action) /\ UNCHANGED control
    <3>1. phase = "applied" => Commit
      BY <1>1, <1>3, <2>1
      DEF FinishSteps, StartWithoutLease, StopCoreFails, StartCoreFails, CommitFails, FinishJob,
          TypeOK, Receipt
    <3> QED BY <1>1, <3>1 DEF Commit, ControlInv, ControlIsReady
  <2> QED BY <1>2, <2>1, <2>2 DEF ControlInv, ControlIsReady, ControlCarriesIntent, Carries
<1>4. CASE ~IsOrdered(job.cmd)
  BY <1>1, <1>2, <1>4
  DEF FinishJob, HistoryInv, JobIsCurrent, ControlInv, ControlIsReady, ControlCarriesIntent
<1> QED BY <1>3, <1>4

LEMMA HandleControl == TypeOK /\ ControlInv /\ HandleSteps => ControlInv'
<1> SUFFICES ASSUME TypeOK, ControlInv, HandleSteps PROVE ControlInv'
  OBVIOUS
<1>1. UNCHANGED control
  BY DEF HandleSteps, Receive, ReceiveLate, LegacyCommand, Handle
<1>2. CASE UNCHANGED <<receipt, job>>
  BY <1>1, <1>2, ControlUntouched
<1>3. CASE job'.step = "control" /\ (receipt' = receipt \/ receipt'.phase = "pending")
  BY <1>1, <1>3 DEF ControlInv, ControlIsReady, ControlCarriesIntent, Carries
<1>4. ASSUME NEW c, NEW live, Handle(c, live)
      PROVE  \/ UNCHANGED <<receipt, job>>
             \/ job'.step = "control" /\ receipt'.phase = "pending"
  BY <1>4 DEF Handle, Accept, Refuse, AnswerDuplicate, Begin
<1>5. CASE Receive
  BY <1>2, <1>3, <1>4, <1>5 DEF Receive
<1>6. CASE ReceiveLate
  BY <1>2, <1>3, <1>4, <1>6 DEF ReceiveLate
<1>7. CASE \E a \in Actions : LegacyCommand(a)
  BY <1>3, <1>7 DEF LegacyCommand, Begin
<1> QED BY <1>5, <1>6, <1>7 DEF HandleSteps

LEMMA NextControl == TypeOK /\ HistoryInv /\ ControlInv /\ [Next]_vars => ControlInv'
<1> SUFFICES ASSUME TypeOK, HistoryInv, ControlInv, [Next]_vars PROVE ControlInv'
  OBVIOUS
<1>1. CASE HubStep \/ AgentCrash \/ UNCHANGED vars
  <2>1. UNCHANGED <<control, receipt>>
    BY <1>1 DEF HubStep, Record, Send, Reply, LoseCall, TakeBackup, RestoreBackup, Hangup,
                AgentCrash, vars, agentVars
  <2>2. job'.step = "idle" \/ (job'.step = job.step /\ job'.cmd = job.cmd)
    <3>1. CASE job' = [job EXCEPT !.live = FALSE]
      BY <3>1 DEF TypeOK, Job
    <3>2. CASE job' = NoJob \/ job' = job
      BY <3>2, Constants
    <3> QED BY <1>1, <3>1, <3>2
        DEF HubStep, Record, Send, Reply, LoseCall, TakeBackup, RestoreBackup, Hangup,
            AgentCrash, vars, agentVars
  <2> QED BY <2>1, <2>2, ControlUntouched
<1> QED
  BY <1>1, HandleControl, ControlControl, FinishControl, ProcessControl
  DEF Next, AgentStep, JobStep, HandleSteps, ControlSteps, FinishSteps, ProcessStep

LEMMA Invariance == Spec => []Inv
<1>1. Init => Inv
  BY InitType, InitHistory DEF Inv
<1>2. Inv /\ [Next]_vars => Inv'
  BY TypeInv, NextHistory, NextControl DEF Inv
<1> QED BY <1>1, <1>2, PTL DEF Spec

-----------------------------------------------------------------------------
(* Results.                                                                *)

\* Every variable keeps its type.
THEOREM TypeCorrect == Spec => []TypeOK
<1>1. Inv => TypeOK  BY DEF Inv
<1> QED BY <1>1, Invariance, PTL

\* A running command is newer than every committed one, however requests are
\* delayed, duplicated or reordered.
THEOREM InOrderExecution == Spec => []ExecutedInOrder
<1>1. Inv => ExecutedInOrder
  <2> SUFFICES ASSUME Inv, job.step # "idle", IsOrdered(job.cmd), NEW d \in done
               PROVE  d.rev < job.cmd.rev
    BY DEF ExecutedInOrder
  <2> QED BY DEF Inv, HistoryInv, JobIsCurrent, FenceIsNewest
<1> QED BY <1>1, Invariance, PTL

\* The Hub never shows an acknowledgement of something the Agent did not
\* commit, with lost answers, newer intents and restored backups.
THEOREM GenuineAcknowledgement == Spec => []AcknowledgedWasCommitted
<1>1. Inv => AcknowledgedWasCommitted
  BY DEF Inv, HistoryInv, AcksAreGenuine, GenuineAck, AcknowledgedWasCommitted, Pending
<1> QED BY <1>1, Invariance, PTL

\* The durable control row agrees with a committed receipt.
THEOREM ControlFollowsReceipt == Spec => []ControlCarriesIntent
<1>1. Inv => ControlCarriesIntent  BY DEF Inv, ControlInv
<1> QED BY <1>1, Invariance, PTL

\* An acknowledged Stop stays a pause until the Agent accepts a newer command.
THEOREM DurableStop == Spec => []AcknowledgedStopPauses
<1>1. Inv => AcknowledgedStopPauses
  <2> SUFFICES ASSUME Inv, hub.cmd.action = "stop", ~Pending, receipt.cmd.rev <= hub.cmd.rev
               PROVE  control.manual
    BY DEF AcknowledgedStopPauses
  <2>1. hub.cmd # NoCmd
    BY DEF NoCmd
  <2>2. hub.cmd \in Cmd /\ hub.cmd.rev \in Nat /\ hub.cmd.rev > 0
    BY <2>1, ConstantsAssumption DEF Inv, TypeOK, HubRow, AnyCmd, Cmd
  <2>3. hub.cmd \in done
    BY <2>2 DEF Inv, HistoryInv, AcksAreGenuine, GenuineAck, Pending
  <2>4. receipt.cmd.rev \in Nat
    BY Constants, ConstantsAssumption DEF Inv, TypeOK, Receipt, AnyCmd, Cmd
  <2>5. hub.cmd = receipt.cmd /\ receipt.phase = "applied"
    BY <2>2, <2>3, <2>4 DEF Inv, HistoryInv, FenceIsNewest
  <2> QED BY <2>5 DEF Inv, ControlInv, ControlCarriesIntent, Carries
<1> QED BY <1>1, Invariance, PTL

\* Commands take effect in order, and the latest one for good.
THEOREM OrderedControl == Spec => []ControlFollowsIntent
<1>1. ExecutedInOrder /\ ControlCarriesIntent => ControlFollowsIntent
  BY DEF ControlFollowsIntent
<1> QED BY <1>1, InOrderExecution, ControlFollowsReceipt, PTL

\* Every acknowledgement is genuine, that of a Stop lasting.
THEOREM LastingAcknowledgement == Spec => []AcknowledgementsHold
<1>1. AcknowledgedWasCommitted /\ AcknowledgedStopPauses => AcknowledgementsHold
  BY DEF AcknowledgementsHold
<1> QED BY <1>1, GenuineAcknowledgement, DurableStop, PTL

\* The receipt only moves to a newer command, or through the phases of its
\* own, and a committed one is final.
THEOREM FenceOnlyAdvances == Spec => FenceAdvances
<1> DEFINE Advance == \/ receipt'.cmd.rev > receipt.cmd.rev
                      \/ receipt'.cmd = receipt.cmd /\ receipt.phase # "applied"
<1>1. Inv /\ [Next]_vars => [Advance]_receipt
  <2> SUFFICES ASSUME Inv, [Next]_vars, receipt' # receipt PROVE Advance
    OBVIOUS
  <2>1. HandleSteps \/ FinishSteps
    BY ProcessFrame, ControlFrame
    DEF Next, AgentStep, JobStep, HandleSteps, FinishSteps, ControlSteps, ProcessStep, HubStep,
        Record, Send, Reply, LoseCall, TakeBackup, RestoreBackup, Hangup, AgentCrash, vars,
        agentVars
  <2>2. CASE FinishSteps
    <3>1. PICK phase, answer : FinishJob(phase, answer) /\ job.step # "idle"
      BY <2>2, FinishFrame
    <3> QED BY <3>1 DEF FinishJob, Inv, HistoryInv, JobIsCurrent, TypeOK, Receipt
  <2>3. CASE HandleSteps
    <3>1. PICK c \in issued, live \in BOOLEAN : Accept(c, live)
      BY <2>3
      DEF HandleSteps, Receive, ReceiveLate, LegacyCommand, Handle, Refuse, AnswerDuplicate,
          Inv, HistoryInv, CommandsAreRecorded
    <3>2. c.rev \in Nat /\ receipt.cmd.rev \in Nat
      BY Constants, ConstantsAssumption DEF Inv, TypeOK, Receipt, AnyCmd, Cmd
    <3> QED BY <3>1, <3>2 DEF Accept, Conflict, Duplicate
  <2> QED BY <2>1, <2>2, <2>3
<1> QED BY <1>1, Invariance, PTL DEF Spec, FenceAdvances

-----------------------------------------------------------------------------
(* NodeCommands implements RunIntent.                                      *)

\* The register moves only in the Hub's steps, the fence only in handlers.
LEMMA SilentSteps ==
  ASSUME \/ ProcessStep \/ ControlSteps \/ AgentCrash \/ Send \/ LoseCall \/ TakeBackup
         \/ UNCHANGED vars
  PROVE  UNCHANGED Promise!vars
<1>1. UNCHANGED <<hub, receipt, issued, done>>
  BY ProcessFrame, ControlFrame
  DEF hubVars, AgentCrash, Send, LoseCall, Hangup, TakeBackup, vars, agentVars
<1> QED BY <1>1 DEF Promise!vars, Pending

LEMMA RecordRefines == Inv /\ (\E a \in Actions : Record(a)) => Promise!Issue
<1> SUFFICES ASSUME Inv, NEW a \in Actions, Record(a) PROVE Promise!Issue
  OBVIOUS
<1> PICK i \in Ids :
      /\ \A c \in issued : c.id # i
      /\ hub' = [hub EXCEPT !.cmd = [rev |-> hub.cmd.rev + 1, id |-> i, action |-> a]]
      /\ issued' = issued \cup {[rev |-> hub.cmd.rev + 1, id |-> i, action |-> a]}
      /\ hub.cmd.rev < MaxRevision
  BY DEF Record
<1> DEFINE new == [rev |-> hub.cmd.rev + 1, id |-> i, action |-> a]
<1>1. hub'.cmd = new /\ hub'.applied = hub.applied
  BY DEF Inv, TypeOK, HubRow
<1>2. hub.cmd.rev \in Nat /\ hub.applied \in Nat /\ hub.applied <= hub.cmd.rev
  BY Constants, ConstantsAssumption
  DEF Inv, TypeOK, HubRow, AnyCmd, Cmd, HistoryInv, AcksAreGenuine, GenuineAck
<1>3. Pending' = TRUE
  BY <1>1, <1>2 DEF Pending
<1>4. new.rev <= MaxRevision
  BY <1>2, ConstantsAssumption
<1>5. UNCHANGED <<receipt, done>>
  BY DEF Record, agentVars
<1> QED BY <1>1, <1>3, <1>4, <1>5 DEF Promise!Issue, Promise!Actions, Actions

LEMMA ReplyRefines == Inv /\ Inv' /\ Reply => [Promise!Acknowledge]_(Promise!vars)
<1> SUFFICES ASSUME Inv, Inv', Reply PROVE [Promise!Acknowledge]_(Promise!vars)
  OBVIOUS
<1>1. UNCHANGED <<receipt, issued, done>>
  BY DEF Reply, agentVars
<1>2. CASE hub' = hub
  BY <1>1, <1>2 DEF Promise!vars, Pending
<1>3. CASE hub' # hub
  <2>1. hub'.cmd = hub.cmd /\ hub'.applied = hub.cmd.rev /\ call.cmd \in done /\ hub.cmd.rev = call.cmd.rev
    BY <1>3 DEF Reply, Inv, TypeOK, HubRow, HistoryInv, AcksAreGenuine
  <2>2. hub.cmd.rev > 0
    BY <2>1, ConstantsAssumption DEF Inv, TypeOK, Cmd
  <2>3. hub.cmd \in done
    BY <1>1, <2>1, <2>2 DEF Inv, HistoryInv, AcksAreGenuine, GenuineAck
  <2>4. Pending' = FALSE
    BY <2>1 DEF Pending
  <2>5. [cmd |-> hub.cmd, acked |-> ~Pending]' = [cmd |-> hub.cmd, acked |-> TRUE]
    BY <2>1, <2>4
  <2> QED BY <1>1, <2>3, <2>5 DEF Promise!Acknowledge
<1> QED BY <1>2, <1>3

LEMMA RestoreRefines == Inv /\ RestoreBackup => Promise!Restore
<1> SUFFICES ASSUME Inv, RestoreBackup PROVE Promise!Restore
  OBVIOUS
<1>1. hub' = backup /\ Restores /\ UNCHANGED <<receipt, issued, done>>
  BY DEF RestoreBackup, Hangup
<1>2. backup.cmd \in issued \cup {NoCmd}
  BY DEF Inv, HistoryInv, CommandsAreRecorded, Recorded
<1>3. ~Pending' => backup.cmd \in done \cup {NoCmd}
  <2>1. backup.cmd.rev > 0 \/ backup.cmd = NoCmd
    BY ConstantsAssumption DEF Inv, TypeOK, HubRow, AnyCmd, Cmd
  <2> QED BY <1>1, <2>1 DEF Pending, Inv, HistoryInv, AcksAreGenuine, GenuineAck
<1>4. \E acked \in BOOLEAN : (acked <=> ~Pending') /\ acked = ~Pending'
  BY DEF Pending
<1> QED BY <1>1, <1>2, <1>3, <1>4 DEF Promise!Restore, Promise!NoCmd, NoCmd

LEMMA HandleRefines == Inv /\ HandleSteps => [Promise!Accept]_(Promise!vars)
<1> SUFFICES ASSUME Inv, HandleSteps PROVE [Promise!Accept]_(Promise!vars)
  OBVIOUS
<1>1. UNCHANGED <<hub, issued, done>>
  BY DEF HandleSteps, Receive, ReceiveLate, LegacyCommand, Handle, hubVars
<1>2. CASE receipt' = receipt
  BY <1>1, <1>2 DEF Promise!vars, Pending
<1>3. CASE receipt' # receipt
  <2>1. PICK c \in issued, live \in BOOLEAN : Accept(c, live)
    BY <1>3
    DEF HandleSteps, Receive, ReceiveLate, LegacyCommand, Handle, Refuse, AnswerDuplicate,
        Inv, HistoryInv, CommandsAreRecorded
  <2>2. c.rev \in Nat /\ receipt.cmd.rev \in Nat
    BY Constants, ConstantsAssumption DEF Inv, TypeOK, Receipt, AnyCmd, Cmd
  <2>3. receipt' = [cmd |-> c, phase |-> "pending"]
    BY <2>1 DEF Accept
  <2>4. c.rev > receipt.cmd.rev \/ (c = receipt.cmd /\ receipt.phase # "applied")
    BY <2>1, <2>2 DEF Accept, Conflict, Duplicate
  <2>5. UNCHANGED Pending
    BY <1>1 DEF Pending
  <2> QED BY <1>1, <2>3, <2>4, <2>5 DEF Promise!Accept
<1> QED BY <1>2, <1>3

LEMMA FinishRefines == Inv /\ FinishSteps => [Promise!Settle \/ Promise!Fail]_(Promise!vars)
<1> SUFFICES ASSUME Inv, FinishSteps PROVE [Promise!Settle \/ Promise!Fail]_(Promise!vars)
  OBVIOUS
<1>1. UNCHANGED <<hub, issued>> /\ job.step # "idle"
  BY FinishFrame DEF hubVars
<1>2. PICK phase \in {"applied", "failed", "pending"}, answer \in {"acked", "refused"} :
                FinishJob(phase, answer)
  BY FinishFrame
<1>3. UNCHANGED Pending
  BY <1>1 DEF Pending
<1>4. CASE ~IsOrdered(job.cmd)
  BY <1>1, <1>2, <1>3, <1>4 DEF FinishJob, Promise!vars
<1>5. CASE IsOrdered(job.cmd)
  <2>1. receipt.cmd = job.cmd /\ receipt.phase = "pending"
    BY <1>1, <1>5 DEF Inv, HistoryInv, JobIsCurrent
  <2>2. receipt' = [receipt EXCEPT !.phase = phase]
    BY <1>2, <1>5 DEF FinishJob
  <2>3. CASE phase = "pending"
    BY <1>1, <1>2, <1>3, <1>5, <2>1, <2>2, <2>3 DEF FinishJob, Promise!vars, Inv, TypeOK, Receipt
  <2>4. CASE phase = "failed"
    BY <1>1, <1>2, <1>3, <1>5, <2>1, <2>2, <2>4 DEF FinishJob, Promise!Fail
  <2>5. CASE phase = "applied"
    <3>1. \A d \in done : d.rev < receipt.cmd.rev
      BY <2>1 DEF Inv, HistoryInv, FenceIsNewest
    <3> QED BY <1>1, <1>2, <1>3, <1>5, <2>1, <2>2, <2>5, <3>1 DEF FinishJob, Promise!Settle
  <2> QED BY <2>3, <2>4, <2>5
<1> QED BY <1>4, <1>5

\* Network, engine lock, configuration, lease and crashes do not show: the
\* detailed protocol is a register, a fence and in-order settling.
THEOREM Refinement == Spec => ImplementsRunIntent
<1>1. Init => Promise!Init
  <2> SUFFICES ASSUME Init PROVE Promise!Init
    OBVIOUS
  <2>1. hub.cmd = NoCmd /\ Pending = FALSE
    BY Constants DEF Init, Pending
  <2> QED BY <2>1 DEF Init, Promise!Init, Promise!NoCmd, NoCmd
<1>2. Inv /\ Inv' /\ [Next]_vars => [Promise!Next]_(Promise!vars)
  BY SilentSteps, RecordRefines, ReplyRefines, RestoreRefines, HandleRefines, FinishRefines
  DEF Next, HubStep, AgentStep, JobStep, HandleSteps, ControlSteps, FinishSteps, ProcessStep,
      Promise!Next
<1> QED BY <1>1, <1>2, Invariance, PTL DEF Spec, ImplementsRunIntent, Promise!Spec
=============================================================================
