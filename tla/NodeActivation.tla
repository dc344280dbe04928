--------------------------- MODULE NodeActivation ---------------------------
(***************************************************************************)
(* Bringing a replaced Node into service (node_replacement_deployment.py,  *)
(* node_replacement_activation.py): a stopped configuration is staged, the *)
(* owner reviews exactly that configuration, and a journaled Start runs it *)
(* conditionally.  One operation at a time holds the Node's operation      *)
(* lock; edits, ordinary Stops and late requests do not wait for it.       *)
(***************************************************************************)
EXTENDS Integers, FiniteSets

CONSTANTS
    MaxEdits,       \* edits of the configuration
    MaxCommands     \* bound on the revision of run commands

VARIABLES
    conf,       \* what the owner edits: source (hashed tables), payload (compiled)
    desired,    \* remote_node_desired_state: payload and the acknowledged one
    control,    \* remote_node_control: action, revision, pending
    deploy,     \* the row of remote_node_replacement_deployments
    act,        \* the row of remote_node_replacement_activations
    enabled,    \* remote_nodes.enabled
    reviewed,   \* the review the owner has seen last
    agent,      \* the Agent: configuration, last command, core running
    sent,       \* requests sent so far; each may arrive late, or again
    job,        \* the operation that holds the Node's lock
    starts      \* history: how often the core was started, and for which revision

activationVars == <<conf, desired, control, deploy, act, enabled, reviewed, agent, sent,
                    job, starts>>

NoReview == [src |-> -1, des |-> -1, ctl |-> -1]
NoJob == [pc |-> "idle", then |-> "none", src |-> 0, review |-> NoReview]

\* _replace_locked has left a Stop and disabled the Node.
ActivationInit ==
    /\ conf = [src |-> 0, payload |-> 0]
    /\ desired = [v |-> 0, applied |-> -1]
    /\ control = [act |-> "stop", rev |-> 1, pending |-> TRUE]
    /\ deploy = [phase |-> "none", ctl |-> 0, src |-> 0, des |-> 0, hold |-> FALSE]
    /\ act = [phase |-> "none", start |-> 0, stop |-> 0, src |-> 0, des |-> 0]
    /\ enabled = FALSE
    /\ reviewed = NoReview
    /\ agent = [cfg |-> -1, rev |-> 0, act |-> "stop", running |-> FALSE]
    /\ sent = {}
    /\ job = NoJob
    /\ starts = [r \in 0 .. MaxCommands |-> 0]

Goto(pc) == job' = [job EXCEPT !.pc = pc]
Review == [src |-> deploy.src, des |-> deploy.des, ctl |-> deploy.ctl]

\* ReplacementDeployment._assert
StageCurrent ==
    /\ deploy.hold /\ ~enabled
    /\ control.act = "stop" /\ control.rev = deploy.ctl

\* ReplacementActivation._assert
ActCurrent ==
    /\ deploy.hold /\ ~enabled
    /\ IF act.phase = "starting" THEN control.act = "start" /\ control.rev = act.start
                                 ELSE control.act = "stop" /\ control.rev = act.stop

InputsCurrent ==
    desired = [v |-> act.des, applied |-> act.des] /\ conf.src = act.src

---------------------------------------------------------------------------
(* What does not wait for the lock *)

\* Only the bytes of a certificate change without changing the hashed tables.
Edit(tables) ==
    /\ conf.payload < MaxEdits
    /\ conf' = [src |-> IF tables THEN conf.src + 1 ELSE conf.src, payload |-> conf.payload + 1]
    /\ UNCHANGED <<desired, control, deploy, act, enabled, reviewed, agent, sent, job, starts>>

\* set_desired_state, from the ordinary compilation of the Node's configuration.
CompileDesired ==
    /\ desired.v # conf.payload
    /\ desired' = [desired EXCEPT !.v = conf.payload]
    /\ UNCHANGED <<conf, control, deploy, act, enabled, reviewed, agent, sent, job, starts>>

\* NodeCommands.record: the hold refuses a Start; a pending command is kept.
Record(action) ==
    /\ action = "start" => ~deploy.hold
    /\ control.act # action \/ ~control.pending
    /\ control.rev < MaxCommands
    /\ control' = [act |-> action, rev |-> control.rev + 1, pending |-> TRUE]
    /\ UNCHANGED <<conf, desired, deploy, act, enabled, reviewed, agent, sent, job, starts>>

\* The hold exists from the first staging on; before it the Node may be enabled.
SetEnabled(on) ==
    /\ on => ~deploy.hold
    /\ enabled' = on /\ enabled # on
    /\ UNCHANGED <<conf, desired, control, deploy, act, reviewed, agent, sent, job, starts>>

\* An enabled Node gets its command from the monitor (see NodeCommands).
DeliverOrdinary ==
    /\ enabled /\ control.pending /\ control.rev >= agent.rev
    /\ control' = [control EXCEPT !.pending = FALSE]
    /\ agent' = [agent EXCEPT !.rev = control.rev, !.act = control.act,
                              !.running = control.act = "start"]
    /\ UNCHANGED <<conf, desired, deploy, act, enabled, reviewed, sent, job, starts>>

CoreDies ==
    /\ agent.running /\ agent' = [agent EXCEPT !.running = FALSE]
    /\ UNCHANGED <<conf, desired, control, deploy, act, enabled, reviewed, sent, job, starts>>

---------------------------------------------------------------------------
(* Staging *)

\* stage, review and a new activation begin with the same journaled Stop.
StageBegin(then) ==
    /\ job = NoJob
    /\ act.phase \notin {"starting", "stopping"}
    /\ then # "none" => act.phase # "activated"
    /\ then = "begin" => reviewed # NoReview /\ Review = reviewed
    /\ ~enabled /\ control.act = "stop" /\ deploy.phase # "activated"
    /\ deploy' = [deploy EXCEPT !.phase = "pending", !.ctl = control.rev, !.hold = TRUE]
    /\ job' = [NoJob EXCEPT !.pc = "stop", !.then = then, !.review = reviewed]
    /\ UNCHANGED <<conf, desired, control, act, enabled, reviewed, agent, sent, starts>>

StageStop ==
    /\ job.pc = "stop" /\ StageCurrent
    /\ sent' = sent \union {[do |-> "stop", rev |-> deploy.ctl, des |-> 0]}
    /\ Goto("stopSent")
    /\ UNCHANGED <<conf, desired, control, deploy, act, enabled, reviewed, agent, starts>>

\* The Stop is acknowledged; the configuration is compiled and published.
StageCompile ==
    /\ job.pc = "stopped" /\ StageCurrent /\ ~agent.running /\ agent.act = "stop"
    /\ control' = [control EXCEPT !.pending = FALSE]
    /\ desired' = [desired EXCEPT !.v = conf.payload]
    /\ deploy' = [deploy EXCEPT !.src = conf.src, !.des = conf.payload]
    /\ job' = [job EXCEPT !.pc = "apply", !.src = conf.src]
    /\ UNCHANGED <<conf, act, enabled, reviewed, agent, sent, starts>>

StageApply ==
    /\ job.pc = "apply" /\ StageCurrent
    /\ sent' = sent \union {[do |-> "apply", rev |-> 0, des |-> deploy.des]}
    /\ Goto("applySent")
    /\ UNCHANGED <<conf, desired, control, deploy, act, enabled, reviewed, agent, starts>>

StageVerify ==
    /\ job.pc = "applied" /\ StageCurrent
    /\ agent.cfg = deploy.des /\ ~agent.running
    /\ agent.rev = deploy.ctl /\ agent.act = "stop"
    /\ Goto("publish")
    /\ UNCHANGED <<conf, desired, control, deploy, act, enabled, reviewed, agent, sent, starts>>

\* The last compilation catches what was edited meanwhile.
StagePublish ==
    /\ job.pc = "publish" /\ StageCurrent
    /\ desired' = [desired EXCEPT !.v = conf.payload]
    /\ IF conf.src = job.src /\ desired' = [v |-> deploy.des, applied |-> deploy.des]
       THEN /\ deploy' = [deploy EXCEPT !.phase = "staged"]
            /\ IF job.then = "begin" THEN Goto("begin") /\ UNCHANGED reviewed
               ELSE /\ job' = NoJob
                    /\ reviewed' = IF job.then = "review" THEN Review ELSE reviewed
       ELSE job' = NoJob /\ UNCHANGED <<deploy, reviewed>>
    /\ UNCHANGED <<conf, control, act, enabled, agent, sent, starts>>

---------------------------------------------------------------------------
(* Activation *)

\* The Start is journaled before any request; the hold stays closed.
BeginStart ==
    /\ job.pc = "begin" /\ StageCurrent /\ Review = job.review /\ control.rev < MaxCommands
    /\ control' = [act |-> "start", rev |-> control.rev + 1, pending |-> TRUE]
    /\ act' = [phase |-> "starting", start |-> control.rev + 1, stop |-> 0,
               src |-> deploy.src, des |-> deploy.des]
    /\ Goto("fresh")
    /\ UNCHANGED <<conf, desired, deploy, enabled, reviewed, agent, sent, starts>>

\* A retry goes on with the journaled Start.
ActivateRetry ==
    /\ job = NoJob /\ act.phase = "starting"
    /\ Goto("fresh")
    /\ UNCHANGED <<conf, desired, control, deploy, act, enabled, reviewed, agent, sent, starts>>

\* _fresh_inputs, before and after the Start: what has changed wins, by a Stop.
FreshInputs ==
    /\ job.pc \in {"fresh", "confirm"}
    /\ IF ActCurrent /\ InputsCurrent /\ conf.payload = act.des
       THEN IF job.pc = "fresh"
            THEN /\ sent' = sent \union {[do |-> "start", rev |-> act.start, des |-> act.des]}
                 /\ Goto("startSent")
            ELSE /\ agent.running /\ agent.cfg = act.des /\ agent.rev = act.start
                 /\ Goto("finish") /\ UNCHANGED sent
       ELSE Goto("pause") /\ UNCHANGED sent
    /\ UNCHANGED <<conf, desired, control, deploy, act, enabled, reviewed, agent, starts>>

\* One transaction: Start acknowledged, hold released, Node enabled.
ActivateFinish ==
    /\ job.pc = "finish"
    /\ IF ActCurrent /\ InputsCurrent
       THEN /\ control' = [control EXCEPT !.pending = FALSE]
            /\ deploy' = [deploy EXCEPT !.hold = FALSE, !.phase = "activated"]
            /\ act' = [act EXCEPT !.phase = "activated"]
            /\ enabled' = TRUE /\ job' = NoJob
       ELSE Goto("pause") /\ UNCHANGED <<control, deploy, act, enabled>>
    /\ UNCHANGED <<conf, desired, reviewed, agent, sent, starts>>

---------------------------------------------------------------------------
(* Pause *)

PauseAsk ==
    /\ job = NoJob /\ act.phase \in {"starting", "stopping"}
    /\ Goto("pause")
    /\ UNCHANGED <<conf, desired, control, deploy, act, enabled, reviewed, agent, sent, starts>>

\* The compensating Stop is journaled; one recorded meanwhile is taken over.
PauseBegin ==
    /\ job.pc = "pause" /\ act.phase \in {"starting", "stopping"} /\ deploy.hold /\ ~enabled
    /\ IF act.phase = "stopping" THEN UNCHANGED <<control, act>>
       ELSE IF control.act = "stop"
       THEN act' = [act EXCEPT !.phase = "stopping", !.stop = control.rev] /\ UNCHANGED control
       ELSE /\ control.rev = act.start /\ control.rev < MaxCommands
            /\ control' = [act |-> "stop", rev |-> control.rev + 1, pending |-> TRUE]
            /\ act' = [act EXCEPT !.phase = "stopping", !.stop = control.rev + 1]
    /\ Goto("pauseSend")
    /\ UNCHANGED <<conf, desired, deploy, enabled, reviewed, agent, sent, starts>>

PauseSend ==
    /\ job.pc = "pauseSend" /\ ActCurrent
    /\ sent' = sent \union {[do |-> "stop", rev |-> act.stop, des |-> 0]}
    /\ Goto("pauseSent")
    /\ UNCHANGED <<conf, desired, control, deploy, act, enabled, reviewed, agent, starts>>

PauseFinish ==
    /\ job.pc = "paused" /\ ActCurrent /\ ~agent.running /\ agent.act = "stop"
    /\ control' = [control EXCEPT !.pending = FALSE]
    /\ act' = [act EXCEPT !.phase = "paused"]
    /\ job' = NoJob
    /\ UNCHANGED <<conf, desired, deploy, enabled, reviewed, agent, sent, starts>>

\* A refusal, a timeout, or the end of the Hub process.
JobEnds ==
    /\ job # NoJob /\ job' = NoJob
    /\ UNCHANGED <<conf, desired, control, deploy, act, enabled, reviewed, agent, sent, starts>>

---------------------------------------------------------------------------
(* The Agent *)

AgentApplies(m) ==
    /\ m.do = "apply" /\ m.des >= agent.cfg
    /\ agent' = [agent EXCEPT !.cfg = m.des]
    /\ \/ /\ job.pc = "applySent" /\ m.des = deploy.des
          /\ Goto("applied")
          /\ desired' = IF desired.v = m.des THEN [desired EXCEPT !.applied = m.des] ELSE desired
       \/ UNCHANGED <<job, desired>>
    /\ UNCHANGED <<conf, control, deploy, act, enabled, reviewed, sent, starts>>

Reply(m) ==
    \/ job.pc = "stopSent" /\ m.do = "stop" /\ m.rev = deploy.ctl /\ Goto("stopped")
    \/ job.pc = "pauseSent" /\ m.do = "stop" /\ m.rev = act.stop /\ Goto("paused")
    \/ job.pc = "startSent" /\ m.do = "start" /\ m.rev = act.start /\ Goto("confirm")
    \/ UNCHANGED job

\* Faulty variant: the revision is not compared with the last command.
HeedlessAgentObeys(m) ==
    /\ m.do \in {"stop", "start"}
    /\ m.do = "start" => agent.cfg = m.des
    /\ agent' = [agent EXCEPT !.rev = m.rev, !.act = m.do, !.running = m.do = "start"]
    /\ starts' = IF m.do = "start" THEN [starts EXCEPT ![m.rev] = @ + 1] ELSE starts
    /\ Reply(m)
    /\ UNCHANGED <<conf, desired, control, deploy, act, enabled, reviewed, sent>>

\* ordered_command: a newer command is carried out, the last one only acknowledged;
\* a conditional Start needs the reviewed configuration.
AgentObeys(m) ==
    /\ m.do \in {"stop", "start"} /\ m.rev > agent.rev
    /\ m.do = "start" => agent.cfg = m.des
    /\ agent' = [agent EXCEPT !.rev = m.rev, !.act = m.do, !.running = m.do = "start"]
    /\ starts' = IF m.do = "start" THEN [starts EXCEPT ![m.rev] = @ + 1] ELSE starts
    /\ Reply(m)
    /\ UNCHANGED <<conf, desired, control, deploy, act, enabled, reviewed, sent>>

AgentRepeats(m) ==
    /\ m.do = agent.act /\ m.rev = agent.rev
    /\ m.do = "start" => agent.running
    /\ Reply(m) /\ job' # job
    /\ UNCHANGED <<conf, desired, control, deploy, act, enabled, reviewed, agent, sent, starts>>

ActivationNext ==
    \/ \E b \in BOOLEAN : Edit(b) \/ SetEnabled(b)
    \/ \E r \in {"start", "stop"} : Record(r)
    \/ \E then \in {"none", "review", "begin"} : StageBegin(then)
    \/ CompileDesired \/ DeliverOrdinary \/ CoreDies
    \/ StageStop \/ StageCompile \/ StageApply \/ StageVerify \/ StagePublish
    \/ BeginStart \/ ActivateRetry \/ FreshInputs \/ ActivateFinish
    \/ PauseAsk \/ PauseBegin \/ PauseSend \/ PauseFinish \/ JobEnds
    \/ \E m \in sent : AgentApplies(m) \/ AgentObeys(m) \/ AgentRepeats(m)

ActivationSpec == ActivationInit /\ [][ActivationNext]_activationVars

---------------------------------------------------------------------------
ActivationTypeOK ==
    /\ conf \in [src : 0 .. MaxEdits, payload : 0 .. MaxEdits]
    /\ desired \in [v : 0 .. MaxEdits, applied : -1 .. MaxEdits]
    /\ control \in [act : {"start", "stop"}, rev : 1 .. MaxCommands, pending : BOOLEAN]
    /\ deploy \in [phase : {"none", "pending", "staged", "activated"}, ctl : 0 .. MaxCommands,
                   src : 0 .. MaxEdits, des : 0 .. MaxEdits, hold : BOOLEAN]
    /\ act \in [phase : {"none", "starting", "stopping", "paused", "activated"},
                start : 0 .. MaxCommands, stop : 0 .. MaxCommands,
                src : 0 .. MaxEdits, des : 0 .. MaxEdits]
    /\ enabled \in BOOLEAN
    /\ agent \in [cfg : -1 .. MaxEdits, rev : 0 .. MaxCommands, act : {"start", "stop"},
                  running : BOOLEAN]
    /\ starts \in [0 .. MaxCommands -> Nat]

\* While the hold is closed the Node stays disabled, the only Start on record is the
\* journaled one, and an activation that has been paused leaves the server stopped,
\* whichever requests arrive late.
HeldIsOff ==
    deploy.hold =>
        /\ ~enabled
        /\ control.act = "start" => act.phase = "starting" /\ control.rev = act.start
        /\ act.phase \in {"none", "paused"} /\ agent.rev = control.rev => ~agent.running
        /\ act.phase = "paused" => ~agent.running

\* A pause that has begun can be finished: its Stop is still the Node's pending
\* command (record keeps the identity of a pending Stop, and a disabled Node gets
\* no ordinary delivery that would acknowledge it).
PauseCanFinish ==
    act.phase = "stopping" =>
        control = [act |-> "stop", rev |-> act.stop, pending |-> TRUE]

\* Retries after lost replies start the core once per journaled Start.
StartsOnce == \A r \in 0 .. MaxCommands : starts[r] <= 1

\* The Node enters service only with the configuration that was reviewed, staged,
\* acknowledged and is still current, and only by the Start journaled for it.
ActivatedAsReviewed ==
    [][act.phase = "starting" /\ act'.phase = "activated" =>
          /\ agent.cfg = act.des /\ agent.rev = act.start
          /\ desired = [v |-> act.des, applied |-> act.des] /\ conf.src = act.src
          /\ control.act = "start" /\ control.rev = act.start]_activationVars
=============================================================================
