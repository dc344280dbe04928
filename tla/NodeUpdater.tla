------------------------------ MODULE NodeUpdater ------------------------------
(***************************************************************************)
(* Updates of a Node: the Hub asks the Node's root-owned broker            *)
(* (node_updated.py) to check and then to start exactly the commit the Hub *)
(* itself runs; the job (update_node.py) prepares while the Agent serves,  *)
(* swaps source and environment while it is stopped, and puts back what it *)
(* can when that fails.  A commit is its version's place in history.       *)
(***************************************************************************)
EXTENDS Integers

CONSTANTS
    NodeCommits,        \* commits the Hub may run
    NodeInstalled,      \* the Node's at first
    MaxNodeJobs,        \* bounds: jobs, bytes, broken steps and the Hub's own updates
    MaxMetered,
    NodeUpdateFaults,
    MaxHubMoves

ASSUME NodeUpdateAssumption ==
    /\ NodeCommits \subseteq Nat \ {0} /\ NodeInstalled \in Nat \ {0}
    /\ {MaxNodeJobs, MaxMetered, NodeUpdateFaults, MaxHubMoves} \subseteq Nat

VARIABLES
    hubAt,          \* the commit the Hub runs
    nodeReport,     \* the broker's state file: state and candidate
    nodeBroker,     \* up, candidate in memory, and its worker's job
    nodeScript,     \* update_node.py: step, commit, snapshots, exit status, failed attempts
    source, venv,   \* what APP and APP/.venv hold
    identity,       \* installed-source.json
    agentRuns,      \* what the running Agent was started from
    metered,        \* bytes in the Agent's live database
    nodeJobs, nodeFaults, hubMoves,
    wanted,         \* history: commits of the Hub whose CI a check has seen green
    before,         \* history: the source the last job found
    counted,        \* history: bytes the Agent has metered
    nodeBroken      \* history: a killed job, a failed stop, or an incomplete rollback

nodeUpdateVars == <<hubAt, nodeReport, nodeBroker, nodeScript, source, venv, identity, agentRuns,
                    metered, nodeJobs, nodeFaults, hubMoves, wanted, before, counted, nodeBroken>>

Nothing == 0
Mixed == -1     \* a source partly copied, an environment between two renames
Down == -2
Idle == [pc |-> "none", c |-> Nothing, src |-> Nothing, env |-> Nothing, meta |-> Nothing,
         db |-> 0, ok |-> FALSE]
Whole == source = venv /\ source = identity /\ source = agentRuns

NodeUpdateInit ==
    /\ hubAt = NodeInstalled
    /\ nodeReport = [st |-> "idle", c |-> Nothing]
    /\ nodeBroker = [up |-> TRUE, c |-> Nothing, ready |-> FALSE, job |-> Nothing]
    /\ nodeScript = Idle
    /\ source = NodeInstalled /\ venv = NodeInstalled /\ identity = NodeInstalled
    /\ agentRuns = NodeInstalled
    /\ metered = 0 /\ counted = 0 /\ nodeJobs = 0 /\ nodeFaults = 0 /\ hubMoves = 0
    /\ wanted = {NodeInstalled} /\ before = NodeInstalled /\ nodeBroken = FALSE

NodeFault == nodeFaults < NodeUpdateFaults /\ nodeFaults' = nodeFaults + 1
Reported(st) == nodeReport' = [st |-> st, c |-> nodeBroker.c]

---------------------------------------------------------------------------
(* The Hub and the broker *)

HubMoves ==
    /\ hubMoves < MaxHubMoves /\ hubMoves' = hubMoves + 1 /\ hubAt' \in NodeCommits
    /\ UNCHANGED <<nodeReport, nodeBroker, nodeScript, source, venv, identity, agentRuns, metered,
                   nodeJobs, nodeFaults, wanted, before, counted, nodeBroken>>

\* remote_update_check: the Hub's commit at this moment, a running job or not.
CheckNode(ci) ==
    /\ nodeBroker.up
    /\ nodeBroker' = [nodeBroker EXCEPT !.c = hubAt, !.ready = ci]
    /\ nodeReport' = [st |-> IF ci THEN "ready" ELSE "blocked", c |-> hubAt]
    /\ wanted' = IF ci THEN wanted \union {hubAt} ELSE wanted
    /\ UNCHANGED <<hubAt, nodeScript, source, venv, identity, agentRuns, metered, nodeJobs,
                   nodeFaults, hubMoves, before, counted, nodeBroken>>

ReadyCandidate(c) == nodeBroker.job = Nothing /\ nodeBroker.c = c /\ nodeBroker.ready

\* remote_update_start sends the Hub's commit of now; the broker wants the checked one.
StartNode ==
    /\ nodeBroker.up /\ ReadyCandidate(hubAt) /\ nodeJobs < MaxNodeJobs
    /\ nodeReport' = [st |-> "queued", c |-> hubAt]
    /\ nodeBroker' = [nodeBroker EXCEPT !.job = hubAt]
    /\ nodeScript' = [Idle EXCEPT !.pc = "spawn", !.c = hubAt]
    /\ nodeJobs' = nodeJobs + 1 /\ before' = source
    /\ nodeBroken' = (nodeBroken /\ ~Whole)
    /\ UNCHANGED <<hubAt, source, venv, identity, agentRuns, metered, nodeFaults, hubMoves,
                   wanted, counted>>

\* The worker reports under the candidate that is in memory now.
NodeWorkerRuns ==
    /\ nodeScript.pc = "spawn"
    /\ Reported("running") /\ nodeScript' = [nodeScript EXCEPT !.pc = "prepare"]
    /\ UNCHANGED <<hubAt, nodeBroker, source, venv, identity, agentRuns, metered, nodeJobs,
                   nodeFaults, hubMoves, wanted, before, counted, nodeBroken>>

NodeWorkerEnds ==
    /\ nodeScript.pc = "exit"
    /\ Reported(IF nodeScript.ok THEN "success" ELSE "failed")
    /\ nodeBroker' = [nodeBroker EXCEPT !.job = Nothing] /\ nodeScript' = Idle
    /\ UNCHANGED <<hubAt, source, venv, identity, agentRuns, metered, nodeJobs, nodeFaults,
                   hubMoves, wanted, before, counted, nodeBroken>>

\* The job's process is in the broker's unit and goes with it.
NodeBrokerCrash ==
    /\ nodeBroker.up /\ NodeFault
    /\ nodeBroker' = [up |-> FALSE, c |-> Nothing, ready |-> FALSE, job |-> Nothing]
    /\ nodeScript' = Idle
    /\ nodeBroken' = (nodeBroken \/ nodeScript.pc \notin {"none", "exit"})
    /\ UNCHANGED <<hubAt, nodeReport, source, venv, identity, agentRuns, metered, nodeJobs,
                   hubMoves, wanted, before, counted>>

\* The unit runs in the installed environment, and needs it to be there.
NodeBrokerRestart ==
    /\ ~nodeBroker.up /\ venv # Mixed
    /\ nodeBroker' = [nodeBroker EXCEPT !.up = TRUE]
    /\ nodeReport' = IF nodeReport.st \in {"checking", "queued", "running"}
                     THEN [nodeReport EXCEPT !.st = "failed"] ELSE nodeReport
    /\ UNCHANGED <<hubAt, nodeScript, source, venv, identity, agentRuns, metered, nodeJobs,
                   nodeFaults, hubMoves, wanted, before, counted, nodeBroken>>

---------------------------------------------------------------------------
(* The job *)

Goes(pc) == nodeScript' = [nodeScript EXCEPT !.pc = pc]
Exits(ok) == nodeScript' = [nodeScript EXCEPT !.pc = "exit", !.ok = ok]
OutsideJob == UNCHANGED <<hubAt, nodeReport, nodeBroker, nodeJobs, hubMoves, wanted, before,
                          counted>>

\* main: the fetched source is that commit and no downgrade; its environment builds, and
\* its preflight passes under the service account.  Nothing is changed so far.
PrepareNode ==
    /\ nodeScript.pc = "prepare" /\ OutsideJob
    /\ \/ /\ source = Mixed \/ nodeScript.c >= source
          /\ nodeScript' = [nodeScript EXCEPT !.pc = "stop", !.src = source, !.env = venv,
                                              !.meta = identity]
          /\ UNCHANGED nodeFaults
       \/ nodeScript.c < source /\ Exits(FALSE) /\ UNCHANGED nodeFaults
       \/ NodeFault /\ Exits(FALSE)
    /\ UNCHANGED <<source, venv, identity, agentRuns, metered, nodeBroken>>

\* The stop and the copy of the database for emergencies.
StopAgent ==
    /\ nodeScript.pc = "stop" /\ OutsideJob
    /\ agentRuns' = Down /\ nodeScript' = [nodeScript EXCEPT !.pc = "copy", !.db = metered]
    /\ UNCHANGED <<source, venv, identity, metered, nodeFaults, nodeBroken>>

\* The stop is outside of the guarded part: when it fails or takes too long, nothing
\* starts the Agent again.
StopAgentFails ==
    /\ nodeScript.pc = "stop" /\ OutsideJob /\ NodeFault
    /\ agentRuns' \in {agentRuns, Down} /\ Exits(FALSE) /\ nodeBroken' = TRUE
    /\ UNCHANGED <<source, venv, identity, metered>>

CopyNodeSource ==
    /\ nodeScript.pc = "copy" /\ OutsideJob
    /\ \/ source' = nodeScript.c /\ Goes("away") /\ UNCHANGED nodeFaults
       \/ source' = Mixed /\ Goes("undoStop") /\ NodeFault
       \/ source' = Mixed /\ Goes("copying") /\ UNCHANGED nodeFaults
    /\ UNCHANGED <<venv, identity, agentRuns, metered, nodeBroken>>

\* A copy under way, seen only by a crash.
CopyingNodeSource ==
    /\ nodeScript.pc = "copying" /\ OutsideJob
    /\ source' = nodeScript.c /\ Goes("away")
    /\ UNCHANGED <<venv, identity, agentRuns, metered, nodeFaults, nodeBroken>>

RenameAway ==
    /\ nodeScript.pc = "away" /\ OutsideJob /\ venv' = Mixed /\ Goes("bring")
    /\ UNCHANGED <<source, identity, agentRuns, metered, nodeFaults, nodeBroken>>

\* The new environment and its import probe.
RenameIn ==
    /\ nodeScript.pc = "bring" /\ OutsideJob
    /\ \/ venv' = nodeScript.c /\ Goes("start") /\ UNCHANGED nodeFaults
       \/ venv' \in {Mixed, nodeScript.c} /\ Goes("undoStop") /\ NodeFault
    /\ UNCHANGED <<source, identity, agentRuns, metered, nodeBroken>>

\* Units, guard and Agent; its health answers with the candidate's version.
StartAgent ==
    /\ nodeScript.pc = "start" /\ OutsideJob
    /\ \/ agentRuns' = source /\ Goes("identity") /\ UNCHANGED nodeFaults
       \/ agentRuns' \in {Down, source} /\ Goes("undoStop") /\ NodeFault
    /\ UNCHANGED <<source, venv, identity, metered, nodeBroken>>

WriteIdentity ==
    /\ nodeScript.pc = "identity" /\ OutsideJob
    /\ \/ identity' = nodeScript.c /\ Exits(TRUE) /\ UNCHANGED nodeFaults
       \/ identity' \in {identity, nodeScript.c} /\ Goes("undoStop") /\ NodeFault
    /\ UNCHANGED <<source, venv, agentRuns, metered, nodeBroken>>

---------------------------------------------------------------------------
(* The rollback: each part is attempted, whatever became of the others. *)

Attempted(next) == /\ nodeScript' = [nodeScript EXCEPT !.pc = next]
                   /\ UNCHANGED <<nodeFaults, nodeBroken>>
AttemptFails(next) == NodeFault /\ Goes(next) /\ nodeBroken' = TRUE

UndoStop ==
    /\ nodeScript.pc = "undoStop" /\ OutsideJob
    /\ \/ agentRuns' = Down /\ Attempted("undoSource")
       \/ agentRuns' \in {agentRuns, Down} /\ AttemptFails("undoSource")
    /\ UNCHANGED <<source, venv, identity, metered>>

\* Faulty variant: the database is put back with the source.
UndoAll == source' = nodeScript.src /\ metered' = nodeScript.db

UndoParts == source' = nodeScript.src /\ UNCHANGED metered

UndoSource ==
    /\ nodeScript.pc = "undoSource" /\ OutsideJob
    /\ \/ UndoParts /\ Attempted("undoVenv")
       \/ UNCHANGED <<source, metered>> /\ AttemptFails("undoVenv")
    /\ UNCHANGED <<venv, identity, agentRuns>>

UndoVenv ==
    /\ nodeScript.pc = "undoVenv" /\ OutsideJob
    /\ \/ venv' = nodeScript.env /\ Attempted("undoIdentity")
       \/ venv' \in {venv, Mixed} /\ AttemptFails("undoIdentity")
    /\ UNCHANGED <<source, identity, agentRuns, metered>>

UndoIdentity ==
    /\ nodeScript.pc = "undoIdentity" /\ OutsideJob
    /\ \/ identity' = nodeScript.meta /\ Attempted("undoStart")
       \/ UNCHANGED identity /\ AttemptFails("undoStart")
    /\ UNCHANGED <<source, venv, agentRuns, metered>>

\* systemctl start leaves an Agent that still runs as it is.
UndoStart ==
    /\ nodeScript.pc = "undoStart" /\ OutsideJob
    /\ \/ /\ agentRuns' = IF agentRuns = Down /\ venv # Mixed THEN source ELSE agentRuns
          /\ Exits(FALSE) /\ nodeBroken' = (nodeBroken \/ venv = Mixed)
          /\ UNCHANGED nodeFaults
       \/ /\ agentRuns' \in {agentRuns, Down} /\ NodeFault
          /\ Exits(FALSE) /\ nodeBroken' = TRUE
    /\ UNCHANGED <<source, venv, identity, metered>>

---------------------------------------------------------------------------
AgentMeters ==
    /\ agentRuns # Down /\ counted < MaxMetered
    /\ metered' = metered + 1 /\ counted' = counted + 1
    /\ UNCHANGED <<hubAt, nodeReport, nodeBroker, nodeScript, source, venv, identity, agentRuns,
                   nodeJobs, nodeFaults, hubMoves, wanted, before, nodeBroken>>

NodeUpdateNext ==
    \/ HubMoves \/ StartNode \/ \E ci \in BOOLEAN : CheckNode(ci)
    \/ NodeWorkerRuns \/ NodeWorkerEnds \/ NodeBrokerCrash \/ NodeBrokerRestart
    \/ PrepareNode \/ StopAgent \/ StopAgentFails \/ CopyNodeSource \/ CopyingNodeSource
    \/ RenameAway \/ RenameIn \/ StartAgent \/ WriteIdentity
    \/ UndoStop \/ UndoSource \/ UndoVenv \/ UndoIdentity \/ UndoStart \/ AgentMeters

NodeUpdateSpec == NodeUpdateInit /\ [][NodeUpdateNext]_nodeUpdateVars

---------------------------------------------------------------------------
\* Shapes of the reports, the job and the installation.
NodeUpdateTypeOK ==
    /\ hubAt \in NodeCommits \union {NodeInstalled}
    /\ nodeReport.st \in {"idle", "ready", "blocked", "queued", "running", "success", "failed"}
    /\ nodeBroker.up \in BOOLEAN /\ nodeBroker.job \in wanted \union {Nothing}
    /\ {source, venv} \subseteq NodeCommits \union {NodeInstalled, Mixed}
    /\ identity \in NodeCommits \union {NodeInstalled}
    /\ agentRuns \in NodeCommits \union {NodeInstalled, Mixed, Down}
    /\ metered \in 0..MaxMetered /\ nodeJobs \in 0..MaxNodeJobs
    /\ nodeFaults \in 0..NodeUpdateFaults /\ hubMoves \in 0..MaxHubMoves

\* A Node only ever carries commits the Hub itself ran and whose CI was green; once a job
\* is over, and nothing called for the operator, source, environment, identity and the
\* running Agent are one commit, the job's or the one found, and never an older one; and
\* no update takes a byte out of the accounting.
NodeUpdatesAreSafe ==
    /\ {source, venv, identity} \subseteq wanted \union {Mixed}
    /\ nodeScript.pc \in {"none", "exit"} /\ ~nodeBroken => Whole /\ source >= before
    /\ nodeScript.pc = "exit" /\ nodeScript.ok => Whole /\ source = nodeScript.c
    /\ metered = counted
================================================================================
