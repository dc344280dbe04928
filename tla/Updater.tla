-------------------------------- MODULE Updater --------------------------------
(***************************************************************************)
(* Updates of the Hub: the root-owned broker (updated.py), which checks a  *)
(* candidate and starts a job for it, and the job itself (update.py),      *)
(* which prepares and snapshots while the Hub serves, swaps the source     *)
(* while it is stopped, and rolls the source back when the new code does   *)
(* not come up.  The job's process belongs to the broker's unit and dies   *)
(* with it.  A commit is its version's place in history.                   *)
(***************************************************************************)
EXTENDS Integers

CONSTANTS
    Commits,        \* commits a check may resolve to
    Installed,      \* the commit installed at first
    MaxJobs,        \* bounds: jobs, bytes the Hub meters, and broken steps
    MaxUsage,
    UpdateFaults

ASSUME UpdateAssumption ==
    /\ Commits \subseteq Nat \ {0} /\ Installed \in Nat \ {0}
    /\ {MaxJobs, MaxUsage, UpdateFaults} \subseteq Nat

VARIABLES
    report,     \* update-state.json: state and candidate
    webBroker,  \* the broker: up, its candidate in memory, the worker's job
    script,     \* update.py: step, commit, the two snapshots, exit status
    app,        \* the installed source; Partial while it is replaced
    info,       \* installed-source.json
    hubRuns,    \* the source the running Hub was started from; Stopped
    liveUsage,  \* bytes in the live database
    jobs, updateFaults,     \* counted against the bounds
    green,      \* history: commits whose CI a check has seen green
    origin,     \* history: what was installed when the last job began
    carried,    \* history: bytes the Hub has metered
    broken      \* history: a crash, or a failed recovery that asks for the operator

updateVars == <<report, webBroker, script, app, info, hubRuns, liveUsage, jobs, updateFaults, green,
                origin, carried, broken>>

Partial == -1
Stopped == -2
NoCommit == 0
NoScript == [pc |-> "none", c |-> NoCommit, src |-> NoCommit, db |-> 0, ok |-> FALSE]
Busy == {"queued", "running", "restarting", "rolling_back"}

UpdateInit ==
    /\ report = [st |-> "idle", c |-> NoCommit]
    /\ webBroker = [up |-> TRUE, c |-> NoCommit, ready |-> FALSE, job |-> NoCommit]
    /\ script = NoScript
    /\ app = Installed /\ info = Installed /\ hubRuns = Installed
    /\ liveUsage = 0 /\ carried = 0 /\ jobs = 0 /\ updateFaults = 0
    /\ green = {Installed} /\ origin = Installed /\ broken = FALSE

Breaks == updateFaults < UpdateFaults /\ updateFaults' = updateFaults + 1

---------------------------------------------------------------------------
(* The broker *)

\* check: CI, the database, the disk and the panel must be in order, and the candidate
\* not older than what is installed.
Check(c, ci) ==
    /\ webBroker.up /\ report.st \notin Busy
    /\ LET ready == ci /\ hubRuns # Stopped /\ (app = Partial \/ c >= app)
       IN /\ webBroker' = [webBroker EXCEPT !.c = c, !.ready = ready]
          /\ report' = [st |-> IF ready THEN "ready" ELSE "blocked", c |-> c]
    /\ green' = IF ci THEN green \union {c} ELSE green
    /\ UNCHANGED <<script, app, info, hubRuns, liveUsage, jobs, updateFaults, origin, carried,
                   broken>>

\* The lookup itself fails: the file keeps saying that a check is under way.
CheckFails ==
    /\ webBroker.up /\ report.st \notin Busy
    /\ report' = [st |-> "checking", c |-> NoCommit]
    /\ UNCHANGED <<webBroker, script, app, info, hubRuns, liveUsage, jobs, updateFaults, green,
                   origin, carried, broken>>

CanStart(c) == webBroker.job = NoCommit /\ webBroker.c = c /\ webBroker.ready

Start(c) ==
    /\ webBroker.up /\ CanStart(c) /\ jobs < MaxJobs
    /\ report' = [st |-> "queued", c |-> webBroker.c]
    /\ webBroker' = [webBroker EXCEPT !.job = c]
    /\ script' = [NoScript EXCEPT !.pc = "health", !.c = c]
    /\ origin' = app /\ jobs' = jobs + 1 /\ broken' = (broken /\ hubRuns # app)
    /\ UNCHANGED <<app, info, hubRuns, liveUsage, updateFaults, green, carried>>

\* The worker has waited for the job; it completes a state the job did not conclude,
\* or one that a check has replaced since.
WorkerEnds ==
    /\ webBroker.job # NoCommit /\ script.pc = "exit"
    /\ report' = IF script.ok THEN [report EXCEPT !.st = "success"]
                 ELSE IF report.st \in {"failed", "rolled_back"} THEN report
                 ELSE [report EXCEPT !.st = "failed"]
    /\ webBroker' = [webBroker EXCEPT !.job = NoCommit]
    /\ script' = NoScript
    /\ UNCHANGED <<app, info, hubRuns, liveUsage, jobs, updateFaults, green, origin, carried,
                   broken>>

BrokerCrash ==
    /\ webBroker.up /\ Breaks
    /\ webBroker' = [up |-> FALSE, c |-> NoCommit, ready |-> FALSE, job |-> NoCommit]
    /\ script' = NoScript
    /\ broken' = (broken \/ script.pc \notin {"none", "exit"})
    /\ UNCHANGED <<report, app, info, hubRuns, liveUsage, jobs, green, origin, carried>>

\* The unit runs from the installed source, and needs it to be there.
BrokerRestart ==
    /\ ~webBroker.up /\ app # Partial
    /\ webBroker' = [webBroker EXCEPT !.up = TRUE]
    /\ report' = IF report.st \in Busy \union {"checking"} THEN [report EXCEPT !.st = "failed"]
                 ELSE report
    /\ UNCHANGED <<script, app, info, hubRuns, liveUsage, jobs, updateFaults, green, origin,
                   carried, broken>>

---------------------------------------------------------------------------
(* The job *)

Step(pc) == script' = [script EXCEPT !.pc = pc]
Ends(ok) == [script EXCEPT !.pc = "exit", !.ok = ok]
Says(st) == report' = [report EXCEPT !.st = st]

\* An exit before anything was changed: the Hub is not touched.
GivesUp ==
    /\ script.pc \in {"health", "prepare", "snapshot"} /\ Breaks
    /\ script' = Ends(FALSE) /\ Says("failed")
    /\ UNCHANGED <<webBroker, app, info, hubRuns, liveUsage, jobs, green, origin, carried,
                   broken>>

Health ==
    /\ script.pc = "health"
    /\ IF hubRuns = Stopped THEN script' = Ends(FALSE) /\ Says("failed")
                            ELSE Step("prepare") /\ Says("running")
    /\ UNCHANGED <<webBroker, app, info, hubRuns, liveUsage, jobs, updateFaults, green, origin,
                   carried, broken>>

Prepare ==
    /\ script.pc = "prepare" /\ Step("snapshot")
    /\ UNCHANGED <<report, webBroker, app, info, hubRuns, liveUsage, jobs, updateFaults, green,
                   origin, carried, broken>>

\* The source and, from the live database, a copy for manual recovery only.
Snapshot ==
    /\ script.pc = "snapshot"
    /\ script' = [script EXCEPT !.pc = "stop", !.src = app, !.db = liveUsage]
    /\ UNCHANGED <<report, webBroker, app, info, hubRuns, liveUsage, jobs, updateFaults, green,
                   origin, carried, broken>>

StopHub ==
    /\ script.pc = "stop" /\ hubRuns' = Stopped /\ Step("clear")
    /\ UNCHANGED <<report, webBroker, app, info, liveUsage, jobs, updateFaults, green, origin,
                   carried, broken>>

\* systemctl stop fails: the old Hub is started again, or the operator is called.
RestartHub ==
    \/ hubRuns' = app /\ UNCHANGED broken
    \/ hubRuns' = Stopped /\ broken' = TRUE

StopFails ==
    /\ script.pc = "stop" /\ Breaks /\ RestartHub
    /\ script' = Ends(FALSE) /\ Says("failed")
    /\ UNCHANGED <<webBroker, app, info, liveUsage, jobs, green, origin, carried>>

ClearSource ==
    /\ script.pc = "clear" /\ app' = Partial /\ Step("copy")
    /\ UNCHANGED <<report, webBroker, info, hubRuns, liveUsage, jobs, updateFaults, green, origin,
                   carried, broken>>

\* copy_source and install_runtime_files.
CopySource ==
    /\ script.pc = "copy" /\ app' = script.c /\ Step("activate") /\ Says("restarting")
    /\ UNCHANGED <<webBroker, info, hubRuns, liveUsage, jobs, updateFaults, green, origin,
                   carried, broken>>

\* The new Hub runs and its panel answers, and the guard is restarted.
Activate ==
    /\ script.pc = "activate" /\ hubRuns' = app /\ Step("info")
    /\ UNCHANGED <<report, webBroker, app, info, liveUsage, jobs, updateFaults, green, origin,
                   carried, broken>>

\* Any of these steps fails, the new code perhaps running: the old source comes back.
SwapFails ==
    /\ script.pc \in {"clear", "copy", "activate"} /\ Breaks
    /\ hubRuns' \in IF script.pc = "activate" THEN {Stopped, app} ELSE {hubRuns}
    /\ Step("rbStop") /\ Says("rolling_back")
    /\ UNCHANGED <<webBroker, app, info, liveUsage, jobs, green, origin, carried, broken>>

WriteInfo ==
    /\ script.pc = "info" /\ info' = script.c
    /\ script' = Ends(TRUE) /\ Says("success")
    /\ UNCHANGED <<webBroker, app, hubRuns, liveUsage, jobs, updateFaults, green, origin, carried,
                   broken>>

InfoFails ==
    /\ script.pc = "info" /\ Breaks
    /\ script' = Ends(FALSE) /\ Says("failed")
    /\ UNCHANGED <<webBroker, app, info, hubRuns, liveUsage, jobs, green, origin, carried,
                   broken>>

\* Faulty variant: the database goes back with the source.
RestoreAll == app' = script.src /\ liveUsage' = script.db

\* rollback restores the source; the live database stays.
RestoreSource == app' = script.src /\ UNCHANGED liveUsage

\* The stop is not checked; the source is cleared and unpacked.
RollbackStop ==
    /\ script.pc = "rbStop"
    /\ hubRuns' \in {hubRuns, Stopped} /\ app' = Partial /\ Step("rbRestore")
    /\ UNCHANGED <<report, webBroker, info, liveUsage, jobs, updateFaults, green, origin, carried,
                   broken>>

RollbackSource ==
    /\ script.pc = "rbRestore" /\ RestoreSource /\ Step("rbStart")
    /\ UNCHANGED <<report, webBroker, info, hubRuns, jobs, updateFaults, green, origin, carried,
                   broken>>

\* The panel is killed and started until it answers.
RollbackStart ==
    /\ script.pc = "rbStart" /\ hubRuns' = app
    /\ script' = Ends(FALSE) /\ Says("rolled_back")
    /\ UNCHANGED <<webBroker, app, info, liveUsage, jobs, updateFaults, green, origin, carried,
                   broken>>

RollbackFails ==
    /\ script.pc \in {"rbRestore", "rbStart"} /\ Breaks
    /\ hubRuns' \in {hubRuns, Stopped}
    /\ script' = Ends(FALSE) /\ Says("failed") /\ broken' = TRUE
    /\ UNCHANGED <<webBroker, app, info, liveUsage, jobs, green, origin, carried>>

---------------------------------------------------------------------------
\* The running Hub meters traffic, the new code as well as the old.
HubMeters ==
    /\ hubRuns # Stopped /\ carried < MaxUsage
    /\ liveUsage' = liveUsage + 1 /\ carried' = carried + 1
    /\ UNCHANGED <<report, webBroker, script, app, info, hubRuns, jobs, updateFaults, green,
                   origin, broken>>

UpdateNext ==
    \/ \E c \in Commits : Start(c) \/ \E ci \in BOOLEAN : Check(c, ci)
    \/ CheckFails \/ WorkerEnds \/ BrokerCrash \/ BrokerRestart
    \/ GivesUp \/ Health \/ Prepare \/ Snapshot \/ StopHub \/ StopFails \/ ClearSource
    \/ CopySource \/ Activate \/ SwapFails \/ WriteInfo \/ InfoFails
    \/ RollbackStop \/ RollbackSource \/ RollbackStart \/ RollbackFails \/ HubMeters

UpdateSpec == UpdateInit /\ [][UpdateNext]_updateVars

---------------------------------------------------------------------------
\* Shapes of the reports, the job and the installation.
UpdateTypeOK ==
    /\ report \in [st : Busy \union {"idle", "checking", "ready", "blocked", "success", "failed",
                                     "rolled_back"}, c : Commits \union {NoCommit}]
    /\ webBroker \in [up : BOOLEAN, c : Commits \union {NoCommit}, ready : BOOLEAN,
                   job : Commits \union {NoCommit}]
    /\ script \in [pc : {"none", "health", "prepare", "snapshot", "stop", "clear", "copy",
                         "activate", "info", "rbStop", "rbRestore", "rbStart", "exit"},
                   c : Commits \union {NoCommit}, src : Commits \union {NoCommit, Installed, Partial},
                   db : Nat, ok : BOOLEAN]
    /\ app \in Commits \union {Installed, Partial}
    /\ info \in Commits \union {Installed}
    /\ hubRuns \in Commits \union {Installed, Partial, Stopped}
    /\ liveUsage \in 0..MaxUsage /\ carried \in 0..MaxUsage
    /\ jobs \in 0..MaxJobs /\ updateFaults \in 0..UpdateFaults
    /\ green \subseteq Commits \union {Installed} /\ origin \in Commits \union {Installed, Partial}
    /\ broken \in BOOLEAN

\* Only what a check has seen verified is ever installed; a job that is over has left the
\* Hub running its installed source unless it called for the operator or was killed; and
\* no update, failed or not, takes a byte out of the live database.
UpdatesAreSafe ==
    /\ app \in green \union {Partial}
    /\ script.pc = "none" /\ ~broken => hubRuns = app
    /\ liveUsage = carried

\* A success that is reported stands for the job's commit, installed, running and noted;
\* a rollback that is reported has brought back what was there before.
ReportsAreTrue ==
    script.pc = "exit" /\ webBroker.up =>
        /\ report.st = "success" => app = script.c /\ hubRuns = app /\ info = app
        /\ report.st = "rolled_back" => app = origin /\ hubRuns = app

\* Both of the above: what is installed, and what is said of it.
UpdatesHold == UpdatesAreSafe /\ ReportsAreTrue
=============================================================================
