--------------------------- MODULE ManagedClients ---------------------------
(***************************************************************************)
(* The Hub's client manager (manager.py): one durable operation per client,*)
(* carried out against the core's own tables (core.py) and the Nodes.      *)
(* manager.lock serialises everything here; what makes it hard is that the *)
(* process may die between any two transactions and that a Node may fail.  *)
(***************************************************************************)
EXTENDS Integers, FiniteSets

CONSTANTS
    Emails,         \* client identities
    MaxBytes,       \* bytes a client's connections may carry
    MaxRequests,    \* requests of operators and due cycles
    ManagerFaults   \* crashes, failed calls and restored core tables

ASSUME ManagerAssumption ==
    /\ IsFiniteSet(Emails) /\ MaxBytes \in Nat /\ MaxRequests \in Nat
    /\ ManagerFaults \in Nat

VARIABLES
    row,        \* managed_clients: op, state, last counter, expected, external, retry
    policy,     \* clients: the identity has a policy row
    blocked,    \* client_reasons is not empty
    core,       \* core_clients: whose identity, enabled, counter
    tomb,       \* core_client_tombstones: counter at the deletion, -1: none
    charged,    \* traffic_ledger: bytes charged
    mgr,        \* the thread that holds manager.lock
    requests,   \* requests so far
    managerFaults,
    metered,    \* history: bytes the core counted
    lost,       \* history: the counter was lost for reasons outside a deletion
    resets      \* history: how often the pending reset was carried out

managedVars == <<row, policy, blocked, core, tomb, charged, mgr, requests, managerFaults,
                 metered, lost, resets>>

NoRow == [op |-> "none", st |-> "none", last |-> 0, expected |-> FALSE, ext |-> FALSE,
          later |-> FALSE]
Absent == [who |-> "none", on |-> FALSE, count |-> 0]
Free == [pc |-> "idle", todo |-> {}, c |-> "none", final |-> 0, want |-> "none", for |-> "none"]

\* Clients may already be in the core, to be adopted.
ManagedInit ==
    /\ row = [c \in Emails |-> NoRow]
    /\ policy = [c \in Emails |-> FALSE]
    /\ blocked = [c \in Emails |-> FALSE]
    /\ \E known \in SUBSET Emails :
          core = [c \in Emails |-> IF c \in known THEN [who |-> "own", on |-> TRUE, count |-> 1]
                                   ELSE Absent]
    /\ tomb = [c \in Emails |-> -1]
    /\ charged = [c \in Emails |-> 0]
    /\ mgr = Free
    /\ requests = 0 /\ managerFaults = 0
    /\ metered = [c \in Emails |-> 0]
    /\ lost = [c \in Emails |-> FALSE]
    /\ resets = [c \in Emails |-> 0]

Live(c) == row[c].st \notin {"none", "deleted"}
ManagerFault == managerFaults < ManagerFaults /\ managerFaults' = managerFaults + 1
Ask == requests < MaxRequests /\ requests' = requests + 1
At(pc) == mgr' = [mgr EXCEPT !.pc = pc]

\* _charge_snapshot: the ledger and the baseline move in one transaction; a
\* counter below its baseline has started anew.
Increment(c, count) == IF count >= row[c].last THEN count - row[c].last ELSE count
ChargeBytes(c, count) ==
    IF policy[c]
    THEN /\ charged' = [charged EXCEPT ![c] = @ + Increment(c, count)]
         /\ row' = [row EXCEPT ![c].last = count]
    ELSE UNCHANGED <<charged, row>>

---------------------------------------------------------------------------
(* Requests; each goes on with a reconciliation under the same lock *)

Staged(c, op) == [row[c] EXCEPT !.op = op, !.st = "pending", !.later = FALSE]

Create(c) ==
    /\ mgr = Free /\ Ask
    /\ row[c].st = "none" /\ ~policy[c] /\ core[c] = Absent
    /\ row' = [row EXCEPT ![c] = Staged(c, "upsert")]
    /\ policy' = [policy EXCEPT ![c] = TRUE]
    /\ At("tick")
    /\ UNCHANGED <<blocked, core, tomb, charged, managerFaults, metered, lost, resets>>

\* adopt takes the core's counter as the baseline.
Adopt(c) ==
    /\ mgr = Free /\ Ask
    /\ row[c].st = "none" /\ core[c].who = "own"
    /\ row' = [row EXCEPT ![c] =
           [@ EXCEPT !.st = "applied", !.last = core[c].count, !.expected = core[c].on]]
    /\ policy' = [policy EXCEPT ![c] = TRUE]
    /\ At("tick")
    /\ UNCHANGED <<blocked, core, tomb, charged, managerFaults, metered, lost, resets>>

\* update replaces any pending operation; with enable in the patch it lifts an
\* external disable.
Update(c, enable) ==
    /\ mgr = Free /\ Ask
    /\ Live(c) /\ policy[c] /\ row[c].st # "uncertain"
    /\ row[c].op = "none" => core[c] # Absent
    /\ row' = [row EXCEPT ![c] = [Staged(c, "upsert") EXCEPT !.ext = @ /\ ~enable]]
    /\ lost' = [lost EXCEPT ![c] = @ \/ core[c] = Absent \/ row[c].op = "reset"]
    /\ mgr' = [mgr EXCEPT !.pc = "edit", !.todo = {c}]
    /\ UNCHANGED <<policy, blocked, core, tomb, charged, managerFaults, metered, resets>>

\* action: a tick, then the operation, then another tick.
AskAction(c, op) ==
    /\ mgr = Free /\ Ask
    /\ Live(c) /\ policy[c]
    /\ mgr' = [mgr EXCEPT !.pc = "tick", !.want = op, !.for = c]
    /\ UNCHANGED <<row, policy, blocked, core, tomb, charged, managerFaults, metered, lost,
                   resets>>

StageAction ==
    LET c == mgr.for
    IN /\ mgr.pc = "done" /\ mgr.want # "none"
       /\ IF row[c].st = "uncertain"
          THEN mgr' = Free /\ UNCHANGED <<row, resets>>
          ELSE /\ row' = [row EXCEPT ![c] = Staged(c, mgr.want)]
               /\ resets' = [resets EXCEPT ![c] = 0]
               /\ mgr' = [Free EXCEPT !.pc = "tick"]
       /\ UNCHANGED <<policy, blocked, core, tomb, charged, requests, managerFaults, metered,
                      lost>>

RetryOperation(c) ==
    /\ mgr = Free /\ Ask
    /\ row[c].op # "none" /\ row[c].st \in {"pending", "error"}
    /\ row' = [row EXCEPT ![c] = [@ EXCEPT !.st = "pending", !.later = FALSE]]
    /\ At("tick")
    /\ UNCHANGED <<policy, blocked, core, tomb, charged, managerFaults, metered, lost, resets>>

RestoreMissing(c) ==
    /\ mgr = Free /\ Ask
    /\ policy[c] /\ row[c].st = "missing" /\ row[c].op = "none" /\ core[c] = Absent
    /\ row' = [row EXCEPT ![c] = Staged(c, "upsert")]
    /\ At("tick")
    /\ UNCHANGED <<policy, blocked, core, tomb, charged, managerFaults, metered, lost, resets>>

\* The owner accepts the present counter; the reset is not carried out again.
ResolveReset(c) ==
    /\ mgr = Free /\ Ask
    /\ row[c].st = "uncertain" /\ row[c].op = "reset" /\ core[c].who = "own"
    /\ charged' = [charged EXCEPT ![c] = @ + Increment(c, core[c].count)]
    /\ row' = [row EXCEPT ![c] = [@ EXCEPT !.op = "none", !.st = "applied", !.later = FALSE,
                                           !.last = core[c].count]]
    /\ At("tick")
    /\ UNCHANGED <<policy, blocked, core, tomb, managerFaults, metered, lost, resets>>

---------------------------------------------------------------------------
(* tick *)

\* Faulty variant: the identity in the core is not compared.
TrustingReadStatus(c, op, scheduled) ==
    IF core[c] = Absent /\ op = "none" THEN "missing"
    ELSE IF scheduled THEN "pending" ELSE row[c].st

ReadStatus(c, op, scheduled) ==
    IF core[c].who = "other" THEN "conflict"
    ELSE IF core[c] = Absent /\ op = "none" THEN "missing"
    ELSE IF scheduled THEN "pending" ELSE row[c].st

\* The scheduled resets are staged, the core is read, what it counted is charged,
\* and clients that are gone or are somebody else are marked.
TickRead(due) ==
    LET Scheduled(c) == c \in due /\ row[c].op = "none" /\ row[c].st = "applied"
        Op(c) == IF Scheduled(c) THEN "reset" ELSE row[c].op
        St(c) == ReadStatus(c, Op(c), Scheduled(c))
        Read(c) == Live(c) /\ policy[c] /\ core[c].who = "own"
        after == [c \in Emails |-> IF ~Live(c) THEN row[c]
                    ELSE [row[c] EXCEPT !.op = Op(c), !.st = St(c),
                                        !.last = IF Read(c) THEN core[c].count ELSE @]]
    IN /\ mgr.pc \in {"idle", "tick"}
       /\ due # {} => Ask
       /\ due = {} => UNCHANGED requests
       /\ row' = after
       /\ charged' = [c \in Emails |-> IF Read(c) THEN charged[c] + Increment(c, core[c].count)
                                       ELSE charged[c]]
       /\ resets' = [c \in Emails |-> IF Scheduled(c) THEN 0 ELSE resets[c]]
       /\ mgr' = [mgr EXCEPT !.pc = "ops",
                      !.todo = {c \in Emails : after[c].op # "none" /\ ~after[c].later
                                   /\ after[c].st \notin {"uncertain", "conflict", "deleted"}}]
       /\ UNCHANGED <<policy, blocked, core, tomb, managerFaults, metered, lost>>

\* mark_failure; only a reset can end uncertain.
Fail(c, st) ==
    /\ row' = [row EXCEPT ![c].st = st, ![c].later = TRUE]
    /\ mgr' = [mgr EXCEPT !.pc = "ops", !.todo = @ \ {c}]

Finish(c, st) ==
    /\ row' = [row EXCEPT ![c].op = "none", ![c].st = st, ![c].later = FALSE]
    /\ mgr' = [mgr EXCEPT !.pc = "ops", !.todo = @ \ {c}]

\* Delete: the Nodes first, then the core, the final charge, the policy row.
DeleteRemote(c) ==
    /\ mgr.pc = "ops" /\ c \in mgr.todo /\ row[c].op = "delete"
    /\ \/ mgr' = [mgr EXCEPT !.pc = "coreDelete", !.c = c] /\ UNCHANGED <<row, managerFaults>>
       \/ ManagerFault /\ Fail(c, "error")
    /\ UNCHANGED <<policy, blocked, core, tomb, charged, requests, metered, lost, resets>>

CoreDelete ==
    LET c == mgr.c
    IN /\ mgr.pc = "coreDelete"
       /\ IF core[c] = Absent THEN UNCHANGED <<core, tomb>>
          ELSE /\ tomb' = [tomb EXCEPT ![c] = core[c].count]
               /\ core' = [core EXCEPT ![c] = Absent]
       /\ At("deleteCharge")
       /\ UNCHANGED <<row, policy, blocked, charged, requests, managerFaults, metered, lost,
                      resets>>

\* Faulty variant: what an earlier, interrupted attempt deleted is not charged.
ForgetfulDeleteCharge ==
    /\ mgr.pc = "deleteCharge" /\ At("deletePolicy")
    /\ UNCHANGED <<row, charged, policy, blocked, core, tomb, requests, managerFaults, metered,
                   lost, resets>>

\* The core's tombstone holds the final counter also after a restart.
DeleteCharge ==
    /\ mgr.pc = "deleteCharge"
    /\ IF tomb[mgr.c] < 0 THEN UNCHANGED <<row, charged>> ELSE ChargeBytes(mgr.c, tomb[mgr.c])
    /\ At("deletePolicy")
    /\ UNCHANGED <<policy, blocked, core, tomb, requests, managerFaults, metered, lost, resets>>

DeletePolicy ==
    /\ mgr.pc = "deletePolicy"
    /\ policy' = [policy EXCEPT ![mgr.c] = FALSE]
    /\ At("deleteFinish")
    /\ UNCHANGED <<row, blocked, core, tomb, charged, requests, managerFaults, metered, lost,
                   resets>>

DeleteFinish ==
    /\ mgr.pc = "deleteFinish"
    /\ Finish(mgr.c, "deleted")
    /\ UNCHANGED <<policy, blocked, core, tomb, charged, requests, managerFaults, metered, lost,
                   resets>>

\* Reset: the row says inflight before anything happens.
ResetBegin(c) ==
    /\ mgr.pc = "ops" /\ c \in mgr.todo /\ row[c].op = "reset"
    /\ IF core[c] = Absent THEN Fail(c, "conflict")
       ELSE /\ row' = [row EXCEPT ![c].st = "reset_inflight"]
            /\ mgr' = [mgr EXCEPT !.pc = "resetRemote", !.c = c]
    /\ UNCHANGED <<policy, blocked, core, tomb, charged, requests, managerFaults, metered, lost,
                   resets>>

ResetRemote ==
    /\ mgr.pc = "resetRemote"
    /\ \/ At("coreReset") /\ UNCHANGED <<row, managerFaults>>
       \/ ManagerFault /\ \E st \in {"error", "uncertain"} : Fail(mgr.c, st)
    /\ UNCHANGED <<policy, blocked, core, tomb, charged, requests, metered, lost, resets>>

CoreReset ==
    LET c == mgr.c
    IN /\ mgr.pc = "coreReset"
       /\ core' = [core EXCEPT ![c].count = 0]
       /\ resets' = [resets EXCEPT ![c] = @ + 1]
       /\ mgr' = [mgr EXCEPT !.pc = "resetCharge", !.final = core[c].count]
       /\ UNCHANGED <<row, policy, blocked, tomb, charged, requests, managerFaults, metered,
                      lost>>

ResetCharge ==
    /\ mgr.pc = "resetCharge"
    /\ ChargeBytes(mgr.c, mgr.final)
    /\ mgr' = [mgr EXCEPT !.pc = "resetZero", !.final = 0]
    /\ UNCHANGED <<policy, blocked, core, tomb, requests, managerFaults, metered, lost, resets>>

\* The baseline, the meters and the cycle, then the row.
ResetZero ==
    /\ mgr.pc = "resetZero"
    /\ row' = [row EXCEPT ![mgr.c].last = 0]
    /\ At("resetFinish")
    /\ UNCHANGED <<policy, blocked, core, tomb, charged, requests, managerFaults, metered, lost,
                   resets>>

ResetFinish ==
    /\ mgr.pc = "resetFinish"
    /\ Finish(mgr.c, "applied")
    /\ UNCHANGED <<policy, blocked, core, tomb, charged, requests, managerFaults, metered, lost,
                   resets>>

---------------------------------------------------------------------------
(* Upserts, of a tick or of one edit *)

Wanted(c) == ~blocked[c] /\ ~row[c].ext

Written(S) ==
    core' = [c \in Emails |-> IF c \in S
                THEN [who |-> "own", on |-> Wanted(c), count |-> core[c].count] ELSE core[c]]

Upsert ==
    LET S == {c \in mgr.todo : row[c].op = "upsert"}
    IN /\ mgr.pc = "ops" /\ S # {} /\ S = mgr.todo
       /\ \/ /\ Written(S) /\ At("mark")
             /\ UNCHANGED <<row, managerFaults>>
          \/ /\ ManagerFault
             /\ row' = [c \in Emails |-> IF c \in S
                           THEN [row[c] EXCEPT !.st = "error", !.later = TRUE] ELSE row[c]]
             /\ mgr' = [mgr EXCEPT !.todo = {}] /\ UNCHANGED core
       /\ UNCHANGED <<policy, blocked, tomb, charged, requests, metered, lost, resets>>

\* _reconcile_client_locked: one edited client, metered before; a full tick when
\* anything goes wrong.
EditUpsert(c) ==
    /\ mgr.pc = "edit" /\ c \in mgr.todo
    /\ \/ /\ core[c].who # "other"
          /\ IF core[c] = Absent THEN UNCHANGED <<row, charged>>
                                 ELSE ChargeBytes(c, core[c].count)
          /\ Written({c}) /\ At("editMark")
          /\ UNCHANGED managerFaults
       \/ /\ core[c].who = "other" \/ managerFaults < ManagerFaults
          /\ managerFaults' = IF core[c].who = "other" THEN managerFaults
                              ELSE managerFaults + 1
          /\ mgr' = [Free EXCEPT !.pc = "tick"]
          /\ UNCHANGED <<row, charged, core>>
    /\ UNCHANGED <<policy, blocked, tomb, requests, metered, lost, resets>>

UpsertMark ==
    /\ mgr.pc \in {"mark", "editMark"}
    /\ row' = [c \in Emails |-> IF c \in mgr.todo
                  THEN [row[c] EXCEPT !.op = "none", !.st = "applied", !.later = FALSE,
                                      !.expected = core[c].on]
                  ELSE row[c]]
    /\ mgr' = IF mgr.pc = "mark" THEN [mgr EXCEPT !.pc = "ops", !.todo = {}] ELSE Free
    /\ UNCHANGED <<policy, blocked, core, tomb, charged, requests, managerFaults, metered, lost,
                   resets>>

\* The last pass of a tick: external disables are kept, blockers are enforced.
FinalPass ==
    LET Idle(c) == Live(c) /\ core[c] # Absent /\ row[c].op = "none"
                     /\ row[c].st \notin {"conflict", "uncertain"}
        Ext(c) == row[c].ext \/ (~core[c].on /\ row[c].expected /\ ~blocked[c])
        On(c) == ~blocked[c] /\ ~Ext(c)
    IN /\ mgr.pc = "ops" /\ mgr.todo = {}
       /\ row' = [c \in Emails |-> IF Idle(c)
                     THEN [row[c] EXCEPT !.st = IF @ = "missing" THEN "applied" ELSE @,
                                         !.ext = Ext(c), !.expected = On(c)]
                     ELSE row[c]]
       /\ core' = [c \in Emails |-> IF Idle(c) THEN [core[c] EXCEPT !.on = On(c)] ELSE core[c]]
       /\ mgr' = IF mgr.want = "none" THEN Free ELSE [mgr EXCEPT !.pc = "done"]
       /\ UNCHANGED <<policy, blocked, tomb, charged, requests, managerFaults, metered, lost,
                      resets>>

---------------------------------------------------------------------------
(* Surroundings *)

\* The Hub dies and starts again: recover_resets leaves a reset to the owner.
Restart ==
    /\ ManagerFault /\ mgr # Free
    /\ mgr' = Free
    /\ row' = [c \in Emails |-> IF row[c].st = "reset_inflight"
                  THEN [row[c] EXCEPT !.st = "uncertain"] ELSE row[c]]
    /\ lost' = [c \in Emails |-> lost[c] \/ row[c].st = "reset_inflight"]
    /\ UNCHANGED <<policy, blocked, core, tomb, charged, requests, metered, resets>>

RetryTime(c) ==
    /\ row[c].later /\ row' = [row EXCEPT ![c].later = FALSE]
    /\ mgr = Free
    /\ UNCHANGED <<policy, blocked, core, tomb, charged, mgr, requests, managerFaults, metered,
                   lost, resets>>

\* Expiry, quota, owner and device blockers come and go.
Blockers(c) ==
    /\ Live(c) /\ blocked' = [blocked EXCEPT ![c] = ~@]
    /\ Ask
    /\ UNCHANGED <<row, policy, core, tomb, charged, mgr, managerFaults, metered, lost, resets>>

Traffic(c) ==
    /\ core[c].on /\ core[c].who = "own" /\ Live(c) /\ metered[c] < MaxBytes
    /\ core' = [core EXCEPT ![c].count = @ + 1]
    /\ metered' = [metered EXCEPT ![c] = @ + 1]
    /\ UNCHANGED <<row, policy, blocked, tomb, charged, mgr, requests, managerFaults, lost,
                   resets>>

\* The core's tables are replaced while the Hub stands still: a client is gone,
\* belongs to somebody else or was disabled.
CoreChanges(c) ==
    /\ mgr = Free /\ ManagerFault /\ Live(c) /\ core[c] # Absent
    /\ \E now \in {Absent, [who |-> "other", on |-> TRUE, count |-> 0],
                   [core[c] EXCEPT !.on = FALSE]} : core' = [core EXCEPT ![c] = now]
    /\ lost' = [lost EXCEPT ![c] = TRUE]
    /\ UNCHANGED <<row, policy, blocked, tomb, charged, mgr, requests, metered, resets>>

ManagedNext ==
    \/ \E c \in Emails :
          \/ Create(c) \/ Adopt(c) \/ RetryOperation(c) \/ RestoreMissing(c) \/ ResolveReset(c)
          \/ DeleteRemote(c) \/ ResetBegin(c) \/ EditUpsert(c) \/ RetryTime(c) \/ Blockers(c)
          \/ Traffic(c) \/ CoreChanges(c)
    \/ \E c \in Emails, enable \in BOOLEAN : Update(c, enable)
    \/ \E c \in Emails, op \in {"reset", "delete"} : AskAction(c, op)
    \/ \E due \in SUBSET Emails : TickRead(due)
    \/ StageAction \/ CoreDelete \/ DeleteCharge \/ DeletePolicy \/ DeleteFinish
    \/ ResetRemote \/ CoreReset \/ ResetCharge \/ ResetZero \/ ResetFinish
    \/ Upsert \/ UpsertMark \/ FinalPass \/ Restart

ManagedSpec == ManagedInit /\ [][ManagedNext]_managedVars

---------------------------------------------------------------------------
ManagedTypeOK ==
    /\ row \in [Emails -> [op : {"none", "upsert", "delete", "reset"},
           st : {"none", "pending", "applied", "error", "uncertain", "conflict", "missing",
                 "reset_inflight", "deleted"},
           last : Nat, expected : BOOLEAN, ext : BOOLEAN, later : BOOLEAN]]
    /\ core \in [Emails -> [who : {"none", "own", "other"}, on : BOOLEAN, count : Nat]]
    /\ tomb \in [Emails -> Int] /\ charged \in [Emails -> Nat]
    /\ mgr.todo \subseteq Emails

\* No byte is charged twice, and a deleted client has been charged for all it used,
\* wherever the deletion was interrupted and however often it was retried.  (The core
\* never drops a tombstone: a client that was created anew over one and then lost is
\* charged for its earlier life again when it is deleted, so it is excepted.)
StaleTombstone(c) == lost[c] /\ tomb[c] >= 0

DeletionIsPaidOnce ==
    \A c \in Emails :
        /\ charged[c] <= metered[c] \/ StaleTombstone(c)
        /\ row[c].st = "deleted" /\ ~lost[c] => charged[c] = metered[c]

\* A reset that may have been carried out is never carried out again on its own.
ResetIsNotReplayed == \A c \in Emails : resets[c] <= 1

\* What a deletion or a reset counted is paid once.
CountersArePaidOnce == DeletionIsPaidOnce /\ ResetIsNotReplayed

\* The manager neither changes nor removes a core client that has taken over the
\* identity of one of its own.
ForeignClientUntouched ==
    [][mgr' # mgr => \A c \in Emails : core[c].who = "other" => core'[c] = core[c]]_managedVars
=============================================================================
