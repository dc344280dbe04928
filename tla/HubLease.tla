------------------------------- MODULE HubLease -------------------------------
(***************************************************************************)
(* The accounting lease of an Agent and its process-safety guard           *)
(* (backend/node_runtime.py: HubLease, SystemdWatchdog, LeaseGuard;        *)
(* backend/node_agent.py: the traffic and lease endpoints;                 *)
(* deploy/dark-xray-node.service: the systemd watchdog).                   *)
(*                                                                         *)
(* Time is a counter.  Nothing is assumed about the speed of the Agent: a  *)
(* thread may be delayed for any time, which is how a frozen interpreter   *)
(* looks.  Only systemd is punctual: time does not pass its deadline.      *)
(***************************************************************************)
EXTENDS Integers, FiniteSets

CONSTANTS
    LeaseSeconds,       \* LEASE_SECONDS
    ChallengeSeconds,   \* CHALLENGE_SECONDS
    EarlyFence,         \* LEASE_EARLY_FENCE_SECONDS
    Margin,             \* the second notify() keeps between the two deadlines
    WatchdogSeconds,    \* WatchdogSec of the unit
    MaxPending,         \* capacity of HubLease.pending (64)
    MaxTime, MaxChallenges, MaxEpoch, MaxBoots      \* bounds of the model

ASSUME LeaseAssumption ==
    /\ LeaseSeconds \in Nat /\ ChallengeSeconds \in Nat /\ EarlyFence \in Nat
    /\ Margin \in Nat \ {0} /\ WatchdogSeconds \in Nat \ {0} /\ MaxPending \in Nat \ {0}
    /\ MaxTime \in Nat /\ MaxChallenges \in Nat /\ MaxEpoch \in Nat /\ MaxBoots \in Nat
    /\ Margin < EarlyFence
    /\ WatchdogSeconds + ChallengeSeconds <= LeaseSeconds

VARIABLES
    clock,
    required,       \* the durable enforcement latch
    pending,        \* challenges in memory, not used yet
    sequence,       \* last sequence number given to a challenge
    lastSequence,   \* sequence of the last accepted challenge
    lastIssued,     \* its issue time
    deadline,       \* end of the grant, 0 before the first one
    accepted,       \* [seq, epoch] of the last accepted acknowledgement
    trip,           \* trip_recorded: the core was fenced, no grant since
    epoch,          \* stands for the applied revision, hash and command revision
    core,           \* the Xray child
    lock,           \* engine.lock: free, a handler, a lease handler, the guard
    guard,          \* [at, fed, near]: where LeaseGuard.tick is, and its locals
    wd,             \* when systemd kills the unit unless fed again
    boot,           \* history: Agent process number
    minted,         \* history: every challenge ever issued
    rearmed         \* history: fed since the core was started

leaseVars == <<required, pending, sequence, lastSequence, lastIssued, deadline,
               accepted, trip, minted>>
vars == <<clock, leaseVars, epoch, core, lock, guard, wd, boot, rearmed>>

Challenge == [boot: 0..MaxBoots, seq: 1..MaxChallenges, issued: 0..MaxTime]
Idle      == [at |-> "idle", fed |-> FALSE, near |-> FALSE]

FlagsOK ==
    /\ required \in BOOLEAN /\ trip \in BOOLEAN /\ rearmed \in BOOLEAN
    /\ guard \in [at: {"idle", "lock", "pause"}, fed: BOOLEAN, near: BOOLEAN]

TypeOK ==
    /\ FlagsOK
    /\ clock \in 0..MaxTime
    /\ pending \subseteq Challenge /\ minted \subseteq Challenge
    /\ sequence \in 0..MaxChallenges /\ lastSequence \in 0..MaxChallenges
    /\ lastIssued \in -1..MaxTime
    /\ deadline \in 0..(MaxTime + LeaseSeconds)
    /\ accepted \in [seq: 0..MaxChallenges, epoch: 0..MaxEpoch]
    /\ epoch \in 0..MaxEpoch
    /\ core \in {"running", "stopped"}
    /\ lock \in {"free", "op", "renewed", "guard"}
    /\ wd \in 0..(MaxTime + WatchdogSeconds)
    /\ boot \in 0..MaxBoots

Least(a, b) == IF a <= b THEN a ELSE b
Remaining   == deadline - clock
Allowed     == ~required \/ clock < deadline
Running     == core = "running"
Expired     == required /\ ~Allowed

\* The volatile state of a fresh Agent process: no authority at all.
NoGrant == [seq |-> 0, epoch |-> 0]

Init ==
    /\ clock = 0
    /\ required \in BOOLEAN
    /\ pending = {} /\ sequence = 0 /\ lastSequence = 0 /\ lastIssued = -1
    /\ deadline = 0 /\ accepted = NoGrant /\ trip = FALSE
    /\ minted = {}
    /\ epoch = 0
    /\ core = "stopped" /\ lock = "free" /\ guard = Idle
    /\ wd = WatchdogSeconds
    /\ boot = 0 /\ rearmed = FALSE

-----------------------------------------------------------------------------
(* Time, systemd and the process.                                          *)

Tick ==
    /\ clock < MaxTime
    /\ clock < wd
    /\ clock' = clock + 1
    /\ UNCHANGED <<leaseVars, epoch, core, lock, guard, wd, boot, rearmed>>

\* The whole control group is killed and the unit restarted.
Restart ==
    /\ boot < MaxBoots
    /\ boot' = boot + 1
    /\ pending' = {} /\ sequence' = 0 /\ lastSequence' = 0 /\ lastIssued' = -1
    /\ deadline' = 0 /\ accepted' = NoGrant /\ trip' = FALSE
    /\ core' = "stopped" /\ lock' = "free" /\ guard' = Idle
    /\ wd' = clock + WatchdogSeconds
    /\ rearmed' = FALSE
    /\ UNCHANGED <<clock, required, minted, epoch>>

WatchdogKill == clock >= wd /\ Restart

CoreCrash ==
    /\ Running
    /\ core' = "stopped"
    /\ UNCHANGED <<clock, leaseVars, epoch, lock, guard, wd, boot, rearmed>>

-----------------------------------------------------------------------------
(* Operations under engine.lock.                                           *)

BeginOp ==
    /\ lock = "free"
    /\ lock' = "op"
    /\ UNCHANGED <<clock, leaseVars, epoch, core, guard, wd, boot, rearmed>>

EndOp ==
    /\ lock = "op"
    /\ lock' = "free"
    /\ UNCHANGED <<clock, leaseVars, epoch, core, guard, wd, boot, rearmed>>

\* Faulty variant: the trip is not checked before a start.
StartTripped ==
    /\ lock \in {"op", "renewed"}
    /\ ~Running
    /\ Allowed
    /\ core' = "running"
    /\ rearmed' = FALSE
    /\ UNCHANGED <<clock, leaseVars, epoch, lock, guard, wd, boot>>

\* _spawn under start_guard.
StartCore ==
    /\ lock \in {"op", "renewed"}
    /\ ~Running
    /\ Allowed /\ ~trip
    /\ core' = "running"
    /\ rearmed' = FALSE
    /\ UNCHANGED <<clock, leaseVars, epoch, lock, guard, wd, boot>>

StopCore ==
    /\ lock = "op"
    /\ Running
    /\ core' = "stopped"
    /\ UNCHANGED <<clock, leaseVars, epoch, lock, guard, wd, boot, rearmed>>

\* reconcile_control finds the lease expired.
PauseExpired ==
    /\ lock = "op"
    /\ Expired /\ Running
    /\ core' = "stopped"
    /\ trip' = TRUE
    /\ UNCHANGED <<clock, required, pending, sequence, lastSequence, lastIssued, deadline,
                   accepted, minted, epoch, lock, guard, wd, boot, rearmed>>

\* A configuration or an ordered command is accepted.
ChangeEpoch ==
    /\ lock = "op"
    /\ epoch < MaxEpoch
    /\ epoch' = epoch + 1
    /\ UNCHANGED <<clock, leaseVars, core, lock, guard, wd, boot, rearmed>>

\* GET /mirrors/traffic: after a strict checkpoint, a new challenge; old ones
\* go, and the oldest one if the store is full.
Live == {c \in pending : clock - c.issued <= ChallengeSeconds}
Kept == IF Cardinality(Live) >= MaxPending
        THEN {c \in Live : \E d \in Live : d.seq < c.seq} ELSE Live

IssueChallenge ==
    /\ lock = "op"
    /\ sequence < MaxChallenges
    /\ LET new == [boot |-> boot, seq |-> sequence + 1, issued |-> clock] IN
          /\ pending' = Kept \cup {new}
          /\ minted' = minted \cup {new}
    /\ sequence' = sequence + 1
    /\ UNCHANGED <<clock, required, lastSequence, lastIssued, deadline, accepted, trip, epoch,
                   core, lock, guard, wd, boot, rearmed>>

\* POST /accounting/lease.  The Hub may answer any challenge it was ever
\* given, at any time and again and again, with the epoch it verified.
\* Faulty variants: any recent challenge is accepted, whoever issued it, or
\* any recent one of this process, in any order.
AcceptableRecent(c) ==
    clock - c.issued <= ChallengeSeconds /\ c.seq > lastSequence
AcceptableUnordered(c) ==
    clock - c.issued <= ChallengeSeconds /\ c.boot = boot

Acceptable(c) ==
    /\ c \in pending
    /\ c.seq > lastSequence
    /\ clock - c.issued <= ChallengeSeconds
    /\ c.issued <= clock

IsDuplicate(c) == c.boot = boot /\ c.seq = accepted.seq

Grant(c, e) ==
    /\ lock = "op"
    /\ e = epoch
    /\ ~IsDuplicate(c)
    /\ Acceptable(c)
    /\ required' = TRUE
    /\ deadline' = c.issued + LeaseSeconds
    /\ lastIssued' = c.issued
    /\ lastSequence' = c.seq
    /\ accepted' = [seq |-> c.seq, epoch |-> e]
    /\ trip' = FALSE
    /\ pending' = {d \in pending : d.seq > c.seq}
    /\ lock' = "renewed"
    /\ UNCHANGED <<clock, sequence, minted, epoch, core, guard, wd, boot, rearmed>>

\* An identical retry is confirmed without extending anything.
ConfirmDuplicate(c, e) ==
    /\ lock = "op"
    /\ e = epoch
    /\ IsDuplicate(c) /\ e = accepted.epoch
    /\ lock' = "renewed"
    /\ UNCHANGED <<clock, leaseVars, epoch, core, guard, wd, boot, rearmed>>

-----------------------------------------------------------------------------
(* The watchdog and the guard loop.                                        *)

\* Faulty variants: a feed when less than the early fence is left, and one for
\* a full period whatever is left.
FeedableToMargin == required => Remaining > Margin
BoundlessFeed == wd' = clock + WatchdogSeconds /\ rearmed' = TRUE

\* notify(lease=...): never beyond the grant, and never too short to serve.
Feedable == required => Remaining > EarlyFence
BoundedFeed ==
    /\ wd' = clock + IF required THEN Least(WatchdogSeconds, Remaining - Margin)
                                 ELSE WatchdogSeconds
    /\ rearmed' = TRUE
NotifyLease == IF Feedable THEN BoundedFeed ELSE UNCHANGED <<wd, rearmed>>

\* notify() without a lease: only for a core seen stopped.
FullFeed == wd' = clock + WatchdogSeconds /\ UNCHANGED rearmed

\* The lease handler ends by rearming systemd for the new grant.
FinishRenew ==
    /\ lock = "renewed"
    /\ NotifyLease
    /\ lock' = "free"
    /\ UNCHANGED <<clock, leaseVars, epoch, core, guard, boot>>

NearExpiry == required /\ Allowed /\ Running /\ Remaining <= EarlyFence

\* LeaseGuard.tick before it tries the engine lock.
GuardFeed ==
    /\ guard.at = "idle"
    /\ IF Allowed /\ ~NearExpiry
       THEN NotifyLease /\ guard' = [at |-> "lock", fed |-> Feedable, near |-> FALSE]
       ELSE /\ UNCHANGED <<wd, rearmed>>
            /\ guard' = [at |-> "lock", fed |-> FALSE, near |-> NearExpiry]
    /\ UNCHANGED <<clock, leaseVars, epoch, core, lock, boot>>

\* The engine is busy: with an expired lease a running core is killed with
\* the unit, a stopped one is no reason to kill the Agent.
GuardBusyTrigger ==
    /\ guard.at = "lock"
    /\ lock # "free"
    /\ Expired /\ Running
    /\ Restart

GuardBusy ==
    /\ guard.at = "lock"
    /\ lock # "free"
    /\ ~(Expired /\ Running)
    /\ IF Expired THEN FullFeed ELSE UNCHANGED <<wd, rearmed>>
    /\ guard' = Idle
    /\ UNCHANGED <<clock, leaseVars, epoch, core, lock, boot>>

\* Under the engine lock: fence an expired core, or one seen near expiry that
\* has not been granted more time since.
MustFence ==
    /\ Running
    /\ \/ Expired
       \/ guard.near /\ required /\ Remaining <= EarlyFence

GuardLocked ==
    /\ guard.at = "lock"
    /\ lock = "free"
    /\ IF MustFence
       THEN /\ guard' = [guard EXCEPT !.at = "pause"]
            /\ lock' = "guard"
            /\ UNCHANGED <<wd, rearmed>>
       ELSE /\ guard' = Idle
            /\ IF ~Running THEN FullFeed
               ELSE IF guard.fed THEN UNCHANGED <<wd, rearmed>> ELSE NotifyLease
            /\ UNCHANGED lock
    /\ UNCHANGED <<clock, leaseVars, epoch, core, boot>>

\* The final snapshot takes time; then the child is stopped and the trip kept.
GuardFence ==
    /\ guard.at = "pause"
    /\ core' = "stopped"
    /\ trip' = TRUE
    /\ FullFeed
    /\ guard' = Idle
    /\ lock' = "free"
    /\ UNCHANGED <<clock, required, pending, sequence, lastSequence, lastIssued, deadline,
                   accepted, minted, epoch, boot>>

-----------------------------------------------------------------------------
Next ==
    \/ Tick \/ WatchdogKill \/ CoreCrash
    \/ BeginOp \/ EndOp \/ StartCore \/ StopCore \/ PauseExpired \/ ChangeEpoch
    \/ IssueChallenge
    \/ \E c \in minted, e \in 0..epoch : Grant(c, e) \/ ConfirmDuplicate(c, e)
    \/ FinishRenew
    \/ GuardFeed \/ GuardBusyTrigger \/ GuardBusy \/ GuardLocked \/ GuardFence

Spec == Init /\ [][Next]_vars

-----------------------------------------------------------------------------
(* Safety.                                                                 *)

\* Once systemd has been fed for the running core, it never serves past the
\* end of its grant, however long any thread of the Agent is delayed
\* (SystemdWatchdog.notify, LeaseGuard.tick).
ServesWithinGrant ==
    required /\ Running /\ rearmed => clock <= deadline /\ wd <= deadline

\* Even a core that was started and never fed for is gone before a full
\* watchdog period past the grant.
OverrunBounded ==
    required /\ Running => clock < deadline + WatchdogSeconds

\* How long Xray can serve past its grant: not at all, or less than one watchdog period.
ServiceIsBounded == ServesWithinGrant /\ OverrunBounded

\* A fenced core stays down until the next grant, also in the last seconds
\* before expiry, when the lease itself still says allowed (start_guard).
FencedStaysDown == trip => ~Running

\* The authority of a running core is a challenge issued by this very Agent
\* process after a checkpoint: a restart, a replayed or an old answer never
\* revives one (HubLease.renew, NEVER persist authority).
AuthorityIsFresh ==
    required /\ Running =>
        \E c \in minted : /\ c.boot = boot
                          /\ c.seq = accepted.seq
                          /\ deadline = c.issued + LeaseSeconds

\* Within one process, grants are taken in the order of their challenges and
\* an answer never shortens the grant already given.
GrantsInOrder ==
    [][ boot' = boot => /\ deadline' >= deadline
                        /\ accepted'.seq >= accepted.seq
                        /\ accepted'.seq = accepted.seq => accepted' = accepted ]_vars

\* "Never publish an unserviceable short timer": every feed leaves the loop
\* more time than the margin it needs (SystemdWatchdog.notify).
FeedIsServiceable ==
    [][ wd' # wd => wd' >= clock + Least(WatchdogSeconds, EarlyFence - Margin) ]_vars

\* "PID 1's deadline must remain shorter than the actually granted accounting
\* lease, even if the interpreter becomes frozen" (SystemdWatchdog.notify).
FrozenWithinGrant == required /\ Running => wd <= deadline
=============================================================================
