--------------------------- MODULE HubLease_proofs ---------------------------
(***************************************************************************)
(* Proofs about HubLease, for every lease, challenge, watchdog and fence   *)
(* length the assumption allows.                                           *)
(***************************************************************************)
EXTENDS HubLease, TLAPS

-----------------------------------------------------------------------------
(* The inductive invariant.                                                *)

\* systemd's deadline is never past, nor more than a full period away.
WatchdogInTime == clock <= wd /\ wd <= clock + WatchdogSeconds

\* A stored challenge belongs to this process, is newer than the accepted
\* one, and later challenges were issued later.
StoreInOrder ==
    \A c \in pending :
        /\ c \in minted
        /\ c.boot = boot
        /\ c.issued <= clock
        /\ c.seq <= sequence
        /\ c.seq > lastSequence
        /\ c.issued >= lastIssued
        /\ \A d \in pending : c.seq < d.seq => c.issued <= d.issued

\* There is no grant, or it is the one of the accepted challenge.
GrantIsAccepted ==
    /\ lastIssued <= clock
    /\ lastSequence <= sequence
    /\ accepted.seq = lastSequence
    /\ \/ lastSequence = 0 /\ deadline = 0 /\ accepted = NoGrant
       \/ /\ lastSequence > 0
          /\ deadline = lastIssued + LeaseSeconds
          /\ [boot |-> boot, seq |-> lastSequence, issued |-> lastIssued] \in minted

RunningIsGranted == required /\ Running => lastSequence > 0

RunningIsTimed ==
    required /\ Running => /\ wd < deadline + WatchdogSeconds
                           /\ rearmed => wd <= deadline

Inv == /\ TypeOK
       /\ WatchdogInTime
       /\ StoreInOrder
       /\ GrantIsAccepted
       /\ RunningIsGranted
       /\ RunningIsTimed
       /\ FencedStaysDown

-----------------------------------------------------------------------------
LEMMA InitInv == Init => Inv
<1> SUFFICES ASSUME Init PROVE Inv
  OBVIOUS
<1>1. TypeOK
  <2>1. guard \in [at: {"idle", "lock", "pause"}, fed: BOOLEAN, near: BOOLEAN]
    BY DEF Init, Idle
  <2>2. accepted \in [seq: 0..MaxChallenges, epoch: 0..MaxEpoch]
    BY LeaseAssumption DEF Init, NoGrant
  <2>3. FlagsOK
    BY <2>1 DEF Init, FlagsOK
  <2> QED BY <2>2, <2>3, LeaseAssumption DEF Init, TypeOK
<1>2. StoreInOrder
  BY DEF Init, StoreInOrder
<1>3. GrantIsAccepted
  BY DEF Init, GrantIsAccepted, NoGrant
<1>4. WatchdogInTime /\ RunningIsGranted /\ RunningIsTimed /\ FencedStaysDown
  BY LeaseAssumption
  DEF Init, WatchdogInTime, RunningIsGranted, RunningIsTimed, FencedStaysDown, Running
<1> QED BY <1>1, <1>2, <1>3, <1>4 DEF Inv

\* The parts about challenges and grants only read the lease, and the clock
\* only helps them.
LEMMA LeaseFrame ==
  ASSUME Inv,
         clock' \in Nat, clock' >= clock,
         UNCHANGED <<pending, minted, sequence, lastSequence, lastIssued, deadline, accepted,
                     boot>>
  PROVE  StoreInOrder' /\ GrantIsAccepted'
<1>1. StoreInOrder'
  <2> SUFFICES ASSUME NEW c \in pending
               PROVE  /\ c \in minted /\ c.boot = boot /\ c.issued <= clock'
                      /\ c.seq <= sequence /\ c.seq > lastSequence
                      /\ c.issued >= lastIssued
                      /\ \A d \in pending : c.seq < d.seq => c.issued <= d.issued
    BY DEF StoreInOrder
  <2>1. c.issued \in Int /\ c.issued <= clock /\ clock \in Int
    BY DEF Inv, TypeOK, StoreInOrder, Challenge
  <2>2. c.issued <= clock'
    BY <2>1
  <2> QED BY <2>2 DEF Inv, StoreInOrder
<1>2. GrantIsAccepted'
  <2>1. lastIssued' <= clock'
    BY DEF Inv, TypeOK, GrantIsAccepted
  <2> QED BY <2>1 DEF Inv, GrantIsAccepted
<1> QED BY <1>1, <1>2

\* Time passes only up to systemd's deadline.
LEMMA TickInv == Inv /\ Tick => Inv'
<1> SUFFICES ASSUME Inv, Tick PROVE Inv'
  OBVIOUS
<1>1. clock' \in Nat /\ clock' >= clock /\ clock' \in 0..MaxTime
  BY LeaseAssumption DEF Inv, TypeOK, Tick
<1>2. TypeOK'
  <2>1. FlagsOK'
    BY DEF Inv, TypeOK, FlagsOK, Tick, leaseVars
  <2> QED BY <1>1, <2>1 DEF Inv, TypeOK, Tick, leaseVars
<1>3. StoreInOrder' /\ GrantIsAccepted'
  BY <1>1, LeaseFrame DEF Tick, leaseVars
<1>4. WatchdogInTime' /\ RunningIsGranted' /\ RunningIsTimed' /\ FencedStaysDown'
  BY LeaseAssumption
  DEF Inv, TypeOK, Tick, leaseVars, WatchdogInTime, RunningIsGranted, RunningIsTimed,
      FencedStaysDown, Running
<1> QED BY <1>2, <1>3, <1>4 DEF Inv

\* A restart forgets the grant and stops the core.
LEMMA RestartInv == Inv /\ Restart => Inv'
<1> SUFFICES ASSUME Inv, Restart PROVE Inv'
  OBVIOUS
<1>1. TypeOK'
  <2>1. guard' \in [at: {"idle", "lock", "pause"}, fed: BOOLEAN, near: BOOLEAN]
    BY DEF Restart, Idle
  <2>2. accepted' \in [seq: 0..MaxChallenges, epoch: 0..MaxEpoch]
    BY LeaseAssumption DEF Restart, NoGrant
  <2>3. wd' \in 0..(MaxTime + WatchdogSeconds) /\ boot' \in 0..MaxBoots
    BY LeaseAssumption DEF Inv, TypeOK, Restart
  <2>4. FlagsOK'
    BY <2>1 DEF Inv, TypeOK, FlagsOK, Restart
  <2> QED BY <2>2, <2>3, <2>4, LeaseAssumption DEF Inv, TypeOK, Restart
<1>2. StoreInOrder'
  BY DEF Restart, StoreInOrder
<1>3. GrantIsAccepted'
  BY DEF Inv, TypeOK, Restart, GrantIsAccepted, NoGrant
<1>4. WatchdogInTime' /\ RunningIsGranted' /\ RunningIsTimed' /\ FencedStaysDown'
  BY LeaseAssumption
  DEF Inv, TypeOK, Restart, WatchdogInTime, RunningIsGranted, RunningIsTimed,
      FencedStaysDown, Running
<1> QED BY <1>1, <1>2, <1>3, <1>4 DEF Inv

\* Steps that only move the lock, the core or the epoch: a start needs the
\* lease and no trip.
LEMMA OperationInv ==
  ASSUME Inv, CoreCrash \/ BeginOp \/ EndOp \/ StartCore \/ StopCore \/ PauseExpired \/ ChangeEpoch
  PROVE  Inv'
<1> USE DEF leaseVars
<1>1. /\ UNCHANGED <<clock, required, pending, minted, sequence, lastSequence, lastIssued,
                     deadline, accepted, guard, wd, boot>>
      /\ core' \in {"running", "stopped"} /\ lock' \in {"free", "op", "renewed", "guard"}
  BY DEF Inv, TypeOK, CoreCrash, BeginOp, EndOp, StartCore, StopCore, PauseExpired, ChangeEpoch
<1>2. TypeOK'
  <2>1. epoch' \in 0..MaxEpoch
    BY LeaseAssumption
    DEF Inv, TypeOK, CoreCrash, BeginOp, EndOp, StartCore, StopCore, PauseExpired, ChangeEpoch
  <2>2. FlagsOK'
    BY DEF Inv, TypeOK, FlagsOK,
           CoreCrash, BeginOp, EndOp, StartCore, StopCore, PauseExpired, ChangeEpoch
  <2> QED BY <1>1, <2>1, <2>2 DEF Inv, TypeOK
<1>3. StoreInOrder' /\ GrantIsAccepted'
  BY <1>1, LeaseFrame DEF Inv, TypeOK
<1>4. WatchdogInTime'
  BY <1>1 DEF Inv, WatchdogInTime
<1>5. RunningIsGranted' /\ RunningIsTimed' /\ FencedStaysDown'
  <2>1. CASE StartCore
    BY <2>1, LeaseAssumption
    DEF Inv, TypeOK, StartCore, WatchdogInTime, GrantIsAccepted, RunningIsGranted,
        RunningIsTimed, FencedStaysDown, Running, Allowed
  <2>2. CASE ~StartCore
    BY <2>2
    DEF Inv, CoreCrash, BeginOp, EndOp, StopCore, PauseExpired, ChangeEpoch,
        RunningIsGranted, RunningIsTimed, FencedStaysDown, Running
  <2> QED BY <2>1, <2>2
<1> QED BY <1>2, <1>3, <1>4, <1>5 DEF Inv

LEMMA ChallengeInv == Inv /\ IssueChallenge => Inv'
<1> SUFFICES ASSUME Inv, IssueChallenge PROVE Inv'
  OBVIOUS
<1> DEFINE new == [boot |-> boot, seq |-> sequence + 1, issued |-> clock]
<1>1. new \in Challenge /\ new.boot = boot /\ new.seq = sequence + 1 /\ new.issued = clock
  <2>1. boot \in 0..MaxBoots /\ sequence + 1 \in 1..MaxChallenges /\ clock \in 0..MaxTime
    BY LeaseAssumption DEF Inv, TypeOK, IssueChallenge
  <2> QED BY <2>1 DEF Challenge
<1>2. Kept \subseteq pending
  BY DEF Kept, Live
<1>3. pending' = Kept \cup {new} /\ minted' = minted \cup {new}
  BY DEF IssueChallenge
<1>4. TypeOK'
  <2>1. FlagsOK'
    BY DEF Inv, TypeOK, FlagsOK, IssueChallenge
  <2>2. pending' \subseteq Challenge /\ minted' \subseteq Challenge
    BY <1>1, <1>2, <1>3 DEF Inv, TypeOK
  <2>3. sequence' \in 0..MaxChallenges
    BY LeaseAssumption DEF Inv, TypeOK, IssueChallenge
  <2> QED BY <2>1, <2>2, <2>3 DEF Inv, TypeOK, IssueChallenge
<1>5. StoreInOrder'
  BY <1>1, <1>2, <1>3 DEF Inv, TypeOK, StoreInOrder, GrantIsAccepted, IssueChallenge, Challenge
<1>6. GrantIsAccepted'
  BY <1>3 DEF Inv, TypeOK, GrantIsAccepted, IssueChallenge
<1>7. WatchdogInTime' /\ RunningIsGranted' /\ RunningIsTimed' /\ FencedStaysDown'
  BY DEF Inv, WatchdogInTime, RunningIsGranted, RunningIsTimed, FencedStaysDown,
         Running, IssueChallenge
<1> QED BY <1>4, <1>5, <1>6, <1>7 DEF Inv

\* A grant never shortens the running one: the store is in order.  When it
\* arms the Agent, the core may already run, and WatchdogSeconds is short
\* enough for the youngest possible grant.
LEMMA GrantInv ==
  ASSUME Inv, NEW c \in minted, NEW e \in 0..epoch, Grant(c, e)
  PROVE  Inv' /\ deadline' >= deadline /\ c.seq > accepted.seq
<1>1. /\ c \in pending /\ c \in Challenge
      /\ c.boot = boot /\ c.issued <= clock /\ c.seq <= sequence
      /\ c.seq > lastSequence /\ c.issued >= lastIssued
      /\ clock <= c.issued + ChallengeSeconds
  <2>1. c \in pending /\ c.seq > lastSequence /\ clock - c.issued <= ChallengeSeconds
    BY DEF Grant, Acceptable
  <2>2. c \in Challenge /\ c.issued \in Int /\ clock \in Int
    BY <2>1 DEF Inv, TypeOK, Challenge
  <2>3. c.boot = boot /\ c.issued <= clock /\ c.seq <= sequence /\ c.issued >= lastIssued
    BY <2>1 DEF Inv, StoreInOrder
  <2> QED BY <2>1, <2>2, <2>3, LeaseAssumption
<1>2. c = [boot |-> boot, seq |-> c.seq, issued |-> c.issued]
  BY <1>1 DEF Challenge
<1>3. deadline' >= deadline /\ deadline' = c.issued + LeaseSeconds
  BY <1>1, LeaseAssumption DEF Inv, Grant, TypeOK, GrantIsAccepted, Challenge
<1>4. TypeOK'
  <2>1. FlagsOK'
    BY DEF Inv, TypeOK, FlagsOK, Grant
  <2>2. c.seq \in 0..MaxChallenges /\ c.issued \in 0..MaxTime /\ e \in 0..MaxEpoch
    BY <1>1 DEF Inv, TypeOK, Grant, Challenge
  <2>3. accepted' \in [seq: 0..MaxChallenges, epoch: 0..MaxEpoch]
    BY <2>2 DEF Grant
  <2>4. deadline' \in 0..(MaxTime + LeaseSeconds)
    BY <1>3, <2>2, LeaseAssumption
  <2> QED BY <2>1, <2>2, <2>3, <2>4 DEF Inv, TypeOK, Grant
<1>5. StoreInOrder'
  BY <1>1 DEF Inv, Grant, TypeOK, StoreInOrder, Challenge
<1>6. GrantIsAccepted' /\ RunningIsGranted'
  BY <1>1, <1>2, <1>3, LeaseAssumption
  DEF Inv, Grant, TypeOK, GrantIsAccepted, RunningIsGranted, Challenge
<1>7. WatchdogInTime' /\ FencedStaysDown'
  BY DEF Inv, Grant, WatchdogInTime, FencedStaysDown
<1>8. RunningIsTimed'
  <2>1. CASE required
    BY <2>1, <1>3, LeaseAssumption DEF Inv, Grant, TypeOK, RunningIsTimed, Running
  <2>2. CASE ~required
    BY <2>2, <1>1, <1>3, LeaseAssumption
    DEF Inv, Grant, TypeOK, RunningIsTimed, WatchdogInTime, Running, Challenge
  <2> QED BY <2>1, <2>2
<1>9. c.seq > accepted.seq
  BY <1>1 DEF Inv, GrantIsAccepted
<1> QED BY <1>3, <1>4, <1>5, <1>6, <1>7, <1>8, <1>9 DEF Inv

\* What a feed does to the timers, whoever sends it.
LEMMA FeedInv ==
  ASSUME Inv, UNCHANGED <<clock, required, core, deadline>>,
         \/ NotifyLease
         \/ FullFeed /\ ~Running
         \/ UNCHANGED <<wd, rearmed>>
  PROVE  wd' \in 0..(MaxTime + WatchdogSeconds) /\ WatchdogInTime' /\ RunningIsTimed'
<1>1. CASE NotifyLease /\ Feedable
  BY <1>1, LeaseAssumption
  DEF Inv, TypeOK, NotifyLease, Feedable, BoundedFeed, Least, Remaining,
      WatchdogInTime, RunningIsTimed, Running
<1>2. CASE NotifyLease /\ ~Feedable
  BY <1>2 DEF Inv, TypeOK, NotifyLease, WatchdogInTime, RunningIsTimed, Running
<1>3. CASE FullFeed /\ ~Running
  BY <1>3, LeaseAssumption DEF Inv, TypeOK, FullFeed, WatchdogInTime, RunningIsTimed, Running
<1>4. CASE UNCHANGED <<wd, rearmed>>
  BY <1>4 DEF Inv, TypeOK, WatchdogInTime, RunningIsTimed, Running
<1> QED BY <1>1, <1>2, <1>3, <1>4

\* The lease handler's confirmation and feed, and the guard loop.
LEMMA GuardInv ==
  ASSUME Inv, \/ \E c \in minted, e \in 0..epoch : ConfirmDuplicate(c, e)
              \/ FinishRenew \/ GuardFeed \/ GuardBusy \/ GuardLocked
  PROVE  Inv'
<1>1. /\ UNCHANGED <<clock, leaseVars, epoch, core, boot>>
      /\ lock' \in {"free", "op", "renewed", "guard"}
  BY DEF Inv, TypeOK, ConfirmDuplicate, FinishRenew, GuardFeed, GuardBusy, GuardLocked
<1>2. NotifyLease \/ (FullFeed /\ ~Running) \/ UNCHANGED <<wd, rearmed>>
  BY DEF ConfirmDuplicate, FinishRenew, GuardFeed, GuardBusy, GuardLocked
<1>3. wd' \in 0..(MaxTime + WatchdogSeconds) /\ WatchdogInTime' /\ RunningIsTimed'
  BY <1>1, <1>2, FeedInv DEF leaseVars
<1>4. FlagsOK'
  <2>1. rearmed' \in BOOLEAN
    BY <1>2 DEF Inv, TypeOK, FlagsOK, NotifyLease, BoundedFeed, FullFeed
  <2>2. guard' \in [at: {"idle", "lock", "pause"}, fed: BOOLEAN, near: BOOLEAN]
    <3>1. CASE GuardFeed
      <4>1. Feedable \in BOOLEAN /\ NearExpiry \in BOOLEAN
        BY DEF Feedable, NearExpiry
      <4>2. \E f, n \in BOOLEAN : guard' = [at |-> "lock", fed |-> f, near |-> n]
        BY <3>1, <4>1, Zenon DEF GuardFeed
      <4> QED BY <4>2
    <3>2. CASE guard' = guard
      BY <3>2 DEF Inv, TypeOK, FlagsOK
    <3>3. CASE guard' = Idle
      BY <3>3 DEF Idle
    <3>4. CASE guard' = [guard EXCEPT !.at = "pause"]
      <4>1. guard \in [at: {"idle", "lock", "pause"}, fed: BOOLEAN, near: BOOLEAN]
        BY DEF Inv, TypeOK, FlagsOK
      <4> QED BY <3>4, <4>1
    <3> QED BY <3>1, <3>2, <3>3, <3>4 DEF ConfirmDuplicate, FinishRenew, GuardBusy, GuardLocked
  <2> QED BY <1>1, <2>1, <2>2 DEF Inv, TypeOK, FlagsOK, leaseVars
<1>5. TypeOK'
  BY <1>1, <1>3, <1>4 DEF Inv, TypeOK, leaseVars
<1>6. StoreInOrder' /\ GrantIsAccepted'
  BY <1>1, LeaseFrame DEF Inv, TypeOK, leaseVars
<1> QED BY <1>1, <1>3, <1>5, <1>6
    DEF Inv, leaseVars, RunningIsGranted, FencedStaysDown, Running

LEMMA FenceInv == Inv /\ GuardFence => Inv'
<1> SUFFICES ASSUME Inv, GuardFence PROVE Inv'
  OBVIOUS
<1>1. FlagsOK'
  <2>1. guard' \in [at: {"idle", "lock", "pause"}, fed: BOOLEAN, near: BOOLEAN]
    BY DEF GuardFence, Idle
  <2> QED BY <2>1 DEF Inv, TypeOK, FlagsOK, GuardFence, FullFeed
<1>2. TypeOK'
  BY <1>1, LeaseAssumption DEF Inv, TypeOK, GuardFence, FullFeed
<1>3. StoreInOrder' /\ GrantIsAccepted'
  BY LeaseFrame DEF Inv, TypeOK, GuardFence
<1>4. WatchdogInTime' /\ RunningIsGranted' /\ RunningIsTimed' /\ FencedStaysDown'
  BY LeaseAssumption
  DEF Inv, TypeOK, GuardFence, FullFeed, WatchdogInTime, RunningIsGranted, RunningIsTimed,
      FencedStaysDown, Running
<1> QED BY <1>2, <1>3, <1>4 DEF Inv

LEMMA NextInv == Inv /\ [Next]_vars => Inv'
<1> SUFFICES ASSUME Inv, [Next]_vars PROVE Inv'
  OBVIOUS
<1>1. CASE Tick
  BY <1>1, TickInv
<1>2. CASE WatchdogKill \/ GuardBusyTrigger
  BY <1>2, RestartInv DEF WatchdogKill, GuardBusyTrigger
<1>3. CASE CoreCrash \/ BeginOp \/ EndOp \/ StartCore \/ StopCore \/ PauseExpired \/ ChangeEpoch
  BY <1>3, OperationInv
<1>4. CASE IssueChallenge
  BY <1>4, ChallengeInv
<1>5. CASE \E c \in minted, e \in 0..epoch : Grant(c, e)
  BY <1>5, GrantInv
<1>6. CASE \/ \E c \in minted, e \in 0..epoch : ConfirmDuplicate(c, e)
           \/ FinishRenew \/ GuardFeed \/ GuardBusy \/ GuardLocked
  BY <1>6, GuardInv
<1>7. CASE GuardFence
  BY <1>7, FenceInv
<1>8. CASE UNCHANGED vars
  BY <1>8 DEF vars, leaseVars, Inv, TypeOK, FlagsOK, WatchdogInTime, StoreInOrder,
      GrantIsAccepted, RunningIsGranted, RunningIsTimed, FencedStaysDown, Running
<1> QED BY <1>1, <1>2, <1>3, <1>4, <1>5, <1>6, <1>7, <1>8 DEF Next

LEMMA Invariance == Spec => []Inv
  BY InitInv, NextInv, PTL DEF Spec

-----------------------------------------------------------------------------
(* Results.                                                                *)

\* Type correctness of the lease and the guard.
THEOREM TypeCorrect == Spec => []TypeOK
<1>1. Inv => TypeOK  BY DEF Inv
<1> QED BY <1>1, Invariance, PTL

\* A core systemd was fed for never serves past its grant.
THEOREM GrantBoundsService == Spec => []ServesWithinGrant
<1>1. Inv => ServesWithinGrant
  BY DEF Inv, TypeOK, WatchdogInTime, RunningIsTimed, ServesWithinGrant
<1> QED BY <1>1, Invariance, PTL

\* Any running core is stopped within one watchdog period of its grant's end.
THEOREM OverrunIsBounded == Spec => []OverrunBounded
<1>1. Inv => OverrunBounded
  BY LeaseAssumption DEF Inv, TypeOK, WatchdogInTime, RunningIsTimed, OverrunBounded
<1> QED BY <1>1, Invariance, PTL

\* Both bounds on the time Xray serves past its grant.
THEOREM BoundedService == Spec => []ServiceIsBounded
<1>1. ServesWithinGrant /\ OverrunBounded => ServiceIsBounded
  BY DEF ServiceIsBounded
<1> QED BY <1>1, GrantBoundsService, OverrunIsBounded, PTL

\* No start between a fence and the next grant.
THEOREM FenceHolds == Spec => []FencedStaysDown
<1>1. Inv => FencedStaysDown  BY DEF Inv
<1> QED BY <1>1, Invariance, PTL

\* The authority of a running core stems from a challenge of this process.
THEOREM FreshAuthority == Spec => []AuthorityIsFresh
<1>1. Inv => AuthorityIsFresh
  BY DEF Inv, RunningIsGranted, GrantIsAccepted, AuthorityIsFresh
<1> QED BY <1>1, Invariance, PTL

\* Grants are taken in order and are never shortened within one process.
THEOREM OrderedGrants == Spec => GrantsInOrder
<1> DEFINE Ordered == boot' = boot => /\ deadline' >= deadline
                                      /\ accepted'.seq >= accepted.seq
                                      /\ accepted'.seq = accepted.seq => accepted' = accepted
<1>1. Inv /\ [Next]_vars => [Ordered]_vars
  <2> SUFFICES ASSUME Inv, Next PROVE Ordered
    OBVIOUS
  <2>1. deadline \in Int /\ accepted.seq \in Int
    BY DEF Inv, TypeOK
  <2>2. CASE \E c \in minted, e \in 0..epoch : Grant(c, e)
    <3> PICK c \in minted, e \in 0..epoch : Grant(c, e)
      BY <2>2
    <3>1. deadline' >= deadline /\ c.seq > accepted.seq
      BY GrantInv
    <3>2. accepted'.seq = c.seq /\ c.seq \in Int
      BY DEF Grant, Inv, TypeOK, Challenge
    <3> QED BY <2>1, <3>1, <3>2
  <2>3. CASE WatchdogKill \/ GuardBusyTrigger
    BY <2>3 DEF WatchdogKill, GuardBusyTrigger, Restart, Inv, TypeOK
  <2>4. CASE UNCHANGED <<deadline, accepted>>
    BY <2>1, <2>4
  <2> QED
    BY <2>2, <2>3, <2>4
    DEF Next, Tick, CoreCrash, BeginOp, EndOp, StartCore, StopCore, PauseExpired, ChangeEpoch,
        IssueChallenge, ConfirmDuplicate, FinishRenew, GuardFeed, GuardBusy, GuardLocked,
        GuardFence, leaseVars
<1> QED BY <1>1, Invariance, PTL DEF Spec, GrantsInOrder
=============================================================================
