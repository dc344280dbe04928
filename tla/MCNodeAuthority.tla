--------------------------- MODULE MCNodeAuthority ---------------------------
(***************************************************************************)
(* What lets a Node serve, for TLC: the accounting lease under its guard   *)
(* and the watchdog ("lease"), the same module with a full store of        *)
(* challenges ("order"), and the acknowledgements of run commands when the *)
(* Hub's database may be restored from a stale backup ("restored").        *)
(***************************************************************************)
EXTENDS HubLease, TLC

CONSTANTS Ids, NoId     \* identities of run commands

VARIABLES
    part,                                       \* the question this behaviour is about
    hub, backup, call, issued, late, receipt,   \* NodeCommands
    control, wants, xray, armed, lease, job, flush, done, faults

\* More challenges than the store holds, answered in any order.
Order == INSTANCE HubLease WITH MaxTime <- 3, MaxChallenges <- 4, MaxBoots <- 0
C == INSTANCE NodeCommands WITH
            core <- xray, MaxRevision <- 2, MaxFaults <- 1, Restores <- TRUE
cVars == <<hub, backup, call, issued, late, receipt, control, wants, xray, armed, lease, job,
           flush, done, faults>>
authorityVars == <<part, vars, cVars>>
Symmetry == Permutations(Ids)

AuthorityInit ==
    /\ part \in {"lease", "order", "restored"}
    /\ Init /\ C!Init
    \* What the other parts find does not matter here.
    /\ part # "restored" => ~control.desired /\ ~armed
    /\ part \in {"restored"} => ~required

Leasing    == part = "lease" /\ Next /\ UNCHANGED <<part, cVars>>
Ordering   == part = "order" /\ Order!Next /\ UNCHANGED <<part, cVars>>
Commanding == part = "restored" /\ C!Next /\ UNCHANGED <<part, vars>>

AuthorityNext == Leasing \/ Ordering \/ Commanding
AuthoritySpec == AuthorityInit /\ [][AuthorityNext]_authorityVars

------------------------------------------------------------------------------
\* Acknowledgements hold over a restore of the Hub's database.
RestoredAcksHold == C!AcknowledgementsHold
==============================================================================
