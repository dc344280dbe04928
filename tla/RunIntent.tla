------------------------------ MODULE RunIntent ------------------------------
(***************************************************************************)
(* What the ordered run control of a Node promises, without network, locks *)
(* or crashes (contract: docstrings of backend/node_commands.py and of     *)
(* NodeRuntime.ordered_command).                                           *)
(*                                                                         *)
(* A register holds the latest intent.  A fence holds the newest command   *)
(* the other side has accepted.  A command is settled at most once, in     *)
(* increasing revision order, and the register may show it as acknowledged *)
(* only then.                                                              *)
(***************************************************************************)
EXTENDS Naturals

CONSTANTS Ids, NoId, MaxRevision, Restores

VARIABLES
    register,   \* [cmd, acked]: the latest intent
    fence,      \* [cmd, phase]: the newest accepted command
    issued,     \* every intent ever recorded
    settled     \* every command carried out and committed

vars == <<register, fence, issued, settled>>

Actions == {"start", "stop", "restart"}
NoCmd   == [rev |-> 0, id |-> NoId, action |-> "none"]

Init ==
    /\ register = [cmd |-> NoCmd, acked |-> TRUE]
    /\ fence = [cmd |-> NoCmd, phase |-> "none"]
    /\ issued = {} /\ settled = {}

\* A new intent replaces the previous one under a fresh identity.
Issue ==
    /\ \E i \in Ids, a \in Actions :
          LET new == [rev |-> register.cmd.rev + 1, id |-> i, action |-> a] IN
            /\ new.rev <= MaxRevision
            /\ \A c \in issued : c.id # i
            /\ register' = [cmd |-> new, acked |-> FALSE]
            /\ issued' = issued \cup {new}
    /\ UNCHANGED <<fence, settled>>

\* A recorded command that is newer than the fence, or is the fence's own and
\* not carried out yet, is accepted (again).
Accept ==
    \E c \in issued :
        /\ \/ c.rev > fence.cmd.rev
           \/ c = fence.cmd /\ fence.phase # "applied"
        /\ fence' = [cmd |-> c, phase |-> "pending"]
        /\ UNCHANGED <<register, issued, settled>>

Settle ==
    /\ fence.phase = "pending"
    /\ \A d \in settled : d.rev < fence.cmd.rev
    /\ fence' = [fence EXCEPT !.phase = "applied"]
    /\ settled' = settled \cup {fence.cmd}
    /\ UNCHANGED <<register, issued>>

Fail ==
    /\ fence.phase = "pending"
    /\ fence' = [fence EXCEPT !.phase = "failed"]
    /\ UNCHANGED <<register, issued, settled>>

Acknowledge ==
    /\ register.cmd \in settled
    /\ register' = [cmd |-> register.cmd, acked |-> TRUE]
    /\ UNCHANGED <<fence, issued, settled>>

\* An older copy of the register comes back; its acknowledgement is genuine.
Restore ==
    /\ Restores
    /\ \E c \in issued \cup {NoCmd}, acked \in BOOLEAN :
          /\ acked => c \in settled \cup {NoCmd}
          /\ register' = [cmd |-> c, acked |-> acked]
    /\ UNCHANGED <<fence, issued, settled>>

Next == Issue \/ Accept \/ Settle \/ Fail \/ Acknowledge \/ Restore

Spec == Init /\ [][Next]_vars
=============================================================================
