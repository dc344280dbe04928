--------------------------- MODULE NodeReplacement ---------------------------
(***************************************************************************)
(* Replacing the server behind a Node (node_replacement.py,                *)
(* node_replacement_resolution.py, node_installations.py): the Hub takes   *)
(* over a fresh machine by its Pair Code, rotates its token, proves it     *)
(* idle, and then either binds the Node to it or discards it.  Each POST   *)
(* is a message that may be delivered late or never, and whose reply may   *)
(* be lost; each worker may give up, or die, at any step.  Workers of      *)
(* several Hub processes are fenced only by the journal's revision.        *)
(***************************************************************************)
EXTENDS Integers, FiniteSets

CONSTANTS
    Attempts,       \* 1..n, each with a machine of its own
    HubWorkers,     \* threads that resume, commit or cancel
    MaxRevision     \* bound on operation_revision

VARIABLES
    bind,       \* the active row of remote_node_installations: generation, machine
    journal,    \* the row of remote_node_replacements; attempt 0: none
    receipt,    \* remote_node_replacement_history
    machine,    \* the candidate's Agent: token, core running, in use
    net,        \* POST requests on their way
    op          \* what each worker is about to do, with the row it has read

replacementVars == <<bind, journal, receipt, machine, net, op>>

NoJournal == [a |-> 0, phase |-> "none", res |-> "none", rev |-> 0, src |-> 0,
              learned |-> FALSE]
AtEase == [a |-> 0, kind |-> "none", pc |-> "idle", rev |-> 0, cred |-> "none"]

\* A fresh installer may have started an empty core.
ReplacementInit ==
    /\ bind = [gen |-> 1, at |-> 0]
    /\ journal = NoJournal
    /\ receipt = [a \in Attempts |-> "none"]
    /\ machine \in [Attempts -> [token : {"bootstrap"}, running : BOOLEAN, used : {FALSE}]]
    /\ net = {}
    /\ op = [w \in HubWorkers |-> AtEase]

To(w, pc) == op' = [op EXCEPT ![w].pc = pc]

\* _assert_current: the source binding, unless the candidate is being discarded,
\* and the revision the worker has written.
Current(w) ==
    /\ journal.a = op[w].a /\ journal.rev = op[w].rev
    /\ journal.res = "cancelling" \/ journal.src = bind.gen

\* A GET that is answered: the credential is the Agent's, and the worker's row is
\* current before and after it.
Proven(w, cred) ==
    /\ Current(w) /\ machine[op[w].a].token = cred /\ ~machine[op[w].a].used

Post(w, do, cred, new) ==
    net' = net \union {[a |-> op[w].a, do |-> do, cred |-> cred, new |-> new, by |-> w,
                        rev |-> op[w].rev]}

---------------------------------------------------------------------------
(* The Hub *)

BeginReplacement(a) ==
    /\ journal.a = 0 /\ receipt[a] = "none"
    /\ journal' = [NoJournal EXCEPT !.a = a, !.phase = "pending", !.src = bind.gen]
    /\ UNCHANGED <<bind, receipt, machine, net, op>>

Start(w, kind, pc, new) ==
    /\ op[w] = AtEase /\ journal.rev < MaxRevision
    /\ journal' = [new EXCEPT !.rev = @ + 1]
    /\ op' = [op EXCEPT ![w] = [a |-> journal.a, kind |-> kind, pc |-> pc,
                                rev |-> journal.rev + 1, cred |-> "candidate"]]
    /\ UNCHANGED <<bind, receipt, machine, net>>

\* With a resolution under way, resume goes on with that resolution instead.
Resume(w) ==
    /\ journal.a # 0 /\ journal.res = "none"
    /\ Start(w, "resume", IF journal.learned THEN "try" ELSE "learn", journal)

\* Faulty variant: the commit does not wait for the preparation to end.
HastyCommit(w) ==
    /\ journal.a # 0 /\ journal.res # "cancelling"
    /\ journal.src = bind.gen
    /\ Start(w, "commit", "proof", [journal EXCEPT !.res = "committing"])

Commit(w) ==
    /\ journal.a # 0 /\ journal.res # "cancelling" /\ journal.phase = "prepared"
    /\ journal.src = bind.gen
    /\ Start(w, "commit", "proof", [journal EXCEPT !.res = "committing"])

Cancel(w) ==
    /\ journal.a # 0
    /\ Start(w, "cancel", "probe", [journal EXCEPT !.res = "cancelling"])

Learn(w) ==
    /\ op[w].pc = "learn" /\ Proven(w, "bootstrap")
    /\ journal' = [journal EXCEPT !.learned = TRUE]
    /\ To(w, "try")
    /\ UNCHANGED <<bind, receipt, machine, net>>

\* The journaled token first: an earlier rotation may have gone through.  Only a
\* 401 allows the bootstrap token.
TryCandidate(w) ==
    /\ op[w].pc = "try" /\ Current(w)
    /\ \/ Proven(w, "candidate") /\ To(w, "check")
       \/ machine[op[w].a].token # "candidate" /\ To(w, "boot")
    /\ UNCHANGED <<bind, journal, receipt, machine, net>>

Bootstrap(w) ==
    /\ op[w].pc = "boot" /\ Proven(w, "bootstrap")
    /\ journal' = [journal EXCEPT !.phase = "rotating"]
    /\ op' = [op EXCEPT ![w].pc = "rotate", ![w].cred = "bootstrap"]
    /\ UNCHANGED <<bind, receipt, machine, net>>

\* Of the three credentials in the journal, the one that authenticates.
ProbeForDisposal(w) ==
    /\ op[w].pc = "probe"
    /\ \E cred \in {"disposal", "candidate", "bootstrap"} :
          /\ Proven(w, cred)
          /\ op' = [op EXCEPT ![w].pc = "check", ![w].cred = cred]
    /\ journal' = [journal EXCEPT !.learned = TRUE]
    /\ UNCHANGED <<bind, receipt, machine, net>>

RotateSend(w) ==
    /\ op[w].pc = "rotate" /\ Current(w)
    /\ Post(w, "rotate", op[w].cred,
            IF op[w].kind = "cancel" THEN "disposal" ELSE "candidate")
    /\ To(w, "rotateSent")
    /\ UNCHANGED <<bind, journal, receipt, machine>>

\* After the answer: a GET with the new token, and for the disposal its final proof.
RotateProve(w) ==
    LET new == IF op[w].kind = "cancel" THEN "disposal" ELSE "candidate"
    IN /\ op[w].pc = "prove" /\ Proven(w, new)
       /\ op[w].kind = "cancel" => ~machine[op[w].a].running
       /\ op' = [op EXCEPT ![w].pc = IF op[w].kind = "cancel" THEN "finish" ELSE "check",
                           ![w].cred = new]
       /\ UNCHANGED <<bind, journal, receipt, machine, net>>

\* The health just read decides whether the core has to be stopped first.
IdleCheck(w) ==
    LET idle == ~machine[op[w].a].running
    IN /\ op[w].pc = "check" /\ Proven(w, op[w].cred)
       /\ IF ~idle THEN Post(w, "idle", op[w].cred, "none") /\ To(w, "idleSent")
          ELSE /\ To(w, IF op[w].kind = "resume" THEN "mark"
                        ELSE IF op[w].cred = "disposal" THEN "finish" ELSE "rotate")
               /\ UNCHANGED net
       /\ UNCHANGED <<bind, journal, receipt, machine>>

Prepared(w) ==
    /\ op[w].pc = "mark" /\ Current(w)
    /\ journal' = [journal EXCEPT !.phase = "prepared"]
    /\ op' = [op EXCEPT ![w] = AtEase]
    /\ UNCHANGED <<bind, receipt, machine, net>>

CommitProof(w) ==
    /\ op[w].pc = "proof" /\ Proven(w, "candidate") /\ ~machine[op[w].a].running
    /\ To(w, "switch")
    /\ UNCHANGED <<bind, journal, receipt, machine, net>>

Resolved(w, outcome) ==
    /\ receipt' = [receipt EXCEPT ![op[w].a] = outcome]
    /\ journal' = NoJournal
    /\ op' = [op EXCEPT ![w] = AtEase]
    /\ UNCHANGED <<machine, net>>

\* _replace_locked and _finish, one transaction.
SwitchBinding(w) ==
    /\ op[w].pc = "switch" /\ Current(w)
    /\ bind' = [gen |-> bind.gen + 1, at |-> op[w].a]
    /\ Resolved(w, "committed")

Discard(w) ==
    /\ op[w].pc = "finish" /\ Current(w)
    /\ Resolved(w, "cancelled") /\ UNCHANGED bind

\* A timeout, a refusal, a superseded revision, or the end of the Hub process.
GiveUp(w) ==
    /\ op[w] # AtEase
    /\ op' = [op EXCEPT ![w] = AtEase]
    /\ UNCHANGED <<bind, journal, receipt, machine, net>>

---------------------------------------------------------------------------
(* The machines *)

\* The worker learns of it unless it has given up or the reply is lost.
Answered(m, pc, next) ==
    /\ net' = net \ {m}
    /\ \/ /\ op[m.by].pc = pc /\ op[m.by].a = m.a /\ op[m.by].rev = m.rev
          /\ To(m.by, next)
       \/ UNCHANGED op
    /\ UNCHANGED <<bind, journal, receipt>>

\* rotate-token, under the engine lock: bearer, still unassigned, then the file.
AgentRotate(m) ==
    /\ m.do = "rotate"
    /\ machine[m.a].token = m.cred /\ ~machine[m.a].used
    /\ machine' = [machine EXCEPT ![m.a].token = m.new]
    /\ Answered(m, "rotateSent", "prove")

AgentIdle(m) ==
    /\ m.do = "idle"
    /\ machine[m.a].token = m.cred /\ ~machine[m.a].used
    /\ machine' = [machine EXCEPT ![m.a].running = FALSE]
    /\ Answered(m, "idleSent", "check")

\* Refused, or lost on the way.
RequestLost(m) ==
    /\ net' = net \ {m}
    /\ UNCHANGED <<bind, journal, receipt, machine, op>>

\* Somebody else used the Pair Code before the Hub did.
TakenElsewhere(a) ==
    /\ machine[a].token = "bootstrap"
    /\ machine' = [machine EXCEPT ![a] = [token |-> "foreign", running |-> TRUE, used |-> TRUE]]
    /\ UNCHANGED <<bind, journal, receipt, net, op>>

\* The bound machine gets the Node's commands and configuration and serves.
PutToUse(a) ==
    /\ bind.at = a /\ ~machine[a].used
    /\ machine' = [machine EXCEPT ![a].used = TRUE, ![a].running = TRUE]
    /\ UNCHANGED <<bind, journal, receipt, net, op>>

ReplacementNext ==
    \/ \E a \in Attempts : BeginReplacement(a) \/ TakenElsewhere(a) \/ PutToUse(a)
    \/ \E w \in HubWorkers :
          \/ Resume(w) \/ Commit(w) \/ Cancel(w)
          \/ Learn(w) \/ TryCandidate(w) \/ Bootstrap(w) \/ ProbeForDisposal(w)
          \/ RotateSend(w) \/ RotateProve(w) \/ IdleCheck(w) \/ Prepared(w)
          \/ CommitProof(w) \/ SwitchBinding(w) \/ Discard(w) \/ GiveUp(w)
    \/ \E m \in net : AgentRotate(m) \/ AgentIdle(m) \/ RequestLost(m)

ReplacementSpec == ReplacementInit /\ [][ReplacementNext]_replacementVars

---------------------------------------------------------------------------
Tokens == {"bootstrap", "candidate", "disposal", "foreign"}

ReplacementTypeOK ==
    /\ bind \in [gen : Nat \ {0}, at : Attempts \union {0}]
    /\ journal \in [a : Attempts \union {0}, phase : {"none", "pending", "rotating", "prepared"},
                    res : {"none", "committing", "cancelling"}, rev : Nat, src : Nat,
                    learned : BOOLEAN]
    /\ receipt \in [Attempts -> {"none", "committed", "cancelled"}]
    /\ machine \in [Attempts -> [token : Tokens, running : BOOLEAN, used : BOOLEAN]]
    /\ net \subseteq [a : Attempts, do : {"rotate", "idle"}, cred : Tokens,
                      new : Tokens \union {"none"}, by : HubWorkers, rev : Nat]
    /\ op \in [HubWorkers ->
           [a : Attempts \union {0}, kind : {"none", "resume", "commit", "cancel"},
            pc : {"idle", "learn", "try", "boot", "probe", "rotate", "rotateSent", "prove",
                  "check", "idleSent", "mark", "proof", "switch", "finish"},
            rev : Nat, cred : Tokens \union {"none"}]]

\* However rotations, their lost replies and late requests of several workers
\* interleave, the Hub holds the token of the machine: the journal of an attempt
\* names it, and the machine the Node is bound to honours the registered one.
HubHoldsToken ==
    /\ \A a \in Attempts : receipt[a] = "committed" => machine[a].token = "candidate"
    /\ journal.a # 0 =>
          machine[journal.a].token \in
             {"bootstrap", "candidate", "foreign"}
             \union (IF journal.res = "cancelling" THEN {"disposal"} ELSE {})

\* A discarded candidate is bound to nothing, serves nobody and refuses the Pair
\* Code and every token of the journal, also when a request sent before arrives late.
DiscardedIsRevoked ==
    \A a \in Attempts : receipt[a] = "cancelled" =>
        bind.at # a /\ machine[a].token = "disposal" /\ ~machine[a].running

\* The binding moves only from the generation the preparation was made for, to a
\* machine that is proven, unassigned and stopped at that moment; and no late
\* request of the preparation stops a machine once it serves.
SwitchIsProven ==
    [][/\ bind' # bind =>
             /\ bind.gen = journal.src /\ journal.phase = "prepared"
             /\ bind'.at = journal.a
             /\ machine[journal.a] =
                    [token |-> "candidate", running |-> FALSE, used |-> FALSE]
       /\ \A a \in Attempts :
             machine[a].used /\ machine[a].running => machine'[a].running]_replacementVars
=============================================================================
