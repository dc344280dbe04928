-------------------------- MODULE NodeLifecycle_proofs --------------------------
(***************************************************************************)
(* The life of a Node between Hub and Agent, and what the Hub stores and   *)
(* runs itself, for every value of the constants: of attempts, of threads  *)
(* of the Hub, of edits and commands, of inbounds, ports and customers,    *)
(* and of requests that are under way, lost or late.                       *)
(* NodeReplacement: the journal of an attempt, and the revision a worker   *)
(* has written into it, fence what the worker may still do; the            *)
(* credentials a request carries bound what it can do when it arrives.     *)
(* NodePairing: the same for the first pairing of a machine, and for the   *)
(* tokens of a handoff.                                                    *)
(* NodeActivation: the row of the activation fences its operation, and the *)
(* revisions of commands and configurations what a late one can do.        *)
(* NodeDesired: a revision names one document wherever it has got to, so   *)
(* an acknowledged one says what the Node carries.                         *)
(* ConfigStore: every handler leaves the rows without a dangling reference *)
(* and without two listeners on a port, also when it dies half way.        *)
(* HubRuntime: what runs, what is on disk and what the hash says agree     *)
(* whenever nobody is at work on the core, and a rollback has its source.  *)
(* NodeUpdater: a Node carries green commits of its Hub, whole, and never  *)
(* an older one.                                                           *)
(***************************************************************************)
EXTENDS MCNodeLifecycle, NodeCommands_proofs

-----------------------------------------------------------------------------
(* Replacement: the inductive invariant *)

\* An attempt the Hub has under way, or has finished.
Begun(a) == journal.a = a \/ history[a] # "none"

\* The worker has written the latest revision of the journal.
Latest(w) == op[w].a = journal.a /\ op[w].rev = journal.rev

\* The journal names an attempt without an outcome, the binding one that was committed,
\* and only a bound or foreign machine is in use.
RowsAgree ==
    /\ journal.a # 0 => history[journal.a] = "none"
    /\ bind.at # 0 => history[bind.at] = "committed"
    /\ \A a \in Attempts :
          /\ machine[a].used => machine[a].token = "foreign" \/ history[a] = "committed"
          /\ machine[a].token = "disposal" => Begun(a)

\* No worker is ahead of the journal, and each does the steps of its kind with a
\* credential of the journal.
Follows(w) ==
    /\ op[w].a = 0 => op[w] = R!AtEase
    /\ op[w].a # 0 => Begun(op[w].a)
    /\ op[w].a = journal.a => op[w].rev <= journal.rev
    /\ op[w].pc \in {"learn", "try", "boot", "mark"} => op[w].kind = "resume"
    /\ op[w].pc \in {"learn", "try"} => op[w].cred = "candidate"
    /\ op[w].pc \in {"proof", "switch"} => op[w].kind = "commit"
    /\ op[w].pc \in {"probe", "finish"} => op[w].kind = "cancel"
    /\ op[w].pc \in {"check", "idleSent", "rotate", "rotateSent", "prove"} =>
          /\ op[w].kind \in {"resume", "cancel"}
          /\ op[w].cred \in {"bootstrap", "candidate", "disposal"}
    /\ op[w].pc = "rotate" =>
          /\ op[w].cred # "disposal"
          /\ op[w].kind = "resume" => op[w].cred = "bootstrap"
WorkersFollowJournal == \A w \in HubWorkers : Follows(w)

\* The worker with the latest revision finds the resolution it has written, and what
\* it has proved of the machine still holds.
InForce(w) == Latest(w) =>
    /\ op[w].kind = "resume" => journal.res = "none"
    /\ op[w].kind = "commit" => journal.res = "committing" /\ journal.phase = "prepared"
    /\ op[w].kind = "cancel" => journal.res = "cancelling"
    /\ op[w].pc = "switch" =>
          machine[op[w].a] = [token |-> "candidate", running |-> FALSE, used |-> FALSE]
    /\ op[w].pc = "finish" =>
          machine[op[w].a].token = "disposal" /\ ~machine[op[w].a].running
LatestIsInForce == \A w \in HubWorkers : InForce(w)

\* A rotation to the candidate is accepted by an unused machine only, and one to the
\* disposal token only by a machine whose attempt is being discarded.
Journaled(m) ==
    /\ Begun(m.a)
    /\ m.do = "rotate" =>
          /\ m.cred \in {"bootstrap", "candidate"} /\ m.new \in {"candidate", "disposal"}
          /\ m.new = "candidate" => m.cred = "bootstrap"
          /\ m.new = "disposal" =>
                \/ journal.a = m.a /\ journal.res = "cancelling"
                \/ history[m.a] = "cancelled"
RotationsAreJournaled == \A m \in net : Journaled(m)

TakeoverInv ==
    /\ R!ReplacementTypeOK /\ RowsAgree /\ WorkersFollowJournal
    /\ LatestIsInForce /\ RotationsAreJournaled
    /\ R!HubHoldsToken /\ R!DiscardedIsRevoked

-----------------------------------------------------------------------------
(* Replacement: the rows and how a step changes them *)

\* The steps of a worker, and the rows of R!ReplacementTypeOK.
Steps == {"idle", "learn", "try", "boot", "probe", "rotate", "rotateSent", "prove",
          "check", "idleSent", "mark", "proof", "switch", "finish"}
WorkerRow == [a : Attempts \union {0}, kind : {"none", "resume", "commit", "cancel"},
              pc : Steps, rev : Nat, cred : R!Tokens \union {"none"}]
JournalRow == [a : Attempts \union {0}, phase : {"none", "pending", "rotating", "prepared"},
               res : {"none", "committing", "cancelling"}, rev : Nat, src : Nat,
               learned : BOOLEAN]
RequestRow == [a : Attempts, do : {"rotate", "idle"}, cred : R!Tokens,
               new : R!Tokens \union {"none"}, by : HubWorkers, rev : Nat]
MachineRow == [token : R!Tokens, running : BOOLEAN, used : BOOLEAN]

\* The worker goes on to pc with credential cred; every other field and worker stays.
Moved(w, pc, cred) ==
    /\ op' \in [HubWorkers -> WorkerRow]
    /\ op'[w].a = op[w].a /\ op'[w].kind = op[w].kind /\ op'[w].rev = op[w].rev
    /\ op'[w].pc = pc /\ op'[w].cred = cred
    /\ \A v \in HubWorkers : v # w => op'[v] = op[v]

\* A worker that starts, or comes to rest, gets a new row; the others keep theirs.
Placed(w, row) ==
    /\ op' \in [HubWorkers -> WorkerRow]
    /\ op'[w] = row
    /\ \A v \in HubWorkers : v # w => op'[v] = op[v]

\* The steps and tokens by name.
LEMMA StepNames ==
    /\ {"try", "check", "boot", "rotate", "rotateSent", "finish", "idleSent", "mark", "switch",
        "prove"} \subseteq Steps
    /\ {"bootstrap", "candidate", "disposal"} \subseteq R!Tokens
BY DEF Steps, R!Tokens

\* Going on to a step changes the step only.
LEMMA ToMoves ==
    ASSUME R!ReplacementTypeOK, NEW w \in HubWorkers, NEW pc \in Steps, R!To(w, pc)
    PROVE  Moved(w, pc, op[w].cred)
BY DEF R!ReplacementTypeOK, R!To, Moved, WorkerRow, Steps

\* Going on with the credential that has just been proved.
LEMMA CredMoves ==
    ASSUME R!ReplacementTypeOK, NEW w \in HubWorkers, NEW pc \in Steps, NEW cred \in R!Tokens,
           op' = [op EXCEPT ![w].pc = pc, ![w].cred = cred]
    PROVE  Moved(w, pc, cred)
<1> DEFINE mid == [op EXCEPT ![w].pc = pc]
<1>1. /\ mid \in [HubWorkers -> WorkerRow]
      /\ mid[w].a = op[w].a /\ mid[w].kind = op[w].kind /\ mid[w].rev = op[w].rev
      /\ mid[w].pc = pc /\ \A v \in HubWorkers : v # w => mid[v] = op[v]
  BY DEF R!ReplacementTypeOK, WorkerRow, Steps
<1>2. op' = [mid EXCEPT ![w].cred = cred]
  OBVIOUS
<1> HIDE DEF mid
<1>3. op' \in [HubWorkers -> WorkerRow]
  <2>1. mid[w] \in WorkerRow
    BY <1>1
  <2>2. [mid[w] EXCEPT !.cred = cred] \in WorkerRow
    BY <2>1 DEF WorkerRow
  <2>3. op' = [mid EXCEPT ![w] = [mid[w] EXCEPT !.cred = cred]]
    BY <1>2
  <2> QED BY <1>1, <2>2, <2>3
<1>4. /\ op'[w].a = mid[w].a /\ op'[w].kind = mid[w].kind /\ op'[w].rev = mid[w].rev
      /\ op'[w].pc = mid[w].pc /\ op'[w].cred = cred
      /\ \A v \in HubWorkers : v # w => op'[v] = mid[v]
  BY <1>1, <1>2 DEF WorkerRow
<1> QED BY <1>1, <1>3, <1>4 DEF Moved

\* A new row for one worker.
LEMMA RowPlaced ==
    ASSUME R!ReplacementTypeOK, NEW w \in HubWorkers, NEW row \in WorkerRow,
           op' = [op EXCEPT ![w] = row]
    PROVE  Placed(w, row)
BY DEF R!ReplacementTypeOK, Placed, WorkerRow, Steps

\* The row of a worker at rest is a row.
LEMMA AtEaseRow == R!AtEase \in WorkerRow
BY DEF R!AtEase, WorkerRow, Steps, R!Tokens

\* So is the row without an attempt.
LEMMA NoJournalRow == R!NoJournal \in JournalRow
BY DEF R!NoJournal, JournalRow

\* An answer moves the worker that asked, if it still waits for it, or nobody.
LEMMA AnswerMoves ==
    ASSUME R!ReplacementTypeOK, NEW m \in net, NEW pc, NEW next \in Steps, R!Answered(m, pc, next)
    PROVE  /\ net' = net \ {m} /\ UNCHANGED <<bind, journal, history>>
           /\ \/ /\ op[m.by].pc = pc /\ op[m.by].a = m.a /\ op[m.by].rev = m.rev
                 /\ m.by \in HubWorkers /\ Moved(m.by, next, op[m.by].cred)
              \/ op' = op
<1>1. m.by \in HubWorkers
  BY DEF R!ReplacementTypeOK
<1> QED BY <1>1, ToMoves DEF R!Answered

\* A request that is sent.
LEMMA PostSent ==
    ASSUME R!ReplacementTypeOK, NEW w \in HubWorkers, op[w].a \in Attempts,
           NEW do \in {"rotate", "idle"}, NEW cred \in R!Tokens,
           NEW new \in R!Tokens \union {"none"}, R!Post(w, do, cred, new)
    PROVE  /\ net' \subseteq RequestRow
           /\ net' = net \union {[a |-> op[w].a, do |-> do, cred |-> cred, new |-> new,
                                  by |-> w, rev |-> op[w].rev]}
BY DEF R!ReplacementTypeOK, R!Post, RequestRow

\* An accepted rotation changes one token.
LEMMA TokenRotates ==
    ASSUME R!ReplacementTypeOK, NEW m \in net, m.new # "none", R!AgentRotate(m)
    PROVE  /\ machine' \in [Attempts -> MachineRow] /\ m.a \in Attempts
           /\ machine'[m.a].token = m.new
           /\ machine'[m.a].running = machine[m.a].running /\ ~machine'[m.a].used
           /\ \A a \in Attempts : a # m.a => machine'[a] = machine[a]
<1>1. m.a \in Attempts /\ m.new \in R!Tokens
  BY DEF R!ReplacementTypeOK
<1> QED BY <1>1 DEF R!ReplacementTypeOK, R!AgentRotate, MachineRow

\* An accepted stop changes one machine.
LEMMA CoreStops ==
    ASSUME R!ReplacementTypeOK, NEW m \in net, R!AgentIdle(m)
    PROVE  /\ machine' \in [Attempts -> MachineRow] /\ m.a \in Attempts
           /\ machine'[m.a].token = machine[m.a].token
           /\ ~machine'[m.a].running /\ ~machine'[m.a].used
           /\ \A a \in Attempts : a # m.a => machine'[a] = machine[a]
<1>1. m.a \in Attempts
  BY DEF R!ReplacementTypeOK
<1>2. machine \in [Attempts -> MachineRow] /\ machine[m.a] \in MachineRow
  BY <1>1 DEF R!ReplacementTypeOK, MachineRow
<1>3. machine' = [machine EXCEPT ![m.a] = [machine[m.a] EXCEPT !.running = FALSE]]
  BY DEF R!AgentIdle
<1>4. machine'[m.a] = [machine[m.a] EXCEPT !.running = FALSE]
  BY <1>1, <1>2, <1>3
<1>5. [machine[m.a] EXCEPT !.running = FALSE] \in MachineRow
  BY <1>2 DEF MachineRow
<1>6. /\ machine'[m.a].token = machine[m.a].token /\ ~machine'[m.a].running
      /\ machine'[m.a].used = machine[m.a].used
  BY <1>2, <1>4 DEF MachineRow
<1>7. machine' \in [Attempts -> MachineRow]
  BY <1>1, <1>2, <1>3, <1>5
<1>8. \A a \in Attempts : a # m.a => machine'[a] = machine[a]
  BY <1>2, <1>3
<1>9. ~machine[m.a].used
  BY DEF R!AgentIdle
<1> QED BY <1>1, <1>6, <1>7, <1>8, <1>9

\* A machine that is put to use, or that another Hub takes.
LEMMA MachineServes ==
    ASSUME R!ReplacementTypeOK, NEW a \in Attempts, R!PutToUse(a) \/ R!TakenElsewhere(a)
    PROVE  /\ machine' \in [Attempts -> MachineRow]
           /\ machine'[a].running /\ machine'[a].used
           /\ R!PutToUse(a) => machine'[a].token = machine[a].token
           /\ ~R!PutToUse(a) => machine'[a].token = "foreign"
           /\ \A b \in Attempts : b # a => machine'[b] = machine[b]
<1>1. machine \in [Attempts -> MachineRow] /\ machine[a] \in MachineRow
  BY DEF R!ReplacementTypeOK, MachineRow
<1>2. CASE R!PutToUse(a)
  <2> DEFINE mid == [machine EXCEPT ![a].used = TRUE]
  <2>1. /\ mid \in [Attempts -> MachineRow] /\ mid[a].token = machine[a].token
        /\ mid[a].used /\ \A b \in Attempts : b # a => mid[b] = machine[b]
    BY <1>1 DEF MachineRow
  <2>2. machine' = [mid EXCEPT ![a].running = TRUE]
    BY <1>2 DEF R!PutToUse
  <2> HIDE DEF mid
  <2>3. /\ machine' \in [Attempts -> MachineRow] /\ machine'[a].token = mid[a].token
        /\ machine'[a].running /\ machine'[a].used = mid[a].used
        /\ \A b \in Attempts : b # a => machine'[b] = mid[b]
    BY <2>1, <2>2 DEF MachineRow
  <2> QED BY <1>2, <2>1, <2>3
<1>3. CASE ~R!PutToUse(a) /\ R!TakenElsewhere(a)
  <2>1. machine' = [machine EXCEPT ![a] = [token |-> "foreign", running |-> TRUE,
                                           used |-> TRUE]]
    BY <1>3 DEF R!TakenElsewhere
  <2> QED BY <1>1, <1>3, <2>1 DEF MachineRow, R!Tokens
<1> QED BY <1>2, <1>3

\* R!ReplacementTypeOK in terms of the rows.
Typed ==
    /\ bind \in [gen : Nat \ {0}, at : Attempts \union {0}]
    /\ journal \in JournalRow
    /\ history \in [Attempts -> {"none", "committed", "cancelled"}]
    /\ machine \in [Attempts -> MachineRow]
    /\ net \subseteq RequestRow
    /\ op \in [HubWorkers -> WorkerRow]

\* It says the same.
LEMMA TypedFolds == (R!ReplacementTypeOK <=> Typed) /\ (R!ReplacementTypeOK' <=> Typed')
BY DEF R!ReplacementTypeOK, Typed, JournalRow, MachineRow, RequestRow, WorkerRow, Steps

\* Every step keeps the types.
LEMMA TakeoverTypes == TakeoverInv /\ [R!ReplacementNext]_rVars => R!ReplacementTypeOK'
<1> SUFFICES ASSUME TakeoverInv, [R!ReplacementNext]_rVars PROVE Typed'
  BY TypedFolds
<1> USE TypedFolds DEF Typed
<1>0. R!ReplacementTypeOK /\ WorkersFollowJournal /\ RotationsAreJournaled
  BY DEF TakeoverInv
<1>1. ASSUME NEW a \in Attempts, R!BeginReplacement(a) \/ R!TakenElsewhere(a) \/ R!PutToUse(a)
      PROVE  Typed'
  <2>1. CASE R!BeginReplacement(a)
    BY <1>0, <2>1 DEF R!BeginReplacement, R!NoJournal, JournalRow
  <2>2. CASE R!TakenElsewhere(a) \/ R!PutToUse(a)
    BY <1>0, <2>2, MachineServes DEF R!TakenElsewhere, R!PutToUse
  <2> QED BY <1>1, <2>1, <2>2
<1>2. ASSUME NEW w \in HubWorkers,
             R!Resume(w) \/ R!Commit(w) \/ R!Cancel(w)
      PROVE  Typed'
  <2>1. PICK kind \in {"resume", "commit", "cancel"}, pc \in Steps, new \in JournalRow :
            new.rev = journal.rev /\ R!Start(w, kind, pc, new)
    <3>1. CASE R!Resume(w)
      BY <1>0, <3>1 DEF R!Resume, Steps
    <3>2. CASE R!Commit(w)
      <4>1. [journal EXCEPT !.res = "committing"] \in JournalRow
        BY <1>0 DEF JournalRow
      <4>2. [journal EXCEPT !.res = "committing"].rev = journal.rev
        BY <1>0 DEF JournalRow
      <4> QED BY <3>2, <4>1, <4>2 DEF R!Commit, Steps
    <3>3. CASE R!Cancel(w)
      <4>1. [journal EXCEPT !.res = "cancelling"] \in JournalRow
        BY <1>0 DEF JournalRow
      <4>2. [journal EXCEPT !.res = "cancelling"].rev = journal.rev
        BY <1>0 DEF JournalRow
      <4> QED BY <3>3, <4>1, <4>2 DEF R!Cancel, Steps
    <3> QED BY <1>2, <3>1, <3>2, <3>3
  <2>2. journal' \in JournalRow
    BY <1>0, <2>1 DEF R!Start, JournalRow
  <2>3. op' \in [HubWorkers -> WorkerRow]
    <3> DEFINE row == [a |-> journal.a, kind |-> kind, pc |-> pc, rev |-> journal.rev + 1,
                       cred |-> "candidate"]
    <3>1. row \in WorkerRow
      BY <1>0, <2>1 DEF JournalRow, WorkerRow, R!Tokens
    <3>2. op' = [op EXCEPT ![w] = row]
      BY <2>1 DEF R!Start
    <3> HIDE DEF row
    <3> QED BY <1>0, <3>1, <3>2
  <2> QED BY <1>0, <2>1, <2>2, <2>3 DEF R!Start
<1>3. ASSUME NEW w \in HubWorkers, R!Learn(w) \/ R!Bootstrap(w) \/ R!ProbeForDisposal(w) \/ R!Prepared(w)
      PROVE  Typed'
  <2>1. journal' \in JournalRow
    BY <1>0, <1>3 DEF R!Learn, R!Bootstrap, R!ProbeForDisposal, R!Prepared, JournalRow
  <2>2. op' \in [HubWorkers -> WorkerRow]
    <3>1. CASE R!Learn(w)
      BY <1>0, <3>1, ToMoves, StepNames DEF R!Learn, Moved
    <3>2. CASE R!Bootstrap(w)
      BY <1>0, <3>2, CredMoves, StepNames DEF R!Bootstrap, Moved
    <3>3. CASE R!ProbeForDisposal(w)
      <4>1. PICK cred \in {"disposal", "candidate", "bootstrap"} :
                op' = [op EXCEPT ![w].pc = "check", ![w].cred = cred]
        BY <3>3 DEF R!ProbeForDisposal
      <4> QED BY <1>0, <4>1, CredMoves, StepNames DEF Moved
    <3>4. CASE R!Prepared(w)
      BY <1>0, <3>4, RowPlaced, AtEaseRow DEF R!Prepared, Placed
    <3> QED BY <1>3, <3>1, <3>2, <3>3, <3>4
  <2> QED BY <1>0, <1>3, <2>1, <2>2 DEF R!Learn, R!Bootstrap, R!ProbeForDisposal, R!Prepared
<1>4. ASSUME NEW w \in HubWorkers,
             R!TryCandidate(w) \/ R!RotateProve(w) \/ R!CommitProof(w) \/ R!GiveUp(w)
      PROVE  Typed'
  <2>1. op' \in [HubWorkers -> WorkerRow]
    <3>1. CASE R!TryCandidate(w) \/ R!CommitProof(w)
      BY <1>0, <3>1, ToMoves, StepNames DEF R!TryCandidate, R!CommitProof, Moved
    <3>2. CASE R!RotateProve(w)
      BY <1>0, <3>2, CredMoves, StepNames DEF R!RotateProve, Moved
    <3>3. CASE R!GiveUp(w)
      BY <1>0, <3>3, RowPlaced, AtEaseRow DEF R!GiveUp, Placed
    <3> QED BY <1>4, <3>1, <3>2, <3>3
  <2> QED BY <1>0, <1>4, <2>1 DEF R!TryCandidate, R!RotateProve, R!CommitProof, R!GiveUp
<1>5. ASSUME NEW w \in HubWorkers, R!RotateSend(w) \/ R!IdleCheck(w) PROVE Typed'
  <2>1. op[w].a \in Attempts /\ op[w].cred \in R!Tokens
    BY <1>0, <1>5 DEF R!RotateSend, R!IdleCheck, WorkersFollowJournal, Follows, R!AtEase, WorkerRow, R!Tokens
  <2>2. op' \in [HubWorkers -> WorkerRow]
    BY <1>0, <1>5, ToMoves DEF R!RotateSend, R!IdleCheck, Moved, Steps
  <2>3. net' \subseteq RequestRow
    <3>1. CASE R!RotateSend(w)
      BY <1>0, <2>1, <3>1, PostSent DEF R!RotateSend, R!Tokens
    <3>2. CASE R!IdleCheck(w)
      BY <1>0, <2>1, <3>2, PostSent DEF R!IdleCheck
    <3> QED BY <1>5, <3>1, <3>2
  <2> QED BY <1>0, <1>5, <2>2, <2>3 DEF R!RotateSend, R!IdleCheck
<1>6. ASSUME NEW w \in HubWorkers, R!SwitchBinding(w) \/ R!Discard(w) PROVE Typed'
  <2>1. op' \in [HubWorkers -> WorkerRow]
    BY <1>0, <1>6, RowPlaced, AtEaseRow DEF R!SwitchBinding, R!Discard, R!Resolved, Placed
  <2>2. journal' \in JournalRow
    BY <1>6, NoJournalRow DEF R!SwitchBinding, R!Discard, R!Resolved
  <2>3. history' \in [Attempts -> {"none", "committed", "cancelled"}] /\ UNCHANGED <<machine, net>>
    BY <1>0, <1>6 DEF R!SwitchBinding, R!Discard, R!Resolved
  <2>4. bind' \in [gen : Nat \ {0}, at : Attempts \union {0}]
    <3>1. op[w].a \in Attempts \union {0}
      BY <1>0 DEF WorkerRow
    <3> QED BY <1>0, <1>6, <3>1 DEF R!SwitchBinding, R!Discard
  <2> QED BY <1>0, <2>1, <2>2, <2>3, <2>4
<1>7. ASSUME NEW m \in net, R!AgentRotate(m) \/ R!AgentIdle(m) \/ R!RequestLost(m) PROVE Typed'
  <2>1. CASE R!AgentRotate(m)
    <3>1. m.new # "none"
      BY <1>0, <2>1 DEF R!AgentRotate, RotationsAreJournaled, Journaled
    <3> QED BY <1>0, <2>1, <3>1, TokenRotates, AnswerMoves DEF R!AgentRotate, Moved, Steps
  <2>2. CASE R!AgentIdle(m)
    BY <1>0, <2>2, CoreStops, AnswerMoves DEF R!AgentIdle, Moved, Steps
  <2>3. CASE R!RequestLost(m)
    BY <1>0, <2>3 DEF R!RequestLost
  <2> QED BY <1>7, <2>1, <2>2, <2>3
<1>8. CASE UNCHANGED rVars
  BY <1>0, <1>8 DEF rVars
<1> QED BY <1>1, <1>2, <1>3, <1>4, <1>5, <1>6, <1>7, <1>8 DEF R!ReplacementNext

\* A worker on its way goes on from the step it has reached.
LEMMA WorkersGoOn ==
    ASSUME R!ReplacementTypeOK, WorkersFollowJournal, NEW w \in HubWorkers
    PROVE
      /\ R!Learn(w) => op[w].pc = "learn" /\ Moved(w, "try", op[w].cred)
      /\ R!TryCandidate(w) => op[w].pc = "try" /\ (Moved(w, "check", op[w].cred) \/ Moved(w, "boot", op[w].cred))
      /\ R!Bootstrap(w) => op[w].pc = "boot" /\ Moved(w, "rotate", "bootstrap")
      /\ R!ProbeForDisposal(w) => op[w].pc = "probe" /\ (\E cred \in {"disposal", "candidate", "bootstrap"} : Moved(w, "check", cred))
      /\ R!RotateSend(w) => op[w].pc = "rotate" /\ Moved(w, "rotateSent", op[w].cred)
      /\ R!RotateProve(w) => op[w].pc = "prove" /\ (IF op[w].kind = "cancel" THEN Moved(w, "finish", "disposal")
                                ELSE Moved(w, "check", "candidate"))
      /\ R!IdleCheck(w) =>
        /\ op[w].pc = "check"
        /\ \/ Moved(w, "idleSent", op[w].cred)
           \/ op[w].kind = "resume" /\ Moved(w, "mark", op[w].cred)
           \/ op[w].kind = "cancel" /\ op[w].cred = "disposal" /\ Moved(w, "finish", op[w].cred)
           \/ op[w].kind = "cancel" /\ op[w].cred # "disposal" /\ Moved(w, "rotate", op[w].cred)
      /\ R!CommitProof(w) => op[w].pc = "proof" /\ Moved(w, "switch", op[w].cred)
<1>1. ASSUME R!Learn(w)
      PROVE  /\ op[w].pc = "learn"
             /\ Moved(w, "try", op[w].cred)
  BY <1>1, ToMoves, StepNames DEF R!Learn
<1>2. ASSUME R!TryCandidate(w)
      PROVE  /\ op[w].pc = "try"
             /\ Moved(w, "check", op[w].cred) \/ Moved(w, "boot", op[w].cred)
  BY <1>2, ToMoves, StepNames DEF R!TryCandidate
<1>3. ASSUME R!Bootstrap(w)
      PROVE  /\ op[w].pc = "boot"
             /\ Moved(w, "rotate", "bootstrap")
  BY <1>3, CredMoves, StepNames DEF R!Bootstrap
<1>4. ASSUME R!ProbeForDisposal(w)
      PROVE  /\ op[w].pc = "probe"
             /\ \E cred \in {"disposal", "candidate", "bootstrap"} : Moved(w, "check", cred)
  BY <1>4, CredMoves, StepNames DEF R!ProbeForDisposal
<1>5. ASSUME R!RotateSend(w)
      PROVE  /\ op[w].pc = "rotate"
             /\ Moved(w, "rotateSent", op[w].cred)
  BY <1>5, ToMoves, StepNames DEF R!RotateSend
<1>6. ASSUME R!RotateProve(w)
      PROVE  /\ op[w].pc = "prove"
             /\ IF op[w].kind = "cancel" THEN Moved(w, "finish", "disposal")
                                  ELSE Moved(w, "check", "candidate")
  BY <1>6, CredMoves, StepNames DEF R!RotateProve
<1>7. ASSUME R!IdleCheck(w)
      PROVE  /\ op[w].pc = "check"
             /\ \/ Moved(w, "idleSent", op[w].cred)
                \/ op[w].kind = "resume" /\ Moved(w, "mark", op[w].cred)
                \/ op[w].kind = "cancel" /\ op[w].cred = "disposal" /\ Moved(w, "finish", op[w].cred)
                \/ op[w].kind = "cancel" /\ op[w].cred # "disposal" /\ Moved(w, "rotate", op[w].cred)
  <2>1. op[w].pc = "check" /\ op[w].kind \in {"resume", "cancel"}
    BY <1>7 DEF R!IdleCheck, WorkersFollowJournal, Follows
  <2>2. \/ R!To(w, "idleSent")
        \/ op[w].kind = "resume" /\ R!To(w, "mark")
        \/ op[w].kind = "cancel" /\ op[w].cred = "disposal" /\ R!To(w, "finish")
        \/ op[w].kind = "cancel" /\ op[w].cred # "disposal" /\ R!To(w, "rotate")
    <3>1. CASE machine[op[w].a].running
      BY <1>7, <3>1 DEF R!IdleCheck
    <3>2. CASE ~machine[op[w].a].running /\ op[w].kind = "resume"
      BY <1>7, <3>2 DEF R!IdleCheck
    <3>3. CASE ~machine[op[w].a].running /\ op[w].kind = "cancel" /\ op[w].cred = "disposal"
      BY <1>7, <3>3 DEF R!IdleCheck
    <3>4. CASE ~machine[op[w].a].running /\ op[w].kind = "cancel" /\ op[w].cred # "disposal"
      BY <1>7, <3>4 DEF R!IdleCheck
    <3> QED BY <2>1, <3>1, <3>2, <3>3, <3>4
  <2> QED BY <2>1, <2>2, ToMoves DEF Steps
<1>8. ASSUME R!CommitProof(w)
      PROVE  /\ op[w].pc = "proof"
             /\ Moved(w, "switch", op[w].cred)
  <2>1. op[w].pc = "proof" /\ R!To(w, "switch")
    BY <1>8 DEF R!CommitProof
  <2> QED BY <2>1, ToMoves DEF Steps
<1> QED BY <1>1, <1>2, <1>3, <1>4, <1>5, <1>6, <1>7, <1>8

\* Every step keeps the workers behind the journal.
LEMMA WorkersKept == TakeoverInv /\ [R!ReplacementNext]_rVars => WorkersFollowJournal'
<1> SUFFICES ASSUME TakeoverInv, [R!ReplacementNext]_rVars, NEW v \in HubWorkers
             PROVE  Follows(v)'
  BY DEF WorkersFollowJournal
<1>0. R!ReplacementTypeOK /\ Typed /\ WorkersFollowJournal /\ op[v] \in WorkerRow /\ Follows(v)
  BY TypedFolds DEF TakeoverInv, Typed, WorkersFollowJournal
<1>1. ASSUME NEW w \in HubWorkers, R!Resume(w) PROVE Follows(v)'
  BY <1>0, <1>1, LifecycleAssumption DEF Typed, JournalRow, WorkerRow, Follows, Begun, R!Resume, R!Start
<1>2. ASSUME NEW w \in HubWorkers, R!Commit(w) PROVE Follows(v)'
  BY <1>0, <1>2, LifecycleAssumption DEF Typed, JournalRow, WorkerRow, Follows, Begun, R!Commit, R!Start
<1>3. ASSUME NEW w \in HubWorkers, R!Cancel(w) PROVE Follows(v)'
  BY <1>0, <1>3, LifecycleAssumption DEF Typed, JournalRow, WorkerRow, Follows, Begun, R!Cancel, R!Start
<1>4. ASSUME NEW w \in HubWorkers, R!Learn(w) PROVE Follows(v)'
  <2>1. UNCHANGED <<history>> /\ journal'.a = journal.a /\ journal'.rev = journal.rev
    BY <1>0, <1>4 DEF R!Learn, Typed, JournalRow
  <2>2. CASE v # w
    <3>1. op'[v] = op[v]
      BY <1>0, <1>4, <2>2, WorkersGoOn DEF Moved
    <3> QED BY <1>0, <2>1, <3>1 DEF Follows, Begun
  <2>3. CASE v = w
    BY <1>0, <1>4, <2>1, <2>3, WorkersGoOn DEF Moved, Follows, Begun, WorkerRow, R!AtEase
  <2> QED BY <2>2, <2>3
<1>5. ASSUME NEW w \in HubWorkers, R!TryCandidate(w) PROVE Follows(v)'
  <2>1. UNCHANGED <<history>> /\ journal'.a = journal.a /\ journal'.rev = journal.rev
    BY <1>0, <1>5 DEF R!TryCandidate, Typed, JournalRow
  <2>2. CASE v # w
    <3>1. op'[v] = op[v]
      BY <1>0, <1>5, <2>2, WorkersGoOn DEF Moved
    <3> QED BY <1>0, <2>1, <3>1 DEF Follows, Begun
  <2>3. CASE v = w
    BY <1>0, <1>5, <2>1, <2>3, WorkersGoOn DEF Moved, Follows, Begun, WorkerRow, R!AtEase
  <2> QED BY <2>2, <2>3
<1>6. ASSUME NEW w \in HubWorkers, R!Bootstrap(w) PROVE Follows(v)'
  <2>1. UNCHANGED <<history>> /\ journal'.a = journal.a /\ journal'.rev = journal.rev
    BY <1>0, <1>6 DEF R!Bootstrap, Typed, JournalRow
  <2>2. CASE v # w
    <3>1. op'[v] = op[v]
      BY <1>0, <1>6, <2>2, WorkersGoOn DEF Moved
    <3> QED BY <1>0, <2>1, <3>1 DEF Follows, Begun
  <2>3. CASE v = w
    BY <1>0, <1>6, <2>1, <2>3, WorkersGoOn DEF Moved, Follows, Begun, WorkerRow, R!AtEase
  <2> QED BY <2>2, <2>3
<1>7. ASSUME NEW w \in HubWorkers, R!ProbeForDisposal(w) PROVE Follows(v)'
  <2>1. UNCHANGED <<history>> /\ journal'.a = journal.a /\ journal'.rev = journal.rev
    BY <1>0, <1>7 DEF R!ProbeForDisposal, Typed, JournalRow
  <2>2. CASE v # w
    <3>1. op'[v] = op[v]
      BY <1>0, <1>7, <2>2, WorkersGoOn DEF Moved
    <3> QED BY <1>0, <2>1, <3>1 DEF Follows, Begun
  <2>3. CASE v = w
    BY <1>0, <1>7, <2>1, <2>3, WorkersGoOn DEF Moved, Follows, Begun, WorkerRow, R!AtEase
  <2> QED BY <2>2, <2>3
<1>8. ASSUME NEW w \in HubWorkers, R!RotateSend(w) PROVE Follows(v)'
  <2>1. UNCHANGED <<history>> /\ journal'.a = journal.a /\ journal'.rev = journal.rev
    BY <1>0, <1>8 DEF R!RotateSend, Typed, JournalRow
  <2>2. CASE v # w
    <3>1. op'[v] = op[v]
      BY <1>0, <1>8, <2>2, WorkersGoOn DEF Moved
    <3> QED BY <1>0, <2>1, <3>1 DEF Follows, Begun
  <2>3. CASE v = w
    BY <1>0, <1>8, <2>1, <2>3, WorkersGoOn DEF Moved, Follows, Begun, WorkerRow, R!AtEase
  <2> QED BY <2>2, <2>3
<1>9. ASSUME NEW w \in HubWorkers, R!RotateProve(w) PROVE Follows(v)'
  <2>1. UNCHANGED <<history>> /\ journal'.a = journal.a /\ journal'.rev = journal.rev
    BY <1>0, <1>9 DEF R!RotateProve, Typed, JournalRow
  <2>2. CASE v # w
    <3>1. op'[v] = op[v]
      BY <1>0, <1>9, <2>2, WorkersGoOn DEF Moved
    <3> QED BY <1>0, <2>1, <3>1 DEF Follows, Begun
  <2>3. CASE v = w
    BY <1>0, <1>9, <2>1, <2>3, WorkersGoOn DEF Moved, Follows, Begun, WorkerRow, R!AtEase
  <2> QED BY <2>2, <2>3
<1>10. ASSUME NEW w \in HubWorkers, R!IdleCheck(w) PROVE Follows(v)'
  <2>1. UNCHANGED <<history>> /\ journal'.a = journal.a /\ journal'.rev = journal.rev
    BY <1>0, <1>10 DEF R!IdleCheck, Typed, JournalRow
  <2>2. CASE v # w
    <3>1. op'[v] = op[v]
      BY <1>0, <1>10, <2>2, WorkersGoOn DEF Moved
    <3> QED BY <1>0, <2>1, <3>1 DEF Follows, Begun
  <2>3. CASE v = w
    BY <1>0, <1>10, <2>1, <2>3, WorkersGoOn DEF Moved, Follows, Begun, WorkerRow, R!AtEase
  <2> QED BY <2>2, <2>3
<1>11. ASSUME NEW w \in HubWorkers, R!Prepared(w) PROVE Follows(v)'
  BY <1>0, <1>11, LifecycleAssumption DEF Typed, JournalRow, WorkerRow, Follows, Begun, R!Prepared, R!Current, R!AtEase
<1>12. ASSUME NEW w \in HubWorkers, R!CommitProof(w) PROVE Follows(v)'
  <2>1. UNCHANGED <<history>> /\ journal'.a = journal.a /\ journal'.rev = journal.rev
    BY <1>0, <1>12 DEF R!CommitProof, Typed, JournalRow
  <2>2. CASE v # w
    <3>1. op'[v] = op[v]
      BY <1>0, <1>12, <2>2, WorkersGoOn DEF Moved
    <3> QED BY <1>0, <2>1, <3>1 DEF Follows, Begun
  <2>3. CASE v = w
    BY <1>0, <1>12, <2>1, <2>3, WorkersGoOn DEF Moved, Follows, Begun, WorkerRow, R!AtEase
  <2> QED BY <2>2, <2>3
<1>13. ASSUME NEW w \in HubWorkers, R!SwitchBinding(w) PROVE Follows(v)'
  BY <1>0, <1>13, LifecycleAssumption DEF Typed, JournalRow, WorkerRow, Follows, Begun, R!SwitchBinding, R!Current, R!Resolved, R!NoJournal, R!AtEase
<1>14. ASSUME NEW w \in HubWorkers, R!Discard(w) PROVE Follows(v)'
  BY <1>0, <1>14, LifecycleAssumption DEF Typed, JournalRow, WorkerRow, Follows, Begun, R!Discard, R!Current, R!Resolved, R!NoJournal, R!AtEase
<1>15. ASSUME NEW w \in HubWorkers, R!GiveUp(w) PROVE Follows(v)'
  BY <1>0, <1>15, LifecycleAssumption DEF Typed, JournalRow, WorkerRow, Follows, Begun, R!GiveUp, R!AtEase
<1>16. ASSUME NEW a \in Attempts, R!BeginReplacement(a) PROVE Follows(v)'
  <2>1. op' = op /\ history' = history /\ journal'.a = a /\ journal'.rev = 0 /\ journal.a = 0
    BY <1>16 DEF R!BeginReplacement, R!NoJournal
  <2>2. op[v].a # a
    BY <1>0, <1>16, <2>1, LifecycleAssumption DEF R!BeginReplacement, Follows, Begun
  <2> QED BY <1>0, <2>1, <2>2 DEF Follows, Begun
<1>17. ASSUME NEW m \in net, R!AgentRotate(m) \/ R!AgentIdle(m) PROVE Follows(v)'
  <2>1. UNCHANGED <<journal, history>>
    BY <1>17 DEF R!AgentRotate, R!AgentIdle, R!Answered
  <2>2. CASE op'[v] = op[v]
    BY <1>0, <2>1, <2>2 DEF Follows, Begun
  <2>3. CASE op'[v] # op[v]
    <3>1. \/ op[v].pc = "rotateSent" /\ Moved(v, "prove", op[v].cred)
          \/ op[v].pc = "idleSent" /\ Moved(v, "check", op[v].cred)
      BY <1>0, <1>17, <2>3, AnswerMoves DEF R!AgentRotate, R!AgentIdle, Moved, Steps
    <3> QED BY <1>0, <2>1, <3>1 DEF Moved, Follows, Begun, WorkerRow, R!AtEase
  <2> QED BY <2>2, <2>3
<1>18. ASSUME \/ \E a \in Attempts : R!TakenElsewhere(a) \/ R!PutToUse(a)
             \/ \E m \in net : R!RequestLost(m)
      PROVE  Follows(v)'
  BY <1>0, <1>18 DEF R!RequestLost, R!TakenElsewhere, R!PutToUse, Follows, Begun
<1>19. CASE UNCHANGED rVars
  BY <1>0, <1>19 DEF rVars, Follows, Begun
<1> QED
  <2>1. CASE \E a \in Attempts : R!BeginReplacement(a) \/ R!TakenElsewhere(a) \/ R!PutToUse(a)
    BY <2>1, <1>16, <1>18
  <2>2. CASE \E m \in net : R!AgentRotate(m) \/ R!AgentIdle(m) \/ R!RequestLost(m)
    BY <2>2, <1>17, <1>18
  <2>3. CASE UNCHANGED rVars
    BY <2>3, <1>19
  <2>4. CASE \E w \in HubWorkers :
          \/ R!Resume(w) \/ R!Commit(w) \/ R!Cancel(w)
          \/ R!Learn(w) \/ R!TryCandidate(w) \/ R!Bootstrap(w) \/ R!ProbeForDisposal(w)
          \/ R!RotateSend(w) \/ R!RotateProve(w) \/ R!IdleCheck(w) \/ R!Prepared(w)
          \/ R!CommitProof(w) \/ R!SwitchBinding(w) \/ R!Discard(w) \/ R!GiveUp(w)
    BY <2>4, <1>1, <1>2, <1>3, <1>4, <1>5, <1>6, <1>7, <1>8, <1>9, <1>10, <1>11, <1>12,
       <1>13, <1>14, <1>15
  <2> QED BY <2>1, <2>2, <2>3, <2>4 DEF R!ReplacementNext

\* Every step keeps what the worker with the latest revision has established.
LEMMA LatestKept == TakeoverInv /\ [R!ReplacementNext]_rVars => LatestIsInForce'
<1> SUFFICES ASSUME TakeoverInv, [R!ReplacementNext]_rVars, NEW v \in HubWorkers
             PROVE  InForce(v)'
  BY DEF LatestIsInForce
<1>0. /\ R!ReplacementTypeOK /\ Typed /\ RowsAgree /\ WorkersFollowJournal
      /\ op[v] \in WorkerRow /\ Follows(v) /\ InForce(v)
  BY TypedFolds DEF TakeoverInv, Typed, WorkersFollowJournal, LatestIsInForce
<1>1. ASSUME NEW w \in HubWorkers, R!Learn(w) PROVE InForce(v)'
  <2>1. /\ machine' = machine /\ journal'.a = journal.a /\ journal'.rev = journal.rev
        /\ journal'.res = journal.res /\ journal'.phase = journal.phase
    BY <1>0, <1>1 DEF R!Learn, Typed, JournalRow
  <2>2. CASE v # w
    <3>1. op'[v] = op[v]
      BY <1>0, <1>1, <2>2, WorkersGoOn DEF Moved
    <3> QED BY <1>0, <2>1, <3>1 DEF InForce, Latest
  <2>3. CASE v = w
    BY <1>0, <1>1, <2>1, <2>3, WorkersGoOn DEF Moved, InForce, Latest
  <2> QED BY <2>2, <2>3
<1>2. ASSUME NEW w \in HubWorkers, R!TryCandidate(w) PROVE InForce(v)'
  <2>1. /\ machine' = machine /\ journal'.a = journal.a /\ journal'.rev = journal.rev
        /\ journal'.res = journal.res /\ journal'.phase = journal.phase
    BY <1>0, <1>2 DEF R!TryCandidate, Typed, JournalRow
  <2>2. CASE v # w
    <3>1. op'[v] = op[v]
      BY <1>0, <1>2, <2>2, WorkersGoOn DEF Moved
    <3> QED BY <1>0, <2>1, <3>1 DEF InForce, Latest
  <2>3. CASE v = w
    BY <1>0, <1>2, <2>1, <2>3, WorkersGoOn DEF Moved, InForce, Latest
  <2> QED BY <2>2, <2>3
<1>3. ASSUME NEW w \in HubWorkers, R!ProbeForDisposal(w) PROVE InForce(v)'
  <2>1. /\ machine' = machine /\ journal'.a = journal.a /\ journal'.rev = journal.rev
        /\ journal'.res = journal.res /\ journal'.phase = journal.phase
    BY <1>0, <1>3 DEF R!ProbeForDisposal, Typed, JournalRow
  <2>2. CASE v # w
    <3>1. op'[v] = op[v]
      BY <1>0, <1>3, <2>2, WorkersGoOn DEF Moved
    <3> QED BY <1>0, <2>1, <3>1 DEF InForce, Latest
  <2>3. CASE v = w
    BY <1>0, <1>3, <2>1, <2>3, WorkersGoOn DEF Moved, InForce, Latest
  <2> QED BY <2>2, <2>3
<1>4. ASSUME NEW w \in HubWorkers, R!RotateSend(w) PROVE InForce(v)'
  <2>1. /\ machine' = machine /\ journal'.a = journal.a /\ journal'.rev = journal.rev
        /\ journal'.res = journal.res /\ journal'.phase = journal.phase
    BY <1>0, <1>4 DEF R!RotateSend, Typed, JournalRow
  <2>2. CASE v # w
    <3>1. op'[v] = op[v]
      BY <1>0, <1>4, <2>2, WorkersGoOn DEF Moved
    <3> QED BY <1>0, <2>1, <3>1 DEF InForce, Latest
  <2>3. CASE v = w
    BY <1>0, <1>4, <2>1, <2>3, WorkersGoOn DEF Moved, InForce, Latest
  <2> QED BY <2>2, <2>3
<1>5. ASSUME NEW w \in HubWorkers, R!RotateProve(w) PROVE InForce(v)'
  <2>1. /\ machine' = machine /\ journal'.a = journal.a /\ journal'.rev = journal.rev
        /\ journal'.res = journal.res /\ journal'.phase = journal.phase
    BY <1>0, <1>5 DEF R!RotateProve, Typed, JournalRow
  <2>4. IF op[w].kind = "cancel" THEN Moved(w, "finish", "disposal")
        ELSE Moved(w, "check", "candidate")
    BY <1>0, <1>5, WorkersGoOn
  <2>2. CASE v # w
    <3>1. op'[v] = op[v]
      BY <2>2, <2>4 DEF Moved
    <3> QED BY <1>0, <2>1, <3>1 DEF InForce, Latest
  <2>3. CASE v = w
    <3>1. op'[w].pc = "finish" => machine[op[w].a].token = "disposal" /\ ~machine[op[w].a].running
      BY <1>0, <1>5, <2>4 DEF Moved, R!RotateProve, R!Proven
    <3>2. op'[w].pc # "switch" /\ op'[w].a = op[w].a /\ op'[w].rev = op[w].rev /\ op'[w].kind = op[w].kind
      BY <1>0, <2>4 DEF Moved
    <3> QED BY <1>0, <2>1, <2>3, <3>1, <3>2 DEF InForce, Latest
  <2> QED BY <2>2, <2>3
<1>6. ASSUME NEW w \in HubWorkers, R!IdleCheck(w) PROVE InForce(v)'
  <2>1. /\ machine' = machine /\ journal'.a = journal.a /\ journal'.rev = journal.rev
        /\ journal'.res = journal.res /\ journal'.phase = journal.phase
    BY <1>0, <1>6 DEF R!IdleCheck, Typed, JournalRow
  <2>2. CASE v # w
    <3>1. op'[v] = op[v]
      BY <1>0, <1>6, <2>2, WorkersGoOn DEF Moved
    <3> QED BY <1>0, <2>1, <3>1 DEF InForce, Latest
  <2>3. CASE v = w
    <3>1. op'[w].pc = "finish" => machine[op[w].a].token = "disposal" /\ ~machine[op[w].a].running
      <4>1. CASE machine[op[w].a].running
        <5>1. R!To(w, "idleSent")
          BY <1>6, <4>1 DEF R!IdleCheck
        <5> QED BY <1>0, <5>1, ToMoves DEF Moved, Steps
      <4>2. CASE ~machine[op[w].a].running
        <5>1. op'[w].pc = "finish" => op[w].cred = "disposal"
          BY <1>0, <1>6, WorkersGoOn DEF Moved
        <5>2. machine[op[w].a].token = op[w].cred
          BY <1>6 DEF R!IdleCheck, R!Proven
        <5> QED BY <4>2, <5>1, <5>2
      <4> QED BY <4>1, <4>2
    <3>2. op'[w].pc # "switch" /\ op'[w].a = op[w].a /\ op'[w].rev = op[w].rev /\ op'[w].kind = op[w].kind
      BY <1>0, <1>6, WorkersGoOn DEF Moved
    <3> QED BY <1>0, <2>1, <2>3, <3>1, <3>2 DEF InForce, Latest
  <2> QED BY <2>2, <2>3
<1>7. ASSUME NEW w \in HubWorkers, R!CommitProof(w) PROVE InForce(v)'
  <2>1. /\ machine' = machine /\ journal'.a = journal.a /\ journal'.rev = journal.rev
        /\ journal'.res = journal.res /\ journal'.phase = journal.phase
    BY <1>0, <1>7 DEF R!CommitProof, Typed, JournalRow
  <2>2. CASE v # w
    <3>1. op'[v] = op[v]
      BY <1>0, <1>7, <2>2, WorkersGoOn DEF Moved
    <3> QED BY <1>0, <2>1, <3>1 DEF InForce, Latest
  <2>3. CASE v = w
    <3>1. Moved(w, "switch", op[w].cred) /\ op[w].kind = "commit"
      BY <1>0, <1>7, <2>3, WorkersGoOn DEF Follows
    <3>2. machine[op[w].a].token = "candidate" /\ ~machine[op[w].a].running /\ ~machine[op[w].a].used
      BY <1>7 DEF R!CommitProof, R!Proven
    <3>3. op[w].a \in Attempts
      BY <1>0, <1>7, <2>3 DEF R!CommitProof, Follows, R!AtEase, WorkerRow
    <3>4. machine[op[w].a] = [token |-> "candidate", running |-> FALSE, used |-> FALSE]
      <4>1. machine[op[w].a] \in MachineRow
        BY <1>0, <3>3 DEF Typed
      <4> QED BY <3>2, <4>1 DEF MachineRow
    <3> QED BY <1>0, <2>1, <2>3, <3>1, <3>4 DEF Moved, InForce, Latest
  <2> QED BY <2>2, <2>3
<1>8. ASSUME NEW w \in HubWorkers, R!Bootstrap(w) PROVE InForce(v)'
  <2>1. /\ machine' = machine /\ journal'.a = journal.a /\ journal'.rev = journal.rev
        /\ journal'.res = journal.res
    BY <1>0, <1>8 DEF R!Bootstrap, Typed, JournalRow
  <2>2. op[w].kind = "resume" /\ journal.res = "none"
    BY <1>8 DEF R!Bootstrap, R!Proven, R!Current, TakeoverInv, WorkersFollowJournal, Follows, LatestIsInForce,
       InForce, Latest
  <2>3. CASE v # w
    <3>1. op'[v] = op[v]
      BY <1>0, <1>8, <2>3, WorkersGoOn DEF Moved
    <3> QED BY <1>0, <2>1, <2>2, <3>1 DEF InForce, Latest
  <2>4. CASE v = w
    BY <1>0, <1>8, <2>1, <2>2, <2>4, WorkersGoOn DEF Moved, InForce, Latest
  <2> QED BY <2>3, <2>4
<1>9. ASSUME NEW w \in HubWorkers, R!Resume(w) \/ R!Commit(w) \/ R!Cancel(w) PROVE InForce(v)'
  <2>1. journal'.a = journal.a /\ journal'.rev = journal.rev + 1 /\ journal.rev \in Nat
    BY <1>0, <1>9 DEF R!Resume, R!Commit, R!Cancel, R!Start, Typed, JournalRow
  <2>2. CASE v # w
    <3>1. op'[v] = op[v] /\ op[v].rev \in Nat
      BY <1>0, <1>9, <2>2 DEF R!Resume, R!Commit, R!Cancel, R!Start, Typed, WorkerRow
    <3> QED BY <1>0, <2>1, <3>1 DEF Follows, InForce, Latest
  <2>3. CASE v = w
    <3>1. CASE R!Resume(w)
      BY <1>0, <2>1, <2>3, <3>1 DEF R!Resume, R!Start, Typed, JournalRow, InForce
    <3>2. CASE R!Commit(w)
      BY <1>0, <2>1, <2>3, <3>2 DEF R!Commit, R!Start, Typed, JournalRow, InForce
    <3>3. CASE R!Cancel(w)
      BY <1>0, <2>1, <2>3, <3>3 DEF R!Cancel, R!Start, Typed, JournalRow, InForce
    <3> QED BY <1>9, <3>1, <3>2, <3>3
  <2> QED BY <2>2, <2>3
<1>10. ASSUME NEW w \in HubWorkers, R!Prepared(w) \/ R!GiveUp(w) PROVE InForce(v)'
  <2>1. /\ machine' = machine /\ journal'.a = journal.a /\ journal'.rev = journal.rev
        /\ journal'.res = journal.res /\ journal'.phase \in {journal.phase, "prepared"}
    BY <1>0, <1>10 DEF R!Prepared, R!GiveUp, Typed, JournalRow
  <2>2. op'[v] = R!AtEase \/ op'[v] = op[v]
    BY <1>0, <1>10 DEF R!Prepared, R!GiveUp, Typed
  <2> QED BY <1>0, <2>1, <2>2 DEF InForce, Latest, R!AtEase
<1>11. ASSUME NEW w \in HubWorkers, R!SwitchBinding(w) \/ R!Discard(w) PROVE InForce(v)'
  <2>1. journal' = R!NoJournal /\ (op'[v] = R!AtEase \/ op'[v] = op[v])
    BY <1>0, <1>11 DEF R!SwitchBinding, R!Discard, R!Resolved, Typed
  <2> QED BY <1>0, <2>1 DEF Follows, InForce, Latest, R!AtEase, R!NoJournal
<1>12. ASSUME NEW a \in Attempts, R!BeginReplacement(a) PROVE InForce(v)'
  <2>1. op' = op /\ history[a] = "none" /\ journal'.a = a /\ journal.a = 0
    BY <1>12 DEF R!BeginReplacement, R!NoJournal
  <2>2. op[v].a # a
    BY <1>0, <2>1, LifecycleAssumption DEF Follows, Begun
  <2> QED BY <2>1, <2>2 DEF InForce, Latest
<1>13. ASSUME NEW a \in Attempts, R!TakenElsewhere(a) \/ R!PutToUse(a) PROVE InForce(v)'
  <2>1. UNCHANGED <<op, journal>>
    BY <1>13 DEF R!TakenElsewhere, R!PutToUse
  <2>2. CASE op[v].a # a
    <3>1. op[v].a \in Attempts => machine'[op[v].a] = machine[op[v].a]
      BY <1>0, <1>13, <2>2, MachineServes
    <3>2. op[v].a \notin Attempts => op[v] = R!AtEase
      BY <1>0 DEF Follows, WorkerRow
    <3> QED BY <1>0, <2>1, <3>1, <3>2 DEF InForce, Latest, R!AtEase
  <2>3. CASE op[v].a = a /\ Latest(v)
    <3>1. journal.a = a /\ journal.a # 0 /\ history[a] = "none"
      BY <1>0, <2>3, LifecycleAssumption DEF Latest, RowsAgree
    <3>2. R!TakenElsewhere(a) /\ machine[a].token = "bootstrap"
      BY <1>0, <1>13, <3>1 DEF RowsAgree, R!PutToUse, R!TakenElsewhere
    <3> QED BY <1>0, <2>1, <2>3, <3>2 DEF InForce, Latest
  <2> QED BY <2>1, <2>2, <2>3 DEF InForce, Latest
<1>14. ASSUME NEW m \in net, R!AgentRotate(m) \/ R!AgentIdle(m) PROVE InForce(v)'
  <2>1. /\ UNCHANGED journal
        /\ op'[v].a = op[v].a /\ op'[v].rev = op[v].rev /\ op'[v].kind = op[v].kind
        /\ op'[v].pc = op[v].pc \/ op'[v].pc \in {"prove", "check"}
    BY <1>0, <1>14, AnswerMoves DEF R!AgentRotate, R!AgentIdle, Moved, Steps
  <2>2. CASE R!AgentIdle(m)
    <3>1. op[v].a \in Attempts =>
             /\ machine'[op[v].a].token = machine[op[v].a].token
             /\ ~machine[op[v].a].running => machine'[op[v].a] = machine[op[v].a]
      <4>1. machine[m.a] \in MachineRow /\ machine'[m.a] \in MachineRow /\ ~machine[m.a].used
        BY <1>0, <2>2, CoreStops DEF R!AgentIdle, Typed
      <4>2. ~machine[m.a].running => machine'[m.a] = machine[m.a]
        BY <1>0, <2>2, <4>1, CoreStops DEF MachineRow
      <4> QED BY <1>0, <2>2, <4>2, CoreStops
    <3>2. op[v].a \notin Attempts => op[v] = R!AtEase
      BY <1>0 DEF Follows, WorkerRow
    <3> QED BY <1>0, <2>1, <3>1, <3>2 DEF InForce, Latest, R!AtEase
  <2>3. CASE R!AgentRotate(m)
    <3>1. /\ m.cred \in {"bootstrap", "candidate"} /\ m.new # "none"
          /\ m.cred = "candidate" => m.new = "disposal"
          /\ m.new = "disposal" =>
                (journal.a = m.a /\ journal.res = "cancelling") \/ history[m.a] = "cancelled"
      BY <2>3 DEF TakeoverInv, RotationsAreJournaled, Journaled, R!AgentRotate
    <3>2. CASE op[v].a # m.a
      <4>1. op[v].a \in Attempts => machine'[op[v].a] = machine[op[v].a]
        BY <1>0, <2>3, <3>1, <3>2, TokenRotates
      <4>2. op[v].a \notin Attempts => op[v] = R!AtEase
        BY <1>0 DEF Follows, WorkerRow
      <4> QED BY <1>0, <2>1, <4>1, <4>2 DEF InForce, Latest, R!AtEase
    <3>3. CASE op[v].a = m.a /\ Latest(v)
      <4>1. m.a \in Attempts /\ machine[m.a].token = m.cred /\ history[m.a] = "none"
        <5>1. m.a \in Attempts
          BY <1>0, <2>3, <3>1, TokenRotates
        <5>2. journal.a = m.a /\ journal.a # 0
          BY <3>3, <5>1, LifecycleAssumption DEF Latest
        <5> QED BY <1>0, <2>3, <5>1, <5>2 DEF R!AgentRotate, RowsAgree
      <4>2. op[v].pc # "finish"
        BY <1>0, <3>1, <3>3, <4>1 DEF InForce
      <4>3. op[v].pc # "switch"
        BY <1>0, <3>1, <3>3, <4>1 DEF InForce, Follows
      <4> QED BY <1>0, <2>1, <4>2, <4>3, <3>3 DEF InForce, Latest
    <3> QED BY <2>1, <3>2, <3>3 DEF InForce, Latest
  <2> QED BY <1>14, <2>2, <2>3
<1>15. CASE UNCHANGED rVars
  BY <1>0, <1>15 DEF rVars, InForce, Latest
<1>16. ASSUME NEW m \in net, R!RequestLost(m) PROVE InForce(v)'
  BY <1>0, <1>16 DEF R!RequestLost, InForce, Latest
<1> QED
  <2>1. CASE \E a \in Attempts : R!BeginReplacement(a) \/ R!TakenElsewhere(a) \/ R!PutToUse(a)
    BY <2>1, <1>12, <1>13
  <2>2. CASE \E m \in net : R!AgentRotate(m) \/ R!AgentIdle(m) \/ R!RequestLost(m)
    BY <2>2, <1>14, <1>16
  <2>3. CASE \E w \in HubWorkers :
          \/ R!Resume(w) \/ R!Commit(w) \/ R!Cancel(w)
          \/ R!Learn(w) \/ R!TryCandidate(w) \/ R!Bootstrap(w) \/ R!ProbeForDisposal(w)
          \/ R!RotateSend(w) \/ R!RotateProve(w) \/ R!IdleCheck(w) \/ R!Prepared(w)
          \/ R!CommitProof(w) \/ R!SwitchBinding(w) \/ R!Discard(w) \/ R!GiveUp(w)
    BY <2>3, <1>1, <1>2, <1>3, <1>4, <1>5, <1>6, <1>7, <1>8, <1>9, <1>10, <1>11
  <2> QED BY <1>15, <2>1, <2>2, <2>3 DEF R!ReplacementNext

\* Every step keeps the rows in agreement.
LEMMA RowsKept == TakeoverInv /\ [R!ReplacementNext]_rVars => RowsAgree'
<1> SUFFICES ASSUME TakeoverInv, [R!ReplacementNext]_rVars PROVE RowsAgree'
  OBVIOUS
<1>0. R!ReplacementTypeOK /\ Typed /\ RowsAgree
  BY TypedFolds DEF TakeoverInv
<1>1. ASSUME NEW a \in Attempts, R!BeginReplacement(a) PROVE RowsAgree'
  BY <1>0, <1>1, LifecycleAssumption DEF Typed, RowsAgree, Begun, R!BeginReplacement, R!NoJournal
<1>2. ASSUME NEW a \in Attempts, R!TakenElsewhere(a) \/ R!PutToUse(a) PROVE RowsAgree'
  <2>1. UNCHANGED <<bind, journal, history>>
    BY <1>2 DEF R!TakenElsewhere, R!PutToUse
  <2>2. CASE R!PutToUse(a)
    <3>1. history[a] = "committed" /\ machine'[a].token = machine[a].token
      BY <1>0, <2>2, MachineServes, LifecycleAssumption DEF R!PutToUse, RowsAgree
    <3> QED BY <1>0, <1>2, <2>1, <3>1, MachineServes DEF RowsAgree, Begun
  <2>3. CASE ~R!PutToUse(a)
    BY <1>0, <1>2, <2>1, <2>3, MachineServes DEF RowsAgree, Begun
  <2> QED BY <2>2, <2>3
<1>3. ASSUME NEW w \in HubWorkers, R!SwitchBinding(w) \/ R!Discard(w) PROVE RowsAgree'
  <2>1. op[w].a = journal.a /\ journal.a # 0 /\ journal.a \in Attempts /\ history[journal.a] = "none"
    <3>1. op[w].a # 0 /\ op[w].a = journal.a /\ op[w].a \in Attempts
      BY <1>0, <1>3 DEF R!SwitchBinding, R!Discard, R!Current, TakeoverInv, WorkersFollowJournal, Follows,
         R!AtEase, Typed, WorkerRow
    <3> QED BY <1>0, <3>1 DEF RowsAgree
  <2>2. PICK outcome \in {"committed", "cancelled"} :
           /\ history' = [history EXCEPT ![journal.a] = outcome]
           /\ bind'.at = bind.at \/ (bind'.at = journal.a /\ outcome = "committed")
    <3>1. CASE R!SwitchBinding(w)
      BY <2>1, <3>1 DEF R!SwitchBinding, R!Resolved
    <3>2. CASE R!Discard(w)
      <4>1. history' = [history EXCEPT ![journal.a] = "cancelled"] /\ bind'.at = bind.at
        BY <2>1, <3>2 DEF R!Discard, R!Resolved
      <4> QED BY <4>1
    <3> QED BY <1>3, <3>1, <3>2
  <2>3. machine' = machine /\ journal'.a = 0
    BY <1>3 DEF R!SwitchBinding, R!Discard, R!Resolved, R!NoJournal
  <2>4. \A a \in Attempts : history'[a] = IF a = journal.a THEN outcome ELSE history[a]
    BY <1>0, <2>1, <2>2 DEF Typed
  <2>5. bind'.at # 0 => history'[bind'.at] = "committed"
    BY <1>0, <2>1, <2>2, <2>4 DEF Typed, RowsAgree
  <2> QED BY <1>0, <2>1, <2>3, <2>4, <2>5 DEF RowsAgree, Begun
<1>4. ASSUME NEW m \in net, R!AgentRotate(m) PROVE RowsAgree'
  <2>1. /\ UNCHANGED <<bind, journal, history>> /\ m.new # "none" /\ Begun(m.a)
    BY <1>4 DEF R!AgentRotate, R!Answered, TakeoverInv, RotationsAreJournaled, Journaled
  <2> QED BY <1>0, <1>4, <2>1, TokenRotates DEF RowsAgree, Begun
<1>5. ASSUME NEW m \in net, R!AgentIdle(m) PROVE RowsAgree'
  <2>1. UNCHANGED <<bind, journal, history>>
    BY <1>5 DEF R!AgentIdle, R!Answered
  <2> QED BY <1>0, <1>5, <2>1, CoreStops DEF RowsAgree, Begun
<1>6. ASSUME UNCHANGED <<bind, history, machine>>, journal'.a = journal.a PROVE RowsAgree'
  BY <1>0, <1>6 DEF RowsAgree, Begun
<1>7. ASSUME NEW w \in HubWorkers, ~R!SwitchBinding(w), ~R!Discard(w),
          \/ R!Resume(w) \/ R!Commit(w) \/ R!Cancel(w)
          \/ R!Learn(w) \/ R!TryCandidate(w) \/ R!Bootstrap(w) \/ R!ProbeForDisposal(w)
          \/ R!RotateSend(w) \/ R!RotateProve(w) \/ R!IdleCheck(w) \/ R!Prepared(w)
          \/ R!CommitProof(w) \/ R!SwitchBinding(w) \/ R!Discard(w) \/ R!GiveUp(w)
      PROVE  RowsAgree'
  <2>1. UNCHANGED <<bind, history, machine>> /\ journal'.a = journal.a
    BY <1>0, <1>7 DEF Typed, JournalRow, R!Start, R!Resume, R!Commit, R!Cancel, R!Learn, R!TryCandidate,
       R!Bootstrap, R!ProbeForDisposal, R!RotateSend, R!RotateProve, R!IdleCheck, R!Prepared,
       R!CommitProof, R!GiveUp
  <2> QED BY <1>6, <2>1
<1>8. ASSUME UNCHANGED rVars \/ \E m \in net : R!RequestLost(m) PROVE RowsAgree'
  BY <1>6, <1>8 DEF rVars, R!RequestLost
<1> QED BY <1>1, <1>2, <1>3, <1>4, <1>5, <1>7, <1>8 DEF R!ReplacementNext

\* Every step keeps the requests within what the journal allows.
LEMMA RotationsKept == TakeoverInv /\ [R!ReplacementNext]_rVars => RotationsAreJournaled'
<1> SUFFICES ASSUME TakeoverInv, [R!ReplacementNext]_rVars, NEW m \in net' PROVE Journaled(m)'
  BY DEF RotationsAreJournaled
<1>0. /\ R!ReplacementTypeOK /\ Typed /\ RowsAgree /\ WorkersFollowJournal /\ LatestIsInForce
      /\ \A n \in net : Journaled(n) /\ n \in RequestRow
  BY TypedFolds DEF TakeoverInv, Typed, RotationsAreJournaled
<1>1. ASSUME NEW w \in HubWorkers, R!RotateSend(w) PROVE Journaled(m)'
  <2>1. UNCHANGED <<journal, history>>
    BY <1>1 DEF R!RotateSend
  <2>2. CASE m \in net
    BY <1>0, <2>1, <2>2 DEF Journaled, Begun
  <2>3. CASE m \notin net
    <3> DEFINE new == IF op[w].kind = "cancel" THEN "disposal" ELSE "candidate"
    <3>1. /\ m.a = op[w].a /\ m.cred = op[w].cred /\ m.new = new
      BY <1>1, <2>3 DEF R!RotateSend, R!Post
    <3>2. Latest(w) /\ op[w].a # 0 /\ op[w].cred \in {"bootstrap", "candidate"}
          /\ op[w].kind \in {"resume", "cancel"} /\ (op[w].kind = "resume" => op[w].cred = "bootstrap")
      BY <1>0, <1>1 DEF R!RotateSend, R!Current, Latest, WorkersFollowJournal, Follows, R!AtEase
    <3>3. op[w].kind = "cancel" => journal.res = "cancelling"
      BY <1>0, <3>2 DEF LatestIsInForce, InForce
    <3> QED BY <2>1, <3>1, <3>2, <3>3 DEF Journaled, Begun, Latest
  <2> QED BY <2>2, <2>3
<1>2. ASSUME NEW w \in HubWorkers, R!IdleCheck(w) PROVE Journaled(m)'
  <2>1. UNCHANGED <<journal, history>>
    BY <1>2 DEF R!IdleCheck
  <2>2. CASE m \in net
    BY <1>0, <2>1, <2>2 DEF Journaled, Begun
  <2>3. CASE m \notin net
    <3>1. m.a = op[w].a /\ m.do = "idle"
      BY <1>2, <2>3 DEF R!IdleCheck, R!Post
    <3>2. op[w].a = journal.a
      BY <1>2 DEF R!IdleCheck, R!Proven, R!Current
    <3> QED BY <2>1, <3>1, <3>2 DEF Journaled, Begun
  <2> QED BY <2>2, <2>3
<1>3. ASSUME NEW w \in HubWorkers, R!SwitchBinding(w) \/ R!Discard(w) PROVE Journaled(m)'
  <2>1. m \in net /\ op[w].a = journal.a /\ Latest(w) /\ op[w].a \in Attempts
    BY <1>0, <1>3 DEF R!SwitchBinding, R!Discard, R!Resolved, R!Current, Latest, WorkersFollowJournal, Follows,
       R!AtEase, Typed, WorkerRow
  <2>2. m.a \in Attempts /\ Journaled(m)
    BY <1>0, <2>1 DEF RequestRow
  <2>3. CASE R!SwitchBinding(w)
    <3>1. journal.res = "committing"
      BY <1>0, <2>1, <2>3 DEF R!SwitchBinding, WorkersFollowJournal, Follows, LatestIsInForce, InForce
    <3>2. history' = [history EXCEPT ![op[w].a] = "committed"] /\ history[op[w].a] = "none"
      BY <1>0, <2>1, <2>3, LifecycleAssumption DEF R!SwitchBinding, R!Resolved, RowsAgree
    <3>3. history'[m.a] # "none" /\ (history[m.a] = "cancelled" => history'[m.a] = "cancelled")
      BY <1>0, <2>1, <2>2, <3>2 DEF Typed, Journaled, Begun
    <3> QED BY <2>2, <3>1, <3>3 DEF Journaled, Begun
  <2>4. CASE R!Discard(w)
    <3>1. history' = [history EXCEPT ![op[w].a] = "cancelled"]
      BY <2>4 DEF R!Discard, R!Resolved
    <3>2. /\ history'[m.a] # "none" /\ (history[m.a] = "cancelled" => history'[m.a] = "cancelled")
          /\ journal.a = m.a => history'[m.a] = "cancelled"
      BY <1>0, <2>1, <2>2, <3>1 DEF Typed, Journaled, Begun
    <3> QED BY <2>2, <3>2 DEF Journaled, Begun
  <2> QED BY <1>3, <2>3, <2>4
<1>4. ASSUME NEW a \in Attempts, R!BeginReplacement(a) PROVE Journaled(m)'
  <2>1. m \in net /\ m.a \in Attempts /\ history' = history /\ journal.a = 0 /\ Journaled(m)
    BY <1>0, <1>4 DEF R!BeginReplacement, R!NoJournal, RequestRow
  <2> QED BY <2>1, LifecycleAssumption DEF Journaled, Begun
<1>5. ASSUME NEW w \in HubWorkers, R!Resume(w) \/ R!Commit(w) \/ R!Cancel(w) PROVE Journaled(m)'
  <2>1. m \in net /\ history' = history /\ journal'.a = journal.a /\ Journaled(m)
        /\ (journal.res = "cancelling" => journal'.res = "cancelling")
    BY <1>0, <1>5 DEF R!Resume, R!Commit, R!Cancel, R!Start, Typed, JournalRow
  <2> QED BY <2>1 DEF Journaled, Begun
<1>6. ASSUME m \in net, history' = history, journal'.a = journal.a, journal'.res = journal.res
      PROVE  Journaled(m)'
  BY <1>0, <1>6 DEF Journaled, Begun
<1>7. ASSUME NEW w \in HubWorkers,
          \/ R!Learn(w) \/ R!TryCandidate(w) \/ R!Bootstrap(w) \/ R!ProbeForDisposal(w)
          \/ R!RotateProve(w) \/ R!Prepared(w) \/ R!CommitProof(w) \/ R!GiveUp(w)
      PROVE  Journaled(m)'
  <2>1. net' = net /\ history' = history /\ journal'.a = journal.a /\ journal'.res = journal.res
    BY <1>0, <1>7 DEF Typed, JournalRow, R!Learn, R!TryCandidate,
       R!Bootstrap, R!ProbeForDisposal, R!RotateProve, R!Prepared, R!CommitProof, R!GiveUp
  <2> QED BY <1>6, <2>1
<1>8. ASSUME \/ UNCHANGED rVars
             \/ \E a \in Attempts : R!TakenElsewhere(a) \/ R!PutToUse(a)
             \/ \E n \in net : R!AgentRotate(n) \/ R!AgentIdle(n) \/ R!RequestLost(n)
      PROVE  Journaled(m)'
  BY <1>6, <1>8 DEF rVars, R!TakenElsewhere, R!PutToUse, R!AgentRotate, R!AgentIdle, R!Answered, R!RequestLost
<1> QED
  <2>1. CASE \E a \in Attempts : R!BeginReplacement(a) \/ R!TakenElsewhere(a) \/ R!PutToUse(a)
    BY <2>1, <1>4, <1>8
  <2>2. CASE UNCHANGED rVars \/ \E n \in net : R!AgentRotate(n) \/ R!AgentIdle(n) \/ R!RequestLost(n)
    BY <2>2, <1>8
  <2>3. CASE \E w \in HubWorkers :
          \/ R!Resume(w) \/ R!Commit(w) \/ R!Cancel(w)
          \/ R!Learn(w) \/ R!TryCandidate(w) \/ R!Bootstrap(w) \/ R!ProbeForDisposal(w)
          \/ R!RotateSend(w) \/ R!RotateProve(w) \/ R!IdleCheck(w) \/ R!Prepared(w)
          \/ R!CommitProof(w) \/ R!SwitchBinding(w) \/ R!Discard(w) \/ R!GiveUp(w)
    BY <2>3, <1>1, <1>2, <1>3, <1>5, <1>7
  <2> QED BY <2>1, <2>2, <2>3 DEF R!ReplacementNext

\* A step that finishes the journal's attempt finds the machine in the state it needs.
LEMMA OutcomeIsProven ==
    ASSUME TakeoverInv, NEW w \in HubWorkers, R!SwitchBinding(w) \/ R!Discard(w)
    PROVE  /\ op[w].a = journal.a /\ journal.a \in Attempts /\ history[journal.a] = "none"
           /\ journal' = R!NoJournal /\ machine' = machine /\ bind.at # journal.a
           /\ \/ /\ R!SwitchBinding(w) /\ journal.phase = "prepared" /\ journal.src = bind.gen
                 /\ bind' = [gen |-> bind.gen + 1, at |-> journal.a]
                 /\ history' = [history EXCEPT ![journal.a] = "committed"]
                 /\ machine[journal.a] = [token |-> "candidate", running |-> FALSE, used |-> FALSE]
              \/ /\ R!Discard(w) /\ bind' = bind
                 /\ history' = [history EXCEPT ![journal.a] = "cancelled"]
                 /\ machine[journal.a].token = "disposal" /\ ~machine[journal.a].running
<1>0. /\ R!ReplacementTypeOK /\ Typed /\ RowsAgree /\ op[w] \in WorkerRow /\ Follows(w) /\ InForce(w)
  BY TypedFolds DEF TakeoverInv, Typed, WorkersFollowJournal, LatestIsInForce
<1>1. Latest(w) /\ op[w].a \in Attempts /\ op[w].a # 0
  BY <1>0 DEF R!SwitchBinding, R!Discard, R!Current, Latest, Follows, R!AtEase, WorkerRow
<1>2. history[journal.a] = "none" /\ bind.at # journal.a
  BY <1>0, <1>1 DEF RowsAgree, Latest
<1>3. CASE R!SwitchBinding(w)
  <2>1. journal.res = "committing" /\ journal.phase = "prepared"
        /\ machine[journal.a] = [token |-> "candidate", running |-> FALSE, used |-> FALSE]
    BY <1>0, <1>1, <1>3 DEF R!SwitchBinding, InForce, Follows, Latest
  <2> QED BY <1>1, <1>2, <1>3, <2>1 DEF R!SwitchBinding, R!Resolved, R!Current, Latest
<1>4. CASE R!Discard(w)
  <2>1. machine[journal.a].token = "disposal" /\ ~machine[journal.a].running
    BY <1>0, <1>1, <1>4 DEF R!Discard, InForce, Latest
  <2> QED BY <1>1, <1>2, <1>4, <2>1 DEF R!Discard, R!Resolved, Latest
<1> QED BY <1>3, <1>4

\* Workers on their way leave the binding, the outcomes and the machines alone, and
\* never take a resolution back.
LEMMA OtherWorkerSteps ==
    ASSUME R!ReplacementTypeOK, NEW w \in HubWorkers,
          \/ R!Resume(w) \/ R!Commit(w) \/ R!Cancel(w)
          \/ R!Learn(w) \/ R!TryCandidate(w) \/ R!Bootstrap(w) \/ R!ProbeForDisposal(w)
          \/ R!RotateSend(w) \/ R!RotateProve(w) \/ R!IdleCheck(w) \/ R!Prepared(w)
          \/ R!CommitProof(w) \/ R!GiveUp(w)
    PROVE  /\ UNCHANGED <<bind, history, machine>> /\ journal'.a = journal.a
           /\ journal.res = "cancelling" => journal'.res = "cancelling"
<1>1. CASE R!Resume(w) \/ R!Commit(w) \/ R!Cancel(w)
  BY <1>1, TypedFolds DEF Typed, JournalRow, R!Start, R!Resume, R!Commit, R!Cancel
<1>2. CASE R!Learn(w) \/ R!Bootstrap(w) \/ R!ProbeForDisposal(w) \/ R!Prepared(w)
  BY <1>2, TypedFolds DEF Typed, JournalRow, R!Learn, R!Bootstrap, R!ProbeForDisposal, R!Prepared
<1>3. CASE \/ R!TryCandidate(w) \/ R!RotateSend(w) \/ R!RotateProve(w) \/ R!IdleCheck(w)
           \/ R!CommitProof(w) \/ R!GiveUp(w)
  BY <1>3 DEF R!TryCandidate, R!RotateSend, R!RotateProve, R!IdleCheck, R!CommitProof, R!GiveUp
<1> QED BY <1>1, <1>2, <1>3

\* Every step keeps a token of the journal in the machine.
LEMMA TokenKept == TakeoverInv /\ [R!ReplacementNext]_rVars => R!HubHoldsToken'
<1> SUFFICES ASSUME TakeoverInv, [R!ReplacementNext]_rVars PROVE R!HubHoldsToken'
  OBVIOUS
<1>0. R!ReplacementTypeOK /\ Typed /\ RowsAgree /\ RotationsAreJournaled /\ R!HubHoldsToken
  BY TypedFolds DEF TakeoverInv
<1>1. ASSUME NEW a \in Attempts, R!BeginReplacement(a) PROVE R!HubHoldsToken'
  <2>1. journal.a = 0 /\ history[a] = "none" /\ journal'.a = a /\ UNCHANGED <<history, machine>>
    BY <1>1 DEF R!BeginReplacement, R!NoJournal
  <2>2. machine[a].token \in {"bootstrap", "candidate", "foreign"}
    <3>1. machine[a].token \in R!Tokens
      BY <1>0 DEF Typed, MachineRow
    <3> QED BY <1>0, <2>1, <3>1, LifecycleAssumption DEF RowsAgree, Begun, R!Tokens
  <2> QED BY <1>0, <2>1, <2>2 DEF R!HubHoldsToken
<1>2. ASSUME NEW a \in Attempts, R!TakenElsewhere(a) \/ R!PutToUse(a) PROVE R!HubHoldsToken'
  <2>1. UNCHANGED <<journal, history>>
    BY <1>2 DEF R!TakenElsewhere, R!PutToUse
  <2>2. \/ machine'[a].token = machine[a].token
        \/ machine[a].token = "bootstrap" /\ machine'[a].token = "foreign"
    <3>1. CASE R!PutToUse(a)
      BY <1>0, <3>1, MachineServes
    <3>2. CASE ~R!PutToUse(a)
      <4>1. machine[a].token = "bootstrap"
        BY <1>2, <3>2 DEF R!TakenElsewhere
      <4>2. machine'[a].token = "foreign"
        BY <1>0, <1>2, <3>2, MachineServes
      <4> QED BY <4>1, <4>2
    <3> QED BY <3>1, <3>2
  <2>3. journal.a \in Attempts \union {0} /\ \A b \in Attempts : b # a => machine'[b] = machine[b]
    BY <1>0, <1>2, MachineServes DEF Typed, JournalRow
  <2> QED BY <1>0, <2>1, <2>2, <2>3 DEF R!HubHoldsToken
<1>3. ASSUME NEW w \in HubWorkers, R!SwitchBinding(w) \/ R!Discard(w) PROVE R!HubHoldsToken'
  <2>1. journal'.a = 0 /\ machine' = machine
    BY <1>3, OutcomeIsProven DEF R!NoJournal
  <2>2. ASSUME NEW a \in Attempts, history'[a] = "committed" PROVE machine[a].token = "candidate"
    BY <1>0, <1>3, <2>2, OutcomeIsProven DEF Typed, R!HubHoldsToken
  <2> QED BY <2>1, <2>2 DEF R!HubHoldsToken
<1>4. ASSUME NEW w \in HubWorkers,
          \/ R!Resume(w) \/ R!Commit(w) \/ R!Cancel(w)
          \/ R!Learn(w) \/ R!TryCandidate(w) \/ R!Bootstrap(w) \/ R!ProbeForDisposal(w)
          \/ R!RotateSend(w) \/ R!RotateProve(w) \/ R!IdleCheck(w) \/ R!Prepared(w)
          \/ R!CommitProof(w) \/ R!GiveUp(w)
      PROVE  R!HubHoldsToken'
  BY <1>0, <1>4, OtherWorkerSteps DEF R!HubHoldsToken
<1>5. ASSUME NEW m \in net, R!AgentRotate(m) PROVE R!HubHoldsToken'
  <2>1. UNCHANGED <<journal, history>> /\ machine[m.a].token = m.cred
        /\ m.cred \in {"bootstrap", "candidate"} /\ m.new \in {"candidate", "disposal"}
        /\ (m.new = "candidate" => m.cred = "bootstrap") /\ Begun(m.a)
        /\ (m.new = "disposal" =>
                \/ journal.a = m.a /\ journal.res = "cancelling"
                \/ history[m.a] = "cancelled")
    BY <1>0, <1>5 DEF R!AgentRotate, R!Answered, RotationsAreJournaled, Journaled
  <2>2. m.a \in Attempts /\ machine'[m.a].token = m.new
        /\ \A b \in Attempts : b # m.a => machine'[b] = machine[b]
    BY <1>0, <1>5, <2>1, TokenRotates
  <2>3. history[m.a] # "committed"
    BY <1>0, <2>1, <2>2, LifecycleAssumption DEF R!HubHoldsToken, RowsAgree
  <2>4. journal.a = m.a => history[m.a] # "cancelled"
    BY <1>0, <2>2, LifecycleAssumption DEF RowsAgree
  <2>5. journal.a \in Attempts \union {0}
    BY <1>0 DEF Typed, JournalRow
  <2> QED BY <1>0, <2>1, <2>2, <2>3, <2>4, <2>5 DEF R!HubHoldsToken
<1>6. ASSUME NEW m \in net, R!AgentIdle(m) PROVE R!HubHoldsToken'
  <2>1. UNCHANGED <<journal, history>> /\ journal.a \in Attempts \union {0}
    BY <1>0, <1>6 DEF R!AgentIdle, R!Answered, Typed, JournalRow
  <2>2. \A b \in Attempts : machine'[b].token = machine[b].token
    BY <1>0, <1>6, CoreStops
  <2> QED BY <1>0, <2>1, <2>2 DEF R!HubHoldsToken
<1>7. ASSUME UNCHANGED rVars \/ \E m \in net : R!RequestLost(m) PROVE R!HubHoldsToken'
  BY <1>0, <1>7 DEF rVars, R!RequestLost, R!HubHoldsToken
<1> QED BY <1>1, <1>2, <1>3, <1>4, <1>5, <1>6, <1>7 DEF R!ReplacementNext

\* Every step keeps a discarded machine revoked.
LEMMA RevocationKept == TakeoverInv /\ [R!ReplacementNext]_rVars => R!DiscardedIsRevoked'
<1> SUFFICES ASSUME TakeoverInv, [R!ReplacementNext]_rVars, NEW a \in Attempts, history'[a] = "cancelled"
             PROVE  bind'.at # a /\ machine'[a].token = "disposal" /\ ~machine'[a].running
  BY DEF R!DiscardedIsRevoked
<1>0. R!ReplacementTypeOK /\ Typed /\ RowsAgree /\ RotationsAreJournaled /\ R!DiscardedIsRevoked
  BY TypedFolds DEF TakeoverInv
<1>1. ASSUME history' = history, bind' = bind, machine'[a] = machine[a]
      PROVE  bind'.at # a /\ machine'[a].token = "disposal" /\ ~machine'[a].running
  BY <1>0, <1>1 DEF R!DiscardedIsRevoked
<1>2. ASSUME NEW w \in HubWorkers, R!SwitchBinding(w) \/ R!Discard(w)
      PROVE  bind'.at # a /\ machine'[a].token = "disposal" /\ ~machine'[a].running
  <2>1. CASE a # journal.a
    <3>1. history'[a] = history[a] /\ machine' = machine
      BY <1>0, <1>2, <2>1, OutcomeIsProven DEF Typed
    <3> QED BY <1>0, <1>2, <2>1, <3>1, OutcomeIsProven DEF R!DiscardedIsRevoked
  <2>2. CASE a = journal.a
    BY <1>0, <1>2, <2>2, OutcomeIsProven DEF Typed
  <2> QED BY <2>1, <2>2
<1>3. ASSUME NEW b \in Attempts, R!TakenElsewhere(b) \/ R!PutToUse(b)
      PROVE  bind'.at # a /\ machine'[a].token = "disposal" /\ ~machine'[a].running
  <2>1. UNCHANGED <<bind, history>>
    BY <1>3 DEF R!TakenElsewhere, R!PutToUse
  <2>2. a # b
    BY <1>0, <1>3, <2>1 DEF R!DiscardedIsRevoked, R!TakenElsewhere, R!PutToUse
  <2>3. machine'[a] = machine[a]
    BY <1>0, <1>3, <2>2, MachineServes
  <2> QED BY <1>1, <2>1, <2>3
<1>4. ASSUME NEW m \in net, R!AgentRotate(m) \/ R!AgentIdle(m)
      PROVE  bind'.at # a /\ machine'[a].token = "disposal" /\ ~machine'[a].running
  <2>1. UNCHANGED <<bind, history>>
    BY <1>4 DEF R!AgentRotate, R!AgentIdle, R!Answered
  <2>2. machine[a].token = "disposal"
    BY <1>0, <2>1 DEF R!DiscardedIsRevoked
  <2>3. CASE R!AgentRotate(m)
    <3>1. m.a # a /\ m.new # "none"
      BY <1>0, <2>2, <2>3 DEF R!AgentRotate, RotationsAreJournaled, Journaled
    <3> QED BY <1>0, <1>1, <2>1, <2>3, <3>1, TokenRotates
  <2>4. CASE R!AgentIdle(m)
    BY <1>0, <2>1, <2>4, CoreStops DEF R!DiscardedIsRevoked
  <2> QED BY <1>4, <2>3, <2>4
<1>5. ASSUME NEW w \in HubWorkers,
          \/ R!Resume(w) \/ R!Commit(w) \/ R!Cancel(w)
          \/ R!Learn(w) \/ R!TryCandidate(w) \/ R!Bootstrap(w) \/ R!ProbeForDisposal(w)
          \/ R!RotateSend(w) \/ R!RotateProve(w) \/ R!IdleCheck(w) \/ R!Prepared(w)
          \/ R!CommitProof(w) \/ R!GiveUp(w)
      PROVE  bind'.at # a /\ machine'[a].token = "disposal" /\ ~machine'[a].running
  BY <1>0, <1>1, <1>5, OtherWorkerSteps
<1>6. ASSUME UNCHANGED rVars \/ (\E b \in Attempts : R!BeginReplacement(b)) \/ \E m \in net : R!RequestLost(m)
      PROVE  bind'.at # a /\ machine'[a].token = "disposal" /\ ~machine'[a].running
  BY <1>1, <1>6 DEF rVars, R!RequestLost, R!BeginReplacement
<1> QED BY <1>2, <1>3, <1>4, <1>5, <1>6 DEF R!ReplacementNext

-----------------------------------------------------------------------------
\* No replacement is under way at first.
LEMMA TakeoverInit == R!ReplacementInit => TakeoverInv
<1> SUFFICES ASSUME R!ReplacementInit PROVE TakeoverInv
  OBVIOUS
<1>1. Typed
  <2>1. machine \in [Attempts -> MachineRow]
    BY DEF R!ReplacementInit, MachineRow, R!Tokens
  <2>2. op \in [HubWorkers -> WorkerRow] /\ journal \in JournalRow
    BY NoJournalRow, AtEaseRow DEF R!ReplacementInit
  <2>3. bind \in [gen : Nat \ {0}, at : Attempts \union {0}] /\ net \subseteq RequestRow
        /\ history \in [Attempts -> {"none", "committed", "cancelled"}]
    BY DEF R!ReplacementInit
  <2> QED BY <2>1, <2>2, <2>3 DEF Typed
<1>2. RowsAgree
  BY DEF R!ReplacementInit, RowsAgree, R!NoJournal
<1>3. WorkersFollowJournal /\ LatestIsInForce
  BY DEF R!ReplacementInit, WorkersFollowJournal, Follows, LatestIsInForce, InForce, R!AtEase, R!NoJournal
<1>4. RotationsAreJournaled
  BY DEF R!ReplacementInit, RotationsAreJournaled
<1>5. R!HubHoldsToken /\ R!DiscardedIsRevoked
  BY DEF R!ReplacementInit, R!HubHoldsToken, R!DiscardedIsRevoked, R!NoJournal
<1> QED BY <1>1, <1>2, <1>3, <1>4, <1>5, TypedFolds DEF TakeoverInv

\* Every step of the replacement keeps the invariant.
LEMMA TakeoverStep == TakeoverInv /\ [R!ReplacementNext]_rVars => TakeoverInv'
BY TakeoverTypes, RowsKept, WorkersKept, LatestKept, RotationsKept, TokenKept, RevocationKept
   DEF TakeoverInv

\* The binding moves to a proven machine, and no step stops a machine that serves.
LEMMA SwitchStep ==
    ASSUME TakeoverInv, [R!ReplacementNext]_rVars
    PROVE  /\ bind' # bind =>
                 /\ bind.gen = journal.src /\ journal.phase = "prepared"
                 /\ bind'.at = journal.a
                 /\ machine[journal.a] =
                        [token |-> "candidate", running |-> FALSE, used |-> FALSE]
           /\ \A a \in Attempts :
                 machine[a].used /\ machine[a].running => machine'[a].running
<1>0. R!ReplacementTypeOK /\ RotationsAreJournaled
  BY DEF TakeoverInv
<1>1. ASSUME NEW w \in HubWorkers, R!SwitchBinding(w) \/ R!Discard(w)
      PROVE  /\ machine' = machine
             /\ bind' # bind =>
                   /\ bind.gen = journal.src /\ journal.phase = "prepared"
                   /\ bind'.at = journal.a
                   /\ machine[journal.a] =
                          [token |-> "candidate", running |-> FALSE, used |-> FALSE]
  BY <1>1, OutcomeIsProven
<1>2. ASSUME NEW a \in Attempts, R!TakenElsewhere(a) \/ R!PutToUse(a)
      PROVE  bind' = bind /\ \A b \in Attempts : machine[b].running => machine'[b].running
  BY <1>0, <1>2, MachineServes DEF R!TakenElsewhere, R!PutToUse
<1>3. ASSUME NEW m \in net, R!AgentRotate(m)
      PROVE  bind' = bind /\ \A b \in Attempts : machine[b].running => machine'[b].running
  <2>1. m.new # "none" /\ bind' = bind
    BY <1>0, <1>3 DEF R!AgentRotate, R!Answered, RotationsAreJournaled, Journaled
  <2> QED BY <1>0, <1>3, <2>1, TokenRotates
<1>4. ASSUME NEW m \in net, R!AgentIdle(m)
      PROVE  bind' = bind /\ \A b \in Attempts :
                machine[b].used /\ machine[b].running => machine'[b].running
  <2>1. ~machine[m.a].used /\ bind' = bind
    BY <1>4 DEF R!AgentIdle, R!Answered
  <2> QED BY <1>0, <1>4, <2>1, CoreStops
<1>5. ASSUME NEW w \in HubWorkers,
          \/ R!Resume(w) \/ R!Commit(w) \/ R!Cancel(w)
          \/ R!Learn(w) \/ R!TryCandidate(w) \/ R!Bootstrap(w) \/ R!ProbeForDisposal(w)
          \/ R!RotateSend(w) \/ R!RotateProve(w) \/ R!IdleCheck(w) \/ R!Prepared(w)
          \/ R!CommitProof(w) \/ R!GiveUp(w)
      PROVE  UNCHANGED <<bind, machine>>
  BY <1>0, <1>5, OtherWorkerSteps
<1>6. ASSUME UNCHANGED rVars \/ (\E b \in Attempts : R!BeginReplacement(b)) \/ \E m \in net : R!RequestLost(m)
      PROVE  UNCHANGED <<bind, machine>>
  BY <1>6 DEF rVars, R!RequestLost, R!BeginReplacement
<1> QED BY <1>1, <1>2, <1>3, <1>4, <1>5, <1>6 DEF R!ReplacementNext

-----------------------------------------------------------------------------
(* Pairing and handoff: the inductive invariant *)

\* Tokens a Hub may come to hold for the machine it has registered.
Registrable == P!Owned \union {P!Candidate(a) : a \in Pairings}

\* A pairing under way has no outcome and no registered Node, a handoff always one.
PairRowsAgree ==
    /\ pairing.a # 0 => pairEnd[pairing.a] = "none" /\ hubToken = P!None
    /\ \A a \in Pairings : pairEnd[a] = "paired" => hubToken # P!None
    /\ hubToken \in Registrable \union {P!None} /\ spent \subseteq Registrable
    /\ spent # {} => hubToken # P!None
    /\ IF handoff.phase = "none" THEN handoff = P!NoHandoff
       ELSE /\ handoff.from = hubToken /\ hubToken # P!None
            /\ handoff.to # handoff.from /\ {handoff.from, handoff.to} \subseteq spent
    /\ candidate.token # P!None
    /\ pairing.a # 0 /\ candidate.token = P!Candidate(pairing.a) => pairing.phase = "rotating"

\* Each worker does the steps of its kind with the credentials of its row, and what it
\* has proved of the machine still holds.
Tasked(w) ==
    /\ task[w].kind = "none" => task[w] = P!NoTask
    /\ task[w].kind \in {"pair", "cancel"} =>
          /\ task[w].a \in Pairings
          /\ pairing.a = task[w].a \/ pairEnd[task[w].a] # "none"
    /\ task[w].kind = "pair" =>
          /\ task[w].new = P!Candidate(task[w].a) /\ task[w].cred = P!Boot
          /\ task[w].pc \in {"learn", "try", "earlier", "rotate", "rotateSent", "prove", "publish"}
          /\ pairing.a = task[w].a =>
                /\ task[w].pc = "rotate" => pairing.phase = "rotating"
                /\ task[w].pc = "publish" /\ pairing.res = "none" => candidate.token = task[w].new
    /\ task[w].kind = "cancel" =>
          /\ task[w].new = P!Disposal(task[w].a)
          /\ task[w].cred \in {P!Boot, P!Candidate(task[w].a), P!Disposal(task[w].a)}
          /\ task[w].pc \in {"probe", "rotate", "rotateSent", "prove", "stop", "idleSent",
                             "revoked", "discard"}
          /\ task[w].pc = "rotate" => task[w].cred # task[w].new
          /\ task[w].pc \in {"revoked", "discard"} =>
                candidate.token = task[w].new /\ ~candidate.running
          /\ pairing.a = task[w].a => pairing.res = "cancelling"
    /\ task[w].kind = "handoff" =>
          /\ {task[w].cred, task[w].new} \subseteq spent
          /\ task[w].pc \in {"try", "earlier", "rotate", "rotateSent", "prove", "publish"}
          /\ handoff.to = task[w].new =>
                /\ task[w].cred = handoff.from
                /\ task[w].pc = "publish" => candidate.token = task[w].new
TasksFollowRows == \A w \in HubWorkers : Tasked(w)

\* A rotation under way is one a journal still names, or its credential is not in use.
PostExpected(m) ==
    /\ m.do = "rotateFresh" => \E a \in Pairings :
          \/ /\ m.new = P!Candidate(a) /\ m.cred = P!Boot
             /\ \/ pairing.a = a /\ pairing.phase = "rotating"
                \/ pairEnd[a] \in {"paired", "discarded"}
          \/ /\ m.new = P!Disposal(a) /\ m.cred \in {P!Boot, P!Candidate(a)}
             /\ \/ pairing.a = a /\ pairing.res = "cancelling"
                \/ pairEnd[a] = "discarded"
    /\ m.do = "rotate" =>
          /\ m.cred \in spent
          /\ \/ handoff.phase # "none" /\ m.cred = handoff.from /\ m.new = handoff.to
             \/ m.cred # hubToken /\ m.cred # handoff.to
PostsAreExpected == \A m \in posts : PostExpected(m)

AccessInv ==
    /\ P!PairTypeOK /\ PairRowsAgree /\ TasksFollowRows /\ PostsAreExpected
    /\ P!HubKeepsAccess /\ P!DiscardedPairingIsRevoked

-----------------------------------------------------------------------------
(* Pairing and handoff: tokens, rows and how a step changes them *)

\* The tokens are told apart.
LEMMA TokensDiffer ==
    /\ P!Boot # P!None /\ P!Foreign # P!None /\ P!Boot # P!Foreign
    /\ {P!Boot, P!None, P!Foreign} \intersect Registrable = {}
    /\ \A a : /\ P!Candidate(a) \notin {P!Boot, P!None, P!Foreign}
              /\ P!Disposal(a) \notin {P!Boot, P!None, P!Foreign} \union Registrable
    /\ \A a, b : /\ P!Candidate(a) # P!Disposal(b)
                 /\ P!Candidate(a) = P!Candidate(b) => a = b
                 /\ P!Disposal(a) = P!Disposal(b) => a = b
    /\ Registrable \subseteq P!PairTokens /\ {P!Boot, P!None, P!Foreign} \subseteq P!PairTokens
    /\ \A a \in Pairings : {P!Candidate(a), P!Disposal(a)} \subseteq P!PairTokens
<1>1. /\ \A a, b : /\ P!Candidate(a) # P!Disposal(b)
                   /\ P!Candidate(a) = P!Candidate(b) => a = b
                   /\ P!Disposal(a) = P!Disposal(b) => a = b
      /\ \A a : /\ P!Candidate(a) \notin {P!Boot, P!None, P!Foreign}
                /\ P!Disposal(a) \notin {P!Boot, P!None, P!Foreign}
  BY DEF P!Candidate, P!Disposal, P!Boot, P!None, P!Foreign
<1>2. P!Boot # P!None /\ P!Foreign # P!None /\ P!Boot # P!Foreign
  BY DEF P!Boot, P!None, P!Foreign
<1>3. {P!Boot, P!None, P!Foreign} \intersect P!Owned = {} /\ \A a : P!Disposal(a) \notin P!Owned
  BY DEF P!Boot, P!None, P!Foreign, P!Owned, P!Disposal
<1>4. Registrable \subseteq P!PairTokens /\ {P!Boot, P!None, P!Foreign} \subseteq P!PairTokens
      /\ \A a \in Pairings : {P!Candidate(a), P!Disposal(a)} \subseteq P!PairTokens
  BY DEF Registrable, P!PairTokens
<1> QED BY <1>1, <1>2, <1>3, <1>4 DEF Registrable

\* The rows of P!PairTypeOK.
TaskSteps == {"idle", "learn", "try", "earlier", "rotate", "rotateSent", "prove",
              "publish", "probe", "stop", "idleSent", "revoked", "discard"}
TaskRow == [kind : {"none", "pair", "cancel", "handoff"}, a : Pairings \union {0},
            pc : TaskSteps, rev : Nat, cred : P!PairTokens, new : P!PairTokens]
PairingRow == [a : Pairings \union {0}, phase : {"pending", "rotating"},
               res : {"none", "cancelling"}, rev : Nat, known : BOOLEAN]
HandoffRow == [from : P!PairTokens, to : P!PairTokens,
               phase : {"none", "pending", "rotating"}, rev : Nat]
AgentRow == [token : P!PairTokens, running : BOOLEAN, fresh : BOOLEAN]
PostRow == [do : {"rotate", "rotateFresh", "idle"}, cred : P!PairTokens,
            new : P!PairTokens, by : HubWorkers, rev : Nat]

\* P!PairTypeOK in terms of the rows.
PairTyped ==
    /\ pairing \in PairingRow
    /\ pairEnd \in [Pairings -> {"none", "paired", "withdrawn", "discarded"}]
    /\ hubToken \in P!PairTokens
    /\ handoff \in HandoffRow
    /\ spent \subseteq P!PairTokens
    /\ candidate \in AgentRow
    /\ posts \subseteq PostRow
    /\ task \in [HubWorkers -> TaskRow]

\* It says the same.
LEMMA PairTypedFolds == (P!PairTypeOK <=> PairTyped) /\ (P!PairTypeOK' <=> PairTyped')
BY DEF P!PairTypeOK, PairTyped, PairingRow, HandoffRow, AgentRow, PostRow, TaskRow, TaskSteps

\* Worker w goes on to pc with credential cred; every other field and worker stays.
GoesOn(w, pc, cred) ==
    /\ task' \in [HubWorkers -> TaskRow]
    /\ task'[w].kind = task[w].kind /\ task'[w].a = task[w].a /\ task'[w].rev = task[w].rev
    /\ task'[w].new = task[w].new
    /\ task'[w].pc = pc /\ task'[w].cred = cred
    /\ \A v \in HubWorkers : v # w => task'[v] = task[v]

\* Worker w gets a new row.
GetsRow(w, row) ==
    /\ task' \in [HubWorkers -> TaskRow]
    /\ task'[w] = row
    /\ \A v \in HubWorkers : v # w => task'[v] = task[v]

\* Going on to a step changes the step only.
LEMMA GotoGoesOn ==
    ASSUME PairTyped, NEW w \in HubWorkers, NEW pc \in TaskSteps, P!Goto(w, pc)
    PROVE  GoesOn(w, pc, task[w].cred)
<1>1. task'[w] = [task[w] EXCEPT !.pc = pc] /\ task[w] \in TaskRow
      /\ \A v \in HubWorkers : v # w => task'[v] = task[v]
  BY DEF PairTyped, P!Goto
<1>2. [task[w] EXCEPT !.pc = pc] \in TaskRow
  BY <1>1 DEF TaskRow
<1>3. task' \in [HubWorkers -> TaskRow]
  BY <1>2 DEF PairTyped, P!Goto
<1> QED BY <1>1, <1>3 DEF GoesOn, TaskRow

\* Going on with another credential.
LEMMA CredGoesOn ==
    ASSUME PairTyped, NEW w \in HubWorkers, NEW pc \in TaskSteps, NEW cred \in P!PairTokens,
           \/ task' = [task EXCEPT ![w].pc = pc, ![w].cred = cred]
           \/ task' = [task EXCEPT ![w].cred = cred, ![w].pc = pc]
    PROVE  GoesOn(w, pc, cred)
<1> DEFINE row == IF task' = [task EXCEPT ![w].pc = pc, ![w].cred = cred]
                  THEN [[task[w] EXCEPT !.pc = pc] EXCEPT !.cred = cred]
                  ELSE [[task[w] EXCEPT !.cred = cred] EXCEPT !.pc = pc]
<1>1. task[w] \in TaskRow
  BY DEF PairTyped
<1>2. /\ row \in TaskRow
      /\ row.kind = task[w].kind /\ row.a = task[w].a /\ row.rev = task[w].rev
      /\ row.new = task[w].new /\ row.pc = pc /\ row.cred = cred
  BY <1>1 DEF TaskRow
<1>3. task' = [task EXCEPT ![w] = row]
  BY <1>1 DEF PairTyped
<1> HIDE DEF row
<1>4. task' \in [HubWorkers -> TaskRow] /\ task'[w] = row
      /\ \A v \in HubWorkers : v # w => task'[v] = task[v]
  BY <1>2, <1>3 DEF PairTyped
<1> QED BY <1>2, <1>4 DEF GoesOn

\* A new row for one worker.
LEMMA NewRow ==
    ASSUME PairTyped, NEW w \in HubWorkers, NEW row \in TaskRow, task' = [task EXCEPT ![w] = row]
    PROVE  GetsRow(w, row)
BY DEF PairTyped, GetsRow

\* The rows without content are rows.
LEMMA EmptyRows == P!NoTask \in TaskRow /\ P!NoPairing \in PairingRow /\ P!NoHandoff \in HandoffRow
<1>1. P!None \in P!PairTokens
  BY TokensDiffer
<1> QED BY <1>1 DEF P!NoTask, P!NoPairing, P!NoHandoff, TaskRow, PairingRow, HandoffRow, TaskSteps

\* An answer moves the worker that asked, if it still waits for it, or nobody.
LEMMA AnswerGoesOn ==
    ASSUME PairTyped, NEW m \in posts, NEW pc, NEW next \in TaskSteps, P!Answered(m, pc, next)
    PROVE  /\ posts' = posts \ {m} /\ UNCHANGED <<pairing, pairEnd, hubToken, handoff, spent>>
           /\ \/ /\ task[m.by].pc = pc /\ task[m.by].rev = m.rev /\ task[m.by].new = m.new
                 /\ m.by \in HubWorkers /\ GoesOn(m.by, next, task[m.by].cred)
              \/ task' = task
<1>1. m.by \in HubWorkers
  BY DEF PairTyped, PostRow
<1> QED BY <1>1, GotoGoesOn DEF P!Answered

\* What a worker sends.
LEMMA PostIsSent ==
    ASSUME PairTyped, NEW w \in HubWorkers, NEW do \in {"rotate", "rotateFresh", "idle"},
           P!Send(w, do)
    PROVE  /\ posts' \subseteq PostRow
           /\ posts' = posts \union {[do |-> do, cred |-> task[w].cred, new |-> task[w].new,
                                      by |-> w, rev |-> task[w].rev]}
<1>1. task[w] \in TaskRow
  BY DEF PairTyped
<1> QED BY <1>1 DEF PairTyped, P!Send, PostRow, TaskRow

\* An accepted rotation changes the token, an accepted stop the core.
LEMMA AgentObeys ==
    ASSUME PairTyped, NEW m \in posts, P!AgentRotates(m) \/ P!AgentIdles(m)
    PROVE  /\ candidate' \in AgentRow /\ candidate.token = m.cred
           /\ P!AgentRotates(m) => candidate'.token = m.new /\ candidate'.running = candidate.running
           /\ P!AgentIdles(m) => candidate'.token = candidate.token /\ ~candidate'.running
<1>1. candidate \in AgentRow /\ m.new \in P!PairTokens
  BY DEF PairTyped, PostRow
<1>2. CASE P!AgentRotates(m) /\ ~P!AgentIdles(m)
  <2>1. candidate' = [candidate EXCEPT !.token = m.new] /\ candidate.token = m.cred
    BY <1>2 DEF P!AgentRotates
  <2> QED BY <1>1, <1>2, <2>1 DEF AgentRow
<1>3. CASE P!AgentIdles(m)
  <2>1. candidate' = [candidate EXCEPT !.running = FALSE] /\ candidate.token = m.cred
    BY <1>3 DEF P!AgentIdles
  <2>2. ~P!AgentRotates(m)
    BY <1>3 DEF P!AgentIdles, P!AgentRotates
  <2> QED BY <1>1, <2>1, <2>2 DEF AgentRow
<1> QED BY <1>2, <1>3

\* Another Hub, or the registered Node's configuration, starts the core.
LEMMA AgentServes ==
    ASSUME PairTyped, P!TakenElsewhere \/ P!PutToUse
    PROVE  /\ candidate' \in AgentRow
           /\ UNCHANGED <<pairing, pairEnd, hubToken, handoff, spent, posts, task>>
           /\ \/ candidate.token = P!Boot /\ candidate'.token = P!Foreign
              \/ candidate.token = hubToken /\ candidate'.token = candidate.token
<1>1. candidate \in AgentRow
  BY DEF PairTyped
<1>2. CASE P!TakenElsewhere
  BY <1>2, TokensDiffer DEF P!TakenElsewhere, AgentRow
<1>3. CASE P!PutToUse
  <2>1. [[candidate EXCEPT !.fresh = FALSE] EXCEPT !.running = TRUE] \in AgentRow
        /\ [[candidate EXCEPT !.fresh = FALSE] EXCEPT !.running = TRUE].token = candidate.token
    BY <1>1 DEF AgentRow
  <2> QED BY <1>3, <2>1 DEF P!PutToUse
<1> QED BY <1>2, <1>3

\* A worker on its way goes on from the step it has reached.
LEMMA TasksGoOn ==
    ASSUME PairTyped, TasksFollowRows, NEW w \in HubWorkers
    PROVE
      /\ P!LearnIdentity(w) =>
            task[w].pc = "learn" /\ GoesOn(w, "try", task[w].cred)
      /\ P!TryCandidate(w) =>
            /\ task[w].pc = "try"
            /\ \/ candidate.token = task[w].new /\ GoesOn(w, "publish", task[w].cred)
               \/ GoesOn(w, "earlier", task[w].cred)
      /\ P!MarkRotating(w) =>
            task[w].pc = "earlier" /\ GoesOn(w, "rotate", task[w].cred)
      /\ P!RotateSend(w) =>
            task[w].pc = "rotate" /\ GoesOn(w, "rotateSent", task[w].cred)
      /\ P!RotateProve(w) =>
            /\ task[w].pc = "prove" /\ task[w].kind # "cancel"
            /\ candidate.token = task[w].new /\ GoesOn(w, "publish", task[w].cred)
      /\ P!ProbeForDisposal(w) =>
            /\ task[w].pc = "probe"
            /\ \/ GoesOn(w, "prove", task[w].new)
               \/ \E cred \in {P!Candidate(task[w].a), P!Boot} : GoesOn(w, "rotate", cred)
      /\ P!IdleCheck(w) =>
            /\ task[w].pc = "prove" /\ task[w].kind = "cancel" /\ candidate.token = task[w].new
            /\ \/ GoesOn(w, "stop", task[w].new)
               \/ ~candidate.running /\ GoesOn(w, "revoked", task[w].new)
      /\ P!IdleSend(w) =>
            task[w].pc = "stop" /\ GoesOn(w, "idleSent", task[w].cred)
      /\ P!RevokedCheck(w) =>
            task[w].pc = "revoked" /\ GoesOn(w, "discard", task[w].cred)
<1>0. task[w] \in TaskRow /\ Tasked(w)
  BY DEF PairTyped, TasksFollowRows
<1>1. ASSUME P!LearnIdentity(w)
      PROVE  task[w].pc = "learn" /\ GoesOn(w, "try", task[w].cred)
  BY <1>1, GotoGoesOn DEF P!LearnIdentity, TaskSteps
<1>2. ASSUME P!TryCandidate(w)
      PROVE  /\ task[w].pc = "try"
             /\ \/ candidate.token = task[w].new /\ GoesOn(w, "publish", task[w].cred)
                \/ GoesOn(w, "earlier", task[w].cred)
  BY <1>2, GotoGoesOn DEF P!TryCandidate, P!Healthy, TaskSteps
<1>3. ASSUME P!MarkRotating(w)
      PROVE  task[w].pc = "earlier" /\ GoesOn(w, "rotate", task[w].cred)
  BY <1>3, GotoGoesOn DEF P!MarkRotating, TaskSteps
<1>4. ASSUME P!RotateSend(w)
      PROVE  task[w].pc = "rotate" /\ GoesOn(w, "rotateSent", task[w].cred)
  BY <1>4, GotoGoesOn DEF P!RotateSend, TaskSteps
<1>5. ASSUME P!RotateProve(w)
      PROVE  /\ task[w].pc = "prove" /\ task[w].kind # "cancel"
             /\ candidate.token = task[w].new /\ GoesOn(w, "publish", task[w].cred)
  BY <1>5, GotoGoesOn DEF P!RotateProve, P!Healthy, TaskSteps
<1>6. ASSUME P!ProbeForDisposal(w)
      PROVE  /\ task[w].pc = "probe"
             /\ \/ GoesOn(w, "prove", task[w].new)
                \/ \E cred \in {P!Candidate(task[w].a), P!Boot} : GoesOn(w, "rotate", cred)
  <2>1. task[w].pc = "probe" /\ task[w].kind = "cancel" /\ task[w].a \in Pairings
        /\ task[w].new = P!Disposal(task[w].a)
    BY <1>0, <1>6 DEF P!ProbeForDisposal, Tasked, P!NoTask, TaskRow
  <2>2. PICK cred \in {P!Disposal(task[w].a), P!Candidate(task[w].a), P!Boot} :
           task' = [task EXCEPT ![w].cred = cred,
                          ![w].pc = IF cred = task[w].new THEN "prove" ELSE "rotate"]
    BY <1>6 DEF P!ProbeForDisposal
  <2>3. cred \in P!PairTokens
    BY <2>1, TokensDiffer
  <2>4. GoesOn(w, IF cred = task[w].new THEN "prove" ELSE "rotate", cred)
    BY <2>2, <2>3, CredGoesOn DEF TaskSteps
  <2> QED BY <2>1, <2>4
<1>7. ASSUME P!IdleCheck(w)
      PROVE  /\ task[w].pc = "prove" /\ task[w].kind = "cancel" /\ candidate.token = task[w].new
             /\ \/ GoesOn(w, "stop", task[w].new)
                \/ ~candidate.running /\ GoesOn(w, "revoked", task[w].new)
  <2>1. task[w].pc = "prove" /\ task[w].kind = "cancel" /\ candidate.token = task[w].new
    BY <1>7 DEF P!IdleCheck, P!Healthy
  <2>2. task[w].new \in P!PairTokens
    BY <1>0 DEF TaskRow
  <2>3. CASE candidate.running
    <3>1. task' = [task EXCEPT ![w].pc = "stop", ![w].cred = task[w].new]
      BY <1>7, <2>3 DEF P!IdleCheck
    <3> QED BY <2>1, <2>2, <3>1, CredGoesOn DEF TaskSteps
  <2>4. CASE ~candidate.running
    <3>1. task' = [task EXCEPT ![w].pc = "revoked", ![w].cred = task[w].new]
      BY <1>7, <2>4 DEF P!IdleCheck
    <3> QED BY <2>1, <2>2, <2>4, <3>1, CredGoesOn DEF TaskSteps
  <2> QED BY <2>3, <2>4
<1>8. ASSUME P!IdleSend(w)
      PROVE  task[w].pc = "stop" /\ GoesOn(w, "idleSent", task[w].cred)
  BY <1>8, GotoGoesOn DEF P!IdleSend, TaskSteps
<1>9. ASSUME P!RevokedCheck(w)
      PROVE  task[w].pc = "revoked" /\ GoesOn(w, "discard", task[w].cred)
  BY <1>9, GotoGoesOn DEF P!RevokedCheck, TaskSteps
<1> QED BY <1>1, <1>2, <1>3, <1>4, <1>5, <1>6, <1>7, <1>8, <1>9

\* A worker that starts gets the row of its kind, with the revision it writes.
LEMMA TasksStart ==
    ASSUME PairTyped, PairRowsAgree, NEW w \in HubWorkers,
           P!RetryPairing(w) \/ P!CancelPairing(w) \/ P!RetryHandoff(w)
    PROVE  /\ pairing' \in PairingRow /\ pairing'.a = pairing.a /\ pairing'.phase = pairing.phase
           /\ handoff' \in HandoffRow
           /\ handoff'.from = handoff.from /\ handoff'.to = handoff.to /\ handoff'.phase = handoff.phase
           /\ UNCHANGED <<pairEnd, hubToken, spent, candidate, posts>>
           /\ \/ /\ pairing.a # 0 /\ pairing.res = "none" /\ pairing'.res = "none"
                 /\ \E pc \in {"learn", "try"} : \E rev \in Nat :
                       GetsRow(w, [kind |-> "pair", a |-> pairing.a, pc |-> pc, rev |-> rev,
                                   cred |-> P!Boot, new |-> P!Candidate(pairing.a)])
              \/ /\ pairing.a # 0 /\ pairing.phase = "rotating" /\ pairing'.res = "cancelling"
                 /\ \E rev \in Nat :
                       GetsRow(w, [kind |-> "cancel", a |-> pairing.a, pc |-> "probe", rev |-> rev,
                                   cred |-> P!Boot, new |-> P!Disposal(pairing.a)])
              \/ /\ handoff.phase # "none" /\ pairing'.res = pairing.res
                 /\ \E rev \in Nat :
                       GetsRow(w, [kind |-> "handoff", a |-> 0, pc |-> "try", rev |-> rev,
                                   cred |-> handoff.from, new |-> handoff.to])
<1>0. pairing \in PairingRow /\ handoff \in HandoffRow /\ pairing.rev + 1 \in Nat /\ handoff.rev + 1 \in Nat
  BY DEF PairTyped, PairingRow, HandoffRow
<1>1. CASE P!RetryPairing(w)
  <2> DEFINE pc == IF pairing.known THEN "try" ELSE "learn"
             row == [kind |-> "pair", a |-> pairing.a, pc |-> pc, rev |-> pairing.rev + 1,
                     cred |-> P!Boot, new |-> P!Candidate(pairing.a)]
  <2>1. pairing.a # 0 /\ pairing.res = "none" /\ pairing.a \in Pairings
    BY <1>0, <1>1 DEF P!RetryPairing, PairingRow
  <2>2. /\ pairing' \in PairingRow /\ pairing'.a = pairing.a /\ pairing'.phase = pairing.phase
        /\ pairing'.res = pairing.res
    BY <1>0, <1>1 DEF P!RetryPairing, P!StartPairing, PairingRow
  <2>3. row \in TaskRow
    BY <1>0, <2>1, TokensDiffer DEF TaskRow, TaskSteps
  <2>4. task' = [task EXCEPT ![w] = row] /\ UNCHANGED <<pairEnd, hubToken, handoff, spent, candidate, posts>>
    BY <1>1 DEF P!RetryPairing, P!StartPairing
  <2> HIDE DEF row
  <2>5. GetsRow(w, row)
    BY <2>3, <2>4, NewRow
  <2> QED BY <1>0, <2>1, <2>2, <2>4, <2>5 DEF row
<1>2. CASE P!CancelPairing(w)
  <2> DEFINE row == [kind |-> "cancel", a |-> pairing.a, pc |-> "probe", rev |-> pairing.rev + 1,
                     cred |-> P!Boot, new |-> P!Disposal(pairing.a)]
             mid == [pairing EXCEPT !.res = "cancelling"]
  <2>1. pairing.a # 0 /\ pairing.phase = "rotating" /\ pairing.a \in Pairings
    BY <1>0, <1>2 DEF P!CancelPairing, PairingRow
  <2>2. mid \in PairingRow /\ mid.a = pairing.a /\ mid.phase = pairing.phase /\ mid.res = "cancelling"
    BY <1>0 DEF PairingRow
  <2>3. pairing' = [mid EXCEPT !.rev = @ + 1]
    BY <1>2 DEF P!CancelPairing, P!StartPairing
  <2>4. row \in TaskRow
    BY <1>0, <2>1, TokensDiffer DEF TaskRow, TaskSteps
  <2>5. task' = [task EXCEPT ![w] = row] /\ UNCHANGED <<pairEnd, hubToken, handoff, spent, candidate, posts>>
    BY <1>2 DEF P!CancelPairing, P!StartPairing
  <2> HIDE DEF row, mid
  <2>6. GetsRow(w, row)
    BY <2>4, <2>5, NewRow
  <2>7. pairing' \in PairingRow /\ pairing'.a = mid.a /\ pairing'.phase = mid.phase /\ pairing'.res = mid.res
    BY <2>2, <2>3 DEF PairingRow
  <2> QED BY <1>0, <2>1, <2>2, <2>5, <2>6, <2>7 DEF row
<1>3. CASE P!RetryHandoff(w)
  <2> DEFINE row == [kind |-> "handoff", a |-> 0, pc |-> "try", rev |-> handoff.rev + 1,
                     cred |-> handoff.from, new |-> handoff.to]
  <2>1. handoff.phase # "none" /\ UNCHANGED <<pairing, pairEnd, hubToken, spent, candidate, posts>>
        /\ handoff' = [handoff EXCEPT !.rev = @ + 1]
    BY <1>3 DEF P!RetryHandoff
  <2>2. /\ handoff' \in HandoffRow
        /\ handoff'.from = handoff.from /\ handoff'.to = handoff.to /\ handoff'.phase = handoff.phase
    BY <1>0, <2>1 DEF HandoffRow
  <2>3. row \in TaskRow
    BY <1>0 DEF TaskRow, TaskSteps, HandoffRow
  <2>4. task' = [task EXCEPT ![w] = row]
    BY <1>3 DEF P!RetryHandoff
  <2> HIDE DEF row
  <2>5. GetsRow(w, row)
    BY <2>3, <2>4, NewRow
  <2> QED BY <1>0, <2>1, <2>2, <2>5 DEF row
<1> QED BY <1>1, <1>2, <1>3

\* A worker that ends, by success or not, is at rest; the row it has ended is gone.
LEMMA TasksEnd ==
    ASSUME PairTyped, NEW w \in HubWorkers,
           P!PublishPairing(w) \/ P!DiscardPairing(w) \/ P!PublishHandoff(w) \/ P!GiveUp(w)
    PROVE  GetsRow(w, P!NoTask) /\ UNCHANGED <<spent, candidate, posts>>
BY EmptyRows, NewRow DEF P!PublishPairing, P!DiscardPairing, P!PublishHandoff, P!GiveUp

\* What the steps on the way do to the rows.
LEMMA RowsGoOn ==
    ASSUME PairTyped, NEW w \in HubWorkers,
           \/ P!LearnIdentity(w) \/ P!TryCandidate(w) \/ P!MarkRotating(w) \/ P!RotateSend(w)
           \/ P!RotateProve(w) \/ P!ProbeForDisposal(w) \/ P!IdleCheck(w) \/ P!IdleSend(w)
           \/ P!RevokedCheck(w)
    PROVE  /\ UNCHANGED <<pairEnd, hubToken, spent, candidate>>
           /\ pairing' \in PairingRow /\ pairing'.a = pairing.a /\ pairing'.res = pairing.res
           /\ pairing'.phase \in {pairing.phase, "rotating"}
           /\ handoff' \in HandoffRow /\ handoff'.from = handoff.from /\ handoff'.to = handoff.to
           /\ handoff'.phase \in {handoff.phase, "rotating"}
           /\ ~P!MarkRotating(w) => pairing'.phase = pairing.phase /\ handoff' = handoff
           /\ P!MarkRotating(w) /\ task[w].kind = "pair" => pairing'.phase = "rotating" /\ handoff' = handoff
           /\ P!MarkRotating(w) /\ task[w].kind # "pair" => pairing' = pairing
           /\ ~P!RotateSend(w) /\ ~P!IdleSend(w) => posts' = posts
<1>0. pairing \in PairingRow /\ handoff \in HandoffRow
  BY DEF PairTyped
<1>1. CASE P!LearnIdentity(w)
  BY <1>0, <1>1 DEF P!LearnIdentity, P!MarkRotating, PairingRow
<1>2. CASE P!MarkRotating(w)
  <2>1. CASE task[w].kind = "pair"
    BY <1>0, <1>2, <2>1 DEF P!MarkRotating, PairingRow
  <2>2. CASE task[w].kind # "pair"
    BY <1>0, <1>2, <2>2 DEF P!MarkRotating, HandoffRow
  <2> QED BY <2>1, <2>2
<1>3. CASE /\ ~P!LearnIdentity(w) /\ ~P!MarkRotating(w)
           /\ \/ P!TryCandidate(w) \/ P!RotateSend(w) \/ P!RotateProve(w) \/ P!ProbeForDisposal(w)
              \/ P!IdleCheck(w) \/ P!IdleSend(w) \/ P!RevokedCheck(w)
  BY <1>0, <1>3 DEF P!TryCandidate, P!RotateSend, P!RotateProve, P!ProbeForDisposal,
     P!IdleCheck, P!IdleSend, P!RevokedCheck
<1> QED BY <1>1, <1>2, <1>3

-----------------------------------------------------------------------------
(* Pairing and handoff: every step keeps the invariant *)

\* A worker starts, goes on, or ends.
Starts(w) == P!RetryPairing(w) \/ P!CancelPairing(w) \/ P!RetryHandoff(w)
Continues(w) ==
    \/ P!LearnIdentity(w) \/ P!TryCandidate(w) \/ P!MarkRotating(w) \/ P!RotateSend(w)
    \/ P!RotateProve(w) \/ P!ProbeForDisposal(w) \/ P!IdleCheck(w) \/ P!IdleSend(w)
    \/ P!RevokedCheck(w)
Ends(w) == P!PublishPairing(w) \/ P!DiscardPairing(w) \/ P!PublishHandoff(w) \/ P!GiveUp(w)
Arrives(m) == P!AgentRotates(m) \/ P!AgentIdles(m)

\* The steps of the protocol by what they are about.
LEMMA PairSteps ==
    ASSUME [P!PairNext]_pVars
    PROVE  \/ \E a \in Pairings : P!BeginPairing(a)
           \/ \E t \in P!Owned : P!BeginHandoff(t)
           \/ P!Withdraw
           \/ P!TakenElsewhere \/ P!PutToUse
           \/ \E w \in HubWorkers : Starts(w)
           \/ \E w \in HubWorkers : Continues(w)
           \/ \E w \in HubWorkers : Ends(w)
           \/ \E m \in posts : Arrives(m)
           \/ \E m \in posts : P!PostLost(m)
           \/ UNCHANGED pVars
BY DEF P!PairNext, Starts, Continues, Ends, Arrives

\* Where a worker ends, its row has become the outcome.
LEMMA EndsOfRows ==
    ASSUME PairTyped, PairRowsAgree, TasksFollowRows, NEW w \in HubWorkers, Ends(w)
    PROVE  /\ GetsRow(w, P!NoTask) /\ UNCHANGED <<spent, candidate, posts>>
           /\ \/ /\ task[w].kind = "pair" /\ task[w].pc = "publish"
                 /\ pairing.a = task[w].a /\ pairing.a \in Pairings /\ pairing.a # 0
                 /\ pairing.res = "none" /\ hubToken = P!None
                 /\ candidate.token = P!Candidate(pairing.a) /\ hubToken' = P!Candidate(pairing.a)
                 /\ pairEnd' = [pairEnd EXCEPT ![pairing.a] = "paired"]
                 /\ pairing' = P!NoPairing /\ handoff' = handoff
              \/ /\ task[w].kind = "cancel" /\ task[w].pc = "discard"
                 /\ pairing.a = task[w].a /\ pairing.a \in Pairings /\ pairing.a # 0
                 /\ hubToken = P!None /\ hubToken' = hubToken
                 /\ candidate.token = P!Disposal(pairing.a) /\ ~candidate.running
                 /\ pairEnd' = [pairEnd EXCEPT ![pairing.a] = "discarded"]
                 /\ pairing' = P!NoPairing /\ handoff' = handoff
              \/ /\ task[w].kind = "handoff" /\ task[w].pc = "publish"
                 /\ handoff.phase # "none" /\ handoff.to = task[w].new /\ hubToken = handoff.from
                 /\ candidate.token = handoff.to
                 /\ hubToken' = handoff.to /\ handoff' = P!NoHandoff
                 /\ UNCHANGED <<pairing, pairEnd>>
              \/ UNCHANGED <<pairing, pairEnd, hubToken, handoff>>
<1>0. task[w] \in TaskRow /\ Tasked(w)
  BY DEF PairTyped, TasksFollowRows
<1>1. GetsRow(w, P!NoTask) /\ UNCHANGED <<spent, candidate, posts>>
  BY TasksEnd DEF Ends
<1>2. CASE P!PublishPairing(w)
  <2>1. task[w].kind = "pair" /\ task[w].pc = "publish" /\ pairing.a = task[w].a
        /\ pairing.res = "none" /\ hubToken = P!None
    BY <1>2 DEF P!PublishPairing, P!Current
  <2>2. task[w].a \in Pairings /\ task[w].new = P!Candidate(pairing.a) /\ candidate.token = task[w].new
    BY <1>0, <2>1 DEF Tasked
  <2> QED BY <1>1, <1>2, <2>1, <2>2, LifecycleAssumption DEF P!PublishPairing
<1>3. CASE P!DiscardPairing(w)
  <2>1. task[w].pc = "discard" /\ task[w].kind = "cancel"
    BY <1>0, <1>3 DEF P!DiscardPairing, Tasked, TaskRow, P!NoTask
  <2>2. pairing.a = task[w].a /\ hubToken = P!None
    BY <1>3, <2>1 DEF P!DiscardPairing, P!Current
  <2>3. task[w].a \in Pairings /\ candidate.token = P!Disposal(pairing.a) /\ ~candidate.running
    BY <1>0, <2>1, <2>2 DEF Tasked
  <2> QED BY <1>1, <1>3, <2>1, <2>2, <2>3, LifecycleAssumption DEF P!DiscardPairing
<1>4. CASE P!PublishHandoff(w)
  <2>1. task[w].kind = "handoff" /\ task[w].pc = "publish" /\ handoff.to = task[w].new
        /\ hubToken = handoff.from
    BY <1>4 DEF P!PublishHandoff, P!Current
  <2>2. candidate.token = handoff.to /\ task[w].new \in spent
    BY <1>0, <2>1 DEF Tasked
  <2>3. handoff.phase # "none"
    BY <2>1, <2>2, TokensDiffer DEF PairRowsAgree, P!NoHandoff
  <2> QED BY <1>1, <1>4, <2>1, <2>2, <2>3 DEF P!PublishHandoff
<1>5. CASE P!GiveUp(w)
  BY <1>1, <1>5 DEF P!GiveUp
<1> QED BY <1>2, <1>3, <1>4, <1>5 DEF Ends

\* A row without content has no attempt, no resolution and no tokens.
LEMMA EmptyFields ==
    /\ P!NoPairing.a = 0 /\ P!NoPairing.res = "none" /\ P!NoPairing.phase = "pending"
    /\ P!NoHandoff.phase = "none" /\ P!NoHandoff.to = P!None /\ P!NoHandoff.from = P!None
    /\ P!NoTask.kind = "none" /\ P!NoTask.a = 0 /\ P!NoTask.pc = "idle" /\ P!NoTask.new = P!None
BY DEF P!NoPairing, P!NoHandoff, P!NoTask

\* A worker that continues is on its way.
LEMMA ContinuesTasked ==
    ASSUME PairTyped, TasksFollowRows, NEW w \in HubWorkers, Continues(w)
    PROVE  task[w].kind # "none" /\ \E pc \in TaskSteps, cred \in P!PairTokens : GoesOn(w, pc, cred)
<1>0. task[w] \in TaskRow /\ Tasked(w) /\ task[w].cred \in P!PairTokens /\ task[w].new \in P!PairTokens
  BY DEF PairTyped, TasksFollowRows, TaskRow
<1>1. task[w].pc # "idle"
  BY TasksGoOn DEF Continues
<1>2. task[w].kind # "none"
  BY <1>0, <1>1 DEF Tasked, P!NoTask
<1>3. task[w].pc = "probe" => task[w].a \in Pairings
  BY <1>0, <1>2 DEF Tasked, TaskRow
<1>4. P!Boot \in P!PairTokens /\ (task[w].a \in Pairings => P!Candidate(task[w].a) \in P!PairTokens)
  BY TokensDiffer
<1> QED BY <1>0, <1>2, <1>3, <1>4, TasksGoOn DEF Continues, TaskSteps

\* Every step keeps the types.
LEMMA PairTypesKept ==
    ASSUME AccessInv, [P!PairNext]_pVars PROVE PairTyped'
<1>0. PairTyped /\ PairRowsAgree /\ TasksFollowRows
  BY PairTypedFolds DEF AccessInv
<1>1. ASSUME NEW a \in Pairings, P!BeginPairing(a) PROVE PairTyped'
  <2>1. [P!NoPairing EXCEPT !.a = a] \in PairingRow
    BY EmptyRows DEF PairingRow
  <2> QED BY <1>0, <1>1, <2>1 DEF P!BeginPairing, PairTyped
<1>2. ASSUME NEW t \in P!Owned, P!BeginHandoff(t) PROVE PairTyped'
  <2>1. t \in P!PairTokens /\ hubToken \in P!PairTokens
    BY <1>0 DEF PairTyped, P!PairTokens
  <2>2. [from |-> hubToken, to |-> t, phase |-> "pending", rev |-> 0] \in HandoffRow
    BY <2>1 DEF HandoffRow
  <2> QED BY <1>0, <1>2, <2>1, <2>2 DEF P!BeginHandoff, PairTyped
<1>3. CASE P!Withdraw
  BY <1>0, <1>3, EmptyRows DEF P!Withdraw, PairTyped
<1>4. CASE P!TakenElsewhere \/ P!PutToUse
  BY <1>0, <1>4, AgentServes DEF PairTyped
<1>5. ASSUME NEW w \in HubWorkers, Starts(w) PROVE PairTyped'
  BY <1>0, <1>5, TasksStart DEF Starts, PairTyped, GetsRow
<1>6. ASSUME NEW w \in HubWorkers, Continues(w) PROVE PairTyped'
  <2>1. task' \in [HubWorkers -> TaskRow]
    BY <1>0, <1>6, ContinuesTasked DEF GoesOn
  <2>2. posts' \subseteq PostRow
    <3>1. CASE P!RotateSend(w) \/ P!IdleSend(w)
      BY <1>0, <3>1, PostIsSent DEF P!RotateSend, P!IdleSend
    <3>2. CASE ~(P!RotateSend(w) \/ P!IdleSend(w))
      BY <1>0, <1>6, <3>2, RowsGoOn DEF Continues, PairTyped
    <3> QED BY <3>1, <3>2
  <2> QED BY <1>0, <1>6, <2>1, <2>2, RowsGoOn DEF Continues, PairTyped
<1>7. ASSUME NEW w \in HubWorkers, Ends(w) PROVE PairTyped'
  <2>1. pairEnd' \in [Pairings -> {"none", "paired", "withdrawn", "discarded"}]
    BY <1>0, <1>7, EndsOfRows DEF PairTyped
  <2>2. pairing' \in PairingRow /\ handoff' \in HandoffRow
    BY <1>0, <1>7, EndsOfRows, EmptyRows DEF PairTyped
  <2>3. hubToken' \in P!PairTokens
    BY <1>0, <1>7, EndsOfRows, TokensDiffer DEF PairTyped, HandoffRow
  <2> QED BY <1>0, <1>7, <2>1, <2>2, <2>3, EndsOfRows DEF PairTyped, GetsRow
<1>8. ASSUME NEW m \in posts, Arrives(m) PROVE PairTyped'
  <2>1. CASE P!AgentRotates(m)
    <3>1. P!Answered(m, "rotateSent", "prove")
      BY <2>1 DEF P!AgentRotates
    <3> QED BY <1>0, <1>8, <3>1, AgentObeys, AnswerGoesOn DEF Arrives, PairTyped, GoesOn, TaskSteps
  <2>2. CASE P!AgentIdles(m)
    <3>1. P!Answered(m, "idleSent", "prove")
      BY <2>2 DEF P!AgentIdles
    <3> QED BY <1>0, <1>8, <3>1, AgentObeys, AnswerGoesOn DEF Arrives, PairTyped, GoesOn, TaskSteps
  <2> QED BY <1>8, <2>1, <2>2 DEF Arrives
<1>9. ASSUME NEW m \in posts, P!PostLost(m) PROVE PairTyped'
  BY <1>0, <1>9 DEF P!PostLost, PairTyped
<1>10. CASE UNCHANGED pVars
  BY <1>0, <1>10 DEF pVars, PairTyped
<1> QED BY <1>1, <1>2, <1>3, <1>4, <1>5, <1>6, <1>7, <1>8, <1>9, <1>10, PairSteps

\* The Agent obeys a rotation only with a token of the pairing under way, or of the
\* handoff under way.
LEMMA RotationIsCurrent ==
    ASSUME AccessInv, NEW m \in posts, P!AgentRotates(m)
    PROVE  /\ UNCHANGED <<pairing, pairEnd, hubToken, handoff, spent>>
           /\ candidate'.token = m.new /\ candidate'.running = candidate.running
           /\ candidate.token = m.cred
           /\ \/ /\ pairing.a \in Pairings /\ pairing.a # 0 /\ hubToken = P!None
                 /\ m.cred = P!Boot /\ m.new = P!Candidate(pairing.a) /\ pairing.phase = "rotating"
              \/ /\ pairing.a \in Pairings /\ pairing.a # 0 /\ hubToken = P!None
                 /\ m.cred \in {P!Boot, P!Candidate(pairing.a)} /\ m.new = P!Disposal(pairing.a)
                 /\ pairing.res = "cancelling"
              \/ /\ handoff.phase # "none" /\ hubToken # P!None
                 /\ m.cred = handoff.from /\ m.new = handoff.to
<1>0. /\ PairTyped /\ PairRowsAgree /\ PostExpected(m)
      /\ P!HubKeepsAccess /\ P!DiscardedPairingIsRevoked
  BY PairTypedFolds DEF AccessInv, PostsAreExpected
<1>1. candidate.token = m.cred /\ candidate'.token = m.new /\ candidate'.running = candidate.running
  BY <1>0, AgentObeys
<1>2. P!Answered(m, "rotateSent", "prove") /\ m.do \in {"rotate", "rotateFresh"}
  BY DEF P!AgentRotates
<1>3. UNCHANGED <<pairing, pairEnd, hubToken, handoff, spent>>
  BY <1>0, <1>2, AnswerGoesOn DEF TaskSteps
<1>4. CASE m.do = "rotateFresh"
  <2>1. PICK a \in Pairings :
          \/ /\ m.new = P!Candidate(a) /\ m.cred = P!Boot
             /\ \/ pairing.a = a /\ pairing.phase = "rotating"
                \/ pairEnd[a] \in {"paired", "discarded"}
          \/ /\ m.new = P!Disposal(a) /\ m.cred \in {P!Boot, P!Candidate(a)}
             /\ \/ pairing.a = a /\ pairing.res = "cancelling"
                \/ pairEnd[a] = "discarded"
    BY <1>0, <1>4 DEF PostExpected
  <2>2. \A b \in Pairings : pairEnd[b] # "discarded"
    <3>1. m.cred \in {P!Boot, P!Candidate(a)}
      BY <2>1
    <3>2. SUFFICES ASSUME NEW b \in Pairings, pairEnd[b] = "discarded" PROVE FALSE
      OBVIOUS
    <3>3. candidate.token = P!Disposal(b)
      BY <1>0, <3>2 DEF P!DiscardedPairingIsRevoked
    <3> QED BY <1>1, <3>1, <3>3, TokensDiffer
  <2>3. pairEnd[a] # "paired" \/ m.new = P!Disposal(a)
    <3>1. SUFFICES ASSUME pairEnd[a] = "paired", m.cred = P!Boot PROVE FALSE
      BY <2>1
    <3>2. hubToken # P!None /\ hubToken \in Registrable /\ pairing.a \in Pairings \union {0}
      BY <1>0, <3>1 DEF PairRowsAgree, PairTyped, PairingRow
    <3>3. candidate.token = P!Boot /\ P!Boot \notin Registrable /\ P!Boot # P!Foreign
      BY <1>1, <3>1, TokensDiffer
    <3>4. handoff.phase # "none" => {handoff.from, handoff.to} \subseteq Registrable
      BY <1>0 DEF PairRowsAgree
    <3> QED BY <1>0, <2>2, <3>2, <3>3, <3>4 DEF P!HubKeepsAccess
  <2>4. pairing.a = a
    BY <2>1, <2>2, <2>3, TokensDiffer
  <2> QED BY <1>0, <1>1, <1>3, <2>1, <2>2, <2>3, <2>4, LifecycleAssumption DEF PairRowsAgree
<1>5. CASE m.do = "rotate"
  <2>1. m.cred \in spent /\ m.cred \in Registrable
    BY <1>0, <1>5 DEF PostExpected, PairRowsAgree
  <2>2. handoff.phase = "none" => handoff.to = P!None
    BY <1>0, EmptyFields DEF PairRowsAgree
  <2>3. CASE handoff.phase # "none" /\ m.cred = handoff.from /\ m.new = handoff.to
    BY <1>0, <1>1, <1>3, <2>3 DEF PairRowsAgree
  <2>4. CASE m.cred # hubToken /\ m.cred # handoff.to
    <3>1. m.cred # P!Foreign /\ m.cred # P!Boot /\ \A a \in Pairings : m.cred # P!Disposal(a)
      BY <2>1, TokensDiffer
    <3>2. \A a \in Pairings : pairEnd[a] # "discarded"
      BY <1>0, <1>1, <3>1 DEF P!DiscardedPairingIsRevoked
    <3>3. hubToken # P!None
      BY <1>0, <2>1 DEF PairRowsAgree
    <3>4. handoff.phase # "none" => handoff.from = hubToken
      BY <1>0 DEF PairRowsAgree
    <3> QED BY <1>0, <1>1, <2>4, <3>1, <3>2, <3>3, <3>4 DEF P!HubKeepsAccess
  <2> QED BY <1>0, <1>5, <2>3, <2>4 DEF PostExpected
<1> QED BY <1>2, <1>4, <1>5

\* Every step keeps the rows in agreement.
LEMMA PairRowsKept ==
    ASSUME AccessInv, [P!PairNext]_pVars PROVE PairRowsAgree'
<1>0. /\ PairTyped /\ PairRowsAgree /\ TasksFollowRows
      /\ P!HubKeepsAccess /\ P!DiscardedPairingIsRevoked
  BY PairTypedFolds DEF AccessInv
<1>1. ASSUME NEW a \in Pairings, P!BeginPairing(a) PROVE PairRowsAgree'
  <2>1. /\ UNCHANGED <<pairEnd, hubToken, handoff, spent, candidate>> /\ pairEnd[a] = "none"
        /\ hubToken = P!None /\ pairing.a = 0 /\ pairing'.a = a /\ pairing'.phase = "pending"
    BY <1>1 DEF P!BeginPairing, P!NoPairing
  <2>2. candidate.token # P!Candidate(a)
    <3>1. handoff.phase = "none"
      BY <1>0, <2>1 DEF PairRowsAgree
    <3>2. candidate.token = P!Boot \/ candidate.token = P!Foreign
          \/ \E b \in Pairings : candidate.token = P!Disposal(b)
      BY <1>0, <2>1, <3>1 DEF P!HubKeepsAccess, P!DiscardedPairingIsRevoked
    <3> QED BY <3>2, TokensDiffer
  <2> QED BY <1>0, <2>1, <2>2 DEF PairRowsAgree
<1>2. ASSUME NEW t \in P!Owned, P!BeginHandoff(t) PROVE PairRowsAgree'
  <2>1. /\ UNCHANGED <<pairing, pairEnd, hubToken, candidate>> /\ hubToken # P!None /\ t # hubToken
        /\ spent' = spent \union {hubToken, t} /\ t \in Registrable /\ hubToken \in Registrable
        /\ handoff'.from = hubToken /\ handoff'.to = t /\ handoff'.phase = "pending"
    BY <1>0, <1>2 DEF P!BeginHandoff, Registrable, PairRowsAgree
  <2> QED BY <1>0, <2>1 DEF PairRowsAgree
<1>3. CASE P!Withdraw
  <2>1. /\ UNCHANGED <<hubToken, handoff, spent, candidate>> /\ pairing' = P!NoPairing
        /\ pairEnd' = [pairEnd EXCEPT ![pairing.a] = "withdrawn"]
    BY <1>3 DEF P!Withdraw
  <2>2. \A a \in Pairings : pairEnd'[a] = "paired" => pairEnd[a] = "paired"
    BY <1>0, <2>1 DEF PairTyped
  <2> QED BY <1>0, <2>1, <2>2, EmptyFields DEF PairRowsAgree
<1>4. CASE P!TakenElsewhere \/ P!PutToUse
  BY <1>0, <1>4, AgentServes, TokensDiffer DEF PairRowsAgree
<1>5. ASSUME NEW w \in HubWorkers, Starts(w) PROVE PairRowsAgree'
  <2>1. /\ pairing'.a = pairing.a /\ pairing'.phase = pairing.phase
        /\ handoff'.from = handoff.from /\ handoff'.to = handoff.to /\ handoff'.phase = handoff.phase
        /\ UNCHANGED <<pairEnd, hubToken, spent, candidate>>
    BY <1>0, <1>5, TasksStart DEF Starts
  <2>2. handoff.phase = "none" => handoff' = handoff
    BY <1>5 DEF Starts, P!RetryPairing, P!CancelPairing, P!RetryHandoff, P!StartPairing
  <2> QED BY <1>0, <2>1, <2>2 DEF PairRowsAgree
<1>6. ASSUME NEW w \in HubWorkers, Continues(w) PROVE PairRowsAgree'
  <2>1. /\ pairing'.a = pairing.a /\ pairing'.phase \in {pairing.phase, "rotating"}
        /\ handoff'.from = handoff.from /\ handoff'.to = handoff.to
        /\ handoff'.phase \in {handoff.phase, "rotating"}
        /\ UNCHANGED <<pairEnd, hubToken, spent, candidate>>
    BY <1>0, <1>6, RowsGoOn DEF Continues
  <2>2. handoff.phase = "none" => handoff' = handoff
    <3>1. CASE P!MarkRotating(w) /\ task[w].kind # "pair" /\ handoff.phase = "none"
      <4>1. task[w].kind = "handoff"
        BY <1>0, <3>1, TasksGoOn DEF TasksFollowRows, Tasked, PairTyped, TaskRow, P!NoTask
      <4>2. handoff.to = task[w].new /\ task[w].new \in spent
        BY <1>0, <3>1, <4>1 DEF P!MarkRotating, P!Healthy, P!Current, TasksFollowRows, Tasked
      <4> QED BY <1>0, <3>1, <4>2, EmptyFields, TokensDiffer DEF PairRowsAgree
    <3> QED BY <1>0, <1>6, <3>1, RowsGoOn DEF Continues
  <2>3. handoff.phase # "none" => handoff'.phase # "none"
    BY <2>1
  <2> QED BY <1>0, <2>1, <2>2, <2>3 DEF PairRowsAgree
<1>7. ASSUME NEW w \in HubWorkers, Ends(w) PROVE PairRowsAgree'
  <2>1. \A a \in Pairings : pairEnd'[a] = "paired" =>
           \/ pairEnd[a] = "paired"
           \/ hubToken' = P!Candidate(pairing.a) /\ a = pairing.a
    BY <1>0, <1>7, EndsOfRows DEF PairTyped
  <2>2. hubToken' \in Registrable \union {P!None} /\ (hubToken # P!None => hubToken' # P!None)
    <3>1. pairing.a \in Pairings => P!Candidate(pairing.a) \in Registrable
      BY DEF Registrable
    <3>2. handoff.phase # "none" => handoff.to \in Registrable
      BY <1>0 DEF PairRowsAgree
    <3> QED BY <1>0, <1>7, <3>1, <3>2, EndsOfRows, TokensDiffer DEF PairRowsAgree
  <2>3. \A a \in Pairings : pairEnd'[a] = "paired" => hubToken' # P!None
    BY <1>0, <2>1, <2>2, TokensDiffer DEF PairRowsAgree
  <2>4. pairing'.a # 0 => pairing' = pairing /\ pairEnd' = pairEnd /\ hubToken' = hubToken
    <3>1. handoff.phase # "none" => pairing.a = 0
      BY <1>0 DEF PairRowsAgree
    <3> QED BY <1>0, <1>7, <3>1, EndsOfRows, EmptyFields
  <2>5. IF handoff'.phase = "none" THEN handoff' = P!NoHandoff
        ELSE handoff' = handoff /\ hubToken' = hubToken
    <3>1. handoff.phase # "none" => hubToken # P!None
      BY <1>0 DEF PairRowsAgree
    <3> QED BY <1>0, <1>7, <3>1, EndsOfRows, EmptyFields DEF PairRowsAgree
  <2>6. UNCHANGED <<spent, candidate>>
    BY <1>0, <1>7, EndsOfRows
  <2> QED BY <1>0, <2>2, <2>3, <2>4, <2>5, <2>6 DEF PairRowsAgree
<1>8. ASSUME NEW m \in posts, Arrives(m) PROVE PairRowsAgree'
  <2>1. CASE P!AgentRotates(m)
    <3>1. UNCHANGED <<pairing, pairEnd, hubToken, handoff, spent>>
      BY <2>1, RotationIsCurrent
    <3>2. candidate'.token # P!None
      <4>1. handoff.phase # "none" => handoff.to \in Registrable
        BY <1>0 DEF PairRowsAgree
      <4> QED BY <2>1, <4>1, RotationIsCurrent, TokensDiffer
    <3>3. pairing.a # 0 /\ candidate'.token = P!Candidate(pairing.a) => pairing.phase = "rotating"
      <4>1. handoff.phase # "none" => pairing.a = 0
        BY <1>0 DEF PairRowsAgree
      <4> QED BY <2>1, <4>1, RotationIsCurrent, TokensDiffer
    <3> QED BY <1>0, <3>1, <3>2, <3>3 DEF PairRowsAgree
  <2>2. CASE P!AgentIdles(m)
    <3>1. P!Answered(m, "idleSent", "prove")
      BY <2>2 DEF P!AgentIdles
    <3>2. UNCHANGED <<pairing, pairEnd, hubToken, handoff, spent>> /\ candidate'.token = candidate.token
      BY <1>0, <2>2, <3>1, AnswerGoesOn, AgentObeys DEF TaskSteps
    <3> QED BY <1>0, <3>2 DEF PairRowsAgree
  <2> QED BY <1>8, <2>1, <2>2 DEF Arrives
<1>9. ASSUME (\E m \in posts : P!PostLost(m)) \/ UNCHANGED pVars PROVE PairRowsAgree'
  BY <1>0, <1>9 DEF P!PostLost, pVars, PairRowsAgree
<1> QED BY <1>1, <1>2, <1>3, <1>4, <1>5, <1>6, <1>7, <1>8, <1>9, PairSteps


\* Every step keeps the workers to their rows.
LEMMA TasksKept ==
    ASSUME AccessInv, [P!PairNext]_pVars, NEW v \in HubWorkers PROVE Tasked(v)'
<1>0. /\ PairTyped /\ PairRowsAgree /\ TasksFollowRows /\ Tasked(v) /\ task[v] \in TaskRow
  BY PairTypedFolds DEF AccessInv, TasksFollowRows, PairTyped
<1>0a. /\ task[v].kind \in {"pair", "cancel"} => task[v].a # 0
       /\ task[v].kind = "handoff" => task[v].new # P!None /\ spent # {} /\ hubToken # P!None
  BY <1>0, LifecycleAssumption, TokensDiffer DEF Tasked, PairRowsAgree
<1>1. ASSUME NEW a \in Pairings, P!BeginPairing(a) PROVE Tasked(v)'
  <2>1. /\ UNCHANGED <<pairEnd, hubToken, handoff, spent, candidate, task>> /\ pairEnd[a] = "none"
        /\ pairing.a = 0 /\ pairing'.a = a
    BY <1>1 DEF P!BeginPairing, P!NoPairing
  <2>2. task[v].kind \in {"pair", "cancel"} => task[v].a # a
    BY <1>0, <1>0a, <2>1 DEF Tasked
  <2> QED BY <1>0, <1>0a, <2>1, <2>2 DEF Tasked
<1>2. ASSUME NEW t \in P!Owned, P!BeginHandoff(t) PROVE Tasked(v)'
  <2>1. /\ UNCHANGED <<pairing, pairEnd, hubToken, candidate, task>> /\ t \notin spent
        /\ spent \subseteq spent' /\ handoff'.to = t
    BY <1>2 DEF P!BeginHandoff
  <2>2. task[v].kind = "handoff" => task[v].new # t
    BY <1>0, <2>1 DEF Tasked
  <2> QED BY <1>0, <2>1, <2>2 DEF Tasked
<1>3. CASE P!Withdraw
  <2>1. /\ UNCHANGED <<hubToken, handoff, spent, candidate, task>> /\ pairing'.a = 0
        /\ pairEnd' = [pairEnd EXCEPT ![pairing.a] = "withdrawn"]
    BY <1>3, EmptyFields DEF P!Withdraw
  <2>2. \A a \in Pairings : pairEnd[a] # "none" \/ a = pairing.a => pairEnd'[a] # "none"
    BY <1>0, <2>1 DEF PairTyped
  <2> QED BY <1>0, <1>0a, <2>1, <2>2 DEF Tasked
<1>4. CASE P!TakenElsewhere \/ P!PutToUse
  <2>1. /\ UNCHANGED <<pairing, pairEnd, hubToken, handoff, spent, posts, task>>
        /\ candidate.token # P!Boot => candidate'.token = candidate.token
        /\ candidate.token \in Registrable \union {P!None, P!Boot}
    BY <1>0, <1>4, AgentServes DEF PairRowsAgree
  <2>2. task[v].kind = "cancel" => task[v].pc \notin {"revoked", "discard"}
    BY <1>0, <2>1, TokensDiffer DEF Tasked
  <2>3. task[v].kind = "handoff" => task[v].new # P!Boot
    BY <1>0, TokensDiffer DEF Tasked, PairRowsAgree
  <2>4. task[v].kind = "pair" => task[v].new # P!Boot
    BY <1>0, TokensDiffer DEF Tasked
  <2> QED BY <1>0, <2>1, <2>2, <2>3, <2>4 DEF Tasked
<1>5. ASSUME NEW w \in HubWorkers, Starts(w) PROVE Tasked(v)'
  <2>1. /\ pairing'.a = pairing.a /\ pairing'.phase = pairing.phase
        /\ handoff'.from = handoff.from /\ handoff'.to = handoff.to
        /\ UNCHANGED <<pairEnd, hubToken, spent, candidate>>
        /\ pairing'.res \in {pairing.res, "cancelling"} /\ pairing.res \in {"none", "cancelling"}
    BY <1>0, <1>5, TasksStart DEF Starts, PairTyped, PairingRow
  <2>2. CASE v # w
    <3>1. task'[v] = task[v]
      BY <1>0, <1>5, <2>2, TasksStart DEF Starts, GetsRow
    <3> QED BY <1>0, <2>1, <3>1 DEF Tasked
  <2>3. CASE v = w
    <3>1. pairing.a # 0 => pairing.a \in Pairings
      BY <1>0 DEF PairTyped, PairingRow
    <3>2. handoff.phase # "none" => {handoff.from, handoff.to} \subseteq spent
      BY <1>0 DEF PairRowsAgree
    <3>3. CASE \E pc \in {"learn", "try"} : \E rev \in Nat :
                  /\ pairing.a # 0
                  /\ task'[v] = [kind |-> "pair", a |-> pairing.a, pc |-> pc, rev |-> rev,
                                 cred |-> P!Boot, new |-> P!Candidate(pairing.a)]
      <4>1. /\ task'[v].kind = "pair" /\ task'[v].a = pairing.a /\ task'[v].pc \in {"learn", "try"}
            /\ task'[v].cred = P!Boot /\ task'[v].new = P!Candidate(pairing.a) /\ pairing.a # 0
        BY <3>3
      <4> QED BY <2>1, <3>1, <4>1 DEF Tasked
    <3>4. CASE \E rev \in Nat :
                  /\ pairing.a # 0 /\ pairing'.res = "cancelling"
                  /\ task'[v] = [kind |-> "cancel", a |-> pairing.a, pc |-> "probe", rev |-> rev,
                                 cred |-> P!Boot, new |-> P!Disposal(pairing.a)]
      <4>1. /\ task'[v].kind = "cancel" /\ task'[v].a = pairing.a /\ task'[v].pc = "probe"
            /\ task'[v].cred = P!Boot /\ task'[v].new = P!Disposal(pairing.a)
            /\ pairing.a # 0 /\ pairing'.res = "cancelling"
        BY <3>4
      <4> QED BY <2>1, <3>1, <4>1 DEF Tasked
    <3>5. CASE \E rev \in Nat :
                  /\ handoff.phase # "none"
                  /\ task'[v] = [kind |-> "handoff", a |-> 0, pc |-> "try", rev |-> rev,
                                 cred |-> handoff.from, new |-> handoff.to]
      <4>1. /\ task'[v].kind = "handoff" /\ task'[v].pc = "try" /\ handoff.phase # "none"
            /\ task'[v].cred = handoff.from /\ task'[v].new = handoff.to
        BY <3>5
      <4> QED BY <2>1, <3>2, <4>1 DEF Tasked
    <3> QED BY <1>0, <1>5, <2>3, <3>3, <3>4, <3>5, TasksStart DEF Starts, GetsRow
  <2> QED BY <2>2, <2>3
<1>6. ASSUME NEW w \in HubWorkers, Continues(w) PROVE Tasked(v)'
  <2>1. /\ pairing'.a = pairing.a /\ pairing'.res = pairing.res
        /\ pairing'.phase \in {pairing.phase, "rotating"}
        /\ handoff'.from = handoff.from /\ handoff'.to = handoff.to
        /\ UNCHANGED <<pairEnd, hubToken, spent, candidate>>
    BY <1>0, <1>6, RowsGoOn DEF Continues
  <2>2. CASE v # w
    <3>1. task'[v] = task[v]
      BY <1>0, <1>6, <2>2, ContinuesTasked DEF GoesOn
    <3> QED BY <1>0, <2>1, <3>1 DEF Tasked
  <2>3. CASE v = w
    <3>0. task'[v].kind = task[v].kind /\ task'[v].a = task[v].a /\ task'[v].new = task[v].new
          /\ task[v].kind \in {"pair", "cancel", "handoff"}
      BY <1>0, <1>6, <2>3, ContinuesTasked DEF GoesOn, TaskRow
    <3>1. CASE task[v].kind = "pair"
      <4>1. /\ task'[v].cred = task[v].cred
            /\ task'[v].pc \in {"try", "publish", "earlier", "rotate", "rotateSent"}
            /\ task'[v].pc = "publish" => candidate.token = task[v].new
            /\ task'[v].pc = "rotate" => pairing'.phase = "rotating"
        BY <1>0, <1>6, <2>3, <3>1, TasksGoOn, RowsGoOn DEF Continues, GoesOn, Tasked
      <4> QED BY <1>0, <2>1, <3>0, <3>1, <4>1 DEF Tasked
    <3>2. CASE task[v].kind = "handoff"
      <4>1. /\ task'[v].cred = task[v].cred
            /\ task'[v].pc \in {"publish", "earlier", "rotate", "rotateSent"}
            /\ task'[v].pc = "publish" => candidate.token = task[v].new
        BY <1>0, <1>6, <2>3, <3>2, TasksGoOn DEF Continues, GoesOn, Tasked
      <4> QED BY <1>0, <2>1, <3>0, <3>2, <4>1 DEF Tasked
    <3>3. CASE task[v].kind = "cancel"
      <4>1. /\ task'[v].cred \in {task[v].cred, task[v].new, P!Candidate(task[v].a), P!Boot}
            /\ task'[v].pc \in {"prove", "rotate", "stop", "revoked", "rotateSent", "idleSent", "discard"}
            /\ task'[v].pc = "rotate" => task'[v].cred \in {P!Candidate(task[v].a), P!Boot}
            /\ task'[v].pc \in {"revoked", "discard"} =>
                  candidate.token = task[v].new /\ ~candidate.running
        BY <1>0, <1>6, <2>3, <3>3, TasksGoOn DEF Continues, GoesOn, Tasked
      <4> QED BY <1>0, <2>1, <3>0, <3>3, <4>1, TokensDiffer DEF Tasked
    <3> QED BY <3>0, <3>1, <3>2, <3>3
  <2> QED BY <2>2, <2>3
<1>7. ASSUME NEW w \in HubWorkers, Ends(w) PROVE Tasked(v)'
  <2>1. CASE v = w
    <3>1. task'[v] = P!NoTask
      BY <1>0, <1>7, <2>1, EndsOfRows DEF GetsRow
    <3> QED BY <3>1, EmptyFields DEF Tasked
  <2>2. CASE v # w
    <3>1. task'[v] = task[v] /\ UNCHANGED <<spent, candidate>>
      BY <1>0, <1>7, <2>2, EndsOfRows DEF GetsRow
    <3>2. /\ \A a \in Pairings : pairEnd[a] # "none" => pairEnd'[a] # "none"
          /\ pairing' = pairing \/ (pairing'.a = 0 /\ pairing.a \in Pairings /\ pairEnd'[pairing.a] # "none")
          /\ handoff' = handoff \/ handoff'.to = P!None
      BY <1>0, <1>7, EndsOfRows, EmptyFields DEF PairTyped
    <3> QED BY <1>0, <1>0a, <3>1, <3>2 DEF Tasked
  <2> QED BY <2>1, <2>2
<1>8. ASSUME NEW m \in posts, Arrives(m) PROVE Tasked(v)'
  <2>1. /\ UNCHANGED <<pairing, pairEnd, hubToken, handoff, spent>>
        /\ task'[v].kind = task[v].kind /\ task'[v].a = task[v].a /\ task'[v].new = task[v].new
        /\ task'[v].cred = task[v].cred
        /\ \/ task'[v] = task[v]
           \/ task[v].pc \in {"rotateSent", "idleSent"} /\ task'[v].pc = "prove"
    <3>1. P!Answered(m, "rotateSent", "prove") \/ P!Answered(m, "idleSent", "prove")
      BY <1>8 DEF Arrives, P!AgentRotates, P!AgentIdles
    <3>2. CASE P!Answered(m, "rotateSent", "prove")
      BY <1>0, <3>2, AnswerGoesOn DEF GoesOn, TaskSteps
    <3>3. CASE P!Answered(m, "idleSent", "prove")
      BY <1>0, <3>3, AnswerGoesOn DEF GoesOn, TaskSteps
    <3> QED BY <3>1, <3>2, <3>3
  <2>2. CASE P!AgentRotates(m)
    <3>1. CASE task[v].kind = "pair"
      <4>1. pairing.a = task[v].a /\ pairing.res = "none" => candidate.token # P!Candidate(pairing.a)
        <5>1. handoff.phase # "none" => pairing.a = 0
          BY <1>0 DEF PairRowsAgree
        <5> QED BY <1>0, <1>0a, <2>2, <3>1, <5>1, RotationIsCurrent, TokensDiffer
      <4>2. pairing.a = task[v].a /\ pairing.res = "none" => task[v].pc # "publish"
        BY <1>0, <3>1, <4>1 DEF Tasked
      <4> QED BY <1>0, <2>1, <3>1, <4>2 DEF Tasked
    <3>2. CASE task[v].kind = "cancel"
      <4>1. m.cred # P!Disposal(task[v].a)
        <5>1. handoff.phase # "none" => handoff.from \in Registrable
          BY <1>0 DEF PairRowsAgree
        <5> QED BY <2>2, <5>1, RotationIsCurrent, TokensDiffer
      <4>2. task[v].pc \notin {"revoked", "discard"}
        BY <1>0, <2>2, <3>2, <4>1, RotationIsCurrent DEF Tasked
      <4> QED BY <1>0, <2>1, <3>2, <4>2 DEF Tasked
    <3>3. CASE task[v].kind = "handoff"
      <4>1. handoff.phase # "none" /\ m.cred = handoff.from /\ handoff.from # handoff.to
        BY <1>0, <1>0a, <2>2, <3>3, RotationIsCurrent DEF PairRowsAgree
      <4>2. handoff.to = task[v].new => task[v].pc # "publish"
        BY <1>0, <2>2, <3>3, <4>1, RotationIsCurrent DEF Tasked
      <4> QED BY <1>0, <2>1, <3>3, <4>2 DEF Tasked
    <3>4. CASE task[v].kind = "none"
      BY <1>0, <2>1, <3>4, EmptyFields DEF Tasked
    <3> QED BY <1>0, <3>1, <3>2, <3>3, <3>4 DEF TaskRow
  <2>3. CASE P!AgentIdles(m)
    <3>1. candidate'.token = candidate.token /\ ~candidate'.running
      BY <1>0, <2>3, AgentObeys
    <3> QED BY <1>0, <2>1, <3>1, EmptyFields DEF Tasked
  <2> QED BY <1>8, <2>2, <2>3 DEF Arrives
<1>9. ASSUME (\E m \in posts : P!PostLost(m)) \/ UNCHANGED pVars PROVE Tasked(v)'
  BY <1>0, <1>9 DEF P!PostLost, pVars, Tasked
<1> QED BY <1>1, <1>2, <1>3, <1>4, <1>5, <1>6, <1>7, <1>8, <1>9, PairSteps

\* Every step keeps the requests to what a journal names.
LEMMA PostsKept ==
    ASSUME AccessInv, [P!PairNext]_pVars, NEW m \in posts' PROVE PostExpected(m)'
<1>0. /\ PairTyped /\ PairRowsAgree /\ TasksFollowRows
      /\ \A n \in posts : PostExpected(n) /\ n \in PostRow
  BY PairTypedFolds DEF AccessInv, PostsAreExpected, PairTyped
<1>1. ASSUME NEW a \in Pairings, P!BeginPairing(a) PROVE PostExpected(m)'
  <2>1. /\ UNCHANGED <<pairEnd, hubToken, handoff, spent, posts>> /\ pairing.a = 0
    BY <1>1 DEF P!BeginPairing
  <2> QED BY <1>0, <2>1, LifecycleAssumption DEF PostExpected
<1>2. ASSUME NEW t \in P!Owned, P!BeginHandoff(t) PROVE PostExpected(m)'
  <2>1. /\ UNCHANGED <<pairing, pairEnd, hubToken, posts>> /\ t \notin spent /\ handoff.phase = "none"
        /\ spent \subseteq spent' /\ handoff'.to = t
    BY <1>2 DEF P!BeginHandoff
  <2> QED BY <1>0, <2>1 DEF PostExpected
<1>3. CASE P!Withdraw
  <2>1. /\ UNCHANGED <<hubToken, handoff, spent, posts>> /\ pairing.phase = "pending"
        /\ pairing.res = "none" /\ pairing.a # 0
        /\ pairEnd' = [pairEnd EXCEPT ![pairing.a] = "withdrawn"]
    BY <1>3 DEF P!Withdraw
  <2>2. \A a \in Pairings : pairEnd[a] # "none" => pairEnd'[a] = pairEnd[a]
    BY <1>0, <2>1 DEF PairTyped, PairRowsAgree
  <2> QED BY <1>0, <2>1, <2>2 DEF PostExpected
<1>4. CASE P!TakenElsewhere \/ P!PutToUse
  BY <1>0, <1>4, AgentServes DEF PostExpected
<1>5. ASSUME NEW w \in HubWorkers, Starts(w) PROVE PostExpected(m)'
  <2>1. /\ pairing'.a = pairing.a /\ pairing'.phase = pairing.phase
        /\ handoff'.from = handoff.from /\ handoff'.to = handoff.to /\ handoff'.phase = handoff.phase
        /\ UNCHANGED <<pairEnd, hubToken, spent, posts>>
        /\ pairing'.res \in {pairing.res, "cancelling"}
    BY <1>0, <1>5, TasksStart DEF Starts
  <2> QED BY <1>0, <2>1 DEF PostExpected
<1>6. ASSUME NEW w \in HubWorkers, Continues(w) PROVE PostExpected(m)'
  <2>1. /\ pairing'.a = pairing.a /\ pairing'.res = pairing.res
        /\ pairing'.phase \in {pairing.phase, "rotating"}
        /\ handoff'.from = handoff.from /\ handoff'.to = handoff.to
        /\ handoff'.phase \in {handoff.phase, "rotating"}
        /\ UNCHANGED <<pairEnd, hubToken, spent>>
    BY <1>0, <1>6, RowsGoOn DEF Continues
  <2>2. CASE m \in posts
    <3>1. PostExpected(m)
      BY <1>0, <2>2
    <3> QED BY <2>1, <3>1 DEF PostExpected
  <2>3. CASE m \notin posts
    <3>1. P!RotateSend(w) \/ P!IdleSend(w)
      BY <1>0, <1>6, <2>3, RowsGoOn DEF Continues
    <3>2. CASE P!IdleSend(w)
      <4>1. m.do = "idle"
        BY <1>0, <2>3, <3>2 DEF P!IdleSend, P!Send
      <4> QED BY <4>1 DEF PostExpected
    <3>3. CASE P!RotateSend(w)
      <4>0. Tasked(w) /\ task[w].pc = "rotate" /\ P!Current(w)
            /\ UNCHANGED <<pairing, pairEnd, hubToken, handoff, spent>>
            /\ m.cred = task[w].cred /\ m.new = task[w].new
            /\ m.do = IF task[w].kind = "handoff" THEN "rotate" ELSE "rotateFresh"
        BY <1>0, <2>3, <3>3 DEF P!RotateSend, P!Send, TasksFollowRows
      <4>1. CASE task[w].kind = "handoff"
        <5>1. handoff.to = task[w].new /\ m.cred = handoff.from /\ m.cred \in spent /\ m.new \in spent
          BY <4>0, <4>1 DEF P!Current, Tasked
        <5>2. handoff.phase # "none"
          BY <1>0, <4>0, <5>1, EmptyFields, TokensDiffer DEF PairRowsAgree
        <5> QED BY <4>0, <4>1, <5>1, <5>2 DEF PostExpected
      <4>2. CASE task[w].kind = "pair"
        BY <4>0, <4>2 DEF P!Current, Tasked, PostExpected
      <4>3. CASE task[w].kind = "cancel"
        BY <4>0, <4>3 DEF P!Current, Tasked, PostExpected
      <4>4. task[w].kind # "none"
        BY <1>0, <1>6, ContinuesTasked
      <4>5. task[w].kind \in {"none", "pair", "cancel", "handoff"}
        BY <1>0 DEF PairTyped, TaskRow
      <4> QED BY <4>1, <4>2, <4>3, <4>4, <4>5
    <3> QED BY <3>1, <3>2, <3>3
  <2> QED BY <2>2, <2>3
<1>7. ASSUME NEW w \in HubWorkers, Ends(w) PROVE PostExpected(m)'
  <2>0. PostExpected(m) /\ UNCHANGED <<spent, posts>>
    BY <1>0, <1>7, EndsOfRows
  <2>1. \A a \in Pairings :
           /\ pairEnd[a] # "none" => pairEnd'[a] = pairEnd[a]
           /\ pairing.a = a => \/ pairing' = pairing
                               \/ pairEnd'[a] = "discarded"
                               \/ pairEnd'[a] = "paired" /\ pairing.res = "none"
    BY <1>0, <1>7, EndsOfRows DEF PairTyped, PairRowsAgree
  <2>2. m.do = "rotate" =>
          \/ handoff'.phase # "none" /\ m.cred = handoff'.from /\ m.new = handoff'.to
          \/ m.cred # hubToken' /\ m.cred # handoff'.to
    <3>1. SUFFICES ASSUME m.do = "rotate"
                   PROVE  \/ handoff'.phase # "none" /\ m.cred = handoff'.from /\ m.new = handoff'.to
                          \/ m.cred # hubToken' /\ m.cred # handoff'.to
      OBVIOUS
    <3>2. m.cred \in spent /\ m.cred # P!None /\ hubToken # P!None
      BY <1>0, <2>0, <3>1, TokensDiffer DEF PostExpected, PairRowsAgree
    <3>3. handoff.phase # "none" => handoff.from # handoff.to
      BY <1>0 DEF PairRowsAgree
    <3>4. \/ UNCHANGED <<hubToken, handoff>>
          \/ handoff.phase # "none" /\ hubToken' = handoff.to /\ handoff'.to = P!None
      BY <1>0, <1>7, <3>2, EndsOfRows, EmptyFields
    <3> QED BY <2>0, <3>1, <3>2, <3>3, <3>4 DEF PostExpected
  <2> QED BY <2>0, <2>1, <2>2 DEF PostExpected
<1>8. ASSUME NEW n \in posts, Arrives(n) PROVE PostExpected(m)'
  <2>1. /\ UNCHANGED <<pairing, pairEnd, hubToken, handoff, spent>> /\ posts' = posts \ {n}
    BY <1>8 DEF Arrives, P!AgentRotates, P!AgentIdles, P!Answered
  <2> QED BY <1>0, <2>1 DEF PostExpected
<1>9. ASSUME (\E n \in posts : P!PostLost(n)) \/ UNCHANGED pVars PROVE PostExpected(m)'
  BY <1>0, <1>9 DEF P!PostLost, pVars, PostExpected
<1> QED BY <1>1, <1>2, <1>3, <1>4, <1>5, <1>6, <1>7, <1>8, <1>9, PairSteps

\* The Hub's access, row by row.
HubReaches ==
    \/ candidate.token = P!Foreign
    \/ \E a \in Pairings : pairEnd[a] = "discarded"
    \/ handoff.phase # "none" /\ (candidate.token = handoff.from \/ candidate.token = handoff.to)
    \/ handoff.phase = "none" /\ hubToken # P!None /\ candidate.token = hubToken
    \/ /\ handoff.phase = "none" /\ hubToken = P!None
       /\ \/ candidate.token = P!Boot
          \/ pairing.a # 0 /\ candidate.token = P!Candidate(pairing.a)
          \/ /\ pairing.a # 0 /\ pairing.res = "cancelling"
             /\ candidate.token = P!Disposal(pairing.a)

\* It says the same.
LEMMA AccessByRow == (P!HubKeepsAccess <=> HubReaches) /\ (P!HubKeepsAccess' <=> HubReaches')
BY DEF P!HubKeepsAccess, HubReaches

\* Every step keeps the Hub's access.
LEMMA AccessKept ==
    ASSUME AccessInv, [P!PairNext]_pVars PROVE P!HubKeepsAccess'
<1> SUFFICES HubReaches'
  BY AccessByRow
<1>0. /\ PairTyped /\ PairRowsAgree /\ PairRowsAgree' /\ TasksFollowRows
      /\ HubReaches /\ P!DiscardedPairingIsRevoked
  BY PairTypedFolds, PairRowsKept, AccessByRow DEF AccessInv
<1>1. ASSUME NEW a \in Pairings, P!BeginPairing(a) PROVE HubReaches'
  <2>1. /\ UNCHANGED <<pairEnd, hubToken, handoff, candidate>>
        /\ hubToken = P!None /\ pairing.a = 0
    BY <1>1 DEF P!BeginPairing
  <2>2. handoff.phase = "none"
    BY <1>0, <2>1 DEF PairRowsAgree
  <2> QED BY <1>0, <2>1, <2>2 DEF HubReaches
<1>2. ASSUME NEW t \in P!Owned, P!BeginHandoff(t) PROVE HubReaches'
  <2>1. /\ UNCHANGED <<pairEnd, candidate>> /\ hubToken # P!None /\ handoff.phase = "none"
        /\ handoff'.from = hubToken /\ handoff'.phase = "pending"
    BY <1>2 DEF P!BeginHandoff
  <2> QED BY <1>0, <2>1 DEF HubReaches
<1>3. CASE P!Withdraw
  <2>1. /\ UNCHANGED <<hubToken, handoff, candidate>> /\ pairing.phase = "pending"
        /\ pairing.res = "none" /\ pairing.a # 0 /\ pairing'.a = 0
        /\ pairEnd' = [pairEnd EXCEPT ![pairing.a] = "withdrawn"]
    BY <1>3, EmptyFields DEF P!Withdraw
  <2>2. /\ pairEnd[pairing.a] = "none" /\ hubToken = P!None /\ handoff.phase = "none"
        /\ candidate.token # P!Candidate(pairing.a)
    BY <1>0, <2>1 DEF PairRowsAgree
  <2>3. \A b \in Pairings : pairEnd[b] = "discarded" => pairEnd'[b] = "discarded"
    BY <1>0, <2>1, <2>2 DEF PairTyped
  <2>4. candidate.token # P!Foreign /\ (\A b \in Pairings : pairEnd[b] # "discarded")
        => candidate.token = P!Boot
    BY <1>0, <2>1, <2>2 DEF HubReaches
  <2> QED BY <2>1, <2>2, <2>3, <2>4 DEF HubReaches
<1>4. CASE P!TakenElsewhere \/ P!PutToUse
  <2>1. /\ UNCHANGED <<pairing, pairEnd, hubToken, handoff>>
        /\ candidate'.token \in {P!Foreign, candidate.token}
    BY <1>0, <1>4, AgentServes
  <2>2. CASE candidate'.token = P!Foreign
    BY <2>2 DEF HubReaches
  <2>3. CASE candidate'.token = candidate.token
    BY <1>0, <2>1, <2>3 DEF HubReaches
  <2> QED BY <2>1, <2>2, <2>3
<1>5. ASSUME NEW w \in HubWorkers, Starts(w) PROVE HubReaches'
  <2>1. /\ pairing'.a = pairing.a /\ pairing'.res \in {pairing.res, "cancelling"}
        /\ handoff'.from = handoff.from /\ handoff'.to = handoff.to /\ handoff'.phase = handoff.phase
        /\ UNCHANGED <<pairEnd, hubToken, candidate>>
    BY <1>0, <1>5, TasksStart DEF Starts
  <2> QED BY <1>0, <2>1 DEF HubReaches
<1>6. ASSUME NEW w \in HubWorkers, Continues(w) PROVE HubReaches'
  <2>1. /\ pairing'.a = pairing.a /\ pairing'.res = pairing.res
        /\ handoff'.from = handoff.from /\ handoff'.to = handoff.to
        /\ handoff'.phase \in {handoff.phase, "rotating"}
        /\ UNCHANGED <<pairEnd, hubToken, candidate>>
    BY <1>0, <1>6, RowsGoOn DEF Continues
  <2>2. handoff.phase = "none" => handoff'.phase = "none"
    BY <1>0, <2>1, EmptyFields DEF PairRowsAgree
  <2> QED BY <1>0, <2>1, <2>2 DEF HubReaches
<1>7. ASSUME NEW w \in HubWorkers, Ends(w) PROVE HubReaches'
  <2>1. candidate' = candidate
    BY <1>0, <1>7, EndsOfRows
  <2>2. CASE UNCHANGED <<pairing, pairEnd, hubToken, handoff>>
    BY <1>0, <2>1, <2>2 DEF HubReaches
  <2>3. CASE /\ task[w].kind = "pair" /\ pairing.a \in Pairings /\ hubToken = P!None
             /\ candidate.token = P!Candidate(pairing.a) /\ hubToken' = P!Candidate(pairing.a)
             /\ handoff' = handoff
    <3>1. handoff'.phase = "none" /\ hubToken' # P!None
      BY <1>0, <2>3, TokensDiffer DEF PairRowsAgree
    <3> QED BY <2>1, <2>3, <3>1 DEF HubReaches
  <2>4. CASE /\ pairing.a \in Pairings /\ pairEnd' = [pairEnd EXCEPT ![pairing.a] = "discarded"]
    <3>1. pairEnd'[pairing.a] = "discarded"
      BY <1>0, <2>4 DEF PairTyped
    <3> QED BY <2>4, <3>1 DEF HubReaches
  <2>5. CASE /\ handoff.phase # "none" /\ candidate.token = handoff.to
             /\ hubToken' = handoff.to /\ handoff' = P!NoHandoff
    <3>1. handoff'.phase = "none" /\ hubToken' # P!None
      BY <1>0, <2>5, EmptyFields, TokensDiffer DEF PairRowsAgree
    <3> QED BY <2>1, <2>5, <3>1 DEF HubReaches
  <2> QED BY <1>0, <1>7, <2>2, <2>3, <2>4, <2>5, EndsOfRows
<1>8. ASSUME NEW m \in posts, Arrives(m) PROVE HubReaches'
  <2>1. CASE P!AgentRotates(m)
    <3>1. handoff.phase # "none" => hubToken # P!None
      BY <1>0 DEF PairRowsAgree
    <3> QED BY <1>0, <2>1, <3>1, RotationIsCurrent DEF HubReaches
  <2>2. CASE P!AgentIdles(m)
    <3>1. candidate'.token = candidate.token
      BY <1>0, <2>2, AgentObeys
    <3>2. UNCHANGED <<pairing, pairEnd, hubToken, handoff>>
      BY <2>2 DEF P!AgentIdles, P!Answered
    <3> QED BY <1>0, <3>1, <3>2 DEF HubReaches
  <2> QED BY <1>8, <2>1, <2>2 DEF Arrives
<1>9. ASSUME (\E m \in posts : P!PostLost(m)) \/ UNCHANGED pVars PROVE HubReaches'
  BY <1>0, <1>9 DEF P!PostLost, pVars, HubReaches
<1> QED BY <1>1, <1>2, <1>3, <1>4, <1>5, <1>6, <1>7, <1>8, <1>9, PairSteps

\* Every step keeps a machine whose pairing was discarded revoked.
LEMMA DiscardedKept ==
    ASSUME AccessInv, [P!PairNext]_pVars PROVE P!DiscardedPairingIsRevoked'
<1> SUFFICES ASSUME NEW a \in Pairings, pairEnd'[a] = "discarded"
             PROVE  candidate'.token = P!Disposal(a) /\ ~candidate'.running /\ hubToken' = P!None
  BY DEF P!DiscardedPairingIsRevoked
<1> DEFINE Revoked == candidate.token = P!Disposal(a) /\ ~candidate.running /\ hubToken = P!None
<1>0. /\ PairTyped /\ PairRowsAgree /\ TasksFollowRows /\ P!DiscardedPairingIsRevoked
  BY PairTypedFolds DEF AccessInv
<1>1. pairEnd[a] = "discarded" => Revoked
  BY <1>0 DEF P!DiscardedPairingIsRevoked
<1>2. ASSUME NEW b \in Pairings, P!BeginPairing(b) PROVE Revoked'
  BY <1>1, <1>2 DEF P!BeginPairing
<1>3. ASSUME NEW t \in P!Owned, P!BeginHandoff(t) PROVE Revoked'
  BY <1>1, <1>3 DEF P!BeginHandoff
<1>4. CASE P!Withdraw
  <2>1. /\ UNCHANGED <<hubToken, candidate>>
        /\ pairEnd' = [pairEnd EXCEPT ![pairing.a] = "withdrawn"]
    BY <1>4 DEF P!Withdraw
  <2>2. pairEnd[a] = "discarded"
    BY <1>0, <2>1 DEF PairTyped
  <2> QED BY <1>1, <2>1, <2>2
<1>5. CASE P!TakenElsewhere \/ P!PutToUse
  <2>1. pairEnd' = pairEnd /\ (candidate.token = P!Boot \/ candidate.token = hubToken)
    BY <1>0, <1>5, AgentServes
  <2> QED BY <1>1, <2>1, TokensDiffer
<1>6. ASSUME NEW w \in HubWorkers, Starts(w) PROVE Revoked'
  BY <1>0, <1>1, <1>6, TasksStart DEF Starts
<1>7. ASSUME NEW w \in HubWorkers, Continues(w) PROVE Revoked'
  BY <1>0, <1>1, <1>7, RowsGoOn DEF Continues
<1>8. ASSUME NEW w \in HubWorkers, Ends(w) PROVE Revoked'
  <2>1. candidate' = candidate
    BY <1>0, <1>8, EndsOfRows
  <2>2. CASE UNCHANGED <<pairEnd, hubToken>>
    BY <1>1, <2>1, <2>2
  <2>3. CASE /\ pairing.a \in Pairings /\ candidate.token = P!Candidate(pairing.a)
             /\ pairEnd' = [pairEnd EXCEPT ![pairing.a] = "paired"]
    <3>1. pairEnd[a] = "discarded"
      BY <1>0, <2>3 DEF PairTyped
    <3> QED BY <1>1, <2>3, <3>1, TokensDiffer
  <2>4. CASE /\ pairing.a \in Pairings /\ hubToken = P!None /\ hubToken' = hubToken
             /\ candidate.token = P!Disposal(pairing.a) /\ ~candidate.running
             /\ pairEnd' = [pairEnd EXCEPT ![pairing.a] = "discarded"]
    <3>1. a = pairing.a \/ pairEnd[a] = "discarded"
      BY <1>0, <2>4 DEF PairTyped
    <3> QED BY <1>1, <2>1, <2>4, <3>1
  <2>5. CASE handoff.phase # "none" /\ pairEnd' = pairEnd /\ hubToken = handoff.from
    <3>1. hubToken # P!None
      BY <1>0, <2>5 DEF PairRowsAgree
    <3> QED BY <1>1, <2>5, <3>1
  <2> QED BY <1>0, <1>8, <2>2, <2>3, <2>4, <2>5, EndsOfRows
<1>9. ASSUME NEW m \in posts, Arrives(m) PROVE Revoked'
  <2>1. CASE P!AgentRotates(m)
    <3>1. pairEnd' = pairEnd /\ candidate.token = m.cred
      BY <2>1, RotationIsCurrent
    <3>2. hubToken # P!None \/ m.cred = P!Boot \/ m.cred = P!Candidate(pairing.a)
      BY <2>1, RotationIsCurrent
    <3> QED BY <1>1, <3>1, <3>2, TokensDiffer
  <2>2. CASE P!AgentIdles(m)
    <3>1. candidate'.token = candidate.token /\ ~candidate'.running
      BY <1>0, <2>2, AgentObeys
    <3>2. UNCHANGED <<pairEnd, hubToken>>
      BY <2>2 DEF P!AgentIdles, P!Answered
    <3> QED BY <1>1, <3>1, <3>2
  <2> QED BY <1>9, <2>1, <2>2 DEF Arrives
<1>10. ASSUME (\E m \in posts : P!PostLost(m)) \/ UNCHANGED pVars PROVE Revoked'
  BY <1>1, <1>10 DEF P!PostLost, pVars
<1> QED BY <1>2, <1>3, <1>4, <1>5, <1>6, <1>7, <1>8, <1>9, <1>10, PairSteps

\* Nothing is paired at first.
LEMMA AccessInit == P!PairInit => AccessInv
<1> SUFFICES ASSUME P!PairInit PROVE AccessInv
  OBVIOUS
<1>1. PairTyped
  <2>1. candidate \in AgentRow /\ P!None \in P!PairTokens
    BY TokensDiffer DEF P!PairInit, AgentRow
  <2>2. pairing \in PairingRow /\ handoff \in HandoffRow /\ task \in [HubWorkers -> TaskRow]
    BY EmptyRows DEF P!PairInit
  <2> QED BY <2>1, <2>2 DEF P!PairInit, PairTyped
<1>2. PairRowsAgree
  <2>1. candidate.token = P!Boot
    BY DEF P!PairInit
  <2> QED BY <2>1, EmptyFields, TokensDiffer DEF P!PairInit, PairRowsAgree
<1>3. TasksFollowRows
  BY EmptyFields DEF P!PairInit, TasksFollowRows, Tasked
<1>4. PostsAreExpected /\ P!DiscardedPairingIsRevoked
  BY DEF P!PairInit, PostsAreExpected, P!DiscardedPairingIsRevoked
<1>5. P!HubKeepsAccess
  <2>1. candidate.token = P!Boot /\ hubToken = P!None /\ handoff.phase = "none"
    BY EmptyFields DEF P!PairInit
  <2> QED BY <2>1, AccessByRow DEF HubReaches
<1> QED BY <1>1, <1>2, <1>3, <1>4, <1>5, PairTypedFolds DEF AccessInv

\* Every step of the pairing keeps the invariant.
LEMMA AccessStep == AccessInv /\ [P!PairNext]_pVars => AccessInv'
<1> SUFFICES ASSUME AccessInv, [P!PairNext]_pVars PROVE AccessInv'
  OBVIOUS
<1>1. PairTyped' /\ PairRowsAgree' /\ P!HubKeepsAccess' /\ P!DiscardedPairingIsRevoked'
  BY PairTypesKept, PairRowsKept, AccessKept, DiscardedKept
<1>2. TasksFollowRows'
  BY TasksKept DEF TasksFollowRows
<1>3. PostsAreExpected'
  BY PostsKept DEF PostsAreExpected
<1> QED BY <1>1, <1>2, <1>3, PairTypedFolds DEF AccessInv

-----------------------------------------------------------------------------
(* Activation: the inductive invariant *)

StagingSteps == {"stop", "stopSent", "stopped", "apply", "applySent", "applied", "publish", "begin"}
StartingSteps == {"fresh", "startSent", "confirm", "finish"}
PausingSteps == {"pauseSend", "pauseSent", "paused"}
ReviewRow == [src : Int, des : Int, ctl : Int]
OperationRow == [pc : StagingSteps \union StartingSteps \union PausingSteps \union {"idle", "pause"},
                 then : {"none", "review", "begin"}, src : Int, review : ReviewRow]
CommandRow == [do : {"stop", "start", "apply"}, rev : 0 .. StageCommands, des : 0 .. StageEdits]

\* The rows A!ActivationTypeOK leaves out.
WorkIsTyped == work \in OperationRow /\ reviewed \in ReviewRow /\ sent \subseteq CommandRow

\* The operation under way is one its row asks for.
WorkFollowsRow ==
    /\ work.pc \in StagingSteps => deploy.hold /\ act.phase \notin {"starting", "stopping", "activated"}
    /\ work.pc \in StartingSteps => act.phase = "starting"
    /\ work.pc \in PausingSteps => act.phase = "stopping"
    /\ work.pc = "pause" => act.phase \in {"starting", "stopping"}
    /\ act.phase \in {"starting", "stopping", "paused"} => deploy.hold
    /\ act.phase \in {"starting", "stopping"} => act.des = deploy.des
    /\ act.phase = "starting" => command.pending
    /\ act.phase = "activated" => deploy.phase = "activated"

\* Revisions and configurations only grow, and a revision names one command.
CommandsInOrder ==
    /\ conf.src <= conf.payload /\ deploy.des <= conf.payload
    /\ server.rev <= command.rev
    /\ server.rev = command.rev => server.act = command.act
    /\ server.running => server.act = "start"
    /\ \A r \in 0 .. StageCommands : r > server.rev => starts[r] = 0
    /\ \A m \in sent :
          IF m.do = "apply" THEN m.des <= deploy.des
          ELSE /\ m.rev <= command.rev
               /\ m.rev = command.rev => m.do = command.act
               /\ m.do = "start" /\ act.phase = "paused" => m.rev <= server.rev

\* What an operation has heard of the server still holds.
AnswersHold ==
    /\ work.pc = "finish" => server.cfg = act.des /\ server.rev >= act.start
    /\ work.pc = "paused" => server.rev >= act.stop

ActivationInv ==
    /\ A!ActivationTypeOK /\ WorkIsTyped /\ WorkFollowsRow /\ CommandsInOrder /\ AnswersHold
    /\ A!HeldIsOff /\ A!PauseCanFinish /\ A!StartsOnce

-----------------------------------------------------------------------------
(* Activation: rows and how a step changes them *)

\* The rows of A!ActivationTypeOK.
ConfigRow == [src : 0 .. StageEdits, payload : 0 .. StageEdits]
DesiredRow == [v : 0 .. StageEdits, applied : -1 .. StageEdits]
RegisterRow == [act : {"start", "stop"}, rev : 1 .. StageCommands, pending : BOOLEAN]
DeployRow == [phase : {"none", "pending", "staged", "activated"}, ctl : 0 .. StageCommands,
              src : 0 .. StageEdits, des : 0 .. StageEdits, hold : BOOLEAN]
ActRow == [phase : {"none", "starting", "stopping", "paused", "activated"},
           start : 0 .. StageCommands, stop : 0 .. StageCommands,
           src : 0 .. StageEdits, des : 0 .. StageEdits]
ServerRow == [cfg : -1 .. StageEdits, rev : 0 .. StageCommands, act : {"start", "stop"},
              running : BOOLEAN]
StageTyped ==
    /\ conf \in ConfigRow /\ desired \in DesiredRow /\ command \in RegisterRow
    /\ deploy \in DeployRow /\ act \in ActRow /\ enabled \in BOOLEAN
    /\ server \in ServerRow /\ starts \in [0 .. StageCommands -> Nat]
    /\ work \in OperationRow /\ reviewed \in ReviewRow /\ sent \subseteq CommandRow

\* It says the same.
LEMMA StageTypedFolds ==
    /\ A!ActivationTypeOK /\ WorkIsTyped <=> StageTyped
    /\ (A!ActivationTypeOK /\ WorkIsTyped)' <=> StageTyped'
BY DEF A!ActivationTypeOK, WorkIsTyped, StageTyped, ConfigRow, DesiredRow, RegisterRow, DeployRow,
   ActRow, ServerRow

\* The operation goes on to a step, everything else about it stays.
LEMMA WorkGoesOn ==
    ASSUME work \in OperationRow,
           NEW pc \in StagingSteps \union StartingSteps \union PausingSteps \union {"idle", "pause"},
           A!Goto(pc)
    PROVE  work' \in OperationRow /\ work'.pc = pc /\ work'.then = work.then /\ work'.src = work.src
BY DEF A!Goto, OperationRow

\* No operation is a row without content.
LEMMA NoOperation == A!NoJob \in OperationRow /\ A!NoJob.pc = "idle" /\ A!NoReview \in ReviewRow
BY DEF A!NoJob, A!NoReview, OperationRow, ReviewRow, StagingSteps

\* What a late or repeated answer does to the operation.
LEMMA ReplyGoesOn ==
    ASSUME StageTyped, NEW m, A!Reply(m)
    PROVE  /\ work' \in OperationRow
           /\ \/ work.pc = "stopSent" /\ work'.pc = "stopped"
              \/ work.pc = "pauseSent" /\ m.do = "stop" /\ m.rev = act.stop /\ work'.pc = "paused"
              \/ work.pc = "startSent" /\ work'.pc = "confirm"
              \/ work' = work
<1>0. work \in OperationRow
  BY DEF StageTyped
<1>1. CASE work.pc = "stopSent" /\ A!Goto("stopped")
  BY <1>0, <1>1, WorkGoesOn DEF StagingSteps
<1>2. CASE work.pc = "pauseSent" /\ m.do = "stop" /\ m.rev = act.stop /\ A!Goto("paused")
  BY <1>0, <1>2, WorkGoesOn DEF PausingSteps
<1>3. CASE work.pc = "startSent" /\ A!Goto("confirm")
  BY <1>0, <1>3, WorkGoesOn DEF StartingSteps
<1>4. CASE UNCHANGED work
  BY <1>0, <1>4
<1> QED BY <1>1, <1>2, <1>3, <1>4 DEF A!Reply

\* Edits, and the commands and configurations of the ordinary protocol.
Ordinary ==
    \/ \E b \in BOOLEAN : A!Edit(b) \/ A!SetEnabled(b)
    \/ \E r \in {"start", "stop"} : A!Record(r)
    \/ A!CompileDesired \/ A!DeliverOrdinary \/ A!CoreDies

\* They leave the operation and its rows alone.
LEMMA OrdinarySteps ==
    ASSUME StageTyped, conf.src <= conf.payload, Ordinary
    PROVE  /\ UNCHANGED <<deploy, act, reviewed, sent, work, starts>>
           /\ conf' \in ConfigRow /\ conf'.payload >= conf.payload
           /\ conf'.src <= conf'.payload
           /\ desired' \in DesiredRow /\ enabled' \in BOOLEAN
           /\ command' \in RegisterRow /\ server' \in ServerRow
           /\ server'.cfg = server.cfg /\ server'.rev >= server.rev
           /\ enabled' => enabled \/ ~deploy.hold
           /\ \/ command' = command
              \/ /\ UNCHANGED <<server, enabled>>
                 /\ command'.rev = command.rev + 1 /\ command'.pending
                 /\ command'.act = "start" => ~deploy.hold
                 /\ command'.act # command.act \/ ~command.pending
              \/ /\ enabled /\ command.rev >= server.rev /\ ~command'.pending /\ enabled' = enabled
                 /\ command'.rev = command.rev /\ command'.act = command.act
                 /\ server'.rev = command.rev /\ server'.act = command.act
                 /\ server'.running => command.act = "start"
           /\ command' = command =>
                 /\ server'.rev = server.rev /\ server'.act = server.act
                 /\ server'.running => server.running
<1>0. /\ conf \in ConfigRow /\ desired \in DesiredRow /\ command \in RegisterRow
      /\ enabled \in BOOLEAN /\ server \in ServerRow
  BY DEF StageTyped
<1>1. ASSUME NEW b \in BOOLEAN, A!Edit(b)
      PROVE  /\ conf' \in ConfigRow /\ conf'.payload >= conf.payload
             /\ conf'.src <= conf'.payload
             /\ UNCHANGED <<desired, command, enabled, server>>
  <2> DEFINE src == IF b THEN conf.src + 1 ELSE conf.src
  <2>1. conf.payload < StageEdits /\ conf' = [src |-> src, payload |-> conf.payload + 1]
        /\ UNCHANGED <<desired, command, enabled, server>>
    BY <1>1 DEF A!Edit
  <2>2. src \in Nat /\ src <= conf.payload + 1
    BY <1>0 DEF ConfigRow
  <2>3. src \in 0 .. StageEdits /\ conf.payload + 1 \in 0 .. StageEdits
    BY <1>0, <2>1, <2>2, LifecycleAssumption DEF ConfigRow
  <2> HIDE DEF src
  <2> QED BY <1>0, <2>1, <2>2, <2>3 DEF ConfigRow
<1>2. ASSUME NEW b \in BOOLEAN, A!SetEnabled(b)
      PROVE  enabled' \in BOOLEAN /\ (enabled' => ~deploy.hold) /\ UNCHANGED <<conf, desired, command, server>>
  BY <1>2 DEF A!SetEnabled
<1>3. ASSUME NEW r \in {"start", "stop"}, A!Record(r)
      PROVE  /\ UNCHANGED <<conf, desired, enabled, server>> /\ command' \in RegisterRow
             /\ command'.rev = command.rev + 1 /\ command'.pending
             /\ command'.act = "start" => ~deploy.hold
             /\ command'.act # command.act \/ ~command.pending
  BY <1>0, <1>3, LifecycleAssumption DEF A!Record, RegisterRow
<1>4. CASE A!CompileDesired
  <2>1. desired' \in DesiredRow
    BY <1>0, <1>4 DEF A!CompileDesired, DesiredRow, ConfigRow
  <2> QED BY <1>0, <1>4, <2>1 DEF A!CompileDesired, ServerRow, ConfigRow
<1>5. UNCHANGED <<deploy, act, reviewed, sent, work, starts>>
  BY DEF Ordinary, A!Edit, A!SetEnabled, A!Record, A!CompileDesired, A!DeliverOrdinary, A!CoreDies
<1>6. CASE A!DeliverOrdinary
  <2> DEFINE s1 == [server EXCEPT !.rev = command.rev]
             s2 == [s1 EXCEPT !.act = command.act]
             s3 == [s2 EXCEPT !.running = command.act = "start"]
  <2>1. command.rev \in 0 .. StageCommands /\ command.act \in {"start", "stop"}
    BY <1>0, LifecycleAssumption DEF RegisterRow
  <2>2. s1 \in ServerRow /\ s1.cfg = server.cfg /\ s1.rev = command.rev
    BY <1>0, <2>1 DEF ServerRow
  <2>3. s2 \in ServerRow /\ s2.cfg = server.cfg /\ s2.rev = command.rev /\ s2.act = command.act
    <3> HIDE DEF s1
    <3> QED BY <2>1, <2>2 DEF ServerRow
  <2>4. /\ s3 \in ServerRow /\ s3.cfg = server.cfg /\ s3.rev = command.rev /\ s3.act = command.act
        /\ s3.running => command.act = "start"
    <3> HIDE DEF s2
    <3> QED BY <2>3 DEF ServerRow
  <2>5. server' = s3 /\ enabled /\ command.rev >= server.rev /\ UNCHANGED <<conf, desired, enabled>>
        /\ command' = [command EXCEPT !.pending = FALSE] /\ command.pending
    BY <1>6 DEF A!DeliverOrdinary
  <2>6. /\ command' \in RegisterRow /\ ~command'.pending /\ command'.rev = command.rev
        /\ command'.act = command.act /\ command' # command
    BY <1>0, <2>5 DEF RegisterRow
  <2> HIDE DEF s3
  <2>7. /\ server' \in ServerRow /\ server'.cfg = server.cfg /\ server'.rev = command.rev
        /\ server'.act = command.act /\ (server'.running => command.act = "start")
    BY <2>4, <2>5
  <2>8. conf'.payload >= conf.payload /\ conf'.src <= conf'.payload /\ server'.rev >= server.rev
    BY <1>0, <2>5, <2>7 DEF ConfigRow
  <2> QED BY <1>0, <1>5, <2>5, <2>6, <2>7, <2>8
<1>7. CASE A!CoreDies
  <2>1. server' \in ServerRow /\ ~server'.running /\ server'.cfg = server.cfg
        /\ server'.rev = server.rev /\ server'.act = server.act
    BY <1>0, <1>7 DEF A!CoreDies, ServerRow
  <2> QED BY <1>0, <1>7, <2>1 DEF A!CoreDies, ServerRow, ConfigRow
<1> QED BY <1>0, <1>1, <1>2, <1>3, <1>4, <1>5, <1>6, <1>7 DEF Ordinary, ServerRow, ConfigRow

-----------------------------------------------------------------------------
(* Activation: every step keeps the invariant *)

\* The ordinary steps: the hold keeps a Start and an ordinary delivery away.
LEMMA OrdinaryKeeps == ASSUME ActivationInv, Ordinary PROVE ActivationInv'
<1>0. /\ StageTyped /\ WorkFollowsRow /\ CommandsInOrder /\ AnswersHold
      /\ A!HeldIsOff /\ A!PauseCanFinish /\ A!StartsOnce
  BY StageTypedFolds DEF ActivationInv
<1>1. /\ UNCHANGED <<deploy, act, reviewed, sent, work, starts>>
      /\ conf' \in ConfigRow /\ conf'.payload >= conf.payload /\ conf'.src <= conf'.payload
      /\ desired' \in DesiredRow /\ enabled' \in BOOLEAN
      /\ command' \in RegisterRow /\ server' \in ServerRow
      /\ server'.cfg = server.cfg /\ server'.rev >= server.rev
      /\ enabled' => enabled \/ ~deploy.hold
  BY <1>0, OrdinarySteps DEF CommandsInOrder
<1>2. \/ /\ command' = command
         /\ server'.rev = server.rev /\ server'.act = server.act
         /\ server'.running => server.running
      \/ /\ UNCHANGED <<server, enabled>>
         /\ command'.rev = command.rev + 1 /\ command'.pending
         /\ command'.act = "start" => ~deploy.hold
         /\ command'.act # command.act \/ ~command.pending
      \/ /\ enabled /\ command.rev >= server.rev /\ ~command'.pending /\ enabled' = enabled
         /\ command'.rev = command.rev /\ command'.act = command.act
         /\ server'.rev = command.rev /\ server'.act = command.act
         /\ server'.running => command.act = "start"
  BY <1>0, OrdinarySteps DEF CommandsInOrder
<1>3. /\ command.rev \in Int /\ command'.rev \in Int /\ server.rev \in Int /\ server'.rev \in Int
      /\ conf.payload \in Int /\ conf'.payload \in Int /\ deploy.des \in Int
      /\ act.start \in Int /\ act.stop \in Int
      /\ \A m \in sent : m.rev \in Int
  <2>1. \A m \in sent : m.rev \in Int
    BY <1>0 DEF StageTyped, CommandRow
  <2>2. command.rev \in Int /\ command'.rev \in Int /\ server.rev \in Int /\ server'.rev \in Int
    BY <1>0, <1>1 DEF StageTyped, RegisterRow, ServerRow
  <2>3. /\ conf.payload \in Int /\ conf'.payload \in Int /\ deploy.des \in Int
        /\ act.start \in Int /\ act.stop \in Int
    BY <1>0, <1>1 DEF StageTyped, ConfigRow, DeployRow, ActRow
  <2> QED BY <2>1, <2>2, <2>3
<1>4. StageTyped'
  BY <1>0, <1>1 DEF StageTyped
<1>5. WorkFollowsRow'
  <2>1. act.phase = "starting" => command'.pending
    BY <1>0, <1>2 DEF WorkFollowsRow, A!HeldIsOff
  <2> QED BY <1>0, <1>1, <2>1 DEF WorkFollowsRow
<1>6. CommandsInOrder'
  <2>1. /\ server'.rev <= command'.rev
        /\ server'.rev = command'.rev => server'.act = command'.act
        /\ server'.running => server'.act = "start"
    <3>1. /\ server.rev <= command.rev
          /\ server.rev = command.rev => server.act = command.act
          /\ server.running => server.act = "start"
      BY <1>0 DEF CommandsInOrder
    <3> QED BY <1>2, <1>3, <3>1
  <2>2. \A r \in 0 .. StageCommands : r > server'.rev => starts'[r] = 0
    BY <1>0, <1>1, <1>3 DEF CommandsInOrder
  <2>3. ASSUME NEW m \in sent'
        PROVE  IF m.do = "apply" THEN m.des <= deploy'.des
               ELSE /\ m.rev <= command'.rev
                    /\ m.rev = command'.rev => m.do = command'.act
                    /\ m.do = "start" /\ act'.phase = "paused" => m.rev <= server'.rev
    <3>1. m \in sent /\ deploy' = deploy /\ act' = act
      BY <1>1
    <3> QED BY <1>0, <1>1, <1>2, <1>3, <3>1 DEF CommandsInOrder
  <2>4. conf'.src <= conf'.payload /\ deploy'.des <= conf'.payload
    BY <1>0, <1>1, <1>3 DEF CommandsInOrder
  <2> QED BY <2>1, <2>2, <2>3, <2>4 DEF CommandsInOrder
<1>7. AnswersHold'
  BY <1>0, <1>1, <1>3 DEF AnswersHold
<1>8. A!HeldIsOff'
  <2>1. deploy.hold => ~enabled' /\ (command'.act = "start" => command' = command)
    BY <1>0, <1>1, <1>2 DEF A!HeldIsOff
  <2>2. deploy.hold /\ server'.running => server.running
    BY <1>0, <1>2 DEF A!HeldIsOff
  <2>3. deploy.hold /\ server'.rev = command'.rev => command' = command
    BY <1>0, <1>2, <1>3 DEF A!HeldIsOff, CommandsInOrder
  <2> QED BY <1>0, <1>1, <1>2, <2>1, <2>2, <2>3 DEF A!HeldIsOff
<1>9. A!PauseCanFinish'
  <2>1. act.phase = "stopping" => command' = command
    <3>1. act.phase = "stopping" => deploy.hold /\ ~enabled /\ command.act = "stop" /\ command.pending
      BY <1>0 DEF WorkFollowsRow, A!HeldIsOff, A!PauseCanFinish
    <3>2. command'.act \in {"start", "stop"}
      BY <1>1 DEF RegisterRow
    <3> QED BY <1>2, <3>1, <3>2
  <2> QED BY <1>0, <1>1, <2>1 DEF A!PauseCanFinish
<1>10. A!StartsOnce'
  BY <1>0, <1>1 DEF A!StartsOnce
<1> QED BY <1>4, <1>5, <1>6, <1>7, <1>8, <1>9, <1>10, StageTypedFolds DEF ActivationInv

\* A request enters, the operation goes on to a step of the same kind, or it ends.
LEMMA SendingKeeps ==
    ASSUME ActivationInv, UNCHANGED <<conf, desired, command, deploy, act, enabled, server, starts>>,
           work' \in OperationRow, reviewed' \in ReviewRow,
           \/ work.pc \in StagingSteps /\ work'.pc \in StagingSteps
           \/ act.phase = "starting" /\ work'.pc \in StartingSteps \ {"finish"}
           \/ /\ act.phase = "starting" /\ work'.pc = "finish"
              /\ server.cfg = act.des /\ server.rev >= act.start
           \/ act.phase \in {"starting", "stopping"} /\ work'.pc = "pause"
           \/ act.phase = "stopping" /\ work'.pc \in PausingSteps \ {"paused"}
           \/ act.phase = "stopping" /\ work'.pc = "paused" /\ server.rev >= act.stop
           \/ work'.pc = "idle",
           \/ sent' = sent
           \/ \E m \in CommandRow :
                 /\ sent' = sent \union {m}
                 /\ m.do = "apply" => m.des = deploy.des
                 /\ m.do # "apply" => m.rev = command.rev /\ m.do = command.act
                 /\ m.do = "start" => act.phase = "starting"
    PROVE  ActivationInv'
<1>0. /\ StageTyped /\ WorkFollowsRow /\ CommandsInOrder /\ AnswersHold
      /\ A!HeldIsOff /\ A!PauseCanFinish /\ A!StartsOnce
  BY StageTypedFolds DEF ActivationInv
<1>1. StageTyped'
  BY <1>0 DEF StageTyped
<1>2. WorkFollowsRow'
  BY <1>0 DEF WorkFollowsRow, StagingSteps, StartingSteps, PausingSteps
<1>3. CommandsInOrder'
  <2>1. ASSUME NEW m \in sent'
        PROVE  IF m.do = "apply" THEN m.des <= deploy.des
               ELSE /\ m.rev <= command.rev
                    /\ m.rev = command.rev => m.do = command.act
                    /\ m.do = "start" /\ act.phase = "paused" => m.rev <= server.rev
    <3>1. CASE m \in sent
      BY <1>0, <3>1 DEF CommandsInOrder
    <3>2. CASE m \notin sent
      <4>1. /\ m.do = "apply" => m.des = deploy.des
            /\ m.do # "apply" => m.rev = command.rev /\ m.do = command.act
            /\ m.do = "start" => act.phase = "starting"
        BY <3>2
      <4>2. deploy.des \in Int /\ command.rev \in Int
        BY <1>0 DEF StageTyped, DeployRow, RegisterRow
      <4> QED BY <4>1, <4>2
    <3> QED BY <3>1, <3>2
  <2> QED BY <1>0, <2>1 DEF CommandsInOrder
<1>4. AnswersHold'
  BY <1>0 DEF AnswersHold, StagingSteps, StartingSteps, PausingSteps
<1>5. A!HeldIsOff' /\ A!PauseCanFinish' /\ A!StartsOnce'
  BY <1>0 DEF A!HeldIsOff, A!PauseCanFinish, A!StartsOnce
<1> QED BY <1>1, <1>2, <1>3, <1>4, <1>5, StageTypedFolds DEF ActivationInv

\* The steps of an operation that change no row.
Moving ==
    \/ A!StageStop \/ A!StageApply \/ A!StageVerify \/ A!ActivateRetry \/ A!FreshInputs
    \/ A!PauseAsk \/ A!PauseSend \/ A!JobEnds \/ \E m \in sent : A!AgentRepeats(m)

\* A request is sent in the name of the latest command, or of the staged configuration;
\* what the operation has heard of the server is true when it hears it.
LEMMA MovingKeeps == ASSUME ActivationInv, Moving PROVE ActivationInv'
<1>0. /\ StageTyped /\ WorkFollowsRow /\ CommandsInOrder /\ work \in OperationRow /\ A!PauseCanFinish
  BY StageTypedFolds DEF ActivationInv, StageTyped
<1>1. UNCHANGED <<conf, desired, command, deploy, act, enabled, server, starts>> /\ reviewed' = reviewed
  BY DEF Moving, A!StageStop, A!StageApply, A!StageVerify, A!ActivateRetry, A!FreshInputs, A!PauseAsk,
     A!PauseSend, A!JobEnds, A!AgentRepeats
<1>2. /\ deploy.ctl \in 0 .. StageCommands /\ deploy.des \in 0 .. StageEdits /\ reviewed \in ReviewRow
      /\ act.start \in 0 .. StageCommands /\ act.stop \in 0 .. StageCommands
      /\ act.des \in 0 .. StageEdits
      /\ 0 \in 0 .. StageEdits /\ 0 \in 0 .. StageCommands
  <2>1. /\ deploy.ctl \in 0 .. StageCommands /\ deploy.des \in 0 .. StageEdits /\ reviewed \in ReviewRow
        /\ act.start \in 0 .. StageCommands /\ act.stop \in 0 .. StageCommands
        /\ act.des \in 0 .. StageEdits
    BY <1>0 DEF StageTyped, DeployRow, ActRow
  <2> QED BY <2>1, LifecycleAssumption
<1>3. CASE A!StageStop
  <2> DEFINE m == [do |-> "stop", rev |-> deploy.ctl, des |-> 0]
  <2>1. /\ work.pc \in StagingSteps /\ work'.pc \in StagingSteps /\ work' \in OperationRow
        /\ sent' = sent \union {m} /\ command.act = "stop" /\ command.rev = deploy.ctl
    BY <1>0, <1>3, WorkGoesOn DEF A!StageStop, A!StageCurrent, StagingSteps
  <2>2. m \in CommandRow /\ m.do = "stop" /\ m.rev = deploy.ctl
    BY <1>2 DEF CommandRow
  <2> HIDE DEF m
  <2> QED BY <1>1, <1>2, <2>1, <2>2, SendingKeeps
<1>4. CASE A!StageApply
  <2> DEFINE m == [do |-> "apply", rev |-> 0, des |-> deploy.des]
  <2>1. /\ work.pc \in StagingSteps /\ work'.pc \in StagingSteps /\ work' \in OperationRow
        /\ sent' = sent \union {m}
    BY <1>0, <1>4, WorkGoesOn DEF A!StageApply, StagingSteps
  <2>2. m \in CommandRow /\ m.do = "apply" /\ m.des = deploy.des
    BY <1>2 DEF CommandRow
  <2> HIDE DEF m
  <2> QED BY <1>1, <1>2, <2>1, <2>2, SendingKeeps
<1>5. CASE A!StageVerify
  <2>1. work.pc \in StagingSteps /\ work'.pc \in StagingSteps /\ work' \in OperationRow /\ sent' = sent
    BY <1>0, <1>5, WorkGoesOn DEF A!StageVerify, StagingSteps
  <2> QED BY <1>1, <1>2, <2>1, SendingKeeps
<1>6. CASE A!ActivateRetry
  <2>1. /\ act.phase = "starting" /\ work'.pc \in StartingSteps \ {"finish"}
        /\ work' \in OperationRow /\ sent' = sent
    BY <1>0, <1>6, WorkGoesOn DEF A!ActivateRetry, StartingSteps
  <2> QED BY <1>1, <1>2, <2>1, SendingKeeps
<1>7. CASE A!FreshInputs
  <2>0. act.phase = "starting"
    BY <1>0, <1>7 DEF A!FreshInputs, WorkFollowsRow, StartingSteps
  <2>1. CASE A!Goto("startSent") /\ sent' = sent \union {[do |-> "start", rev |-> act.start, des |-> act.des]}
             /\ A!ActCurrent
    <3> DEFINE m == [do |-> "start", rev |-> act.start, des |-> act.des]
    <3>1. work'.pc \in StartingSteps \ {"finish"} /\ work' \in OperationRow
      BY <1>0, <2>1, WorkGoesOn DEF StartingSteps
    <3>2. m \in CommandRow /\ m.do = "start" /\ m.rev = act.start
      BY <1>2 DEF CommandRow
    <3>3. command.act = "start" /\ command.rev = act.start
      BY <2>0, <2>1 DEF A!ActCurrent
    <3>4. sent' = sent \union {m}
      BY <2>1
    <3> HIDE DEF m
    <3> QED BY <1>1, <1>2, <2>0, <3>1, <3>2, <3>3, <3>4, SendingKeeps
  <2>2. CASE A!Goto("finish") /\ sent' = sent /\ server.cfg = act.des /\ server.rev = act.start
    <3>1. work'.pc = "finish" /\ work' \in OperationRow /\ server.rev >= act.start
      BY <1>0, <1>2, <2>2, WorkGoesOn DEF StartingSteps
    <3> QED BY <1>1, <1>2, <2>0, <2>2, <3>1, SendingKeeps
  <2>3. CASE A!Goto("pause") /\ sent' = sent
    <3>1. work'.pc = "pause" /\ work' \in OperationRow
      BY <1>0, <2>3, WorkGoesOn
    <3> QED BY <1>1, <1>2, <2>0, <2>3, <3>1, SendingKeeps
  <2> QED BY <1>7, <2>1, <2>2, <2>3 DEF A!FreshInputs
<1>8. CASE A!PauseAsk
  <2>1. /\ act.phase \in {"starting", "stopping"} /\ work'.pc = "pause"
        /\ work' \in OperationRow /\ sent' = sent
    BY <1>0, <1>8, WorkGoesOn DEF A!PauseAsk
  <2> QED BY <1>1, <1>2, <2>1, SendingKeeps
<1>9. CASE A!PauseSend
  <2> DEFINE m == [do |-> "stop", rev |-> act.stop, des |-> 0]
  <2>1. /\ act.phase = "stopping" /\ work'.pc \in PausingSteps \ {"paused"} /\ work' \in OperationRow
        /\ sent' = sent \union {m}
    BY <1>0, <1>9, WorkGoesOn DEF A!PauseSend, WorkFollowsRow, PausingSteps
  <2>2. m \in CommandRow /\ m.do = "stop" /\ m.rev = act.stop
    BY <1>2 DEF CommandRow
  <2>3. command.act = "stop" /\ command.rev = act.stop
    BY <1>0, <2>1 DEF A!PauseCanFinish
  <2> HIDE DEF m
  <2> QED BY <1>1, <1>2, <2>1, <2>2, <2>3, SendingKeeps
<1>10. CASE A!JobEnds
  <2>1. work' \in OperationRow /\ work'.pc = "idle" /\ sent' = sent
    BY <1>10, NoOperation DEF A!JobEnds
  <2> QED BY <1>1, <1>2, <2>1, SendingKeeps
<1>11. ASSUME NEW m \in sent, A!AgentRepeats(m) PROVE ActivationInv'
  <2>1. work' \in OperationRow /\ sent' = sent /\ m.rev = server.rev
        /\ \/ work.pc = "stopSent" /\ work'.pc = "stopped"
           \/ work.pc = "pauseSent" /\ m.do = "stop" /\ m.rev = act.stop /\ work'.pc = "paused"
           \/ work.pc = "startSent" /\ work'.pc = "confirm"
    BY <1>0, <1>11, ReplyGoesOn DEF A!AgentRepeats
  <2>2. CASE work'.pc = "stopped"
    BY <1>1, <1>2, <2>1, <2>2, SendingKeeps DEF StagingSteps
  <2>3. CASE work'.pc = "confirm"
    <3>1. act.phase = "starting"
      BY <1>0, <2>1, <2>3 DEF WorkFollowsRow, StartingSteps
    <3> QED BY <1>1, <1>2, <2>1, <2>3, <3>1, SendingKeeps DEF StartingSteps
  <2>4. CASE work'.pc = "paused"
    <3>1. act.phase = "stopping" /\ server.rev >= act.stop
      BY <1>0, <1>2, <2>1, <2>4 DEF WorkFollowsRow, PausingSteps
    <3> QED BY <1>1, <1>2, <2>1, <2>4, <3>1, SendingKeeps
  <2> QED BY <2>1, <2>2, <2>3, <2>4
<1> QED BY <1>3, <1>4, <1>5, <1>6, <1>7, <1>8, <1>9, <1>10, <1>11 DEF Moving

\* A staging begins on a stopped, disabled Node: the hold closes.
LEMMA StageBeginKeeps ==
    ASSUME ActivationInv, NEW then \in {"none", "review", "begin"}, A!StageBegin(then)
    PROVE  ActivationInv'
<1>0. /\ StageTyped /\ WorkFollowsRow /\ CommandsInOrder /\ AnswersHold
      /\ A!HeldIsOff /\ A!PauseCanFinish /\ A!StartsOnce
  BY StageTypedFolds DEF ActivationInv
<1>1. /\ act.phase \notin {"starting", "stopping"} /\ ~enabled /\ command.act = "stop"
      /\ deploy.phase # "activated"
      /\ UNCHANGED <<conf, desired, command, act, enabled, reviewed, server, sent, starts>>
  BY DEF A!StageBegin
<1>2. /\ deploy' \in DeployRow /\ deploy'.hold /\ deploy'.phase = "pending" /\ deploy'.des = deploy.des
  <2> DEFINE d1 == [deploy EXCEPT !.phase = "pending"]
             d2 == [d1 EXCEPT !.ctl = command.rev]
             d3 == [d2 EXCEPT !.hold = TRUE]
  <2>1. d1 \in DeployRow /\ d1.phase = "pending" /\ d1.des = deploy.des
    BY <1>0 DEF StageTyped, DeployRow
  <2>2. command.rev \in 0 .. StageCommands
    BY <1>0, LifecycleAssumption DEF StageTyped, RegisterRow
  <2>3. d2 \in DeployRow /\ d2.phase = "pending" /\ d2.des = deploy.des
    <3> HIDE DEF d1
    <3> QED BY <2>1, <2>2 DEF DeployRow
  <2>4. d3 \in DeployRow /\ d3.hold /\ d3.phase = "pending" /\ d3.des = deploy.des
    <3> HIDE DEF d2
    <3> QED BY <2>3 DEF DeployRow
  <2>5. deploy' = d3
    BY DEF A!StageBegin
  <2> HIDE DEF d3
  <2> QED BY <2>4, <2>5
<1>3. work' \in OperationRow /\ work'.pc = "stop"
  <2> DEFINE j1 == [A!NoJob EXCEPT !.pc = "stop"]
             j2 == [j1 EXCEPT !.then = then]
             j3 == [j2 EXCEPT !.review = reviewed]
  <2>1. j1 \in OperationRow /\ j1.pc = "stop"
    BY NoOperation DEF OperationRow, StagingSteps
  <2>2. j2 \in OperationRow /\ j2.pc = "stop"
    <3> HIDE DEF j1
    <3> QED BY <2>1 DEF OperationRow
  <2>3. j3 \in OperationRow /\ j3.pc = "stop"
    <3> HIDE DEF j2
    <3> QED BY <1>0, <2>2 DEF OperationRow, StageTyped
  <2>4. work' = j3
    BY DEF A!StageBegin
  <2> HIDE DEF j3
  <2> QED BY <2>3, <2>4
<1>4. StageTyped'
  BY <1>0, <1>1, <1>2, <1>3 DEF StageTyped
<1>5. act.phase # "activated"
  BY <1>0, <1>1 DEF WorkFollowsRow
<1>6. WorkFollowsRow'
  BY <1>0, <1>1, <1>2, <1>3, <1>5 DEF WorkFollowsRow, StagingSteps, StartingSteps, PausingSteps
<1>7. CommandsInOrder'
  BY <1>0, <1>1, <1>2 DEF CommandsInOrder
<1>8. AnswersHold'
  BY <1>0, <1>3 DEF AnswersHold
<1>9. A!HeldIsOff'
  <2>1. server.rev = command.rev => ~server.running
    BY <1>0, <1>1 DEF CommandsInOrder
  <2>2. act.phase = "paused" => ~server.running
    BY <1>0 DEF WorkFollowsRow, A!HeldIsOff
  <2> QED BY <1>1, <2>1, <2>2 DEF A!HeldIsOff
<1>10. A!PauseCanFinish' /\ A!StartsOnce'
  BY <1>0, <1>1 DEF A!PauseCanFinish, A!StartsOnce
<1> QED BY <1>4, <1>6, <1>7, <1>8, <1>9, <1>10, StageTypedFolds DEF ActivationInv

\* The staged configuration is compiled, and published if nothing has changed since.
LEMMA StageRowsKeep ==
    ASSUME ActivationInv, A!StageCompile \/ A!StagePublish
    PROVE  ActivationInv'
<1>0. /\ StageTyped /\ WorkFollowsRow /\ CommandsInOrder /\ AnswersHold
      /\ A!HeldIsOff /\ A!PauseCanFinish /\ A!StartsOnce
      /\ conf \in ConfigRow /\ desired \in DesiredRow /\ command \in RegisterRow /\ deploy \in DeployRow
      /\ work \in OperationRow
  BY StageTypedFolds DEF ActivationInv, StageTyped
<1>1. /\ work.pc \in StagingSteps /\ deploy.hold /\ command.act = "stop"
      /\ act.phase \notin {"starting", "stopping", "activated"}
      /\ UNCHANGED <<conf, act, enabled, server, sent, starts>>
  BY <1>0 DEF A!StageCompile, A!StagePublish, A!StageCurrent, WorkFollowsRow, StagingSteps
<1>2. /\ desired' \in DesiredRow /\ command' \in RegisterRow /\ deploy' \in DeployRow
      /\ work' \in OperationRow /\ reviewed' \in ReviewRow
      /\ deploy'.hold /\ deploy'.des >= deploy.des /\ deploy'.des <= conf.payload
      /\ command'.act = "stop" /\ command'.rev = command.rev
      /\ work'.pc \in StagingSteps \/ work'.pc = "idle"
  <2>1. [desired EXCEPT !.v = conf.payload] \in DesiredRow /\ deploy.des <= conf.payload
    BY <1>0 DEF DesiredRow, ConfigRow, CommandsInOrder
  <2>2. CASE A!StageCompile
    <3> DEFINE d1 == [deploy EXCEPT !.src = conf.src]
               d2 == [d1 EXCEPT !.des = conf.payload]
               j1 == [work EXCEPT !.pc = "apply"]
               j2 == [j1 EXCEPT !.src = conf.src]
    <3>1. d1 \in DeployRow /\ d1.hold = deploy.hold /\ d1.des = deploy.des
      BY <1>0 DEF DeployRow, ConfigRow
    <3>2. d2 \in DeployRow /\ d2.hold = deploy.hold /\ d2.des = conf.payload
      <4> HIDE DEF d1
      <4> QED BY <1>0, <3>1 DEF DeployRow, ConfigRow
    <3>3. j1 \in OperationRow /\ j1.pc = "apply"
      BY <1>0 DEF OperationRow, StagingSteps
    <3>4. j2 \in OperationRow /\ j2.pc = "apply"
      <4> HIDE DEF j1
      <4> QED BY <1>0, <3>3 DEF OperationRow, ConfigRow
    <3>5. deploy' = d2 /\ work' = j2 /\ desired' = [desired EXCEPT !.v = conf.payload]
          /\ command' = [command EXCEPT !.pending = FALSE] /\ reviewed' = reviewed
      BY <2>2 DEF A!StageCompile
    <3> HIDE DEF d2, j2
    <3>6. command' \in RegisterRow /\ command'.act = command.act /\ command'.rev = command.rev
      BY <1>0, <3>5 DEF RegisterRow
    <3>7. conf.payload >= deploy.des /\ conf.payload <= conf.payload
      BY <1>0, <2>1 DEF DeployRow, ConfigRow
    <3> QED BY <1>0, <1>1, <2>1, <3>2, <3>4, <3>5, <3>6, <3>7 DEF StageTyped, StagingSteps
  <2>3. CASE A!StagePublish
    <3>1. command' = command /\ desired' = [desired EXCEPT !.v = conf.payload]
      BY <2>3 DEF A!StagePublish
    <3>2. deploy' = deploy \/ deploy' = [deploy EXCEPT !.phase = "staged"]
      BY <2>3 DEF A!StagePublish
    <3>3. deploy' \in DeployRow /\ deploy'.hold = deploy.hold /\ deploy'.des = deploy.des
      BY <1>0, <3>2 DEF DeployRow
    <3>4. A!Goto("begin") \/ work' = A!NoJob
      BY <2>3 DEF A!StagePublish
    <3>5. work' \in OperationRow /\ (work'.pc \in StagingSteps \/ work'.pc = "idle")
      BY <1>0, <3>4, WorkGoesOn, NoOperation DEF StagingSteps
    <3>6. reviewed' = reviewed \/ reviewed' = A!Review
      BY <2>3 DEF A!StagePublish
    <3>7. reviewed' \in ReviewRow
      BY <1>0, <3>6 DEF A!Review, ReviewRow, DeployRow, StageTyped
    <3>8. deploy.des >= deploy.des
      BY <1>0 DEF DeployRow
    <3> QED BY <1>0, <1>1, <2>1, <3>1, <3>3, <3>5, <3>7, <3>8
  <2> QED BY <2>2, <2>3
<1>3. StageTyped'
  BY <1>0, <1>1, <1>2 DEF StageTyped
<1>4. WorkFollowsRow'
  BY <1>0, <1>1, <1>2 DEF WorkFollowsRow, StagingSteps, StartingSteps, PausingSteps
<1>5. CommandsInOrder'
  <2>1. deploy'.des \in Int /\ deploy.des \in Int /\ \A m \in sent : m.des \in Int
    BY <1>0, <1>2 DEF DeployRow, StageTyped, CommandRow
  <2>2. \A m \in sent : m.do = "apply" => m.des <= deploy'.des
    BY <1>0, <1>2, <2>1 DEF CommandsInOrder
  <2> QED BY <1>0, <1>1, <1>2, <2>2 DEF CommandsInOrder
<1>6. AnswersHold'
  BY <1>2 DEF AnswersHold, StagingSteps
<1>7. A!HeldIsOff' /\ A!PauseCanFinish' /\ A!StartsOnce'
  BY <1>0, <1>1, <1>2 DEF A!HeldIsOff, A!PauseCanFinish, A!StartsOnce
<1> QED BY <1>3, <1>4, <1>5, <1>6, <1>7, StageTypedFolds DEF ActivationInv

\* The Start is journaled; the hold stays closed.
LEMMA BeginStartKeeps == ASSUME ActivationInv, A!BeginStart PROVE ActivationInv'
<1>0. /\ StageTyped /\ WorkFollowsRow /\ CommandsInOrder /\ AnswersHold
      /\ A!HeldIsOff /\ A!PauseCanFinish /\ A!StartsOnce
      /\ command \in RegisterRow /\ deploy \in DeployRow /\ server \in ServerRow
  BY StageTypedFolds DEF ActivationInv, StageTyped
<1>1. /\ deploy.hold /\ ~enabled /\ command.rev < StageCommands
      /\ UNCHANGED <<conf, desired, deploy, enabled, reviewed, server, sent, starts>>
      /\ command' = [act |-> "start", rev |-> command.rev + 1, pending |-> TRUE]
      /\ act' = [phase |-> "starting", start |-> command.rev + 1, stop |-> 0,
                 src |-> deploy.src, des |-> deploy.des]
  BY DEF A!BeginStart, A!StageCurrent
<1>2. work' \in OperationRow /\ work'.pc = "fresh"
  BY <1>0, WorkGoesOn DEF A!BeginStart, StageTyped, StartingSteps
<1>3. command.rev + 1 \in 1 .. StageCommands /\ command.rev + 1 \in 0 .. StageCommands
      /\ 0 \in 0 .. StageCommands
  BY <1>0, <1>1, LifecycleAssumption DEF RegisterRow
<1>4. command' \in RegisterRow /\ act' \in ActRow
  BY <1>0, <1>1, <1>3 DEF RegisterRow, ActRow, DeployRow
<1>5. StageTyped'
  BY <1>0, <1>1, <1>2, <1>4 DEF StageTyped
<1>6. WorkFollowsRow'
  BY <1>0, <1>1, <1>2 DEF WorkFollowsRow, StagingSteps, StartingSteps, PausingSteps
<1>7. CommandsInOrder'
  <2>1. command.rev \in Int /\ server.rev \in Int /\ \A m \in sent : m.rev \in Int
    BY <1>0 DEF RegisterRow, ServerRow, StageTyped, CommandRow
  <2>2. server.rev < command'.rev /\ act'.phase # "paused"
        /\ \A m \in sent : m.do # "apply" => m.rev < command'.rev
    BY <1>0, <1>1, <2>1 DEF CommandsInOrder
  <2>3. command'.rev \in Int /\ server.rev <= command'.rev /\ server.rev # command'.rev
        /\ \A m \in sent : m.do # "apply" => m.rev <= command'.rev /\ m.rev # command'.rev
    BY <1>1, <2>1, <2>2
  <2> QED BY <1>0, <1>1, <2>2, <2>3 DEF CommandsInOrder
<1>8. AnswersHold'
  BY <1>2 DEF AnswersHold
<1>9. A!HeldIsOff' /\ A!PauseCanFinish' /\ A!StartsOnce'
  BY <1>0, <1>1 DEF A!HeldIsOff, A!PauseCanFinish, A!StartsOnce
<1> QED BY <1>5, <1>6, <1>7, <1>8, <1>9, StageTypedFolds DEF ActivationInv

\* The Start is acknowledged and the hold released, or what has changed leads to a pause.
LEMMA ActivateFinishKeeps == ASSUME ActivationInv, A!ActivateFinish PROVE ActivationInv'
<1>0. /\ StageTyped /\ WorkFollowsRow /\ CommandsInOrder /\ AnswersHold
      /\ A!HeldIsOff /\ A!PauseCanFinish /\ A!StartsOnce
      /\ command \in RegisterRow /\ deploy \in DeployRow /\ act \in ActRow /\ work \in OperationRow
  BY StageTypedFolds DEF ActivationInv, StageTyped
<1>1. act.phase = "starting" /\ UNCHANGED <<conf, desired, reviewed, server, sent, starts>>
  BY <1>0 DEF A!ActivateFinish, WorkFollowsRow, StartingSteps
<1>2. CASE A!ActCurrent /\ A!InputsCurrent
  <2> DEFINE d1 == [deploy EXCEPT !.hold = FALSE]
             d2 == [d1 EXCEPT !.phase = "activated"]
  <2>1. d1 \in DeployRow /\ ~d1.hold /\ d1.des = deploy.des
    BY <1>0 DEF DeployRow
  <2>2. d2 \in DeployRow /\ ~d2.hold /\ d2.des = deploy.des /\ d2.phase = "activated"
    <3> HIDE DEF d1
    <3> QED BY <2>1 DEF DeployRow
  <2>3. /\ deploy' = d2 /\ enabled' = TRUE /\ work' = A!NoJob
        /\ command' = [command EXCEPT !.pending = FALSE] /\ act' = [act EXCEPT !.phase = "activated"]
    BY <1>2 DEF A!ActivateFinish
  <2> HIDE DEF d2
  <2>4. /\ command' \in RegisterRow /\ command'.act = command.act /\ command'.rev = command.rev
        /\ act' \in ActRow /\ act'.phase = "activated"
    BY <1>0, <2>3 DEF RegisterRow, ActRow
  <2>5. StageTyped'
    BY <1>0, <1>1, <2>2, <2>3, <2>4, NoOperation DEF StageTyped
  <2>6. WorkFollowsRow'
    BY <2>2, <2>3, <2>4, NoOperation DEF WorkFollowsRow, StagingSteps, StartingSteps, PausingSteps
  <2>7. CommandsInOrder'
    BY <1>0, <1>1, <2>2, <2>3, <2>4 DEF CommandsInOrder
  <2>8. AnswersHold'
    BY <2>3, NoOperation DEF AnswersHold
  <2>9. A!HeldIsOff' /\ A!PauseCanFinish' /\ A!StartsOnce'
    BY <1>0, <1>1, <2>2, <2>3, <2>4 DEF A!HeldIsOff, A!PauseCanFinish, A!StartsOnce
  <2> QED BY <2>5, <2>6, <2>7, <2>8, <2>9, StageTypedFolds DEF ActivationInv
<1>3. CASE ~(A!ActCurrent /\ A!InputsCurrent)
  <2>1. A!Goto("pause") /\ UNCHANGED <<command, deploy, act, enabled>>
    BY <1>3 DEF A!ActivateFinish
  <2>2. work' \in OperationRow /\ work'.pc = "pause" /\ reviewed' \in ReviewRow
    BY <1>0, <1>1, <2>1, WorkGoesOn DEF StageTyped
  <2> QED BY <1>1, <2>1, <2>2, SendingKeeps
<1> QED BY <1>2, <1>3

\* The compensating Stop is the latest command, and pending.
LEMMA PauseBeginKeeps == ASSUME ActivationInv, A!PauseBegin PROVE ActivationInv'
<1>0. /\ StageTyped /\ WorkFollowsRow /\ CommandsInOrder /\ AnswersHold
      /\ A!HeldIsOff /\ A!PauseCanFinish /\ A!StartsOnce
      /\ command \in RegisterRow /\ act \in ActRow /\ server \in ServerRow /\ work \in OperationRow
  BY StageTypedFolds DEF ActivationInv, StageTyped
<1>1. /\ act.phase \in {"starting", "stopping"} /\ deploy.hold /\ ~enabled
      /\ UNCHANGED <<conf, desired, deploy, enabled, reviewed, server, sent, starts>>
      /\ work' \in OperationRow /\ work'.pc = "pauseSend"
  BY <1>0, WorkGoesOn DEF A!PauseBegin, PausingSteps
<1>2. CASE act.phase = "stopping"
  <2>1. UNCHANGED <<command, act>>
    BY <1>2 DEF A!PauseBegin
  <2>2. reviewed' \in ReviewRow
    BY <1>0, <1>1 DEF StageTyped
  <2> QED BY <1>1, <1>2, <2>1, <2>2, SendingKeeps DEF PausingSteps
<1>3. CASE act.phase = "starting"
  <2> DEFINE a1 == [act EXCEPT !.phase = "stopping"]
             a2(stop) == [a1 EXCEPT !.stop = stop]
  <2>1. a1 \in ActRow /\ a1.phase = "stopping" /\ a1.des = act.des
    BY <1>0 DEF ActRow
  <2>2. ASSUME NEW stop \in 0 .. StageCommands
        PROVE  /\ a2(stop) \in ActRow /\ a2(stop).phase = "stopping" /\ a2(stop).des = act.des
               /\ a2(stop).stop = stop
    <3> HIDE DEF a1
    <3> QED BY <2>1 DEF ActRow
  <2>3. \/ command.act = "stop" /\ act' = a2(command.rev) /\ command' = command
        \/ /\ command.rev = act.start /\ command.rev < StageCommands
           /\ command' = [act |-> "stop", rev |-> command.rev + 1, pending |-> TRUE]
           /\ act' = a2(command.rev + 1)
    BY <1>3 DEF A!PauseBegin
  <2> HIDE DEF a2
  <2>4. /\ command' \in RegisterRow /\ command'.act = "stop" /\ command'.pending
        /\ command'.rev = command.rev \/ command'.rev = command.rev + 1
        /\ command'.rev = command.rev => command' = command
        /\ act' \in ActRow /\ act'.phase = "stopping" /\ act'.des = act.des
        /\ act'.stop = command'.rev
    <3>1. command.pending
      BY <1>0, <1>3 DEF WorkFollowsRow
    <3>2. command.rev \in 0 .. StageCommands /\ command.rev \in Nat
      BY <1>0, LifecycleAssumption DEF RegisterRow
    <3>3. CASE command.act = "stop" /\ act' = a2(command.rev) /\ command' = command
      BY <1>0, <2>2, <3>1, <3>2, <3>3
    <3>4. CASE /\ command.rev = act.start /\ command.rev < StageCommands
               /\ command' = [act |-> "stop", rev |-> command.rev + 1, pending |-> TRUE]
               /\ act' = a2(command.rev + 1)
      <4>1. command.rev + 1 \in 1 .. StageCommands /\ command.rev + 1 \in 0 .. StageCommands
        BY <3>2, <3>4, LifecycleAssumption
      <4> QED BY <2>2, <3>2, <3>4, <4>1 DEF RegisterRow
    <3> QED BY <2>3, <3>3, <3>4
  <2>5. StageTyped'
    BY <1>0, <1>1, <2>4 DEF StageTyped
  <2>6. WorkFollowsRow'
    BY <1>0, <1>1, <1>3, <2>4 DEF WorkFollowsRow, StagingSteps, StartingSteps, PausingSteps
  <2>7. CommandsInOrder'
    <3>1. command.rev \in Int /\ server.rev \in Int /\ \A m \in sent : m.rev \in Int
      BY <1>0 DEF RegisterRow, ServerRow, StageTyped, CommandRow
    <3>2. /\ command'.rev \in Int /\ server.rev <= command'.rev
          /\ server.rev = command'.rev => server.act = command'.act
      BY <1>0, <2>4, <3>1 DEF CommandsInOrder
    <3>3. \A m \in sent : m.do # "apply" => m.rev <= command'.rev /\ (m.rev = command'.rev => m.do = command'.act)
      BY <1>0, <2>4, <3>1 DEF CommandsInOrder
    <3> QED BY <1>0, <1>1, <2>4, <3>2, <3>3 DEF CommandsInOrder
  <2>8. AnswersHold'
    BY <1>1 DEF AnswersHold
  <2>9. A!PauseCanFinish'
    <3>1. command' = [act |-> command'.act, rev |-> command'.rev, pending |-> command'.pending]
      BY <2>4 DEF RegisterRow
    <3>2. command'.pending = TRUE
      BY <2>4 DEF RegisterRow
    <3> QED BY <2>4, <3>1, <3>2 DEF A!PauseCanFinish
  <2>10. A!HeldIsOff' /\ A!StartsOnce'
    BY <1>0, <1>1, <2>4 DEF A!HeldIsOff, A!StartsOnce
  <2> QED BY <2>5, <2>6, <2>7, <2>8, <2>9, <2>10, StageTypedFolds DEF ActivationInv
<1> QED BY <1>1, <1>2, <1>3

\* The server has acknowledged the latest command, a Stop: what may still arrive is older.
LEMMA PauseFinishKeeps == ASSUME ActivationInv, A!PauseFinish PROVE ActivationInv'
<1>0. /\ StageTyped /\ WorkFollowsRow /\ CommandsInOrder /\ AnswersHold
      /\ A!HeldIsOff /\ A!PauseCanFinish /\ A!StartsOnce
      /\ command \in RegisterRow /\ act \in ActRow /\ server \in ServerRow
  BY StageTypedFolds DEF ActivationInv, StageTyped
<1>1. /\ work.pc = "paused" /\ act.phase = "stopping" /\ deploy.hold /\ ~server.running
      /\ UNCHANGED <<conf, desired, deploy, enabled, reviewed, server, sent, starts>>
      /\ work' = A!NoJob
      /\ command' = [command EXCEPT !.pending = FALSE] /\ act' = [act EXCEPT !.phase = "paused"]
  BY <1>0 DEF A!PauseFinish, WorkFollowsRow, PausingSteps
<1>2. /\ command' \in RegisterRow /\ command'.act = command.act /\ command'.rev = command.rev
      /\ act' \in ActRow /\ act'.phase = "paused"
      /\ command.act = "stop" /\ command.rev = act.stop /\ server.rev >= act.stop
  <2>1. command = [act |-> "stop", rev |-> act.stop, pending |-> TRUE]
    BY <1>0, <1>1 DEF A!PauseCanFinish
  <2>2. server.rev >= act.stop
    BY <1>0, <1>1 DEF AnswersHold
  <2>3. command' \in RegisterRow /\ command'.act = command.act /\ command'.rev = command.rev
    BY <1>0, <1>1 DEF RegisterRow
  <2>4. act' \in ActRow /\ act'.phase = "paused"
    BY <1>0, <1>1 DEF ActRow
  <2> QED BY <2>1, <2>2, <2>3, <2>4
<1>3. StageTyped'
  BY <1>0, <1>1, <1>2, NoOperation DEF StageTyped
<1>4. WorkFollowsRow'
  BY <1>1, <1>2, NoOperation DEF WorkFollowsRow, StagingSteps, StartingSteps, PausingSteps
<1>5. CommandsInOrder'
  <2>1. command.rev \in Int /\ server.rev \in Int /\ \A m \in sent : m.rev \in Int
    BY <1>0 DEF RegisterRow, ServerRow, StageTyped, CommandRow
  <2>2. \A m \in sent : m.do # "apply" => m.rev <= server.rev
    BY <1>0, <1>2, <2>1 DEF CommandsInOrder
  <2> QED BY <1>0, <1>1, <1>2, <2>2 DEF CommandsInOrder
<1>6. AnswersHold'
  BY <1>1, NoOperation DEF AnswersHold
<1>7. A!HeldIsOff' /\ A!PauseCanFinish' /\ A!StartsOnce'
  BY <1>0, <1>1, <1>2 DEF A!HeldIsOff, A!PauseCanFinish, A!StartsOnce
<1> QED BY <1>3, <1>4, <1>5, <1>6, <1>7, StageTypedFolds DEF ActivationInv

\* A configuration that arrives is not older than the one in place, nor newer than the
\* one staged last.
LEMMA AgentAppliesKeeps ==
    ASSUME ActivationInv, NEW m \in sent, A!AgentApplies(m)
    PROVE  ActivationInv'
<1>0. /\ StageTyped /\ WorkFollowsRow /\ CommandsInOrder /\ AnswersHold
      /\ A!HeldIsOff /\ A!PauseCanFinish /\ A!StartsOnce
      /\ server \in ServerRow /\ desired \in DesiredRow /\ work \in OperationRow
      /\ m \in CommandRow /\ deploy \in DeployRow
  BY StageTypedFolds DEF ActivationInv, StageTyped
<1>1. /\ m.do = "apply" /\ m.des >= server.cfg /\ server' = [server EXCEPT !.cfg = m.des]
      /\ UNCHANGED <<conf, command, deploy, act, enabled, reviewed, sent, starts>>
      /\ \/ /\ work.pc = "applySent" /\ A!Goto("applied")
            /\ desired' = desired \/ desired' = [desired EXCEPT !.applied = m.des]
         \/ UNCHANGED <<work, desired>>
  BY DEF A!AgentApplies
<1>2. /\ server' \in ServerRow /\ server'.cfg = m.des /\ server'.rev = server.rev
      /\ server'.act = server.act /\ server'.running = server.running
  BY <1>0, <1>1 DEF ServerRow, CommandRow
<1>3. desired' \in DesiredRow
  BY <1>0, <1>1 DEF DesiredRow, CommandRow
<1>4. work' \in OperationRow /\ (work' = work \/ (work.pc \in StagingSteps /\ work'.pc = "applied"))
  BY <1>0, <1>1, WorkGoesOn DEF StagingSteps
<1>5. StageTyped'
  BY <1>0, <1>1, <1>2, <1>3, <1>4 DEF StageTyped
<1>6. WorkFollowsRow'
  BY <1>0, <1>1, <1>4 DEF WorkFollowsRow, StagingSteps, StartingSteps, PausingSteps
<1>7. CommandsInOrder'
  BY <1>0, <1>1, <1>2 DEF CommandsInOrder
<1>8. AnswersHold'
  <2>1. work.pc = "finish" => m.des = server.cfg
    <3>1. m.des <= deploy.des
      BY <1>0, <1>1 DEF CommandsInOrder
    <3>2. work.pc = "finish" => server.cfg = deploy.des
      BY <1>0 DEF AnswersHold, WorkFollowsRow, StartingSteps
    <3> QED BY <1>0, <1>1, <3>1, <3>2 DEF CommandRow, DeployRow
  <2>2. work'.pc = "finish" => work.pc = "finish"
    BY <1>4
  <2>3. work'.pc = "paused" => work.pc = "paused"
    BY <1>4
  <2> QED BY <1>0, <1>1, <1>2, <2>1, <2>2, <2>3 DEF AnswersHold
<1>9. A!HeldIsOff' /\ A!PauseCanFinish' /\ A!StartsOnce'
  BY <1>0, <1>1, <1>2 DEF A!HeldIsOff, A!PauseCanFinish, A!StartsOnce
<1> QED BY <1>5, <1>6, <1>7, <1>8, <1>9, StageTypedFolds DEF ActivationInv

\* A command is carried out only if newer than the last one, hence once.
LEMMA AgentObeysKeeps ==
    ASSUME ActivationInv, NEW m \in sent, A!AgentObeys(m)
    PROVE  ActivationInv'
<1>0. /\ StageTyped /\ WorkFollowsRow /\ CommandsInOrder /\ AnswersHold
      /\ A!HeldIsOff /\ A!PauseCanFinish /\ A!StartsOnce
      /\ server \in ServerRow /\ command \in RegisterRow /\ act \in ActRow /\ m \in CommandRow
      /\ starts \in [0 .. StageCommands -> Nat]
  BY StageTypedFolds DEF ActivationInv, StageTyped
<1>1. /\ m.do \in {"stop", "start"} /\ m.rev > server.rev /\ A!Reply(m)
      /\ UNCHANGED <<conf, desired, command, deploy, act, enabled, reviewed, sent>>
      /\ starts' = IF m.do = "start" THEN [starts EXCEPT ![m.rev] = @ + 1] ELSE starts
  BY DEF A!AgentObeys
<1>2. /\ server' \in ServerRow /\ server'.cfg = server.cfg /\ server'.rev = m.rev
      /\ server'.act = m.do /\ (server'.running => m.do = "start")
  <2> DEFINE s1 == [server EXCEPT !.rev = m.rev]
             s2 == [s1 EXCEPT !.act = m.do]
             s3 == [s2 EXCEPT !.running = m.do = "start"]
  <2>1. s1 \in ServerRow /\ s1.cfg = server.cfg /\ s1.rev = m.rev
    BY <1>0 DEF ServerRow, CommandRow
  <2>2. s2 \in ServerRow /\ s2.cfg = server.cfg /\ s2.rev = m.rev /\ s2.act = m.do
    <3> HIDE DEF s1
    <3> QED BY <1>1, <2>1 DEF ServerRow
  <2>3. /\ s3 \in ServerRow /\ s3.cfg = server.cfg /\ s3.rev = m.rev
        /\ s3.act = m.do /\ (s3.running => m.do = "start")
    <3> HIDE DEF s2
    <3> QED BY <2>2 DEF ServerRow
  <2>4. server' = s3
    BY DEF A!AgentObeys
  <2> HIDE DEF s3
  <2> QED BY <2>3, <2>4
<1>3. /\ work' \in OperationRow
      /\ \/ work.pc = "stopSent" /\ work'.pc = "stopped"
         \/ work.pc = "pauseSent" /\ m.rev = act.stop /\ work'.pc = "paused"
         \/ work.pc = "startSent" /\ work'.pc = "confirm"
         \/ work' = work
  BY <1>0, <1>1, ReplyGoesOn
<1>4. /\ m.rev \in 0 .. StageCommands /\ m.rev \in Int /\ server.rev \in Int /\ command.rev \in Int
      /\ act.start \in Int /\ act.stop \in Int
      /\ m.rev <= command.rev /\ (m.rev = command.rev => m.do = command.act)
      /\ m.do = "start" /\ act.phase = "paused" => m.rev <= server.rev
      /\ \A n \in sent : n.rev \in Int
  <2>1. /\ m.rev <= command.rev /\ (m.rev = command.rev => m.do = command.act)
        /\ m.do = "start" /\ act.phase = "paused" => m.rev <= server.rev
    BY <1>0, <1>1 DEF CommandsInOrder
  <2>2. m.rev \in 0 .. StageCommands /\ m.rev \in Int /\ server.rev \in Int /\ command.rev \in Int
    BY <1>0 DEF CommandRow, ServerRow, RegisterRow
  <2>3. act.start \in Int /\ act.stop \in Int /\ \A n \in sent : n.rev \in Int
    BY <1>0 DEF ActRow, StageTyped, CommandRow
  <2> QED BY <2>1, <2>2, <2>3
<1>5. /\ starts' \in [0 .. StageCommands -> Nat]
      /\ starts'[m.rev] \in {starts[m.rev], 1} /\ \A r \in 0 .. StageCommands : r # m.rev => starts'[r] = starts[r]
  <2>1. starts[m.rev] = 0
    BY <1>0, <1>1, <1>4 DEF CommandsInOrder
  <2> QED BY <1>0, <1>1, <1>4, <2>1
<1>6. StageTyped'
  BY <1>0, <1>1, <1>2, <1>3, <1>5 DEF StageTyped
<1>7. WorkFollowsRow'
  BY <1>0, <1>1, <1>3 DEF WorkFollowsRow, StagingSteps, StartingSteps, PausingSteps
<1>8. CommandsInOrder'
  <2>1. \A r \in 0 .. StageCommands : r > server'.rev => starts'[r] = 0
    BY <1>0, <1>1, <1>2, <1>4, <1>5 DEF CommandsInOrder
  <2>2. ASSUME NEW n \in sent
        PROVE  IF n.do = "apply" THEN n.des <= deploy.des
               ELSE /\ n.rev <= command.rev
                    /\ n.rev = command.rev => n.do = command.act
                    /\ n.do = "start" /\ act.phase = "paused" => n.rev <= server'.rev
    BY <1>0, <1>1, <1>2, <1>4 DEF CommandsInOrder
  <2>3. /\ server'.rev <= command.rev /\ (server'.rev = command.rev => server'.act = command.act)
        /\ server'.running => server'.act = "start"
    BY <1>2, <1>4
  <2> QED BY <1>0, <1>1, <2>1, <2>2, <2>3 DEF CommandsInOrder
<1>9. AnswersHold'
  <2>1. work'.pc = "finish" => work.pc = "finish"
    BY <1>3
  <2>2. work'.pc = "paused" => work.pc = "paused" \/ server'.rev = act.stop
    BY <1>2, <1>3
  <2> QED BY <1>0, <1>1, <1>2, <1>4, <2>1, <2>2 DEF AnswersHold
<1>10. A!HeldIsOff'
  <2>1. deploy.hold /\ m.do = "start" /\ m.rev = command.rev => act.phase = "starting"
    BY <1>0, <1>4 DEF A!HeldIsOff
  <2>2. m.do = "start" => act.phase # "paused"
    BY <1>1, <1>4
  <2> QED BY <1>0, <1>1, <1>2, <2>1, <2>2 DEF A!HeldIsOff
<1>11. A!PauseCanFinish' /\ A!StartsOnce'
  BY <1>0, <1>1, <1>4, <1>5 DEF A!PauseCanFinish, A!StartsOnce
<1> QED BY <1>6, <1>7, <1>8, <1>9, <1>10, <1>11, StageTypedFolds DEF ActivationInv

\* At first the Node is stopped and disabled, and nothing is staged.
LEMMA ActivationInit == A!ActivationInit => ActivationInv
<1> SUFFICES ASSUME A!ActivationInit PROVE ActivationInv
  OBVIOUS
<1>0. 0 \in 0 .. StageEdits /\ 0 \in 0 .. StageCommands /\ 1 \in 1 .. StageCommands
      /\ -1 \in -1 .. StageEdits /\ 0 \in -1 .. StageEdits
  BY LifecycleAssumption
<1>1. StageTyped
  <2>1. conf \in ConfigRow /\ desired \in DesiredRow /\ command \in RegisterRow
    BY <1>0 DEF A!ActivationInit, ConfigRow, DesiredRow, RegisterRow
  <2>2. deploy \in DeployRow /\ act \in ActRow /\ server \in ServerRow
    BY <1>0 DEF A!ActivationInit, DeployRow, ActRow, ServerRow
  <2>3. starts \in [0 .. StageCommands -> Nat] /\ enabled \in BOOLEAN /\ sent \subseteq CommandRow
    BY DEF A!ActivationInit
  <2>4. work \in OperationRow /\ reviewed \in ReviewRow
    BY NoOperation DEF A!ActivationInit
  <2> QED BY <2>1, <2>2, <2>3, <2>4 DEF StageTyped
<1>2. WorkFollowsRow /\ AnswersHold
  BY NoOperation DEF A!ActivationInit, WorkFollowsRow, AnswersHold, StagingSteps, StartingSteps, PausingSteps
<1>3. CommandsInOrder
  BY DEF A!ActivationInit, CommandsInOrder
<1>4. A!HeldIsOff /\ A!PauseCanFinish /\ A!StartsOnce
  BY DEF A!ActivationInit, A!HeldIsOff, A!PauseCanFinish, A!StartsOnce
<1> QED BY <1>1, <1>2, <1>3, <1>4, StageTypedFolds DEF ActivationInv

\* Every step of the activation keeps the invariant.
LEMMA ActivationStep == ActivationInv /\ [A!ActivationNext]_aVars => ActivationInv'
<1> SUFFICES ASSUME ActivationInv, [A!ActivationNext]_aVars PROVE ActivationInv'
  OBVIOUS
<1>1. CASE UNCHANGED aVars
  <2>1. StageTyped'
    BY <1>1, StageTypedFolds DEF aVars, ActivationInv, StageTyped
  <2>2. WorkFollowsRow' /\ AnswersHold'
    BY <1>1 DEF aVars, ActivationInv, WorkFollowsRow, AnswersHold
  <2>3. CommandsInOrder'
    BY <1>1 DEF aVars, ActivationInv, CommandsInOrder
  <2>4. A!HeldIsOff' /\ A!PauseCanFinish' /\ A!StartsOnce'
    BY <1>1 DEF aVars, ActivationInv, A!HeldIsOff, A!PauseCanFinish, A!StartsOnce
  <2> QED BY <2>1, <2>2, <2>3, <2>4, StageTypedFolds DEF ActivationInv
<1>2. CASE A!ActivationNext
  <2>1. \/ Ordinary \/ Moving
        \/ \E then \in {"none", "review", "begin"} : A!StageBegin(then)
        \/ A!StageCompile \/ A!StagePublish \/ A!BeginStart \/ A!ActivateFinish
        \/ A!PauseBegin \/ A!PauseFinish
        \/ \E m \in sent : A!AgentApplies(m) \/ A!AgentObeys(m)
    BY <1>2 DEF A!ActivationNext, Ordinary, Moving
  <2> QED BY <2>1, OrdinaryKeeps, MovingKeeps, StageBeginKeeps, StageRowsKeep, BeginStartKeeps,
             ActivateFinishKeeps, PauseBeginKeeps, PauseFinishKeeps, AgentAppliesKeeps, AgentObeysKeeps
<1> QED BY <1>1, <1>2

\* The Node enters service with what was reviewed only.
LEMMA ActivatedStep ==
    ASSUME ActivationInv, [A!ActivationNext]_aVars, act.phase = "starting", act'.phase = "activated"
    PROVE  /\ server.cfg = act.des /\ server.rev = act.start
           /\ desired = [v |-> act.des, applied |-> act.des] /\ conf.src = act.src
           /\ command.act = "start" /\ command.rev = act.start
<1>0. /\ StageTyped /\ CommandsInOrder /\ AnswersHold /\ act \in ActRow /\ server \in ServerRow
  BY StageTypedFolds DEF ActivationInv, StageTyped
<1>1. ASSUME UNCHANGED act PROVE FALSE
  BY <1>1
<1>2. ASSUME A!PauseBegin PROVE FALSE
  <2>1. act' = [[act EXCEPT !.phase = "stopping"] EXCEPT !.stop = command.rev]
        \/ act' = [[act EXCEPT !.phase = "stopping"] EXCEPT !.stop = command.rev + 1]
    BY <1>2 DEF A!PauseBegin
  <2> QED BY <1>0, <2>1 DEF ActRow
<1>3. ASSUME A!BeginStart PROVE FALSE
  BY <1>3 DEF A!BeginStart
<1>4. ASSUME A!PauseFinish PROVE FALSE
  BY <1>0, <1>4 DEF A!PauseFinish, ActRow
<1>5. A!ActivateFinish
  BY <1>1, <1>2, <1>3, <1>4 DEF A!ActivationNext, aVars, A!Edit, A!SetEnabled, A!Record, A!StageBegin,
     A!CompileDesired, A!DeliverOrdinary, A!CoreDies, A!StageStop, A!StageCompile, A!StageApply,
     A!StageVerify, A!StagePublish, A!ActivateRetry, A!FreshInputs, A!PauseAsk, A!PauseSend, A!JobEnds,
     A!AgentApplies, A!AgentObeys, A!AgentRepeats
<1>6. work.pc = "finish" /\ A!ActCurrent /\ A!InputsCurrent
  BY <1>1, <1>5 DEF A!ActivateFinish
<1>7. command.act = "start" /\ command.rev = act.start
  BY <1>6 DEF A!ActCurrent
<1>8. server.rev = act.start
  BY <1>0, <1>6, <1>7 DEF AnswersHold, CommandsInOrder, ServerRow, ActRow
<1> QED BY <1>0, <1>6, <1>7, <1>8 DEF AnswersHold, A!InputsCurrent

------------------------------------------------------------
(* Desired configuration: the inductive invariant *)

Revisions == 0..(3*ConfigEdits + 1)

Callers == {"monitor", "owner", "gone"}
WantRow == [rev : Revisions, doc : D!Documents, appliedRev : Revisions, applied : D!Documents,
            err : BOOLEAN]
ThreadRow == [pc : {"rest", "built", "stored", "sent", "ok", "refused"}, rev : Revisions,
              doc : D!Documents]
LinkRow == [err : {"none", "transient", "fatal"}, n : 0..3, seen : BOOLEAN]
StateRow == [rev : Revisions, doc : D!Documents, err : BOOLEAN]
Requests == [by : Callers, rev : Revisions, doc : D!Documents]
ApplyRow == [pc : {"none", "stop", "write", "start", "commit"}, by : Callers,
             rev : Revisions, doc : D!Documents, old : D!Documents]

DesiredTyped ==
    /\ assigned \in [NodeInbounds -> {"none", "new", "deployed", "failed"}]
    /\ edits \in 0..ConfigEdits /\ edit \in Nat /\ edit <= edits /\ enabledNode \in BOOLEAN
    /\ want \in WantRow /\ thread \in [D!HubThreads -> ThreadRow]
    /\ lock \in D!HubThreads \union {"free"} /\ link \in LinkRow
    /\ wire \subseteq Requests /\ state \in StateRow /\ apply \in ApplyRow
    /\ rows \in D!Documents /\ running \in D!Documents \union {D!Off}
    /\ named \in [Revisions -> D!Documents] /\ fatalSince \in BOOLEAN

\* A revision names one document wherever it has got to, and nobody is ahead of the Hub.
RevisionsNamed ==
    /\ want.doc = named[want.rev] /\ state.doc = named[state.rev]
    /\ want.appliedRev <= state.rev /\ state.rev <= want.rev
    /\ \A m \in wire : m.rev <= want.rev /\ m.doc = named[m.rev]
    /\ apply.pc # "none" =>
          /\ state.rev <= apply.rev /\ apply.rev <= want.rev
          /\ apply.doc = named[apply.rev]
    /\ \A w \in D!HubThreads :
          /\ thread[w].pc \in {"stored", "sent", "ok", "refused"} =>
                thread[w].rev <= want.rev /\ thread[w].doc = named[thread[w].rev]
          /\ thread[w].pc = "ok" => thread[w].rev <= state.rev

\* A thread that has not given up waits for the one request it sent.
Awaits(w, rev, doc) == thread[w].pc = "sent" /\ thread[w].rev = rev /\ thread[w].doc = doc
CallersWait ==
    /\ \A m \in wire : m.by # "gone" => Awaits(m.by, m.rev, m.doc)
    /\ apply.pc = "none" => apply.by = "gone"
    /\ apply.by # "gone" => /\ Awaits(apply.by, apply.rev, apply.doc)
                            /\ \A m \in wire : m.by # apply.by

\* How far rows and core have got, and that both carry the latest document once the Agent
\* has recorded its revision, also when it is applied again and fails.
RowsFollow ==
    /\ apply.pc \in {"start", "commit"} => rows = apply.doc
    /\ apply.pc = "commit" => running = rows
    /\ state.rev = want.rev =>
          /\ rows = want.doc
          /\ IF apply.pc = "none" THEN running = want.doc ELSE apply.old = want.doc

\* An assignment is shown as deployed for the acknowledged document, and a refusal is
\* forgotten with the connection only.
RoutesFollow ==
    /\ want.rev = want.appliedRev =>
          \A i \in NodeInbounds : assigned[i] = "deployed" => i \in want.doc.inb
    /\ fatalSince /\ link.seen => link.err = "fatal"

DeliveryInv == DesiredTyped /\ RevisionsNamed /\ CallersWait /\ RowsFollow /\ RoutesFollow

\* What rests, and the names of the threads.
LEMMA Resting ==
    /\ ConfigEdits \in Nat /\ ConfigFaults \in Nat
    /\ 0 \in Revisions /\ D!Blank \in D!Documents /\ D!Rest \in ThreadRow /\ D!NoApply \in ApplyRow
    /\ D!Rest.pc = "rest" /\ D!NoApply.pc = "none" /\ D!NoApply.by = "gone"
    /\ D!HubThreads \subseteq Callers /\ "gone" \notin D!HubThreads
<1>1. ConfigEdits \in Nat /\ ConfigFaults \in Nat
  BY LifecycleAssumption
<1>2. 0 \in Revisions
  BY <1>1 DEF Revisions
<1>3. D!Blank \in D!Documents
  BY <1>1 DEF D!Blank, D!Documents
<1>4. D!Rest \in ThreadRow /\ D!NoApply \in ApplyRow
  BY <1>2, <1>3 DEF D!Rest, D!NoApply, ThreadRow, ApplyRow, Callers
<1> QED BY <1>1, <1>2, <1>3, <1>4 DEF D!Rest, D!NoApply, D!HubThreads, Callers

\* A fresh Node, and nothing to deliver.
LEMMA DeliveryInit == D!DesiredInit => DeliveryInv
<1> SUFFICES ASSUME D!DesiredInit PROVE DeliveryInv
  OBVIOUS
<1>1. [r \in 0..(3*ConfigEdits+1) |-> D!Blank] \in [Revisions -> D!Documents]
  BY Resting DEF Revisions
<1>2. want \in WantRow /\ link \in LinkRow /\ state \in StateRow
  BY Resting DEF D!DesiredInit, WantRow, LinkRow, StateRow
<1>3. DesiredTyped
  <2>1. /\ assigned \in [NodeInbounds -> {"none", "new", "deployed", "failed"}]
        /\ edits \in 0..ConfigEdits /\ edit \in Nat /\ edit <= edits
    BY Resting DEF D!DesiredInit
  <2>2. thread \in [D!HubThreads -> ThreadRow] /\ lock \in D!HubThreads \union {"free"}
    BY Resting DEF D!DesiredInit
  <2>3. named \in [Revisions -> D!Documents]
    BY <1>1 DEF D!DesiredInit
  <2>4. /\ wire \subseteq Requests /\ apply \in ApplyRow /\ rows \in D!Documents
        /\ running \in D!Documents \union {D!Off}
    BY Resting DEF D!DesiredInit
  <2>5. enabledNode \in BOOLEAN /\ fatalSince \in BOOLEAN
    BY DEF D!DesiredInit
  <2> QED BY <1>2, <2>1, <2>2, <2>3, <2>4, <2>5 DEF DesiredTyped
<1>4. RevisionsNamed
  BY Resting, <1>3 DEF D!DesiredInit, RevisionsNamed, Revisions
<1>5. CallersWait /\ RowsFollow /\ RoutesFollow
  BY Resting DEF D!DesiredInit, CallersWait, RowsFollow, RoutesFollow
<1> QED BY <1>3, <1>4, <1>5 DEF DeliveryInv

\* _request_failed and _request_ok: what is held against the connection.
LEMMA FailedLink ==
    ASSUME link \in LinkRow, NEW kind \in {"transient", "fatal"}, D!Failed(kind)
    PROVE  /\ link' \in LinkRow /\ link'.seen = link.seen
           /\ link'.err = IF link.err = "fatal" THEN "fatal" ELSE kind
<1> DEFINE e == IF link.err = "fatal" THEN "fatal" ELSE kind
           n == IF link.n < 3 THEN link.n + 1 ELSE 3
<1>1. link' = [link EXCEPT !.err = e, !.n = n]
  BY DEF D!Failed
<1>2. e \in {"none", "transient", "fatal"} /\ n \in 0..3
  BY DEF LinkRow
<1> HIDE DEF e, n
<1>3. link' \in LinkRow /\ link'.seen = link.seen /\ link'.err = e
  BY <1>1, <1>2 DEF LinkRow
<1> QED BY <1>3 DEF e

\* The caller of a request hears of it, if it still waits.
LEMMA Told ==
    ASSUME thread \in [D!HubThreads -> ThreadRow], link \in LinkRow, fatalSince \in BOOLEAN,
           NEW w \in Callers, NEW answer \in {"ok", "refused"}, D!Tell(w, answer)
    PROVE  /\ thread' \in [D!HubThreads -> ThreadRow] /\ link' \in LinkRow
           /\ fatalSince' \in BOOLEAN
           /\ \A v \in D!HubThreads :
                 /\ thread'[v].rev = thread[v].rev /\ thread'[v].doc = thread[v].doc
                 /\ thread'[v].pc = IF v = w THEN answer ELSE thread[v].pc
           /\ RoutesFollow /\ UNCHANGED <<want, assigned>> => RoutesFollow'
<1>1. CASE w = "gone"
  <2>1. UNCHANGED <<thread, link, fatalSince>> /\ \A v \in D!HubThreads : v # w
    BY <1>1, Resting DEF D!Tell
  <2> QED BY <2>1 DEF RoutesFollow
<1>2. CASE w # "gone"
  <2>1. /\ thread' = [thread EXCEPT ![w].pc = answer] /\ w \in D!HubThreads
        /\ IF answer = "ok" THEN D!Answered ELSE UNCHANGED <<link, fatalSince>>
    BY <1>2 DEF D!Tell, Callers, D!HubThreads
  <2>2. link' \in LinkRow /\ fatalSince' \in BOOLEAN
    <3>1. CASE answer = "ok"
      <4>1. link' = [err |-> "none", n |-> 0, seen |-> TRUE] /\ fatalSince' = FALSE
        BY <2>1, <3>1 DEF D!Answered
      <4>2. link' \in LinkRow
        BY <4>1 DEF LinkRow
      <4> QED BY <4>1, <4>2
    <3>2. CASE answer # "ok"
      BY <2>1, <3>2
    <3> QED BY <3>1, <3>2
  <2>3. /\ thread' \in [D!HubThreads -> ThreadRow]
        /\ \A v \in D!HubThreads :
                 /\ thread'[v].rev = thread[v].rev /\ thread'[v].doc = thread[v].doc
                 /\ thread'[v].pc = IF v = w THEN answer ELSE thread[v].pc
    BY <2>1 DEF ThreadRow
  <2>4. fatalSince' /\ link'.seen => fatalSince /\ link.seen /\ link'.err = link.err
    BY <2>1 DEF D!Answered
  <2>5. RoutesFollow /\ UNCHANGED <<want, assigned>> => RoutesFollow'
    BY <2>4 DEF RoutesFollow
  <2> QED BY <2>2, <2>3, <2>5
<1> QED BY <1>1, <1>2

\* A caller that has given up is nobody's any more, and its document loses nothing but that.
LEMMA GoneHolds ==
    ASSUME DesiredTyped, CallersWait, NEW w \in D!HubThreads, D!Gone(w)
    PROVE  /\ thread' \in [D!HubThreads -> ThreadRow] /\ wire' \subseteq Requests
           /\ apply' \in ApplyRow /\ lock' \in D!HubThreads \union {"free"}
           /\ thread'[w] = D!Rest /\ \A v \in D!HubThreads \ {w} : thread'[v] = thread[v]
           /\ \A m \in wire' : \E k \in wire : m.rev = k.rev /\ m.doc = k.doc
           /\ apply'.pc = apply.pc /\ apply'.rev = apply.rev /\ apply'.doc = apply.doc
           /\ apply'.old = apply.old
           /\ CallersWait'
<1>1. thread' = [thread EXCEPT ![w] = D!Rest]
  BY DEF D!Gone
<1>2. /\ thread' \in [D!HubThreads -> ThreadRow]
      /\ thread'[w] = D!Rest /\ \A v \in D!HubThreads \ {w} : thread'[v] = thread[v]
  BY <1>1, Resting DEF DesiredTyped
<1>3. /\ wire' \subseteq Requests
      /\ \A m \in wire' : \E k \in wire :
            m.rev = k.rev /\ m.doc = k.doc /\ m.by = IF k.by = w THEN "gone" ELSE k.by
  BY DEF D!Gone, DesiredTyped, Requests, Callers
<1>4. /\ apply' \in ApplyRow /\ apply'.by = IF apply.by = w THEN "gone" ELSE apply.by
      /\ apply'.pc = apply.pc /\ apply'.rev = apply.rev /\ apply'.doc = apply.doc
      /\ apply'.old = apply.old
  BY DEF D!Gone, DesiredTyped, ApplyRow, Callers
<1>5. lock' \in D!HubThreads \union {"free"}
  BY DEF D!Gone
<1>6. CallersWait'
  <2>1. ASSUME NEW m \in wire', m.by # "gone" PROVE Awaits(m.by, m.rev, m.doc)'
    <3>1. PICK k \in wire : m.rev = k.rev /\ m.doc = k.doc /\ m.by = k.by /\ k.by # w
      BY <1>3, <2>1
    <3>2. k.by \in D!HubThreads \ {w} /\ Awaits(k.by, k.rev, k.doc)
      BY <2>1, <3>1 DEF CallersWait, DesiredTyped, Requests, Callers, D!HubThreads
    <3> QED BY <1>2, <3>1, <3>2 DEF Awaits
  <2>2. ASSUME apply'.by # "gone"
        PROVE  Awaits(apply.by, apply.rev, apply.doc)' /\ \A m \in wire' : m.by # apply'.by
    <3>1. apply'.by = apply.by /\ apply.by \in D!HubThreads \ {w}
      BY <1>4, <2>2 DEF DesiredTyped, ApplyRow, Callers, D!HubThreads
    <3>2. Awaits(apply.by, apply.rev, apply.doc) /\ \A m \in wire : m.by # apply.by
      BY <2>2, <3>1 DEF CallersWait
    <3> QED BY <1>2, <1>3, <1>4, <2>2, <3>1, <3>2 DEF Awaits
  <2> QED BY <1>4, <2>1, <2>2 DEF CallersWait
<1> QED BY <1>2, <1>3, <1>4, <1>5, <1>6

\* Assigning an inbound to the Node, or taking it back.
LEMMA AssignKeeps ==
    ASSUME DeliveryInv, NEW i \in NodeInbounds, D!Assign(i)
    PROVE  DeliveryInv'
<1> USE DEF D!hubConfig, D!agentVars
<1>0. DesiredTyped /\ RevisionsNamed /\ CallersWait /\ RowsFollow /\ RoutesFollow
  BY DEF DeliveryInv
<1>1. DesiredTyped'
  BY <1>0, Resting DEF D!Assign, D!Edits, DesiredTyped, WantRow, ThreadRow, LinkRow, StateRow,
     Requests, ApplyRow
<1>2. RevisionsNamed'
  BY <1>0, <1>1, Resting DEF D!Assign, D!Edits, DesiredTyped, WantRow, ThreadRow, LinkRow,
     StateRow, Requests, ApplyRow, RevisionsNamed, Revisions
<1>3. CallersWait'
  BY <1>0, <1>1, Resting DEF D!Assign, D!Edits, DesiredTyped, WantRow, ThreadRow, LinkRow,
     StateRow, Requests, ApplyRow, CallersWait, Awaits
<1>4. RowsFollow'
  BY <1>0, <1>1, Resting DEF D!Assign, D!Edits, DesiredTyped, WantRow, ThreadRow, LinkRow,
     StateRow, Requests, ApplyRow, RevisionsNamed, RowsFollow, Revisions
<1>5. RoutesFollow'
  BY <1>0, <1>1, Resting DEF D!Assign, D!Edits, DesiredTyped, WantRow, ThreadRow, LinkRow,
     StateRow, Requests, ApplyRow, RevisionsNamed, RoutesFollow, Revisions
<1> QED BY <1>1, <1>2, <1>3, <1>4, <1>5 DEF DeliveryInv

\* Any other edit.
LEMMA ChangeKeeps ==
    ASSUME DeliveryInv, D!Change
    PROVE  DeliveryInv'
<1> USE DEF D!hubConfig, D!agentVars
<1>0. DesiredTyped /\ RevisionsNamed /\ CallersWait /\ RowsFollow /\ RoutesFollow
  BY DEF DeliveryInv
<1>1. DesiredTyped'
  BY <1>0, Resting DEF D!Change, D!Edits, DesiredTyped, WantRow, ThreadRow, LinkRow, StateRow,
     Requests, ApplyRow
<1>2. RevisionsNamed'
  BY <1>0, <1>1, Resting DEF D!Change, D!Edits, DesiredTyped, WantRow, ThreadRow, LinkRow,
     StateRow, Requests, ApplyRow, RevisionsNamed, Revisions
<1>3. CallersWait'
  BY <1>0, <1>1, Resting DEF D!Change, D!Edits, DesiredTyped, WantRow, ThreadRow, LinkRow,
     StateRow, Requests, ApplyRow, CallersWait, Awaits
<1>4. RowsFollow'
  BY <1>0, <1>1, Resting DEF D!Change, D!Edits, DesiredTyped, WantRow, ThreadRow, LinkRow,
     StateRow, Requests, ApplyRow, RevisionsNamed, RowsFollow, Revisions
<1>5. RoutesFollow'
  BY <1>0, <1>1, Resting DEF D!Change, D!Edits, DesiredTyped, WantRow, ThreadRow, LinkRow,
     StateRow, Requests, ApplyRow, RevisionsNamed, RoutesFollow, Revisions
<1> QED BY <1>1, <1>2, <1>3, <1>4, <1>5 DEF DeliveryInv

\* Enabling or disabling the Node.
LEMMA EnableKeeps ==
    ASSUME DeliveryInv, D!Enable
    PROVE  DeliveryInv'
<1> USE DEF D!hubConfig, D!agentVars
<1>0. DesiredTyped /\ RevisionsNamed /\ CallersWait /\ RowsFollow /\ RoutesFollow
  BY DEF DeliveryInv
<1>1. DesiredTyped'
  <2>1. link' \in LinkRow
    BY <1>0 DEF D!Enable, DesiredTyped, LinkRow
  <2>2. enabledNode' \in BOOLEAN
    BY DEF D!Enable
  <2>3. edits' \in 0..ConfigEdits /\ edit' \in Nat /\ edit' <= edits'
    BY <1>0, Resting DEF D!Enable, DesiredTyped
  <2> QED BY <1>0, <2>1, <2>2, <2>3 DEF D!Enable, DesiredTyped
<1>2. RevisionsNamed'
  BY <1>0 DEF D!Enable, RevisionsNamed
<1>3. CallersWait'
  BY <1>0 DEF D!Enable, CallersWait, Awaits
<1>4. RowsFollow'
  BY <1>0 DEF D!Enable, RowsFollow
<1>5. RoutesFollow'
  BY <1>0 DEF D!Enable, RoutesFollow, DesiredTyped, LinkRow
<1> QED BY <1>1, <1>2, <1>3, <1>4, <1>5 DEF DeliveryInv

\* Compiling.
LEMMA BuildKeeps ==
    ASSUME DeliveryInv, NEW w \in D!HubThreads, D!Build(w)
    PROVE  DeliveryInv'
<1> USE DEF D!hubConfig, D!agentVars
<1>0. DesiredTyped /\ RevisionsNamed /\ CallersWait /\ RowsFollow /\ RoutesFollow
  BY DEF DeliveryInv
<1>1. DesiredTyped'
  <2>1. D!Compiled \in D!Documents
    BY <1>0, Resting DEF D!Compiled, D!Assigned, D!Documents, DesiredTyped
  <2>2. [pc |-> "built", rev |-> 0, doc |-> D!Compiled] \in ThreadRow
    BY <2>1, Resting DEF ThreadRow
  <2>3. thread' \in [D!HubThreads -> ThreadRow]
    BY <1>0, <2>2 DEF D!Build, DesiredTyped
  <2>4. edits' \in 0..ConfigEdits /\ edit' \in Nat /\ edit' <= edits'
    BY <1>0, Resting DEF D!Build, DesiredTyped
  <2> QED BY <1>0, <2>3, <2>4 DEF D!Build, DesiredTyped
<1>2. RevisionsNamed'
  BY <1>0 DEF D!Build, DesiredTyped, RevisionsNamed
<1>3. CallersWait'
  BY <1>0, Resting DEF D!Build, DesiredTyped, CallersWait, Awaits
<1>4. RowsFollow'
  BY <1>0 DEF D!Build, RowsFollow
<1>5. RoutesFollow'
  BY <1>0 DEF D!Build, RoutesFollow
<1> QED BY <1>1, <1>2, <1>3, <1>4, <1>5 DEF DeliveryInv

\* Numbering a document.
LEMMA StoreKeeps ==
    ASSUME DeliveryInv, NEW w \in D!HubThreads, D!Store(w)
    PROVE  DeliveryInv'
<1> USE DEF D!hubConfig, D!agentVars
<1>0. DesiredTyped /\ RevisionsNamed /\ CallersWait /\ RowsFollow /\ RoutesFollow
  BY DEF DeliveryInv
<1>a. thread[w] \in ThreadRow /\ thread[w].doc \in D!Documents /\ thread[w].pc = "built"
  BY <1>0 DEF D!Store, DesiredTyped, ThreadRow
<1>b. /\ want' \in WantRow /\ want.rev \in Nat
      /\ want'.appliedRev = want.appliedRev /\ want'.doc = thread[w].doc
      /\ want' = want \/ want'.rev = want.rev + 1
  <2>1. CASE thread[w].doc = want.doc /\ want.rev > 0
    BY <1>0, <2>1 DEF D!Store, DesiredTyped, WantRow, Revisions
  <2>2. CASE ~(thread[w].doc = want.doc /\ want.rev > 0)
    <3>1. /\ want.rev < 3*ConfigEdits + 1
          /\ want' = [want EXCEPT !.rev = @ + 1, !.doc = thread[w].doc, !.err = FALSE]
      BY <2>2 DEF D!Store
    <3>2. want.rev + 1 \in Revisions /\ want.rev \in Nat
      BY <1>0, <3>1, Resting DEF DesiredTyped, WantRow, Revisions
    <3> QED BY <1>0, <1>a, <3>1, <3>2 DEF DesiredTyped, WantRow
  <2> QED BY <2>1, <2>2
<1>c. /\ named' = [named EXCEPT ![want'.rev] = want'.doc] /\ want'.rev \in Revisions
      /\ want'.doc \in D!Documents /\ named' \in [Revisions -> D!Documents]
      /\ named'[want'.rev] = want'.doc
      /\ \A r \in Revisions : r <= want.rev => named'[r] = named[r]
  <2>1. named' = [named EXCEPT ![want'.rev] = want'.doc]
    BY DEF D!Store
  <2>2. want'.rev \in Revisions /\ want'.doc \in D!Documents
    BY <1>b DEF WantRow
  <2>3. want' = want => named[want'.rev] = want'.doc
    BY <1>0 DEF RevisionsNamed
  <2>4. \A r \in Revisions : r <= want.rev => r # want'.rev \/ want' = want
    BY <1>b DEF Revisions
  <2> QED BY <1>0, <2>1, <2>2, <2>3, <2>4 DEF DesiredTyped
<1>d. thread' = [thread EXCEPT ![w] = [pc |-> "stored", rev |-> want'.rev, doc |-> want'.doc]]
  BY DEF D!Store
<1>e. UNCHANGED <<assigned, edit, enabledNode, edits, lock, link, wire, state, rows, running,
                  apply, desiredFaults, fatalSince>>
  BY DEF D!Store
<1>1. DesiredTyped'
  <2>1. [pc |-> "stored", rev |-> want'.rev, doc |-> want'.doc] \in ThreadRow
    BY <1>c DEF ThreadRow
  <2>2. thread' \in [D!HubThreads -> ThreadRow]
    BY <1>0, <1>d, <2>1 DEF DesiredTyped
  <2> QED BY <1>0, <1>b, <1>c, <1>e, <2>2 DEF DesiredTyped
<1>f. want.rev <= want'.rev /\ want'.rev \in Nat
  BY <1>b, <1>c DEF Revisions
<1>2. RevisionsNamed'
  <2>1. /\ state.rev \in Revisions /\ state.rev \in Nat
        /\ \A m \in wire : m.rev \in Revisions /\ m.rev \in Nat
        /\ apply.rev \in Revisions /\ apply.rev \in Nat
        /\ \A v \in D!HubThreads : thread[v].rev \in Revisions /\ thread[v].rev \in Nat
    BY <1>0 DEF DesiredTyped, StateRow, Requests, ApplyRow, ThreadRow, Revisions
  <2>2. want'.doc = named'[want'.rev] /\ state'.doc = named'[state'.rev]
    BY <1>0, <1>c, <1>e, <2>1 DEF RevisionsNamed
  <2>3. want'.appliedRev <= state'.rev /\ state'.rev <= want'.rev
    BY <1>0, <1>b, <1>e, <1>f, <2>1 DEF RevisionsNamed
  <2>4. \A m \in wire' : m.rev <= want'.rev /\ m.doc = named'[m.rev]
    BY <1>0, <1>b, <1>c, <1>e, <1>f, <2>1 DEF RevisionsNamed
  <2>5. apply'.pc # "none" =>
            /\ state'.rev <= apply'.rev /\ apply'.rev <= want'.rev
            /\ apply'.doc = named'[apply'.rev]
    BY <1>0, <1>b, <1>c, <1>e, <1>f, <2>1 DEF RevisionsNamed
  <2>6. ASSUME NEW v \in D!HubThreads
        PROVE  /\ thread'[v].pc \in {"stored", "sent", "ok", "refused"} =>
                      thread'[v].rev <= want'.rev /\ thread'[v].doc = named'[thread'[v].rev]
               /\ thread'[v].pc = "ok" => thread'[v].rev <= state'.rev
    <3>1. CASE v = w
      BY <1>0, <1>c, <1>d, <1>f, <3>1 DEF DesiredTyped
    <3>2. CASE v # w
      <4>1. thread'[v] = thread[v]
        BY <1>0, <1>d, <3>2 DEF DesiredTyped
      <4> QED BY <1>0, <1>b, <1>c, <1>e, <1>f, <2>1, <4>1 DEF RevisionsNamed
    <3> QED BY <3>1, <3>2
  <2> QED BY <2>2, <2>3, <2>4, <2>5, <2>6 DEF RevisionsNamed
<1>3. CallersWait'
  BY <1>0, <1>a, <1>d, <1>e DEF DesiredTyped, CallersWait, Awaits
<1>g. want' # want => state'.rev < want'.rev /\ want'.appliedRev < want'.rev
  BY <1>0, <1>b, <1>e DEF RevisionsNamed, DesiredTyped, StateRow, WantRow, Revisions
<1>h. state.rev = want'.rev \/ want.appliedRev = want'.rev => want' = want
  BY <1>0, <1>b, <1>e, <1>g DEF DesiredTyped, StateRow, WantRow, Revisions
<1>4. RowsFollow'
  BY <1>0, <1>e, <1>h DEF RowsFollow
<1>5. RoutesFollow'
  BY <1>0, <1>b, <1>e, <1>h DEF RoutesFollow
<1> QED BY <1>1, <1>2, <1>3, <1>4, <1>5 DEF DeliveryInv

\* Nothing to deliver.
LEMMA RestsKeeps ==
    ASSUME DeliveryInv, NEW w \in D!HubThreads, D!Rests(w)
    PROVE  DeliveryInv'
<1> USE DEF D!hubConfig, D!agentVars
<1>0. DesiredTyped /\ RevisionsNamed /\ CallersWait /\ RowsFollow /\ RoutesFollow
  BY DEF DeliveryInv
<1>1. DesiredTyped'
  BY <1>0, Resting DEF D!Rests, DesiredTyped, WantRow, ThreadRow, LinkRow, StateRow, Requests,
     ApplyRow
<1>2. RevisionsNamed'
  BY <1>0, <1>1, Resting DEF D!Rests, DesiredTyped, WantRow, ThreadRow, LinkRow, StateRow,
     Requests, ApplyRow, RevisionsNamed, Revisions
<1>3. CallersWait'
  BY <1>0, <1>1, Resting DEF D!Rests, DesiredTyped, WantRow, ThreadRow, LinkRow, StateRow,
     Requests, ApplyRow, CallersWait, Awaits
<1>4. RowsFollow'
  BY <1>0, <1>1, Resting DEF D!Rests, DesiredTyped, WantRow, ThreadRow, LinkRow, StateRow,
     Requests, ApplyRow, RevisionsNamed, RowsFollow, Revisions
<1>5. RoutesFollow'
  BY <1>0, <1>1, Resting DEF D!Rests, DesiredTyped, WantRow, ThreadRow, LinkRow, StateRow,
     Requests, ApplyRow, RevisionsNamed, RoutesFollow, Revisions
<1> QED BY <1>1, <1>2, <1>3, <1>4, <1>5 DEF DeliveryInv

\* A request leaves.
LEMMA DeliverKeeps ==
    ASSUME DeliveryInv, NEW w \in D!HubThreads, D!Deliver(w)
    PROVE  DeliveryInv'
<1> USE DEF D!hubConfig, D!agentVars
<1>0. DesiredTyped /\ RevisionsNamed /\ CallersWait /\ RowsFollow /\ RoutesFollow
  BY DEF DeliveryInv
<1> DEFINE q == [by |-> w, rev |-> want.rev, doc |-> want.doc]
<1>a. thread[w] \in ThreadRow /\ thread[w].pc = "stored"
  BY <1>0 DEF D!Deliver, DesiredTyped
<1>b. \/ /\ thread[w].rev = want.rev /\ wire' = wire \union {q}
         /\ thread' = [thread EXCEPT ![w].pc = "sent"]
      \/ wire' = wire /\ thread' = [thread EXCEPT ![w] = D!Rest]
  BY DEF D!Deliver
<1>c. q \in Requests /\ q.by = w /\ q.rev = want.rev /\ q.doc = want.doc
  BY <1>0, Resting DEF Requests, DesiredTyped, WantRow
<1>d. UNCHANGED <<assigned, edit, enabledNode, edits, want, link, state, rows, running,
                  apply, desiredFaults, named, fatalSince>>
  BY DEF D!Deliver
<1>e. /\ thread' \in [D!HubThreads -> ThreadRow]
      /\ \A v \in D!HubThreads \ {w} : thread'[v] = thread[v]
      /\ \/ /\ wire' = wire \union {q} /\ thread'[w].pc = "sent" /\ thread'[w].rev = want.rev
            /\ thread'[w].doc = thread[w].doc /\ thread[w].rev = want.rev
         \/ wire' = wire /\ thread'[w] = D!Rest
  BY <1>0, <1>b, Resting DEF DesiredTyped, ThreadRow
<1>1. DesiredTyped'
  <2>1. lock' \in D!HubThreads \union {"free"}
    BY <1>0 DEF D!Deliver, DesiredTyped
  <2> QED BY <1>0, <1>c, <1>d, <1>e, <2>1 DEF DesiredTyped
<1>2. RevisionsNamed'
  <2>1. want.rev <= want.rev
    BY <1>0 DEF DesiredTyped, WantRow, Revisions
  <2>2. \A m \in wire' : m.rev <= want'.rev /\ m.doc = named'[m.rev]
    BY <1>0, <1>c, <1>d, <1>e, <2>1 DEF RevisionsNamed
  <2>3. ASSUME NEW v \in D!HubThreads
        PROVE  /\ thread'[v].pc \in {"stored", "sent", "ok", "refused"} =>
                      thread'[v].rev <= want'.rev /\ thread'[v].doc = named'[thread'[v].rev]
               /\ thread'[v].pc = "ok" => thread'[v].rev <= state'.rev
    BY <1>0, <1>a, <1>d, <1>e, <2>1, Resting DEF RevisionsNamed
  <2> QED BY <1>0, <1>d, <2>2, <2>3 DEF RevisionsNamed
<1>3. CallersWait'
  <2>1. thread[w].doc = want.doc \/ wire' = wire
    BY <1>0, <1>a, <1>e DEF RevisionsNamed
  <2>2. \A m \in wire : m.by # w
    BY <1>0, <1>a, Resting DEF CallersWait, Awaits
  <2>3. apply.by # w
    BY <1>0, <1>a, Resting DEF CallersWait, Awaits
  <2>4. \A m \in wire : m.by # "gone" => m.by \in D!HubThreads \ {w}
    BY <1>0, <2>2 DEF DesiredTyped, Requests, Callers, D!HubThreads
  <2>5. apply.by # "gone" => apply.by \in D!HubThreads \ {w}
    BY <1>0, <2>3 DEF DesiredTyped, ApplyRow, Callers, D!HubThreads
  <2>6. \A m \in wire' : m.by # "gone" => Awaits(m.by, m.rev, m.doc)'
    BY <1>0, <1>c, <1>e, <2>1, <2>4 DEF CallersWait, Awaits
  <2>7. apply'.by # "gone" => /\ Awaits(apply.by, apply.rev, apply.doc)'
                              /\ \A m \in wire' : m.by # apply'.by
    BY <1>0, <1>c, <1>d, <1>e, <2>5 DEF CallersWait, Awaits
  <2> QED BY <1>0, <1>d, <2>6, <2>7 DEF CallersWait
<1>4. RowsFollow'
  BY <1>0, <1>d DEF RowsFollow
<1>5. RoutesFollow'
  BY <1>0, <1>d DEF RoutesFollow
<1> QED BY <1>1, <1>2, <1>3, <1>4, <1>5 DEF DeliveryInv

\* Recording an acknowledgement.
LEMMA AcknowledgeKeeps ==
    ASSUME DeliveryInv, NEW w \in D!HubThreads, D!Acknowledge(w)
    PROVE  DeliveryInv'
<1> USE DEF D!hubConfig, D!agentVars
<1>0. DesiredTyped /\ RevisionsNamed /\ CallersWait /\ RowsFollow /\ RoutesFollow
  BY DEF DeliveryInv
<1>a. /\ thread[w] \in ThreadRow /\ thread[w].pc = "ok"
      /\ thread[w].rev \in Revisions /\ thread[w].doc \in D!Documents
      /\ thread[w].rev <= state.rev /\ thread[w].doc = named[thread[w].rev]
  BY <1>0 DEF D!Acknowledge, DesiredTyped, ThreadRow, RevisionsNamed
<1>b. UNCHANGED <<edit, enabledNode, edits, link, wire, state, rows, running, apply, desiredFaults,
                  named, fatalSince>>
  BY DEF D!Acknowledge
<1>c. /\ thread' \in [D!HubThreads -> ThreadRow] /\ thread'[w] = D!Rest
      /\ \A v \in D!HubThreads \ {w} : thread'[v] = thread[v]
  BY <1>0, Resting DEF D!Acknowledge, DesiredTyped
<1>d. /\ want' \in WantRow /\ want'.rev = want.rev /\ want'.doc = want.doc
      /\ want'.appliedRev <= state.rev
      /\ assigned' \in [NodeInbounds -> {"none", "new", "deployed", "failed"}]
      /\ \/ want' = want /\ assigned' = assigned
         \/ \A i \in NodeInbounds : assigned'[i] = "deployed" => i \in want.doc.inb
  <2>1. CASE D!Matches(w)
    <3>1. /\ want' = [want EXCEPT !.appliedRev = thread[w].rev, !.applied = thread[w].doc,
                                  !.err = FALSE]
          /\ assigned' = [i \in NodeInbounds |->
                               IF assigned[i] = "none" THEN "none"
                               ELSE IF i \in thread[w].doc.inb THEN "deployed" ELSE "failed"]
      BY <2>1 DEF D!Acknowledge
    <3>2. thread[w].doc = want.doc
      BY <1>0, <1>a, <2>1 DEF D!Matches, RevisionsNamed
    <3>3. /\ want' \in WantRow /\ want'.rev = want.rev /\ want'.doc = want.doc
          /\ want'.appliedRev = thread[w].rev
      BY <1>0, <1>a, <3>1 DEF DesiredTyped, WantRow
    <3>4. /\ assigned' \in [NodeInbounds -> {"none", "new", "deployed", "failed"}]
          /\ \A i \in NodeInbounds : assigned'[i] = "deployed" => i \in thread[w].doc.inb
      BY <3>1
    <3> QED BY <1>a, <3>2, <3>3, <3>4
  <2>2. CASE ~D!Matches(w)
    BY <1>0, <2>2 DEF D!Acknowledge, DesiredTyped, RevisionsNamed
  <2> QED BY <2>1, <2>2
<1>1. DesiredTyped'
  <2>1. lock' \in D!HubThreads \union {"free"}
    BY DEF D!Acknowledge
  <2> QED BY <1>0, <1>b, <1>c, <1>d, <2>1 DEF DesiredTyped
<1>2. RevisionsNamed'
  <2>1. ASSUME NEW v \in D!HubThreads
        PROVE  /\ thread'[v].pc \in {"stored", "sent", "ok", "refused"} =>
                      thread'[v].rev <= want'.rev /\ thread'[v].doc = named'[thread'[v].rev]
               /\ thread'[v].pc = "ok" => thread'[v].rev <= state'.rev
    BY <1>0, <1>b, <1>c, <1>d, Resting DEF RevisionsNamed
  <2> QED BY <1>0, <1>b, <1>d, <2>1 DEF RevisionsNamed
<1>3. CallersWait'
  <2>1. \A m \in wire : m.by # "gone" => m.by \in D!HubThreads \ {w}
    BY <1>0, <1>a DEF CallersWait, Awaits, DesiredTyped, Requests, Callers, D!HubThreads
  <2>2. apply.by # "gone" => apply.by \in D!HubThreads \ {w}
    BY <1>0, <1>a DEF CallersWait, Awaits, DesiredTyped, ApplyRow, Callers, D!HubThreads
  <2> QED BY <1>0, <1>b, <1>c, <2>1, <2>2 DEF CallersWait, Awaits
<1>4. RowsFollow'
  BY <1>0, <1>b, <1>d DEF RowsFollow
<1>5. RoutesFollow'
  BY <1>0, <1>b, <1>d DEF RoutesFollow
<1> QED BY <1>1, <1>2, <1>3, <1>4, <1>5 DEF DeliveryInv

\* A caller gives up.
LEMMA CallFailsKeeps ==
    ASSUME DeliveryInv, NEW w \in D!HubThreads, NEW kind \in {"transient", "fatal"}, D!CallFails(w, kind)
    PROVE  DeliveryInv'
<1> USE DEF D!hubConfig, D!agentVars
<1>0. DesiredTyped /\ RevisionsNamed /\ CallersWait /\ RowsFollow /\ RoutesFollow
  BY DEF DeliveryInv
<1>a. /\ D!Failed(kind) /\ D!MarkError(w) /\ D!Gone(w)
      /\ fatalSince' = (fatalSince \/ kind = "fatal")
      /\ UNCHANGED <<assigned, edit, enabledNode, edits, state, rows, running, named>>
  BY DEF D!CallFails
<1>b. /\ want' \in WantRow /\ want'.rev = want.rev /\ want'.doc = want.doc
      /\ want'.appliedRev = want.appliedRev
  BY <1>0, <1>a DEF D!MarkError, DesiredTyped, WantRow
<1>c. /\ link' \in LinkRow /\ link'.seen = link.seen
      /\ link'.err = IF link.err = "fatal" THEN "fatal" ELSE kind
  BY <1>0, <1>a, FailedLink DEF DesiredTyped
<1>d. /\ thread' \in [D!HubThreads -> ThreadRow] /\ wire' \subseteq Requests
      /\ apply' \in ApplyRow /\ lock' \in D!HubThreads \union {"free"}
      /\ thread'[w] = D!Rest /\ \A v \in D!HubThreads \ {w} : thread'[v] = thread[v]
      /\ \A m \in wire' : \E k \in wire : m.rev = k.rev /\ m.doc = k.doc
      /\ apply'.pc = apply.pc /\ apply'.rev = apply.rev /\ apply'.doc = apply.doc
      /\ apply'.old = apply.old
      /\ CallersWait'
  BY <1>0, <1>a, GoneHolds
<1>1. DesiredTyped'
  <2>1. fatalSince' \in BOOLEAN
    BY <1>a
  <2> QED BY <1>0, <1>a, <1>b, <1>c, <1>d, <2>1 DEF DesiredTyped
<1>2. RevisionsNamed'
  <2>1. ASSUME NEW v \in D!HubThreads
        PROVE  /\ thread'[v].pc \in {"stored", "sent", "ok", "refused"} =>
                      thread'[v].rev <= want'.rev /\ thread'[v].doc = named'[thread'[v].rev]
               /\ thread'[v].pc = "ok" => thread'[v].rev <= state'.rev
    BY <1>0, <1>a, <1>b, <1>d, Resting DEF RevisionsNamed
  <2>2. \A m \in wire' : m.rev <= want'.rev /\ m.doc = named'[m.rev]
    BY <1>0, <1>a, <1>b, <1>d DEF RevisionsNamed
  <2> QED BY <1>0, <1>a, <1>b, <1>d, <2>1, <2>2 DEF RevisionsNamed
<1>3. CallersWait'
  BY <1>d
<1>4. RowsFollow'
  BY <1>0, <1>a, <1>b, <1>d DEF RowsFollow
<1>5. RoutesFollow'
  BY <1>0, <1>a, <1>b, <1>c DEF RoutesFollow
<1> QED BY <1>1, <1>2, <1>3, <1>4, <1>5 DEF DeliveryInv

\* A refused caller goes.
LEMMA CallRefusedKeeps ==
    ASSUME DeliveryInv, NEW w \in D!HubThreads, D!CallRefused(w)
    PROVE  DeliveryInv'
<1> USE DEF D!hubConfig, D!agentVars
<1>0. DesiredTyped /\ RevisionsNamed /\ CallersWait /\ RowsFollow /\ RoutesFollow
  BY DEF DeliveryInv
<1>a. /\ D!Failed("fatal") /\ D!MarkError(w) /\ D!Gone(w)
      /\ fatalSince' = (fatalSince \/ "fatal" = "fatal")
      /\ UNCHANGED <<assigned, edit, enabledNode, edits, state, rows, running, named>>
  BY DEF D!CallRefused
<1>b. /\ want' \in WantRow /\ want'.rev = want.rev /\ want'.doc = want.doc
      /\ want'.appliedRev = want.appliedRev
  BY <1>0, <1>a DEF D!MarkError, DesiredTyped, WantRow
<1>c. /\ link' \in LinkRow /\ link'.seen = link.seen
      /\ link'.err = IF link.err = "fatal" THEN "fatal" ELSE "fatal"
  BY <1>0, <1>a, FailedLink DEF DesiredTyped
<1>d. /\ thread' \in [D!HubThreads -> ThreadRow] /\ wire' \subseteq Requests
      /\ apply' \in ApplyRow /\ lock' \in D!HubThreads \union {"free"}
      /\ thread'[w] = D!Rest /\ \A v \in D!HubThreads \ {w} : thread'[v] = thread[v]
      /\ \A m \in wire' : \E k \in wire : m.rev = k.rev /\ m.doc = k.doc
      /\ apply'.pc = apply.pc /\ apply'.rev = apply.rev /\ apply'.doc = apply.doc
      /\ apply'.old = apply.old
      /\ CallersWait'
  BY <1>0, <1>a, GoneHolds
<1>1. DesiredTyped'
  <2>1. fatalSince' \in BOOLEAN
    BY <1>a
  <2> QED BY <1>0, <1>a, <1>b, <1>c, <1>d, <2>1 DEF DesiredTyped
<1>2. RevisionsNamed'
  <2>1. ASSUME NEW v \in D!HubThreads
        PROVE  /\ thread'[v].pc \in {"stored", "sent", "ok", "refused"} =>
                      thread'[v].rev <= want'.rev /\ thread'[v].doc = named'[thread'[v].rev]
               /\ thread'[v].pc = "ok" => thread'[v].rev <= state'.rev
    BY <1>0, <1>a, <1>b, <1>d, Resting DEF RevisionsNamed
  <2>2. \A m \in wire' : m.rev <= want'.rev /\ m.doc = named'[m.rev]
    BY <1>0, <1>a, <1>b, <1>d DEF RevisionsNamed
  <2> QED BY <1>0, <1>a, <1>b, <1>d, <2>1, <2>2 DEF RevisionsNamed
<1>3. CallersWait'
  BY <1>d
<1>4. RowsFollow'
  BY <1>0, <1>a, <1>b, <1>d DEF RowsFollow
<1>5. RoutesFollow'
  BY <1>0, <1>a, <1>b, <1>c DEF RoutesFollow
<1> QED BY <1>1, <1>2, <1>3, <1>4, <1>5 DEF DeliveryInv

\* Any other request to the Node.
LEMMA OtherCallKeeps ==
    ASSUME DeliveryInv, NEW kind \in {"none", "transient", "fatal"}, D!OtherCall(kind)
    PROVE  DeliveryInv'
<1> USE DEF D!hubConfig, D!agentVars
<1>0. DesiredTyped /\ RevisionsNamed /\ CallersWait /\ RowsFollow /\ RoutesFollow
  BY DEF DeliveryInv
<1>a. UNCHANGED <<assigned, edit, enabledNode, edits, want, thread, lock, wire, state, rows,
                  running, apply, named>>
  BY DEF D!OtherCall
<1>b. /\ link' \in LinkRow /\ fatalSince' \in BOOLEAN
      /\ fatalSince' /\ link'.seen => link'.err = "fatal"
  <2>1. CASE kind = "none"
    <3>1. link' = [err |-> "none", n |-> 0, seen |-> TRUE] /\ fatalSince' = FALSE
      BY <2>1 DEF D!OtherCall, D!Answered
    <3>2. link' \in LinkRow
      BY <3>1 DEF LinkRow
    <3> QED BY <3>1, <3>2
  <2>2. CASE kind # "none"
    <3>1. /\ D!Failed(kind) /\ kind \in {"transient", "fatal"}
          /\ fatalSince' = (fatalSince \/ kind = "fatal")
      BY <2>2 DEF D!OtherCall
    <3>2. /\ link' \in LinkRow /\ link'.seen = link.seen
          /\ link'.err = IF link.err = "fatal" THEN "fatal" ELSE kind
      BY <1>0, <3>1, FailedLink DEF DesiredTyped
    <3> QED BY <1>0, <3>1, <3>2 DEF RoutesFollow
  <2> QED BY <2>1, <2>2
<1>1. DesiredTyped'
  BY <1>0, <1>a, <1>b DEF DesiredTyped
<1>2. RevisionsNamed'
  BY <1>0, <1>a DEF RevisionsNamed
<1>3. CallersWait'
  BY <1>0, <1>a DEF CallersWait, Awaits
<1>4. RowsFollow'
  BY <1>0, <1>a DEF RowsFollow
<1>5. RoutesFollow'
  BY <1>0, <1>a, <1>b DEF RoutesFollow
<1> QED BY <1>1, <1>2, <1>3, <1>4, <1>5 DEF DeliveryInv

\* The Hub dies with its threads.
LEMMA HubRestartsKeeps ==
    ASSUME DeliveryInv, D!HubRestarts
    PROVE  DeliveryInv'
<1> USE DEF D!hubConfig, D!agentVars
<1>0. DesiredTyped /\ RevisionsNamed /\ CallersWait /\ RowsFollow /\ RoutesFollow
  BY DEF DeliveryInv
<1>1. DesiredTyped'
  BY <1>0, Resting DEF D!HubRestarts, D!DesiredFault, DesiredTyped, WantRow, ThreadRow, LinkRow,
     StateRow, Requests, ApplyRow
<1>2. RevisionsNamed'
  <2>1. \A v \in D!HubThreads : thread'[v].pc = "rest"
    BY Resting DEF D!HubRestarts
  <2>2. \A m \in wire' : \E k \in wire : m.rev = k.rev /\ m.doc = k.doc
    BY <1>0 DEF D!HubRestarts, DesiredTyped, Requests
  <2>3. apply'.pc = apply.pc /\ apply'.rev = apply.rev /\ apply'.doc = apply.doc
    BY <1>0 DEF D!HubRestarts, DesiredTyped, ApplyRow
  <2> QED BY <1>0, <2>1, <2>2, <2>3 DEF D!HubRestarts, RevisionsNamed
<1>3. CallersWait'
  BY <1>0, <1>1, Resting DEF D!HubRestarts, D!DesiredFault, DesiredTyped, WantRow, ThreadRow,
     LinkRow, StateRow, Requests, ApplyRow, CallersWait, Awaits
<1>4. RowsFollow'
  BY <1>0, <1>1, Resting DEF D!HubRestarts, D!DesiredFault, DesiredTyped, WantRow, ThreadRow,
     LinkRow, StateRow, Requests, ApplyRow, RevisionsNamed, RowsFollow, Revisions
<1>5. RoutesFollow'
  BY <1>0, <1>1, Resting DEF D!HubRestarts, D!DesiredFault, DesiredTyped, WantRow, ThreadRow,
     LinkRow, StateRow, Requests, ApplyRow, RevisionsNamed, RoutesFollow, Revisions
<1> QED BY <1>1, <1>2, <1>3, <1>4, <1>5 DEF DeliveryInv

\* A request arrives: it is refused, or known, or it begins to be applied.
LEMMA ArriveKeeps ==
    ASSUME DeliveryInv, NEW m \in wire, D!Arrive(m)
    PROVE  DeliveryInv'
<1> USE DEF D!hubConfig, D!agentVars
<1>0. DesiredTyped /\ RevisionsNamed /\ CallersWait /\ RowsFollow /\ RoutesFollow
  BY DEF DeliveryInv
<1>a. /\ apply.pc = "none" /\ apply.by = "gone" /\ wire' = wire \ {m}
      /\ UNCHANGED <<assigned, edit, enabledNode, edits, want, lock, state, rows, running,
                     desiredFaults, named>>
  BY <1>0 DEF D!Arrive, CallersWait
<1>b. /\ m \in Requests /\ m.by \in Callers /\ m.rev \in Revisions /\ m.doc \in D!Documents
      /\ m.rev <= want.rev /\ m.doc = named[m.rev]
  BY <1>0 DEF DesiredTyped, Requests, RevisionsNamed
<1>c. \A k \in wire : k.by = m.by /\ m.by # "gone" => k = m
  <2> SUFFICES ASSUME NEW k \in wire, k.by = m.by, m.by # "gone" PROVE k = m
    OBVIOUS
  <2>1. k.rev = m.rev /\ k.doc = m.doc
    BY <1>0 DEF CallersWait, Awaits
  <2> QED BY <1>0, <2>1 DEF DesiredTyped, Requests
<1>d. CASE UNCHANGED apply
  <2>1. PICK answer \in {"ok", "refused"} :
            D!Tell(m.by, answer) /\ (answer = "ok" => m.rev = state.rev)
    <3>1. apply' # [pc |-> "stop", by |-> m.by, rev |-> m.rev, doc |-> m.doc, old |-> rows]
      BY <1>a, <1>d
    <3> QED BY <3>1 DEF D!Arrive, D!Known
  <2>2. /\ thread' \in [D!HubThreads -> ThreadRow] /\ link' \in LinkRow
        /\ fatalSince' \in BOOLEAN
        /\ \A v \in D!HubThreads :
                 /\ thread'[v].rev = thread[v].rev /\ thread'[v].doc = thread[v].doc
                 /\ thread'[v].pc = IF v = m.by THEN answer ELSE thread[v].pc
        /\ RoutesFollow /\ UNCHANGED <<want, assigned>> => RoutesFollow'
    BY <1>0, <1>b, <2>1, Told DEF DesiredTyped
  <2>3. DesiredTyped'
    BY <1>0, <1>a, <1>d, <2>2 DEF DesiredTyped
  <2>4. RevisionsNamed'
    <3>1. ASSUME NEW v \in D!HubThreads
          PROVE  /\ thread'[v].pc \in {"stored", "sent", "ok", "refused"} =>
                      thread'[v].rev <= want'.rev /\ thread'[v].doc = named'[thread'[v].rev]
                 /\ thread'[v].pc = "ok" => thread'[v].rev <= state'.rev
      <4>1. CASE v = m.by
        <5>1. thread[v].rev = m.rev /\ thread[v].pc = "sent"
          BY <1>0, <4>1, Resting DEF CallersWait, Awaits
        <5>2. state.rev <= state.rev
          BY <1>0 DEF DesiredTyped, StateRow, Revisions
        <5> QED BY <1>0, <1>a, <2>1, <2>2, <4>1, <5>1, <5>2 DEF RevisionsNamed
      <4>2. CASE v # m.by
        BY <1>0, <1>a, <2>2, <4>2 DEF RevisionsNamed
      <4> QED BY <4>1, <4>2
    <3> QED BY <1>0, <1>a, <1>d, <3>1 DEF RevisionsNamed
  <2>5. CallersWait'
    <3>1. ASSUME NEW k \in wire', k.by # "gone" PROVE Awaits(k.by, k.rev, k.doc)'
      <4>1. k \in wire /\ k.by # m.by /\ k.by \in D!HubThreads
        BY <1>0, <1>a, <1>c, <3>1 DEF DesiredTyped, Requests, Callers, D!HubThreads
      <4> QED BY <1>0, <2>2, <3>1, <4>1 DEF CallersWait, Awaits
    <3> QED BY <1>a, <1>d, <3>1 DEF CallersWait
  <2>6. RowsFollow'
    BY <1>0, <1>a, <1>d DEF RowsFollow
  <2>7. RoutesFollow'
    BY <1>0, <1>a, <2>2
  <2> QED BY <2>3, <2>4, <2>5, <2>6, <2>7 DEF DeliveryInv
<1>e. CASE ~UNCHANGED apply
  <2>1. /\ apply' = [pc |-> "stop", by |-> m.by, rev |-> m.rev, doc |-> m.doc, old |-> rows]
        /\ ~D!Refused(m) /\ UNCHANGED <<thread, link, fatalSince>>
    BY <1>e DEF D!Arrive
  <2>2. /\ apply'.pc = "stop" /\ apply'.by = m.by /\ apply'.rev = m.rev /\ apply'.doc = m.doc
        /\ apply'.old = rows /\ apply' \in ApplyRow
    BY <1>0, <1>b, <2>1 DEF ApplyRow, DesiredTyped
  <2>3. DesiredTyped'
    BY <1>0, <1>a, <2>1, <2>2 DEF DesiredTyped
  <2>4. state.rev <= m.rev
    BY <1>0, <1>b, <2>1 DEF D!Refused, DesiredTyped, StateRow, Revisions
  <2>5. RevisionsNamed'
    BY <1>0, <1>a, <1>b, <2>1, <2>2, <2>4 DEF RevisionsNamed
  <2>6. CallersWait'
    <3>1. \A k \in wire' : k \in wire /\ k # m
      BY <1>a
    <3>2. m.by # "gone" => Awaits(m.by, m.rev, m.doc)
      BY <1>0 DEF CallersWait
    <3> QED BY <1>0, <1>c, <2>1, <2>2, <3>1, <3>2 DEF CallersWait, Awaits
  <2>7. RowsFollow'
    BY <1>0, <1>a, <2>2 DEF RowsFollow
  <2>8. RoutesFollow'
    BY <1>0, <1>a, <2>1 DEF RoutesFollow
  <2> QED BY <2>3, <2>5, <2>6, <2>7, <2>8 DEF DeliveryInv
<1> QED BY <1>d, <1>e

\* The old generation stops.
LEMMA StopKeeps ==
    ASSUME DeliveryInv, D!StopGeneration
    PROVE  DeliveryInv'
<1> USE DEF D!hubConfig, D!agentVars
<1>0. DesiredTyped /\ RevisionsNamed /\ CallersWait /\ RowsFollow /\ RoutesFollow
  BY DEF DeliveryInv
<1>1. DesiredTyped'
  BY <1>0, Resting DEF D!StopGeneration, D!OnAgent, DesiredTyped, WantRow, ThreadRow, LinkRow,
     StateRow, Requests, ApplyRow
<1>2. RevisionsNamed'
  BY <1>0, <1>1, Resting DEF D!StopGeneration, D!OnAgent, DesiredTyped, WantRow, ThreadRow,
     LinkRow, StateRow, Requests, ApplyRow, RevisionsNamed, Revisions
<1>3. CallersWait'
  BY <1>0, <1>1, Resting DEF D!StopGeneration, D!OnAgent, DesiredTyped, WantRow, ThreadRow,
     LinkRow, StateRow, Requests, ApplyRow, CallersWait, Awaits
<1>4. RowsFollow'
  BY <1>0, <1>1, Resting DEF D!StopGeneration, D!OnAgent, DesiredTyped, WantRow, ThreadRow,
     LinkRow, StateRow, Requests, ApplyRow, RevisionsNamed, RowsFollow, Revisions
<1>5. RoutesFollow'
  BY <1>0, <1>1, Resting DEF D!StopGeneration, D!OnAgent, DesiredTyped, WantRow, ThreadRow,
     LinkRow, StateRow, Requests, ApplyRow, RevisionsNamed, RoutesFollow, Revisions
<1> QED BY <1>1, <1>2, <1>3, <1>4, <1>5 DEF DeliveryInv

\* The new rows are written.
LEMMA WriteKeeps ==
    ASSUME DeliveryInv, D!WriteRows
    PROVE  DeliveryInv'
<1> USE DEF D!hubConfig, D!agentVars
<1>0. DesiredTyped /\ RevisionsNamed /\ CallersWait /\ RowsFollow /\ RoutesFollow
  BY DEF DeliveryInv
<1>1. DesiredTyped'
  BY <1>0, Resting DEF D!WriteRows, D!OnAgent, DesiredTyped, WantRow, ThreadRow, LinkRow,
     StateRow, Requests, ApplyRow
<1>2. RevisionsNamed'
  BY <1>0, <1>1, Resting DEF D!WriteRows, D!OnAgent, DesiredTyped, WantRow, ThreadRow, LinkRow,
     StateRow, Requests, ApplyRow, RevisionsNamed, Revisions
<1>3. CallersWait'
  BY <1>0, <1>1, Resting DEF D!WriteRows, D!OnAgent, DesiredTyped, WantRow, ThreadRow, LinkRow,
     StateRow, Requests, ApplyRow, CallersWait, Awaits
<1>4. RowsFollow'
  BY <1>0, <1>1, Resting DEF D!WriteRows, D!OnAgent, DesiredTyped, WantRow, ThreadRow, LinkRow,
     StateRow, Requests, ApplyRow, RevisionsNamed, RowsFollow, Revisions
<1>5. RoutesFollow'
  BY <1>0, <1>1, Resting DEF D!WriteRows, D!OnAgent, DesiredTyped, WantRow, ThreadRow, LinkRow,
     StateRow, Requests, ApplyRow, RevisionsNamed, RoutesFollow, Revisions
<1> QED BY <1>1, <1>2, <1>3, <1>4, <1>5 DEF DeliveryInv

\* Xray is started with them.
LEMMA StartKeeps ==
    ASSUME DeliveryInv, D!StartGeneration
    PROVE  DeliveryInv'
<1> USE DEF D!hubConfig, D!agentVars
<1>0. DesiredTyped /\ RevisionsNamed /\ CallersWait /\ RowsFollow /\ RoutesFollow
  BY DEF DeliveryInv
<1>1. DesiredTyped'
  BY <1>0, Resting DEF D!StartGeneration, D!OnAgent, DesiredTyped, WantRow, ThreadRow, LinkRow,
     StateRow, Requests, ApplyRow
<1>2. RevisionsNamed'
  BY <1>0, <1>1, Resting DEF D!StartGeneration, D!OnAgent, DesiredTyped, WantRow, ThreadRow,
     LinkRow, StateRow, Requests, ApplyRow, RevisionsNamed, Revisions
<1>3. CallersWait'
  BY <1>0, <1>1, Resting DEF D!StartGeneration, D!OnAgent, DesiredTyped, WantRow, ThreadRow,
     LinkRow, StateRow, Requests, ApplyRow, CallersWait, Awaits
<1>4. RowsFollow'
  BY <1>0, <1>1, Resting DEF D!StartGeneration, D!OnAgent, DesiredTyped, WantRow, ThreadRow,
     LinkRow, StateRow, Requests, ApplyRow, RevisionsNamed, RowsFollow, Revisions
<1>5. RoutesFollow'
  BY <1>0, <1>1, Resting DEF D!StartGeneration, D!OnAgent, DesiredTyped, WantRow, ThreadRow,
     LinkRow, StateRow, Requests, ApplyRow, RevisionsNamed, RoutesFollow, Revisions
<1> QED BY <1>1, <1>2, <1>3, <1>4, <1>5 DEF DeliveryInv

\* The revision is recorded and acknowledged.
LEMMA CommitKeeps ==
    ASSUME DeliveryInv, D!CommitState
    PROVE  DeliveryInv'
<1> USE DEF D!hubConfig, D!agentVars
<1>0. DesiredTyped /\ RevisionsNamed /\ CallersWait /\ RowsFollow /\ RoutesFollow
  BY DEF DeliveryInv
<1>a. /\ apply.pc = "commit" /\ rows' = rows /\ running' = running
      /\ state' = [rev |-> apply.rev, doc |-> apply.doc, err |-> FALSE]
      /\ D!Tell(apply.by, "ok") /\ apply' = D!NoApply
      /\ UNCHANGED <<assigned, edit, enabledNode, edits, want, lock, wire, named>>
  BY DEF D!CommitState, D!OnAgent
<1>b. state' \in StateRow /\ state'.rev = apply.rev /\ state'.doc = apply.doc
  BY <1>0, <1>a DEF DesiredTyped, ApplyRow, StateRow
<1>c. /\ apply.by \in Callers /\ apply.rev \in Revisions /\ state.rev \in Revisions
      /\ want.rev \in Revisions /\ want.appliedRev \in Revisions
      /\ \A v \in D!HubThreads : thread[v].rev \in Revisions
  BY <1>0 DEF DesiredTyped, ApplyRow, StateRow, WantRow, ThreadRow
<1>d. /\ thread' \in [D!HubThreads -> ThreadRow] /\ link' \in LinkRow
      /\ fatalSince' \in BOOLEAN
      /\ \A v \in D!HubThreads :
               /\ thread'[v].rev = thread[v].rev /\ thread'[v].doc = thread[v].doc
               /\ thread'[v].pc = IF v = apply.by THEN "ok" ELSE thread[v].pc
      /\ RoutesFollow /\ UNCHANGED <<want, assigned>> => RoutesFollow'
  BY <1>0, <1>a, <1>c, Told DEF DesiredTyped
<1>e. /\ state.rev <= apply.rev /\ apply.rev <= want.rev /\ apply.doc = named[apply.rev]
      /\ want.appliedRev <= state.rev
  BY <1>0, <1>a DEF RevisionsNamed
<1>1. DesiredTyped'
  <2>1. rows' \in D!Documents /\ running' \in D!Documents \union {D!Off}
    BY <1>0, <1>a DEF DesiredTyped, ApplyRow
  <2> QED BY <1>0, <1>a, <1>b, <1>d, <2>1, Resting DEF DesiredTyped
<1>2. RevisionsNamed'
  <2>1. ASSUME NEW v \in D!HubThreads
        PROVE  /\ thread'[v].pc \in {"stored", "sent", "ok", "refused"} =>
                    thread'[v].rev <= want'.rev /\ thread'[v].doc = named'[thread'[v].rev]
               /\ thread'[v].pc = "ok" => thread'[v].rev <= state'.rev
    <3>1. CASE v = apply.by
      <4>1. thread[v].rev = apply.rev /\ thread[v].doc = apply.doc
        BY <1>0, <3>1, Resting DEF CallersWait, Awaits
      <4>2. apply.rev <= apply.rev
        BY <1>c DEF Revisions
      <4> QED BY <1>a, <1>b, <1>d, <1>e, <3>1, <4>1, <4>2
    <3>2. CASE v # apply.by
      <4>1. thread[v].pc = "ok" => thread[v].rev <= state'.rev
        BY <1>0, <1>b, <1>c, <1>e DEF RevisionsNamed, Revisions
      <4> QED BY <1>0, <1>a, <1>d, <3>2, <4>1 DEF RevisionsNamed
    <3> QED BY <3>1, <3>2
  <2>2. want.appliedRev <= state'.rev /\ state'.rev <= want.rev /\ state'.doc = named[state'.rev]
    BY <1>0, <1>b, <1>c, <1>e DEF RevisionsNamed, Revisions
  <2> QED BY <1>0, <1>a, <2>1, <2>2, Resting DEF RevisionsNamed
<1>3. CallersWait'
  <2>1. ASSUME NEW k \in wire', k.by # "gone" PROVE Awaits(k.by, k.rev, k.doc)'
    <3>1. k \in wire /\ k.by # apply.by /\ k.by \in D!HubThreads
      BY <1>0, <1>a, <2>1 DEF CallersWait, DesiredTyped, Requests, Callers, D!HubThreads
    <3> QED BY <1>0, <1>d, <2>1, <3>1 DEF CallersWait, Awaits
  <2> QED BY <1>a, <2>1, Resting DEF CallersWait
<1>4. RowsFollow'
  <2>1. state'.rev = want.rev => rows = want.doc /\ running = want.doc
    BY <1>0, <1>a, <1>b DEF RowsFollow, RevisionsNamed
  <2> QED BY <1>a, <2>1, Resting DEF RowsFollow
<1>5. RoutesFollow'
  BY <1>0, <1>a, <1>d
<1> QED BY <1>1, <1>2, <1>3, <1>4, <1>5 DEF DeliveryInv

\* Rows and core go back.
LEMMA RollbackKeeps ==
    ASSUME DeliveryInv, D!Rollback
    PROVE  DeliveryInv'
<1> USE DEF D!hubConfig, D!agentVars
<1>0. DesiredTyped /\ RevisionsNamed /\ CallersWait /\ RowsFollow /\ RoutesFollow
  BY DEF DeliveryInv
<1>a. /\ apply.pc # "none" /\ rows' = apply.old /\ running' = apply.old
      /\ state' = [state EXCEPT !.err = TRUE]
      /\ D!Tell(apply.by, "refused") /\ apply' = D!NoApply
      /\ UNCHANGED <<assigned, edit, enabledNode, edits, want, lock, wire, named>>
  BY DEF D!Rollback, D!RestoreRows
<1>b. state' \in StateRow /\ state'.rev = state.rev /\ state'.doc = state.doc
  BY <1>0, <1>a DEF DesiredTyped, StateRow
<1>c. /\ apply.by \in Callers /\ apply.rev \in Revisions /\ state.rev \in Revisions
      /\ want.rev \in Revisions /\ want.appliedRev \in Revisions
      /\ \A v \in D!HubThreads : thread[v].rev \in Revisions
  BY <1>0 DEF DesiredTyped, ApplyRow, StateRow, WantRow, ThreadRow
<1>d. /\ thread' \in [D!HubThreads -> ThreadRow] /\ link' \in LinkRow
      /\ fatalSince' \in BOOLEAN
      /\ \A v \in D!HubThreads :
               /\ thread'[v].rev = thread[v].rev /\ thread'[v].doc = thread[v].doc
               /\ thread'[v].pc = IF v = apply.by THEN "refused" ELSE thread[v].pc
      /\ RoutesFollow /\ UNCHANGED <<want, assigned>> => RoutesFollow'
  BY <1>0, <1>a, <1>c, Told DEF DesiredTyped
<1>e. /\ state.rev <= apply.rev /\ apply.rev <= want.rev /\ apply.doc = named[apply.rev]
      /\ want.appliedRev <= state.rev
  BY <1>0, <1>a DEF RevisionsNamed
<1>1. DesiredTyped'
  <2>1. rows' \in D!Documents /\ running' \in D!Documents \union {D!Off}
    BY <1>0, <1>a DEF DesiredTyped, ApplyRow
  <2> QED BY <1>0, <1>a, <1>b, <1>d, <2>1, Resting DEF DesiredTyped
<1>2. RevisionsNamed'
  <2>1. ASSUME NEW v \in D!HubThreads
        PROVE  /\ thread'[v].pc \in {"stored", "sent", "ok", "refused"} =>
                    thread'[v].rev <= want'.rev /\ thread'[v].doc = named'[thread'[v].rev]
               /\ thread'[v].pc = "ok" => thread'[v].rev <= state'.rev
    <3>1. CASE v = apply.by
      <4>1. thread[v].rev = apply.rev /\ thread[v].doc = apply.doc
        BY <1>0, <3>1, Resting DEF CallersWait, Awaits
      <4>2. apply.rev <= apply.rev
        BY <1>c DEF Revisions
      <4> QED BY <1>a, <1>b, <1>d, <1>e, <3>1, <4>1, <4>2
    <3>2. CASE v # apply.by
      <4>1. thread[v].pc = "ok" => thread[v].rev <= state'.rev
        BY <1>0, <1>b, <1>c, <1>e DEF RevisionsNamed, Revisions
      <4> QED BY <1>0, <1>a, <1>d, <3>2, <4>1 DEF RevisionsNamed
    <3> QED BY <3>1, <3>2
  <2>2. want.appliedRev <= state'.rev /\ state'.rev <= want.rev /\ state'.doc = named[state'.rev]
    BY <1>0, <1>b, <1>c, <1>e DEF RevisionsNamed, Revisions
  <2> QED BY <1>0, <1>a, <2>1, <2>2, Resting DEF RevisionsNamed
<1>3. CallersWait'
  <2>1. ASSUME NEW k \in wire', k.by # "gone" PROVE Awaits(k.by, k.rev, k.doc)'
    <3>1. k \in wire /\ k.by # apply.by /\ k.by \in D!HubThreads
      BY <1>0, <1>a, <2>1 DEF CallersWait, DesiredTyped, Requests, Callers, D!HubThreads
    <3> QED BY <1>0, <1>d, <2>1, <3>1 DEF CallersWait, Awaits
  <2> QED BY <1>a, <2>1, Resting DEF CallersWait
<1>4. RowsFollow'
  BY <1>0, <1>a, <1>b, Resting DEF RowsFollow
<1>5. RoutesFollow'
  BY <1>0, <1>a, <1>d
<1> QED BY <1>1, <1>2, <1>3, <1>4, <1>5 DEF DeliveryInv

\* The Agent dies between two of its steps.
LEMMA AgentRestartsKeeps ==
    ASSUME DeliveryInv, D!AgentRestarts
    PROVE  DeliveryInv'
<1> USE DEF D!hubConfig, D!agentVars
<1>0. DesiredTyped /\ RevisionsNamed /\ CallersWait /\ RowsFollow /\ RoutesFollow
  BY DEF DeliveryInv
<1>1. DesiredTyped'
  BY <1>0, Resting DEF D!AgentRestarts, D!DesiredFault, DesiredTyped, WantRow, ThreadRow, LinkRow,
     StateRow, Requests, ApplyRow
<1>2. RevisionsNamed'
  BY <1>0, <1>1, Resting DEF D!AgentRestarts, D!DesiredFault, DesiredTyped, WantRow, ThreadRow,
     LinkRow, StateRow, Requests, ApplyRow, RevisionsNamed, Revisions
<1>3. CallersWait'
  BY <1>0, <1>1, Resting DEF D!AgentRestarts, D!DesiredFault, DesiredTyped, WantRow, ThreadRow,
     LinkRow, StateRow, Requests, ApplyRow, CallersWait, Awaits
<1>4. RowsFollow'
  BY <1>0, <1>1, Resting DEF D!AgentRestarts, D!DesiredFault, DesiredTyped, WantRow, ThreadRow,
     LinkRow, StateRow, Requests, ApplyRow, RevisionsNamed, RowsFollow, Revisions
<1>5. RoutesFollow'
  BY <1>0, <1>1, Resting DEF D!AgentRestarts, D!DesiredFault, DesiredTyped, WantRow, ThreadRow,
     LinkRow, StateRow, Requests, ApplyRow, RevisionsNamed, RoutesFollow, Revisions
<1> QED BY <1>1, <1>2, <1>3, <1>4, <1>5 DEF DeliveryInv

\* No step of the Hub, of the Agent or of the owner breaks it.
LEMMA DeliveryStep == DeliveryInv /\ [D!DesiredNext]_dVars => DeliveryInv'
<1> SUFFICES ASSUME DeliveryInv, [D!DesiredNext]_dVars PROVE DeliveryInv'
  OBVIOUS
<1>1. CASE UNCHANGED dVars
  BY <1>1 DEF dVars, DeliveryInv, DesiredTyped, RevisionsNamed, CallersWait, Awaits, RowsFollow,
     RoutesFollow
<1>2. CASE D!HubNext
  BY <1>2, BuildKeeps, StoreKeeps, RestsKeeps, DeliverKeeps, AcknowledgeKeeps, CallRefusedKeeps,
     CallFailsKeeps, OtherCallKeeps, HubRestartsKeeps DEF D!HubNext
<1>3. CASE D!AgentNext
  BY <1>3, ArriveKeeps, StopKeeps, WriteKeeps, StartKeeps, CommitKeeps, RollbackKeeps,
     AgentRestartsKeeps DEF D!AgentNext
<1>4. CASE D!OwnerNext
  BY <1>4, AssignKeeps, ChangeKeeps, EnableKeeps DEF D!OwnerNext
<1> QED BY <1>1, <1>2, <1>3, <1>4 DEF D!DesiredNext

\* The invariant implies what the runs check.
LEMMA DeliveryShows == DeliveryInv => D!DesiredTypeOK /\ D!DesiredStateHolds
<1> SUFFICES ASSUME DeliveryInv PROVE D!DesiredTypeOK /\ D!DesiredStateHolds
  OBVIOUS
<1>0. /\ DesiredTyped /\ RevisionsNamed /\ CallersWait /\ RowsFollow /\ RoutesFollow
      /\ ConfigEdits \in Nat
  BY LifecycleAssumption DEF DeliveryInv
<1>1. D!DesiredTypeOK
  <2>1. want.appliedRev <= want.rev
    BY <1>0 DEF DesiredTyped, RevisionsNamed, WantRow, StateRow, Revisions
  <2>2. \A w \in D!HubThreads :
            thread[w].pc \in {"rest", "built", "stored", "sent", "ok", "refused"}
    BY <1>0 DEF DesiredTyped, ThreadRow
  <2>3. \A m \in wire : m.doc \in D!Documents /\ m.by \in D!HubThreads \union {"gone"}
    BY <1>0 DEF DesiredTyped, Requests, Callers, D!HubThreads
  <2>4. want.doc \in D!Documents /\ want.applied \in D!Documents /\ state.doc \in D!Documents
    BY <1>0 DEF DesiredTyped, WantRow, StateRow
  <2> QED BY <1>0, <2>1, <2>2, <2>3, <2>4 DEF D!DesiredTypeOK, DesiredTyped, LinkRow
<1>2. D!AppliedIsServed
  <2>1. want.rev = want.appliedRev => state.rev = want.rev
    BY <1>0 DEF DesiredTyped, RevisionsNamed, WantRow, StateRow, Revisions
  <2> QED BY <1>0, <2>1 DEF D!AppliedIsServed, RevisionsNamed, RowsFollow
<1>3. D!RoutesAreSound
  BY <1>0, <1>2 DEF D!RoutesAreSound, D!AppliedIsServed, D!Ready, D!Due, RoutesFollow
<1> QED BY <1>1, <1>2, <1>3 DEF D!DesiredStateHolds

------------------------------------------------------------
(* The stored configuration: the inductive invariant *)

SecRow == [out : C!Outs, rules : SUBSET C!Rules, group : SUBSET C!Tags,
           hosts : SUBSET StoreInbounds, panel : C!UrlPaths, sub : C!UrlPaths]
WishRow == [op : {"absent", "upsert", "none", "delete", "deleted"}, ids : SUBSET StoreInbounds]
TailRow == [do : {"allow", "put", "write", "prune", "forget"} \union C!Paths, id : StoreInbounds,
            out : C!Outs, deployed : C!Inbound \union {C!Gone}, ids : SUBSET StoreInbounds]

StoreTyped ==
    /\ inb \in [StoreInbounds -> C!Inbound \union {C!Gone}] /\ born \subseteq StoreInbounds
    /\ sec \in SecRow
    /\ attached \in [Customers -> SUBSET StoreInbounds]
    /\ wished \in [Customers -> WishRow]
    /\ allowed \subseteq StoreInbounds /\ matrix \subseteq StoreInbounds \X C!Paths
    /\ tail \subseteq TailRow
    /\ checked \in [Customers -> SUBSET StoreInbounds] /\ ownerEdits \in 0..OwnerEdits

\* Every inbound would still be accepted beside the others.
PortsFit == \A i \in C!Live : C!Fits(inb[i], i)

\* What the sections name is there, and customers are attached as their rows say.
SectionsFit == C!Usable(sec.out) /\ sec.hosts \subseteq C!Live /\ ~C!Overlap(sec.panel, sec.sub)
CustomersFit ==
    \A c \in Customers : /\ attached[c] \subseteq C!Live
                         /\ wished[c].op = "none" => attached[c] = wished[c].ids

StoreInv == StoreTyped /\ PortsFit /\ SectionsFit /\ CustomersFit

\* What the bounds and the requests are.
LEMMA StoreFacts ==
    /\ OwnerEdits \in Nat /\ C!DefaultOut \in C!Outs /\ C!OutRequests \subseteq C!Outs
    /\ C!RuleRequests \subseteq SUBSET C!Rules /\ C!GroupRequests \subseteq SUBSET C!Tags
    /\ C!Gone \notin C!Inbound /\ ~C!Gone.local
<1>1. ASSUME NEW T \in SUBSET C!Tags, NEW f \in [T -> C!Tags \union {C!None}] PROVE f \in C!Outs
  BY <1>1 DEF C!Outs
<1>2. C!DefaultOut \in [{"direct", "block"} -> C!Tags \union {C!None}] /\ {"direct", "block"} \in SUBSET C!Tags
  BY DEF C!DefaultOut, C!Tags
<1>3. \A f \in C!OutRequests : \E T \in SUBSET C!Tags : f \in [T -> C!Tags \union {C!None}]
  <2> DEFINE a == [t \in {"direct"} |-> C!None]
             b == [t \in {"direct", "alt"} |-> IF t = "alt" THEN "direct" ELSE C!None]
             d == [t \in {"direct", "alt"} |-> IF t = "alt" THEN "direct" ELSE "alt"]
             e == [t \in {"direct", "alt"} |-> IF t = "alt" THEN "block" ELSE C!None]
  <2>1. {"direct"} \in SUBSET C!Tags /\ {"direct", "alt"} \in SUBSET C!Tags
    BY DEF C!Tags
  <2>2. a \in [{"direct"} -> C!Tags \union {C!None}]
    OBVIOUS
  <2>3. /\ b \in [{"direct", "alt"} -> C!Tags \union {C!None}]
        /\ d \in [{"direct", "alt"} -> C!Tags \union {C!None}]
        /\ e \in [{"direct", "alt"} -> C!Tags \union {C!None}]
    BY DEF C!Tags
  <2>4. C!OutRequests = {C!DefaultOut, a, b, d, e}
    BY DEF C!OutRequests
  <2> HIDE DEF a, b, d, e
  <2> QED BY <1>2, <2>1, <2>2, <2>3, <2>4
<1>4. C!RuleRequests \subseteq SUBSET C!Rules
  BY DEF C!RuleRequests, C!Rules
<1>5. C!GroupRequests \subseteq SUBSET C!Tags
  BY DEF C!GroupRequests, C!Tags
<1>6. C!Gone \notin C!Inbound /\ ~C!Gone.local
  BY DEF C!Gone, C!Inbound
<1>7. OwnerEdits \in Nat
  BY LifecycleAssumption
<1> QED BY <1>1, <1>2, <1>3, <1>4, <1>5, <1>6, <1>7

\* An empty store.
LEMMA StoreInitHolds == C!StoreInit => StoreInv
<1> SUFFICES ASSUME C!StoreInit PROVE StoreInv
  OBVIOUS
<1>1. C!Live = {}
  BY DEF C!StoreInit, C!Live
<1>2. sec \in SecRow
  BY StoreFacts DEF C!StoreInit, SecRow, C!UrlPaths
<1>3. wished \in [Customers -> WishRow] /\ \A c \in Customers : wished[c].op = "absent"
  BY DEF C!StoreInit, C!NoRow, WishRow
<1>4. StoreTyped
  BY <1>2, <1>3, StoreFacts DEF C!StoreInit, StoreTyped
<1>5. SectionsFit
  <2>1. C!Usable(sec.out)
    BY DEF C!StoreInit, C!Usable, C!Acyclic, C!Resolves, C!DefaultOut
  <2> QED BY <2>1 DEF C!StoreInit, SectionsFit, C!Overlap
<1>6. CustomersFit
  BY <1>3 DEF C!StoreInit, CustomersFit
<1> QED BY <1>1, <1>4, <1>5, <1>6 DEF StoreInv, PortsFit

\* An inbound that fits takes its place: the others still fit beside it.
LEMMA PortsKeep ==
    ASSUME StoreTyped, PortsFit, NEW i \in StoreInbounds, NEW v \in C!Inbound, C!Fits(v, i),
           inb' = [inb EXCEPT ![i] = v]
    PROVE  /\ inb' \in [StoreInbounds -> C!Inbound \union {C!Gone}]
           /\ (C!Live)' = C!Live \union {i} /\ PortsFit'
<1>1. /\ inb' \in [StoreInbounds -> C!Inbound \union {C!Gone}] /\ inb'[i] = v
      /\ \A j \in StoreInbounds \ {i} : inb'[j] = inb[j]
  BY DEF StoreTyped
<1>2. (C!Live)' = C!Live \union {i}
  BY <1>1, StoreFacts DEF C!Live
<1>3. ASSUME NEW j \in (C!Live)' PROVE C!Fits(inb[j], j)'
  <2>1. CASE j = i
    BY <1>1, <1>2, <2>1 DEF C!Fits, C!Live
  <2>2. CASE j # i
    <3>1. j \in C!Live /\ C!Fits(inb[j], j) /\ j \in StoreInbounds
      BY <1>2, <1>3, <2>2 DEF PortsFit, C!Live
    <3>2. \A k \in (C!Live)' \ {j} : k \in StoreInbounds /\ (k # i => k \in C!Live)
      BY <1>2 DEF C!Live
    <3> QED BY <1>1, <2>2, <3>1, <3>2 DEF C!Fits
  <2> QED BY <2>1, <2>2
<1> QED BY <1>1, <1>2, <1>3 DEF PortsFit

\* A counted request.
LEMMA Requested ==
    ASSUME StoreTyped, C!Request PROVE ownerEdits' \in 0..OwnerEdits
BY StoreFacts DEF StoreTyped, C!Request

\* What a handler still has to do.
LEMMA TaskTyped ==
    ASSUME NEW do \in {"allow", "put", "write", "prune", "forget"} \union C!Paths, NEW i \in StoreInbounds,
           NEW v \in C!Inbound \union {C!Gone}, NEW o \in C!Outs
    PROVE  /\ C!Task(do, i) \in TailRow
           /\ [C!Task(do, i) EXCEPT !.deployed = v] \in TailRow
           /\ [C!Task(do, i) EXCEPT !.out = o] \in TailRow
<1>1. C!Task(do, i) \in TailRow
  BY StoreFacts DEF C!Task, TailRow
<1> HIDE DEF C!Task
<1> QED BY <1>1 DEF TailRow

\* Inbounds are added, edited and deployed.
LEMMA InboundKeeps ==
    ASSUME StoreInv, NEW i \in StoreInbounds, NEW v \in C!Inbound,
           C!AddInbound(i, v) \/ C!EditInbound(i, v) \/ C!Deploy(i, v)
    PROVE  StoreInv'
<1>1. /\ C!Request /\ C!Fits(v, i) /\ inb' = [inb EXCEPT ![i] = v] /\ born' \subseteq born \union {i}
      /\ UNCHANGED <<sec, attached, wished, allowed, matrix, checked>>
      /\ \/ tail' = tail \/ tail' = tail \union {C!Task("allow", i)}
         \/ tail' = tail \union {[C!Task("prune", i) EXCEPT !.deployed = v]}
  BY DEF C!AddInbound, C!EditInbound, C!Deploy, C!Replace, C!Then
<1>2. /\ inb' \in [StoreInbounds -> C!Inbound \union {C!Gone}]
      /\ (C!Live)' = C!Live \union {i} /\ PortsFit'
  BY <1>1, PortsKeep DEF StoreInv
<1>3. tail' \subseteq TailRow
  <2>1. C!Task("allow", i) \in TailRow /\ [C!Task("prune", i) EXCEPT !.deployed = v] \in TailRow
    BY TaskTyped, StoreFacts
  <2> HIDE DEF TailRow, C!Task
  <2> QED BY <1>1, <2>1 DEF StoreInv, StoreTyped
<1>4. StoreTyped'
  BY <1>1, <1>2, <1>3, Requested DEF StoreInv, StoreTyped
<1>5. SectionsFit' /\ CustomersFit'
  BY <1>1, <1>2 DEF StoreInv, SectionsFit, CustomersFit, C!Usable, C!Resolves, C!Acyclic, C!Overlap
<1> QED BY <1>2, <1>4, <1>5 DEF StoreInv

\* An inbound that nobody holds is deleted.
LEMMA DeleteKeeps ==
    ASSUME StoreInv, NEW i \in StoreInbounds, C!DeleteInbound(i)
    PROVE  StoreInv'
<1>1. /\ C!Request /\ ~C!Held(i) /\ inb' = [inb EXCEPT ![i] = C!Gone]
      /\ tail' = tail \union {C!Task("forget", i)}
      /\ UNCHANGED <<born, sec, attached, wished, allowed, matrix, checked>>
  BY DEF C!DeleteInbound, C!Then
<1>2. /\ inb' \in [StoreInbounds -> C!Inbound \union {C!Gone}]
      /\ (C!Live)' = C!Live \ {i} /\ \A j \in (C!Live)' : inb'[j] = inb[j]
  BY <1>1 DEF StoreInv, StoreTyped, C!Live
<1>3. tail' \subseteq TailRow
  <2>1. C!Task("forget", i) \in TailRow
    BY TaskTyped, StoreFacts
  <2> HIDE DEF TailRow, C!Task
  <2> QED BY <1>1, <2>1 DEF StoreInv, StoreTyped
<1>4. StoreTyped'
  BY <1>1, <1>2, <1>3, Requested DEF StoreInv, StoreTyped
<1>5. PortsFit'
  BY <1>2 DEF StoreInv, PortsFit, C!Fits
<1>6. SectionsFit' /\ CustomersFit'
  BY <1>1, <1>2 DEF StoreInv, SectionsFit, CustomersFit, C!Held, C!Usable, C!Resolves, C!Acyclic,
     C!Overlap
<1> QED BY <1>4, <1>5, <1>6 DEF StoreInv

\* A step that leaves inbounds, sections and customers alone, and keeps the types.
LEMMA AsideKeeps ==
    ASSUME StoreInv, StoreTyped', UNCHANGED <<inb, sec, attached, wished>>
    PROVE  StoreInv'
BY DEF StoreInv, PortsFit, SectionsFit, CustomersFit, C!Live, C!Fits, C!Usable, C!Resolves,
   C!Acyclic, C!Overlap

\* What handlers do in transactions of their own.
LEMMA TailKeeps ==
    ASSUME StoreInv, NEW t \in tail,
           C!AllowRead(t) \/ C!AllowCheck(t) \/ C!AllowWrite(t) \/ C!Prune(t) \/ C!Forget(t)
    PROVE  StoreInv'
<1>1. t \in TailRow /\ t.id \in StoreInbounds /\ t.ids \subseteq StoreInbounds
  BY DEF StoreInv, StoreTyped, TailRow
<1>2. UNCHANGED <<inb, born, sec, attached, wished, checked, ownerEdits>>
  BY DEF C!AllowRead, C!AllowCheck, C!AllowWrite, C!Prune, C!Forget
<1>3. /\ [t EXCEPT !.do = "put", !.ids = allowed \union {t.id}] \in TailRow
      /\ [t EXCEPT !.do = "write"] \in TailRow
  BY <1>1 DEF StoreInv, StoreTyped, TailRow
<1>4. \/ tail' = tail \ {t}
      \/ tail' = (tail \ {t}) \union {[t EXCEPT !.do = "put", !.ids = allowed \union {t.id}]}
      \/ tail' = (tail \ {t}) \union {[t EXCEPT !.do = "write"]}
  BY DEF C!AllowRead, C!AllowCheck, C!AllowWrite, C!Prune, C!Forget, C!Instead
<1>5. tail' \subseteq TailRow
  BY <1>3, <1>4 DEF StoreInv, StoreTyped
<1>6. allowed' \subseteq allowed \union t.ids /\ matrix' \subseteq matrix
  BY DEF C!AllowRead, C!AllowCheck, C!AllowWrite, C!Prune, C!Forget
<1>7. StoreTyped'
  BY <1>1, <1>2, <1>5, <1>6 DEF StoreInv, StoreTyped
<1> QED BY <1>2, <1>7, AsideKeeps

\* A section is saved.
LEMMA SectionKeeps ==
    ASSUME StoreInv,
           \/ \E out \in C!OutRequests : C!SaveOutbounds(out)
           \/ \E rules \in C!RuleRequests, group \in C!GroupRequests : C!SaveRouting(rules, group)
           \/ \E hosts \in SUBSET StoreInbounds : C!SaveHosts(hosts)
           \/ \E path \in C!UrlPaths : C!SaveRuntime(path) \/ C!SaveSubscription(path)
    PROVE  StoreInv'
<1>1. C!Request /\ UNCHANGED <<inb, born, attached, wished, allowed, matrix, tail, checked>>
  BY DEF C!SaveOutbounds, C!SaveRouting, C!SaveHosts, C!SaveRuntime, C!SaveSubscription
<1>2. sec \in SecRow /\ SectionsFit
  BY DEF StoreInv, StoreTyped
<1>3. sec' \in SecRow /\ SectionsFit'
  <2>0. (C!Live)' = C!Live
    BY <1>1 DEF C!Live
  <2>1. ASSUME NEW out \in C!OutRequests, C!SaveOutbounds(out) PROVE sec' \in SecRow /\ SectionsFit'
    <3>1. sec' = [sec EXCEPT !.out = out] /\ C!Usable(out) /\ out \in C!Outs
      BY <2>1, StoreFacts DEF C!SaveOutbounds
    <3>2. /\ sec' \in SecRow /\ sec'.out = out /\ sec'.rules = sec.rules /\ sec'.group = sec.group
          /\ sec'.hosts = sec.hosts /\ sec'.panel = sec.panel /\ sec'.sub = sec.sub
      BY <1>2, <3>1 DEF SecRow
    <3> QED BY <1>2, <2>0, <3>1, <3>2 DEF SectionsFit, C!Usable
  <2>2. ASSUME NEW rules \in C!RuleRequests, NEW group \in C!GroupRequests, C!SaveRouting(rules, group)
        PROVE  sec' \in SecRow /\ SectionsFit'
    <3>1. /\ sec' = [sec EXCEPT !.rules = rules, !.group = group] /\ C!Resolves(sec.out, rules, group)
          /\ rules \in SUBSET C!Rules /\ group \in SUBSET C!Tags
      BY <2>2, StoreFacts DEF C!SaveRouting
    <3>2. /\ sec' \in SecRow /\ sec'.out = sec.out /\ sec'.rules = rules /\ sec'.group = group
          /\ sec'.hosts = sec.hosts /\ sec'.panel = sec.panel /\ sec'.sub = sec.sub
      BY <1>2, <3>1 DEF SecRow
    <3> QED BY <1>2, <2>0, <3>1, <3>2 DEF SectionsFit, C!Usable
  <2>3. ASSUME NEW hosts \in SUBSET StoreInbounds, C!SaveHosts(hosts) PROVE sec' \in SecRow /\ SectionsFit'
    <3>1. sec' = [sec EXCEPT !.hosts = hosts] /\ hosts \subseteq C!Live
      BY <2>3 DEF C!SaveHosts
    <3>2. /\ sec' \in SecRow /\ sec'.out = sec.out /\ sec'.rules = sec.rules /\ sec'.group = sec.group
          /\ sec'.hosts = hosts /\ sec'.panel = sec.panel /\ sec'.sub = sec.sub
      BY <1>2, <3>1 DEF SecRow
    <3> QED BY <1>2, <2>0, <3>1, <3>2 DEF SectionsFit, C!Usable
  <2>4. ASSUME NEW path \in C!UrlPaths, C!SaveRuntime(path) PROVE sec' \in SecRow /\ SectionsFit'
    <3>1. sec' = [sec EXCEPT !.panel = path] /\ ~C!Overlap(path, sec.sub)
      BY <2>4 DEF C!SaveRuntime
    <3>2. /\ sec' \in SecRow /\ sec'.out = sec.out /\ sec'.rules = sec.rules /\ sec'.group = sec.group
          /\ sec'.hosts = sec.hosts /\ sec'.panel = path /\ sec'.sub = sec.sub
      BY <1>2, <3>1 DEF SecRow
    <3> QED BY <1>2, <2>0, <3>1, <3>2 DEF SectionsFit, C!Usable
  <2>5. ASSUME NEW path \in C!UrlPaths, C!SaveSubscription(path) PROVE sec' \in SecRow /\ SectionsFit'
    <3>1. sec' = [sec EXCEPT !.sub = path] /\ ~C!Overlap(sec.panel, path)
      BY <2>5 DEF C!SaveSubscription
    <3>2. /\ sec' \in SecRow /\ sec'.out = sec.out /\ sec'.rules = sec.rules /\ sec'.group = sec.group
          /\ sec'.hosts = sec.hosts /\ sec'.panel = sec.panel /\ sec'.sub = path
      BY <1>2, <3>1 DEF SecRow
    <3> QED BY <1>2, <2>0, <3>1, <3>2 DEF SectionsFit, C!Usable
  <2> QED BY <2>1, <2>2, <2>3, <2>4, <2>5
<1>4. StoreTyped'
  BY <1>1, <1>3, Requested DEF StoreInv, StoreTyped
<1>5. PortsFit' /\ CustomersFit'
  BY <1>1 DEF StoreInv, PortsFit, CustomersFit, C!Live, C!Fits
<1> QED BY <1>3, <1>4, <1>5 DEF StoreInv

\* The Traffic Matrix: what is read, and what is written later.
LEMMA MatrixKeeps ==
    ASSUME StoreInv,
           \/ \E i \in StoreInbounds, path \in C!Paths : C!ReadMatrix(i, path)
           \/ \E t \in tail : C!WriteMatrix(t)
    PROVE  StoreInv'
<1>1. ASSUME NEW i \in StoreInbounds, NEW path \in C!Paths, C!ReadMatrix(i, path) PROVE StoreInv'
  <2>1. /\ C!Request /\ tail' = tail \union {[C!Task(path, i) EXCEPT !.out = sec.out]}
        /\ UNCHANGED <<inb, born, sec, attached, wished, allowed, matrix, checked>>
    BY <1>1 DEF C!ReadMatrix
  <2>2. sec.out \in C!Outs
    BY DEF StoreInv, StoreTyped, SecRow
  <2>3. [C!Task(path, i) EXCEPT !.out = sec.out] \in TailRow
    BY <2>2, TaskTyped, StoreFacts
  <2>4. StoreTyped'
    BY <2>1, <2>3, Requested DEF StoreInv, StoreTyped
  <2> QED BY <2>1, <2>4, AsideKeeps
<1>2. ASSUME NEW t \in tail, C!WriteMatrix(t) PROVE StoreInv'
  <2>1. /\ t.do \in C!Paths /\ t.id \in StoreInbounds /\ t.out \in C!Outs
    BY <1>2 DEF C!WriteMatrix, StoreInv, StoreTyped, TailRow
  <2>2. /\ tail' = tail \ {t} /\ matrix' \subseteq matrix \union {<<t.id, t.do>>}
        /\ sec' = sec \/ (sec' = [sec EXCEPT !.out = C!WithBase(t.out)] /\ C!Usable(C!WithBase(t.out)))
        /\ UNCHANGED <<inb, born, attached, wished, allowed, checked, ownerEdits>>
    BY <1>2 DEF C!WriteMatrix
  <2>3. C!WithBase(t.out) \in C!Outs
    <3>1. PICK T \in SUBSET C!Tags : t.out \in [T -> C!Tags \union {C!None}]
      BY <2>1 DEF C!Outs
    <3>2. T \union {"direct", "block"} \in SUBSET C!Tags
      BY DEF C!Tags
    <3>3. C!WithBase(t.out) \in [T \union {"direct", "block"} -> C!Tags \union {C!None}]
      BY <3>1 DEF C!WithBase
    <3> QED BY <3>2, <3>3 DEF C!Outs
  <2>4. sec \in SecRow /\ SectionsFit
    BY DEF StoreInv, StoreTyped
  <2>5. sec' \in SecRow /\ SectionsFit'
    <3>0. (C!Live)' = C!Live
      BY <2>2 DEF C!Live
    <3>1. CASE sec' = sec
      BY <2>4, <3>0, <3>1 DEF SectionsFit, C!Usable
    <3>2. CASE sec' = [sec EXCEPT !.out = C!WithBase(t.out)] /\ C!Usable(C!WithBase(t.out))
      <4>1. /\ sec' \in SecRow /\ sec'.out = C!WithBase(t.out) /\ sec'.rules = sec.rules
            /\ sec'.group = sec.group /\ sec'.hosts = sec.hosts /\ sec'.panel = sec.panel
            /\ sec'.sub = sec.sub
        BY <2>3, <2>4, <3>2 DEF SecRow
      <4> QED BY <2>4, <3>0, <3>2, <4>1 DEF SectionsFit, C!Usable
    <3> QED BY <2>2, <3>1, <3>2
  <2>6. StoreTyped'
    BY <2>1, <2>2, <2>5 DEF StoreInv, StoreTyped
  <2>7. PortsFit' /\ CustomersFit'
    BY <2>2 DEF StoreInv, PortsFit, CustomersFit, C!Live, C!Fits
  <2> QED BY <2>5, <2>6, <2>7 DEF StoreInv
<1> QED BY <1>1, <1>2

\* Requests about customers, and the pass that brings the core to their rows.
LEMMA CustomerKeeps ==
    ASSUME StoreInv, NEW c \in Customers,
           \/ \E ids \in SUBSET StoreInbounds : C!CheckInbounds(c, ids)
           \/ C!WriteRow(c) \/ C!DeleteCustomer(c) \/ C!Reconcile(c)
    PROVE  StoreInv'
<1>1. UNCHANGED <<inb, born, sec, allowed, matrix, tail>>
  BY DEF C!CheckInbounds, C!WriteRow, C!DeleteCustomer, C!Reconcile
<1>2. wished[c] \in WishRow /\ wished[c].ids \subseteq StoreInbounds /\ checked[c] \subseteq StoreInbounds
  BY DEF StoreInv, StoreTyped, WishRow
<1>3. ownerEdits' \in 0..OwnerEdits
  <2>1. ownerEdits' = ownerEdits \/ C!Request
    BY DEF C!CheckInbounds, C!WriteRow, C!DeleteCustomer, C!Reconcile
  <2> QED BY <2>1, Requested DEF StoreInv, StoreTyped
<1>4. checked' \in [Customers -> SUBSET StoreInbounds]
  BY DEF C!CheckInbounds, C!WriteRow, C!DeleteCustomer, C!Reconcile, StoreInv, StoreTyped
<1>5. \/ UNCHANGED <<attached, wished>>
      \/ /\ attached' = attached
         /\ wished' = [wished EXCEPT ![c] = [op |-> "upsert", ids |-> checked[c]]]
      \/ attached' = attached /\ wished' = [wished EXCEPT ![c].op = "delete"]
      \/ /\ wished[c].ids \subseteq C!Live
         /\ attached' = [attached EXCEPT ![c] = wished[c].ids]
         /\ wished' = [wished EXCEPT ![c].op = "none"]
      \/ /\ attached' = [attached EXCEPT ![c] = {}]
         /\ wished' = [wished EXCEPT ![c] = [op |-> "deleted", ids |-> {}]]
  BY DEF C!CheckInbounds, C!WriteRow, C!DeleteCustomer, C!Reconcile
<1>6. /\ attached' \in [Customers -> SUBSET StoreInbounds]
      /\ wished' \in [Customers -> WishRow]
      /\ \A d \in Customers \ {c} : attached'[d] = attached[d] /\ wished'[d] = wished[d]
      /\ attached'[c] \subseteq C!Live
      /\ wished'[c].op = "none" => attached'[c] = wished'[c].ids
  BY <1>2, <1>5 DEF StoreInv, StoreTyped, CustomersFit, WishRow
<1>7. StoreTyped'
  BY <1>1, <1>3, <1>4, <1>6 DEF StoreInv, StoreTyped
<1>8. PortsFit' /\ SectionsFit'
  BY <1>1 DEF StoreInv, PortsFit, SectionsFit, C!Live, C!Fits, C!Usable, C!Resolves, C!Acyclic,
     C!Overlap
<1>9. CustomersFit'
  <2>1. (C!Live)' = C!Live
    BY <1>1 DEF C!Live
  <2> QED BY <1>6, <2>1 DEF StoreInv, CustomersFit
<1> QED BY <1>7, <1>8, <1>9 DEF StoreInv

\* The panel is killed between two transactions of its handlers.
LEMMA DiesKeeps ==
    ASSUME StoreInv, C!PanelDies PROVE StoreInv'
<1>1. /\ tail' \subseteq tail /\ checked' \in {checked, [c \in Customers |-> {}]}
      /\ UNCHANGED <<inb, born, sec, attached, wished, allowed, matrix, ownerEdits>>
  BY DEF C!PanelDies
<1>2. StoreTyped'
  BY <1>1 DEF StoreInv, StoreTyped
<1> QED BY <1>1, <1>2, AsideKeeps

\* No request and no handler breaks it.
LEMMA StoreStep == StoreInv /\ [C!StoreNext]_cVars => StoreInv'
<1> SUFFICES ASSUME StoreInv, [C!StoreNext]_cVars PROVE StoreInv'
  OBVIOUS
<1>1. CASE UNCHANGED cVars
  <2>1. UNCHANGED <<inb, born, sec, attached, wished, allowed, matrix, tail, checked, ownerEdits>>
    BY <1>1 DEF cVars
  <2>2. StoreTyped'
    BY <2>1 DEF StoreInv, StoreTyped
  <2> QED BY <2>1, <2>2, AsideKeeps
<1>2. CASE C!StoreNext
  BY <1>2, InboundKeeps, DeleteKeeps, TailKeeps, SectionKeeps, MatrixKeeps, CustomerKeeps, DiesKeeps
     DEF C!StoreNext
<1> QED BY <1>1, <1>2

\* The invariant implies what the runs check.
LEMMA StoreShows == StoreInv => C!StoreTypeOK /\ C!StoreIsClosed
<1> SUFFICES ASSUME StoreInv PROVE C!StoreTypeOK /\ C!StoreIsClosed
  OBVIOUS
<1>1. C!StoreTypeOK
  BY DEF StoreInv, StoreTyped, SecRow, WishRow, TailRow, C!StoreTypeOK
<1>2. ASSUME NEW l \in C!Listeners, NEW m \in C!Listeners
      PROVE  C!PortOf(l) # PanelPort /\ (l # m => C!PortOf(l) # C!PortOf(m))
  <2>1. \A k \in C!Listeners : /\ k \in StoreInbounds \X {"direct", "tunnel"}
                               /\ k = <<k[1], k[2]>> /\ inb[k[1]].local
                               /\ k[1] \in C!Live /\ C!Fits(inb[k[1]], k[1])
                               /\ k[2] = "tunnel" => inb[k[1]].tun # 0
    BY StoreFacts DEF StoreInv, PortsFit, C!Listeners, C!Live, C!Paths
  <2>2. CASE l[1] = m[1]
    BY <2>1, <2>2 DEF C!PortOf, C!Fits
  <2>3. CASE l[1] # m[1]
    BY <2>1, <2>3 DEF C!PortOf, C!Fits
  <2> QED BY <2>2, <2>3
<1>3. C!StoreIsClosed
  BY <1>2 DEF StoreInv, SectionsFit, CustomersFit, C!StoreIsClosed
<1> QED BY <1>1, <1>3

------------------------------------------------------------
(* The generation the Hub's core runs: the inductive invariant *)

AnyGen == H!Generations \union {H!NoGen}
Profiles == {0} \union Endpoints
SavedRow == [row : H!Policies, profile : Profiles, pending : BOOLEAN, text : H!Texts]
EngineRow == [by : {"none", "pass", "owner"} \union Handlers, cfg : AnyGen, old : AnyGen,
              oldhash : AnyGen, was : BOOLEAN]
Stages == {"none", "read", "written", "applying", "applied", "failed", "restored",
           "reapplying", "done"}
ReqRow == [op : {"none", "matrix", "warp"}, at : Stages, policy : H!Policies,
           profile : Profiles, pending : BOOLEAN, old : H!Policies, oldProfile : Profiles,
           alone : BOOLEAN, ran : AnyGen]

GenerationTyped ==
    /\ saved \in SavedRow /\ engine \in EngineRow /\ req \in [Handlers -> ReqRow]
    /\ active \in AnyGen /\ child \in AnyGen /\ applied \in AnyGen /\ autostart \in BOOLEAN
    /\ hubRequests \in 0..HubRequests /\ hubFaults \in 0..HubFaults

\* An apply that holds the lock has the candidate on disk and no core running; what it
\* would restore ran, was on disk and was the hash; and its handler waits for it.
CandidateHolds ==
    /\ engine.by \in {"pass", "owner"} \union Handlers
    /\ child = H!NoGen /\ active = engine.cfg
    /\ engine.cfg # H!NoGen /\ engine.cfg.text # "rejected"
    /\ engine.was => /\ engine.old # H!NoGen /\ engine.oldhash = engine.old
                     /\ engine.old.text # "rejected"
    /\ \A h \in Handlers : engine.by = h => req[h].at \in {"applying", "reapplying"}
GenerationAgrees ==
    /\ H!Running => child = active /\ applied = child /\ child.text # "rejected"
    /\ engine = H!Free \/ CandidateHolds

\* A request that has undone its write, and that nobody overlapped, leaves what it found.
Undone(h) == IF req[h].op = "matrix" THEN saved.row = req[h].old
                                     ELSE saved.profile = req[h].oldProfile
UndoneHolds ==
    \A h \in Handlers : req[h].at \in {"restored", "reapplying", "done"} /\ req[h].alone => Undone(h)

GenerationInv == GenerationTyped /\ GenerationAgrees /\ UndoneHolds

\* Rows at rest.
LEMMA RuntimeAtRest ==
    /\ H!NoGen \in AnyGen /\ H!Nobody \in ReqRow /\ H!Free \in EngineRow
    /\ H!Nobody.at = "none" /\ H!Free.by = "none" /\ "none" \notin Handlers
    /\ "pass" \notin Handlers /\ "owner" \notin Handlers
    /\ HubRequests \in Nat /\ HubFaults \in Nat /\ 0 \in Profiles
<1>1. H!NoGen \in AnyGen /\ 0 \in Profiles /\ "none" \in H!Policies
  BY DEF AnyGen, Profiles, H!Policies
<1>2. H!Nobody \in ReqRow
  BY <1>1 DEF H!Nobody, ReqRow, Stages
<1>3. H!Free \in EngineRow
  BY <1>1 DEF H!Free, EngineRow
<1> QED BY <1>1, <1>2, <1>3, LifecycleAssumption DEF H!Nobody, H!Free

\* What a stored configuration compiles to.
LEMMA CompiledIsGeneration ==
    ASSUME saved \in SavedRow
    PROVE  H!Compiled \in AnyGen /\ H!Compiled # H!NoGen /\ H!Compiled.text = saved.text
<1>1. saved.row \in H!Policies /\ saved.profile \in Profiles /\ saved.text \in H!Texts
  BY DEF SavedRow
<1>2. H!Compiled \in H!Generations /\ H!Compiled.text = saved.text
  BY <1>1 DEF H!Compiled, H!Generations, Profiles
<1>3. H!NoGen.text \notin H!Texts
  BY DEF H!NoGen, H!Texts
<1> QED BY <1>1, <1>2, <1>3 DEF AnyGen

\* Nothing runs and nobody asks.
LEMMA GenerationInit == H!RuntimeInit => GenerationInv
<1> SUFFICES ASSUME H!RuntimeInit PROVE GenerationInv
  OBVIOUS
<1>1. saved \in SavedRow
  BY RuntimeAtRest DEF H!RuntimeInit, SavedRow, H!Policies, H!Texts
<1>2. req \in [Handlers -> ReqRow] /\ \A h \in Handlers : req[h].at = "none"
  BY RuntimeAtRest DEF H!RuntimeInit
<1>3. hubRequests \in 0..HubRequests /\ hubFaults \in 0..HubFaults
  BY RuntimeAtRest DEF H!RuntimeInit
<1>4. autostart \in BOOLEAN
  BY DEF H!RuntimeInit
<1>5. engine \in EngineRow /\ active \in AnyGen /\ child \in AnyGen /\ applied \in AnyGen
  BY RuntimeAtRest DEF H!RuntimeInit
<1>6. GenerationTyped
  BY <1>1, <1>2, <1>3, <1>4, <1>5 DEF GenerationTyped
<1>7. GenerationAgrees
  BY DEF H!RuntimeInit, GenerationAgrees, H!Running
<1>8. UndoneHolds
  BY <1>2 DEF UndoneHolds
<1> QED BY <1>6, <1>7, <1>8 DEF GenerationInv

\* An apply begins: the old core is stopped, and the candidate is on disk.
LEMMA Replaced ==
    ASSUME saved \in SavedRow, active \in AnyGen, applied \in AnyGen,
           H!Running => child = active /\ applied = child /\ child.text # "rejected",
           ~H!Refused, NEW by \in {"pass", "owner"} \union Handlers, H!Replace(by)
    PROVE  /\ engine' \in EngineRow /\ active' \in AnyGen /\ child' = H!NoGen /\ active' = engine'.cfg
           /\ engine'.by = by /\ engine'.cfg # H!NoGen /\ engine'.cfg.text # "rejected"
           /\ engine'.was => /\ engine'.old # H!NoGen /\ engine'.oldhash = engine'.old
                             /\ engine'.old.text # "rejected"
<1>1. /\ H!Compiled \in AnyGen /\ H!Compiled # H!NoGen /\ H!Compiled.text # "rejected"
  BY CompiledIsGeneration DEF H!Refused
<1>2. /\ engine' = [by |-> by, cfg |-> H!Compiled, old |-> active, oldhash |-> applied,
                    was |-> H!Running]
      /\ active' = H!Compiled /\ child' = H!NoGen
  BY DEF H!Replace
<1>3. H!Running \in BOOLEAN
  BY DEF H!Running
<1> HIDE DEF H!Running
<1>4. /\ engine' \in EngineRow /\ engine'.by = by /\ engine'.cfg = H!Compiled
      /\ engine'.old = active /\ engine'.oldhash = applied /\ engine'.was = H!Running
  BY <1>1, <1>2, <1>3 DEF EngineRow
<1>5. H!Running => active # H!NoGen
  BY DEF H!Running
<1> QED BY <1>1, <1>2, <1>4, <1>5

\* An apply ends: the candidate runs, or what ran before, or nothing.
LEMMA Ended ==
    ASSUME engine \in EngineRow, active \in AnyGen, child \in AnyGen, applied \in AnyGen,
           autostart \in BOOLEAN, hubFaults \in 0..HubFaults, CandidateHolds,
           H!Started \/ H!Restored
    PROVE  /\ active' \in AnyGen /\ child' \in AnyGen /\ applied' \in AnyGen
           /\ autostart' \in BOOLEAN /\ hubFaults' \in 0..HubFaults
           /\ H!Running' => child' = active' /\ applied' = child' /\ child'.text # "rejected"
<1>1. CASE H!Started
  BY <1>1 DEF H!Started, CandidateHolds, EngineRow, H!Running
<1>2. CASE H!Restored
  <2>1. engine.old \in AnyGen /\ engine.oldhash \in AnyGen /\ engine.cfg \in AnyGen /\ H!NoGen \in AnyGen
    BY RuntimeAtRest DEF EngineRow
  <2>2. hubFaults' \in 0..HubFaults /\ autostart' = autostart
    BY <1>2, RuntimeAtRest DEF H!Restored, H!Fault
  <2>3. active' = IF engine.old # H!NoGen THEN engine.old ELSE engine.cfg
    BY <1>2 DEF H!Restored
  <2>4. \/ engine.was /\ child' = engine.old /\ applied' = engine.oldhash
        \/ child' = H!NoGen /\ applied' = H!NoGen
    BY <1>2 DEF H!Restored
  <2> QED BY <2>1, <2>2, <2>3, <2>4 DEF CandidateHolds, H!Running
<1> QED BY <1>1, <1>2

\* Nothing of the core and of the lock changes, and each request keeps its stage.
LEMMA StoreEditKeeps ==
    ASSUME GenerationAgrees, UNCHANGED <<active, child, applied, engine>>,
           \A h \in Handlers : engine.by = h => req'[h].at = req[h].at
    PROVE  GenerationAgrees'
BY DEF GenerationAgrees, CandidateHolds, H!Running

\* The owner's requests for a start and the pass.
LEMMA BeginKeeps ==
    ASSUME GenerationInv, H!Flush \/ \E force \in BOOLEAN : H!Command(force)
    PROVE  GenerationInv'
<1>1. PICK by \in {"pass", "owner"} :
         /\ H!Replace(by) /\ ~H!Refused /\ hubRequests' \in 0..HubRequests
         /\ UNCHANGED <<saved, applied, autostart, req, hubFaults>>
  <2>0. hubRequests \in 0..HubRequests /\ HubRequests \in Nat
    BY RuntimeAtRest DEF GenerationInv, GenerationTyped
  <2>1. CASE H!Flush
    BY <2>0, <2>1 DEF H!Flush
  <2>2. ASSUME NEW force \in BOOLEAN, H!Command(force)
        PROVE  /\ H!Replace("owner") /\ ~H!Refused /\ hubRequests' \in 0..HubRequests
               /\ UNCHANGED <<saved, applied, autostart, req, hubFaults>>
    <3>1. hubRequests' \in 0..HubRequests
      BY <2>0, <2>2 DEF H!Command, H!Ask
    <3> QED BY <2>2, <3>1 DEF H!Command
  <2> QED BY <2>1, <2>2
<1>2. /\ engine' \in EngineRow /\ active' \in AnyGen /\ child' = H!NoGen /\ active' = engine'.cfg
      /\ engine'.by = by /\ engine'.cfg # H!NoGen /\ engine'.cfg.text # "rejected"
      /\ engine'.was => /\ engine'.old # H!NoGen /\ engine'.oldhash = engine'.old
                        /\ engine'.old.text # "rejected"
  BY <1>1, Replaced DEF GenerationInv, GenerationTyped, GenerationAgrees
<1>3. GenerationTyped'
  BY <1>1, <1>2, RuntimeAtRest DEF GenerationInv, GenerationTyped
<1>4. GenerationAgrees'
  BY <1>1, <1>2, RuntimeAtRest DEF GenerationAgrees, CandidateHolds, H!Running
<1>5. UndoneHolds'
  BY <1>1 DEF GenerationInv, UndoneHolds, Undone
<1> QED BY <1>3, <1>4, <1>5 DEF GenerationInv

\* The end of an apply of the owner or of a pass.
LEMMA FinishKeeps ==
    ASSUME GenerationInv, H!FinishApply
    PROVE  GenerationInv'
<1>1. CandidateHolds
  BY RuntimeAtRest DEF H!FinishApply, GenerationInv, GenerationAgrees
<1>2. /\ engine' = H!Free /\ (H!Started \/ H!Restored) /\ UNCHANGED <<saved, req, hubRequests>>
  BY DEF H!FinishApply
<1>3. /\ active' \in AnyGen /\ child' \in AnyGen /\ applied' \in AnyGen
      /\ autostart' \in BOOLEAN /\ hubFaults' \in 0..HubFaults
      /\ H!Running' => child' = active' /\ applied' = child' /\ child'.text # "rejected"
  BY <1>1, <1>2, Ended DEF GenerationInv, GenerationTyped
<1>4. GenerationTyped'
  BY <1>2, <1>3, RuntimeAtRest DEF GenerationInv, GenerationTyped
<1>5. GenerationAgrees'
  BY <1>2, <1>3 DEF GenerationAgrees
<1>6. UndoneHolds'
  BY <1>2 DEF GenerationInv, UndoneHolds, Undone
<1> QED BY <1>4, <1>5, <1>6 DEF GenerationInv

\* A stop, a crash of the core, and a kill of the panel with all its requests.
LEMMA CoreGoesKeeps ==
    ASSUME GenerationInv, H!Stop \/ H!CoreCrash \/ H!PanelKilled
    PROVE  GenerationInv'
<1>1. /\ child' = H!NoGen /\ engine' = H!Free /\ applied' \in {applied, H!NoGen}
      /\ UNCHANGED <<saved, active>> /\ autostart' \in BOOLEAN
      /\ hubRequests' \in 0..HubRequests /\ hubFaults' \in 0..HubFaults
      /\ req' = req \/ req' = [h \in Handlers |-> H!Nobody]
  <2>0. /\ hubRequests \in 0..HubRequests /\ HubRequests \in Nat /\ autostart \in BOOLEAN
        /\ hubFaults \in 0..HubFaults /\ HubFaults \in Nat
    BY RuntimeAtRest DEF GenerationInv, GenerationTyped
  <2>1. CASE H!Stop
    <3>1. hubRequests' \in 0..HubRequests
      BY <2>0, <2>1 DEF H!Stop, H!Ask
    <3> QED BY <2>0, <2>1, <3>1 DEF H!Stop
  <2>2. CASE H!CoreCrash
    <3>1. hubFaults' \in 0..HubFaults
      BY <2>0, <2>2 DEF H!CoreCrash, H!Fault
    <3> QED BY <2>0, <2>2, <3>1 DEF H!CoreCrash
  <2>3. CASE H!PanelKilled
    <3>1. hubFaults' \in 0..HubFaults
      BY <2>0, <2>3 DEF H!PanelKilled, H!Fault
    <3> QED BY <2>0, <2>3, <3>1 DEF H!PanelKilled
  <2> QED BY <2>1, <2>2, <2>3
<1>2. req' \in [Handlers -> ReqRow]
  BY <1>1, RuntimeAtRest DEF GenerationInv, GenerationTyped
<1>3. GenerationTyped'
  BY <1>1, <1>2, RuntimeAtRest DEF GenerationInv, GenerationTyped
<1>4. GenerationAgrees'
  BY <1>1 DEF GenerationAgrees, H!Running
<1>5. UndoneHolds'
  BY <1>1, RuntimeAtRest DEF GenerationInv, UndoneHolds, Undone
<1> QED BY <1>3, <1>4, <1>5 DEF GenerationInv

\* Edits of the sections and a registration.
LEMMA EditKeeps ==
    ASSUME GenerationInv, H!Register \/ \E text \in H!Texts : H!PutSetting(text)
    PROVE  GenerationInv'
<1>0. hubRequests \in 0..HubRequests /\ HubRequests \in Nat /\ saved \in SavedRow
  BY RuntimeAtRest DEF GenerationInv, GenerationTyped
<1>a. hubRequests' \in 0..HubRequests
  BY <1>0 DEF H!Register, H!PutSetting, H!Ask
<1>b. saved' = [saved EXCEPT !.pending = TRUE] \/ \E text \in H!Texts : saved' = [saved EXCEPT !.text = text]
  BY DEF H!Register, H!PutSetting
<1>1. /\ saved' \in SavedRow /\ saved'.row = saved.row /\ saved'.profile = saved.profile
      /\ UNCHANGED <<active, child, applied, autostart, engine, req, hubFaults>>
  <2>1. UNCHANGED <<active, child, applied, autostart, engine, req, hubFaults>>
    BY DEF H!Register, H!PutSetting
  <2>2. saved' \in SavedRow /\ saved'.row = saved.row /\ saved'.profile = saved.profile
    <3>1. CASE saved' = [saved EXCEPT !.pending = TRUE]
      BY <1>0, <3>1 DEF SavedRow
    <3>2. CASE \E text \in H!Texts : saved' = [saved EXCEPT !.text = text]
      BY <1>0, <3>2 DEF SavedRow
    <3> QED BY <1>b, <3>1, <3>2
  <2> QED BY <2>1, <2>2
<1>2. GenerationTyped'
  BY <1>1, <1>a DEF GenerationInv, GenerationTyped
<1>3. GenerationAgrees'
  BY <1>1, StoreEditKeeps DEF GenerationInv
<1>4. UndoneHolds'
  BY <1>1 DEF GenerationInv, UndoneHolds, Undone
<1> QED BY <1>2, <1>3, <1>4 DEF GenerationInv

\* What a request for a policy notes when it comes in.
LEMMA PolicyAsked ==
    ASSUME NEW policy \in H!Policies, NEW old \in H!Policies
    PROVE  LET r == [H!Nobody EXCEPT !.op = "matrix", !.at = "read", !.policy = policy,
                                     !.old = old, !.alone = TRUE]
           IN  r \in ReqRow /\ r.at = "read"
BY RuntimeAtRest DEF ReqRow, Stages

\* The same for an endpoint.
LEMMA EndpointAsked ==
    ASSUME NEW e \in Profiles, NEW earlier \in Profiles, NEW pending \in BOOLEAN
    PROVE  LET r == [H!Nobody EXCEPT !.op = "warp", !.at = "read", !.profile = e,
                         !.oldProfile = earlier, !.pending = pending, !.alone = TRUE]
           IN  r \in ReqRow /\ r.at = "read"
BY RuntimeAtRest DEF ReqRow, Stages

\* A request comes in.
LEMMA AskKeeps ==
    ASSUME GenerationInv, NEW h \in Handlers,
           (\E policy \in H!Policies : H!SetPolicy(h, policy))
               \/ \E e \in Endpoints : H!SelectEndpoint(h, e)
    PROVE  GenerationInv'
<1>1. saved.row \in H!Policies /\ saved.profile \in Profiles /\ saved.pending \in BOOLEAN
  BY DEF GenerationInv, GenerationTyped, SavedRow
<1> DEFINE Asks(r) == /\ req' = [req EXCEPT ![h] = r] /\ r \in ReqRow /\ r.at = "read"
<1>2. \E r : Asks(r)
  <2>1. ASSUME NEW policy \in H!Policies, H!SetPolicy(h, policy) PROVE \E r : Asks(r)
    <3>1. Asks([H!Nobody EXCEPT !.op = "matrix", !.at = "read", !.policy = policy,
                                !.old = saved.row, !.alone = TRUE])
      BY <1>1, <2>1, PolicyAsked DEF H!SetPolicy
    <3> QED BY <3>1
  <2>2. ASSUME NEW e \in Endpoints, H!SelectEndpoint(h, e) PROVE \E r : Asks(r)
    <3>1. e \in Profiles
      BY DEF Profiles
    <3> DEFINE r == [H!Nobody EXCEPT !.op = "warp", !.at = "read", !.profile = e,
                         !.oldProfile = saved.profile, !.pending = saved.pending, !.alone = TRUE]
    <3>2. r \in ReqRow /\ r.at = "read"
      BY <1>1, <3>1, EndpointAsked
    <3>3. req' = [req EXCEPT ![h] = r]
      BY <2>2 DEF H!SelectEndpoint
    <3> QED BY <3>2, <3>3
  <2> QED BY <2>1, <2>2
<1>a. hubRequests' \in 0..HubRequests
  <2>1. hubRequests < HubRequests /\ hubRequests' = hubRequests + 1
    BY DEF H!SetPolicy, H!SelectEndpoint, H!Ask
  <2> QED BY <2>1, RuntimeAtRest DEF GenerationInv, GenerationTyped
<1>3. /\ req[h] = H!Nobody
      /\ UNCHANGED <<saved, active, child, applied, autostart, engine, hubFaults>>
  BY DEF H!SetPolicy, H!SelectEndpoint
<1>4. /\ req' \in [Handlers -> ReqRow] /\ req'[h].at = "read"
      /\ \A g \in Handlers \ {h} : req'[g] = req[g]
  BY <1>2 DEF GenerationInv, GenerationTyped
<1>5. GenerationTyped'
  BY <1>3, <1>4, <1>a DEF GenerationInv, GenerationTyped
<1>6. GenerationAgrees'
  BY <1>3, <1>4, RuntimeAtRest DEF GenerationInv, GenerationAgrees, CandidateHolds, H!Running
<1>7. UndoneHolds'
  BY <1>3, <1>4 DEF GenerationInv, UndoneHolds, Undone
<1> QED BY <1>5, <1>6, <1>7 DEF GenerationInv

\* A stage of a request.
LEMMA StageMoves ==
    ASSUME req \in [Handlers -> ReqRow], NEW h \in Handlers, NEW at \in Stages,
           req' = [req EXCEPT ![h].at = at]
    PROVE  /\ req' \in [Handlers -> ReqRow] /\ req'[h] = [req[h] EXCEPT !.at = at]
           /\ req'[h].at = at /\ req'[h].op = req[h].op /\ req'[h].alone = req[h].alone
           /\ req'[h].old = req[h].old /\ req'[h].oldProfile = req[h].oldProfile
           /\ \A g \in Handlers \ {h} : req'[g] = req[g]
BY DEF ReqRow

\* Another request writes the matrix or the profile: the others are no longer alone.
LEMMA StageOverlaps ==
    ASSUME req \in [Handlers -> ReqRow], NEW h \in Handlers, NEW at \in Stages,
           req' = [H!Overlapped(h) EXCEPT ![h].at = at]
    PROVE  /\ req' \in [Handlers -> ReqRow]
           /\ req'[h].at = at /\ req'[h].op = req[h].op /\ req'[h].old = req[h].old
           /\ req'[h].oldProfile = req[h].oldProfile
           /\ \A g \in Handlers \ {h} : req'[g].at = req[g].at /\ ~req'[g].alone
<1>1. H!Overlapped(h) \in [Handlers -> ReqRow]
  BY DEF H!Overlapped, ReqRow
<1>2. /\ H!Overlapped(h)[h] = req[h]
      /\ \A g \in Handlers \ {h} : H!Overlapped(h)[g].at = req[g].at /\ ~H!Overlapped(h)[g].alone
  BY DEF H!Overlapped, ReqRow
<1> HIDE DEF H!Overlapped
<1> QED BY <1>1, <1>2 DEF ReqRow

\* A request writes its value, or puts back what it found.
LEMMA RequestWriteKeeps ==
    ASSUME GenerationInv, NEW h \in Handlers, H!Write(h) \/ H!Undo(h)
    PROVE  GenerationInv'
<1>0. saved \in SavedRow /\ req \in [Handlers -> ReqRow] /\ req[h] \in ReqRow
  BY DEF GenerationInv, GenerationTyped
<1>1. PICK at \in {"written", "restored"} :
        /\ req' = [H!Overlapped(h) EXCEPT ![h].at = at]
        /\ at = "restored" => saved' = IF req[h].op = "matrix" THEN [saved EXCEPT !.row = req[h].old]
                                       ELSE [saved EXCEPT !.profile = req[h].oldProfile]
  BY DEF H!Write, H!Undo
<1>2. /\ req' \in [Handlers -> ReqRow]
      /\ req'[h].at = at /\ req'[h].op = req[h].op /\ req'[h].old = req[h].old
      /\ req'[h].oldProfile = req[h].oldProfile
      /\ \A g \in Handlers \ {h} : req'[g].at = req[g].at /\ ~req'[g].alone
  <2>1. at \in Stages
    BY DEF Stages
  <2> QED BY <1>0, <1>1, <2>1, StageOverlaps
<1>3. saved' \in SavedRow
  <2>1. /\ req[h].policy \in H!Policies /\ req[h].old \in H!Policies
        /\ req[h].profile \in Profiles /\ req[h].oldProfile \in Profiles
    BY <1>0 DEF ReqRow
  <2>2. \/ \E v \in H!Policies : saved' = [saved EXCEPT !.row = v]
        \/ \E v \in Profiles : saved' = [saved EXCEPT !.profile = v]
    BY <2>1 DEF H!Write, H!Undo
  <2> QED BY <1>0, <2>2 DEF SavedRow
<1>4. UNCHANGED <<active, child, applied, autostart, engine, hubRequests, hubFaults>>
  BY DEF H!Write, H!Undo
<1>5. GenerationTyped'
  BY <1>2, <1>3, <1>4 DEF GenerationInv, GenerationTyped
<1>6. req[h].at \in {"read", "failed"}
  BY DEF H!Write, H!Undo
<1>7. GenerationAgrees'
  BY <1>2, <1>4, <1>6 DEF GenerationInv, GenerationAgrees, CandidateHolds, H!Running
<1>8. UndoneHolds'
  <2>1. at = "restored" => Undone(h)'
    BY <1>0, <1>1, <1>2 DEF Undone, SavedRow
  <2> QED BY <1>1, <1>2, <2>1 DEF UndoneHolds
<1> QED BY <1>5, <1>7, <1>8 DEF GenerationInv

\* A request applies what it wrote, or what it put back.
LEMMA AppliesKeeps ==
    ASSUME GenerationInv, NEW h \in Handlers, H!Apply(h) \/ H!Reapply(h)
    PROVE  GenerationInv'
<1>0. /\ saved \in SavedRow /\ req \in [Handlers -> ReqRow] /\ req[h] \in ReqRow
      /\ hubFaults \in 0..HubFaults /\ HubFaults \in Nat
  BY RuntimeAtRest DEF GenerationInv, GenerationTyped
<1>1. PICK from \in Stages, during \in Stages, ok \in Stages, failed \in Stages :
        /\ H!Applies(h, from, during, ok, failed)
        /\ during \in {"applying", "reapplying"} /\ ok # "restored" /\ failed # "restored"
        /\ \/ from = "written" /\ during = "applying" /\ ok = "applied" /\ failed = "failed"
           \/ from = "restored" /\ during = "reapplying" /\ ok = "done" /\ failed = "done"
  <2>1. CASE H!Apply(h)
    BY <2>1 DEF H!Apply, Stages
  <2>2. CASE H!Reapply(h)
    BY <2>2 DEF H!Reapply, Stages
  <2> QED BY <2>1, <2>2
<1>2. /\ req[h].at = from /\ engine = H!Free
      /\ UNCHANGED <<saved, applied, autostart, hubRequests>>
  BY <1>1 DEF H!Applies
<1>3. PICK at \in {during, ok, failed} :
        /\ req' = [req EXCEPT ![h].at = at]
        /\ \/ UNCHANGED <<engine, active, child>>
           \/ at = during /\ ~H!Refused /\ H!Replace(h)
  BY <1>1 DEF H!Applies
<1>4. hubFaults' \in 0..HubFaults
  <2>1. hubFaults' = hubFaults \/ (hubFaults < HubFaults /\ hubFaults' = hubFaults + 1)
    BY <1>1 DEF H!Applies, H!Fault
  <2> QED BY <1>0, <2>1
<1>5. /\ req' \in [Handlers -> ReqRow]
      /\ req'[h].at = at /\ req'[h].op = req[h].op /\ req'[h].alone = req[h].alone
      /\ req'[h].old = req[h].old /\ req'[h].oldProfile = req[h].oldProfile
      /\ \A g \in Handlers \ {h} : req'[g] = req[g]
  <2>1. at \in Stages
    BY <1>1, <1>3
  <2> QED BY <1>0, <1>3, <2>1, StageMoves
<1>6. UndoneHolds'
  <2>1. req'[h].at \in {"restored", "reapplying", "done"} => req[h].at = "restored"
    BY <1>1, <1>2, <1>3, <1>5
  <2> QED BY <1>2, <1>5, <2>1 DEF GenerationInv, UndoneHolds, Undone
<1>7. CASE UNCHANGED <<engine, active, child>>
  <2>1. GenerationTyped'
    BY <1>2, <1>4, <1>5, <1>7 DEF GenerationInv, GenerationTyped
  <2>2. GenerationAgrees'
    BY <1>2, <1>7 DEF GenerationInv, GenerationAgrees, H!Running
  <2> QED BY <1>6, <2>1, <2>2 DEF GenerationInv
<1>8. CASE at = during /\ ~H!Refused /\ H!Replace(h)
  <2>1. /\ engine' \in EngineRow /\ active' \in AnyGen /\ child' = H!NoGen /\ active' = engine'.cfg
        /\ engine'.by = h /\ engine'.cfg # H!NoGen /\ engine'.cfg.text # "rejected"
        /\ engine'.was => /\ engine'.old # H!NoGen /\ engine'.oldhash = engine'.old
                          /\ engine'.old.text # "rejected"
    BY <1>8, Replaced DEF GenerationInv, GenerationTyped, GenerationAgrees
  <2>2. GenerationTyped'
    BY <1>2, <1>4, <1>5, <2>1, RuntimeAtRest DEF GenerationInv, GenerationTyped
  <2>3. GenerationAgrees'
    BY <1>1, <1>5, <1>8, <2>1 DEF GenerationAgrees, CandidateHolds, H!Running
  <2> QED BY <1>6, <2>2, <2>3 DEF GenerationInv
<1> QED BY <1>3, <1>7, <1>8

\* The apply of a request ends.
LEMMA ApplyEndsKeeps ==
    ASSUME GenerationInv, NEW h \in Handlers, H!ApplyEnds(h)
    PROVE  GenerationInv'
<1>1. CandidateHolds /\ req[h].at \in {"applying", "reapplying"}
  BY RuntimeAtRest DEF H!ApplyEnds, GenerationInv, GenerationAgrees, CandidateHolds
<1>2. /\ engine' = H!Free /\ (H!Started \/ H!Restored) /\ UNCHANGED <<saved, hubRequests>>
  BY DEF H!ApplyEnds
<1>3. PICK at \in {"applied", "failed", "done"} :
        /\ req' = [req EXCEPT ![h].at = at]
        /\ at = "done" => req[h].at = "reapplying"
  BY <1>1 DEF H!ApplyEnds, GenerationInv, GenerationTyped
<1>4. /\ req' \in [Handlers -> ReqRow]
      /\ req'[h].at = at /\ req'[h].op = req[h].op /\ req'[h].alone = req[h].alone
      /\ req'[h].old = req[h].old /\ req'[h].oldProfile = req[h].oldProfile
      /\ \A g \in Handlers \ {h} : req'[g] = req[g]
  <2>1. at \in Stages
    BY DEF Stages
  <2> QED BY <1>3, <2>1, StageMoves DEF GenerationInv, GenerationTyped
<1>5. /\ active' \in AnyGen /\ child' \in AnyGen /\ applied' \in AnyGen
      /\ autostart' \in BOOLEAN /\ hubFaults' \in 0..HubFaults
      /\ H!Running' => child' = active' /\ applied' = child' /\ child'.text # "rejected"
  BY <1>1, <1>2, Ended DEF GenerationInv, GenerationTyped
<1>6. GenerationTyped'
  BY <1>2, <1>4, <1>5, RuntimeAtRest DEF GenerationInv, GenerationTyped
<1>7. GenerationAgrees'
  BY <1>2, <1>5 DEF GenerationAgrees
<1>8. UndoneHolds'
  BY <1>2, <1>3, <1>4 DEF GenerationInv, UndoneHolds, Undone
<1> QED BY <1>6, <1>7, <1>8 DEF GenerationInv

\* A request is answered.
LEMMA AnswerKeeps ==
    ASSUME GenerationInv, NEW h \in Handlers, H!Answer(h)
    PROVE  GenerationInv'
<1>0. saved \in SavedRow /\ req \in [Handlers -> ReqRow]
  BY DEF GenerationInv, GenerationTyped
<1>1. /\ req' = [req EXCEPT ![h] = H!Nobody] /\ req[h].at \in {"applied", "done"}
      /\ saved' = saved \/ saved' = [saved EXCEPT !.pending = FALSE]
      /\ UNCHANGED <<active, child, applied, autostart, engine, hubRequests, hubFaults>>
  BY DEF H!Answer
<1>2. saved' \in SavedRow /\ saved'.row = saved.row /\ saved'.profile = saved.profile
  BY <1>0, <1>1 DEF SavedRow
<1>3. /\ req' \in [Handlers -> ReqRow] /\ req'[h].at = "none"
      /\ \A g \in Handlers \ {h} : req'[g] = req[g]
  BY <1>0, <1>1, RuntimeAtRest
<1>4. GenerationTyped'
  BY <1>1, <1>2, <1>3 DEF GenerationInv, GenerationTyped
<1>5. GenerationAgrees'
  BY <1>1, <1>3 DEF GenerationInv, GenerationAgrees, CandidateHolds, H!Running
<1>6. UndoneHolds'
  BY <1>2, <1>3 DEF GenerationInv, UndoneHolds, Undone
<1> QED BY <1>4, <1>5, <1>6 DEF GenerationInv

\* No step of the core, of the owner or of a request breaks it.
LEMMA GenerationStep == GenerationInv /\ [H!RuntimeNext]_hVars => GenerationInv'
<1> SUFFICES ASSUME GenerationInv, [H!RuntimeNext]_hVars PROVE GenerationInv'
  OBVIOUS
<1>1. CASE UNCHANGED hVars
  BY <1>1 DEF hVars, GenerationInv, GenerationTyped, GenerationAgrees, CandidateHolds, UndoneHolds,
     Undone, H!Running
<1>2. CASE H!RuntimeNext
  BY <1>2, BeginKeeps, FinishKeeps, CoreGoesKeeps, EditKeeps, AskKeeps, RequestWriteKeeps,
     AppliesKeeps,
     ApplyEndsKeeps, AnswerKeeps DEF H!RuntimeNext
<1> QED BY <1>1, <1>2

\* The invariant implies what the runs check.
LEMMA GenerationShows == GenerationInv => H!RuntimeTypeOK /\ H!RuntimeIsSound
<1> SUFFICES ASSUME GenerationInv PROVE H!RuntimeTypeOK /\ H!RuntimeIsSound
  OBVIOUS
<1>1. H!RuntimeTypeOK
  <2>1. /\ saved.row \in H!Policies /\ saved.profile \in {0} \union Endpoints
        /\ saved.pending \in BOOLEAN /\ saved.text \in H!Texts
    BY DEF GenerationInv, GenerationTyped, SavedRow, Profiles
  <2>2. engine.by \in {"none", "pass", "owner"} \union Handlers
    BY DEF GenerationInv, GenerationTyped, EngineRow
  <2>3. \A h \in Handlers : req[h].at \in Stages
    BY DEF GenerationInv, GenerationTyped, ReqRow
  <2> QED BY <2>1, <2>2, <2>3 DEF GenerationInv, GenerationTyped, AnyGen, Stages, H!RuntimeTypeOK
<1>2. H!RuntimeIsSound
  BY DEF GenerationInv, GenerationAgrees, UndoneHolds, Undone, H!RuntimeIsSound
<1> QED BY <1>1, <1>2

-----------------------------------------------------------------------------
(* Updates of a Node: the inductive invariant *)

NodeWorking == nodeScript.pc \notin {"none", "exit"}
Copied == {"away", "bring", "start", "identity"}
Undoing == {"undoStop", "undoSource", "undoVenv", "undoIdentity", "undoStart"}
AfterStop == {"copy", "copying"} \union Copied \union Undoing

NodeBrokers == [up : BOOLEAN, c : NodeCommits \union {NodeInstalled, Nothing},
                ready : BOOLEAN, job : NodeCommits \union {NodeInstalled, Nothing}]
NodeScripts == [pc : {"none", "exit", "spawn", "prepare", "stop"} \union AfterStop,
                c : NodeCommits \union {NodeInstalled, Nothing}, src : Int, env : Int,
                meta : Int, db : Int, ok : BOOLEAN]

NodeTypes ==
    /\ wanted \subseteq NodeCommits \union {NodeInstalled} /\ NodeInstalled \in wanted
    /\ hubAt \in NodeCommits \union {NodeInstalled}
    /\ nodeBroker \in NodeBrokers /\ nodeScript \in NodeScripts
    /\ agentRuns \in Int /\ nodeBroken \in BOOLEAN
    /\ metered \in Int /\ metered = counted

\* What is on the Node, or kept for a rollback, was wanted by its Hub.
PartsAreWanted ==
    /\ {source, venv, before} \subseteq wanted \union {Mixed} /\ identity \in wanted
    /\ nodeBroker.ready => nodeBroker.c \in wanted
    /\ nodeBroker.job \in wanted \union {Nothing}
    /\ nodeScript.pc # "none" => nodeScript.c \in wanted /\ nodeBroker.job = nodeScript.c
    /\ nodeScript.pc \in {"stop"} \union AfterStop =>
          /\ {nodeScript.src, nodeScript.env} \subseteq wanted \union {Mixed}
          /\ nodeScript.meta \in wanted
          /\ nodeScript.src = before /\ nodeScript.c >= before
          /\ ~nodeBroken => nodeScript.src = nodeScript.env /\ nodeScript.src = nodeScript.meta

\* How far the job, or its rollback, has come is how far the Node has changed.
JobMatchesNode ==
    /\ nodeScript.pc \in {"none", "exit", "spawn", "prepare", "stop"} /\ ~nodeBroken => Whole
    /\ nodeScript.pc \in {"none", "exit"} /\ ~nodeBroken => source >= before
    /\ nodeScript.pc \in {"spawn", "prepare", "stop"} => source = before
    /\ nodeScript.pc = "stop" => venv = nodeScript.env /\ identity = nodeScript.meta
    /\ nodeScript.pc \in {"copy", "copying", "away"} => venv = nodeScript.env
    /\ nodeScript.pc \in {"copy", "copying"} \union Copied => identity = nodeScript.meta
    /\ nodeScript.pc \in Copied => source = nodeScript.c
    /\ nodeScript.pc \in {"start", "identity"} => venv = nodeScript.c
    /\ nodeScript.pc = "identity" => agentRuns = nodeScript.c
    /\ nodeScript.pc = "exit" /\ nodeScript.ok => Whole /\ source = nodeScript.c
    /\ nodeScript.pc \in {"undoSource", "undoVenv", "undoIdentity", "undoStart"} /\ ~nodeBroken
       => agentRuns = Down
    /\ nodeScript.pc \in {"undoVenv", "undoIdentity", "undoStart"} /\ ~nodeBroken
       => source = nodeScript.src
    /\ nodeScript.pc \in {"undoIdentity", "undoStart"} /\ ~nodeBroken => venv = nodeScript.env
    /\ nodeScript.pc = "undoStart" /\ ~nodeBroken => identity = nodeScript.meta

NodeUpdateInv == NodeTypes /\ PartsAreWanted /\ JobMatchesNode

\* The parts of a Node that are numbers.
LEMMA NodeNumbers ==
    NodeTypes /\ PartsAreWanted
       => /\ wanted \subseteq Int /\ Mixed = -1 /\ \A c \in wanted : c > 0 /\ c # Mixed
          /\ source \in Int /\ venv \in Int /\ identity \in Int /\ before \in Int
<1> SUFFICES ASSUME NodeTypes, PartsAreWanted
             PROVE  /\ wanted \subseteq Int /\ Mixed = -1 /\ \A c \in wanted : c > 0 /\ c # Mixed
                    /\ source \in Int /\ venv \in Int /\ identity \in Int /\ before \in Int
  OBVIOUS
<1>1. Mixed = -1 /\ Mixed \in Int
  BY DEF Mixed
<1>2. \A c \in wanted : c \in Nat /\ c # 0
  BY NodeUpdateAssumption DEF NodeTypes
<1>3. {source, venv, before} \subseteq wanted \union {Mixed} /\ identity \in wanted
  BY DEF PartsAreWanted
<1> QED BY <1>1, <1>2, <1>3

\* A Node starts with one commit everywhere.
LEMMA NodeUpdateInitInv == NodeUpdateInit => NodeUpdateInv
<1> SUFFICES ASSUME NodeUpdateInit PROVE NodeUpdateInv
  OBVIOUS
<1> USE NodeUpdateAssumption DEF NodeUpdateInit, Idle, Nothing
<1>1. NodeTypes
  <2>1. nodeBroker \in NodeBrokers
    BY DEF NodeBrokers
  <2>2. nodeScript \in NodeScripts
    BY DEF NodeScripts
  <2>3. agentRuns \in Int /\ metered \in Int /\ metered = counted
    OBVIOUS
  <2>5. nodeBroken \in BOOLEAN
    OBVIOUS
  <2>4. /\ wanted \subseteq NodeCommits \union {NodeInstalled} /\ NodeInstalled \in wanted
        /\ hubAt \in NodeCommits \union {NodeInstalled}
    OBVIOUS
  <2> HIDE DEF NodeUpdateInit
  <2> QED BY <2>1, <2>2, <2>3, <2>4, <2>5 DEF NodeTypes
<1>2. PartsAreWanted
  BY DEF PartsAreWanted, AfterStop, Copied, Undoing
<1>3. JobMatchesNode
  BY DEF JobMatchesNode, Whole, Copied
<1> QED BY <1>1, <1>2, <1>3 DEF NodeUpdateInv

\* The job goes on, or is over.
LEMMA ScriptGoesOn ==
    ASSUME NodeTypes, NEW pc \in {"exit", "undoStop"} \union Undoing,
           Goes(pc) \/ \E ok \in BOOLEAN : Exits(ok)
    PROVE  nodeScript' \in NodeScripts
<1>1. nodeScript \in NodeScripts /\ nodeScript = [nodeScript EXCEPT !.pc = nodeScript.pc]
  BY DEF NodeTypes, NodeScripts
<1>2. CASE Goes(pc)
  BY <1>1, <1>2 DEF Goes, NodeScripts, AfterStop, Copied, Undoing
<1>3. CASE \E ok \in BOOLEAN : Exits(ok)
  BY <1>1, <1>3 DEF Exits, NodeScripts
<1> QED BY <1>2, <1>3

\* The types are kept.
LEMMA NodeUpdateTypes == NodeUpdateInv /\ [NodeUpdateNext]_nodeUpdateVars => NodeTypes'
<1> SUFFICES ASSUME NodeUpdateInv, [NodeUpdateNext]_nodeUpdateVars PROVE NodeTypes'
  OBVIOUS
<1>0. NodeTypes /\ PartsAreWanted /\ JobMatchesNode
  BY DEF NodeUpdateInv
<1> USE NodeUpdateAssumption
   DEF Nothing, Mixed, Down, NodeTypes, NodeBrokers, NodeScripts, AfterStop,
          Copied, Undoing
<1>1. ASSUME NEW ci \in BOOLEAN, CheckNode(ci) PROVE NodeTypes'
  BY <1>0, <1>1 DEF CheckNode, PartsAreWanted
<1>2. CASE HubMoves
  BY <1>0, <1>2 DEF HubMoves, PartsAreWanted
<1>3. CASE StartNode
  <2>1. nodeScript' \in NodeScripts
    <3>1. Idle \in NodeScripts
      BY DEF Idle
    <3>2. nodeScript' = [Idle EXCEPT !.pc = "spawn", !.c = hubAt]
      BY <1>3 DEF StartNode
    <3> QED BY <1>0, <3>1, <3>2
  <2>2. nodeBroken' \in BOOLEAN
    BY <1>0, <1>3 DEF StartNode, ReadyCandidate, Idle, PartsAreWanted
  <2> QED BY <1>0, <1>3, <2>1, <2>2 DEF StartNode, ReadyCandidate, Idle, PartsAreWanted
<1>4. CASE NodeWorkerRuns
  BY <1>0, <1>4 DEF NodeWorkerRuns, Reported, PartsAreWanted
<1>5. CASE NodeWorkerEnds
  BY <1>0, <1>5 DEF NodeWorkerEnds, Reported, Idle, PartsAreWanted
<1>6. CASE NodeBrokerCrash
  BY <1>0, <1>6 DEF NodeBrokerCrash, Idle, NodeFault, PartsAreWanted
<1>7. CASE NodeBrokerRestart
  BY <1>0, <1>7 DEF NodeBrokerRestart, PartsAreWanted
<1>8. CASE PrepareNode
  <2>1. nodeScript' \in NodeScripts
    <3>1. \/ nodeScript' = [nodeScript EXCEPT !.pc = "exit", !.ok = FALSE]
          \/ nodeScript' = [nodeScript EXCEPT !.pc = "stop", !.src = source, !.env = venv,
                                              !.meta = identity]
      BY <1>8 DEF PrepareNode, Exits
    <3>2. {source, venv, identity} \subseteq Int
      BY <1>0, NodeNumbers
    <3>3. CASE nodeScript' = [nodeScript EXCEPT !.pc = "exit", !.ok = FALSE]
      BY <1>0, <3>3
    <3>4. CASE nodeScript' = [nodeScript EXCEPT !.pc = "stop", !.src = source, !.env = venv,
                                                !.meta = identity]
      BY <1>0, <3>2, <3>4
    <3> QED BY <3>1, <3>3, <3>4
  <2>2. nodeBroken' \in BOOLEAN
    BY <1>0, <1>8 DEF PrepareNode, OutsideJob, Exits, PartsAreWanted
  <2> QED BY <1>0, <1>8, <2>1, <2>2 DEF PrepareNode, OutsideJob, Exits, PartsAreWanted
<1>9. CASE StopAgent
  <2>1. nodeScript' \in NodeScripts
    BY <1>0, <1>9 DEF StopAgent, OutsideJob, PartsAreWanted
  <2>2. nodeBroken' \in BOOLEAN
    BY <1>0, <1>9 DEF StopAgent, OutsideJob, PartsAreWanted
  <2> QED BY <1>0, <1>9, <2>1, <2>2 DEF StopAgent, OutsideJob, PartsAreWanted
<1>10. CASE StopAgentFails
  <2>1. nodeScript' \in NodeScripts
    BY <1>0, <1>10 DEF StopAgentFails, OutsideJob, Exits, PartsAreWanted
  <2>2. nodeBroken' \in BOOLEAN
    BY <1>0, <1>10 DEF StopAgentFails, OutsideJob, Exits, PartsAreWanted
  <2> QED BY <1>0, <1>10, <2>1, <2>2 DEF StopAgentFails, OutsideJob, Exits, PartsAreWanted
<1>11. CASE CopyNodeSource
  BY <1>0, <1>11 DEF CopyNodeSource, OutsideJob, Goes, PartsAreWanted
<1>12. CASE CopyingNodeSource
  BY <1>0, <1>12 DEF CopyingNodeSource, OutsideJob, Goes, PartsAreWanted
<1>13. CASE RenameAway
  BY <1>0, <1>13 DEF RenameAway, OutsideJob, Goes, PartsAreWanted
<1>14. CASE RenameIn
  BY <1>0, <1>14 DEF RenameIn, OutsideJob, Goes, PartsAreWanted
<1>15. CASE StartAgent
  BY <1>0, <1>15 DEF StartAgent, OutsideJob, Goes, PartsAreWanted
<1>16. CASE WriteIdentity
  <2>1. nodeScript' \in NodeScripts
    BY <1>0, <1>16, ScriptGoesOn DEF WriteIdentity
  <2>2. UNCHANGED <<wanted, hubAt, nodeBroker, agentRuns, nodeBroken, metered, counted>>
    BY <1>16 DEF WriteIdentity, OutsideJob
  <2> QED BY <1>0, <2>1, <2>2
<1>17. CASE UndoStop
  <2>1. nodeScript' \in NodeScripts
    BY <1>0, <1>17 DEF UndoStop, OutsideJob, Attempted, AttemptFails, Goes, PartsAreWanted
  <2>2. nodeBroken' \in BOOLEAN
    BY <1>0, <1>17 DEF UndoStop, OutsideJob, Attempted, AttemptFails, Goes, PartsAreWanted
  <2> QED BY <1>0, <1>17, <2>1, <2>2
     DEF UndoStop, OutsideJob, Attempted, AttemptFails, Goes, PartsAreWanted
<1>18. CASE UndoSource
  <2>1. nodeScript' \in NodeScripts
    BY <1>0, <1>18, ScriptGoesOn DEF UndoSource, Attempted, AttemptFails, Goes
  <2>2. /\ UNCHANGED <<wanted, hubAt, nodeBroker, agentRuns, metered, counted>>
        /\ nodeBroken' \in {nodeBroken, TRUE}
    BY <1>18 DEF UndoSource, OutsideJob, UndoParts, Attempted, AttemptFails
  <2> QED BY <1>0, <2>1, <2>2
<1>19. CASE UndoVenv
  <2>1. nodeScript' \in NodeScripts
    BY <1>0, <1>19, ScriptGoesOn DEF UndoVenv, Attempted, AttemptFails, Goes
  <2>2. /\ UNCHANGED <<wanted, hubAt, nodeBroker, agentRuns, metered, counted>>
        /\ nodeBroken' \in {nodeBroken, TRUE}
    BY <1>19 DEF UndoVenv, OutsideJob, Attempted, AttemptFails
  <2> QED BY <1>0, <2>1, <2>2
<1>20. CASE UndoIdentity
  <2>1. nodeScript' \in NodeScripts
    BY <1>0, <1>20, ScriptGoesOn DEF UndoIdentity, Attempted, AttemptFails, Goes
  <2>2. /\ UNCHANGED <<wanted, hubAt, nodeBroker, agentRuns, metered, counted>>
        /\ nodeBroken' \in {nodeBroken, TRUE}
    BY <1>20 DEF UndoIdentity, OutsideJob, Attempted, AttemptFails
  <2> QED BY <1>0, <2>1, <2>2
<1>21. CASE UndoStart
  <2>1. nodeScript' \in NodeScripts
    BY <1>0, <1>21 DEF UndoStart, OutsideJob, Exits, PartsAreWanted
  <2>2. nodeBroken' \in BOOLEAN
    BY <1>0, <1>21 DEF UndoStart, OutsideJob, Exits, PartsAreWanted
  <2> QED BY <1>0, <1>21, <2>1, <2>2 DEF UndoStart, OutsideJob, Exits, PartsAreWanted
<1>22. CASE AgentMeters
  BY <1>0, <1>22 DEF AgentMeters, PartsAreWanted
<1>23. CASE UNCHANGED nodeUpdateVars
  BY <1>0, <1>23 DEF nodeUpdateVars, PartsAreWanted, JobMatchesNode, Whole
<1> QED
  BY <1>1, <1>2, <1>3, <1>4, <1>5, <1>6, <1>7, <1>8, <1>9, <1>10, <1>11, <1>12, <1>13, <1>14,
     <1>15, <1>16, <1>17, <1>18, <1>19, <1>20, <1>21, <1>22, <1>23
  DEF NodeUpdateNext

\* Nothing comes to a Node that its Hub did not want.
LEMMA PartsStayWanted == NodeUpdateInv /\ [NodeUpdateNext]_nodeUpdateVars => PartsAreWanted'
<1> SUFFICES ASSUME NodeUpdateInv, [NodeUpdateNext]_nodeUpdateVars PROVE PartsAreWanted'
  OBVIOUS
<1>0. NodeTypes /\ PartsAreWanted /\ JobMatchesNode
  BY DEF NodeUpdateInv
<1> USE NodeUpdateAssumption
   DEF Nothing, Mixed, Down, NodeTypes, NodeBrokers, NodeScripts, AfterStop,
          Copied, Undoing
<1>1. ASSUME NEW ci \in BOOLEAN, CheckNode(ci) PROVE PartsAreWanted'
  BY <1>0, <1>1 DEF CheckNode, PartsAreWanted, JobMatchesNode, Whole
<1>2. CASE HubMoves
  BY <1>0, <1>2 DEF HubMoves, PartsAreWanted, JobMatchesNode, Whole
<1>3. CASE StartNode
  BY <1>0, <1>3 DEF StartNode, ReadyCandidate, Idle, PartsAreWanted, JobMatchesNode, Whole
<1>4. CASE NodeWorkerRuns
  BY <1>0, <1>4 DEF NodeWorkerRuns, Reported, PartsAreWanted, JobMatchesNode, Whole
<1>5. CASE NodeWorkerEnds
  BY <1>0, <1>5 DEF NodeWorkerEnds, Reported, Idle, PartsAreWanted, JobMatchesNode, Whole
<1>6. CASE NodeBrokerCrash
  BY <1>0, <1>6 DEF NodeBrokerCrash, Idle, NodeFault, PartsAreWanted, JobMatchesNode, Whole
<1>7. CASE NodeBrokerRestart
  BY <1>0, <1>7 DEF NodeBrokerRestart, PartsAreWanted, JobMatchesNode, Whole
<1>8. CASE PrepareNode
  <2>1. CASE nodeScript' = [nodeScript EXCEPT !.pc = "exit", !.ok = FALSE]
    BY <1>0, <1>8, <2>1 DEF PrepareNode, OutsideJob, PartsAreWanted
  <2>2. CASE /\ source = Mixed \/ nodeScript.c >= source
             /\ nodeScript' = [nodeScript EXCEPT !.pc = "stop", !.src = source, !.env = venv,
                                                 !.meta = identity]
    <3>1. nodeScript.c >= source
      BY <1>0, <1>8, <2>2, NodeNumbers DEF PartsAreWanted, PrepareNode
    <3> QED BY <1>0, <1>8, <2>2, <3>1 DEF PrepareNode, OutsideJob, PartsAreWanted, JobMatchesNode,
                                          Whole
  <2> QED BY <1>8, <2>1, <2>2 DEF PrepareNode, Exits
<1>9. CASE StopAgent
  BY <1>0, <1>9 DEF StopAgent, OutsideJob, PartsAreWanted, JobMatchesNode, Whole
<1>10. CASE StopAgentFails
  BY <1>0, <1>10 DEF StopAgentFails, OutsideJob, Exits, PartsAreWanted, JobMatchesNode, Whole
<1>11. CASE CopyNodeSource
  BY <1>0, <1>11 DEF CopyNodeSource, OutsideJob, Goes, PartsAreWanted, JobMatchesNode, Whole
<1>12. CASE CopyingNodeSource
  BY <1>0, <1>12 DEF CopyingNodeSource, OutsideJob, Goes, PartsAreWanted, JobMatchesNode, Whole
<1>13. CASE RenameAway
  BY <1>0, <1>13 DEF RenameAway, OutsideJob, Goes, PartsAreWanted, JobMatchesNode, Whole
<1>14. CASE RenameIn
  BY <1>0, <1>14 DEF RenameIn, OutsideJob, Goes, PartsAreWanted, JobMatchesNode, Whole
<1>15. CASE StartAgent
  BY <1>0, <1>15 DEF StartAgent, OutsideJob, Goes, PartsAreWanted, JobMatchesNode, Whole
<1>16. CASE WriteIdentity
  <2>1. /\ nodeScript'.c = nodeScript.c /\ nodeScript'.src = nodeScript.src
        /\ nodeScript'.env = nodeScript.env /\ nodeScript'.meta = nodeScript.meta
        /\ nodeScript.pc = "identity" /\ identity' \in {identity, nodeScript.c}
    BY <1>0, <1>16 DEF WriteIdentity, Goes, Exits
  <2> QED BY <1>0, <1>16, <2>1 DEF WriteIdentity, OutsideJob, PartsAreWanted
<1>17. CASE UndoStop
  BY <1>0, <1>17
     DEF UndoStop, OutsideJob, Attempted, AttemptFails, Goes, PartsAreWanted, JobMatchesNode, Whole
<1>18. CASE UndoSource
  BY <1>0, <1>18
     DEF UndoSource, OutsideJob, UndoParts, Attempted, AttemptFails, Goes, PartsAreWanted,
         JobMatchesNode, Whole
<1>19. CASE UndoVenv
  BY <1>0, <1>19
     DEF UndoVenv, OutsideJob, Attempted, AttemptFails, Goes, PartsAreWanted, JobMatchesNode, Whole
<1>20. CASE UndoIdentity
  BY <1>0, <1>20
     DEF UndoIdentity, OutsideJob, Attempted, AttemptFails, Goes, PartsAreWanted, JobMatchesNode,
         Whole
<1>21. CASE UndoStart
  BY <1>0, <1>21 DEF UndoStart, OutsideJob, Exits, PartsAreWanted, JobMatchesNode, Whole
<1>22. CASE AgentMeters
  BY <1>0, <1>22 DEF AgentMeters, PartsAreWanted, JobMatchesNode, Whole
<1>23. CASE UNCHANGED nodeUpdateVars
  BY <1>0, <1>23 DEF nodeUpdateVars, PartsAreWanted, JobMatchesNode, Whole
<1> QED
  BY <1>1, <1>2, <1>3, <1>4, <1>5, <1>6, <1>7, <1>8, <1>9, <1>10, <1>11, <1>12, <1>13, <1>14,
     <1>15, <1>16, <1>17, <1>18, <1>19, <1>20, <1>21, <1>22, <1>23
  DEF NodeUpdateNext

\* Job, rollback and installation keep pace.
LEMMA JobKeepsPace == NodeUpdateInv /\ [NodeUpdateNext]_nodeUpdateVars => JobMatchesNode'
<1> SUFFICES ASSUME NodeUpdateInv, [NodeUpdateNext]_nodeUpdateVars PROVE JobMatchesNode'
  OBVIOUS
<1>0. NodeTypes /\ PartsAreWanted /\ JobMatchesNode
  BY DEF NodeUpdateInv
<1> USE NodeUpdateAssumption
   DEF Nothing, Mixed, Down, NodeTypes, NodeBrokers, NodeScripts, AfterStop,
          Copied, Undoing
<1>1. ASSUME NEW ci \in BOOLEAN, CheckNode(ci) PROVE JobMatchesNode'
  BY <1>0, <1>1 DEF CheckNode, PartsAreWanted, JobMatchesNode, Whole
<1>2. CASE HubMoves
  BY <1>0, <1>2 DEF HubMoves, PartsAreWanted, JobMatchesNode, Whole
<1>3. CASE StartNode
  <2>1. nodeScript.pc = "none"
    BY <1>0, <1>3 DEF StartNode, ReadyCandidate, PartsAreWanted
  <2>2. ~nodeBroken' => Whole
    BY <1>0, <1>3, <2>1 DEF StartNode, JobMatchesNode
  <2>3. Whole' = Whole
    BY <1>3 DEF StartNode, Whole
  <2> QED BY <1>0, <1>3, <2>2, <2>3 DEF StartNode, Idle, JobMatchesNode
<1>4. CASE NodeWorkerRuns
  BY <1>0, <1>4 DEF NodeWorkerRuns, Reported, PartsAreWanted, JobMatchesNode, Whole
<1>5. CASE NodeWorkerEnds
  BY <1>0, <1>5 DEF NodeWorkerEnds, Reported, Idle, PartsAreWanted, JobMatchesNode, Whole
<1>6. CASE NodeBrokerCrash
  BY <1>0, <1>6 DEF NodeBrokerCrash, Idle, NodeFault, PartsAreWanted, JobMatchesNode, Whole
<1>7. CASE NodeBrokerRestart
  BY <1>0, <1>7 DEF NodeBrokerRestart, PartsAreWanted, JobMatchesNode, Whole
<1>8. CASE PrepareNode
  <2>1. CASE nodeScript' = [nodeScript EXCEPT !.pc = "exit", !.ok = FALSE]
    BY <1>0, <1>8, <2>1, NodeNumbers DEF PrepareNode, OutsideJob, JobMatchesNode, Whole
  <2>2. CASE nodeScript' = [nodeScript EXCEPT !.pc = "stop", !.src = source, !.env = venv,
                                              !.meta = identity]
    BY <1>0, <1>8, <2>2 DEF PrepareNode, OutsideJob, JobMatchesNode, Whole
  <2> QED BY <1>8, <2>1, <2>2 DEF PrepareNode, Exits
<1>9. CASE StopAgent
  BY <1>0, <1>9 DEF StopAgent, OutsideJob, PartsAreWanted, JobMatchesNode, Whole
<1>10. CASE StopAgentFails
  BY <1>0, <1>10 DEF StopAgentFails, OutsideJob, Exits, PartsAreWanted, JobMatchesNode, Whole
<1>11. CASE CopyNodeSource
  BY <1>0, <1>11 DEF CopyNodeSource, OutsideJob, Goes, PartsAreWanted, JobMatchesNode, Whole
<1>12. CASE CopyingNodeSource
  BY <1>0, <1>12 DEF CopyingNodeSource, OutsideJob, Goes, PartsAreWanted, JobMatchesNode, Whole
<1>13. CASE RenameAway
  BY <1>0, <1>13 DEF RenameAway, OutsideJob, Goes, PartsAreWanted, JobMatchesNode, Whole
<1>14. CASE RenameIn
  BY <1>0, <1>14 DEF RenameIn, OutsideJob, Goes, PartsAreWanted, JobMatchesNode, Whole
<1>15. CASE StartAgent
  BY <1>0, <1>15 DEF StartAgent, OutsideJob, Goes, PartsAreWanted, JobMatchesNode, Whole
<1>16. CASE WriteIdentity
  BY <1>0, <1>16 DEF WriteIdentity, OutsideJob, Goes, Exits, PartsAreWanted, JobMatchesNode, Whole
<1>17. CASE UndoStop
  BY <1>0, <1>17
     DEF UndoStop, OutsideJob, Attempted, AttemptFails, Goes, PartsAreWanted, JobMatchesNode, Whole
<1>18. CASE UndoSource
  BY <1>0, <1>18
     DEF UndoSource, OutsideJob, UndoParts, Attempted, AttemptFails, Goes, PartsAreWanted,
         JobMatchesNode, Whole
<1>19. CASE UndoVenv
  BY <1>0, <1>19
     DEF UndoVenv, OutsideJob, Attempted, AttemptFails, Goes, PartsAreWanted, JobMatchesNode, Whole
<1>20. CASE UndoIdentity
  BY <1>0, <1>20
     DEF UndoIdentity, OutsideJob, Attempted, AttemptFails, Goes, PartsAreWanted, JobMatchesNode,
         Whole
<1>21. CASE UndoStart
  <2>1. nodeScript'.pc = "exit" /\ ~nodeScript'.ok
    BY <1>0, <1>21 DEF UndoStart, Exits
  <2>2. ASSUME ~nodeBroken' PROVE Whole' /\ source' >= before'
    <3>1. /\ agentRuns = Down /\ source = nodeScript.src /\ venv = nodeScript.env
          /\ identity = nodeScript.meta /\ ~nodeBroken /\ venv # Mixed
          /\ source = venv /\ source = identity /\ source = before
      BY <1>0, <1>21, <2>2 DEF UndoStart, JobMatchesNode, PartsAreWanted
    <3>2. agentRuns' = source
      BY <1>21, <2>2, <3>1 DEF UndoStart
    <3>3. UNCHANGED <<source, venv, identity, before>>
      BY <1>21 DEF UndoStart, OutsideJob
    <3> QED BY <3>3, <1>0, <3>1, <3>2, NodeNumbers DEF Whole
  <2> QED BY <2>1, <2>2 DEF JobMatchesNode
<1>22. CASE AgentMeters
  BY <1>0, <1>22 DEF AgentMeters, PartsAreWanted, JobMatchesNode, Whole
<1>23. CASE UNCHANGED nodeUpdateVars
  BY <1>0, <1>23 DEF nodeUpdateVars, PartsAreWanted, JobMatchesNode, Whole
<1> QED
  BY <1>1, <1>2, <1>3, <1>4, <1>5, <1>6, <1>7, <1>8, <1>9, <1>10, <1>11, <1>12, <1>13, <1>14,
     <1>15, <1>16, <1>17, <1>18, <1>19, <1>20, <1>21, <1>22, <1>23
  DEF NodeUpdateNext

\* No step of the broker, of the job or of the Hub breaks it.
LEMMA NodeUpdateStep == NodeUpdateInv /\ [NodeUpdateNext]_nodeUpdateVars => NodeUpdateInv'
BY NodeUpdateTypes, PartsStayWanted, JobKeepsPace DEF NodeUpdateInv

\* What NodeUpdateInv leaves open of the shapes: the report, the Agent and the bounds.
NodeReports == [st : {"idle", "ready", "blocked", "queued", "running", "success", "failed"},
                c : NodeCommits \union {NodeInstalled, Nothing}]
NodeBounds ==
    /\ nodeReport \in NodeReports /\ agentRuns \in wanted \union {Mixed, Down}
    /\ counted \in 0..MaxMetered /\ nodeJobs \in 0..MaxNodeJobs
    /\ nodeFaults \in 0..NodeUpdateFaults /\ hubMoves \in 0..MaxHubMoves

\* The bounds of the counters hold of every step.
LEMMA NodeCounts ==
    ASSUME NodeBounds, NodeUpdateNext
    PROVE  /\ counted' \in 0..MaxMetered /\ nodeJobs' \in 0..MaxNodeJobs
           /\ nodeFaults' \in 0..NodeUpdateFaults /\ hubMoves' \in 0..MaxHubMoves
<1> DEFINE Counts(n, m, bound) == m = n \/ (n < bound /\ m = n + 1)
<1>1. /\ Counts(counted, counted', MaxMetered) /\ Counts(nodeJobs, nodeJobs', MaxNodeJobs)
      /\ Counts(nodeFaults, nodeFaults', NodeUpdateFaults) /\ Counts(hubMoves, hubMoves', MaxHubMoves)
  <2>1. CASE HubMoves \/ StartNode \/ (\E ci \in BOOLEAN : CheckNode(ci)) \/ NodeWorkerRuns
             \/ NodeWorkerEnds \/ NodeBrokerCrash \/ NodeBrokerRestart \/ AgentMeters
    BY <2>1, Zenon DEF HubMoves, StartNode, CheckNode, NodeWorkerRuns, NodeWorkerEnds,
       NodeBrokerCrash,
       NodeBrokerRestart, AgentMeters, NodeFault
  <2>2. CASE PrepareNode \/ StopAgent \/ StopAgentFails \/ CopyNodeSource \/ CopyingNodeSource
             \/ RenameAway \/ RenameIn \/ StartAgent \/ WriteIdentity
    BY <2>2, Zenon DEF PrepareNode, StopAgent, StopAgentFails, CopyNodeSource, CopyingNodeSource,
       RenameAway, RenameIn, StartAgent, WriteIdentity, NodeFault, OutsideJob
  <2>3. CASE UndoStop \/ UndoSource \/ UndoVenv \/ UndoIdentity \/ UndoStart
    BY <2>3, Zenon DEF UndoStop, UndoSource, UndoVenv, UndoIdentity, UndoStart, Attempted,
       AttemptFails, NodeFault, OutsideJob
  <2> QED BY <2>1, <2>2, <2>3 DEF NodeUpdateNext
<1>2. \A bound \in Nat : \A n \in 0..bound : \A m : Counts(n, m, bound) => m \in 0..bound
  OBVIOUS
<1>3. /\ MaxMetered \in Nat /\ MaxNodeJobs \in Nat /\ NodeUpdateFaults \in Nat /\ MaxHubMoves \in Nat
      /\ counted \in 0..MaxMetered /\ nodeJobs \in 0..MaxNodeJobs
      /\ nodeFaults \in 0..NodeUpdateFaults /\ hubMoves \in 0..MaxHubMoves
  BY NodeUpdateAssumption DEF NodeBounds
<1> HIDE DEF Counts
<1> QED BY <1>1, <1>2, <1>3

\* The Agent is only ever started from the source.
LEMMA AgentIsStarted ==
    ASSUME NodeUpdateNext
    PROVE  wanted \subseteq wanted' /\ agentRuns' \in {agentRuns, source, Down}
<1>1. CASE HubMoves \/ StartNode \/ (\E ci \in BOOLEAN : CheckNode(ci)) \/ NodeWorkerRuns
           \/ NodeWorkerEnds \/ NodeBrokerCrash \/ NodeBrokerRestart \/ AgentMeters
  BY <1>1 DEF HubMoves, StartNode, CheckNode, NodeWorkerRuns, NodeWorkerEnds, NodeBrokerCrash,
     NodeBrokerRestart, AgentMeters
<1>2. CASE PrepareNode \/ StopAgent \/ StopAgentFails \/ CopyNodeSource \/ CopyingNodeSource
           \/ RenameAway \/ RenameIn \/ StartAgent \/ WriteIdentity
  BY <1>2 DEF PrepareNode, StopAgent, StopAgentFails, CopyNodeSource, CopyingNodeSource,
     RenameAway, RenameIn, StartAgent, WriteIdentity, OutsideJob
<1>3. CASE UndoStop \/ UndoSource \/ UndoVenv \/ UndoIdentity \/ UndoStart
  BY <1>3 DEF UndoStop, UndoSource, UndoVenv, UndoIdentity, UndoStart, OutsideJob
<1> QED BY <1>1, <1>2, <1>3 DEF NodeUpdateNext

\* A report names a state the broker knows.
LEMMA ReportsAreKnown ==
    ASSUME NodeTypes, NodeBounds, NodeUpdateNext PROVE nodeReport' \in NodeReports
<1>0. /\ nodeReport \in NodeReports /\ nodeBroker.c \in NodeCommits \union {NodeInstalled, Nothing}
      /\ hubAt \in NodeCommits \union {NodeInstalled}
  BY DEF NodeTypes, NodeBounds, NodeBrokers
<1>1. CASE HubMoves \/ NodeBrokerCrash \/ AgentMeters
  BY <1>0, <1>1 DEF HubMoves, NodeBrokerCrash, AgentMeters
<1>4. CASE StartNode \/ \E ci \in BOOLEAN : CheckNode(ci)
  <2>1. \E st \in {"ready", "blocked", "queued"} : nodeReport' = [st |-> st, c |-> hubAt]
    BY <1>4 DEF StartNode, CheckNode
  <2> QED BY <1>0, <2>1 DEF NodeReports
<1>5. CASE NodeWorkerRuns \/ NodeWorkerEnds
  <2>1. \E st \in {"running", "success", "failed"} : nodeReport' = [st |-> st, c |-> nodeBroker.c]
    BY <1>5 DEF NodeWorkerRuns, NodeWorkerEnds, Reported
  <2> QED BY <1>0, <2>1 DEF NodeReports
<1>6. CASE NodeBrokerRestart
  BY <1>0, <1>6 DEF NodeBrokerRestart, NodeReports
<1>2. CASE PrepareNode \/ StopAgent \/ StopAgentFails \/ CopyNodeSource \/ CopyingNodeSource
           \/ RenameAway \/ RenameIn \/ StartAgent \/ WriteIdentity
  BY <1>0, <1>2 DEF PrepareNode, StopAgent, StopAgentFails, CopyNodeSource, CopyingNodeSource,
     RenameAway, RenameIn, StartAgent, WriteIdentity, OutsideJob
<1>3. CASE UndoStop \/ UndoSource \/ UndoVenv \/ UndoIdentity \/ UndoStart
  BY <1>0, <1>3 DEF UndoStop, UndoSource, UndoVenv, UndoIdentity, UndoStart, OutsideJob
<1> QED BY <1>1, <1>2, <1>3, <1>4, <1>5, <1>6 DEF NodeUpdateNext

\* Together they are inductive, and give the shapes the runs check.
LEMMA NodeBoundsHold ==
    /\ NodeUpdateInit => NodeBounds
    /\ NodeUpdateInv /\ NodeBounds /\ [NodeUpdateNext]_nodeUpdateVars => NodeBounds'
    /\ NodeUpdateInv /\ NodeBounds => NodeUpdateTypeOK
<1>1. NodeUpdateInit => NodeBounds
  BY NodeUpdateAssumption DEF NodeUpdateInit, NodeBounds, NodeReports
<1>2. ASSUME NodeUpdateInv, NodeBounds, NodeUpdateNext PROVE NodeBounds'
  <2>1. source \in wanted \union {Mixed}
    BY <1>2 DEF NodeUpdateInv, PartsAreWanted
  <2>2. NodeTypes
    BY <1>2 DEF NodeUpdateInv
  <2> QED BY <1>2, <2>1, <2>2, NodeCounts, AgentIsStarted, ReportsAreKnown DEF NodeBounds
<1>3. ASSUME NodeUpdateInv, NodeBounds PROVE NodeUpdateTypeOK
  BY <1>3 DEF NodeUpdateInv, NodeBounds, NodeTypes, NodeBrokers, NodeReports, PartsAreWanted,
     NodeUpdateTypeOK
<1> QED BY <1>1, <1>2, <1>3 DEF nodeUpdateVars, NodeBounds

-----------------------------------------------------------------------------
(* The theorems *)

\* The protocols of a Node's life.
PartIsKnown ==
    part \in {"commands", "replacement", "activation", "pairing", "update", "configuration",
              "store", "generation"}

\* Each part of a Node's life leaves the rows of the others as they are.
LEMMA PartsAreDisjoint ==
    [LifecycleNext]_lifecycleVars =>
        /\ [Next]_vars /\ [R!ReplacementNext]_rVars /\ [P!PairNext]_pVars
        /\ [A!ActivationNext]_aVars /\ [NodeUpdateNext]_nodeUpdateVars
        /\ [D!DesiredNext]_dVars /\ [C!StoreNext]_cVars /\ [H!RuntimeNext]_hVars
BY DEF LifecycleNext, lifecycleVars, Commanding, Replacing, Activating, Pairing, Updating,
   Configuring, Storing, Running, OutOfBounds

\* What the Hub has journaled of a replacement bounds every worker, request and machine,
\* for every number of attempts, threads and requests.
THEOREM TakeoverIsJournaled == LifecycleSpec => []TakeoverInv
<1>1. LifecycleInit => TakeoverInv
  BY TakeoverInit DEF LifecycleInit
<1>2. TakeoverInv /\ [LifecycleNext]_lifecycleVars => TakeoverInv'
  BY TakeoverStep, PartsAreDisjoint
<1> QED BY <1>1, <1>2, PTL DEF LifecycleSpec

\* The same for a pairing, its withdrawal, and the handoff of a token.
THEOREM AccessIsJournaled == LifecycleSpec => []AccessInv
<1>1. LifecycleInit => AccessInv
  BY AccessInit DEF LifecycleInit
<1>2. AccessInv /\ [LifecycleNext]_lifecycleVars => AccessInv'
  BY AccessStep, PartsAreDisjoint
<1> QED BY <1>1, <1>2, PTL DEF LifecycleSpec

\* Whatever is lost, late or given up, the Hub keeps a credential of every machine it
\* bound or prepares, and a machine it has discarded stays stopped and revoked.
THEOREM TakeoverHolds == LifecycleSpec => []TakeoverIsSafe
<1>1. TakeoverInv /\ AccessInv => TakeoverIsSafe
  BY DEF TakeoverInv, AccessInv, TakeoverIsSafe
<1> QED BY <1>1, TakeoverIsJournaled, AccessIsJournaled, PTL

\* The binding moves to a machine that was proved to hold the candidate token, idle and
\* unused, and no step of a replacement stops a machine that serves.
THEOREM SwitchesAreProven == LifecycleSpec => R!SwitchIsProven
<1>1. TakeoverInv /\ [LifecycleNext]_lifecycleVars =>
        [/\ bind' # bind =>
               /\ bind.gen = journal.src /\ journal.phase = "prepared"
               /\ bind'.at = journal.a
               /\ machine[journal.a] =
                      [token |-> "candidate", running |-> FALSE, used |-> FALSE]
         /\ \A a \in Attempts :
               machine[a].used /\ machine[a].running => machine'[a].running]_(R!replacementVars)
  BY SwitchStep, PartsAreDisjoint
<1> QED BY <1>1, TakeoverIsJournaled, PTL DEF LifecycleSpec, R!SwitchIsProven

\* The operation of an activation follows its row, and commands and configurations reach
\* the server in the order of their revisions, for every number of edits and commands.
THEOREM ActivationIsOrdered == LifecycleSpec => []ActivationInv
<1>1. LifecycleInit => ActivationInv
  BY ActivationInit DEF LifecycleInit
<1>2. ActivationInv /\ [LifecycleNext]_lifecycleVars => ActivationInv'
  BY ActivationStep, PartsAreDisjoint
<1> QED BY <1>1, <1>2, PTL DEF LifecycleSpec

\* While the hold is on no edit or ordinary command brings the server up, a pause that has
\* begun can be acknowledged, and a Start starts the core once.
THEOREM ActivationIsHeld == LifecycleSpec => []ActivationHolds
<1>1. ActivationInv => ActivationHolds
  BY DEF ActivationInv, ActivationHolds
<1> QED BY <1>1, ActivationIsOrdered, PTL

\* The machine that takes over was proved before the binding moves to it, and the Node is
\* activated with the configuration and the Start that were reviewed.
THEOREM TakeoversAreReviewed == LifecycleSpec => TakeoverIsReviewed
<1>1. ActivationInv /\ [LifecycleNext]_lifecycleVars =>
        [act.phase = "starting" /\ act'.phase = "activated" =>
            /\ server.cfg = act.des /\ server.rev = act.start
            /\ desired = [v |-> act.des, applied |-> act.des] /\ conf.src = act.src
            /\ command.act = "start" /\ command.rev = act.start]_(A!activationVars)
  BY ActivatedStep, PartsAreDisjoint
<1>2. LifecycleSpec => A!ActivatedAsReviewed
  BY <1>1, ActivationIsOrdered, PTL DEF LifecycleSpec, A!ActivatedAsReviewed
<1> QED BY <1>2, SwitchesAreProven DEF TakeoverIsReviewed

\* node_updated.py and update_node.py: a Node carries only green commits of its Hub; a job
\* that is over, and did not call for help, leaves one commit in source, environment,
\* identity and Agent, never an older one; no update takes a metered byte with it.
THEOREM NodeUpdatesHold == NodeUpdateSpec => []NodeUpdatesAreSafe
<1>1. NodeUpdateInv => NodeUpdatesAreSafe
  BY DEF NodeUpdateInv, NodeTypes, PartsAreWanted, JobMatchesNode, NodeUpdatesAreSafe
<1> QED BY <1>1, NodeUpdateInitInv, NodeUpdateStep, PTL DEF NodeUpdateSpec

\* NodeDesired: revisions, rows and core keep to the order in which the Hub named them, for
\* every set of inbounds and every number of edits, failures, lost and late requests.
THEOREM DeliveryIsOrdered == LifecycleSpec => []DeliveryInv
<1>1. LifecycleInit => DeliveryInv
  BY DeliveryInit DEF LifecycleInit
<1>2. DeliveryInv /\ [LifecycleNext]_lifecycleVars => DeliveryInv'
  BY DeliveryStep, PartsAreDisjoint
<1> QED BY <1>1, <1>2, PTL DEF LifecycleSpec

\* What the Hub holds for applied is what the Node carries, and a route is offered over a
\* Node only where its inbound is in that configuration and no refusal is pending.
THEOREM DesiredStateIsServed == LifecycleSpec => []DesiredStateHolds
<1>1. DeliveryInv => DesiredStateHolds
  BY DeliveryShows DEF DesiredStateHolds
<1> QED BY <1>1, DeliveryIsOrdered, PTL

\* ConfigStore: whatever handlers commit or leave undone, for all inbounds, ports and customers.
THEOREM StoreStaysClosed == LifecycleSpec => []StoreInv
<1>1. LifecycleInit => StoreInv
  BY StoreInitHolds DEF LifecycleInit
<1>2. StoreInv /\ [LifecycleNext]_lifecycleVars => StoreInv'
  BY StoreStep, PartsAreDisjoint
<1> QED BY <1>1, <1>2, PTL DEF LifecycleSpec

\* HubRuntime: the core runs one generation however passes, owners and requests meet.
THEOREM GenerationIsOne == LifecycleSpec => []GenerationInv
<1>1. LifecycleInit => GenerationInv
  BY GenerationInit DEF LifecycleInit
<1>2. GenerationInv /\ [LifecycleNext]_lifecycleVars => GenerationInv'
  BY GenerationStep, PartsAreDisjoint
<1> QED BY <1>1, <1>2, PTL DEF LifecycleSpec

\* The stored configuration has no dangling reference and no two listeners on a port, and
\* what the core runs is what is on disk and what its hash names.
THEOREM HubConfigurationIsSound == LifecycleSpec => []HubConfigurationHolds
<1>1. StoreInv /\ GenerationInv => HubConfigurationHolds
  BY StoreShows, GenerationShows DEF HubConfigurationHolds
<1> QED BY <1>1, StoreStaysClosed, GenerationIsOne, PTL

\* Every row and message of every protocol of a Node's life keeps its type.
THEOREM LifecycleTypes == LifecycleSpec => []LifecycleTypeOK
<1>1. LifecycleSpec => []Inv
  <2>1. LifecycleInit => Inv
    BY InitType, InitHistory DEF LifecycleInit, Inv
  <2>2. Inv /\ [LifecycleNext]_lifecycleVars => Inv'
    BY PartsAreDisjoint, TypeInv, NextHistory, NextControl DEF Inv
  <2> QED BY <2>1, <2>2, PTL DEF LifecycleSpec
<1>2. LifecycleSpec => [](NodeUpdateInv /\ NodeBounds)
  <2>1. LifecycleInit => NodeUpdateInv /\ NodeBounds
    BY NodeUpdateInitInv, NodeBoundsHold DEF LifecycleInit
  <2>2. NodeUpdateInv /\ NodeBounds /\ [LifecycleNext]_lifecycleVars
           => NodeUpdateInv' /\ NodeBounds'
    BY PartsAreDisjoint, NodeUpdateStep, NodeBoundsHold
  <2> QED BY <2>1, <2>2, PTL DEF LifecycleSpec
<1>3. LifecycleSpec => []PartIsKnown
  <2>1. LifecycleInit => PartIsKnown
    BY DEF LifecycleInit, PartIsKnown
  <2>2. PartIsKnown /\ [LifecycleNext]_lifecycleVars => PartIsKnown'
    BY DEF LifecycleNext, lifecycleVars, Commanding, Replacing, Activating, Pairing, Updating,
       Configuring, Storing, Running, OutOfBounds, PartIsKnown
  <2> QED BY <2>1, <2>2, PTL DEF LifecycleSpec
<1>4. /\ Inv /\ NodeUpdateInv /\ NodeBounds /\ PartIsKnown /\ TakeoverInv /\ AccessInv
      /\ ActivationInv /\ DeliveryInv /\ StoreInv /\ GenerationInv
      => LifecycleTypeOK
  <2>1. Inv => TypeOK
    BY DEF Inv
  <2>2. TakeoverInv => R!ReplacementTypeOK
    BY DEF TakeoverInv
  <2>3. AccessInv => P!PairTypeOK
    BY DEF AccessInv
  <2>4. ActivationInv => A!ActivationTypeOK
    BY DEF ActivationInv
  <2> QED BY <2>1, <2>2, <2>3, <2>4, NodeBoundsHold, DeliveryShows, StoreShows, GenerationShows
       DEF LifecycleTypeOK, PartIsKnown
<1> QED BY <1>1, <1>2, <1>3, <1>4, TakeoverIsJournaled, AccessIsJournaled, ActivationIsOrdered,
     DeliveryIsOrdered, StoreStaysClosed, GenerationIsOne, PTL

=============================================================================
