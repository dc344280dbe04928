------------------------------ MODULE NodePairing ------------------------------
(***************************************************************************)
(* Who holds a Node Agent's token: first pairing by Pair Code              *)
(* (node_pairing.py), its withdrawal (node_pairing_cancellation.py) and    *)
(* the owner's token handoff (node_credentials.py).  Every POST may arrive *)
(* late or never, every reply may be lost, a worker may stop at any step;  *)
(* workers are fenced only by the operation revision they have written.    *)
(***************************************************************************)
EXTENDS Integers, FiniteSets

CONSTANTS
    Pairings,       \* attempts at pairing the one machine, 1..n
    OwnTokens,      \* tokens the owner may choose
    PairWorkers,    \* handlers of retry and cancel
    MaxPairRevision \* bound on operation_revision

VARIABLES
    pairing,    \* the row of remote_node_pairings; a = 0: none
    pairEnd,    \* remote_node_pair_history and remote_node_pair_cancellations
    hubToken,   \* remote_nodes.token_enc; None: not registered
    handoff,    \* the pending row of remote_node_credentials; phase "none": none
    spent,      \* tokens recorded as original or candidate of this binding
    agent,      \* the Agent: token, core running, still unassigned
    posts,      \* POST requests on their way
    task        \* what each worker is about to do, with the row it has read

pairVars == <<pairing, pairEnd, hubToken, handoff, spent, agent, posts, task>>

None == <<"none", 0>>
Boot == <<"boot", 0>>
Foreign == <<"foreign", 0>>
Candidate(a) == <<"candidate", a>>
Disposal(a) == <<"disposal", a>>
Owned == {<<"own", k>> : k \in OwnTokens}

NoPairing == [a |-> 0, phase |-> "pending", res |-> "none", rev |-> 0, known |-> FALSE]
NoHandoff == [from |-> None, to |-> None, phase |-> "none", rev |-> 0]
NoTask == [kind |-> "none", a |-> 0, pc |-> "idle", rev |-> 0, cred |-> None, new |-> None]

PairInit ==
    /\ pairing = NoPairing
    /\ pairEnd = [a \in Pairings |-> "none"]
    /\ hubToken = None
    /\ handoff = NoHandoff
    /\ spent = {}
    /\ agent \in [token : {Boot}, running : BOOLEAN, fresh : {TRUE}]
    /\ posts = {}
    /\ task = [w \in PairWorkers |-> NoTask]

Goto(w, pc) == task' = [task EXCEPT ![w].pc = pc]

\* _assert of both coordinators: the revision the worker has written is the latest,
\* and the row, the target and the registered token are those it has read.
Current(w) ==
    IF task[w].kind = "handoff"
    THEN /\ handoff.to = task[w].new /\ handoff.rev = task[w].rev
         /\ hubToken = handoff.from
    ELSE /\ pairing.a = task[w].a /\ pairing.rev = task[w].rev
         /\ hubToken = None

\* A GET answered with the health of the pinned installation.  _health of the
\* pairing insists on an Agent that nobody has assigned anything.
Healthy(w, cred) ==
    /\ Current(w) /\ agent.token = cred
    /\ task[w].kind # "handoff" => agent.fresh

Refused(w, cred) == Current(w) /\ agent.token # cred

Send(w, do) ==
    posts' = posts \union {[do |-> do, cred |-> task[w].cred, new |-> task[w].new, by |-> w,
                            rev |-> task[w].rev]}

---------------------------------------------------------------------------
(* Pairing *)

BeginPairing(a) ==
    /\ pairing.a = 0 /\ pairEnd[a] = "none" /\ hubToken = None
    /\ pairing' = [NoPairing EXCEPT !.a = a]
    /\ UNCHANGED <<pairEnd, hubToken, handoff, spent, agent, posts, task>>

StartPairing(w, kind, pc, new, row) ==
    /\ task[w] = NoTask
    /\ pairing' = [row EXCEPT !.rev = @ + 1]
    /\ task' = [task EXCEPT ![w] = [kind |-> kind, a |-> pairing.a, pc |-> pc,
                                    rev |-> pairing.rev + 1, cred |-> Boot, new |-> new]]
    /\ UNCHANGED <<pairEnd, hubToken, handoff, spent, agent, posts>>

RetryPairing(w) ==
    /\ pairing.a # 0 /\ pairing.res = "none" /\ pairing.rev < MaxPairRevision
    /\ StartPairing(w, "pair", IF pairing.known THEN "try" ELSE "learn",
                    Candidate(pairing.a), pairing)

LearnIdentity(w) ==
    /\ task[w].pc = "learn" /\ Healthy(w, Boot)
    /\ pairing' = [pairing EXCEPT !.known = TRUE]
    /\ Goto(w, "try")
    /\ UNCHANGED <<pairEnd, hubToken, handoff, spent, agent, posts>>

\* Both coordinators: the candidate first, since an earlier rotation may have gone
\* through.  Only a 401 allows the earlier credential.
TryCandidate(w) ==
    /\ task[w].pc = "try"
    /\ \/ Healthy(w, task[w].new) /\ Goto(w, "publish")
       \/ Refused(w, task[w].new) /\ Goto(w, "earlier")
    /\ UNCHANGED <<pairing, pairEnd, hubToken, handoff, spent, agent, posts>>

\* The phase is committed before the request is sent.
MarkRotating(w) ==
    /\ task[w].pc = "earlier" /\ Healthy(w, task[w].cred)
    /\ IF task[w].kind = "pair"
       THEN pairing' = [pairing EXCEPT !.phase = "rotating"] /\ UNCHANGED handoff
       ELSE handoff' = [handoff EXCEPT !.phase = "rotating"] /\ UNCHANGED pairing
    /\ Goto(w, "rotate")
    /\ UNCHANGED <<pairEnd, hubToken, spent, agent, posts>>

RotateSend(w) ==
    /\ task[w].pc = "rotate" /\ Current(w)
    /\ Send(w, IF task[w].kind = "handoff" THEN "rotate" ELSE "rotateFresh")
    /\ Goto(w, "rotateSent")
    /\ UNCHANGED <<pairing, pairEnd, hubToken, handoff, spent, agent>>

\* The new credential is proved by a request of its own.
RotateProve(w) ==
    /\ task[w].pc = "prove" /\ task[w].kind # "cancel" /\ Healthy(w, task[w].new)
    /\ Goto(w, "publish")
    /\ UNCHANGED <<pairing, pairEnd, hubToken, handoff, spent, agent, posts>>

\* _finish, one transaction; a cancellation under way refuses it.
PublishPairing(w) ==
    /\ task[w].pc = "publish" /\ task[w].kind = "pair" /\ Current(w)
    /\ pairing.res = "none"
    /\ hubToken' = task[w].new
    /\ pairEnd' = [pairEnd EXCEPT ![task[w].a] = "paired"]
    /\ pairing' = NoPairing
    /\ task' = [task EXCEPT ![w] = NoTask]
    /\ UNCHANGED <<handoff, spent, agent, posts>>

---------------------------------------------------------------------------
(* Withdrawal *)

\* A rotation was never sent: no contact, one transaction.
Withdraw ==
    /\ pairing.a # 0 /\ pairing.phase = "pending" /\ pairing.res = "none"
    /\ pairEnd' = [pairEnd EXCEPT ![pairing.a] = "withdrawn"]
    /\ pairing' = NoPairing
    /\ UNCHANGED <<hubToken, handoff, spent, agent, posts, task>>

CancelPairing(w) ==
    /\ pairing.a # 0 /\ pairing.phase = "rotating" /\ pairing.known
    /\ pairing.rev < MaxPairRevision
    /\ StartPairing(w, "cancel", "probe", Disposal(pairing.a),
                    [pairing EXCEPT !.res = "cancelling"])

\* The first of the three journaled credentials that is not refused; the disposal
\* token replaces any other before anything else is done.
ProbeForDisposal(w) ==
    /\ task[w].pc = "probe"
    /\ \E cred \in {Disposal(task[w].a), Candidate(task[w].a), Boot} :
          /\ Healthy(w, cred)
          /\ task' = [task EXCEPT ![w].cred = cred,
                          ![w].pc = IF cred = task[w].new THEN "prove" ELSE "rotate"]
    /\ UNCHANGED <<pairing, pairEnd, hubToken, handoff, spent, agent, posts>>

IdleCheck(w) ==
    /\ task[w].pc = "prove" /\ task[w].kind = "cancel" /\ Healthy(w, task[w].new)
    /\ task' = [task EXCEPT ![w].pc = IF agent.running THEN "stop" ELSE "revoked",
                            ![w].cred = task[w].new]
    /\ UNCHANGED <<pairing, pairEnd, hubToken, handoff, spent, agent, posts>>

IdleSend(w) ==
    /\ task[w].pc = "stop" /\ Current(w)
    /\ Send(w, "idle")
    /\ Goto(w, "idleSent")
    /\ UNCHANGED <<pairing, pairEnd, hubToken, handoff, spent, agent>>

\* Each earlier credential gets a 401, then the Agent is asked once more.
RevokedCheck(w) ==
    /\ task[w].pc = "revoked"
    /\ Refused(w, Candidate(task[w].a)) /\ Refused(w, Boot) /\ Healthy(w, task[w].new)
    /\ Goto(w, "discard")
    /\ UNCHANGED <<pairing, pairEnd, hubToken, handoff, spent, agent, posts>>

DiscardPairing(w) ==
    /\ task[w].pc = "discard" /\ Current(w)
    /\ pairEnd' = [pairEnd EXCEPT ![task[w].a] = "discarded"]
    /\ pairing' = NoPairing
    /\ task' = [task EXCEPT ![w] = NoTask]
    /\ UNCHANGED <<hubToken, handoff, spent, agent, posts>>

---------------------------------------------------------------------------
(* Handoff of a registered Node's token *)

\* Faulty variant: a token this binding has used before is taken again.
RecyclingBegin(new) ==
    /\ hubToken # None /\ handoff.phase = "none" /\ new # hubToken
    /\ handoff' = [from |-> hubToken, to |-> new, phase |-> "pending", rev |-> 0]
    /\ spent' = spent \union {hubToken, new}
    /\ UNCHANGED <<pairing, pairEnd, hubToken, agent, posts, task>>

BeginHandoff(new) ==
    /\ hubToken # None /\ handoff.phase = "none" /\ new # hubToken
    /\ new \notin spent
    /\ handoff' = [from |-> hubToken, to |-> new, phase |-> "pending", rev |-> 0]
    /\ spent' = spent \union {hubToken, new}
    /\ UNCHANGED <<pairing, pairEnd, hubToken, agent, posts, task>>

RetryHandoff(w) ==
    /\ handoff.phase # "none" /\ task[w] = NoTask /\ handoff.rev < MaxPairRevision
    /\ handoff' = [handoff EXCEPT !.rev = @ + 1]
    /\ task' = [task EXCEPT ![w] = [kind |-> "handoff", a |-> 0, pc |-> "try",
                  rev |-> handoff.rev + 1, cred |-> handoff.from, new |-> handoff.to]]
    /\ UNCHANGED <<pairing, pairEnd, hubToken, spent, agent, posts>>

\* _finish: the registered token and the end of the journal in one transaction.
PublishHandoff(w) ==
    /\ task[w].pc = "publish" /\ task[w].kind = "handoff" /\ Current(w)
    /\ hubToken' = task[w].new
    /\ handoff' = NoHandoff
    /\ task' = [task EXCEPT ![w] = NoTask]
    /\ UNCHANGED <<pairing, pairEnd, spent, agent, posts>>

\* A timeout, a refusal, a superseded revision, or the end of the Hub process.
GiveUp(w) ==
    /\ task[w] # NoTask
    /\ task' = [task EXCEPT ![w] = NoTask]
    /\ UNCHANGED <<pairing, pairEnd, hubToken, handoff, spent, agent, posts>>

---------------------------------------------------------------------------
(* The machine *)

Answered(m, pc, next) ==
    /\ posts' = posts \ {m}
    /\ \/ /\ task[m.by].pc = pc /\ task[m.by].rev = m.rev /\ task[m.by].new = m.new
          /\ Goto(m.by, next)
       \/ UNCHANGED task
    /\ UNCHANGED <<pairing, pairEnd, hubToken, handoff, spent>>

\* The bearer is checked again under the engine lock; the guarded route also checks
\* that the Agent is still unassigned.
AgentRotates(m) ==
    /\ m.do \in {"rotate", "rotateFresh"} /\ agent.token = m.cred
    /\ m.do = "rotateFresh" => agent.fresh
    /\ agent' = [agent EXCEPT !.token = m.new]
    /\ Answered(m, "rotateSent", "prove")

AgentIdles(m) ==
    /\ m.do = "idle" /\ agent.token = m.cred /\ agent.fresh
    /\ agent' = [agent EXCEPT !.running = FALSE]
    /\ Answered(m, "idleSent", "prove")

PostLost(m) ==
    /\ posts' = posts \ {m}
    /\ UNCHANGED <<pairing, pairEnd, hubToken, handoff, spent, agent, task>>

\* Another Hub used the Pair Code first.
TakenElsewhere ==
    /\ agent.token = Boot
    /\ agent' = [token |-> Foreign, running |-> TRUE, fresh |-> FALSE]
    /\ UNCHANGED <<pairing, pairEnd, hubToken, handoff, spent, posts, task>>

\* The registered Node gets its configuration.
PutToUse ==
    /\ agent.token = hubToken /\ agent.fresh
    /\ agent' = [agent EXCEPT !.fresh = FALSE, !.running = TRUE]
    /\ UNCHANGED <<pairing, pairEnd, hubToken, handoff, spent, posts, task>>

PairNext ==
    \/ \E a \in Pairings : BeginPairing(a)
    \/ \E t \in Owned : BeginHandoff(t)
    \/ Withdraw \/ TakenElsewhere \/ PutToUse
    \/ \E w \in PairWorkers :
          \/ RetryPairing(w) \/ LearnIdentity(w) \/ TryCandidate(w) \/ MarkRotating(w)
          \/ RotateSend(w) \/ RotateProve(w) \/ PublishPairing(w)
          \/ CancelPairing(w) \/ ProbeForDisposal(w) \/ IdleCheck(w) \/ IdleSend(w)
          \/ RevokedCheck(w) \/ DiscardPairing(w)
          \/ RetryHandoff(w) \/ PublishHandoff(w) \/ GiveUp(w)
    \/ \E m \in posts : AgentRotates(m) \/ AgentIdles(m) \/ PostLost(m)

PairSpec == PairInit /\ [][PairNext]_pairVars

---------------------------------------------------------------------------
PairTokens == {None, Boot, Foreign} \union Owned
              \union {Candidate(a) : a \in Pairings} \union {Disposal(a) : a \in Pairings}

PairTypeOK ==
    /\ pairing \in [a : Pairings \union {0}, phase : {"pending", "rotating"},
                    res : {"none", "cancelling"}, rev : Nat, known : BOOLEAN]
    /\ pairEnd \in [Pairings -> {"none", "paired", "withdrawn", "discarded"}]
    /\ hubToken \in PairTokens
    /\ handoff \in [from : PairTokens, to : PairTokens,
                    phase : {"none", "pending", "rotating"}, rev : Nat]
    /\ spent \subseteq PairTokens
    /\ agent \in [token : PairTokens, running : BOOLEAN, fresh : BOOLEAN]
    /\ posts \subseteq [do : {"rotate", "rotateFresh", "idle"}, cred : PairTokens,
                        new : PairTokens, by : PairWorkers, rev : Nat]
    /\ task \in [PairWorkers ->
           [kind : {"none", "pair", "cancel", "handoff"}, a : Pairings \union {0},
            pc : {"idle", "learn", "try", "earlier", "rotate", "rotateSent", "prove",
                  "publish", "probe", "stop", "idleSent", "revoked", "discard"},
            rev : Nat, cred : PairTokens, new : PairTokens]]

\* Whatever is lost or arrives late, the Hub never loses the Agent: the registered
\* token, or one the journal keeps, authenticates; and where nothing was kept, the
\* Pair Code still does.
HubKeepsAccess ==
    \/ agent.token = Foreign
    \/ \E a \in Pairings : pairEnd[a] = "discarded"
    \/ agent.token \in
          IF handoff.phase # "none" THEN {handoff.from, handoff.to}
          ELSE IF hubToken # None THEN {hubToken}
          ELSE IF pairing.a = 0 THEN {Boot}
          ELSE {Boot, Candidate(pairing.a)}
               \union (IF pairing.res = "cancelling" THEN {Disposal(pairing.a)} ELSE {})

\* A machine whose pairing was discarded stays stopped and refuses the Pair Code and
\* the candidate token, also to requests that were under way.
DiscardedPairingIsRevoked ==
    \A a \in Pairings : pairEnd[a] = "discarded" =>
        agent.token = Disposal(a) /\ ~agent.running /\ hubToken = None
=============================================================================
