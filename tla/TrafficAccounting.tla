-------------------------- MODULE TrafficAccounting --------------------------
(***************************************************************************)
(* Metering of one client on the Hub and on its Nodes, and the traffic     *)
(* reset that walks over all of them.                                      *)
(*                                                                         *)
(* Every Node counts the client's bytes; the Hub reads the counters, works *)
(* out deltas against the last reading and charges them to a ledger        *)
(* (backend/nodes.py).  A reset is one operation of the client manager     *)
(* (backend/manager.py): it resets each Node under one identity, which the *)
(* Agent remembers with the final counter (backend/node_agent.py,          *)
(* backend/node_runtime.py), then the Hub's own Xray, and is retried from  *)
(* the start when a step fails.                                            *)
(*                                                                         *)
(* Up- and download are one counter.  A reading is a pair: its value and,  *)
(* for the properties only, the position from which its counter counts.    *)
(***************************************************************************)
EXTENDS Integers, FiniteSets, Functions

CONSTANTS
    Nodes, NoNode,  \* Nodes that serve the client
    Readers,        \* concurrent callers of sync_traffic (monitor, operator)
    Ids, NoId,      \* identities of reset operations (secrets.token_hex)
    MaxBytes,       \* bound on the bytes metered altogether
    MaxFaults       \* bound on lost calls, crashes and failures

ASSUME AccountingAssumption ==
    /\ NoId \notin Ids /\ NoNode \notin Nodes
    /\ IsFiniteSet(Nodes) /\ Nodes # {}
    /\ MaxBytes \in Nat /\ MaxFaults \in Nat

VARIABLES
    counter,        \* Agent: core_clients.up of the mirrored client
    base,           \* history: bytes metered before that counter was reset
    starts,         \* history: every position a counter of the Node started at
    remembered,     \* Agent: node_runtime_traffic_resets
    exec,           \* Agent: the reset handler between its two transactions
    late,           \* reset requests whose caller gave up, still on their way
    row,            \* Hub: remote_node_client_usage of each Node
    charged,        \* Hub: traffic_ledger, summed per Node
    adopted,        \* history: position of the uncharged first reading
    order,          \* history: how the readings of a Node have been applied
    sync,           \* sync_traffic calls that have an answer not yet applied
    mgr,            \* the manager thread that holds manager.lock
    op,             \* managed_clients: the client's pending operation
    local, last,    \* Hub: its own Xray's counter, and as last charged
    localTotal, localCharged,
    used,           \* Hub: clients.used_bytes, what quotas are enforced on
    issued,         \* history: identities in use
    faults

agentVars == <<counter, base, starts, remembered, exec>>
rowVars   == <<row, charged, adopted, order>>
localVars == <<local, localTotal>>
meterVars == <<last, localCharged, used>>
vars == <<agentVars, late, rowVars, sync, mgr, op, localVars, meterVars, issued, faults>>

Reset    == [id: Ids, from: Nat, value: Nat]
Request  == [node: Nodes, id: Ids]
Row      == [init: BOOLEAN, raw: Nat, current: Nat, from: Nat]
Exec     == [busy: BOOLEAN, live: BOOLEAN, id: Ids \cup {NoId}, from: Nat, value: Nat]
FreeExec == [busy |-> FALSE, live |-> FALSE, id |-> NoId, from |-> 0, value |-> 0]
MaybeNode == Nodes \cup {NoNode}
Reading  == [at: {"idle", "read"}, node: MaybeNode, from: Nat, value: Nat]
NoRead   == [at |-> "idle", node |-> NoNode, from |-> 0, value |-> 0]
Manager  == [at: {"idle", "tick", "begin", "next", "sent", "executing", "answered", "applied",
                  "charge", "zero", "settle"},
             resolve: BOOLEAN, todo: SUBSET Nodes, node: MaybeNode, from: Nat,
             value: Nat, seen: Nat]
IdleMgr  == [at |-> "idle", resolve |-> FALSE, todo |-> {}, node |-> NoNode,
             from |-> 0, value |-> 0, seen |-> 0]
Op       == [id: Ids \cup {NoId},
             state: {"none", "pending", "inflight", "error", "uncertain"}]
NoOp     == [id |-> NoId, state |-> "none"]

\* The type of used is the type of a sum: see UsedIsSum.
TypeOK ==
    /\ counter \in [Nodes -> Nat] /\ base \in [Nodes -> Nat]
    /\ starts \in [Nodes -> SUBSET Nat]
    /\ remembered \in [Nodes -> SUBSET Reset] /\ exec \in [Nodes -> Exec]
    /\ late \subseteq Request
    /\ row \in [Nodes -> Row] /\ charged \in [Nodes -> Nat] /\ adopted \in [Nodes -> Nat]
    /\ order \in [Nodes -> {"inOrder", "skipped", "disturbed"}]
    /\ sync \in [Readers -> Reading]
    /\ mgr \in Manager /\ op \in Op
    /\ local \in Nat /\ last \in Nat /\ localTotal \in Nat /\ localCharged \in Nat
    /\ issued \subseteq Ids /\ faults \in 0..MaxFaults

Metered   == [n \in Nodes |-> base[n] + counter[n]]
Remote(r) == SumFunction([n \in Nodes |-> r[n].current])
Fault     == faults < MaxFaults /\ faults' = faults + 1

Init ==
    /\ counter = [n \in Nodes |-> 0] /\ base = counter
    /\ starts = [n \in Nodes |-> {0}]
    /\ remembered = [n \in Nodes |-> {}] /\ exec = [n \in Nodes |-> FreeExec]
    /\ late = {}
    /\ row = [n \in Nodes |-> [init |-> FALSE, raw |-> 0, current |-> 0, from |-> 0]]
    /\ charged = counter /\ adopted = counter
    /\ order = [n \in Nodes |-> "inOrder"]
    /\ sync = [r \in Readers |-> NoRead]
    /\ mgr = IdleMgr /\ op = NoOp
    /\ local = 0 /\ last = 0 /\ localTotal = 0 /\ localCharged = 0 /\ used = 0
    /\ issued = {} /\ faults = 0

-----------------------------------------------------------------------------
(* The Agent.  engine.lock serialises the handlers and collect_stats.      *)

\* collect_stats adds the bytes Xray reports since the last sample.
Meter(n) ==
    /\ ~exec[n].busy
    /\ localTotal + SumFunction(Metered) < MaxBytes
    /\ counter' = [counter EXCEPT ![n] = @ + 1]
    /\ UNCHANGED <<base, starts, remembered, exec, late, rowVars, sync, mgr, op, localVars,
                   meterVars, issued, faults>>

Answered(from, value) ==
    mgr' = [mgr EXCEPT !.at = "answered", !.from = from, !.value = value]

\* engine.reset, the first of the two transactions.
ResetCounter(n, id, live) ==
    /\ counter' = [counter EXCEPT ![n] = 0]
    /\ base' = [base EXCEPT ![n] = @ + counter[n]]
    /\ starts' = [starts EXCEPT ![n] = @ \cup {base'[n]}]
    /\ exec' = [exec EXCEPT ![n] = [busy |-> TRUE, live |-> live, id |-> id,
                                    from |-> base[n], value |-> counter[n]]]
    /\ mgr' = IF live THEN [mgr EXCEPT !.at = "executing"] ELSE mgr
    /\ UNCHANGED remembered

\* Faulty variant: a known identity is a conflict.
BeginResetOnce(n, id, live) ==
    /\ ~exec[n].busy
    /\ \A m \in remembered[n] : m.id # id
    /\ ResetCounter(n, id, live)

\* POST /mirrors/traffic/reset: a remembered identity is answered with its
\* final counter, any other resets the counter first ...
BeginReset(n, id, live) ==
    /\ ~exec[n].busy
    /\ \/ \E m \in remembered[n] :
             /\ m.id = id
             /\ IF live THEN Answered(m.from, m.value) ELSE UNCHANGED mgr
             /\ UNCHANGED agentVars
       \/ /\ \A m \in remembered[n] : m.id # id
          /\ ResetCounter(n, id, live)

ServeReset ==
    /\ mgr.at = "sent"
    /\ BeginReset(mgr.node, op.id, TRUE)
    /\ UNCHANGED <<late, rowVars, sync, op, localVars, meterVars, issued, faults>>

ServeLate ==
    /\ \E q \in late : BeginReset(q.node, q.id, FALSE) /\ late' = late \ {q}
    /\ UNCHANGED <<rowVars, sync, op, localVars, meterVars, issued, faults>>

\* ... and then remembers it.
Remember(n) ==
    /\ exec[n].busy
    /\ remembered' = [remembered EXCEPT ![n] = @ \cup
            {[id |-> exec[n].id, from |-> exec[n].from, value |-> exec[n].value]}]
    /\ exec' = [exec EXCEPT ![n] = FreeExec]
    /\ IF exec[n].live THEN Answered(exec[n].from, exec[n].value)
                       ELSE UNCHANGED mgr
    /\ UNCHANGED <<counter, base, starts, late, rowVars, sync, op, localVars, meterVars, issued,
                   faults>>

-----------------------------------------------------------------------------
(* The Hub's ledger.                                                       *)

\* A counter below the last reading was reset: all of it is new.
Delta(r, value) == IF value >= r.raw THEN value - r.raw ELSE value

\* History: readings are in order while each continues the counter of the one
\* before; one of a later counter skips the end of the earlier one.
OrderAfter(n, from, value) ==
    IF ~row[n].init \/ (from = row[n].from /\ value >= row[n].raw) THEN order[n]
    ELSE IF from > row[n].from /\ order[n] # "disturbed" THEN "skipped"
    ELSE "disturbed"

\* apply_traffic_snapshot, one transaction: the first reading is a baseline,
\* every other one is charged for what it adds.
Apply(n, from, value) ==
    LET r == row[n]
        d == IF r.init THEN Delta(r, value) ELSE 0
        new == [init |-> TRUE, raw |-> value, current |-> r.current + d, from |-> from]
    IN  /\ row' = [row EXCEPT ![n] = new]
        /\ charged' = [charged EXCEPT ![n] = @ + d]
        /\ adopted' = IF r.init THEN adopted ELSE [adopted EXCEPT ![n] = from + value]
        /\ order' = [order EXCEPT ![n] = OrderAfter(n, from, value)]
        /\ used' = last + Remote(row')
        /\ UNCHANGED <<last, localCharged>>

\* sync_traffic: GET /mirrors/traffic ...
SyncRead(r, n) ==
    /\ sync[r].at = "idle"
    /\ ~exec[n].busy
    /\ sync' = [sync EXCEPT ![r] = [at |-> "read", node |-> n,
                                    from |-> base[n], value |-> counter[n]]]
    /\ UNCHANGED <<agentVars, late, rowVars, mgr, op, localVars, meterVars, issued, faults>>

\* ... whose answer is applied some time later, or never.
SyncApply(r) ==
    /\ sync[r].at = "read"
    /\ Apply(sync[r].node, sync[r].from, sync[r].value)
    /\ sync' = [sync EXCEPT ![r] = NoRead]
    /\ UNCHANGED <<agentVars, late, mgr, op, localVars, issued, faults>>

SyncLose(r) ==
    /\ sync[r].at = "read"
    /\ sync' = [sync EXCEPT ![r] = NoRead]
    /\ UNCHANGED <<agentVars, late, rowVars, mgr, op, localVars, meterVars, issued, faults>>

-----------------------------------------------------------------------------
(* The client manager.                                                     *)

MeterLocal ==
    /\ localTotal + SumFunction(Metered) < MaxBytes
    /\ local' = local + 1 /\ localTotal' = localTotal + 1
    /\ UNCHANGED <<agentVars, late, rowVars, sync, mgr, op, meterVars, issued, faults>>

\* _charge_snapshot of the Hub's own counter, which also refreshes the meter.
Charge(value) ==
    /\ localCharged' = localCharged + (IF value >= last THEN value - last ELSE value)
    /\ last' = value
    /\ used' = value + Remote(row)

Due == op.state \in {"pending", "error"}        \* retry_at may have passed

Tick ==
    /\ mgr.at \in {"idle", "tick"}
    /\ Charge(local)
    /\ \/ Due /\ mgr' = [mgr EXCEPT !.at = "begin"]
       \/ mgr.at = "idle" /\ UNCHANGED mgr
    /\ UNCHANGED <<agentVars, late, rowVars, sync, op, localVars, issued, faults>>

\* action(reset) of an operator: a new identity, also when an earlier reset is
\* still being retried, between two ticks under the lock.  A scheduled cycle
\* does no more.
RequestReset(i) ==
    /\ mgr.at = "idle"
    /\ op.state # "uncertain"
    /\ i \notin issued
    /\ Charge(local)
    /\ issued' = issued \cup {i}
    /\ op' = [id |-> i, state |-> "pending"]
    /\ mgr' = [mgr EXCEPT !.at = "tick"]
    /\ UNCHANGED <<agentVars, late, rowVars, sync, localVars, faults>>

\* _apply of a reset.
BeginOp ==
    /\ mgr.at = "begin"
    /\ op' = [op EXCEPT !.state = "inflight"]
    /\ mgr' = [mgr EXCEPT !.at = "next", !.todo = Nodes]
    /\ UNCHANGED <<agentVars, late, rowVars, sync, localVars, meterVars, issued, faults>>

\* reset_client_traffic: one Node after the other, in an order left open.
SendReset ==
    /\ mgr.at = "next"
    /\ \E n \in mgr.todo : mgr' = [mgr EXCEPT !.at = "sent", !.node = n]
    /\ UNCHANGED <<agentVars, late, rowVars, sync, op, localVars, meterVars, issued, faults>>

NextNode == mgr' = [mgr EXCEPT !.at = "next", !.todo = @ \ {mgr.node}, !.node = NoNode,
                               !.from = 0, !.value = 0]

\* The final counter is charged like any reading ...
ApplyFinal ==
    /\ mgr.at = "answered"
    /\ Apply(mgr.node, mgr.from, mgr.value)
    /\ mgr' = [mgr EXCEPT !.at = "applied"]
    /\ UNCHANGED <<agentVars, late, sync, op, localVars, issued, faults>>

\* Faulty variants: the old baseline stays, or the meter is not recomputed.
ZeroRowKeepsRaw ==
    /\ mgr.at = "applied"
    /\ LET n == mgr.node IN
         /\ row' = [row EXCEPT ![n].current = 0, ![n].from = mgr.from + mgr.value]
         /\ order' = order
    /\ used' = last + Remote(row')
    /\ NextNode
    /\ UNCHANGED <<agentVars, late, charged, adopted, sync, op, localVars, last, localCharged,
                   issued, faults>>
ZeroRowOnly ==
    /\ mgr.at = "applied"
    /\ row' = [row EXCEPT ![mgr.node] = [init |-> TRUE, raw |-> 0, current |-> 0,
                                         from |-> mgr.from + mgr.value]]
    /\ NextNode
    /\ UNCHANGED <<agentVars, late, charged, adopted, order, sync, op, localVars, meterVars,
                   issued, faults>>

\* ... and the baseline goes to zero in a second transaction.
ZeroRow ==
    /\ mgr.at = "applied"
    /\ LET n == mgr.node IN
         /\ row' = [row EXCEPT ![n] = [init |-> TRUE, raw |-> 0, current |-> 0,
                                       from |-> mgr.from + mgr.value]]
         /\ order' = [order EXCEPT ![n] =
                IF row[n].from = mgr.from /\ row[n].raw = mgr.value THEN @ ELSE "disturbed"]
    /\ used' = last + Remote(row')
    /\ NextNode
    /\ UNCHANGED <<agentVars, late, charged, adopted, sync, op, localVars, last, localCharged,
                   issued, faults>>

ResetLocal ==
    /\ mgr.at = "next" /\ mgr.todo = {} /\ ~mgr.resolve
    /\ local' = 0
    /\ mgr' = [mgr EXCEPT !.at = "charge", !.seen = local]
    /\ UNCHANGED <<agentVars, late, rowVars, sync, op, localTotal, meterVars, issued, faults>>

ChargeLocal ==
    /\ mgr.at = "charge"
    /\ Charge(mgr.seen)
    /\ mgr' = [mgr EXCEPT !.at = "zero"]
    /\ UNCHANGED <<agentVars, late, rowVars, sync, op, localVars, issued, faults>>

ZeroMeter ==
    /\ mgr.at = "zero"
    /\ row' = [n \in Nodes |-> [row[n] EXCEPT !.current = 0]]
    /\ used' = 0 /\ last' = 0
    /\ mgr' = [mgr EXCEPT !.at = "settle"]
    /\ UNCHANGED <<agentVars, late, charged, adopted, order, sync, op, localVars, localCharged,
                   issued, faults>>

Settle ==
    /\ mgr.at = "settle"
    /\ op' = NoOp
    /\ mgr' = IdleMgr
    /\ UNCHANGED <<agentVars, late, rowVars, sync, localVars, meterVars, issued, faults>>

\* resolve_reset by the owner: the Nodes again under the same identity, and
\* the Hub's counter as it was read first; it is not reset again.
Resolve ==
    /\ mgr.at = "idle"
    /\ op.state = "uncertain"
    /\ mgr' = [mgr EXCEPT !.at = "next", !.resolve = TRUE, !.todo = Nodes, !.seen = local]
    /\ UNCHANGED <<agentVars, late, rowVars, sync, op, localVars, meterVars, issued, faults>>

ResolveLocal ==
    /\ mgr.at = "next" /\ mgr.todo = {} /\ mgr.resolve
    /\ Charge(mgr.seen)
    /\ mgr' = [mgr EXCEPT !.at = "settle"]
    /\ UNCHANGED <<agentVars, late, rowVars, sync, op, localVars, issued, faults>>

-----------------------------------------------------------------------------
(* Failures.                                                               *)

GiveUp ==
    /\ mgr' = IdleMgr
    /\ op' = IF mgr.resolve THEN op ELSE [op EXCEPT !.state = "error"]

Orphan == exec' = [n \in Nodes |-> [exec[n] EXCEPT !.live = FALSE]]

\* A request not executed yet is lost, refused or still on its way.
Stray == late' \in IF mgr.at = "sent" THEN {late, late \cup {[node |-> mgr.node, id |-> op.id]}}
                                      ELSE {late}

Calling == mgr.at \in {"sent", "executing", "answered"}

\* Faulty variant: a Node that does not answer is passed over.
PassOver ==
    /\ Calling
    /\ Fault
    /\ NextNode
    /\ Stray
    /\ Orphan
    /\ UNCHANGED <<counter, base, starts, remembered, rowVars, sync, op, localVars, meterVars,
                   issued>>

\* The call times out or its answer is lost; the operation is retried later.
LoseReset ==
    /\ Calling
    /\ Fault
    /\ GiveUp
    /\ Stray
    /\ Orphan
    /\ UNCHANGED <<counter, base, starts, remembered, rowVars, sync, localVars, meterVars,
                   issued>>

\* The strict snapshot before the local reset fails.
ResetLocalFails ==
    /\ mgr.at = "next" /\ mgr.todo = {} /\ ~mgr.resolve
    /\ Fault
    /\ GiveUp
    /\ UNCHANGED <<agentVars, late, rowVars, sync, localVars, meterVars, issued>>

\* The Agent dies; a reset not yet remembered is forgotten with its counter.
AgentCrash(n) ==
    /\ exec[n].busy
    /\ Fault
    /\ exec' = [exec EXCEPT ![n] = FreeExec]
    /\ IF exec[n].live THEN GiveUp ELSE UNCHANGED <<mgr, op>>
    /\ UNCHANGED <<counter, base, starts, remembered, late, rowVars, sync, localVars, meterVars,
                   issued>>

\* The panel dies; recover_resets marks a reset in flight as uncertain.
HubCrash ==
    /\ mgr.at # "idle"
    /\ Fault
    /\ mgr' = IdleMgr
    /\ op' = IF op.state = "inflight" THEN [op EXCEPT !.state = "uncertain"] ELSE op
    /\ sync' = [r \in Readers |-> NoRead]
    /\ Stray
    /\ Orphan
    /\ UNCHANGED <<counter, base, starts, remembered, rowVars, localVars, meterVars, issued>>

-----------------------------------------------------------------------------
AgentStep ==
    \/ \E n \in Nodes : Meter(n) \/ Remember(n)
    \/ ServeReset \/ ServeLate

SyncStep ==
    \E r \in Readers :
        \/ \E n \in Nodes : SyncRead(r, n)
        \/ SyncApply(r) \/ SyncLose(r)

ManagerStep ==
    \/ BeginOp \/ SendReset \/ ApplyFinal \/ ZeroRow
    \/ ResetLocal \/ ChargeLocal \/ ZeroMeter \/ Settle
    \/ ResolveLocal

FaultStep ==
    \/ LoseReset \/ ResetLocalFails \/ HubCrash
    \/ \E n \in Nodes : AgentCrash(n)

Next ==
    \/ AgentStep \/ SyncStep \/ MeterLocal
    \/ Tick \/ ManagerStep \/ Resolve
    \/ \E i \in Ids : RequestReset(i)
    \/ FaultStep

Spec == Init /\ [][Next]_vars

\* The manager loop ticks for ever and a step under manager.lock runs on; an
\* Agent that is up serves its requests.
Fairness ==
    /\ WF_vars(Tick /\ mgr' # mgr) /\ WF_vars(ManagerStep)
    /\ WF_vars(ServeReset)
    /\ \A n \in Nodes : WF_vars(Remember(n))

FairSpec == Spec /\ Fairness

-----------------------------------------------------------------------------
(* Safety.                                                                 *)

\* While the readings of a Node are applied in the order of its counter, the
\* ledger holds exactly the bytes metered after the adopted baseline, and it
\* never holds more when the end of a counter was skipped: lost answers, a
\* crash anywhere and partly failed resets do not charge a byte twice.  The
\* Hub's own bytes, read under manager.lock, are never overcharged.
ChargedOnce ==
    /\ \A n \in Nodes :
         LET position == row[n].from + row[n].raw - adopted[n] IN
           /\ order[n] = "inOrder" => charged[n] = position
           /\ order[n] # "disturbed" => charged[n] <= position /\ charged[n] <= Metered[n]
    /\ localCharged <= localTotal

\* "The policy meter is the current local counter plus all current remote-node
\* counters" (_charge_snapshot): whatever thread wrote last, quotas are
\* enforced on the sum of the rows.
UsedIsSum == used = last + Remote(row)

\* A reset is only reported as done when every Node has carried out and
\* remembered this very operation, whatever was retried in between.
ResetReachesEveryNode ==
    [][ op.state # "none" /\ op'.state = "none" =>
            \A n \in Nodes : \E m \in remembered[n] : m.id = op.id ]_op

\* "A repeated real-counter snapshot must not charge twice", "Retries do not
\* charge the same sample twice": the ledger never exceeds the bytes metered.
NeverOvercharged == \A n \in Nodes : charged[n] <= Metered[n]

-----------------------------------------------------------------------------
(* Liveness, under FairSpec.                                               *)

\* A requested reset is eventually done, or left for the owner to resolve.
ResetSettles == Due ~> op.state \in {"none", "uncertain"}
=============================================================================
