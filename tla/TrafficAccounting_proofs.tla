---------------------- MODULE TrafficAccounting_proofs ----------------------
(***************************************************************************)
(* Proofs about TrafficAccounting, for any Nodes, readers and reset        *)
(* identities and any bound on bytes and faults.                           *)
(***************************************************************************)
EXTENDS TrafficAccounting, FiniteSums

-----------------------------------------------------------------------------
(* The inductive invariant.                                                *)

\* Who is where: a busy Agent works for a real identity, and an Agent whose
\* caller still waits works for the manager's current call.
ControlInv ==
    /\ mgr.at \in {"sent", "executing", "answered", "applied"} => mgr.node \in Nodes
    /\ mgr.at # "idle" \/ op.state # "none" => op.id \in Ids
    /\ \A n \in Nodes : exec[n].busy => exec[n].id \in Ids
    /\ \A n \in Nodes : exec[n].live => /\ exec[n].busy /\ exec[n].id = op.id
                                        /\ mgr.at = "executing" /\ mgr.node = n
    /\ mgr.resolve => mgr.at \in {"next", "sent", "executing", "answered", "applied", "settle"}
    /\ \A r \in Readers : sync[r].at = "read" => sync[r].node \in Nodes

\* A reading belongs to one counter: it begins where a counter of the Node
\* began, ends before the next one began and inside what was metered.
Fits(n, from, value) ==
    /\ from \in starts[n]
    /\ \A s \in starts[n] : from < s => from + value <= s
    /\ from + value <= base[n] + counter[n]

\* The last reading of a counter ends where the next one begins.
Final(n, from, value) == Fits(n, from, value) /\ from + value \in starts[n]

CountersInv ==
    \A n \in Nodes : /\ 0 \in starts[n] /\ base[n] \in starts[n]
                     /\ \A s \in starts[n] : s <= base[n]

ReadingsInv ==
    /\ \A n \in Nodes :
         /\ Fits(n, row[n].from, row[n].raw)
         /\ exec[n].busy => Final(n, exec[n].from, exec[n].value)
         /\ \A m \in remembered[n] : Final(n, m.from, m.value)
    /\ \A r \in Readers :
         sync[r].at = "read" => Fits(sync[r].node, sync[r].from, sync[r].value)
    /\ mgr.at \in {"answered", "applied"} => Final(mgr.node, mgr.from, mgr.value)

\* What ChargedOnce says of a Node, and that a row starts empty.
LedgerInv ==
    \A n \in Nodes :
        /\ ~row[n].init => /\ row[n].raw = 0 /\ row[n].from = 0
                           /\ charged[n] = 0 /\ adopted[n] = 0
        /\ order[n] = "inOrder" => charged[n] = row[n].from + row[n].raw - adopted[n]
        /\ order[n] = "skipped" => charged[n] <= row[n].from + row[n].raw - adopted[n]

\* The Hub's counter is all uncharged, or charged up to the last reading.
Uncharged == localCharged + local <= localTotal
ChargedTo(seen) == last <= seen /\ localCharged + (seen - last) + local <= localTotal
LocalInv ==
    /\ Uncharged \/ (last <= local /\ localCharged + (local - last) <= localTotal)
    /\ mgr.at = "charge" => \/ localCharged + mgr.seen + local <= localTotal
                            \/ ChargedTo(mgr.seen)
    /\ mgr.at = "zero" => Uncharged
    /\ mgr.resolve /\ mgr.at # "settle" =>
          /\ mgr.seen <= local
          /\ \/ Uncharged
             \/ last <= mgr.seen /\ localCharged + (local - last) <= localTotal

\* Every Node taken off the list has remembered the operation.
Done(n) == \E m \in remembered[n] : m.id = op.id
ResetInv ==
    /\ mgr.at \in {"next", "sent", "executing", "answered", "applied"} =>
          \A n \in Nodes \ mgr.todo : Done(n)
    /\ mgr.at \in {"answered", "applied"} => Done(mgr.node)
    /\ mgr.at \in {"charge", "zero", "settle"} => \A n \in Nodes : Done(n)

TypeInv == TypeOK /\ ControlInv
Inv == TypeInv /\ CountersInv /\ ReadingsInv /\ LedgerInv /\ LocalInv /\ ResetInv

-----------------------------------------------------------------------------
(* Types and control.                                                      *)

LEMMA Constants ==
  /\ NoRead \in Reading /\ IdleMgr \in Manager /\ NoOp \in Op /\ FreeExec \in Exec
  /\ NoRead.at = "idle" /\ IdleMgr.at = "idle" /\ IdleMgr.resolve = FALSE
  /\ NoOp.state = "none" /\ FreeExec.busy = FALSE /\ FreeExec.live = FALSE
  BY AccountingAssumption
  DEF NoRead, Reading, MaybeNode, IdleMgr, Manager, NoOp, Op, FreeExec, Exec

LEMMA InitType == Init => TypeInv
<1> SUFFICES ASSUME Init PROVE TypeInv
  OBVIOUS
<1>1. row \in [Nodes -> Row] /\ sync \in [Readers -> Reading] /\ mgr \in Manager /\ op \in Op
  BY Constants DEF Init, Row
<1>2. exec \in [Nodes -> Exec] /\ remembered \in [Nodes -> SUBSET Reset]
  BY Constants DEF Init
<1>3. TypeOK
  BY <1>1, <1>2, AccountingAssumption DEF Init, TypeOK
<1>4. ControlInv
  BY Constants DEF Init, ControlInv
<1> QED BY <1>3, <1>4 DEF TypeInv

\* What a handler that starts can do to the Agent and to its caller.
LEMMA MeterType == ASSUME TypeInv, NEW n \in Nodes, Meter(n) PROVE TypeInv'
<1>1. counter' \in [Nodes -> Nat]
  BY DEF TypeInv, TypeOK, Meter
<1>2. UNCHANGED <<base, starts, remembered, exec, late, rowVars, sync, mgr, op, localVars,
                  meterVars, issued, faults>>
  BY DEF Meter
<1>3. TypeOK'
  BY <1>1, <1>2 DEF TypeInv, TypeOK, rowVars, localVars, meterVars
<1>4. ControlInv'
  BY <1>2 DEF TypeInv, ControlInv
<1> QED BY <1>3, <1>4 DEF TypeInv

LEMMA BeginType ==
  ASSUME TypeInv, NEW n \in Nodes, NEW id \in Ids, NEW live \in BOOLEAN,
         BeginReset(n, id, live),
         live => mgr.at = "sent" /\ mgr.node = n /\ id = op.id,
         late' \subseteq late,
         UNCHANGED <<rowVars, sync, op, localVars, meterVars, issued, faults>>
  PROVE  TypeInv'
<1>1. CASE UNCHANGED agentVars /\ \E m \in remembered[n] :
              m.id = id /\ IF live THEN Answered(m.from, m.value) ELSE UNCHANGED mgr
  <2>1. PICK m \in remembered[n] :
              m.id = id /\ IF live THEN Answered(m.from, m.value) ELSE UNCHANGED mgr
    BY <1>1
  <2>2. m.from \in Nat /\ m.value \in Nat
    BY DEF TypeInv, TypeOK, Reset
  <2>3. \/ mgr' = mgr
        \/ live /\ mgr' = [mgr EXCEPT !.at = "answered", !.from = m.from, !.value = m.value]
    BY <2>1 DEF Answered
  <2>4. mgr' \in Manager
    BY <2>2, <2>3 DEF TypeInv, TypeOK, Manager
  <2>5. TypeOK'
    BY <2>4, <1>1 DEF TypeInv, TypeOK, agentVars, rowVars, localVars, meterVars
  <2>6. mgr'.node = mgr.node /\ mgr'.resolve = mgr.resolve /\ (live => mgr'.at = "answered")
        /\ (~live => mgr' = mgr)
    BY <2>3, <2>1 DEF TypeInv, TypeOK, Manager, Answered
  <2>7. ControlInv'
    BY <2>6, <1>1 DEF TypeInv, ControlInv, agentVars
  <2> QED BY <2>5, <2>7 DEF TypeInv
<1>2. CASE ~exec[n].busy /\ ResetCounter(n, id, live)
  <2>1. counter' \in [Nodes -> Nat] /\ base' \in [Nodes -> Nat]
    BY <1>2 DEF TypeInv, TypeOK, ResetCounter
  <2>2. starts' \in [Nodes -> SUBSET Nat]
    BY <1>2, <2>1 DEF TypeInv, TypeOK, ResetCounter
  <2>3. [busy |-> TRUE, live |-> live, id |-> id, from |-> base[n], value |-> counter[n]] \in Exec
    BY DEF TypeInv, TypeOK, Exec
  <2>4. exec' \in [Nodes -> Exec]
    BY <1>2, <2>3 DEF TypeInv, TypeOK, ResetCounter
  <2>5. mgr' \in Manager
    BY <1>2 DEF TypeInv, TypeOK, ResetCounter, Manager
  <2>6. TypeOK'
    BY <1>2, <2>1, <2>2, <2>4, <2>5 DEF TypeInv, TypeOK, ResetCounter, rowVars, localVars, meterVars
  <2>7. mgr'.node = mgr.node /\ mgr'.resolve = mgr.resolve /\ (live => mgr'.at = "executing")
        /\ (~live => mgr' = mgr)
    BY <1>2 DEF TypeInv, TypeOK, Manager, ResetCounter
  <2>8. ControlInv'
    BY <1>2, <2>7 DEF TypeInv, TypeOK, ControlInv, ResetCounter
  <2> QED BY <2>6, <2>8 DEF TypeInv
<1> QED BY <1>1, <1>2 DEF BeginReset

LEMMA ServeType == TypeInv /\ (ServeReset \/ ServeLate) => TypeInv'
<1>1. ASSUME TypeInv, ServeReset PROVE TypeInv'
  <2>1. mgr.node \in Nodes /\ op.id \in Ids /\ mgr.at = "sent"
    BY <1>1 DEF TypeInv, ControlInv, ServeReset
  <2> QED BY <1>1, <2>1, BeginType DEF ServeReset
<1>2. ASSUME TypeInv, ServeLate PROVE TypeInv'
  <2>1. PICK q \in late : BeginReset(q.node, q.id, FALSE) /\ late' = late \ {q}
    BY <1>2 DEF ServeLate
  <2>2. q.node \in Nodes /\ q.id \in Ids
    BY <1>2 DEF TypeInv, TypeOK, Request
  <2> QED BY <1>2, <2>1, <2>2, BeginType DEF ServeLate
<1> QED BY <1>1, <1>2

LEMMA RememberType == ASSUME TypeInv, NEW n \in Nodes, Remember(n) PROVE TypeInv'
<1>1. exec[n] \in Exec /\ exec[n].id \in Ids
  BY DEF TypeInv, TypeOK, ControlInv, Remember
<1>2. [id |-> exec[n].id, from |-> exec[n].from, value |-> exec[n].value] \in Reset
  BY <1>1 DEF Exec, Reset
<1>3. remembered' \in [Nodes -> SUBSET Reset] /\ exec' \in [Nodes -> Exec]
  BY <1>2, Constants DEF TypeInv, TypeOK, Remember
<1>4. mgr' \in Manager /\ mgr'.node = mgr.node /\ mgr'.resolve = mgr.resolve
      /\ (exec[n].live => mgr'.at = "answered") /\ (~exec[n].live => mgr' = mgr)
  <2>1. exec[n].from \in Nat /\ exec[n].value \in Nat /\ mgr \in Manager
    BY <1>1 DEF TypeInv, TypeOK, Exec
  <2>2. CASE exec[n].live
    <3>1. mgr' = [mgr EXCEPT !.at = "answered", !.from = exec[n].from, !.value = exec[n].value]
      BY <2>2 DEF Remember, Answered
    <3> QED BY <2>1, <2>2, <3>1 DEF Manager
  <2>3. CASE ~exec[n].live
    <3>1. mgr' = mgr
      BY <2>3 DEF Remember
    <3> QED BY <2>1, <2>3, <3>1 DEF Manager
  <2> QED BY <2>2, <2>3
<1>5. TypeOK'
  BY <1>3, <1>4 DEF TypeInv, TypeOK, Remember, rowVars, localVars, meterVars
<1>6. ControlInv'
  BY <1>4, Constants DEF TypeInv, TypeOK, ControlInv, Remember
<1> QED BY <1>5, <1>6 DEF TypeInv

\* Reading a Node and applying or losing the answer.
LEMMA ApplyType ==
  ASSUME TypeOK, NEW n \in Nodes, NEW from \in Nat, NEW value \in Nat, Apply(n, from, value)
  PROVE  /\ row' \in [Nodes -> Row] /\ charged' \in [Nodes -> Nat] /\ adopted' \in [Nodes -> Nat]
         /\ order' \in [Nodes -> {"inOrder", "skipped", "disturbed"}]
         /\ UNCHANGED <<last, localCharged>>
<1> DEFINE d == IF row[n].init THEN Delta(row[n], value) ELSE 0
<1>1. row[n] \in Row
  BY DEF TypeOK
<1>2. d \in Nat
  BY <1>1 DEF Row, Delta
<1> HIDE DEF d
<1>3. /\ row' = [row EXCEPT ![n] = [init |-> TRUE, raw |-> value,
                                    current |-> row[n].current + d, from |-> from]]
      /\ charged' = [charged EXCEPT ![n] = @ + d]
      /\ adopted' = IF row[n].init THEN adopted ELSE [adopted EXCEPT ![n] = from + value]
      /\ order' = [order EXCEPT ![n] = OrderAfter(n, from, value)]
      /\ UNCHANGED <<last, localCharged>>
  BY DEF Apply, d
<1>4. row' \in [Nodes -> Row]
  BY <1>1, <1>2, <1>3 DEF TypeOK, Row
<1>5. charged' \in [Nodes -> Nat] /\ adopted' \in [Nodes -> Nat]
  BY <1>2, <1>3 DEF TypeOK
<1>6. OrderAfter(n, from, value) \in {"inOrder", "skipped", "disturbed"}
  BY DEF TypeOK, OrderAfter
<1> QED BY <1>3, <1>4, <1>5, <1>6 DEF TypeOK

LEMMA SyncType == TypeInv /\ SyncStep => TypeInv'
<1> SUFFICES ASSUME TypeInv, NEW r \in Readers,
                    \/ \E n \in Nodes : SyncRead(r, n)
                    \/ SyncApply(r) \/ SyncLose(r)
             PROVE  TypeInv'
  BY DEF SyncStep
<1>1. CASE \E n \in Nodes : SyncRead(r, n)
  <2> PICK n \in Nodes : SyncRead(r, n)
    BY <1>1
  <2>1. [at |-> "read", node |-> n, from |-> base[n], value |-> counter[n]] \in Reading
    BY DEF TypeInv, TypeOK, Reading, MaybeNode
  <2>2. TypeOK'
    BY <2>1 DEF TypeInv, TypeOK, SyncRead, agentVars, rowVars, localVars, meterVars
  <2>3. ControlInv'
    BY DEF TypeInv, TypeOK, ControlInv, SyncRead, agentVars
  <2> QED BY <2>2, <2>3 DEF TypeInv
<1>2. CASE SyncApply(r)
  <2>1. sync[r].node \in Nodes /\ sync[r].from \in Nat /\ sync[r].value \in Nat
    BY <1>2 DEF TypeInv, TypeOK, ControlInv, SyncApply, Reading
  <2>2. TypeOK'
    BY <1>2, <2>1, ApplyType, Constants
    DEF TypeInv, TypeOK, SyncApply, agentVars, localVars
  <2>3. ControlInv'
    BY <1>2, Constants DEF TypeInv, TypeOK, ControlInv, SyncApply, agentVars
  <2> QED BY <2>2, <2>3 DEF TypeInv
<1>3. CASE SyncLose(r)
  <2>1. TypeOK'
    BY <1>3, Constants DEF TypeInv, TypeOK, SyncLose, agentVars, rowVars, localVars, meterVars
  <2>2. ControlInv'
    BY <1>3, Constants DEF TypeInv, TypeOK, ControlInv, SyncLose, agentVars
  <2> QED BY <2>1, <2>2 DEF TypeInv
<1> QED BY <1>1, <1>2, <1>3

\* The manager's steps that leave the Agents and the calls alone.
LEMMA ChargeType ==
  ASSUME TypeOK, NEW value \in Nat, Charge(value)
  PROVE  last' \in Nat /\ localCharged' \in Nat
  BY DEF TypeOK, Charge

LEMMA MeterLocalType == TypeInv /\ MeterLocal => TypeInv'
  BY DEF TypeInv, TypeOK, ControlInv, MeterLocal, agentVars, rowVars, meterVars

LEMMA IdleStepType ==
  ASSUME TypeInv, Tick \/ Resolve \/ \E i \in Ids : RequestReset(i) PROVE TypeInv'
<1>1. CASE Tick
  <2>1. mgr' \in Manager /\ (mgr' = mgr \/ (mgr'.at = "begin" /\ op.state # "none"))
    BY <1>1 DEF Tick, TypeInv, TypeOK, Manager, Due
  <2>2. TypeOK'
    BY <1>1, <2>1, ChargeType DEF Tick, TypeInv, TypeOK, agentVars, rowVars, localVars
  <2>3. mgr'.resolve = mgr.resolve /\ mgr.at \in {"idle", "tick"}
    BY <1>1 DEF Tick, TypeInv, TypeOK, Manager
  <2>4. ControlInv'
    BY <1>1, <2>1, <2>3 DEF Tick, TypeInv, TypeOK, ControlInv, agentVars
  <2> QED BY <2>2, <2>4 DEF TypeInv
<1>2. CASE Resolve
  <2>1. mgr' \in Manager /\ mgr'.at = "next" /\ mgr.at = "idle" /\ op.state = "uncertain"
    BY <1>2 DEF Resolve, TypeInv, TypeOK, Manager
  <2>2. TypeOK'
    BY <1>2, <2>1 DEF Resolve, TypeInv, TypeOK, agentVars, rowVars, localVars, meterVars
  <2>3. ControlInv'
    BY <1>2, <2>1 DEF Resolve, TypeInv, TypeOK, ControlInv, agentVars
  <2> QED BY <2>2, <2>3 DEF TypeInv
<1>3. ASSUME NEW i \in Ids, RequestReset(i) PROVE TypeInv'
  <2>1. mgr' \in Manager /\ mgr'.at = "tick" /\ mgr'.resolve = mgr.resolve /\ mgr.at = "idle"
    BY <1>3 DEF RequestReset, TypeInv, TypeOK, Manager
  <2>2. op' \in Op /\ op'.id = i
    BY <1>3 DEF RequestReset, Op
  <2>3. TypeOK'
    BY <1>3, <2>1, <2>2, ChargeType
    DEF RequestReset, TypeInv, TypeOK, agentVars, rowVars, localVars
  <2>4. ControlInv'
    BY <1>3, <2>1, <2>2 DEF RequestReset, TypeInv, TypeOK, ControlInv, agentVars
  <2> QED BY <2>3, <2>4 DEF TypeInv
<1> QED BY <1>1, <1>2, <1>3

LEMMA ZeroRowType ==
  ASSUME TypeInv, ZeroRow
  PROVE  /\ row' \in [Nodes -> Row]
         /\ order' \in [Nodes -> {"inOrder", "skipped", "disturbed"}]
<1>1. mgr.node \in Nodes /\ mgr.from \in Nat /\ mgr.value \in Nat
  BY DEF TypeInv, TypeOK, ControlInv, ZeroRow, Manager
<1> DEFINE new == [init |-> TRUE, raw |-> 0, current |-> 0, from |-> mgr.from + mgr.value]
<1>2. new \in Row
  BY <1>1 DEF Row
<1>3. row' = [row EXCEPT ![mgr.node] = new]
  BY DEF ZeroRow
<1>4. row' \in [Nodes -> Row]
  BY <1>2, <1>3 DEF TypeInv, TypeOK
<1>5. order' \in [Nodes -> {"inOrder", "skipped", "disturbed"}]
  BY DEF ZeroRow, TypeInv, TypeOK
<1> QED BY <1>4, <1>5

\* The call at hand moves on, with the Agents left alone.
LEMMA MoveType ==
  ASSUME TypeInv, mgr.at # "idle", mgr.at # "executing",
         NEW at \in {"sent", "next", "applied", "charge", "zero", "settle"},
         mgr' \in Manager, mgr'.at = at,
         at \in {"sent", "applied"} => mgr'.node \in Nodes,
         mgr'.resolve = mgr.resolve,
         at \in {"charge", "zero"} => ~mgr.resolve,
         op' \in Op, op'.id = op.id,
         UNCHANGED <<exec, sync>>
  PROVE  ControlInv'
  BY DEF TypeInv, TypeOK, ControlInv, Manager

LEMMA ManagerType == TypeInv /\ ManagerStep => TypeInv'
<1>1. ASSUME TypeInv, BeginOp PROVE TypeInv'
  <2>1. mgr' \in Manager /\ mgr'.at = "next" /\ mgr'.resolve = mgr.resolve /\ mgr.at = "begin"
    BY <1>1 DEF BeginOp, TypeInv, TypeOK, Manager
  <2>2. op' \in Op /\ op'.id = op.id
    BY <1>1 DEF BeginOp, TypeInv, TypeOK, Op
  <2>3. TypeOK'
    BY <1>1, <2>1, <2>2 DEF BeginOp, TypeInv, TypeOK, agentVars, rowVars, localVars, meterVars
  <2>4. ControlInv'
    BY <1>1, <2>1, <2>2, MoveType DEF BeginOp, agentVars
  <2> QED BY <2>3, <2>4 DEF TypeInv
<1>2. ASSUME TypeInv, SendReset PROVE TypeInv'
  <2>1. PICK n \in mgr.todo : mgr' = [mgr EXCEPT !.at = "sent", !.node = n]
    BY <1>2 DEF SendReset
  <2>2. mgr' \in Manager /\ mgr'.at = "sent" /\ mgr'.resolve = mgr.resolve
        /\ mgr'.node \in Nodes /\ mgr.at = "next"
    BY <1>2, <2>1 DEF SendReset, TypeInv, TypeOK, Manager, MaybeNode
  <2>3. TypeOK'
    BY <1>2, <2>2 DEF SendReset, TypeInv, TypeOK, agentVars, rowVars, localVars, meterVars
  <2>4. ControlInv'
    BY <1>2, <2>2, MoveType DEF SendReset, TypeInv, TypeOK, agentVars
  <2> QED BY <2>3, <2>4 DEF TypeInv
<1>3. ASSUME TypeInv, ApplyFinal PROVE TypeInv'
  <2>1. mgr.node \in Nodes /\ mgr.from \in Nat /\ mgr.value \in Nat
    BY <1>3 DEF ApplyFinal, TypeInv, TypeOK, ControlInv, Manager
  <2>2. mgr' \in Manager /\ mgr'.at = "applied" /\ mgr'.resolve = mgr.resolve
        /\ mgr'.node = mgr.node /\ mgr.at = "answered"
    BY <1>3 DEF ApplyFinal, TypeInv, TypeOK, Manager
  <2>3. TypeOK'
    BY <1>3, <2>1, <2>2, ApplyType DEF ApplyFinal, TypeInv, TypeOK, agentVars, localVars
  <2>4. ControlInv'
    BY <1>3, <2>1, <2>2, MoveType DEF ApplyFinal, TypeInv, TypeOK, agentVars
  <2> QED BY <2>3, <2>4 DEF TypeInv
<1>4. ASSUME TypeInv, ZeroRow PROVE TypeInv'
  <2>1. mgr' = [mgr EXCEPT !.at = "next", !.todo = @ \ {mgr.node}, !.node = NoNode,
                           !.from = 0, !.value = 0]
    BY <1>4 DEF ZeroRow, NextNode
  <2>2. mgr' \in Manager /\ mgr'.at = "next" /\ mgr'.resolve = mgr.resolve /\ mgr.at = "applied"
    BY <1>4, <2>1 DEF ZeroRow, TypeInv, TypeOK, Manager, MaybeNode
  <2>3. TypeOK'
    BY <1>4, <2>2, ZeroRowType DEF ZeroRow, TypeInv, TypeOK, agentVars, localVars
  <2>4. ControlInv'
    BY <1>4, <2>2, MoveType DEF ZeroRow, TypeInv, TypeOK, agentVars
  <2> QED BY <2>3, <2>4 DEF TypeInv
<1>5. ASSUME TypeInv, ResetLocal PROVE TypeInv'
  <2>1. mgr' \in Manager /\ mgr'.at = "charge" /\ mgr'.resolve = mgr.resolve
        /\ mgr.at = "next" /\ ~mgr.resolve
    BY <1>5 DEF ResetLocal, TypeInv, TypeOK, Manager
  <2>2. TypeOK'
    BY <1>5, <2>1 DEF ResetLocal, TypeInv, TypeOK, agentVars, rowVars, meterVars
  <2>3. ControlInv'
    BY <1>5, <2>1, MoveType DEF ResetLocal, TypeInv, TypeOK, agentVars
  <2> QED BY <2>2, <2>3 DEF TypeInv
<1>6. ASSUME TypeInv, ChargeLocal PROVE TypeInv'
  <2>1. mgr' \in Manager /\ mgr'.at = "zero" /\ mgr'.resolve = mgr.resolve
        /\ mgr.at = "charge" /\ ~mgr.resolve /\ mgr.seen \in Nat
    BY <1>6 DEF ChargeLocal, TypeInv, TypeOK, ControlInv, Manager
  <2>2. TypeOK'
    BY <1>6, <2>1, ChargeType DEF ChargeLocal, TypeInv, TypeOK, agentVars, rowVars, localVars
  <2>3. ControlInv'
    BY <1>6, <2>1, MoveType DEF ChargeLocal, TypeInv, TypeOK, agentVars
  <2> QED BY <2>2, <2>3 DEF TypeInv
<1>7. ASSUME TypeInv, ZeroMeter PROVE TypeInv'
  <2>1. mgr' \in Manager /\ mgr'.at = "settle" /\ mgr'.resolve = mgr.resolve /\ mgr.at = "zero"
    BY <1>7 DEF ZeroMeter, TypeInv, TypeOK, Manager
  <2>2. row' \in [Nodes -> Row]
    BY <1>7 DEF ZeroMeter, TypeInv, TypeOK, Row
  <2>3. TypeOK'
    BY <1>7, <2>1, <2>2 DEF ZeroMeter, TypeInv, TypeOK, agentVars, localVars
  <2>4. ControlInv'
    BY <1>7, <2>1, MoveType DEF ZeroMeter, TypeInv, TypeOK, agentVars
  <2> QED BY <2>3, <2>4 DEF TypeInv
<1>8. ASSUME TypeInv, Settle PROVE TypeInv'
  <2>1. TypeOK'
    BY <1>8, Constants DEF Settle, TypeInv, TypeOK, agentVars, rowVars, localVars, meterVars
  <2>2. ControlInv'
    BY <1>8, Constants DEF Settle, TypeInv, TypeOK, ControlInv, agentVars
  <2> QED BY <2>1, <2>2 DEF TypeInv
<1>9. ASSUME TypeInv, ResolveLocal PROVE TypeInv'
  <2>1. mgr' \in Manager /\ mgr'.at = "settle" /\ mgr'.resolve = mgr.resolve
        /\ mgr.at = "next" /\ mgr.seen \in Nat
    BY <1>9 DEF ResolveLocal, TypeInv, TypeOK, Manager
  <2>2. TypeOK'
    BY <1>9, <2>1, ChargeType DEF ResolveLocal, TypeInv, TypeOK, agentVars, rowVars, localVars
  <2>3. ControlInv'
    BY <1>9, <2>1, MoveType DEF ResolveLocal, TypeInv, TypeOK, agentVars
  <2> QED BY <2>2, <2>3 DEF TypeInv
<1> QED BY <1>1, <1>2, <1>3, <1>4, <1>5, <1>6, <1>7, <1>8, <1>9 DEF ManagerStep

\* After a failure no call of the manager is under way.
LEMMA FaultType ==
  ASSUME TypeInv, Fault \/ UNCHANGED faults PROVE faults' \in 0..MaxFaults
  BY AccountingAssumption DEF TypeInv, TypeOK, Fault

LEMMA GiveUpType ==
  ASSUME TypeInv, mgr.at # "idle", GiveUp
  PROVE  mgr' = IdleMgr /\ op' \in Op /\ op'.id = op.id /\ op.id \in Ids
  BY DEF TypeInv, TypeOK, ControlInv, GiveUp, Op

LEMMA StrayType == ASSUME TypeInv, Stray PROVE late' \subseteq Request
<1>1. CASE mgr.at = "sent"
  <2>1. [node |-> mgr.node, id |-> op.id] \in Request
    BY <1>1 DEF TypeInv, ControlInv, Request
  <2> QED BY <1>1, <2>1 DEF Stray, TypeInv, TypeOK
<1>2. CASE mgr.at # "sent"
  BY <1>2 DEF Stray, TypeInv, TypeOK
<1> QED BY <1>1, <1>2

LEMMA OrphanType ==
  ASSUME TypeInv, Orphan
  PROVE  /\ exec' \in [Nodes -> Exec]
         /\ \A n \in Nodes : ~exec'[n].live /\ exec'[n].busy = exec[n].busy
                             /\ exec'[n].id = exec[n].id /\ exec'[n].from = exec[n].from
                             /\ exec'[n].value = exec[n].value
  BY DEF TypeInv, TypeOK, Orphan, Exec

LEMMA FaultStepType == TypeInv /\ FaultStep => TypeInv'
<1>1. ASSUME TypeInv, LoseReset PROVE TypeInv'
  <2>1. mgr' = IdleMgr /\ op' \in Op /\ op'.id = op.id /\ op.id \in Ids
    BY <1>1, GiveUpType DEF LoseReset, Calling
  <2>2. TypeOK'
    BY <1>1, <2>1, FaultType, StrayType, OrphanType, Constants
    DEF LoseReset, TypeInv, TypeOK, rowVars, localVars, meterVars
  <2>3. ControlInv'
    BY <1>1, <2>1, OrphanType, Constants DEF LoseReset, TypeInv, ControlInv
  <2> QED BY <2>2, <2>3 DEF TypeInv
<1>2. ASSUME TypeInv, ResetLocalFails PROVE TypeInv'
  <2>1. mgr' = IdleMgr /\ op' \in Op /\ op'.id = op.id /\ op.id \in Ids /\ mgr.at = "next"
    BY <1>2, GiveUpType DEF ResetLocalFails
  <2>2. TypeOK'
    BY <1>2, <2>1, FaultType, Constants
    DEF ResetLocalFails, TypeInv, TypeOK, agentVars, rowVars, localVars, meterVars
  <2>3. ControlInv'
    BY <1>2, <2>1, Constants DEF ResetLocalFails, TypeInv, ControlInv, agentVars
  <2> QED BY <2>2, <2>3 DEF TypeInv
<1>3. ASSUME TypeInv, HubCrash PROVE TypeInv'
  <2>1. op' \in Op /\ op'.id = op.id /\ op.id \in Ids
    BY <1>3 DEF HubCrash, TypeInv, TypeOK, ControlInv, Op
  <2>2. sync' \in [Readers -> Reading] /\ \A r \in Readers : sync'[r].at = "idle"
    BY <1>3, Constants DEF HubCrash
  <2>3. TypeOK'
    BY <1>3, <2>1, <2>2, FaultType, StrayType, OrphanType, Constants
    DEF HubCrash, TypeInv, TypeOK, rowVars, localVars, meterVars
  <2>4. ControlInv'
    BY <1>3, <2>1, <2>2, OrphanType, Constants DEF HubCrash, TypeInv, ControlInv
  <2> QED BY <2>3, <2>4 DEF TypeInv
<1>4. ASSUME TypeInv, NEW n \in Nodes, AgentCrash(n) PROVE TypeInv'
  <2>1. exec' \in [Nodes -> Exec] /\ exec'[n] = FreeExec
        /\ \A k \in Nodes \ {n} : exec'[k] = exec[k]
    BY <1>4, Constants DEF AgentCrash, TypeInv, TypeOK
  <2>2. \/ exec[n].live /\ mgr' = IdleMgr /\ op' \in Op /\ op'.id = op.id /\ op.id \in Ids
        \/ ~exec[n].live /\ UNCHANGED <<mgr, op>>
    BY <1>4, GiveUpType DEF AgentCrash, TypeInv, ControlInv
  <2>3. TypeOK'
    BY <1>4, <2>1, <2>2, FaultType, Constants
    DEF AgentCrash, TypeInv, TypeOK, rowVars, localVars, meterVars
  <2>4. ControlInv'
    BY <1>4, <2>1, <2>2, Constants DEF AgentCrash, TypeInv, ControlInv
  <2> QED BY <2>3, <2>4 DEF TypeInv
<1> QED BY <1>1, <1>2, <1>3, <1>4 DEF FaultStep

LEMMA NextType == TypeInv /\ [Next]_vars => TypeInv'
<1>1. ASSUME TypeInv, UNCHANGED vars PROVE TypeInv'
  BY <1>1 DEF TypeInv, TypeOK, ControlInv, vars, agentVars, rowVars, localVars, meterVars
<1>2. TypeInv /\ AgentStep => TypeInv'
  BY MeterType, RememberType, ServeType DEF AgentStep
<1> QED
  BY <1>1, <1>2, SyncType, MeterLocalType, IdleStepType, ManagerType, FaultStepType DEF Next

-----------------------------------------------------------------------------
(* Positions: the life of a Node's counters only grows.                    *)

\* Counters start where the last one ended, never inside what was metered.
Grows ==
    \A n \in Nodes : /\ starts[n] \subseteq starts'[n]
                     /\ \A s \in starts'[n] \ starts[n] : base[n] + counter[n] <= s
                     /\ base[n] + counter[n] <= base'[n] + counter'[n]

LEMMA GrowSame ==
  ASSUME TypeOK, UNCHANGED <<counter, base, starts>> PROVE Grows
  BY DEF TypeOK, Grows

LEMMA GrowReset ==
  ASSUME TypeOK, CountersInv, NEW n \in Nodes, NEW id, NEW live, ResetCounter(n, id, live)
  PROVE  /\ Grows /\ CountersInv'
         /\ base'[n] = base[n] + counter[n] /\ base'[n] \in starts'[n] /\ counter'[n] = 0
         /\ base[n] \in starts[n] /\ base[n] \in Nat /\ counter[n] \in Nat
         /\ starts'[n] = starts[n] \cup {base'[n]}
<1>1. /\ counter[n] \in Nat /\ base[n] \in Nat /\ starts[n] \subseteq Nat
      /\ counter' = [counter EXCEPT ![n] = 0] /\ counter'[n] = 0
      /\ base' = [base EXCEPT ![n] = base[n] + counter[n]] /\ base'[n] = base[n] + counter[n]
      /\ starts' = [starts EXCEPT ![n] = starts[n] \cup {base'[n]}]
      /\ starts'[n] = starts[n] \cup {base'[n]}
  BY DEF TypeOK, ResetCounter
<1>2. \A k \in Nodes : k # n => /\ counter'[k] = counter[k] /\ base'[k] = base[k]
                                /\ starts'[k] = starts[k]
  BY <1>1 DEF TypeOK
<1>3. Grows
  BY <1>1, <1>2 DEF TypeOK, Grows
<1>4. CountersInv'
  BY <1>1, <1>2 DEF TypeOK, CountersInv
<1> QED BY <1>1, <1>3, <1>4 DEF CountersInv

LEMMA GrowBegin ==
  ASSUME TypeOK, CountersInv, NEW n \in Nodes, NEW id, NEW live, BeginReset(n, id, live)
  PROVE  Grows /\ CountersInv'
<1>1. CASE UNCHANGED agentVars
  BY <1>1, GrowSame DEF CountersInv, agentVars
<1>2. CASE ResetCounter(n, id, live)
  BY <1>2, GrowReset
<1> QED BY <1>1, <1>2 DEF BeginReset

LEMMA GrowMeter ==
  ASSUME TypeOK, CountersInv, NEW n \in Nodes, Meter(n) PROVE Grows /\ CountersInv'
<1>1. counter' = [counter EXCEPT ![n] = counter[n] + 1] /\ UNCHANGED <<base, starts>>
  BY DEF Meter
<1> QED BY <1>1 DEF TypeOK, Grows, CountersInv

LEMMA StillUnchanged ==
  ASSUME \/ \E n \in Nodes : Remember(n)
         \/ SyncStep \/ MeterLocal \/ Tick \/ ManagerStep \/ Resolve
         \/ \E i \in Ids : RequestReset(i)
         \/ FaultStep
  PROVE  UNCHANGED <<counter, base, starts>>
<1>1. CASE SyncStep
  BY <1>1 DEF SyncStep, SyncRead, SyncApply, SyncLose, agentVars
<1>2. CASE ManagerStep
  BY <1>2 DEF ManagerStep, BeginOp, SendReset, ApplyFinal, ZeroRow, ResetLocal, ChargeLocal,
              ZeroMeter, Settle, ResolveLocal, agentVars
<1>3. CASE FaultStep
  BY <1>3 DEF FaultStep, LoseReset, ResetLocalFails, HubCrash, AgentCrash, agentVars
<1> QED
  BY <1>1, <1>2, <1>3 DEF Remember, MeterLocal, Tick, Resolve, RequestReset, agentVars

LEMMA NextGrows == TypeInv /\ CountersInv /\ [Next]_vars => Grows /\ CountersInv'
<1> SUFFICES ASSUME TypeInv, CountersInv, [Next]_vars PROVE Grows /\ CountersInv'
  OBVIOUS
<1>1. CASE UNCHANGED <<counter, base, starts>>
  BY <1>1, GrowSame DEF TypeInv, CountersInv
<1>2. CASE \E n \in Nodes : Meter(n)
  BY <1>2, GrowMeter DEF TypeInv
<1>3. CASE ServeReset
  <2>1. mgr.node \in Nodes
    BY <1>3 DEF ServeReset, TypeInv, ControlInv
  <2> QED BY <1>3, <2>1, GrowBegin DEF ServeReset, TypeInv
<1>4. CASE ServeLate
  <2>1. PICK q \in late : BeginReset(q.node, q.id, FALSE)
    BY <1>4 DEF ServeLate
  <2>2. q.node \in Nodes
    BY DEF TypeInv, TypeOK, Request
  <2> QED BY <2>1, <2>2, GrowBegin DEF TypeInv
<1> QED BY <1>1, <1>2, <1>3, <1>4, StillUnchanged DEF Next, AgentStep, vars, agentVars

\* Fits and Final for the counters as a step leaves them.
FitsNext(n, from, value) ==
    /\ from \in starts'[n]
    /\ \A s \in starts'[n] : from < s => from + value <= s
    /\ from + value <= base'[n] + counter'[n]
FinalNext(n, from, value) == FitsNext(n, from, value) /\ from + value \in starts'[n]

\* A reading that fits a counter goes on fitting it.
LEMMA FitsStays ==
  ASSUME TypeOK, TypeOK', Grows, NEW n \in Nodes, NEW from \in Nat, NEW value \in Nat
  PROVE  /\ Fits(n, from, value) => FitsNext(n, from, value)
         /\ Final(n, from, value) => FinalNext(n, from, value)
<1>1. ASSUME Fits(n, from, value) PROVE FitsNext(n, from, value)
  <2>1. from \in starts'[n]
    BY <1>1 DEF Grows, Fits
  <2>2. from + value <= base'[n] + counter'[n]
    BY <1>1 DEF TypeOK, Grows, Fits
  <2>3. ASSUME NEW s \in starts'[n], from < s PROVE from + value <= s
    <3>1. s \in Nat
      BY DEF TypeOK
    <3>2. CASE s \in starts[n]
      BY <1>1, <2>3, <3>2 DEF Fits
    <3>3. CASE s \notin starts[n]
      BY <1>1, <3>1, <3>3 DEF TypeOK, Grows, Fits
    <3> QED BY <3>2, <3>3
  <2> QED BY <2>1, <2>2, <2>3 DEF FitsNext
<1> QED BY <1>1 DEF Final, FinalNext, Grows

\* What holds of the readings before a step, said of the counters after it.
LEMMA ReadingsStay ==
  ASSUME TypeInv, TypeInv', Grows, ReadingsInv
  PROVE  /\ \A n \in Nodes :
              /\ FitsNext(n, row[n].from, row[n].raw)
              /\ exec[n].busy => FinalNext(n, exec[n].from, exec[n].value)
              /\ \A m \in remembered[n] : FinalNext(n, m.from, m.value)
         /\ \A r \in Readers :
              sync[r].at = "read" => FitsNext(sync[r].node, sync[r].from, sync[r].value)
         /\ mgr.at \in {"answered", "applied"} => FinalNext(mgr.node, mgr.from, mgr.value)
<1>1. TypeOK /\ TypeOK'
  BY DEF TypeInv
<1>2. ASSUME NEW n \in Nodes
      PROVE  /\ FitsNext(n, row[n].from, row[n].raw)
             /\ exec[n].busy => FinalNext(n, exec[n].from, exec[n].value)
             /\ \A m \in remembered[n] : FinalNext(n, m.from, m.value)
  <2>1. row[n].from \in Nat /\ row[n].raw \in Nat /\ exec[n].from \in Nat /\ exec[n].value \in Nat
        /\ \A m \in remembered[n] : m.from \in Nat /\ m.value \in Nat
    BY DEF TypeInv, TypeOK, Row, Exec, Reset
  <2> QED BY <1>1, <2>1, FitsStays DEF ReadingsInv
<1>3. ASSUME NEW r \in Readers, sync[r].at = "read"
      PROVE  FitsNext(sync[r].node, sync[r].from, sync[r].value)
  <2>1. sync[r].node \in Nodes /\ sync[r].from \in Nat /\ sync[r].value \in Nat
    BY <1>3 DEF TypeInv, TypeOK, ControlInv, Reading
  <2> QED BY <1>1, <1>3, <2>1, FitsStays DEF ReadingsInv
<1>4. ASSUME mgr.at \in {"answered", "applied"} PROVE FinalNext(mgr.node, mgr.from, mgr.value)
  <2>1. mgr.node \in Nodes /\ mgr.from \in Nat /\ mgr.value \in Nat
    BY <1>4 DEF TypeInv, TypeOK, ControlInv, Manager
  <2> QED BY <1>1, <1>4, <2>1, FitsStays DEF ReadingsInv
<1> QED BY <1>2, <1>3, <1>4

\* ReadingsInv after a step, row by row.
LEMMA ReadingsNext ==
  ASSUME \A n \in Nodes : FitsNext(n, row'[n].from, row'[n].raw),
         \A n \in Nodes : exec'[n].busy => FinalNext(n, exec'[n].from, exec'[n].value),
         \A n \in Nodes : \A m \in remembered'[n] : FinalNext(n, m.from, m.value),
         \A r \in Readers :
            sync'[r].at = "read" => FitsNext(sync'[r].node, sync'[r].from, sync'[r].value),
         mgr'.at \in {"answered", "applied"} => FinalNext(mgr'.node, mgr'.from, mgr'.value)
  PROVE  ReadingsInv'
  BY DEF ReadingsInv, Fits, Final, FitsNext, FinalNext

-----------------------------------------------------------------------------
(* Every reading anywhere in the system fits its Node's counters.          *)

ReadingsAssumed ==
    TypeInv /\ TypeInv' /\ CountersInv /\ CountersInv' /\ Grows /\ ReadingsInv

LEMMA ReadingsBegin ==
  ASSUME ReadingsAssumed, NEW n \in Nodes, NEW id \in Ids, NEW live \in BOOLEAN,
         BeginReset(n, id, live), live => mgr.node = n,
         UNCHANGED <<row, sync>>
  PROVE  ReadingsInv'
<1>1. CASE UNCHANGED agentVars /\ \E m \in remembered[n] :
              IF live THEN Answered(m.from, m.value) ELSE UNCHANGED mgr
  <2>1. PICK m \in remembered[n] : IF live THEN Answered(m.from, m.value) ELSE UNCHANGED mgr
    BY <1>1
  <2>2. FinalNext(n, m.from, m.value)
    BY ReadingsStay DEF ReadingsAssumed
  <2>3. \/ UNCHANGED mgr
        \/ mgr'.node = n /\ mgr'.from = m.from /\ mgr'.value = m.value
    BY <2>1 DEF Answered, ReadingsAssumed, TypeInv, TypeOK, Manager
  <2>4. mgr'.at \in {"answered", "applied"} => FinalNext(mgr'.node, mgr'.from, mgr'.value)
    BY <2>2, <2>3, ReadingsStay DEF ReadingsAssumed
  <2>5. UNCHANGED <<remembered, exec>>
    BY <1>1 DEF agentVars
  <2> QED BY <2>4, <2>5, ReadingsStay, ReadingsNext DEF ReadingsAssumed
<1>2. CASE ResetCounter(n, id, live)
  <2>1. /\ base'[n] = base[n] + counter[n] /\ counter'[n] = 0
        /\ base[n] \in Nat /\ counter[n] \in Nat
        /\ base[n] \in starts[n] /\ starts'[n] = starts[n] \cup {base'[n]}
        /\ \A s \in starts[n] : s \in Nat /\ s <= base[n]
    BY <1>2, GrowReset DEF ReadingsAssumed, TypeInv, TypeOK, CountersInv
  <2>2. FinalNext(n, base[n], counter[n])
    BY <2>1 DEF FinalNext, FitsNext
  <2>3. exec'[n].from = base[n] /\ exec'[n].value = counter[n]
        /\ (\A k \in Nodes : k # n => exec'[k] = exec[k])
    BY <1>2 DEF ResetCounter, ReadingsAssumed, TypeInv, TypeOK
  <2>4. \A k \in Nodes : exec'[k].busy => FinalNext(k, exec'[k].from, exec'[k].value)
    BY <2>2, <2>3, ReadingsStay DEF ReadingsAssumed
  <2>5. mgr'.at = "executing" \/ UNCHANGED mgr
    BY <1>2 DEF ResetCounter, ReadingsAssumed, TypeInv, TypeOK, Manager
  <2>6. UNCHANGED remembered
    BY <1>2 DEF ResetCounter
  <2> QED BY <2>4, <2>5, <2>6, ReadingsStay, ReadingsNext DEF ReadingsAssumed
<1> QED BY <1>1, <1>2 DEF BeginReset

LEMMA ReadingsAgent == ReadingsAssumed /\ AgentStep => ReadingsInv'
<1>1. ASSUME ReadingsAssumed, NEW n \in Nodes, Meter(n) PROVE ReadingsInv'
  <2>1. UNCHANGED <<row, exec, remembered, sync, mgr>>
    BY <1>1 DEF Meter, rowVars
  <2> QED BY <1>1, <2>1, ReadingsStay, ReadingsNext DEF ReadingsAssumed
<1>2. ASSUME ReadingsAssumed, NEW n \in Nodes, Remember(n) PROVE ReadingsInv'
  <2>1. FinalNext(n, exec[n].from, exec[n].value)
    BY <1>2, ReadingsStay DEF ReadingsAssumed, Remember
  <2>2. ASSUME NEW k \in Nodes, NEW m \in remembered'[k] PROVE FinalNext(k, m.from, m.value)
    <3>1. \/ m \in remembered[k]
          \/ k = n /\ m = [id |-> exec[n].id, from |-> exec[n].from, value |-> exec[n].value]
      BY <1>2, <2>2 DEF Remember, ReadingsAssumed, TypeInv, TypeOK
    <3> QED BY <1>2, <2>1, <3>1, ReadingsStay DEF ReadingsAssumed
  <2>3. \A k \in Nodes : exec'[k].busy => exec'[k] = exec[k]
    BY <1>2, Constants DEF Remember, ReadingsAssumed, TypeInv, TypeOK
  <2>4. \A k \in Nodes : exec'[k].busy => FinalNext(k, exec'[k].from, exec'[k].value)
    BY <1>2, <2>3, ReadingsStay DEF ReadingsAssumed
  <2>5. \/ UNCHANGED mgr
        \/ mgr'.node = n /\ mgr'.from = exec[n].from /\ mgr'.value = exec[n].value
    <3>1. mgr \in Manager /\ (exec[n].live => mgr.node = n)
      BY <1>2 DEF ReadingsAssumed, TypeInv, TypeOK, ControlInv
    <3>2. UNCHANGED mgr \/ (exec[n].live /\ Answered(exec[n].from, exec[n].value))
      BY <1>2 DEF Remember
    <3> QED BY <3>1, <3>2 DEF Answered, Manager
  <2>6. mgr'.at \in {"answered", "applied"} => FinalNext(mgr'.node, mgr'.from, mgr'.value)
    BY <1>2, <2>1, <2>5, ReadingsStay DEF ReadingsAssumed
  <2>7. UNCHANGED <<row, sync>>
    BY <1>2 DEF Remember, rowVars
  <2> QED BY <1>2, <2>2, <2>4, <2>6, <2>7, ReadingsStay, ReadingsNext DEF ReadingsAssumed
<1>3. ASSUME ReadingsAssumed, ServeReset PROVE ReadingsInv'
  <2>1. mgr.node \in Nodes /\ op.id \in Ids
    BY <1>3 DEF ServeReset, ReadingsAssumed, TypeInv, ControlInv
  <2> QED BY <1>3, <2>1, ReadingsBegin DEF ServeReset, rowVars
<1>4. ASSUME ReadingsAssumed, ServeLate PROVE ReadingsInv'
  <2>1. PICK q \in late : BeginReset(q.node, q.id, FALSE)
    BY <1>4 DEF ServeLate
  <2>2. q.node \in Nodes /\ q.id \in Ids
    BY <1>4 DEF ReadingsAssumed, TypeInv, TypeOK, Request
  <2> QED BY <1>4, <2>1, <2>2, ReadingsBegin DEF ServeLate, rowVars
<1> QED BY <1>1, <1>2, <1>3, <1>4 DEF AgentStep

\* Apply takes the reading over as the row's.
LEMMA AppliedRow ==
  ASSUME TypeOK, NEW n \in Nodes, NEW from \in Nat, NEW value \in Nat, Apply(n, from, value)
  PROVE  /\ row'[n].from = from /\ row'[n].raw = value /\ row'[n].init
         /\ \A k \in Nodes : k # n => row'[k] = row[k]
  BY DEF TypeOK, Apply

LEMMA ReadingsSync == ReadingsAssumed /\ SyncStep => ReadingsInv'
<1> SUFFICES ASSUME ReadingsAssumed, NEW r \in Readers,
                    \/ \E n \in Nodes : SyncRead(r, n)
                    \/ SyncApply(r) \/ SyncLose(r)
             PROVE  ReadingsInv'
  BY DEF SyncStep
<1>1. CASE \E n \in Nodes : SyncRead(r, n)
  <2> PICK n \in Nodes : SyncRead(r, n)
    BY <1>1
  <2>1. UNCHANGED <<counter, base, starts, exec, remembered, row, mgr>>
    BY DEF SyncRead, agentVars, rowVars
  <2>2. FitsNext(n, base[n], counter[n])
    BY <2>1 DEF FitsNext, ReadingsAssumed, TypeInv, TypeOK, CountersInv
  <2>3. /\ sync'[r].node = n /\ sync'[r].from = base[n] /\ sync'[r].value = counter[n]
        /\ \A k \in Readers : k # r => sync'[k] = sync[k]
    BY DEF SyncRead, ReadingsAssumed, TypeInv, TypeOK
  <2>4. \A k \in Readers :
           sync'[k].at = "read" => FitsNext(sync'[k].node, sync'[k].from, sync'[k].value)
    BY <2>2, <2>3, ReadingsStay DEF ReadingsAssumed
  <2> QED BY <2>1, <2>4, ReadingsStay, ReadingsNext DEF ReadingsAssumed
<1>2. CASE SyncApply(r)
  <2>1. /\ sync[r].at = "read" /\ sync[r].node \in Nodes
        /\ sync[r].from \in Nat /\ sync[r].value \in Nat
        /\ Apply(sync[r].node, sync[r].from, sync[r].value)
    BY <1>2 DEF SyncApply, ReadingsAssumed, TypeInv, TypeOK, ControlInv, Reading
  <2>2. \A n \in Nodes : \/ row'[n] = row[n]
                         \/ /\ n = sync[r].node /\ row'[n].from = sync[r].from
                            /\ row'[n].raw = sync[r].value
    <3>1. TypeOK
      BY DEF ReadingsAssumed, TypeInv
    <3> QED BY <2>1, <3>1, AppliedRow
  <2>3. \A n \in Nodes : FitsNext(n, row'[n].from, row'[n].raw)
    BY <2>1, <2>2, ReadingsStay DEF ReadingsAssumed
  <2>4. \A k \in Readers : sync'[k].at = "read" => sync'[k] = sync[k]
    BY <1>2, Constants DEF SyncApply, ReadingsAssumed, TypeInv, TypeOK
  <2>5. UNCHANGED <<exec, remembered, mgr>>
    BY <1>2 DEF SyncApply, agentVars
  <2> QED BY <2>3, <2>4, <2>5, ReadingsStay, ReadingsNext DEF ReadingsAssumed
<1>3. CASE SyncLose(r)
  <2>1. \A k \in Readers : sync'[k].at = "read" => sync'[k] = sync[k]
    BY <1>3, Constants DEF SyncLose, ReadingsAssumed, TypeInv, TypeOK
  <2>2. UNCHANGED <<exec, remembered, mgr, row>>
    BY <1>3 DEF SyncLose, agentVars, rowVars
  <2> QED BY <2>1, <2>2, ReadingsStay, ReadingsNext DEF ReadingsAssumed
<1> QED BY <1>1, <1>2, <1>3

LEMMA ReadingsManager == ReadingsAssumed /\ ManagerStep => ReadingsInv'
<1> SUFFICES ASSUME ReadingsAssumed, ManagerStep PROVE ReadingsInv'
  OBVIOUS
<1>1. UNCHANGED <<exec, remembered, sync>>
  BY DEF ManagerStep, BeginOp, SendReset, ApplyFinal, ZeroRow, ResetLocal, ChargeLocal,
         ZeroMeter, Settle, ResolveLocal, agentVars
<1>2. CASE ApplyFinal
  <2>1. /\ mgr.at = "answered" /\ mgr.node \in Nodes
        /\ mgr.from \in Nat /\ mgr.value \in Nat
        /\ Apply(mgr.node, mgr.from, mgr.value)
    BY <1>2 DEF ApplyFinal, ReadingsAssumed, TypeInv, TypeOK, ControlInv, Manager
  <2>2. FinalNext(mgr.node, mgr.from, mgr.value)
    BY <2>1, ReadingsStay DEF ReadingsAssumed
  <2>3. \A n \in Nodes : \/ row'[n] = row[n]
                         \/ n = mgr.node /\ row'[n].from = mgr.from /\ row'[n].raw = mgr.value
    <3>1. TypeOK
      BY DEF ReadingsAssumed, TypeInv
    <3> QED BY <2>1, <3>1, AppliedRow
  <2>4. \A n \in Nodes : FitsNext(n, row'[n].from, row'[n].raw)
    BY <2>2, <2>3, ReadingsStay DEF ReadingsAssumed, FinalNext
  <2>5. mgr'.node = mgr.node /\ mgr'.from = mgr.from /\ mgr'.value = mgr.value
    BY <1>2 DEF ApplyFinal, ReadingsAssumed, TypeInv, TypeOK, Manager
  <2> QED BY <1>1, <2>2, <2>4, <2>5, ReadingsStay, ReadingsNext DEF ReadingsAssumed
<1>3. CASE ZeroRow
  <2>1. mgr.at = "applied" /\ mgr.node \in Nodes /\ mgr.from \in Nat /\ mgr.value \in Nat
    BY <1>3 DEF ZeroRow, ReadingsAssumed, TypeInv, TypeOK, ControlInv, Manager
  <2>2. FinalNext(mgr.node, mgr.from, mgr.value)
    BY <2>1, ReadingsStay DEF ReadingsAssumed
  <2>3. \A s \in starts'[mgr.node] : s \in Nat /\ s <= base'[mgr.node]
    BY <2>1 DEF ReadingsAssumed, TypeInv, TypeOK, CountersInv
  <2>4. base'[mgr.node] \in Nat /\ counter'[mgr.node] \in Nat
    BY <2>1 DEF ReadingsAssumed, TypeInv, TypeOK
  <2>5. FitsNext(mgr.node, mgr.from + mgr.value, 0)
    BY <2>1, <2>2, <2>3, <2>4 DEF FinalNext, FitsNext
  <2>6. \A n \in Nodes : \/ row'[n] = row[n]
                         \/ /\ n = mgr.node /\ row'[n].from = mgr.from + mgr.value
                            /\ row'[n].raw = 0
    BY <1>3, <2>1 DEF ZeroRow, ReadingsAssumed, TypeInv, TypeOK
  <2>7. \A n \in Nodes : FitsNext(n, row'[n].from, row'[n].raw)
    BY <2>5, <2>6, ReadingsStay DEF ReadingsAssumed
  <2>8. mgr'.at = "next"
    BY <1>3 DEF ZeroRow, NextNode, ReadingsAssumed, TypeInv, TypeOK, Manager
  <2> QED BY <1>1, <2>7, <2>8, ReadingsStay, ReadingsNext DEF ReadingsAssumed
<1>4. CASE ZeroMeter
  <2>1. \A n \in Nodes : row'[n].from = row[n].from /\ row'[n].raw = row[n].raw
    BY <1>4 DEF ZeroMeter, ReadingsAssumed, TypeInv, TypeOK, Row
  <2>2. mgr'.at = "settle"
    BY <1>4 DEF ZeroMeter, ReadingsAssumed, TypeInv, TypeOK, Manager
  <2> QED BY <1>1, <2>1, <2>2, ReadingsStay, ReadingsNext DEF ReadingsAssumed
<1>5. CASE BeginOp \/ SendReset \/ ResetLocal \/ ChargeLocal \/ Settle \/ ResolveLocal
  <2>1. mgr'.at \notin {"answered", "applied"}
    BY <1>5, Constants
    DEF BeginOp, SendReset, ResetLocal, ChargeLocal, Settle, ResolveLocal,
        ReadingsAssumed, TypeInv, TypeOK, Manager
  <2>2. UNCHANGED row
    BY <1>5 DEF BeginOp, SendReset, ResetLocal, ChargeLocal, Settle, ResolveLocal, rowVars
  <2> QED BY <1>1, <2>1, <2>2, ReadingsStay, ReadingsNext DEF ReadingsAssumed
<1> QED BY <1>2, <1>3, <1>4, <1>5 DEF ManagerStep

LEMMA ReadingsFault == ReadingsAssumed /\ FaultStep => ReadingsInv'
<1> SUFFICES ASSUME ReadingsAssumed, FaultStep PROVE ReadingsInv'
  OBVIOUS
<1>1. UNCHANGED <<row, remembered>>
  BY DEF FaultStep, LoseReset, ResetLocalFails, HubCrash, AgentCrash, rowVars, agentVars
<1>2. \A n \in Nodes :
         exec'[n].busy => exec[n].busy /\ exec'[n].from = exec[n].from
                          /\ exec'[n].value = exec[n].value
  BY OrphanType, Constants
  DEF FaultStep, LoseReset, ResetLocalFails, HubCrash, AgentCrash, agentVars,
      ReadingsAssumed, TypeInv, TypeOK
<1>3. \A r \in Readers : sync'[r].at = "read" => sync'[r] = sync[r]
  BY Constants DEF FaultStep, LoseReset, ResetLocalFails, HubCrash, AgentCrash
<1>4. mgr'.at = "idle" \/ UNCHANGED mgr
  BY Constants DEF FaultStep, LoseReset, ResetLocalFails, HubCrash, AgentCrash, GiveUp
<1>5. \A n \in Nodes : exec'[n].busy => FinalNext(n, exec'[n].from, exec'[n].value)
  BY <1>2, ReadingsStay DEF ReadingsAssumed
<1> QED BY <1>1, <1>3, <1>4, <1>5, ReadingsStay, ReadingsNext DEF ReadingsAssumed

LEMMA NextReadings == ReadingsAssumed /\ [Next]_vars => ReadingsInv'
<1> SUFFICES ASSUME ReadingsAssumed, [Next]_vars PROVE ReadingsInv'
  OBVIOUS
<1>1. CASE UNCHANGED vars \/ MeterLocal
  <2>1. UNCHANGED <<row, exec, remembered, sync, mgr>>
    BY <1>1 DEF MeterLocal, vars, agentVars, rowVars
  <2> QED BY <2>1, ReadingsStay, ReadingsNext DEF ReadingsAssumed
<1>2. CASE Tick \/ Resolve \/ \E i \in Ids : RequestReset(i)
  <2>1. UNCHANGED <<row, exec, remembered, sync>>
    BY <1>2 DEF Tick, Resolve, RequestReset, agentVars, rowVars
  <2>2. mgr \in Manager
    BY DEF ReadingsAssumed, TypeInv, TypeOK
  <2>3. UNCHANGED mgr \/ mgr'.at \in {"tick", "begin", "next"}
    BY <1>2, <2>2 DEF Tick, Resolve, RequestReset, Manager
  <2> QED BY <2>1, <2>3, ReadingsStay, ReadingsNext DEF ReadingsAssumed
<1> QED
  BY <1>1, <1>2, ReadingsAgent, ReadingsSync, ReadingsManager, ReadingsFault DEF Next

-----------------------------------------------------------------------------
(* The ledger of the Nodes.                                                *)

LEMMA LedgerApply ==
  ASSUME TypeOK, ReadingsInv, LedgerInv, NEW n \in Nodes, NEW from \in Nat, NEW value \in Nat,
         from \in starts[n], Apply(n, from, value)
  PROVE  LedgerInv'
<1> DEFINE d == IF row[n].init THEN Delta(row[n], value) ELSE 0
<1>1. /\ row[n] \in Row /\ charged[n] \in Nat /\ adopted[n] \in Nat
      /\ order[n] \in {"inOrder", "skipped", "disturbed"}
  BY DEF TypeOK
<1>2. /\ row[n].raw \in Nat /\ row[n].from \in Nat
      /\ row[n].from < from => row[n].from + row[n].raw <= from
  BY <1>1 DEF Row, ReadingsInv, Fits
<1>3. /\ ~row[n].init => /\ row[n].raw = 0 /\ row[n].from = 0
                         /\ charged[n] = 0 /\ adopted[n] = 0
      /\ order[n] = "inOrder" => charged[n] = row[n].from + row[n].raw - adopted[n]
      /\ order[n] = "skipped" => charged[n] <= row[n].from + row[n].raw - adopted[n]
  BY DEF LedgerInv
<1>4. d = IF row[n].init THEN IF value >= row[n].raw THEN value - row[n].raw ELSE value ELSE 0
  BY DEF Delta
<1> HIDE DEF d
<1>5. /\ row'[n].from = from /\ row'[n].raw = value /\ row'[n].init
      /\ \A k \in Nodes : k # n => row'[k] = row[k]
  BY AppliedRow
<1>6. /\ charged' = [charged EXCEPT ![n] = charged[n] + d]
      /\ adopted' = IF row[n].init THEN adopted ELSE [adopted EXCEPT ![n] = from + value]
      /\ order' = [order EXCEPT ![n] = OrderAfter(n, from, value)]
  BY DEF Apply, d
<1>7. /\ charged'[n] = charged[n] + d /\ order'[n] = OrderAfter(n, from, value)
      /\ adopted'[n] = IF row[n].init THEN adopted[n] ELSE from + value
      /\ \A k \in Nodes : k # n => /\ charged'[k] = charged[k] /\ adopted'[k] = adopted[k]
                                   /\ order'[k] = order[k]
  BY <1>6 DEF TypeOK
<1>8. /\ order'[n] = "inOrder" => charged'[n] = from + value - adopted'[n]
      /\ order'[n] = "skipped" => charged'[n] <= from + value - adopted'[n]
  <2>1. CASE ~row[n].init
    BY <1>1, <1>3, <1>4, <1>7, <2>1
  <2>2. CASE row[n].init /\ from = row[n].from /\ value >= row[n].raw
    BY <1>1, <1>2, <1>3, <1>4, <1>7, <2>2 DEF OrderAfter
  <2>3. CASE row[n].init /\ ~(from = row[n].from /\ value >= row[n].raw)
             /\ from > row[n].from /\ order[n] # "disturbed"
    <3>1. order'[n] = "skipped"
      BY <1>7, <2>3 DEF OrderAfter
    <3>2. charged[n] <= from - adopted[n]
      BY <1>1, <1>2, <1>3, <2>3
    <3>3. d <= value /\ d \in Nat
      BY <1>2, <1>4, <2>3
    <3> QED BY <1>1, <1>7, <2>3, <3>1, <3>2, <3>3
  <2>4. CASE row[n].init /\ ~(from = row[n].from /\ value >= row[n].raw)
             /\ ~(from > row[n].from /\ order[n] # "disturbed")
    BY <1>7, <2>4 DEF OrderAfter
  <2> QED BY <2>1, <2>2, <2>3, <2>4
<1> QED BY <1>5, <1>7, <1>8 DEF LedgerInv

LEMMA LedgerZeroRow == TypeInv /\ LedgerInv /\ ZeroRow => LedgerInv'
<1> SUFFICES ASSUME TypeInv, LedgerInv, ZeroRow PROVE LedgerInv'
  OBVIOUS
<1>1. mgr.node \in Nodes /\ mgr.from \in Nat /\ mgr.value \in Nat
  BY DEF ZeroRow, TypeInv, TypeOK, ControlInv, Manager
<1> DEFINE n == mgr.node
<1>2. /\ row'[n] = [init |-> TRUE, raw |-> 0, current |-> 0, from |-> mgr.from + mgr.value]
      /\ order'[n] = IF row[n].from = mgr.from /\ row[n].raw = mgr.value THEN order[n]
                     ELSE "disturbed"
      /\ \A k \in Nodes : k # n => row'[k] = row[k] /\ order'[k] = order[k]
  BY <1>1 DEF ZeroRow, TypeInv, TypeOK
<1>3. UNCHANGED <<charged, adopted>>
  BY DEF ZeroRow
<1>4. row'[n].init /\ row'[n].raw = 0 /\ row'[n].from = mgr.from + mgr.value
  BY <1>2
<1>5. charged[n] \in Nat /\ adopted[n] \in Nat
  BY <1>1 DEF TypeInv, TypeOK
<1>6. /\ order[n] = "inOrder" => charged[n] = row[n].from + row[n].raw - adopted[n]
      /\ order[n] = "skipped" => charged[n] <= row[n].from + row[n].raw - adopted[n]
  BY <1>1 DEF LedgerInv
<1>7. /\ order'[n] = "inOrder" => charged'[n] = row'[n].from + row'[n].raw - adopted'[n]
      /\ order'[n] = "skipped" => charged'[n] <= row'[n].from + row'[n].raw - adopted'[n]
  BY <1>1, <1>2, <1>3, <1>4, <1>5, <1>6
<1> QED BY <1>2, <1>3, <1>4, <1>7 DEF LedgerInv

LEMMA NextLedger == TypeInv /\ ReadingsInv /\ LedgerInv /\ [Next]_vars => LedgerInv'
<1> SUFFICES ASSUME TypeInv, ReadingsInv, LedgerInv, [Next]_vars PROVE LedgerInv'
  OBVIOUS
<1>1. CASE UNCHANGED <<row, charged, adopted, order>>
  BY <1>1 DEF LedgerInv
<1>2. CASE \E r \in Readers : SyncApply(r)
  <2>1. PICK r \in Readers : SyncApply(r)
    BY <1>2
  <2>2. sync[r].node \in Nodes /\ sync[r].from \in Nat /\ sync[r].value \in Nat
    BY <2>1 DEF SyncApply, TypeInv, TypeOK, ControlInv, Reading
  <2>3. sync[r].from \in starts[sync[r].node]
    BY <2>1 DEF SyncApply, ReadingsInv, Fits
  <2> QED BY <2>1, <2>2, <2>3, LedgerApply DEF SyncApply, TypeInv
<1>3. CASE ApplyFinal
  <2>1. mgr.node \in Nodes /\ mgr.from \in Nat /\ mgr.value \in Nat
    BY <1>3 DEF ApplyFinal, TypeInv, TypeOK, ControlInv, Manager
  <2>2. mgr.from \in starts[mgr.node]
    BY <1>3 DEF ApplyFinal, ReadingsInv, Fits, Final
  <2> QED BY <1>3, <2>1, <2>2, LedgerApply DEF ApplyFinal, TypeInv
<1>4. CASE ZeroRow
  BY <1>4, LedgerZeroRow
<1>5. CASE ZeroMeter
  <2>1. \A n \in Nodes : row'[n].from = row[n].from /\ row'[n].raw = row[n].raw
                         /\ (row'[n].init <=> row[n].init)
    BY <1>5 DEF ZeroMeter, TypeInv, TypeOK, Row
  <2>2. UNCHANGED <<charged, adopted, order>>
    BY <1>5 DEF ZeroMeter
  <2> QED BY <2>1, <2>2 DEF LedgerInv
<1>6. CASE AgentStep
  <2>1. UNCHANGED rowVars
    BY <1>6 DEF AgentStep, Meter, Remember, ServeReset, ServeLate
  <2> QED BY <1>1, <2>1 DEF rowVars
<1>7. CASE ManagerStep
  BY <1>1, <1>3, <1>4, <1>5, <1>7
  DEF ManagerStep, BeginOp, SendReset, ResetLocal, ChargeLocal, Settle, ResolveLocal, rowVars
<1>8. CASE FaultStep
  BY <1>1, <1>8 DEF FaultStep, LoseReset, ResetLocalFails, HubCrash, AgentCrash, rowVars
<1>9. CASE SyncStep
  BY <1>1, <1>2, <1>9 DEF SyncStep, SyncRead, SyncLose, rowVars
<1> QED
  BY <1>1, <1>6, <1>7, <1>8, <1>9 DEF Next, MeterLocal, Tick, Resolve, RequestReset, vars, rowVars

-----------------------------------------------------------------------------
(* The Hub's own counter.                                                  *)

LocalTypes ==
    /\ local \in Nat /\ last \in Nat /\ localTotal \in Nat /\ localCharged \in Nat
    /\ mgr \in Manager /\ mgr.seen \in Nat

LEMMA LocalTyped == TypeInv => LocalTypes
  BY DEF TypeInv, TypeOK, LocalTypes, Manager

\* Nothing of the Hub's counter moves, and the manager does not enter a
\* place LocalInv speaks of.
LEMMA LocalStays ==
  ASSUME LocalInv, LocalTypes,
         UNCHANGED <<local, last, localTotal, localCharged>>,
         mgr'.at \notin {"charge", "zero"},
         mgr'.resolve /\ mgr'.at # "settle" =>
             mgr.resolve /\ mgr.at # "settle" /\ mgr'.seen = mgr.seen
  PROVE  LocalInv'
  BY DEF LocalInv, LocalTypes, Uncharged, ChargedTo

LEMMA LocalManager == TypeInv /\ LocalInv /\ ManagerStep => LocalInv'
<1> SUFFICES ASSUME TypeInv, LocalInv, LocalTypes, ManagerStep PROVE LocalInv'
  BY LocalTyped
<1>1. CASE BeginOp \/ SendReset \/ ApplyFinal \/ ZeroRow
  <2>1. UNCHANGED <<local, last, localTotal, localCharged>>
    BY <1>1 DEF BeginOp, SendReset, ApplyFinal, ZeroRow, Apply, localVars, meterVars
  <2>2. /\ mgr'.at \in {"next", "sent", "applied"} /\ mgr'.seen = mgr.seen
        /\ mgr'.resolve = mgr.resolve /\ mgr.at # "settle"
    BY <1>1 DEF BeginOp, SendReset, ApplyFinal, ZeroRow, NextNode, LocalTypes, Manager
  <2> QED BY <2>1, <2>2, LocalStays
<1>2. CASE ResetLocal
  <2>1. /\ mgr'.at = "charge" /\ mgr'.seen = local /\ ~mgr'.resolve
        /\ local' = 0 /\ UNCHANGED <<last, localTotal, localCharged>>
    BY <1>2 DEF ResetLocal, LocalTypes, Manager, meterVars
  <2> QED BY <2>1 DEF LocalInv, LocalTypes, Uncharged, ChargedTo
<1>3. CASE ChargeLocal
  <2>1. /\ mgr.at = "charge" /\ mgr'.at = "zero" /\ mgr'.resolve = mgr.resolve
        /\ ~mgr.resolve
        /\ localCharged' = localCharged + (IF mgr.seen >= last THEN mgr.seen - last ELSE mgr.seen)
        /\ last' = mgr.seen /\ UNCHANGED <<local, localTotal>>
    BY <1>3 DEF ChargeLocal, Charge, LocalTypes, Manager, TypeInv, ControlInv, localVars
  <2>2. localCharged' + local <= localTotal
    BY <2>1 DEF LocalInv, LocalTypes, ChargedTo
  <2> QED BY <2>1, <2>2 DEF LocalInv, Uncharged
<1>4. CASE ZeroMeter
  <2>1. /\ mgr.at = "zero" /\ mgr'.at = "settle" /\ last' = 0
        /\ UNCHANGED <<local, localTotal, localCharged>>
    BY <1>4 DEF ZeroMeter, LocalTypes, Manager, localVars
  <2> QED BY <2>1 DEF LocalInv, Uncharged
<1>5. CASE Settle
  <2>1. /\ ~mgr'.resolve /\ mgr'.at = "idle"
        /\ UNCHANGED <<local, last, localTotal, localCharged>>
    BY <1>5, Constants DEF Settle, localVars, meterVars
  <2> QED BY <2>1, LocalStays
<1>6. CASE ResolveLocal
  <2>1. /\ mgr.at = "next" /\ mgr.resolve /\ mgr'.at = "settle"
        /\ localCharged' = localCharged + (IF mgr.seen >= last THEN mgr.seen - last ELSE mgr.seen)
        /\ last' = mgr.seen /\ UNCHANGED <<local, localTotal>>
    BY <1>6 DEF ResolveLocal, Charge, LocalTypes, Manager, localVars
  <2>2. last' <= local /\ localCharged' + (local - last') <= localTotal
    BY <2>1 DEF LocalInv, LocalTypes, Uncharged
  <2> QED BY <2>1, <2>2 DEF LocalInv
<1> QED BY <1>1, <1>2, <1>3, <1>4, <1>5, <1>6 DEF ManagerStep

LEMMA LocalIdle ==
  ASSUME TypeInv, LocalInv, Tick \/ Resolve \/ \E i \in Ids : RequestReset(i)
  PROVE  LocalInv'
<1> USE LocalTyped
<1>1. mgr.at \in {"idle", "tick"} /\ ~mgr.resolve
  BY DEF Tick, Resolve, RequestReset, TypeInv, ControlInv
<1>2. CASE Resolve
  <2>1. /\ mgr'.seen = local /\ mgr'.at = "next"
        /\ UNCHANGED <<local, last, localTotal, localCharged>>
    BY <1>2 DEF Resolve, LocalTypes, Manager, localVars, meterVars
  <2> QED BY <2>1 DEF LocalInv, LocalTypes, Uncharged
<1>3. CASE Charge(local) /\ UNCHANGED localVars /\ mgr'.at \in {"idle", "tick", "begin"} /\ ~mgr'.resolve
  <2>1. last' <= local /\ localCharged' + (local - last') <= localTotal
    BY <1>3 DEF Charge, LocalInv, LocalTypes, Uncharged
  <2> QED BY <1>3, <2>1 DEF LocalInv, localVars
<1>4. ASSUME Tick \/ \E i \in Ids : RequestReset(i)
      PROVE  /\ Charge(local) /\ UNCHANGED localVars /\ mgr'.at \in {"idle", "tick", "begin"}
             /\ ~mgr'.resolve
  BY <1>1, <1>4 DEF Tick, RequestReset, LocalTypes, Manager
<1> QED BY <1>2, <1>3, <1>4

LEMMA NextLocal == TypeInv /\ LocalInv /\ [Next]_vars => LocalInv'
<1> SUFFICES ASSUME TypeInv, LocalInv, LocalTypes, [Next]_vars PROVE LocalInv'
  BY LocalTyped
<1>1. CASE UNCHANGED vars
  BY <1>1 DEF LocalInv, Uncharged, ChargedTo, vars, localVars, meterVars
<1>2. CASE MeterLocal
  BY <1>2 DEF MeterLocal, LocalInv, LocalTypes, Uncharged, ChargedTo, meterVars
<1>3. CASE AgentStep
  <2>1. UNCHANGED <<local, last, localTotal, localCharged>>
    BY <1>3 DEF AgentStep, Meter, Remember, ServeReset, ServeLate, localVars, meterVars
  <2>2. UNCHANGED mgr \/ /\ mgr'.at \in {"executing", "answered"} /\ mgr'.seen = mgr.seen
                         /\ mgr'.resolve = mgr.resolve /\ mgr.at # "settle"
    <3>1. mgr \in Manager
      BY DEF LocalTypes
    <3>2. CASE ServeReset
      BY <3>1, <3>2 DEF ServeReset, BeginReset, ResetCounter, Answered, Manager
    <3>3. CASE ServeLate
      BY <3>1, <3>3 DEF ServeLate, BeginReset, ResetCounter
    <3>4. ASSUME NEW n \in Nodes, Remember(n) \/ Meter(n)
          PROVE  \/ UNCHANGED mgr
                 \/ /\ mgr'.at \in {"executing", "answered"} /\ mgr'.seen = mgr.seen
                    /\ mgr'.resolve = mgr.resolve /\ mgr.at # "settle"
      <4>1. exec[n].live => mgr.at = "executing"
        BY DEF TypeInv, ControlInv
      <4> QED BY <3>1, <3>4, <4>1 DEF Remember, Meter, Answered, Manager
    <3> QED BY <1>3, <3>2, <3>3, <3>4 DEF AgentStep
  <2>3. CASE UNCHANGED mgr
    BY <2>1, <2>3 DEF LocalInv, Uncharged, ChargedTo
  <2>4. CASE mgr'.at \in {"executing", "answered"} /\ mgr'.seen = mgr.seen
             /\ mgr'.resolve = mgr.resolve /\ mgr.at # "settle"
    BY <2>1, <2>4, LocalStays
  <2> QED BY <2>2, <2>3, <2>4
<1>4. CASE SyncStep
  <2>1. UNCHANGED <<local, last, localTotal, localCharged, mgr>>
    BY <1>4 DEF SyncStep, SyncRead, SyncApply, SyncLose, Apply, localVars, meterVars
  <2> QED BY <2>1 DEF LocalInv, Uncharged, ChargedTo
<1>5. CASE FaultStep
  <2>1. UNCHANGED <<local, last, localTotal, localCharged>>
    BY <1>5 DEF FaultStep, LoseReset, ResetLocalFails, HubCrash, AgentCrash, localVars, meterVars
  <2>2. mgr' = IdleMgr \/ UNCHANGED mgr
    BY <1>5 DEF FaultStep, LoseReset, ResetLocalFails, HubCrash, AgentCrash, GiveUp
  <2>3. CASE mgr' = IdleMgr
    BY <2>1, <2>3, LocalStays, Constants
  <2>4. CASE UNCHANGED mgr
    BY <2>1, <2>4 DEF LocalInv, Uncharged, ChargedTo
  <2> QED BY <2>2, <2>3, <2>4
<1> QED BY <1>1, <1>2, <1>3, <1>4, <1>5, LocalManager, LocalIdle DEF Next

-----------------------------------------------------------------------------
(* The reset operation.                                                    *)

\* An Agent never forgets a reset it has remembered.
LEMMA NextRemembers ==
  ASSUME TypeInv, [Next]_vars, NEW n \in Nodes PROVE remembered[n] \subseteq remembered'[n]
<1>1. ASSUME NEW k \in Nodes, Remember(k) PROVE remembered[n] \subseteq remembered'[n]
  BY <1>1 DEF Remember, TypeInv, TypeOK
<1>2. CASE UNCHANGED remembered
  BY <1>2
<1>3. CASE ServeReset \/ ServeLate \/ \E k \in Nodes : Meter(k)
  BY <1>2, <1>3 DEF ServeReset, ServeLate, Meter, BeginReset, ResetCounter, agentVars
<1>4. CASE SyncStep
  BY <1>2, <1>4 DEF SyncStep, SyncRead, SyncApply, SyncLose, agentVars
<1>5. CASE ManagerStep
  BY <1>2, <1>5 DEF ManagerStep, BeginOp, SendReset, ApplyFinal, ZeroRow, ResetLocal,
                    ChargeLocal, ZeroMeter, Settle, ResolveLocal, agentVars
<1>6. CASE FaultStep
  BY <1>2, <1>6 DEF FaultStep, LoseReset, ResetLocalFails, HubCrash, AgentCrash, agentVars
<1> QED
  BY <1>1, <1>2, <1>3, <1>4, <1>5, <1>6
  DEF Next, AgentStep, MeterLocal, Tick, Resolve, RequestReset, vars, agentVars

\* Done of the operation and the memory as a step leaves them.
DoneNext(n) == \E m \in remembered'[n] : m.id = op'.id

LEMMA DoneStays ==
  ASSUME TypeInv, [Next]_vars, op'.id = op.id, NEW n \in Nodes, Done(n) PROVE DoneNext(n)
  BY NextRemembers DEF Done, DoneNext

\* The walk is where it was, or has advanced to a place that promises no more.
LEMMA ResetStays ==
  ASSUME TypeInv, ResetInv, [Next]_vars, op'.id = op.id, mgr'.todo = mgr.todo,
         mgr.at \in {"next", "sent", "executing", "answered", "applied"},
         mgr'.at \in {"next", "sent", "executing", "answered", "applied"},
         mgr'.at \in {"answered", "applied"} => DoneNext(mgr'.node)
  PROVE  ResetInv'
<1>1. \A n \in Nodes \ mgr.todo : DoneNext(n)
  BY DoneStays DEF ResetInv
<1> QED BY <1>1 DEF ResetInv, Done, DoneNext

LEMMA ResetAgent == TypeInv /\ ResetInv /\ [Next]_vars /\ AgentStep => ResetInv'
<1> SUFFICES ASSUME TypeInv, ResetInv, [Next]_vars, AgentStep PROVE ResetInv'
  OBVIOUS
<1>1. UNCHANGED op /\ mgr \in Manager
  BY DEF AgentStep, Meter, Remember, ServeReset, ServeLate, TypeInv, TypeOK
<1>2. CASE UNCHANGED mgr
  <2>1. \A n \in Nodes : Done(n) => DoneNext(n)
    BY <1>1, DoneStays
  <2>2. mgr.at \in {"answered", "applied"} => mgr.node \in Nodes
    BY DEF TypeInv, ControlInv
  <2> QED BY <1>1, <1>2, <2>1, <2>2 DEF ResetInv, Done, DoneNext
<1>3. CASE ServeReset
  <2>1. mgr.at = "sent" /\ mgr.node \in Nodes
    BY <1>3 DEF ServeReset, TypeInv, ControlInv
  <2>2. CASE UNCHANGED agentVars /\ \E m \in remembered[mgr.node] :
                m.id = op.id /\ Answered(m.from, m.value)
    <3>1. mgr'.at = "answered" /\ mgr'.node = mgr.node /\ mgr'.todo = mgr.todo
      BY <1>1, <2>2 DEF Answered, Manager
    <3>2. DoneNext(mgr.node)
      BY <1>1, <2>2 DEF DoneNext, agentVars
    <3> QED BY <1>1, <2>1, <3>1, <3>2, ResetStays
  <2>3. CASE ResetCounter(mgr.node, op.id, TRUE)
    <3>1. mgr'.at = "executing" /\ mgr'.todo = mgr.todo
      BY <1>1, <2>3 DEF ResetCounter, Manager
    <3> QED BY <1>1, <2>1, <3>1, ResetStays
  <2> QED BY <1>3, <2>2, <2>3 DEF ServeReset, BeginReset
<1>4. CASE ServeLate
  <2>1. UNCHANGED mgr
    BY <1>4 DEF ServeLate, BeginReset, ResetCounter
  <2> QED BY <1>2, <2>1
<1>5. ASSUME NEW n \in Nodes, Remember(n) PROVE ResetInv'
  <2>1. CASE ~exec[n].live
    BY <1>2, <1>5, <2>1 DEF Remember
  <2>2. CASE exec[n].live
    <3>1. mgr.at = "executing" /\ mgr.node = n /\ exec[n].id = op.id
      BY <2>2 DEF TypeInv, ControlInv
    <3>2. mgr'.at = "answered" /\ mgr'.node = n /\ mgr'.todo = mgr.todo
      BY <1>1, <1>5, <2>2, <3>1 DEF Remember, Answered, Manager
    <3>3. DoneNext(n)
      <4> DEFINE m == [id |-> exec[n].id, from |-> exec[n].from, value |-> exec[n].value]
      <4>1. m \in remembered'[n]
        BY <1>5 DEF Remember, TypeInv, TypeOK
      <4>2. m.id = op'.id
        BY <1>1, <3>1
      <4> QED BY <4>1, <4>2 DEF DoneNext
    <3> QED BY <1>1, <3>1, <3>2, <3>3, ResetStays
  <2> QED BY <2>1, <2>2
<1>6. ASSUME NEW n \in Nodes, Meter(n) PROVE ResetInv'
  BY <1>2, <1>6 DEF Meter
<1> QED BY <1>3, <1>4, <1>5, <1>6 DEF AgentStep

LEMMA ResetManager == TypeInv /\ ResetInv /\ [Next]_vars /\ ManagerStep => ResetInv'
<1> SUFFICES ASSUME TypeInv, ResetInv, [Next]_vars, ManagerStep PROVE ResetInv'
  OBVIOUS
<1>1. mgr \in Manager
  BY DEF TypeInv, TypeOK
<1>2. CASE BeginOp
  <2>1. mgr'.at = "next" /\ mgr'.todo = Nodes
    BY <1>1, <1>2 DEF BeginOp, Manager
  <2> QED BY <2>1 DEF ResetInv
<1>3. CASE SendReset
  <2>1. mgr.at = "next" /\ mgr'.at = "sent" /\ mgr'.todo = mgr.todo /\ UNCHANGED op
    BY <1>1, <1>3 DEF SendReset, Manager
  <2> QED BY <2>1, ResetStays
<1>4. CASE ApplyFinal
  <2>1. /\ mgr.at = "answered" /\ mgr'.at = "applied" /\ mgr'.todo = mgr.todo
        /\ mgr'.node = mgr.node /\ UNCHANGED op
    BY <1>1, <1>4 DEF ApplyFinal, Manager
  <2>2. DoneNext(mgr.node)
    BY <2>1, DoneStays DEF ResetInv, TypeInv, ControlInv
  <2> QED BY <2>1, <2>2, ResetStays
<1>5. CASE ZeroRow
  <2>1. /\ mgr.at = "applied" /\ mgr'.at = "next" /\ mgr'.todo = mgr.todo \ {mgr.node}
        /\ UNCHANGED op
    BY <1>1, <1>5 DEF ZeroRow, NextNode, Manager
  <2>2. \A n \in Nodes \ mgr'.todo : Done(n)
    BY <2>1 DEF ResetInv
  <2>3. \A n \in Nodes \ mgr'.todo : DoneNext(n)
    BY <2>1, <2>2, DoneStays
  <2> QED BY <2>1, <2>3 DEF ResetInv, Done, DoneNext
<1>6. CASE ResetLocal \/ ResolveLocal
  <2>1. mgr.at = "next" /\ mgr.todo = {} /\ mgr'.at \in {"charge", "settle"} /\ UNCHANGED op
    BY <1>1, <1>6 DEF ResetLocal, ResolveLocal, Manager
  <2>2. \A n \in Nodes : DoneNext(n)
    BY <2>1, DoneStays DEF ResetInv
  <2> QED BY <2>1, <2>2 DEF ResetInv, Done, DoneNext
<1>7. CASE ChargeLocal \/ ZeroMeter
  <2>1. mgr.at \in {"charge", "zero"} /\ mgr'.at \in {"zero", "settle"} /\ UNCHANGED op
    BY <1>1, <1>7 DEF ChargeLocal, ZeroMeter, Manager
  <2>2. \A n \in Nodes : DoneNext(n)
    BY <2>1, DoneStays DEF ResetInv
  <2> QED BY <2>1, <2>2 DEF ResetInv, Done, DoneNext
<1>8. CASE Settle
  BY <1>8, Constants DEF Settle, ResetInv
<1> QED BY <1>2, <1>3, <1>4, <1>5, <1>6, <1>7, <1>8 DEF ManagerStep

LEMMA NextReset == TypeInv /\ ResetInv /\ [Next]_vars => ResetInv'
<1> SUFFICES ASSUME TypeInv, ResetInv, [Next]_vars PROVE ResetInv'
  OBVIOUS
<1>1. CASE mgr'.at \in {"idle", "tick", "begin"}
  BY <1>1 DEF ResetInv
<1>2. CASE UNCHANGED <<mgr, op>>
  <2>1. \A n \in Nodes : Done(n) => DoneNext(n)
    BY <1>2, DoneStays
  <2>2. mgr.at \in {"answered", "applied"} => mgr.node \in Nodes
    BY DEF TypeInv, ControlInv
  <2> QED BY <1>2, <2>1, <2>2 DEF ResetInv, Done, DoneNext
<1>3. CASE Resolve
  <2>1. mgr'.at = "next" /\ mgr'.todo = Nodes
    BY <1>3 DEF Resolve, TypeInv, TypeOK, Manager
  <2> QED BY <2>1 DEF ResetInv
<1>4. CASE Tick \/ \E i \in Ids : RequestReset(i)
  <2>1. mgr'.at \in {"idle", "tick", "begin"}
    BY <1>4 DEF Tick, RequestReset, TypeInv, TypeOK, Manager
  <2> QED BY <1>1, <2>1
<1>5. CASE FaultStep
  <2>1. mgr' = IdleMgr \/ UNCHANGED <<mgr, op>>
    BY <1>5 DEF FaultStep, LoseReset, ResetLocalFails, HubCrash, AgentCrash, GiveUp
  <2> QED BY <1>1, <1>2, <2>1, Constants
<1>6. CASE SyncStep \/ MeterLocal \/ UNCHANGED vars
  <2>1. UNCHANGED <<mgr, op>>
    BY <1>6 DEF SyncStep, SyncRead, SyncApply, SyncLose, MeterLocal, vars
  <2> QED BY <1>2, <2>1
<1> QED BY <1>3, <1>4, <1>5, <1>6, ResetAgent, ResetManager DEF Next

-----------------------------------------------------------------------------
(* The theorems.                                                           *)

LEMMA InitInv == Init => Inv
<1> SUFFICES ASSUME Init PROVE Inv
  OBVIOUS
<1>1. TypeInv
  BY InitType
<1>2. CountersInv
  BY DEF Init, CountersInv
<1>3. ReadingsInv
  BY Constants DEF Init, ReadingsInv, Fits, Final
<1>4. LedgerInv
  BY DEF Init, LedgerInv
<1>5. LocalInv /\ ResetInv
  BY Constants DEF Init, LocalInv, ResetInv, Uncharged
<1> QED BY <1>1, <1>2, <1>3, <1>4, <1>5 DEF Inv

LEMMA NextInv == Inv /\ [Next]_vars => Inv'
<1> SUFFICES ASSUME Inv, [Next]_vars PROVE Inv'
  OBVIOUS
<1>1. TypeInv'
  BY NextType DEF Inv
<1>2. Grows /\ CountersInv'
  BY NextGrows DEF Inv
<1>3. ReadingsInv'
  BY <1>1, <1>2, NextReadings DEF Inv, ReadingsAssumed
<1>4. LedgerInv' /\ LocalInv' /\ ResetInv'
  BY NextLedger, NextLocal, NextReset DEF Inv
<1> QED BY <1>1, <1>2, <1>3, <1>4 DEF Inv

\* Readings, ledger and reset of usage.py, node_runtime.py and manager.py agree in every state.
THEOREM Invariance == Spec => []Inv
<1>1. Init => Inv
  BY InitInv
<1>2. Inv /\ [Next]_vars => Inv'
  BY NextInv
<1> QED BY <1>1, <1>2, PTL DEF Spec

\* Every reachable state is type correct.
THEOREM TypeCorrect == Spec => []TypeOK
<1>1. Inv => TypeOK
  BY DEF Inv, TypeInv
<1> QED BY <1>1, Invariance, PTL

\* The ledger of a Node is exact while its readings are applied in order and
\* never too high when only the end of a counter was skipped
\* (apply_traffic_snapshot, reset_client_traffic); the Hub's own bytes are
\* never overcharged (_charge_snapshot).
THEOREM LedgerExact == Spec => []ChargedOnce
<1>1. Inv => ChargedOnce
  <2> SUFFICES ASSUME Inv PROVE ChargedOnce
    OBVIOUS
  <2>1. ASSUME NEW n \in Nodes
        PROVE  LET position == row[n].from + row[n].raw - adopted[n] IN
                 /\ order[n] = "inOrder" => charged[n] = position
                 /\ order[n] # "disturbed" => charged[n] <= position /\ charged[n] <= Metered[n]
    <3>1. /\ row[n].from \in Nat /\ row[n].raw \in Nat /\ adopted[n] \in Nat
          /\ charged[n] \in Nat /\ base[n] \in Nat /\ counter[n] \in Nat
          /\ order[n] \in {"inOrder", "skipped", "disturbed"}
      BY DEF Inv, TypeInv, TypeOK, Row
    <3>2. row[n].from + row[n].raw <= Metered[n] /\ Metered[n] \in Nat
      BY <3>1 DEF Inv, ReadingsInv, Fits, Metered
    <3>3. /\ order[n] = "inOrder" => charged[n] = row[n].from + row[n].raw - adopted[n]
          /\ order[n] = "skipped" => charged[n] <= row[n].from + row[n].raw - adopted[n]
      BY DEF Inv, LedgerInv
    <3> QED BY <3>1, <3>2, <3>3
  <2>2. localCharged <= localTotal
    BY DEF Inv, TypeInv, TypeOK, LocalInv, Uncharged
  <2> QED BY <2>1, <2>2 DEF ChargedOnce
<1> QED BY <1>1, Invariance, PTL

\* A reset is reported done only when every Node has remembered this very
\* operation (ClientManager._apply and resolve_reset).
THEOREM ResetComplete == Spec => ResetReachesEveryNode
<1>1. Inv /\ [Next]_vars =>
        [op.state # "none" /\ op'.state = "none" =>
            \A n \in Nodes : \E m \in remembered[n] : m.id = op.id]_op
  <2> SUFFICES ASSUME Inv, Next, op.state # "none", op'.state = "none"
               PROVE  \A n \in Nodes : \E m \in remembered[n] : m.id = op.id
    BY DEF vars
  <2>1. CASE Settle
    BY <2>1 DEF Settle, Inv, ResetInv, Done
  <2>2. UNCHANGED op \/ Settle \/ op'.state \in {"pending", "inflight", "error", "uncertain", op.state}
    <3>1. op \in Op
      BY DEF Inv, TypeInv, TypeOK
    <3>2. CASE AgentStep
      BY <3>2 DEF AgentStep, Meter, Remember, ServeReset, ServeLate
    <3>3. CASE SyncStep \/ MeterLocal \/ Tick \/ Resolve
      BY <3>3 DEF SyncStep, SyncRead, SyncApply, SyncLose, MeterLocal, Tick, Resolve
    <3>4. CASE ManagerStep
      BY <3>1, <3>4 DEF ManagerStep, BeginOp, SendReset, ApplyFinal, ZeroRow, ResetLocal,
                        ChargeLocal, ZeroMeter, ResolveLocal, Op
    <3>5. CASE \E i \in Ids : RequestReset(i)
      BY <3>5 DEF RequestReset
    <3>6. CASE FaultStep
      BY <3>1, <3>6 DEF FaultStep, LoseReset, ResetLocalFails, HubCrash, AgentCrash, GiveUp, Op
    <3> QED BY <3>2, <3>3, <3>4, <3>5, <3>6 DEF Next
  <2> QED BY <2>1, <2>2
<1> QED BY <1>1, Invariance, PTL DEF Spec, ResetReachesEveryNode

-----------------------------------------------------------------------------
(* The meter.                                                              *)

\* What SumFunction adds up, as a sum.
LEMMA FunctionSum ==
  ASSUME NEW S, IsFiniteSet(S), NEW f, DOMAIN f = S, Terms(f, S)
  PROVE  SumFunction(f) = Sum(f, S)
<1> DEFINE Step(h) == [s \in SUBSET S |-> IF s = {} THEN 0 ELSE f[Pick(s)] + h[s \ {Pick(s)}]]
           g == CHOOSE h : h = Step(h)
<1>1. PICK h \in [SUBSET S -> Int] : Adder(h, f, S)
  BY AddingExists
<1>2. h = Step(h)
  BY <1>1 DEF Adder, Adds
<1>3. g = Step(g)
  BY <1>2
<1>4. SumFunction(f) = g[S]
  BY DEF SumFunction, SumFunctionOnSet, FoldFunctionOnSet, MapThenFoldSet, Pick
<1> HIDE DEF g
<1>5. Adder(g, f, S)
  BY <1>3 DEF Adder, Adds
<1> HIDE DEF Step
<1>6. g[S] = Sum(f, S)
  BY <1>5, AddedIsSum
<1> QED BY <1>4, <1>6

\* What the Nodes charged is a natural number, and 0 when every row is empty.
LEMMA RemoteSum ==
  ASSUME NEW r, \A n \in Nodes : r[n].current \in Nat
  PROVE  /\ Remote(r) \in Nat
         /\ (\A n \in Nodes : r[n].current = 0) => Remote(r) = 0
<1> DEFINE f == [n \in Nodes |-> r[n].current]
<1>1. DOMAIN f = Nodes /\ Terms(f, Nodes) /\ IsFiniteSet(Nodes) /\ \A n \in Nodes : f[n] \in Nat
  BY AccountingAssumption DEF Terms
<1>2. \A n \in Nodes : f[n] = r[n].current
  OBVIOUS
<1>3. Remote(r) = SumFunction(f)
  BY DEF Remote
<1> HIDE DEF f
<1>4. Remote(r) = Sum(f, Nodes) /\ Sum(f, Nodes) \in Nat
  BY <1>1, <1>3, FunctionSum, SumIsNatural
<1>5. ASSUME \A n \in Nodes : r[n].current = 0 PROVE Sum(f, Nodes) = 0
  <2>1. \A n \in Nodes : f[n] = IF n \in {} THEN f[n] ELSE 0
    BY <1>2, <1>5
  <2>2. {} \in SUBSET Nodes /\ Terms(f, {})
    BY DEF Terms
  <2> HIDE <2>1
  <2>3. Sum(f, {}) = Sum(f, Nodes)
    BY <1>1, <2>1, <2>2, SumOfPart
  <2> QED BY <2>3, SumOfNone
<1> QED BY <1>4, <1>5

\* A step that neither charges nor zeroes leaves the meter alone.
LEMMA MeterStays ==
  ASSUME UsedIsSum, UNCHANGED <<used, last, row>> PROVE UsedIsSum'
  BY DEF UsedIsSum, Remote

\* Every step that charges a reading or zeroes a row computes the meter anew.
LEMMA NextUsed == TypeInv /\ UsedIsSum /\ [Next]_vars => UsedIsSum'
<1> SUFFICES ASSUME TypeInv, UsedIsSum, [Next]_vars PROVE UsedIsSum'
  OBVIOUS
<1>1. CASE UNCHANGED vars
  BY <1>1, MeterStays DEF vars, meterVars, rowVars
<1>2. CASE AgentStep
  BY <1>2, MeterStays DEF AgentStep, Meter, Remember, ServeReset, ServeLate, meterVars, rowVars
<1>3. CASE SyncStep
  <2>1. ASSUME NEW n, NEW from, NEW value, Apply(n, from, value) PROVE UsedIsSum'
    BY <2>1 DEF Apply, UsedIsSum
  <2>2. ASSUME NEW r \in Readers, (\E n \in Nodes : SyncRead(r, n)) \/ SyncLose(r) PROVE UsedIsSum'
    BY <2>2, MeterStays DEF SyncRead, SyncLose, meterVars, rowVars
  <2> QED BY <1>3, <2>1, <2>2 DEF SyncStep, SyncApply
<1>4. ASSUME NEW value, Charge(value), UNCHANGED row PROVE UsedIsSum'
  BY <1>4 DEF Charge, UsedIsSum, Remote
<1>5. CASE MeterLocal \/ Resolve
  BY <1>5, MeterStays DEF MeterLocal, Resolve, meterVars, rowVars
<1>6. CASE Tick \/ \E i \in Ids : RequestReset(i)
  BY <1>4, <1>6 DEF Tick, RequestReset, rowVars
<1>7. CASE ManagerStep
  <2>1. CASE BeginOp \/ SendReset \/ ResetLocal \/ Settle
    BY <2>1, MeterStays DEF BeginOp, SendReset, ResetLocal, Settle, meterVars, rowVars
  <2>2. CASE ApplyFinal \/ ZeroRow
    BY <2>2 DEF ApplyFinal, Apply, ZeroRow, UsedIsSum
  <2>3. CASE ChargeLocal \/ ResolveLocal
    BY <1>4, <2>3 DEF ChargeLocal, ResolveLocal, rowVars
  <2>4. CASE ZeroMeter
    <3>1. \A n \in Nodes : row'[n].current = 0
      BY <2>4 DEF ZeroMeter, TypeInv, TypeOK, Row
    <3>2. Remote(row') = 0
      BY <3>1, RemoteSum
    <3> QED BY <2>4, <3>2 DEF ZeroMeter, UsedIsSum
  <2> QED BY <1>7, <2>1, <2>2, <2>3, <2>4 DEF ManagerStep
<1>8. CASE FaultStep
  BY <1>8, MeterStays
  DEF FaultStep, LoseReset, ResetLocalFails, HubCrash, AgentCrash, meterVars, rowVars
<1> QED BY <1>1, <1>2, <1>3, <1>5, <1>6, <1>7, <1>8 DEF Next

\* What quotas are enforced on is what the Hub and the Nodes charged, in every state:
\* _charge_snapshot, apply_traffic_snapshot and the reset of a row each compute it anew.
THEOREM UsedIsTheSum == Spec => []UsedIsSum
<1>1. Init => UsedIsSum
  <2> SUFFICES ASSUME Init PROVE UsedIsSum
    OBVIOUS
  <2>1. used = 0 /\ last = 0 /\ \A n \in Nodes : row[n].current = 0
    BY DEF Init
  <2>2. Remote(row) = 0
    BY <2>1, RemoteSum
  <2> QED BY <2>1, <2>2 DEF UsedIsSum
<1>2. Inv /\ UsedIsSum /\ [Next]_vars => UsedIsSum'
  BY NextUsed DEF Inv
<1> QED BY <1>1, <1>2, Invariance, PTL DEF Spec

=============================================================================
