----------------------------- MODULE LegacyRestore -----------------------------
(***************************************************************************)
(* A subscription taken over from another panel (dark_restore.py,          *)
(* restore_groups.py, restore_scan.py, restore_safety.py,                  *)
(* restore_reconcile.py, restore_promotion.py): imported with the usage    *)
(* the old panel reports, metered on the Hub and on a Node, switched by    *)
(* its eligibility, archived, or promoted to a managed client.  Imports,   *)
(* reviews, archiving and promotion exclude each other by _import_lock;    *)
(* metering, reconciliation and the manager's tick do not wait for it, and *)
(* the Hub may be killed between the transactions of a promotion.          *)
(***************************************************************************)
EXTENDS Integers

CONSTANTS
    Reports,        \* [total, legacy, ends] the old panel may report; total 0: unlimited
    MaxLocal,       \* bounds on the bytes the Hub's core and the Node carry
    MaxRemote

ASSUME RestoreAssumption ==
    /\ Reports \subseteq [total : Nat, legacy : Nat, ends : {"never", "later", "past"}]
    /\ MaxLocal \in Nat /\ MaxRemote \in Nat

VARIABLES
    sub,        \* restore_subscriptions
    safe,       \* restore_safety; known: the row exists
    coreClient, \* core_clients: present, enabled, local counter
    serving,    \* the running core accepts the credentials
    usage,      \* restore_usage: local, and for the Node with its last raw value
    node,       \* the Node's counter, all it ever carried, and an answer under way
    native,     \* clients and managed_clients, once promoted
    promo,      \* the promotion under way, and the usage it has read
    byHand      \* somebody switched it off elsewhere, and nobody resumed it here

restoreVars == <<sub, safe, coreClient, serving, usage, node, native, promo, byHand>>

NoSub == [state |-> "none", total |-> 0, legacy |-> 0, ends |-> "never",
          on |-> TRUE, scanned |-> FALSE]
NoSafe == [known |-> FALSE, meta |-> "review", expect |-> TRUE, ext |-> FALSE]
NoCore == [here |-> FALSE, on |-> FALSE, up |-> 0]
NoNative == [here |-> FALSE, quota |-> 0, used |-> 0, last |-> 0, manual |-> FALSE,
             met |-> FALSE, raw |-> 0, remote |-> 0]
NoPromo == [pc |-> "idle", dark |-> 0]

RestoreInit ==
    /\ sub = NoSub /\ safe = NoSafe /\ coreClient = NoCore /\ serving = FALSE
    /\ usage = [local |-> 0, remote |-> 0, raw |-> 0]
    /\ node = [raw |-> 0, carried |-> 0, answer |-> -1]
    /\ native = NoNative /\ promo = NoPromo /\ byHand = FALSE

Dark(u) == u.local + u.remote

\* decision() of restore_safety: metadata that was never complete is not "unlimited".
Decision(s, m, u) ==
    CASE m.meta = "review" -> "needs_review"
      [] ~s.on \/ m.ext -> "suspended"
      [] s.ends = "past" -> "expired"
      [] s.total > 0 /\ s.legacy + Dark(u) >= s.total -> "exhausted"
      [] OTHER -> "eligible"

\* reconcile(): seeds a missing row, notices a client switched off by somebody else,
\* and writes the decision into core_clients.
Seeded(s, m, c) ==
    IF m.known THEN [m EXCEPT !.meta = IF @ = "review" /\ s.scanned THEN "verified" ELSE @]
    ELSE [known |-> TRUE, meta |-> IF s.scanned THEN "verified" ELSE "review",
          expect |-> c.on, ext |-> ~c.on]

Noticed(m, c) == [m EXCEPT !.ext = @ \/ (c.here /\ ~c.on /\ m.expect)]

\* The row and the client after a reconciliation of s with the usage u.
Reconciled(s, c, m0) ==
    LET m == Noticed(Seeded(s, m0, c), c)
        ok == c.here /\ Decision(s, m, usage) = "eligible"
    IN IF s.state # "active" THEN [safe |-> m0, coreClient |-> c]
       ELSE [safe |-> [m EXCEPT !.expect = ok], coreClient |-> [c EXCEPT !.on = c.here /\ ok]]

\* engine.apply: reconcile, then build and start the configuration, which may fail.
Apply(s, c, m) ==
    /\ safe' = Reconciled(s, c, m).safe
    /\ coreClient' = Reconciled(s, c, m).coreClient
    /\ serving' \in {serving, coreClient'.here /\ coreClient'.on}

---------------------------------------------------------------------------
(* Import *)

\* The answer of the old panel, or none that could be read.
Scans == {[r EXCEPT !.scanned = TRUE] : r \in {[NoSub EXCEPT
              !.total = q.total, !.legacy = q.legacy, !.ends = q.ends] : q \in Reports}}
         \union {NoSub}

Scan(s, p) == [s EXCEPT !.scanned = p.scanned, !.total = p.total, !.legacy = p.legacy,
                        !.ends = p.ends]

ImportNew(p) ==
    /\ sub.state = "none"
    /\ sub' = [Scan(NoSub, p) EXCEPT !.state = "active"]
    /\ Apply(sub', [here |-> TRUE, on |-> TRUE, up |-> 0], NoSafe)
    /\ UNCHANGED <<usage, node, native, promo, byHand>>

\* (A subscription that was ever served had been scanned or reviewed.)
Frozen == sub.scanned \/ Dark(usage) > 0

\* The same URL again: rescanned only while nothing depends on what was scanned.
Reimport(p) ==
    /\ sub.state = "active" /\ promo.pc = "idle" /\ coreClient.here
    /\ sub' = IF p.scanned /\ ~Frozen THEN Scan(sub, p) ELSE sub
    /\ Apply(sub', coreClient, safe)
    /\ UNCHANGED <<usage, node, native, promo, byHand>>

\* review_metadata: the operator states the numbers; the revision he saw is current.
Review(p) ==
    /\ sub.state = "active" /\ promo.pc = "idle" /\ coreClient.here /\ safe.known /\ p.scanned
    /\ sub' = Scan(sub, p)
    /\ Apply(sub', coreClient, [safe EXCEPT !.meta = "manual"])
    /\ UNCHANGED <<usage, node, native, promo, byHand>>

SetSuspension(off) ==
    /\ sub.state = "active" /\ promo.pc = "idle" /\ safe.known
    /\ sub' = [sub EXCEPT !.on = ~off]
    /\ Apply(sub', coreClient, [safe EXCEPT !.ext = FALSE, !.expect = FALSE])
    /\ byHand' = FALSE
    /\ UNCHANGED <<usage, node, native, promo>>

\* archive_user: the client leaves the core, the history stays.
Archive ==
    /\ sub.state = "active" /\ promo.pc = "idle"
    /\ sub' = [sub EXCEPT !.state = "archived", !.on = FALSE]
    /\ coreClient' = [coreClient EXCEPT !.here = FALSE, !.on = FALSE]
    /\ serving' \in {serving, FALSE}
    /\ UNCHANGED <<safe, usage, node, native, promo, byHand>>

Reconcile == Apply(sub, coreClient, safe) /\ UNCHANGED <<sub, usage, node, native, promo, byHand>>

\* Somebody switches the client off outside the restore pages.
SwitchedOff ==
    /\ coreClient.here /\ coreClient.on /\ sub.state = "active"
    /\ coreClient' = [coreClient EXCEPT !.on = FALSE] /\ byHand' = TRUE
    /\ UNCHANGED <<sub, safe, serving, usage, node, native, promo>>

---------------------------------------------------------------------------
(* Metering *)

\* collect_stats adds to the counter; the trigger restore_local_usage_v1 follows it.
LocalTraffic ==
    /\ coreClient.here /\ serving /\ coreClient.up < MaxLocal
    /\ coreClient' = [coreClient EXCEPT !.up = @ + 1]
    /\ usage' = IF sub.state = "active" THEN [usage EXCEPT !.local = @ + 1] ELSE usage
    /\ UNCHANGED <<sub, safe, serving, node, native, promo, byHand>>

NodeTraffic ==
    /\ coreClient.here /\ coreClient.on /\ node.carried < MaxRemote
    /\ node' = [node EXCEPT !.raw = @ + 1, !.carried = @ + 1]
    /\ UNCHANGED <<sub, safe, coreClient, serving, usage, native, promo, byHand>>

\* The mirror on the Node is created again: its counter starts at zero.
NodeReset ==
    /\ node.raw > 0
    /\ node' = [node EXCEPT !.raw = 0]
    /\ UNCHANGED <<sub, safe, coreClient, serving, usage, native, promo, byHand>>

NodeAnswers ==
    /\ coreClient.here /\ node.answer = -1
    /\ node' = [node EXCEPT !.answer = node.raw]
    /\ UNCHANGED <<sub, safe, coreClient, serving, usage, native, promo, byHand>>

\* Faulty variant: a counter that started anew is subtracted all the same.
SignedDelta(new, old) == new - old

Delta(new, old) == IF new >= old THEN new - old ELSE new

\* Faulty variant: every sample is added as it is.
CumulativeUsage(u, v) == [u EXCEPT !.remote = @ + v, !.raw = v]

\* record_node_usage
WithSample(u, v) == [u EXCEPT !.remote = @ + Delta(v, u.raw), !.raw = v]

\* apply_traffic_snapshot: the managed client takes its first sample as a baseline.
NativeSample(n, v) ==
    IF ~n.here THEN n
    ELSE LET cur == IF n.met THEN n.remote + Delta(v, n.raw) ELSE n.remote
         IN [n EXCEPT !.met = TRUE, !.raw = v, !.remote = cur, !.used = n.last + cur]

\* The observer around apply_traffic_snapshot: the managed clients, then the restored.
NodeSample ==
    /\ node.answer >= 0
    /\ native' = NativeSample(native, node.answer)
    /\ usage' = IF sub.state = "active" THEN WithSample(usage, node.answer) ELSE usage
    /\ node' = [node EXCEPT !.answer = -1]
    /\ UNCHANGED <<sub, safe, coreClient, serving, promo, byHand>>

Expiry ==
    /\ sub.ends = "later" /\ sub' = [sub EXCEPT !.ends = "past"]
    /\ UNCHANGED <<safe, coreClient, serving, usage, node, native, promo, byHand>>

---------------------------------------------------------------------------
(* Promotion *)

\* The checks, the new body in core_clients, and the usage so far.
PromoteRead ==
    /\ sub.state = "active" /\ promo.pc = "idle" /\ coreClient.here
    /\ promo' = [pc |-> "adopt", dark |-> Dark(usage)]
    /\ UNCHANGED <<sub, safe, coreClient, serving, usage, node, native, byHand>>

\* manager.adopt: the local counter is the baseline; a client that is off stays off.
AdoptNative ==
    /\ promo.pc = "adopt" /\ ~native.here
    /\ native' = [NoNative EXCEPT
           !.here = TRUE, !.used = coreClient.up, !.last = coreClient.up, !.manual = ~coreClient.on,
           !.quota = IF sub.total = 0 THEN 0
                     ELSE IF sub.total > sub.legacy THEN sub.total - sub.legacy ELSE 1]
    /\ promo' = [promo EXCEPT !.pc = "raise"]
    /\ UNCHANGED <<sub, safe, coreClient, serving, usage, node, byHand>>

\* No credit left, or adopted before: the body is put back.
AdoptRefused ==
    /\ promo.pc = "adopt" /\ promo' = NoPromo
    /\ UNCHANGED <<sub, safe, coreClient, serving, usage, node, native, byHand>>

RaiseBaseline ==
    /\ promo.pc = "raise"
    /\ native' = [native EXCEPT !.used = IF promo.dark > @ THEN promo.dark ELSE @]
    /\ promo' = [promo EXCEPT !.pc = "mark"]
    /\ UNCHANGED <<sub, safe, coreClient, serving, usage, node, byHand>>

MarkPromoted ==
    /\ promo.pc = "mark"
    /\ sub' = [sub EXCEPT !.state = "promoted"]
    /\ promo' = NoPromo
    /\ UNCHANGED <<safe, coreClient, serving, usage, node, native, byHand>>

\* The Hub is killed between two of these transactions.
HubKilled ==
    /\ promo.pc # "idle" /\ promo' = NoPromo
    /\ UNCHANGED <<sub, safe, coreClient, serving, usage, node, native, byHand>>

\* The manager's tick: the meter is recomputed, and the client switched by its policy.
ManagerTick ==
    LET used == coreClient.up + native.remote
        free == /\ ~native.manual /\ sub.ends # "past"
                /\ native.quota = 0 \/ used < native.quota
    IN /\ native.here /\ coreClient.here
       /\ native' = [native EXCEPT !.last = coreClient.up, !.used = used]
       /\ coreClient' = [coreClient EXCEPT !.on = free]
       /\ serving' \in {serving, free}
       /\ UNCHANGED <<sub, safe, usage, node, promo, byHand>>

RestoreNext ==
    \/ \E p \in Scans : ImportNew(p) \/ Reimport(p) \/ Review(p)
    \/ \E off \in BOOLEAN : SetSuspension(off)
    \/ Archive \/ Reconcile \/ SwitchedOff
    \/ LocalTraffic \/ NodeTraffic \/ NodeReset \/ NodeAnswers \/ NodeSample \/ Expiry
    \/ PromoteRead \/ AdoptNative \/ AdoptRefused \/ RaiseBaseline \/ MarkPromoted \/ HubKilled
    \/ ManagerTick

RestoreSpec == RestoreInit /\ [][RestoreNext]_restoreVars

---------------------------------------------------------------------------
RestoreTypeOK ==
    /\ sub \in [state : {"none", "active", "archived", "promoted"}, total : Nat,
                legacy : Nat, ends : {"never", "later", "past"}, on : BOOLEAN,
                scanned : BOOLEAN]
    /\ safe \in [known : BOOLEAN, meta : {"review", "verified", "manual"},
                 expect : BOOLEAN, ext : BOOLEAN]
    /\ coreClient \in [here : BOOLEAN, on : BOOLEAN, up : 0..MaxLocal]
    /\ serving \in BOOLEAN  /\ byHand \in BOOLEAN
    /\ usage \in [local : Nat, remote : Nat, raw : Nat]
    /\ node \in [raw : Nat, carried : 0..MaxRemote, answer : Nat \union {-1}]
    /\ native \in [here : BOOLEAN, quota : Nat, used : Nat, last : Nat, manual : BOOLEAN,
                   met : BOOLEAN, raw : Nat, remote : Nat]
    /\ promo \in [pc : {"idle", "adopt", "raise", "mark"}, dark : Nat]

\* Every local byte is metered, and no byte of the Node twice, whatever happens to its
\* counter and to the answers under way.
UsageIsTraffic ==
    /\ sub.state = "active" => usage.local = coreClient.up
    /\ usage.local <= coreClient.up /\ usage.remote <= node.carried
    /\ native.remote <= node.carried

\* A restored client is switched on only when its numbers are known, its quota and
\* expiry allow it and nobody has switched it off elsewhere without resuming it here;
\* and the numbers change only by hand once anything depends on them.
SwitchedOnIsEntitled ==
    [][sub.state = "active" =>
         /\ ~native.here /\ coreClient'.on /\ ~coreClient.on =>
                Decision(sub', safe', usage') = "eligible" /\ ~byHand'
         /\ <<sub.total, sub.legacy>> # <<sub'.total, sub'.legacy>> =>
                ~Frozen \/ safe'.meta = "manual"]_restoreVars

\* The usage a client was promoted with - every byte it consumed here, on the Hub and
\* on the Node - stays charged against its quota.
PromotionKeepsUsage ==
    [][sub.state = "promoted" => native'.used >= native.used]_restoreVars
=============================================================================
