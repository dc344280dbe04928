--------------------------- MODULE Clients_proofs ---------------------------
(***************************************************************************)
(* Clients of the Hub, for every set of identities and every bound.        *)
(* ManagedClients: the counters are paid once, and a client the manager    *)
(* does not know is left alone.  LegacyRestore: what is metered was        *)
(* carried, and what is switched on is entitled.                           *)
(***************************************************************************)
EXTENDS ManagedClients, LegacyRestore, TLAPS

-----------------------------------------------------------------------------
(* Managed clients *)

ResetPcs == {"resetRemote", "coreReset", "resetCharge", "resetZero", "resetFinish"}
DeletePcs == {"coreDelete", "deleteCharge", "deletePolicy", "deleteFinish"}
TickPcs == {"ops", "mark"} \union ResetPcs \union DeletePcs
Pcs == {"idle", "tick", "ops", "done", "edit", "mark", "editMark"} \union ResetPcs \union DeletePcs

Statuses == {"none", "pending", "applied", "error", "uncertain", "conflict", "missing",
             "reset_inflight", "deleted"}
RowSet == [op : {"none", "upsert", "delete", "reset"}, st : Statuses, last : Nat,
           expected : BOOLEAN, ext : BOOLEAN, later : BOOLEAN]
CoreSet == [who : {"none", "own", "other"}, on : BOOLEAN, count : Nat]
Threads == [pc : Pcs, todo : SUBSET Emails, c : Emails \union {"none"}, final : Nat,
            want : {"none", "reset", "delete"}, for : Emails \union {"none"}]

Flags == policy \in [Emails -> BOOLEAN] /\ lost \in [Emails -> BOOLEAN]
Counters == /\ charged \in [Emails -> Nat] /\ metered \in [Emails -> Nat]
            /\ resets \in [Emails -> Nat] /\ tomb \in [Emails -> Nat \union {-1}]

ManagedTypes ==
    /\ row \in [Emails -> RowSet] /\ core \in [Emails -> CoreSet] /\ mgr \in Threads
    /\ Flags /\ Counters

\* What the counters of a client still owe the ledger, wherever a reset or a deletion is.
Doing(c, pc) == mgr.c = c /\ mgr.pc = pc
Owed(c) ==
    IF Doing(c, "resetCharge") THEN Increment(c, mgr.final) + core[c].count
    ELSE IF Doing(c, "resetZero") THEN core[c].count
    ELSE IF core[c].who = "own" THEN Increment(c, core[c].count)
    ELSE IF tomb[c] >= 0 /\ policy[c] THEN Increment(c, tomb[c]) ELSE 0

\* The ledger and what is owed make up what was counted; no more, once a counter was lost.
BooksBalance(c) ==
    /\ row[c].st = "none" => /\ charged[c] = 0 /\ metered[c] = 0 /\ tomb[c] = -1
                             /\ row[c].last = 0 /\ ~lost[c]
    /\ row[c].st # "none" /\ ~lost[c] => charged[c] + Owed(c) = metered[c]
    /\ row[c].st # "none" /\ lost[c] /\ tomb[c] < 0 => charged[c] + Owed(c) <= metered[c]

\* A counter that was not lost runs on from its baseline, or starts with it.
BaselineHolds(c) ==
    ~lost[c] =>
        /\ tomb[c] >= 0 => /\ core[c].who = "none" /\ row[c].op # "upsert"
                           /\ row[c].op = "none" => row[c].st = "deleted"
        /\ tomb[c] < 0 /\ core[c].who = "none" => row[c].last = 0
        /\ core[c].who = "own" /\ row[c].st # "none" /\ ~Doing(c, "resetCharge")
           /\ ~Doing(c, "resetZero") => row[c].last <= core[c].count

CoreMatches(c) == core[c].who = "none" => core[c] = Absent

RowMatches(c) ==
    /\ row[c].st = "none" => row[c].op = "none"
    /\ row[c].st # "none" /\ ~policy[c] => core[c].who = "none" /\ row[c].op # "upsert"
    /\ row[c].st = "deleted" => ~policy[c]
    /\ row[c].st = "reset_inflight" <=> mgr.pc \in ResetPcs /\ mgr.c = c

ResetOnce(c) ==
    /\ resets[c] <= 1
    /\ row[c].op = "reset" /\ row[c].st \notin {"uncertain", "conflict"}
       /\ ~(mgr.c = c /\ mgr.pc \in {"resetCharge", "resetZero", "resetFinish"})
       => resets[c] = 0

\* Once a tick has read the core, a client that is somebody else's is marked.
ForeignMarked(c) ==
    mgr.pc \in TickPcs /\ core[c].who = "other"
       => row[c].st \in {"none", "deleted", "conflict"}

ClientInv(c) == BooksBalance(c) /\ BaselineHolds(c) /\ CoreMatches(c) /\ RowMatches(c)
                /\ ResetOnce(c) /\ ForeignMarked(c)

\* What the thread with the lock has in hand is what the rows ask for.
InHand(c) ==
    /\ row[c].op # "none" /\ row[c].st \notin {"none", "uncertain", "conflict", "deleted"}
    /\ mgr.pc # "edit" => core[c].who # "other"
    /\ mgr.pc \in {"edit", "editMark", "mark"} => row[c].op = "upsert"
    /\ mgr.pc = "edit" => policy[c] /\ (core[c].who = "none" => lost[c])

HandInv ==
    /\ mgr.pc \in {"idle", "tick", "done"} => mgr.todo = {}
    /\ \A c \in mgr.todo : InHand(c)
    /\ mgr.pc = "edit" => \A c, d \in mgr.todo : c = d
    /\ mgr.want # "none" => mgr.for \in Emails /\ row[mgr.for].st # "none"

ResetInHand(c) ==
    mgr.pc \in ResetPcs => /\ c \in mgr.todo /\ row[c].op = "reset" /\ core[c].who = "own"
                           /\ policy[c]

DeleteInHand(c) ==
    /\ mgr.pc \in DeletePcs => c \in mgr.todo /\ row[c].op = "delete"
    /\ mgr.pc \in DeletePcs \ {"coreDelete"} => core[c].who = "none"
    /\ mgr.pc = "deletePolicy" /\ policy[c] /\ tomb[c] >= 0 => row[c].last = tomb[c]
    /\ mgr.pc = "deleteFinish" => ~policy[c]

ThreadInv ==
    /\ HandInv
    /\ mgr.pc \in ResetPcs \union DeletePcs => mgr.c \in mgr.todo
    /\ ResetInHand(mgr.c) /\ DeleteInHand(mgr.c)

ManagedInv ==
    /\ ManagedTypes /\ ThreadInv
    /\ \A c \in Emails : ClientInv(c)

Unchanged(c) ==
    /\ row'[c] = row[c] /\ core'[c] = core[c] /\ policy'[c] = policy[c] /\ tomb'[c] = tomb[c]
    /\ charged'[c] = charged[c] /\ metered'[c] = metered[c] /\ lost'[c] = lost[c]
    /\ resets'[c] = resets[c]

\* A step that leaves a client alone, and the thread's reset of it.
LEMMA ClientUntouched ==
    ASSUME NEW c \in Emails, ClientInv(c), Unchanged(c),
           \/ mgr'.pc = mgr.pc /\ mgr'.c = mgr.c /\ mgr'.final = mgr.final
           \/ ~(mgr.pc \in ResetPcs /\ mgr.c = c) /\ ~(mgr'.pc \in ResetPcs /\ mgr'.c = c),
           mgr'.pc \in TickPcs => mgr.pc \in TickPcs
    PROVE  ClientInv(c)'
BY
   DEF Unchanged, ForeignMarked, ClientInv, BooksBalance, BaselineHolds, CoreMatches, RowMatches,
       ResetOnce, Owed,
       Doing, Increment, ResetPcs

\* A flag of one client is set.
LEMMA FlagSet ==
    ASSUME NEW f \in [Emails -> BOOLEAN], NEW c \in Emails, NEW b \in BOOLEAN
    PROVE  [f EXCEPT ![c] = b] \in [Emails -> BOOLEAN]
OBVIOUS

\* The thread goes on with nothing but c in hand; the others it had wait as they were.
EditPcs == {"edit", "editMark", "mark"}
HandOver(c) ==
    /\ c \in mgr'.todo => InHand(c)'
    /\ mgr'.c = c => ResetInHand(c)' /\ DeleteInHand(c)'
    /\ row[c].st # "none" => row'[c].st # "none"
    /\ \/ mgr' = mgr
       \/ /\ mgr'.todo \ {c} \subseteq mgr.todo
          /\ mgr'.pc \in {"idle", "tick", "done"} => mgr'.todo = {}
          /\ mgr'.todo \subseteq {c} \/ (mgr.pc \notin EditPcs /\ mgr'.pc \notin EditPcs)
          /\ mgr'.want # "none" =>
                 \/ mgr'.for = c /\ row'[c].st # "none"
                 \/ mgr'.want = mgr.want /\ mgr'.for = mgr.for
          /\ mgr'.pc \in ResetPcs \union DeletePcs => mgr'.c = c /\ c \in mgr'.todo
          /\ mgr.pc \in ResetPcs => mgr.c = c
          /\ mgr'.pc \in TickPcs => mgr.pc \in TickPcs

\* Every operation is about one client: nothing is lost of the others and of the thread.
LEMMA OneClientStep ==
    ASSUME ManagedInv, NEW c \in Emails, ManagedTypes', ClientInv(c)', HandOver(c),
           \A d \in Emails : d # c => Unchanged(d)
    PROVE  ManagedInv'
<1>1. /\ ThreadInv /\ HandInv /\ \A d \in Emails : ClientInv(d)
      /\ mgr \in Threads /\ mgr' \in Threads
  BY DEF ManagedInv, ManagedTypes, ThreadInv
<1>2. ASSUME NEW d \in Emails, d # c PROVE ClientInv(d)'
  BY <1>1, <1>2, ClientUntouched DEF HandOver, ResetPcs, DeletePcs
<1>3. HandInv'
  <2>1. ASSUME NEW d \in mgr'.todo, d # c PROVE InHand(d)'
    <3>1. d \in mgr.todo /\ d \in Emails /\ InHand(d) /\ Unchanged(d)
      BY <1>1, <2>1 DEF HandOver, Threads, HandInv
    <3>2. \/ mgr' = mgr
          \/ mgr.pc \notin EditPcs /\ mgr'.pc \notin EditPcs
      BY <2>1 DEF HandOver
    <3> QED BY <3>1, <3>2 DEF InHand, Unchanged, EditPcs
  <2>2. \A d \in mgr'.todo : InHand(d)'
    BY <2>1 DEF HandOver
  <2>3. mgr'.want # "none" => mgr'.for \in Emails /\ row'[mgr'.for].st # "none"
    BY <1>1 DEF HandOver, HandInv, Unchanged
  <2>4. mgr'.pc \in {"idle", "tick", "done"} => mgr'.todo = {}
    BY <1>1 DEF HandOver, HandInv
  <2>5. mgr'.pc = "edit" => \A d, e \in mgr'.todo : d = e
    BY <1>1 DEF HandOver, HandInv, EditPcs
  <2> QED BY <2>2, <2>3, <2>4, <2>5 DEF HandInv
<1>4. ThreadInv'
  <2>1. mgr'.pc \in ResetPcs \union DeletePcs => mgr'.c \in mgr'.todo
    BY <1>1 DEF HandOver, ThreadInv
  <2>2. CASE mgr'.c = c
    BY <1>3, <2>1, <2>2 DEF HandOver, ThreadInv
  <2>3. CASE mgr'.c # c /\ mgr'.pc \in ResetPcs \union DeletePcs
    <3>1. mgr' = mgr /\ mgr.c \in Emails
      BY <1>1, <2>1, <2>3 DEF HandOver, Threads
    <3>2. ResetInHand(mgr.c)' /\ DeleteInHand(mgr.c)'
      BY <1>1, <2>3, <3>1 DEF ThreadInv, ResetInHand, DeleteInHand, Unchanged
    <3> QED BY <1>3, <2>1, <3>1, <3>2 DEF ThreadInv
  <2>4. CASE mgr'.pc \notin ResetPcs \union DeletePcs
    BY <1>3, <2>4 DEF ThreadInv, ResetInHand, DeleteInHand, DeletePcs
  <2> QED BY <2>2, <2>3, <2>4
<1> QED BY <1>2, <1>3, <1>4 DEF ManagedInv

\* create(): a row waiting for its first upsert owes nothing yet.
LEMMA CreateInv ==
    ASSUME ManagedInv, NEW c \in Emails, Create(c)
    PROVE  ManagedInv'
<1>1. ManagedTypes /\ ThreadInv /\ \A d \in Emails : ClientInv(d)
  BY DEF ManagedInv
<1>2. /\ BooksBalance(c) /\ BaselineHolds(c) /\ CoreMatches(c) /\ RowMatches(c)
      /\ ResetOnce(c) /\ ForeignMarked(c)
      /\ c \in mgr.todo => InHand(c)
      /\ mgr.c = c => ResetInHand(c) /\ DeleteInHand(c)
      /\ mgr.pc \in ResetPcs \union DeletePcs => mgr.c \in mgr.todo
  BY <1>1 DEF ThreadInv, HandInv, ClientInv
<1>3. /\ row \in [Emails -> RowSet] /\ core \in [Emails -> CoreSet] /\ mgr \in Threads
      /\ row[c] \in RowSet /\ core[c] \in CoreSet /\ Flags /\ Counters
  BY <1>1 DEF ManagedTypes
<1>4. /\ mgr.pc = "idle"
      /\ mgr.todo = {}
      /\ mgr.want = "none"
      /\ row[c].st = "none"
      /\ ~policy[c]
      /\ core[c] = Absent
  BY <1>1, <1>2, <1>3 DEF Create, At, Ask, Staged, Free
<1>5. /\ row[c].last \in Nat /\ core[c].count \in Nat /\ charged[c] \in Nat /\ metered[c] \in Nat
      /\ tomb[c] \in Nat \union {-1} /\ mgr.final \in Nat /\ resets[c] \in Nat
      /\ core[c].who \in {"none", "own", "other"}
  BY <1>3 DEF RowSet, CoreSet, Threads, Counters
<1>6. row'[c].op = "upsert" /\ row'[c].st = "pending" /\ row'[c].last = row[c].last
  BY <1>2, <1>3, <1>4 DEF Create, At, Ask, Staged, Free, RowSet
<1>7. row' \in [Emails -> RowSet]
  BY <1>2, <1>3, <1>4, <1>5 DEF Create, At, Ask, Staged, Free, RowSet, Statuses
<1>8. core' = core
  BY <1>3, <1>4 DEF Create, At, Ask, Staged, Free, CoreSet, Absent
<1>9. /\ mgr'.pc = "tick" /\ mgr'.todo = mgr.todo /\ mgr'.c = mgr.c
      /\ mgr'.final = mgr.final /\ mgr'.want = mgr.want /\ mgr'.for = mgr.for
  BY <1>3, <1>4 DEF Create, At, Ask, Staged, Free, Threads
<1>10. mgr' \in Threads
  BY <1>3, <1>4, <1>5 DEF Create, At, Ask, Staged, Free, Threads, Pcs, ResetPcs, DeletePcs
<1>11. /\ UNCHANGED <<lost, charged, metered, resets, tomb>>
      /\ policy' = [policy EXCEPT ![c] = TRUE]
  BY <1>3, <1>4 DEF Create, At, Ask, Staged, Free
<1>12. /\ UNCHANGED <<lost, charged, metered, resets, tomb>>
      /\ policy'[c] = TRUE
  BY <1>11, <1>3 DEF Flags, Counters
<1>13. Flags'
  BY Zenon, <1>3, <1>11, FlagSet DEF Flags
<1>14. Counters'
  BY <1>3, <1>5, <1>11 DEF Counters, Increment
<1>15. ASSUME NEW d \in Emails, d # c PROVE Unchanged(d)
  <2>1. row'[d] = row[d] /\ core'[d] = core[d]
    BY <1>3, <1>4, <1>15 DEF Create, At, Ask, Staged, Free
  <2>2. /\ policy'[d] = policy[d] /\ lost'[d] = lost[d] /\ charged'[d] = charged[d]
        /\ metered'[d] = metered[d] /\ resets'[d] = resets[d] /\ tomb'[d] = tomb[d]
    BY <1>3, <1>11, <1>15 DEF Flags, Counters
  <2> QED BY <2>1, <2>2 DEF Unchanged
<1>16. ClientInv(c)'
  <2>1. BooksBalance(c)'
    BY <1>2, <1>4, <1>5, <1>6, <1>8, <1>9, <1>12
       DEF InHand, ResetInHand, DeleteInHand, RowMatches, CoreMatches, ResetPcs, DeletePcs, Doing,
           Absent, BooksBalance, BaselineHolds, Owed, Increment
  <2>2. BaselineHolds(c)'
    BY <1>2, <1>4, <1>5, <1>6, <1>8, <1>9, <1>12
       DEF InHand, ResetInHand, DeleteInHand, RowMatches, CoreMatches, ResetPcs, DeletePcs, Doing,
           Absent, BooksBalance, BaselineHolds
  <2>3. CoreMatches(c)' /\ RowMatches(c)'
    BY <1>2, <1>4, <1>6, <1>8, <1>9, <1>12
       DEF InHand, ResetInHand, DeleteInHand, RowMatches, CoreMatches, ResetPcs, DeletePcs, Doing,
           Absent
  <2>4. ResetOnce(c)'
    BY <1>2, <1>4, <1>5, <1>6, <1>8, <1>9, <1>12
       DEF InHand, ResetInHand, DeleteInHand, RowMatches, CoreMatches, ResetPcs, DeletePcs, Doing,
           Absent, ResetOnce
  <2>5. ForeignMarked(c)'
    BY <1>2, <1>4, <1>5, <1>6, <1>8, <1>9, <1>12
       DEF InHand, ResetInHand, DeleteInHand, RowMatches, CoreMatches, ResetPcs, DeletePcs, Doing,
           Absent, ForeignMarked, TickPcs
  <2> QED BY <2>1, <2>2, <2>3, <2>4, <2>5 DEF ClientInv
<1>17. HandOver(c)
  <2>1. c \in mgr'.todo => InHand(c)'
    BY <1>2, <1>4, <1>6, <1>8, <1>9, <1>12
       DEF InHand, ResetInHand, DeleteInHand, RowMatches, CoreMatches, ResetPcs, DeletePcs, Doing,
           Absent
  <2>2. mgr'.c = c => ResetInHand(c)' /\ DeleteInHand(c)'
    BY <1>2, <1>4, <1>5, <1>6, <1>8, <1>9, <1>12
       DEF InHand, ResetInHand, DeleteInHand, RowMatches, CoreMatches, ResetPcs, DeletePcs, Doing,
           Absent
  <2> QED BY <2>1, <2>2, <1>1, <1>2, <1>4, <1>6, <1>8, <1>9, <1>12
         DEF HandOver, EditPcs, TickPcs, ResetPcs, DeletePcs, ThreadInv, HandInv
<1>18. ManagedTypes'
  BY <1>3, <1>7, <1>8, <1>10, <1>13, <1>14 DEF ManagedTypes
<1> QED BY <1>15, <1>16, <1>17, <1>18, OneClientStep

\* adopt(): the counter the client has becomes its baseline.
LEMMA AdoptInv ==
    ASSUME ManagedInv, NEW c \in Emails, Adopt(c)
    PROVE  ManagedInv'
<1>1. ManagedTypes /\ ThreadInv /\ \A d \in Emails : ClientInv(d)
  BY DEF ManagedInv
<1>2. /\ BooksBalance(c) /\ BaselineHolds(c) /\ CoreMatches(c) /\ RowMatches(c)
      /\ ResetOnce(c) /\ ForeignMarked(c)
      /\ c \in mgr.todo => InHand(c)
      /\ mgr.c = c => ResetInHand(c) /\ DeleteInHand(c)
      /\ mgr.pc \in ResetPcs \union DeletePcs => mgr.c \in mgr.todo
  BY <1>1 DEF ThreadInv, HandInv, ClientInv
<1>3. /\ row \in [Emails -> RowSet] /\ core \in [Emails -> CoreSet] /\ mgr \in Threads
      /\ row[c] \in RowSet /\ core[c] \in CoreSet /\ Flags /\ Counters
  BY <1>1 DEF ManagedTypes
<1>4. /\ mgr.pc = "idle"
      /\ mgr.todo = {}
      /\ mgr.want = "none"
      /\ row[c].st = "none"
      /\ core[c].who = "own"
  BY <1>1, <1>2, <1>3 DEF Adopt, At, Ask, Free
<1>5. /\ row[c].last \in Nat /\ core[c].count \in Nat /\ charged[c] \in Nat /\ metered[c] \in Nat
      /\ tomb[c] \in Nat \union {-1} /\ mgr.final \in Nat /\ resets[c] \in Nat
      /\ core[c].who \in {"none", "own", "other"}
  BY <1>3 DEF RowSet, CoreSet, Threads, Counters
<1>6. row'[c].op = row[c].op /\ row'[c].st = "applied" /\ row'[c].last = core[c].count
  BY <1>2, <1>3, <1>4 DEF Adopt, At, Ask, Free, RowSet
<1>7. row' \in [Emails -> RowSet]
  BY <1>2, <1>3, <1>4, <1>5 DEF Adopt, At, Ask, Free, RowSet, Statuses, CoreSet
<1>8. core' = core
  BY <1>3, <1>4 DEF Adopt, At, Ask, Free, CoreSet, Absent
<1>9. /\ mgr'.pc = "tick" /\ mgr'.todo = mgr.todo /\ mgr'.c = mgr.c
      /\ mgr'.final = mgr.final /\ mgr'.want = mgr.want /\ mgr'.for = mgr.for
  BY <1>3, <1>4 DEF Adopt, At, Ask, Free, Threads
<1>10. mgr' \in Threads
  BY <1>3, <1>4, <1>5 DEF Adopt, At, Ask, Free, Threads, Pcs, ResetPcs, DeletePcs
<1>11. /\ UNCHANGED <<lost, charged, metered, resets, tomb>>
      /\ policy' = [policy EXCEPT ![c] = TRUE]
  BY <1>3, <1>4 DEF Adopt, At, Ask, Free
<1>12. /\ UNCHANGED <<lost, charged, metered, resets, tomb>>
      /\ policy'[c] = TRUE
  BY <1>11, <1>3 DEF Flags, Counters
<1>13. Flags'
  BY Zenon, <1>3, <1>11, FlagSet DEF Flags
<1>14. Counters'
  BY <1>3, <1>5, <1>11 DEF Counters, Increment
<1>15. ASSUME NEW d \in Emails, d # c PROVE Unchanged(d)
  <2>1. row'[d] = row[d] /\ core'[d] = core[d]
    BY <1>3, <1>4, <1>15 DEF Adopt, At, Ask, Free
  <2>2. /\ policy'[d] = policy[d] /\ lost'[d] = lost[d] /\ charged'[d] = charged[d]
        /\ metered'[d] = metered[d] /\ resets'[d] = resets[d] /\ tomb'[d] = tomb[d]
    BY <1>3, <1>11, <1>15 DEF Flags, Counters
  <2> QED BY <2>1, <2>2 DEF Unchanged
<1>16. ClientInv(c)'
  <2>1. BooksBalance(c)'
    BY <1>2, <1>4, <1>5, <1>6, <1>8, <1>9, <1>12
       DEF InHand, ResetInHand, DeleteInHand, RowMatches, CoreMatches, ResetPcs, DeletePcs, Doing,
           Absent, BooksBalance, BaselineHolds, Owed, Increment
  <2>2. BaselineHolds(c)'
    BY <1>2, <1>4, <1>5, <1>6, <1>8, <1>9, <1>12
       DEF InHand, ResetInHand, DeleteInHand, RowMatches, CoreMatches, ResetPcs, DeletePcs, Doing,
           Absent, BooksBalance, BaselineHolds
  <2>3. CoreMatches(c)' /\ RowMatches(c)'
    BY <1>2, <1>4, <1>6, <1>8, <1>9, <1>12
       DEF InHand, ResetInHand, DeleteInHand, RowMatches, CoreMatches, ResetPcs, DeletePcs, Doing,
           Absent
  <2>4. ResetOnce(c)'
    BY <1>2, <1>4, <1>5, <1>6, <1>8, <1>9, <1>12
       DEF InHand, ResetInHand, DeleteInHand, RowMatches, CoreMatches, ResetPcs, DeletePcs, Doing,
           Absent, ResetOnce
  <2>5. ForeignMarked(c)'
    BY <1>2, <1>4, <1>5, <1>6, <1>8, <1>9, <1>12
       DEF InHand, ResetInHand, DeleteInHand, RowMatches, CoreMatches, ResetPcs, DeletePcs, Doing,
           Absent, ForeignMarked, TickPcs
  <2> QED BY <2>1, <2>2, <2>3, <2>4, <2>5 DEF ClientInv
<1>17. HandOver(c)
  <2>1. c \in mgr'.todo => InHand(c)'
    BY <1>2, <1>4, <1>6, <1>8, <1>9, <1>12
       DEF InHand, ResetInHand, DeleteInHand, RowMatches, CoreMatches, ResetPcs, DeletePcs, Doing,
           Absent
  <2>2. mgr'.c = c => ResetInHand(c)' /\ DeleteInHand(c)'
    BY <1>2, <1>4, <1>5, <1>6, <1>8, <1>9, <1>12
       DEF InHand, ResetInHand, DeleteInHand, RowMatches, CoreMatches, ResetPcs, DeletePcs, Doing,
           Absent
  <2> QED BY <2>1, <2>2, <1>1, <1>2, <1>4, <1>6, <1>8, <1>9, <1>12
         DEF HandOver, EditPcs, TickPcs, ResetPcs, DeletePcs, ThreadInv, HandInv
<1>18. ManagedTypes'
  BY <1>3, <1>7, <1>8, <1>10, <1>13, <1>14 DEF ManagedTypes
<1> QED BY <1>15, <1>16, <1>17, <1>18, OneClientStep

\* update(): the lock goes on to the upsert; a reset it overwrites may lose a counter.
LEMMA UpdateInv ==
    ASSUME ManagedInv, NEW c \in Emails, NEW enable \in BOOLEAN, Update(c, enable)
    PROVE  ManagedInv'
<1>1. ManagedTypes /\ ThreadInv /\ \A d \in Emails : ClientInv(d)
  BY DEF ManagedInv
<1>2. /\ BooksBalance(c) /\ BaselineHolds(c) /\ CoreMatches(c) /\ RowMatches(c)
      /\ ResetOnce(c) /\ ForeignMarked(c)
      /\ c \in mgr.todo => InHand(c)
      /\ mgr.c = c => ResetInHand(c) /\ DeleteInHand(c)
      /\ mgr.pc \in ResetPcs \union DeletePcs => mgr.c \in mgr.todo
  BY <1>1 DEF ThreadInv, HandInv, ClientInv
<1>3. /\ row \in [Emails -> RowSet] /\ core \in [Emails -> CoreSet] /\ mgr \in Threads
      /\ row[c] \in RowSet /\ core[c] \in CoreSet /\ Flags /\ Counters
  BY <1>1 DEF ManagedTypes
<1>4. /\ mgr.pc = "idle"
      /\ mgr.todo = {}
      /\ mgr.want = "none"
      /\ row[c].st \notin {"none", "deleted", "uncertain"}
      /\ policy[c]
  BY <1>1, <1>2, <1>3 DEF Update, Ask, Staged, Free, Live
<1>5. /\ row[c].last \in Nat /\ core[c].count \in Nat /\ charged[c] \in Nat /\ metered[c] \in Nat
      /\ tomb[c] \in Nat \union {-1} /\ mgr.final \in Nat /\ resets[c] \in Nat
      /\ core[c].who \in {"none", "own", "other"}
  BY <1>3 DEF RowSet, CoreSet, Threads, Counters
<1>6. row'[c].op = "upsert" /\ row'[c].st = "pending" /\ row'[c].last = row[c].last
  BY <1>2, <1>3, <1>4 DEF Update, Ask, Staged, Free, Live, RowSet
<1>7. row' \in [Emails -> RowSet]
  BY <1>2, <1>3, <1>4, <1>5 DEF Update, Ask, Staged, Free, Live, RowSet, Statuses
<1>8. core' = core
  BY <1>3, <1>4 DEF Update, Ask, Staged, Free, Live, CoreSet, Absent
<1>9. /\ mgr'.pc = "edit" /\ mgr'.todo = {c} /\ mgr'.c = mgr.c
      /\ mgr'.final = mgr.final /\ mgr'.want = mgr.want /\ mgr'.for = mgr.for
  BY <1>3, <1>4 DEF Update, Ask, Staged, Free, Live, Threads
<1>10. mgr' \in Threads
  BY <1>3, <1>4, <1>5 DEF Update, Ask, Staged, Free, Live, Threads, Pcs, ResetPcs, DeletePcs
<1>11. /\ UNCHANGED <<policy, charged, metered, resets, tomb>>
      /\ lost' = [lost EXCEPT ![c] = (lost[c] \/ core[c] = Absent \/ row[c].op = "reset")]
  BY <1>3, <1>4 DEF Update, Ask, Staged, Free, Live
<1>12. /\ UNCHANGED <<policy, charged, metered, resets, tomb>>
      /\ lost'[c] = (lost[c] \/ core[c] = Absent \/ row[c].op = "reset")
  BY <1>11, <1>3 DEF Flags, Counters
<1>13. Flags'
  BY Zenon, <1>3, <1>11, FlagSet DEF Flags
<1>14. Counters'
  BY <1>3, <1>5, <1>11 DEF Counters, Increment
<1>15. ASSUME NEW d \in Emails, d # c PROVE Unchanged(d)
  <2>1. row'[d] = row[d] /\ core'[d] = core[d]
    BY <1>3, <1>4, <1>15 DEF Update, Ask, Staged, Free, Live
  <2>2. /\ policy'[d] = policy[d] /\ lost'[d] = lost[d] /\ charged'[d] = charged[d]
        /\ metered'[d] = metered[d] /\ resets'[d] = resets[d] /\ tomb'[d] = tomb[d]
    BY <1>3, <1>11, <1>15 DEF Flags, Counters
  <2> QED BY <2>1, <2>2 DEF Unchanged
<1>16. ClientInv(c)'
  <2>1. BooksBalance(c)'
    <3>1. Owed(c)' = Owed(c) /\ Owed(c) \in Nat
      BY <1>2, <1>4, <1>5, <1>6, <1>8, <1>9, <1>12 DEF Owed, Increment, Doing
    <3>2. CASE lost[c]
      BY <1>2, <1>4, <1>5, <1>6, <1>8, <1>9, <1>12, <3>1, <3>2 DEF BooksBalance
    <3>3. CASE ~lost[c]
      BY <1>2, <1>4, <1>5, <1>6, <1>8, <1>9, <1>12, <3>1, <3>3 DEF BooksBalance
    <3> QED BY <3>2, <3>3
  <2>2. BaselineHolds(c)'
    BY <1>2, <1>4, <1>5, <1>6, <1>8, <1>9, <1>12
       DEF InHand, ResetInHand, DeleteInHand, RowMatches, CoreMatches, ResetPcs, DeletePcs, Doing,
           Absent, BooksBalance, BaselineHolds
  <2>3. CoreMatches(c)' /\ RowMatches(c)'
    BY <1>2, <1>4, <1>6, <1>8, <1>9, <1>12
       DEF InHand, ResetInHand, DeleteInHand, RowMatches, CoreMatches, ResetPcs, DeletePcs, Doing,
           Absent
  <2>4. ResetOnce(c)'
    BY <1>2, <1>4, <1>5, <1>6, <1>8, <1>9, <1>12
       DEF InHand, ResetInHand, DeleteInHand, RowMatches, CoreMatches, ResetPcs, DeletePcs, Doing,
           Absent, ResetOnce
  <2>5. ForeignMarked(c)'
    BY <1>2, <1>4, <1>5, <1>6, <1>8, <1>9, <1>12
       DEF InHand, ResetInHand, DeleteInHand, RowMatches, CoreMatches, ResetPcs, DeletePcs, Doing,
           Absent, ForeignMarked, TickPcs
  <2> QED BY <2>1, <2>2, <2>3, <2>4, <2>5 DEF ClientInv
<1>17. HandOver(c)
  <2>1. c \in mgr'.todo => InHand(c)'
    BY <1>2, <1>4, <1>6, <1>8, <1>9, <1>12
       DEF InHand, ResetInHand, DeleteInHand, RowMatches, CoreMatches, ResetPcs, DeletePcs, Doing,
           Absent
  <2>2. mgr'.c = c => ResetInHand(c)' /\ DeleteInHand(c)'
    BY <1>2, <1>4, <1>5, <1>6, <1>8, <1>9, <1>12
       DEF InHand, ResetInHand, DeleteInHand, RowMatches, CoreMatches, ResetPcs, DeletePcs, Doing,
           Absent
  <2> QED BY <2>1, <2>2, <1>1, <1>2, <1>4, <1>6, <1>8, <1>9, <1>12
         DEF HandOver, EditPcs, TickPcs, ResetPcs, DeletePcs, ThreadInv, HandInv
<1>18. ManagedTypes'
  BY <1>3, <1>7, <1>8, <1>10, <1>13, <1>14 DEF ManagedTypes
<1> QED BY <1>15, <1>16, <1>17, <1>18, OneClientStep

\* action(): the request waits for the tick it starts.
LEMMA AskActionInv ==
    ASSUME ManagedInv, NEW c \in Emails, NEW op \in {"reset", "delete"}, AskAction(c, op)
    PROVE  ManagedInv'
<1>1. ManagedTypes /\ ThreadInv /\ \A d \in Emails : ClientInv(d)
  BY DEF ManagedInv
<1>2. /\ BooksBalance(c) /\ BaselineHolds(c) /\ CoreMatches(c) /\ RowMatches(c)
      /\ ResetOnce(c) /\ ForeignMarked(c)
      /\ c \in mgr.todo => InHand(c)
      /\ mgr.c = c => ResetInHand(c) /\ DeleteInHand(c)
      /\ mgr.pc \in ResetPcs \union DeletePcs => mgr.c \in mgr.todo
  BY <1>1 DEF ThreadInv, HandInv, ClientInv
<1>3. /\ row \in [Emails -> RowSet] /\ core \in [Emails -> CoreSet] /\ mgr \in Threads
      /\ row[c] \in RowSet /\ core[c] \in CoreSet /\ Flags /\ Counters
  BY <1>1 DEF ManagedTypes
<1>4. /\ mgr.pc = "idle"
      /\ mgr.todo = {}
      /\ mgr.want = "none"
      /\ row[c].st \notin {"none", "deleted"}
      /\ policy[c]
  BY <1>1, <1>2, <1>3 DEF AskAction, Ask, Free, Live
<1>5. /\ row[c].last \in Nat /\ core[c].count \in Nat /\ charged[c] \in Nat /\ metered[c] \in Nat
      /\ tomb[c] \in Nat \union {-1} /\ mgr.final \in Nat /\ resets[c] \in Nat
      /\ core[c].who \in {"none", "own", "other"}
  BY <1>3 DEF RowSet, CoreSet, Threads, Counters
<1>6. row' = row
  BY <1>2, <1>3, <1>4 DEF AskAction, Ask, Free, Live, RowSet
<1>7. core' = core
  BY <1>3, <1>4 DEF AskAction, Ask, Free, Live, CoreSet, Absent
<1>8. /\ mgr'.pc = "tick" /\ mgr'.todo = mgr.todo /\ mgr'.c = mgr.c
      /\ mgr'.final = mgr.final /\ mgr'.want = op /\ mgr'.for = c
  BY <1>3, <1>4 DEF AskAction, Ask, Free, Live, Threads
<1>9. mgr' \in Threads
  BY <1>3, <1>4, <1>5 DEF AskAction, Ask, Free, Live, Threads, Pcs, ResetPcs, DeletePcs
<1>10. UNCHANGED <<policy, lost, charged, metered, resets, tomb>>
  BY <1>3, <1>4 DEF AskAction, Ask, Free, Live
<1>11. ASSUME NEW d \in Emails, d # c PROVE Unchanged(d)
  <2>1. row'[d] = row[d] /\ core'[d] = core[d]
    BY <1>3, <1>4, <1>11 DEF AskAction, Ask, Free, Live
  <2>2. /\ policy'[d] = policy[d] /\ lost'[d] = lost[d] /\ charged'[d] = charged[d]
        /\ metered'[d] = metered[d] /\ resets'[d] = resets[d] /\ tomb'[d] = tomb[d]
    BY <1>3, <1>10, <1>11 DEF Flags, Counters
  <2> QED BY <2>1, <2>2 DEF Unchanged
<1>12. ClientInv(c)'
  <2>1. BooksBalance(c)'
    BY <1>2, <1>4, <1>5, <1>6, <1>7, <1>8, <1>10
       DEF InHand, ResetInHand, DeleteInHand, RowMatches, CoreMatches, ResetPcs, DeletePcs, Doing,
           Absent, BooksBalance, BaselineHolds, Owed, Increment
  <2>2. BaselineHolds(c)'
    BY <1>2, <1>4, <1>5, <1>6, <1>7, <1>8, <1>10
       DEF InHand, ResetInHand, DeleteInHand, RowMatches, CoreMatches, ResetPcs, DeletePcs, Doing,
           Absent, BooksBalance, BaselineHolds
  <2>3. CoreMatches(c)' /\ RowMatches(c)'
    BY <1>2, <1>4, <1>6, <1>7, <1>8, <1>10
       DEF InHand, ResetInHand, DeleteInHand, RowMatches, CoreMatches, ResetPcs, DeletePcs, Doing,
           Absent
  <2>4. ResetOnce(c)'
    BY <1>2, <1>4, <1>5, <1>6, <1>7, <1>8, <1>10
       DEF InHand, ResetInHand, DeleteInHand, RowMatches, CoreMatches, ResetPcs, DeletePcs, Doing,
           Absent, ResetOnce
  <2>5. ForeignMarked(c)'
    BY <1>2, <1>4, <1>5, <1>6, <1>7, <1>8, <1>10
       DEF InHand, ResetInHand, DeleteInHand, RowMatches, CoreMatches, ResetPcs, DeletePcs, Doing,
           Absent, ForeignMarked, TickPcs
  <2> QED BY <2>1, <2>2, <2>3, <2>4, <2>5 DEF ClientInv
<1>13. HandOver(c)
  <2>1. c \in mgr'.todo => InHand(c)'
    BY <1>2, <1>4, <1>6, <1>7, <1>8, <1>10
       DEF InHand, ResetInHand, DeleteInHand, RowMatches, CoreMatches, ResetPcs, DeletePcs, Doing,
           Absent
  <2>2. mgr'.c = c => ResetInHand(c)' /\ DeleteInHand(c)'
    BY <1>2, <1>4, <1>5, <1>6, <1>7, <1>8, <1>10
       DEF InHand, ResetInHand, DeleteInHand, RowMatches, CoreMatches, ResetPcs, DeletePcs, Doing,
           Absent
  <2> QED BY <2>1, <2>2, <1>1, <1>2, <1>4, <1>6, <1>7, <1>8, <1>10
         DEF HandOver, EditPcs, TickPcs, ResetPcs, DeletePcs, ThreadInv, HandInv
<1>14. ManagedTypes'
  BY <1>3, <1>6, <1>7, <1>9, <1>10 DEF ManagedTypes, Flags, Counters
<1> QED BY <1>11, <1>12, <1>13, <1>14, OneClientStep

\* action() after its tick: the operation is staged, unless a reset is uncertain.
LEMMA StageActionInv ==
    ASSUME ManagedInv, NEW c \in Emails, mgr.for = c, StageAction
    PROVE  ManagedInv'
<1>1. ManagedTypes /\ ThreadInv /\ \A d \in Emails : ClientInv(d)
  BY DEF ManagedInv
<1>2. /\ BooksBalance(c) /\ BaselineHolds(c) /\ CoreMatches(c) /\ RowMatches(c)
      /\ ResetOnce(c) /\ ForeignMarked(c)
      /\ c \in mgr.todo => InHand(c)
      /\ mgr.c = c => ResetInHand(c) /\ DeleteInHand(c)
      /\ mgr.pc \in ResetPcs \union DeletePcs => mgr.c \in mgr.todo
  BY <1>1 DEF ThreadInv, HandInv, ClientInv
<1>3. /\ row \in [Emails -> RowSet] /\ core \in [Emails -> CoreSet] /\ mgr \in Threads
      /\ row[c] \in RowSet /\ core[c] \in CoreSet /\ Flags /\ Counters
  BY <1>1 DEF ManagedTypes
<1>4. /\ mgr.pc = "done"
      /\ mgr.todo = {}
      /\ mgr.want \in {"reset", "delete"}
      /\ row[c].st # "none"
  BY <1>1, <1>2, <1>3 DEF StageAction, Staged, Free, ThreadInv, HandInv, Threads
<1>5. /\ row[c].last \in Nat /\ core[c].count \in Nat /\ charged[c] \in Nat /\ metered[c] \in Nat
      /\ tomb[c] \in Nat \union {-1} /\ mgr.final \in Nat /\ resets[c] \in Nat
      /\ core[c].who \in {"none", "own", "other"}
  BY <1>3 DEF RowSet, CoreSet, Threads, Counters
<1>6. CASE row[c].st = "uncertain"
  <2>1. row' = row
    BY <1>6, <1>2, <1>3, <1>4 DEF StageAction, Staged, Free, RowSet
  <2>2. core' = core
    BY <1>6, <1>3, <1>4 DEF StageAction, Staged, Free, CoreSet, Absent
  <2>3. /\ mgr'.pc = "idle" /\ mgr'.todo = {} /\ mgr'.c = "none"
        /\ mgr'.final = 0 /\ mgr'.want = "none" /\ mgr'.for = "none"
    BY <1>6, <1>3, <1>4 DEF StageAction, Staged, Free, Threads
  <2>4. mgr' \in Threads
    BY <1>6, <1>3, <1>4, <1>5 DEF StageAction, Staged, Free, Threads, Pcs, ResetPcs, DeletePcs
  <2>5. UNCHANGED <<policy, lost, charged, metered, resets, tomb>>
    BY <1>6, <1>3, <1>4 DEF StageAction, Staged, Free
  <2>6. ASSUME NEW d \in Emails, d # c PROVE Unchanged(d)
    <3>1. row'[d] = row[d] /\ core'[d] = core[d]
      BY <1>6, <1>3, <1>4, <2>6 DEF StageAction, Staged, Free
    <3>2. /\ policy'[d] = policy[d] /\ lost'[d] = lost[d] /\ charged'[d] = charged[d]
          /\ metered'[d] = metered[d] /\ resets'[d] = resets[d] /\ tomb'[d] = tomb[d]
      BY <1>3, <2>5, <2>6 DEF Flags, Counters
    <3> QED BY <3>1, <3>2 DEF Unchanged
  <2>7. ClientInv(c)'
    <3>1. BooksBalance(c)'
      BY <1>6, <1>2, <1>4, <1>5, <2>1, <2>2, <2>3, <2>5
         DEF InHand, ResetInHand, DeleteInHand, RowMatches, CoreMatches, ResetPcs, DeletePcs,
             Doing, Absent, BooksBalance, BaselineHolds, Owed, Increment
    <3>2. BaselineHolds(c)'
      BY <1>6, <1>2, <1>4, <1>5, <2>1, <2>2, <2>3, <2>5
         DEF InHand, ResetInHand, DeleteInHand, RowMatches, CoreMatches, ResetPcs, DeletePcs,
             Doing, Absent, BooksBalance, BaselineHolds
    <3>3. CoreMatches(c)' /\ RowMatches(c)'
      BY <1>6, <1>2, <1>4, <2>1, <2>2, <2>3, <2>5
         DEF InHand, ResetInHand, DeleteInHand, RowMatches, CoreMatches, ResetPcs, DeletePcs,
             Doing, Absent
    <3>4. ResetOnce(c)'
      BY <1>6, <1>2, <1>4, <1>5, <2>1, <2>2, <2>3, <2>5
         DEF InHand, ResetInHand, DeleteInHand, RowMatches, CoreMatches, ResetPcs, DeletePcs,
             Doing, Absent, ResetOnce
    <3>5. ForeignMarked(c)'
      BY <1>6, <1>2, <1>4, <1>5, <2>1, <2>2, <2>3, <2>5
         DEF InHand, ResetInHand, DeleteInHand, RowMatches, CoreMatches, ResetPcs, DeletePcs,
             Doing, Absent, ForeignMarked, TickPcs
    <3> QED BY <3>1, <3>2, <3>3, <3>4, <3>5 DEF ClientInv
  <2>8. HandOver(c)
    <3>1. c \in mgr'.todo => InHand(c)'
      BY <1>6, <1>2, <1>4, <2>1, <2>2, <2>3, <2>5
         DEF InHand, ResetInHand, DeleteInHand, RowMatches, CoreMatches, ResetPcs, DeletePcs,
             Doing, Absent
    <3>2. mgr'.c = c => ResetInHand(c)' /\ DeleteInHand(c)'
      BY <1>6, <1>2, <1>4, <1>5, <2>1, <2>2, <2>3, <2>5
         DEF InHand, ResetInHand, DeleteInHand, RowMatches, CoreMatches, ResetPcs, DeletePcs,
             Doing, Absent
    <3> QED BY <3>1, <3>2, <1>6, <1>1, <1>2, <1>4, <2>1, <2>2, <2>3, <2>5
           DEF HandOver, EditPcs, TickPcs, ResetPcs, DeletePcs, ThreadInv, HandInv
  <2>9. ManagedTypes'
    BY <1>3, <2>1, <2>2, <2>4, <2>5 DEF ManagedTypes, Flags, Counters
  <2> QED BY <2>6, <2>7, <2>8, <2>9, OneClientStep
<1>7. CASE /\ row[c].st # "uncertain"
             /\ row' = [row EXCEPT ![c] = [row[c] EXCEPT !.op = mgr.want, !.st = "pending",
                                                         !.later = FALSE]]
  <2>1. row'[c].op = mgr.want /\ row'[c].st = "pending" /\ row'[c].last = row[c].last
    BY <1>7, <1>2, <1>3, <1>4 DEF StageAction, Staged, Free, RowSet
  <2>2. row' \in [Emails -> RowSet]
    BY <1>7, <1>2, <1>3, <1>4, <1>5 DEF StageAction, Staged, Free, RowSet, Statuses, Threads
  <2>3. core' = core
    BY <1>7, <1>3, <1>4 DEF StageAction, Staged, Free, CoreSet, Absent
  <2>4. /\ mgr'.pc = "tick" /\ mgr'.todo = {} /\ mgr'.c = "none"
        /\ mgr'.final = 0 /\ mgr'.want = "none" /\ mgr'.for = "none"
    BY <1>7, <1>3, <1>4 DEF StageAction, Staged, Free, Threads
  <2>5. mgr' \in Threads
    BY <1>7, <1>3, <1>4, <1>5 DEF StageAction, Staged, Free, Threads, Pcs, ResetPcs, DeletePcs
  <2>6. /\ UNCHANGED <<policy, lost, charged, metered, tomb>>
        /\ resets' = [resets EXCEPT ![c] = 0]
    BY <1>7, <1>3, <1>4 DEF StageAction, Staged, Free
  <2>7. /\ UNCHANGED <<policy, lost, charged, metered, tomb>>
        /\ resets'[c] = 0
    BY <2>6, <1>3 DEF Flags, Counters
  <2>8. Flags'
    BY Zenon, <1>3, <2>6 DEF Flags
  <2>9. Counters'
    BY <1>7, <1>3, <1>5, <2>6 DEF Counters, Increment
  <2>10. ASSUME NEW d \in Emails, d # c PROVE Unchanged(d)
    <3>1. row'[d] = row[d] /\ core'[d] = core[d]
      BY <1>7, <1>3, <1>4, <2>10 DEF StageAction, Staged, Free
    <3>2. /\ policy'[d] = policy[d] /\ lost'[d] = lost[d] /\ charged'[d] = charged[d]
          /\ metered'[d] = metered[d] /\ resets'[d] = resets[d] /\ tomb'[d] = tomb[d]
      BY <1>3, <2>6, <2>10 DEF Flags, Counters
    <3> QED BY <3>1, <3>2 DEF Unchanged
  <2>11. ClientInv(c)'
    <3>1. BooksBalance(c)'
      BY <1>7, <1>2, <1>4, <1>5, <2>1, <2>3, <2>4, <2>7
         DEF InHand, ResetInHand, DeleteInHand, RowMatches, CoreMatches, ResetPcs, DeletePcs,
             Doing, Absent, BooksBalance, BaselineHolds, Owed, Increment
    <3>2. BaselineHolds(c)'
      BY <1>7, <1>2, <1>4, <1>5, <2>1, <2>3, <2>4, <2>7
         DEF InHand, ResetInHand, DeleteInHand, RowMatches, CoreMatches, ResetPcs, DeletePcs,
             Doing, Absent, BooksBalance, BaselineHolds
    <3>3. CoreMatches(c)' /\ RowMatches(c)'
      BY <1>7, <1>2, <1>4, <2>1, <2>3, <2>4, <2>7
         DEF InHand, ResetInHand, DeleteInHand, RowMatches, CoreMatches, ResetPcs, DeletePcs,
             Doing, Absent
    <3>4. ResetOnce(c)'
      BY <1>7, <1>2, <1>4, <1>5, <2>1, <2>3, <2>4, <2>7
         DEF InHand, ResetInHand, DeleteInHand, RowMatches, CoreMatches, ResetPcs, DeletePcs,
             Doing, Absent, ResetOnce
    <3>5. ForeignMarked(c)'
      BY <1>7, <1>2, <1>4, <1>5, <2>1, <2>3, <2>4, <2>7
         DEF InHand, ResetInHand, DeleteInHand, RowMatches, CoreMatches, ResetPcs, DeletePcs,
             Doing, Absent, ForeignMarked, TickPcs
    <3> QED BY <3>1, <3>2, <3>3, <3>4, <3>5 DEF ClientInv
  <2>12. HandOver(c)
    <3>1. c \in mgr'.todo => InHand(c)'
      BY <1>7, <1>2, <1>4, <2>1, <2>3, <2>4, <2>7
         DEF InHand, ResetInHand, DeleteInHand, RowMatches, CoreMatches, ResetPcs, DeletePcs,
             Doing, Absent
    <3>2. mgr'.c = c => ResetInHand(c)' /\ DeleteInHand(c)'
      BY <1>7, <1>2, <1>4, <1>5, <2>1, <2>3, <2>4, <2>7
         DEF InHand, ResetInHand, DeleteInHand, RowMatches, CoreMatches, ResetPcs, DeletePcs,
             Doing, Absent
    <3> QED BY <3>1, <3>2, <1>7, <1>1, <1>2, <1>4, <2>1, <2>3, <2>4, <2>7
           DEF HandOver, EditPcs, TickPcs, ResetPcs, DeletePcs, ThreadInv, HandInv
  <2>13. ManagedTypes'
    BY <1>3, <2>2, <2>3, <2>5, <2>8, <2>9 DEF ManagedTypes
  <2> QED BY <2>10, <2>11, <2>12, <2>13, OneClientStep
<1> QED BY <1>6, <1>7, <1>2, <1>4, <1>5 DEF StageAction, Staged, Free

\* retry(): the operation in error is pending again.
LEMMA RetryOperationInv ==
    ASSUME ManagedInv, NEW c \in Emails, RetryOperation(c)
    PROVE  ManagedInv'
<1>1. ManagedTypes /\ ThreadInv /\ \A d \in Emails : ClientInv(d)
  BY DEF ManagedInv
<1>2. /\ BooksBalance(c) /\ BaselineHolds(c) /\ CoreMatches(c) /\ RowMatches(c)
      /\ ResetOnce(c) /\ ForeignMarked(c)
      /\ c \in mgr.todo => InHand(c)
      /\ mgr.c = c => ResetInHand(c) /\ DeleteInHand(c)
      /\ mgr.pc \in ResetPcs \union DeletePcs => mgr.c \in mgr.todo
  BY <1>1 DEF ThreadInv, HandInv, ClientInv
<1>3. /\ row \in [Emails -> RowSet] /\ core \in [Emails -> CoreSet] /\ mgr \in Threads
      /\ row[c] \in RowSet /\ core[c] \in CoreSet /\ Flags /\ Counters
  BY <1>1 DEF ManagedTypes
<1>4. /\ mgr.pc = "idle"
      /\ mgr.todo = {}
      /\ mgr.want = "none"
      /\ row[c].op # "none"
      /\ row[c].st \in {"pending", "error"}
  BY <1>1, <1>2, <1>3 DEF RetryOperation, At, Ask, Free
<1>5. /\ row[c].last \in Nat /\ core[c].count \in Nat /\ charged[c] \in Nat /\ metered[c] \in Nat
      /\ tomb[c] \in Nat \union {-1} /\ mgr.final \in Nat /\ resets[c] \in Nat
      /\ core[c].who \in {"none", "own", "other"}
  BY <1>3 DEF RowSet, CoreSet, Threads, Counters
<1>6. row'[c].op = row[c].op /\ row'[c].st = "pending" /\ row'[c].last = row[c].last
  BY <1>2, <1>3, <1>4 DEF RetryOperation, At, Ask, Free, RowSet
<1>7. row' \in [Emails -> RowSet]
  BY <1>2, <1>3, <1>4, <1>5 DEF RetryOperation, At, Ask, Free, RowSet, Statuses
<1>8. core' = core
  BY <1>3, <1>4 DEF RetryOperation, At, Ask, Free, CoreSet, Absent
<1>9. /\ mgr'.pc = "tick" /\ mgr'.todo = mgr.todo /\ mgr'.c = mgr.c
      /\ mgr'.final = mgr.final /\ mgr'.want = mgr.want /\ mgr'.for = mgr.for
  BY <1>3, <1>4 DEF RetryOperation, At, Ask, Free, Threads
<1>10. mgr' \in Threads
  BY <1>3, <1>4, <1>5 DEF RetryOperation, At, Ask, Free, Threads, Pcs, ResetPcs, DeletePcs
<1>11. UNCHANGED <<policy, lost, charged, metered, resets, tomb>>
  BY <1>3, <1>4 DEF RetryOperation, At, Ask, Free
<1>12. ASSUME NEW d \in Emails, d # c PROVE Unchanged(d)
  <2>1. row'[d] = row[d] /\ core'[d] = core[d]
    BY <1>3, <1>4, <1>12 DEF RetryOperation, At, Ask, Free
  <2>2. /\ policy'[d] = policy[d] /\ lost'[d] = lost[d] /\ charged'[d] = charged[d]
        /\ metered'[d] = metered[d] /\ resets'[d] = resets[d] /\ tomb'[d] = tomb[d]
    BY <1>3, <1>11, <1>12 DEF Flags, Counters
  <2> QED BY <2>1, <2>2 DEF Unchanged
<1>13. ClientInv(c)'
  <2>1. BooksBalance(c)'
    BY <1>2, <1>4, <1>5, <1>6, <1>8, <1>9, <1>11
       DEF InHand, ResetInHand, DeleteInHand, RowMatches, CoreMatches, ResetPcs, DeletePcs, Doing,
           Absent, BooksBalance, BaselineHolds, Owed, Increment
  <2>2. BaselineHolds(c)'
    BY <1>2, <1>4, <1>5, <1>6, <1>8, <1>9, <1>11
       DEF InHand, ResetInHand, DeleteInHand, RowMatches, CoreMatches, ResetPcs, DeletePcs, Doing,
           Absent, BooksBalance, BaselineHolds
  <2>3. CoreMatches(c)' /\ RowMatches(c)'
    BY <1>2, <1>4, <1>6, <1>8, <1>9, <1>11
       DEF InHand, ResetInHand, DeleteInHand, RowMatches, CoreMatches, ResetPcs, DeletePcs, Doing,
           Absent
  <2>4. ResetOnce(c)'
    BY <1>2, <1>4, <1>5, <1>6, <1>8, <1>9, <1>11
       DEF InHand, ResetInHand, DeleteInHand, RowMatches, CoreMatches, ResetPcs, DeletePcs, Doing,
           Absent, ResetOnce
  <2>5. ForeignMarked(c)'
    BY <1>2, <1>4, <1>5, <1>6, <1>8, <1>9, <1>11
       DEF InHand, ResetInHand, DeleteInHand, RowMatches, CoreMatches, ResetPcs, DeletePcs, Doing,
           Absent, ForeignMarked, TickPcs
  <2> QED BY <2>1, <2>2, <2>3, <2>4, <2>5 DEF ClientInv
<1>14. HandOver(c)
  <2>1. c \in mgr'.todo => InHand(c)'
    BY <1>2, <1>4, <1>6, <1>8, <1>9, <1>11
       DEF InHand, ResetInHand, DeleteInHand, RowMatches, CoreMatches, ResetPcs, DeletePcs, Doing,
           Absent
  <2>2. mgr'.c = c => ResetInHand(c)' /\ DeleteInHand(c)'
    BY <1>2, <1>4, <1>5, <1>6, <1>8, <1>9, <1>11
       DEF InHand, ResetInHand, DeleteInHand, RowMatches, CoreMatches, ResetPcs, DeletePcs, Doing,
           Absent
  <2> QED BY <2>1, <2>2, <1>1, <1>2, <1>4, <1>6, <1>8, <1>9, <1>11
         DEF HandOver, EditPcs, TickPcs, ResetPcs, DeletePcs, ThreadInv, HandInv
<1>15. ManagedTypes'
  BY <1>3, <1>7, <1>8, <1>10, <1>11 DEF ManagedTypes, Flags, Counters
<1> QED BY <1>12, <1>13, <1>14, <1>15, OneClientStep

\* restore_missing(): an upsert of a client the core lost.
LEMMA RestoreMissingInv ==
    ASSUME ManagedInv, NEW c \in Emails, RestoreMissing(c)
    PROVE  ManagedInv'
<1>1. ManagedTypes /\ ThreadInv /\ \A d \in Emails : ClientInv(d)
  BY DEF ManagedInv
<1>2. /\ BooksBalance(c) /\ BaselineHolds(c) /\ CoreMatches(c) /\ RowMatches(c)
      /\ ResetOnce(c) /\ ForeignMarked(c)
      /\ c \in mgr.todo => InHand(c)
      /\ mgr.c = c => ResetInHand(c) /\ DeleteInHand(c)
      /\ mgr.pc \in ResetPcs \union DeletePcs => mgr.c \in mgr.todo
  BY <1>1 DEF ThreadInv, HandInv, ClientInv
<1>3. /\ row \in [Emails -> RowSet] /\ core \in [Emails -> CoreSet] /\ mgr \in Threads
      /\ row[c] \in RowSet /\ core[c] \in CoreSet /\ Flags /\ Counters
  BY <1>1 DEF ManagedTypes
<1>4. /\ mgr.pc = "idle"
      /\ mgr.todo = {}
      /\ mgr.want = "none"
      /\ policy[c]
      /\ row[c].st = "missing"
      /\ row[c].op = "none"
      /\ core[c] = Absent
  BY <1>1, <1>2, <1>3 DEF RestoreMissing, At, Ask, Staged, Free
<1>5. /\ row[c].last \in Nat /\ core[c].count \in Nat /\ charged[c] \in Nat /\ metered[c] \in Nat
      /\ tomb[c] \in Nat \union {-1} /\ mgr.final \in Nat /\ resets[c] \in Nat
      /\ core[c].who \in {"none", "own", "other"}
  BY <1>3 DEF RowSet, CoreSet, Threads, Counters
<1>6. row'[c].op = "upsert" /\ row'[c].st = "pending" /\ row'[c].last = row[c].last
  BY <1>2, <1>3, <1>4 DEF RestoreMissing, At, Ask, Staged, Free, RowSet
<1>7. row' \in [Emails -> RowSet]
  BY <1>2, <1>3, <1>4, <1>5 DEF RestoreMissing, At, Ask, Staged, Free, RowSet, Statuses
<1>8. core' = core
  BY <1>3, <1>4 DEF RestoreMissing, At, Ask, Staged, Free, CoreSet, Absent
<1>9. /\ mgr'.pc = "tick" /\ mgr'.todo = mgr.todo /\ mgr'.c = mgr.c
      /\ mgr'.final = mgr.final /\ mgr'.want = mgr.want /\ mgr'.for = mgr.for
  BY <1>3, <1>4 DEF RestoreMissing, At, Ask, Staged, Free, Threads
<1>10. mgr' \in Threads
  BY <1>3, <1>4, <1>5 DEF RestoreMissing, At, Ask, Staged, Free, Threads, Pcs, ResetPcs, DeletePcs
<1>11. UNCHANGED <<policy, lost, charged, metered, resets, tomb>>
  BY <1>3, <1>4 DEF RestoreMissing, At, Ask, Staged, Free
<1>12. ASSUME NEW d \in Emails, d # c PROVE Unchanged(d)
  <2>1. row'[d] = row[d] /\ core'[d] = core[d]
    BY <1>3, <1>4, <1>12 DEF RestoreMissing, At, Ask, Staged, Free
  <2>2. /\ policy'[d] = policy[d] /\ lost'[d] = lost[d] /\ charged'[d] = charged[d]
        /\ metered'[d] = metered[d] /\ resets'[d] = resets[d] /\ tomb'[d] = tomb[d]
    BY <1>3, <1>11, <1>12 DEF Flags, Counters
  <2> QED BY <2>1, <2>2 DEF Unchanged
<1>13. ClientInv(c)'
  <2>1. BooksBalance(c)'
    BY <1>2, <1>4, <1>5, <1>6, <1>8, <1>9, <1>11
       DEF InHand, ResetInHand, DeleteInHand, RowMatches, CoreMatches, ResetPcs, DeletePcs, Doing,
           Absent, BooksBalance, BaselineHolds, Owed, Increment
  <2>2. BaselineHolds(c)'
    BY <1>2, <1>4, <1>5, <1>6, <1>8, <1>9, <1>11
       DEF InHand, ResetInHand, DeleteInHand, RowMatches, CoreMatches, ResetPcs, DeletePcs, Doing,
           Absent, BooksBalance, BaselineHolds
  <2>3. CoreMatches(c)' /\ RowMatches(c)'
    BY <1>2, <1>4, <1>6, <1>8, <1>9, <1>11
       DEF InHand, ResetInHand, DeleteInHand, RowMatches, CoreMatches, ResetPcs, DeletePcs, Doing,
           Absent
  <2>4. ResetOnce(c)'
    BY <1>2, <1>4, <1>5, <1>6, <1>8, <1>9, <1>11
       DEF InHand, ResetInHand, DeleteInHand, RowMatches, CoreMatches, ResetPcs, DeletePcs, Doing,
           Absent, ResetOnce
  <2>5. ForeignMarked(c)'
    BY <1>2, <1>4, <1>5, <1>6, <1>8, <1>9, <1>11
       DEF InHand, ResetInHand, DeleteInHand, RowMatches, CoreMatches, ResetPcs, DeletePcs, Doing,
           Absent, ForeignMarked, TickPcs
  <2> QED BY <2>1, <2>2, <2>3, <2>4, <2>5 DEF ClientInv
<1>14. HandOver(c)
  <2>1. c \in mgr'.todo => InHand(c)'
    BY <1>2, <1>4, <1>6, <1>8, <1>9, <1>11
       DEF InHand, ResetInHand, DeleteInHand, RowMatches, CoreMatches, ResetPcs, DeletePcs, Doing,
           Absent
  <2>2. mgr'.c = c => ResetInHand(c)' /\ DeleteInHand(c)'
    BY <1>2, <1>4, <1>5, <1>6, <1>8, <1>9, <1>11
       DEF InHand, ResetInHand, DeleteInHand, RowMatches, CoreMatches, ResetPcs, DeletePcs, Doing,
           Absent
  <2> QED BY <2>1, <2>2, <1>1, <1>2, <1>4, <1>6, <1>8, <1>9, <1>11
         DEF HandOver, EditPcs, TickPcs, ResetPcs, DeletePcs, ThreadInv, HandInv
<1>15. ManagedTypes'
  BY <1>3, <1>7, <1>8, <1>10, <1>11 DEF ManagedTypes, Flags, Counters
<1> QED BY <1>12, <1>13, <1>14, <1>15, OneClientStep

\* resolve_uncertain_reset(): what the counter says now is charged and is the baseline.
LEMMA ResolveResetInv ==
    ASSUME ManagedInv, NEW c \in Emails, ResolveReset(c)
    PROVE  ManagedInv'
<1>1. ManagedTypes /\ ThreadInv /\ \A d \in Emails : ClientInv(d)
  BY DEF ManagedInv
<1>2. /\ BooksBalance(c) /\ BaselineHolds(c) /\ CoreMatches(c) /\ RowMatches(c)
      /\ ResetOnce(c) /\ ForeignMarked(c)
      /\ c \in mgr.todo => InHand(c)
      /\ mgr.c = c => ResetInHand(c) /\ DeleteInHand(c)
      /\ mgr.pc \in ResetPcs \union DeletePcs => mgr.c \in mgr.todo
  BY <1>1 DEF ThreadInv, HandInv, ClientInv
<1>3. /\ row \in [Emails -> RowSet] /\ core \in [Emails -> CoreSet] /\ mgr \in Threads
      /\ row[c] \in RowSet /\ core[c] \in CoreSet /\ Flags /\ Counters
  BY <1>1 DEF ManagedTypes
<1>4. /\ mgr.pc = "idle"
      /\ mgr.todo = {}
      /\ mgr.want = "none"
      /\ row[c].st = "uncertain"
      /\ row[c].op = "reset"
      /\ core[c].who = "own"
  BY <1>1, <1>2, <1>3 DEF ResolveReset, At, Ask, Free
<1>5. /\ row[c].last \in Nat /\ core[c].count \in Nat /\ charged[c] \in Nat /\ metered[c] \in Nat
      /\ tomb[c] \in Nat \union {-1} /\ mgr.final \in Nat /\ resets[c] \in Nat
      /\ core[c].who \in {"none", "own", "other"}
  BY <1>3 DEF RowSet, CoreSet, Threads, Counters
<1>6. row'[c].op = "none" /\ row'[c].st = "applied" /\ row'[c].last = core[c].count
  BY <1>2, <1>3, <1>4 DEF ResolveReset, At, Ask, Free, RowSet
<1>7. row' \in [Emails -> RowSet]
  BY <1>2, <1>3, <1>4, <1>5 DEF ResolveReset, At, Ask, Free, RowSet, Statuses
<1>8. core' = core
  BY <1>3, <1>4 DEF ResolveReset, At, Ask, Free, CoreSet, Absent
<1>9. /\ mgr'.pc = "tick" /\ mgr'.todo = mgr.todo /\ mgr'.c = mgr.c
      /\ mgr'.final = mgr.final /\ mgr'.want = mgr.want /\ mgr'.for = mgr.for
  BY <1>3, <1>4 DEF ResolveReset, At, Ask, Free, Threads
<1>10. mgr' \in Threads
  BY <1>3, <1>4, <1>5 DEF ResolveReset, At, Ask, Free, Threads, Pcs, ResetPcs, DeletePcs
<1>11. /\ UNCHANGED <<policy, lost, metered, resets, tomb>>
      /\ charged' = [charged EXCEPT ![c] = charged[c] + Increment(c, core[c].count)]
  BY <1>3, <1>4 DEF ResolveReset, At, Ask, Free
<1>12. /\ UNCHANGED <<policy, lost, metered, resets, tomb>>
      /\ charged'[c] = charged[c] + Increment(c, core[c].count)
  BY <1>11, <1>3 DEF Flags, Counters
<1>13. Flags'
  BY Zenon, <1>3, <1>11 DEF Flags
<1>14. Counters'
  BY <1>3, <1>5, <1>11 DEF Counters, Increment
<1>15. ASSUME NEW d \in Emails, d # c PROVE Unchanged(d)
  <2>1. row'[d] = row[d] /\ core'[d] = core[d]
    BY <1>3, <1>4, <1>15 DEF ResolveReset, At, Ask, Free
  <2>2. /\ policy'[d] = policy[d] /\ lost'[d] = lost[d] /\ charged'[d] = charged[d]
        /\ metered'[d] = metered[d] /\ resets'[d] = resets[d] /\ tomb'[d] = tomb[d]
    BY <1>3, <1>11, <1>15 DEF Flags, Counters
  <2> QED BY <2>1, <2>2 DEF Unchanged
<1>16. ClientInv(c)'
  <2>1. BooksBalance(c)'
    BY <1>2, <1>4, <1>5, <1>6, <1>8, <1>9, <1>12
       DEF InHand, ResetInHand, DeleteInHand, RowMatches, CoreMatches, ResetPcs, DeletePcs, Doing,
           Absent, BooksBalance, BaselineHolds, Owed, Increment
  <2>2. BaselineHolds(c)'
    BY <1>2, <1>4, <1>5, <1>6, <1>8, <1>9, <1>12
       DEF InHand, ResetInHand, DeleteInHand, RowMatches, CoreMatches, ResetPcs, DeletePcs, Doing,
           Absent, BooksBalance, BaselineHolds
  <2>3. CoreMatches(c)' /\ RowMatches(c)'
    BY <1>2, <1>4, <1>6, <1>8, <1>9, <1>12
       DEF InHand, ResetInHand, DeleteInHand, RowMatches, CoreMatches, ResetPcs, DeletePcs, Doing,
           Absent
  <2>4. ResetOnce(c)'
    BY <1>2, <1>4, <1>5, <1>6, <1>8, <1>9, <1>12
       DEF InHand, ResetInHand, DeleteInHand, RowMatches, CoreMatches, ResetPcs, DeletePcs, Doing,
           Absent, ResetOnce
  <2>5. ForeignMarked(c)'
    BY <1>2, <1>4, <1>5, <1>6, <1>8, <1>9, <1>12
       DEF InHand, ResetInHand, DeleteInHand, RowMatches, CoreMatches, ResetPcs, DeletePcs, Doing,
           Absent, ForeignMarked, TickPcs
  <2> QED BY <2>1, <2>2, <2>3, <2>4, <2>5 DEF ClientInv
<1>17. HandOver(c)
  <2>1. c \in mgr'.todo => InHand(c)'
    BY <1>2, <1>4, <1>6, <1>8, <1>9, <1>12
       DEF InHand, ResetInHand, DeleteInHand, RowMatches, CoreMatches, ResetPcs, DeletePcs, Doing,
           Absent
  <2>2. mgr'.c = c => ResetInHand(c)' /\ DeleteInHand(c)'
    BY <1>2, <1>4, <1>5, <1>6, <1>8, <1>9, <1>12
       DEF InHand, ResetInHand, DeleteInHand, RowMatches, CoreMatches, ResetPcs, DeletePcs, Doing,
           Absent
  <2> QED BY <2>1, <2>2, <1>1, <1>2, <1>4, <1>6, <1>8, <1>9, <1>12
         DEF HandOver, EditPcs, TickPcs, ResetPcs, DeletePcs, ThreadInv, HandInv
<1>18. ManagedTypes'
  BY <1>3, <1>7, <1>8, <1>10, <1>13, <1>14 DEF ManagedTypes
<1> QED BY <1>15, <1>16, <1>17, <1>18, OneClientStep

\* A deletion begins once the Nodes removed the client, or is in error.
LEMMA DeleteRemoteInv ==
    ASSUME ManagedInv, NEW c \in Emails, DeleteRemote(c)
    PROVE  ManagedInv'
<1>1. ManagedTypes /\ ThreadInv /\ \A d \in Emails : ClientInv(d)
  BY DEF ManagedInv
<1>2. /\ BooksBalance(c) /\ BaselineHolds(c) /\ CoreMatches(c) /\ RowMatches(c)
      /\ ResetOnce(c) /\ ForeignMarked(c)
      /\ c \in mgr.todo => InHand(c)
      /\ mgr.c = c => ResetInHand(c) /\ DeleteInHand(c)
      /\ mgr.pc \in ResetPcs \union DeletePcs => mgr.c \in mgr.todo
  BY <1>1 DEF ThreadInv, HandInv, ClientInv
<1>3. /\ row \in [Emails -> RowSet] /\ core \in [Emails -> CoreSet] /\ mgr \in Threads
      /\ row[c] \in RowSet /\ core[c] \in CoreSet /\ Flags /\ Counters
  BY <1>1 DEF ManagedTypes
<1>4. /\ mgr.pc = "ops"
      /\ c \in mgr.todo
      /\ row[c].op = "delete"
  BY <1>1, <1>2, <1>3 DEF DeleteRemote, ManagerFault, Fail
<1>5. /\ row[c].last \in Nat /\ core[c].count \in Nat /\ charged[c] \in Nat /\ metered[c] \in Nat
      /\ tomb[c] \in Nat \union {-1} /\ mgr.final \in Nat /\ resets[c] \in Nat
      /\ core[c].who \in {"none", "own", "other"}
  BY <1>3 DEF RowSet, CoreSet, Threads, Counters
<1>6. CASE mgr' = [mgr EXCEPT !.pc = "coreDelete", !.c = c] /\ UNCHANGED row
  <2>1. row' = row
    BY <1>6, <1>2, <1>3, <1>4 DEF DeleteRemote, ManagerFault, Fail, RowSet
  <2>2. core' = core
    BY <1>6, <1>3, <1>4 DEF DeleteRemote, ManagerFault, Fail, CoreSet, Absent
  <2>3. /\ mgr'.pc = "coreDelete" /\ mgr'.todo = mgr.todo /\ mgr'.c = c
        /\ mgr'.final = mgr.final /\ mgr'.want = mgr.want /\ mgr'.for = mgr.for
    BY <1>6, <1>3, <1>4 DEF DeleteRemote, ManagerFault, Fail, Threads
  <2>4. mgr' \in Threads
    BY <1>6, <1>3, <1>4, <1>5
       DEF DeleteRemote, ManagerFault, Fail, Threads, Pcs, ResetPcs, DeletePcs
  <2>5. UNCHANGED <<policy, lost, charged, metered, resets, tomb>>
    BY <1>6, <1>3, <1>4 DEF DeleteRemote, ManagerFault, Fail
  <2>6. ASSUME NEW d \in Emails, d # c PROVE Unchanged(d)
    <3>1. row'[d] = row[d] /\ core'[d] = core[d]
      BY <1>6, <1>3, <1>4, <2>6 DEF DeleteRemote, ManagerFault, Fail
    <3>2. /\ policy'[d] = policy[d] /\ lost'[d] = lost[d] /\ charged'[d] = charged[d]
          /\ metered'[d] = metered[d] /\ resets'[d] = resets[d] /\ tomb'[d] = tomb[d]
      BY <1>3, <2>5, <2>6 DEF Flags, Counters
    <3> QED BY <3>1, <3>2 DEF Unchanged
  <2>7. ClientInv(c)'
    <3>1. BooksBalance(c)'
      BY <1>6, <1>2, <1>4, <1>5, <2>1, <2>2, <2>3, <2>5
         DEF InHand, ResetInHand, DeleteInHand, RowMatches, CoreMatches, ResetPcs, DeletePcs,
             Doing, Absent, BooksBalance, BaselineHolds, Owed, Increment
    <3>2. BaselineHolds(c)'
      BY <1>6, <1>2, <1>4, <1>5, <2>1, <2>2, <2>3, <2>5
         DEF InHand, ResetInHand, DeleteInHand, RowMatches, CoreMatches, ResetPcs, DeletePcs,
             Doing, Absent, BooksBalance, BaselineHolds
    <3>3. CoreMatches(c)' /\ RowMatches(c)'
      BY <1>6, <1>2, <1>4, <2>1, <2>2, <2>3, <2>5
         DEF InHand, ResetInHand, DeleteInHand, RowMatches, CoreMatches, ResetPcs, DeletePcs,
             Doing, Absent
    <3>4. ResetOnce(c)'
      BY <1>6, <1>2, <1>4, <1>5, <2>1, <2>2, <2>3, <2>5
         DEF InHand, ResetInHand, DeleteInHand, RowMatches, CoreMatches, ResetPcs, DeletePcs,
             Doing, Absent, ResetOnce
    <3>5. ForeignMarked(c)'
      BY <1>6, <1>2, <1>4, <1>5, <2>1, <2>2, <2>3, <2>5
         DEF InHand, ResetInHand, DeleteInHand, RowMatches, CoreMatches, ResetPcs, DeletePcs,
             Doing, Absent, ForeignMarked, TickPcs
    <3> QED BY <3>1, <3>2, <3>3, <3>4, <3>5 DEF ClientInv
  <2>8. HandOver(c)
    <3>1. c \in mgr'.todo => InHand(c)'
      BY <1>6, <1>2, <1>4, <2>1, <2>2, <2>3, <2>5
         DEF InHand, ResetInHand, DeleteInHand, RowMatches, CoreMatches, ResetPcs, DeletePcs,
             Doing, Absent
    <3>2. mgr'.c = c => ResetInHand(c)' /\ DeleteInHand(c)'
      BY <1>6, <1>2, <1>4, <1>5, <2>1, <2>2, <2>3, <2>5
         DEF InHand, ResetInHand, DeleteInHand, RowMatches, CoreMatches, ResetPcs, DeletePcs,
             Doing, Absent
    <3> QED BY <3>1, <3>2, <1>6, <1>1, <1>2, <1>4, <2>1, <2>2, <2>3, <2>5
           DEF HandOver, EditPcs, TickPcs, ResetPcs, DeletePcs, ThreadInv, HandInv
  <2>9. ManagedTypes'
    BY <1>3, <2>1, <2>2, <2>4, <2>5 DEF ManagedTypes, Flags, Counters
  <2> QED BY <2>6, <2>7, <2>8, <2>9, OneClientStep
<1>7. CASE Fail(c, "error")
  <2>1. row'[c].op = row[c].op /\ row'[c].st = "error" /\ row'[c].last = row[c].last
    BY <1>7, <1>2, <1>3, <1>4 DEF DeleteRemote, ManagerFault, Fail, RowSet
  <2>2. row' \in [Emails -> RowSet]
    BY <1>7, <1>2, <1>3, <1>4, <1>5 DEF DeleteRemote, ManagerFault, Fail, RowSet, Statuses
  <2>3. core' = core
    BY <1>7, <1>3, <1>4 DEF DeleteRemote, ManagerFault, Fail, CoreSet, Absent
  <2>4. /\ mgr'.pc = "ops" /\ mgr'.todo = mgr.todo \ {c} /\ mgr'.c = mgr.c
        /\ mgr'.final = mgr.final /\ mgr'.want = mgr.want /\ mgr'.for = mgr.for
    BY <1>7, <1>3, <1>4 DEF DeleteRemote, ManagerFault, Fail, Threads
  <2>5. mgr' \in Threads
    BY <1>7, <1>3, <1>4, <1>5
       DEF DeleteRemote, ManagerFault, Fail, Threads, Pcs, ResetPcs, DeletePcs
  <2>6. UNCHANGED <<policy, lost, charged, metered, resets, tomb>>
    BY <1>7, <1>3, <1>4 DEF DeleteRemote, ManagerFault, Fail
  <2>7. ASSUME NEW d \in Emails, d # c PROVE Unchanged(d)
    <3>1. row'[d] = row[d] /\ core'[d] = core[d]
      BY <1>7, <1>3, <1>4, <2>7 DEF DeleteRemote, ManagerFault, Fail
    <3>2. /\ policy'[d] = policy[d] /\ lost'[d] = lost[d] /\ charged'[d] = charged[d]
          /\ metered'[d] = metered[d] /\ resets'[d] = resets[d] /\ tomb'[d] = tomb[d]
      BY <1>3, <2>6, <2>7 DEF Flags, Counters
    <3> QED BY <3>1, <3>2 DEF Unchanged
  <2>8. ClientInv(c)'
    <3>1. BooksBalance(c)'
      BY <1>7, <1>2, <1>4, <1>5, <2>1, <2>3, <2>4, <2>6
         DEF InHand, ResetInHand, DeleteInHand, RowMatches, CoreMatches, ResetPcs, DeletePcs,
             Doing, Absent, BooksBalance, BaselineHolds, Owed, Increment
    <3>2. BaselineHolds(c)'
      BY <1>7, <1>2, <1>4, <1>5, <2>1, <2>3, <2>4, <2>6
         DEF InHand, ResetInHand, DeleteInHand, RowMatches, CoreMatches, ResetPcs, DeletePcs,
             Doing, Absent, BooksBalance, BaselineHolds
    <3>3. CoreMatches(c)' /\ RowMatches(c)'
      BY <1>7, <1>2, <1>4, <2>1, <2>3, <2>4, <2>6
         DEF InHand, ResetInHand, DeleteInHand, RowMatches, CoreMatches, ResetPcs, DeletePcs,
             Doing, Absent
    <3>4. ResetOnce(c)'
      BY <1>7, <1>2, <1>4, <1>5, <2>1, <2>3, <2>4, <2>6
         DEF InHand, ResetInHand, DeleteInHand, RowMatches, CoreMatches, ResetPcs, DeletePcs,
             Doing, Absent, ResetOnce
    <3>5. ForeignMarked(c)'
      BY <1>7, <1>2, <1>4, <1>5, <2>1, <2>3, <2>4, <2>6
         DEF InHand, ResetInHand, DeleteInHand, RowMatches, CoreMatches, ResetPcs, DeletePcs,
             Doing, Absent, ForeignMarked, TickPcs
    <3> QED BY <3>1, <3>2, <3>3, <3>4, <3>5 DEF ClientInv
  <2>9. HandOver(c)
    <3>1. c \in mgr'.todo => InHand(c)'
      BY <1>7, <1>2, <1>4, <2>1, <2>3, <2>4, <2>6
         DEF InHand, ResetInHand, DeleteInHand, RowMatches, CoreMatches, ResetPcs, DeletePcs,
             Doing, Absent
    <3>2. mgr'.c = c => ResetInHand(c)' /\ DeleteInHand(c)'
      BY <1>7, <1>2, <1>4, <1>5, <2>1, <2>3, <2>4, <2>6
         DEF InHand, ResetInHand, DeleteInHand, RowMatches, CoreMatches, ResetPcs, DeletePcs,
             Doing, Absent
    <3> QED BY <3>1, <3>2, <1>7, <1>1, <1>2, <1>4, <2>1, <2>3, <2>4, <2>6
           DEF HandOver, EditPcs, TickPcs, ResetPcs, DeletePcs, ThreadInv, HandInv
  <2>10. ManagedTypes'
    BY <1>3, <2>2, <2>3, <2>5, <2>6 DEF ManagedTypes, Flags, Counters
  <2> QED BY <2>7, <2>8, <2>9, <2>10, OneClientStep
<1> QED BY <1>6, <1>7, <1>2, <1>4, <1>5 DEF DeleteRemote, ManagerFault, Fail

\* engine.delete keeps the counter in the tombstone; what was owed still is.
LEMMA CoreDeleteInv ==
    ASSUME ManagedInv, NEW c \in Emails, mgr.c = c, CoreDelete
    PROVE  ManagedInv'
<1>1. ManagedTypes /\ ThreadInv /\ \A d \in Emails : ClientInv(d)
  BY DEF ManagedInv
<1>2. /\ BooksBalance(c) /\ BaselineHolds(c) /\ CoreMatches(c) /\ RowMatches(c)
      /\ ResetOnce(c) /\ ForeignMarked(c)
      /\ c \in mgr.todo => InHand(c)
      /\ mgr.c = c => ResetInHand(c) /\ DeleteInHand(c)
      /\ mgr.pc \in ResetPcs \union DeletePcs => mgr.c \in mgr.todo
  BY <1>1 DEF ThreadInv, HandInv, ClientInv
<1>3. /\ row \in [Emails -> RowSet] /\ core \in [Emails -> CoreSet] /\ mgr \in Threads
      /\ row[c] \in RowSet /\ core[c] \in CoreSet /\ Flags /\ Counters
  BY <1>1 DEF ManagedTypes
<1>4. /\ mgr.pc = "coreDelete"
  BY <1>1, <1>2, <1>3 DEF CoreDelete, At
<1>5. /\ row[c].last \in Nat /\ core[c].count \in Nat /\ charged[c] \in Nat /\ metered[c] \in Nat
      /\ tomb[c] \in Nat \union {-1} /\ mgr.final \in Nat /\ resets[c] \in Nat
      /\ core[c].who \in {"none", "own", "other"}
  BY <1>3 DEF RowSet, CoreSet, Threads, Counters
<1>6. CASE core[c] = Absent
  <2>1. row' = row
    BY <1>6, <1>2, <1>3, <1>4 DEF CoreDelete, At, RowSet
  <2>2. core' = core
    BY <1>6, <1>3, <1>4 DEF CoreDelete, At, CoreSet, Absent
  <2>3. /\ mgr'.pc = "deleteCharge" /\ mgr'.todo = mgr.todo /\ mgr'.c = mgr.c
        /\ mgr'.final = mgr.final /\ mgr'.want = mgr.want /\ mgr'.for = mgr.for
    BY <1>6, <1>3, <1>4 DEF CoreDelete, At, Threads
  <2>4. mgr' \in Threads
    BY <1>6, <1>3, <1>4, <1>5 DEF CoreDelete, At, Threads, Pcs, ResetPcs, DeletePcs
  <2>5. UNCHANGED <<policy, lost, charged, metered, resets, tomb>>
    BY <1>6, <1>3, <1>4 DEF CoreDelete, At
  <2>6. ASSUME NEW d \in Emails, d # c PROVE Unchanged(d)
    <3>1. row'[d] = row[d] /\ core'[d] = core[d]
      BY <1>6, <1>3, <1>4, <2>6 DEF CoreDelete, At
    <3>2. /\ policy'[d] = policy[d] /\ lost'[d] = lost[d] /\ charged'[d] = charged[d]
          /\ metered'[d] = metered[d] /\ resets'[d] = resets[d] /\ tomb'[d] = tomb[d]
      BY <1>3, <2>5, <2>6 DEF Flags, Counters
    <3> QED BY <3>1, <3>2 DEF Unchanged
  <2>7. ClientInv(c)'
    <3>1. BooksBalance(c)'
      BY <1>6, <1>2, <1>4, <1>5, <2>1, <2>2, <2>3, <2>5
         DEF InHand, ResetInHand, DeleteInHand, RowMatches, CoreMatches, ResetPcs, DeletePcs,
             Doing, Absent, BooksBalance, BaselineHolds, Owed, Increment
    <3>2. BaselineHolds(c)'
      BY <1>6, <1>2, <1>4, <1>5, <2>1, <2>2, <2>3, <2>5
         DEF InHand, ResetInHand, DeleteInHand, RowMatches, CoreMatches, ResetPcs, DeletePcs,
             Doing, Absent, BooksBalance, BaselineHolds
    <3>3. CoreMatches(c)' /\ RowMatches(c)'
      BY <1>6, <1>2, <1>4, <2>1, <2>2, <2>3, <2>5
         DEF InHand, ResetInHand, DeleteInHand, RowMatches, CoreMatches, ResetPcs, DeletePcs,
             Doing, Absent
    <3>4. ResetOnce(c)'
      BY <1>6, <1>2, <1>4, <1>5, <2>1, <2>2, <2>3, <2>5
         DEF InHand, ResetInHand, DeleteInHand, RowMatches, CoreMatches, ResetPcs, DeletePcs,
             Doing, Absent, ResetOnce
    <3>5. ForeignMarked(c)'
      BY <1>6, <1>2, <1>4, <1>5, <2>1, <2>2, <2>3, <2>5
         DEF InHand, ResetInHand, DeleteInHand, RowMatches, CoreMatches, ResetPcs, DeletePcs,
             Doing, Absent, ForeignMarked, TickPcs
    <3> QED BY <3>1, <3>2, <3>3, <3>4, <3>5 DEF ClientInv
  <2>8. HandOver(c)
    <3>1. c \in mgr'.todo => InHand(c)'
      BY <1>6, <1>2, <1>4, <2>1, <2>2, <2>3, <2>5
         DEF InHand, ResetInHand, DeleteInHand, RowMatches, CoreMatches, ResetPcs, DeletePcs,
             Doing, Absent
    <3>2. mgr'.c = c => ResetInHand(c)' /\ DeleteInHand(c)'
      BY <1>6, <1>2, <1>4, <1>5, <2>1, <2>2, <2>3, <2>5
         DEF InHand, ResetInHand, DeleteInHand, RowMatches, CoreMatches, ResetPcs, DeletePcs,
             Doing, Absent
    <3> QED BY <3>1, <3>2, <1>6, <1>1, <1>2, <1>4, <2>1, <2>2, <2>3, <2>5
           DEF HandOver, EditPcs, TickPcs, ResetPcs, DeletePcs, ThreadInv, HandInv
  <2>9. ManagedTypes'
    BY <1>3, <2>1, <2>2, <2>4, <2>5 DEF ManagedTypes, Flags, Counters
  <2> QED BY <2>6, <2>7, <2>8, <2>9, OneClientStep
<1>7. CASE core[c] # Absent
  <2>1. row' = row
    BY <1>7, <1>2, <1>3, <1>4 DEF CoreDelete, At, RowSet
  <2>2. core'[c].who = "none" /\ core'[c].count = 0 /\ core'[c] = Absent
    BY <1>7, <1>3, <1>4 DEF CoreDelete, At, CoreSet, Absent
  <2>3. core' \in [Emails -> CoreSet]
    <3>1. Absent \in CoreSet
      BY DEF Absent, CoreSet
    <3> QED BY <3>1, <1>7, <1>3, <1>4 DEF CoreDelete, At, CoreSet
  <2>4. /\ mgr'.pc = "deleteCharge" /\ mgr'.todo = mgr.todo /\ mgr'.c = mgr.c
        /\ mgr'.final = mgr.final /\ mgr'.want = mgr.want /\ mgr'.for = mgr.for
    BY <1>7, <1>3, <1>4 DEF CoreDelete, At, Threads
  <2>5. mgr' \in Threads
    BY <1>7, <1>3, <1>4, <1>5 DEF CoreDelete, At, Threads, Pcs, ResetPcs, DeletePcs
  <2>6. /\ UNCHANGED <<policy, lost, charged, metered, resets>>
        /\ tomb' = [tomb EXCEPT ![c] = core[c].count]
    BY <1>7, <1>3, <1>4 DEF CoreDelete, At
  <2>7. /\ UNCHANGED <<policy, lost, charged, metered, resets>>
        /\ tomb'[c] = core[c].count
    BY <2>6, <1>3 DEF Flags, Counters
  <2>8. Flags'
    BY Zenon, <1>3, <2>6 DEF Flags
  <2>9. Counters'
    BY <1>7, <1>3, <1>5, <2>6 DEF Counters, Increment
  <2>10. ASSUME NEW d \in Emails, d # c PROVE Unchanged(d)
    <3>1. row'[d] = row[d] /\ core'[d] = core[d]
      BY <1>7, <1>3, <1>4, <2>10 DEF CoreDelete, At
    <3>2. /\ policy'[d] = policy[d] /\ lost'[d] = lost[d] /\ charged'[d] = charged[d]
          /\ metered'[d] = metered[d] /\ resets'[d] = resets[d] /\ tomb'[d] = tomb[d]
      BY <1>3, <2>6, <2>10 DEF Flags, Counters
    <3> QED BY <3>1, <3>2 DEF Unchanged
  <2>11. ClientInv(c)'
    <3>1. BooksBalance(c)'
      BY <1>7, <1>2, <1>4, <1>5, <2>1, <2>2, <2>4, <2>7
         DEF InHand, ResetInHand, DeleteInHand, RowMatches, CoreMatches, ResetPcs, DeletePcs,
             Doing, Absent, BooksBalance, BaselineHolds, Owed, Increment
    <3>2. BaselineHolds(c)'
      BY <1>7, <1>2, <1>4, <1>5, <2>1, <2>2, <2>4, <2>7
         DEF InHand, ResetInHand, DeleteInHand, RowMatches, CoreMatches, ResetPcs, DeletePcs,
             Doing, Absent, BooksBalance, BaselineHolds
    <3>3. CoreMatches(c)' /\ RowMatches(c)'
      BY <1>7, <1>2, <1>4, <2>1, <2>2, <2>4, <2>7
         DEF InHand, ResetInHand, DeleteInHand, RowMatches, CoreMatches, ResetPcs, DeletePcs,
             Doing, Absent
    <3>4. ResetOnce(c)'
      BY <1>7, <1>2, <1>4, <1>5, <2>1, <2>2, <2>4, <2>7
         DEF InHand, ResetInHand, DeleteInHand, RowMatches, CoreMatches, ResetPcs, DeletePcs,
             Doing, Absent, ResetOnce
    <3>5. ForeignMarked(c)'
      BY <1>7, <1>2, <1>4, <1>5, <2>1, <2>2, <2>4, <2>7
         DEF InHand, ResetInHand, DeleteInHand, RowMatches, CoreMatches, ResetPcs, DeletePcs,
             Doing, Absent, ForeignMarked, TickPcs
    <3> QED BY <3>1, <3>2, <3>3, <3>4, <3>5 DEF ClientInv
  <2>12. HandOver(c)
    <3>1. c \in mgr'.todo => InHand(c)'
      BY <1>7, <1>2, <1>4, <2>1, <2>2, <2>4, <2>7
         DEF InHand, ResetInHand, DeleteInHand, RowMatches, CoreMatches, ResetPcs, DeletePcs,
             Doing, Absent
    <3>2. mgr'.c = c => ResetInHand(c)' /\ DeleteInHand(c)'
      BY <1>7, <1>2, <1>4, <1>5, <2>1, <2>2, <2>4, <2>7
         DEF InHand, ResetInHand, DeleteInHand, RowMatches, CoreMatches, ResetPcs, DeletePcs,
             Doing, Absent
    <3> QED BY <3>1, <3>2, <1>7, <1>1, <1>2, <1>4, <2>1, <2>2, <2>4, <2>7
           DEF HandOver, EditPcs, TickPcs, ResetPcs, DeletePcs, ThreadInv, HandInv
  <2>13. ManagedTypes'
    BY <1>3, <2>1, <2>3, <2>5, <2>8, <2>9 DEF ManagedTypes
  <2> QED BY <2>10, <2>11, <2>12, <2>13, OneClientStep
<1> QED BY <1>6, <1>7, <1>2, <1>4, <1>5 DEF CoreDelete, At

\* The tombstone is charged, unless the policy is gone already.
LEMMA DeleteChargeInv ==
    ASSUME ManagedInv, NEW c \in Emails, mgr.c = c, DeleteCharge
    PROVE  ManagedInv'
<1>1. ManagedTypes /\ ThreadInv /\ \A d \in Emails : ClientInv(d)
  BY DEF ManagedInv
<1>2. /\ BooksBalance(c) /\ BaselineHolds(c) /\ CoreMatches(c) /\ RowMatches(c)
      /\ ResetOnce(c) /\ ForeignMarked(c)
      /\ c \in mgr.todo => InHand(c)
      /\ mgr.c = c => ResetInHand(c) /\ DeleteInHand(c)
      /\ mgr.pc \in ResetPcs \union DeletePcs => mgr.c \in mgr.todo
  BY <1>1 DEF ThreadInv, HandInv, ClientInv
<1>3. /\ row \in [Emails -> RowSet] /\ core \in [Emails -> CoreSet] /\ mgr \in Threads
      /\ row[c] \in RowSet /\ core[c] \in CoreSet /\ Flags /\ Counters
  BY <1>1 DEF ManagedTypes
<1>4. /\ mgr.pc = "deleteCharge"
  BY <1>1, <1>2, <1>3 DEF DeleteCharge, ChargeBytes, At
<1>5. /\ row[c].last \in Nat /\ core[c].count \in Nat /\ charged[c] \in Nat /\ metered[c] \in Nat
      /\ tomb[c] \in Nat \union {-1} /\ mgr.final \in Nat /\ resets[c] \in Nat
      /\ core[c].who \in {"none", "own", "other"}
  BY <1>3 DEF RowSet, CoreSet, Threads, Counters
<1>6. CASE tomb[c] < 0 \/ ~policy[c]
  <2>1. row' = row
    BY <1>6, <1>2, <1>3, <1>4 DEF DeleteCharge, ChargeBytes, At, RowSet
  <2>2. core' = core
    BY <1>6, <1>3, <1>4 DEF DeleteCharge, ChargeBytes, At, CoreSet, Absent
  <2>3. /\ mgr'.pc = "deletePolicy" /\ mgr'.todo = mgr.todo /\ mgr'.c = mgr.c
        /\ mgr'.final = mgr.final /\ mgr'.want = mgr.want /\ mgr'.for = mgr.for
    BY <1>6, <1>3, <1>4 DEF DeleteCharge, ChargeBytes, At, Threads
  <2>4. mgr' \in Threads
    BY <1>6, <1>3, <1>4, <1>5 DEF DeleteCharge, ChargeBytes, At, Threads, Pcs, ResetPcs, DeletePcs
  <2>5. UNCHANGED <<policy, lost, charged, metered, resets, tomb>>
    BY <1>6, <1>3, <1>4 DEF DeleteCharge, ChargeBytes, At
  <2>6. ASSUME NEW d \in Emails, d # c PROVE Unchanged(d)
    <3>1. row'[d] = row[d] /\ core'[d] = core[d]
      BY <1>6, <1>3, <1>4, <2>6 DEF DeleteCharge, ChargeBytes, At
    <3>2. /\ policy'[d] = policy[d] /\ lost'[d] = lost[d] /\ charged'[d] = charged[d]
          /\ metered'[d] = metered[d] /\ resets'[d] = resets[d] /\ tomb'[d] = tomb[d]
      BY <1>3, <2>5, <2>6 DEF Flags, Counters
    <3> QED BY <3>1, <3>2 DEF Unchanged
  <2>7. ClientInv(c)'
    <3>1. BooksBalance(c)'
      BY <1>6, <1>2, <1>4, <1>5, <2>1, <2>2, <2>3, <2>5
         DEF InHand, ResetInHand, DeleteInHand, RowMatches, CoreMatches, ResetPcs, DeletePcs,
             Doing, Absent, BooksBalance, BaselineHolds, Owed, Increment
    <3>2. BaselineHolds(c)'
      BY <1>6, <1>2, <1>4, <1>5, <2>1, <2>2, <2>3, <2>5
         DEF InHand, ResetInHand, DeleteInHand, RowMatches, CoreMatches, ResetPcs, DeletePcs,
             Doing, Absent, BooksBalance, BaselineHolds
    <3>3. CoreMatches(c)' /\ RowMatches(c)'
      BY <1>6, <1>2, <1>4, <2>1, <2>2, <2>3, <2>5
         DEF InHand, ResetInHand, DeleteInHand, RowMatches, CoreMatches, ResetPcs, DeletePcs,
             Doing, Absent
    <3>4. ResetOnce(c)'
      BY <1>6, <1>2, <1>4, <1>5, <2>1, <2>2, <2>3, <2>5
         DEF InHand, ResetInHand, DeleteInHand, RowMatches, CoreMatches, ResetPcs, DeletePcs,
             Doing, Absent, ResetOnce
    <3>5. ForeignMarked(c)'
      BY <1>6, <1>2, <1>4, <1>5, <2>1, <2>2, <2>3, <2>5
         DEF InHand, ResetInHand, DeleteInHand, RowMatches, CoreMatches, ResetPcs, DeletePcs,
             Doing, Absent, ForeignMarked, TickPcs
    <3> QED BY <3>1, <3>2, <3>3, <3>4, <3>5 DEF ClientInv
  <2>8. HandOver(c)
    <3>1. c \in mgr'.todo => InHand(c)'
      BY <1>6, <1>2, <1>4, <2>1, <2>2, <2>3, <2>5
         DEF InHand, ResetInHand, DeleteInHand, RowMatches, CoreMatches, ResetPcs, DeletePcs,
             Doing, Absent
    <3>2. mgr'.c = c => ResetInHand(c)' /\ DeleteInHand(c)'
      BY <1>6, <1>2, <1>4, <1>5, <2>1, <2>2, <2>3, <2>5
         DEF InHand, ResetInHand, DeleteInHand, RowMatches, CoreMatches, ResetPcs, DeletePcs,
             Doing, Absent
    <3> QED BY <3>1, <3>2, <1>6, <1>1, <1>2, <1>4, <2>1, <2>2, <2>3, <2>5
           DEF HandOver, EditPcs, TickPcs, ResetPcs, DeletePcs, ThreadInv, HandInv
  <2>9. ManagedTypes'
    BY <1>3, <2>1, <2>2, <2>4, <2>5 DEF ManagedTypes, Flags, Counters
  <2> QED BY <2>6, <2>7, <2>8, <2>9, OneClientStep
<1>7. CASE ~(tomb[c] < 0) /\ policy[c]
  <2>1. row'[c].op = row[c].op /\ row'[c].st = row[c].st /\ row'[c].last = tomb[c]
    BY <1>7, <1>2, <1>3, <1>4 DEF DeleteCharge, ChargeBytes, At, RowSet
  <2>2. row' \in [Emails -> RowSet]
    BY <1>7, <1>2, <1>3, <1>4, <1>5 DEF DeleteCharge, ChargeBytes, At, RowSet, Statuses
  <2>3. core' = core
    BY <1>7, <1>3, <1>4 DEF DeleteCharge, ChargeBytes, At, CoreSet, Absent
  <2>4. /\ mgr'.pc = "deletePolicy" /\ mgr'.todo = mgr.todo /\ mgr'.c = mgr.c
        /\ mgr'.final = mgr.final /\ mgr'.want = mgr.want /\ mgr'.for = mgr.for
    BY <1>7, <1>3, <1>4 DEF DeleteCharge, ChargeBytes, At, Threads
  <2>5. mgr' \in Threads
    BY <1>7, <1>3, <1>4, <1>5 DEF DeleteCharge, ChargeBytes, At, Threads, Pcs, ResetPcs, DeletePcs
  <2>6. /\ UNCHANGED <<policy, lost, metered, resets, tomb>>
        /\ charged' = [charged EXCEPT ![c] = charged[c] + Increment(c, tomb[c])]
    BY <1>7, <1>3, <1>4 DEF DeleteCharge, ChargeBytes, At
  <2>7. /\ UNCHANGED <<policy, lost, metered, resets, tomb>>
        /\ charged'[c] = charged[c] + Increment(c, tomb[c])
    BY <2>6, <1>3 DEF Flags, Counters
  <2>8. Flags'
    BY Zenon, <1>3, <2>6 DEF Flags
  <2>9. Counters'
    BY <1>7, <1>3, <1>5, <2>6 DEF Counters, Increment
  <2>10. ASSUME NEW d \in Emails, d # c PROVE Unchanged(d)
    <3>1. row'[d] = row[d] /\ core'[d] = core[d]
      BY <1>7, <1>3, <1>4, <2>10 DEF DeleteCharge, ChargeBytes, At
    <3>2. /\ policy'[d] = policy[d] /\ lost'[d] = lost[d] /\ charged'[d] = charged[d]
          /\ metered'[d] = metered[d] /\ resets'[d] = resets[d] /\ tomb'[d] = tomb[d]
      BY <1>3, <2>6, <2>10 DEF Flags, Counters
    <3> QED BY <3>1, <3>2 DEF Unchanged
  <2>11. ClientInv(c)'
    <3>1. BooksBalance(c)'
      BY <1>7, <1>2, <1>4, <1>5, <2>1, <2>3, <2>4, <2>7
         DEF InHand, ResetInHand, DeleteInHand, RowMatches, CoreMatches, ResetPcs, DeletePcs,
             Doing, Absent, BooksBalance, BaselineHolds, Owed, Increment
    <3>2. BaselineHolds(c)'
      BY <1>7, <1>2, <1>4, <1>5, <2>1, <2>3, <2>4, <2>7
         DEF InHand, ResetInHand, DeleteInHand, RowMatches, CoreMatches, ResetPcs, DeletePcs,
             Doing, Absent, BooksBalance, BaselineHolds
    <3>3. CoreMatches(c)' /\ RowMatches(c)'
      BY <1>7, <1>2, <1>4, <2>1, <2>3, <2>4, <2>7
         DEF InHand, ResetInHand, DeleteInHand, RowMatches, CoreMatches, ResetPcs, DeletePcs,
             Doing, Absent
    <3>4. ResetOnce(c)'
      BY <1>7, <1>2, <1>4, <1>5, <2>1, <2>3, <2>4, <2>7
         DEF InHand, ResetInHand, DeleteInHand, RowMatches, CoreMatches, ResetPcs, DeletePcs,
             Doing, Absent, ResetOnce
    <3>5. ForeignMarked(c)'
      BY <1>7, <1>2, <1>4, <1>5, <2>1, <2>3, <2>4, <2>7
         DEF InHand, ResetInHand, DeleteInHand, RowMatches, CoreMatches, ResetPcs, DeletePcs,
             Doing, Absent, ForeignMarked, TickPcs
    <3> QED BY <3>1, <3>2, <3>3, <3>4, <3>5 DEF ClientInv
  <2>12. HandOver(c)
    <3>1. c \in mgr'.todo => InHand(c)'
      BY <1>7, <1>2, <1>4, <2>1, <2>3, <2>4, <2>7
         DEF InHand, ResetInHand, DeleteInHand, RowMatches, CoreMatches, ResetPcs, DeletePcs,
             Doing, Absent
    <3>2. mgr'.c = c => ResetInHand(c)' /\ DeleteInHand(c)'
      BY <1>7, <1>2, <1>4, <1>5, <2>1, <2>3, <2>4, <2>7
         DEF InHand, ResetInHand, DeleteInHand, RowMatches, CoreMatches, ResetPcs, DeletePcs,
             Doing, Absent
    <3> QED BY <3>1, <3>2, <1>7, <1>1, <1>2, <1>4, <2>1, <2>3, <2>4, <2>7
           DEF HandOver, EditPcs, TickPcs, ResetPcs, DeletePcs, ThreadInv, HandInv
  <2>13. ManagedTypes'
    BY <1>3, <2>2, <2>3, <2>5, <2>8, <2>9 DEF ManagedTypes
  <2> QED BY <2>10, <2>11, <2>12, <2>13, OneClientStep
<1> QED BY <1>6, <1>7, <1>2, <1>4, <1>5 DEF DeleteCharge, ChargeBytes, At

\* The policy goes after the charge.
LEMMA DeletePolicyInv ==
    ASSUME ManagedInv, NEW c \in Emails, mgr.c = c, DeletePolicy
    PROVE  ManagedInv'
<1>1. ManagedTypes /\ ThreadInv /\ \A d \in Emails : ClientInv(d)
  BY DEF ManagedInv
<1>2. /\ BooksBalance(c) /\ BaselineHolds(c) /\ CoreMatches(c) /\ RowMatches(c)
      /\ ResetOnce(c) /\ ForeignMarked(c)
      /\ c \in mgr.todo => InHand(c)
      /\ mgr.c = c => ResetInHand(c) /\ DeleteInHand(c)
      /\ mgr.pc \in ResetPcs \union DeletePcs => mgr.c \in mgr.todo
  BY <1>1 DEF ThreadInv, HandInv, ClientInv
<1>3. /\ row \in [Emails -> RowSet] /\ core \in [Emails -> CoreSet] /\ mgr \in Threads
      /\ row[c] \in RowSet /\ core[c] \in CoreSet /\ Flags /\ Counters
  BY <1>1 DEF ManagedTypes
<1>4. /\ mgr.pc = "deletePolicy"
  BY <1>1, <1>2, <1>3 DEF DeletePolicy, At
<1>5. /\ row[c].last \in Nat /\ core[c].count \in Nat /\ charged[c] \in Nat /\ metered[c] \in Nat
      /\ tomb[c] \in Nat \union {-1} /\ mgr.final \in Nat /\ resets[c] \in Nat
      /\ core[c].who \in {"none", "own", "other"}
  BY <1>3 DEF RowSet, CoreSet, Threads, Counters
<1>6. row' = row
  BY <1>2, <1>3, <1>4 DEF DeletePolicy, At, RowSet
<1>7. core' = core
  BY <1>3, <1>4 DEF DeletePolicy, At, CoreSet, Absent
<1>8. /\ mgr'.pc = "deleteFinish" /\ mgr'.todo = mgr.todo /\ mgr'.c = mgr.c
      /\ mgr'.final = mgr.final /\ mgr'.want = mgr.want /\ mgr'.for = mgr.for
  BY <1>3, <1>4 DEF DeletePolicy, At, Threads
<1>9. mgr' \in Threads
  BY <1>3, <1>4, <1>5 DEF DeletePolicy, At, Threads, Pcs, ResetPcs, DeletePcs
<1>10. /\ UNCHANGED <<lost, charged, metered, resets, tomb>>
      /\ policy' = [policy EXCEPT ![c] = FALSE]
  BY <1>3, <1>4 DEF DeletePolicy, At
<1>11. /\ UNCHANGED <<lost, charged, metered, resets, tomb>>
      /\ policy'[c] = FALSE
  BY <1>10, <1>3 DEF Flags, Counters
<1>12. Flags'
  BY Zenon, <1>3, <1>10, FlagSet DEF Flags
<1>13. Counters'
  BY <1>3, <1>5, <1>10 DEF Counters, Increment
<1>14. ASSUME NEW d \in Emails, d # c PROVE Unchanged(d)
  <2>1. row'[d] = row[d] /\ core'[d] = core[d]
    BY <1>3, <1>4, <1>14 DEF DeletePolicy, At
  <2>2. /\ policy'[d] = policy[d] /\ lost'[d] = lost[d] /\ charged'[d] = charged[d]
        /\ metered'[d] = metered[d] /\ resets'[d] = resets[d] /\ tomb'[d] = tomb[d]
    BY <1>3, <1>10, <1>14 DEF Flags, Counters
  <2> QED BY <2>1, <2>2 DEF Unchanged
<1>15. ClientInv(c)'
  <2>1. BooksBalance(c)'
    BY <1>2, <1>4, <1>5, <1>6, <1>7, <1>8, <1>11
       DEF InHand, ResetInHand, DeleteInHand, RowMatches, CoreMatches, ResetPcs, DeletePcs, Doing,
           Absent, BooksBalance, BaselineHolds, Owed, Increment
  <2>2. BaselineHolds(c)'
    BY <1>2, <1>4, <1>5, <1>6, <1>7, <1>8, <1>11
       DEF InHand, ResetInHand, DeleteInHand, RowMatches, CoreMatches, ResetPcs, DeletePcs, Doing,
           Absent, BooksBalance, BaselineHolds
  <2>3. CoreMatches(c)' /\ RowMatches(c)'
    BY <1>2, <1>4, <1>6, <1>7, <1>8, <1>11
       DEF InHand, ResetInHand, DeleteInHand, RowMatches, CoreMatches, ResetPcs, DeletePcs, Doing,
           Absent
  <2>4. ResetOnce(c)'
    BY <1>2, <1>4, <1>5, <1>6, <1>7, <1>8, <1>11
       DEF InHand, ResetInHand, DeleteInHand, RowMatches, CoreMatches, ResetPcs, DeletePcs, Doing,
           Absent, ResetOnce
  <2>5. ForeignMarked(c)'
    BY <1>2, <1>4, <1>5, <1>6, <1>7, <1>8, <1>11
       DEF InHand, ResetInHand, DeleteInHand, RowMatches, CoreMatches, ResetPcs, DeletePcs, Doing,
           Absent, ForeignMarked, TickPcs
  <2> QED BY <2>1, <2>2, <2>3, <2>4, <2>5 DEF ClientInv
<1>16. HandOver(c)
  <2>1. c \in mgr'.todo => InHand(c)'
    BY <1>2, <1>4, <1>6, <1>7, <1>8, <1>11
       DEF InHand, ResetInHand, DeleteInHand, RowMatches, CoreMatches, ResetPcs, DeletePcs, Doing,
           Absent
  <2>2. mgr'.c = c => ResetInHand(c)' /\ DeleteInHand(c)'
    BY <1>2, <1>4, <1>5, <1>6, <1>7, <1>8, <1>11
       DEF InHand, ResetInHand, DeleteInHand, RowMatches, CoreMatches, ResetPcs, DeletePcs, Doing,
           Absent
  <2> QED BY <2>1, <2>2, <1>1, <1>2, <1>4, <1>6, <1>7, <1>8, <1>11
         DEF HandOver, EditPcs, TickPcs, ResetPcs, DeletePcs, ThreadInv, HandInv
<1>17. ManagedTypes'
  BY <1>3, <1>6, <1>7, <1>9, <1>12, <1>13 DEF ManagedTypes
<1> QED BY <1>14, <1>15, <1>16, <1>17, OneClientStep

\* The deletion is over.
LEMMA DeleteFinishInv ==
    ASSUME ManagedInv, NEW c \in Emails, mgr.c = c, DeleteFinish
    PROVE  ManagedInv'
<1>1. ManagedTypes /\ ThreadInv /\ \A d \in Emails : ClientInv(d)
  BY DEF ManagedInv
<1>2. /\ BooksBalance(c) /\ BaselineHolds(c) /\ CoreMatches(c) /\ RowMatches(c)
      /\ ResetOnce(c) /\ ForeignMarked(c)
      /\ c \in mgr.todo => InHand(c)
      /\ mgr.c = c => ResetInHand(c) /\ DeleteInHand(c)
      /\ mgr.pc \in ResetPcs \union DeletePcs => mgr.c \in mgr.todo
  BY <1>1 DEF ThreadInv, HandInv, ClientInv
<1>3. /\ row \in [Emails -> RowSet] /\ core \in [Emails -> CoreSet] /\ mgr \in Threads
      /\ row[c] \in RowSet /\ core[c] \in CoreSet /\ Flags /\ Counters
  BY <1>1 DEF ManagedTypes
<1>4. /\ mgr.pc = "deleteFinish"
  BY <1>1, <1>2, <1>3 DEF DeleteFinish, Finish
<1>5. /\ row[c].last \in Nat /\ core[c].count \in Nat /\ charged[c] \in Nat /\ metered[c] \in Nat
      /\ tomb[c] \in Nat \union {-1} /\ mgr.final \in Nat /\ resets[c] \in Nat
      /\ core[c].who \in {"none", "own", "other"}
  BY <1>3 DEF RowSet, CoreSet, Threads, Counters
<1>6. row'[c].op = "none" /\ row'[c].st = "deleted" /\ row'[c].last = row[c].last
  BY <1>2, <1>3, <1>4 DEF DeleteFinish, Finish, RowSet
<1>7. row' \in [Emails -> RowSet]
  BY <1>2, <1>3, <1>4, <1>5 DEF DeleteFinish, Finish, RowSet, Statuses
<1>8. core' = core
  BY <1>3, <1>4 DEF DeleteFinish, Finish, CoreSet, Absent
<1>9. /\ mgr'.pc = "ops" /\ mgr'.todo = mgr.todo \ {c} /\ mgr'.c = mgr.c
      /\ mgr'.final = mgr.final /\ mgr'.want = mgr.want /\ mgr'.for = mgr.for
  BY <1>3, <1>4 DEF DeleteFinish, Finish, Threads
<1>10. mgr' \in Threads
  BY <1>3, <1>4, <1>5 DEF DeleteFinish, Finish, Threads, Pcs, ResetPcs, DeletePcs
<1>11. UNCHANGED <<policy, lost, charged, metered, resets, tomb>>
  BY <1>3, <1>4 DEF DeleteFinish, Finish
<1>12. ASSUME NEW d \in Emails, d # c PROVE Unchanged(d)
  <2>1. row'[d] = row[d] /\ core'[d] = core[d]
    BY <1>3, <1>4, <1>12 DEF DeleteFinish, Finish
  <2>2. /\ policy'[d] = policy[d] /\ lost'[d] = lost[d] /\ charged'[d] = charged[d]
        /\ metered'[d] = metered[d] /\ resets'[d] = resets[d] /\ tomb'[d] = tomb[d]
    BY <1>3, <1>11, <1>12 DEF Flags, Counters
  <2> QED BY <2>1, <2>2 DEF Unchanged
<1>13. ClientInv(c)'
  <2>1. BooksBalance(c)'
    BY <1>2, <1>4, <1>5, <1>6, <1>8, <1>9, <1>11
       DEF InHand, ResetInHand, DeleteInHand, RowMatches, CoreMatches, ResetPcs, DeletePcs, Doing,
           Absent, BooksBalance, BaselineHolds, Owed, Increment
  <2>2. BaselineHolds(c)'
    BY <1>2, <1>4, <1>5, <1>6, <1>8, <1>9, <1>11
       DEF InHand, ResetInHand, DeleteInHand, RowMatches, CoreMatches, ResetPcs, DeletePcs, Doing,
           Absent, BooksBalance, BaselineHolds
  <2>3. CoreMatches(c)' /\ RowMatches(c)'
    BY <1>2, <1>4, <1>6, <1>8, <1>9, <1>11
       DEF InHand, ResetInHand, DeleteInHand, RowMatches, CoreMatches, ResetPcs, DeletePcs, Doing,
           Absent
  <2>4. ResetOnce(c)'
    BY <1>2, <1>4, <1>5, <1>6, <1>8, <1>9, <1>11
       DEF InHand, ResetInHand, DeleteInHand, RowMatches, CoreMatches, ResetPcs, DeletePcs, Doing,
           Absent, ResetOnce
  <2>5. ForeignMarked(c)'
    BY <1>2, <1>4, <1>5, <1>6, <1>8, <1>9, <1>11
       DEF InHand, ResetInHand, DeleteInHand, RowMatches, CoreMatches, ResetPcs, DeletePcs, Doing,
           Absent, ForeignMarked, TickPcs
  <2> QED BY <2>1, <2>2, <2>3, <2>4, <2>5 DEF ClientInv
<1>14. HandOver(c)
  <2>1. c \in mgr'.todo => InHand(c)'
    BY <1>2, <1>4, <1>6, <1>8, <1>9, <1>11
       DEF InHand, ResetInHand, DeleteInHand, RowMatches, CoreMatches, ResetPcs, DeletePcs, Doing,
           Absent
  <2>2. mgr'.c = c => ResetInHand(c)' /\ DeleteInHand(c)'
    BY <1>2, <1>4, <1>5, <1>6, <1>8, <1>9, <1>11
       DEF InHand, ResetInHand, DeleteInHand, RowMatches, CoreMatches, ResetPcs, DeletePcs, Doing,
           Absent
  <2> QED BY <2>1, <2>2, <1>1, <1>2, <1>4, <1>6, <1>8, <1>9, <1>11
         DEF HandOver, EditPcs, TickPcs, ResetPcs, DeletePcs, ThreadInv, HandInv
<1>15. ManagedTypes'
  BY <1>3, <1>7, <1>8, <1>10, <1>11 DEF ManagedTypes, Flags, Counters
<1> QED BY <1>12, <1>13, <1>14, <1>15, OneClientStep

\* A reset is in flight once the client was found in the core.
LEMMA ResetBeginInv ==
    ASSUME ManagedInv, NEW c \in Emails, ResetBegin(c)
    PROVE  ManagedInv'
<1>1. ManagedTypes /\ ThreadInv /\ \A d \in Emails : ClientInv(d)
  BY DEF ManagedInv
<1>2. /\ BooksBalance(c) /\ BaselineHolds(c) /\ CoreMatches(c) /\ RowMatches(c)
      /\ ResetOnce(c) /\ ForeignMarked(c)
      /\ c \in mgr.todo => InHand(c)
      /\ mgr.c = c => ResetInHand(c) /\ DeleteInHand(c)
      /\ mgr.pc \in ResetPcs \union DeletePcs => mgr.c \in mgr.todo
  BY <1>1 DEF ThreadInv, HandInv, ClientInv
<1>3. /\ row \in [Emails -> RowSet] /\ core \in [Emails -> CoreSet] /\ mgr \in Threads
      /\ row[c] \in RowSet /\ core[c] \in CoreSet /\ Flags /\ Counters
  BY <1>1 DEF ManagedTypes
<1>4. /\ mgr.pc = "ops"
      /\ c \in mgr.todo
      /\ row[c].op = "reset"
  BY <1>1, <1>2, <1>3 DEF ResetBegin, Fail
<1>5. /\ row[c].last \in Nat /\ core[c].count \in Nat /\ charged[c] \in Nat /\ metered[c] \in Nat
      /\ tomb[c] \in Nat \union {-1} /\ mgr.final \in Nat /\ resets[c] \in Nat
      /\ core[c].who \in {"none", "own", "other"}
  BY <1>3 DEF RowSet, CoreSet, Threads, Counters
<1>6. CASE core[c] = Absent /\ Fail(c, "conflict")
  <2>1. row'[c].op = row[c].op /\ row'[c].st = "conflict" /\ row'[c].last = row[c].last
    BY <1>6, <1>2, <1>3, <1>4 DEF ResetBegin, Fail, RowSet
  <2>2. row' \in [Emails -> RowSet]
    BY <1>6, <1>2, <1>3, <1>4, <1>5 DEF ResetBegin, Fail, RowSet, Statuses
  <2>3. core' = core
    BY <1>6, <1>3, <1>4 DEF ResetBegin, Fail, CoreSet, Absent
  <2>4. /\ mgr'.pc = "ops" /\ mgr'.todo = mgr.todo \ {c} /\ mgr'.c = mgr.c
        /\ mgr'.final = mgr.final /\ mgr'.want = mgr.want /\ mgr'.for = mgr.for
    BY <1>6, <1>3, <1>4 DEF ResetBegin, Fail, Threads
  <2>5. mgr' \in Threads
    BY <1>6, <1>3, <1>4, <1>5 DEF ResetBegin, Fail, Threads, Pcs, ResetPcs, DeletePcs
  <2>6. UNCHANGED <<policy, lost, charged, metered, resets, tomb>>
    BY <1>6, <1>3, <1>4 DEF ResetBegin, Fail
  <2>7. ASSUME NEW d \in Emails, d # c PROVE Unchanged(d)
    <3>1. row'[d] = row[d] /\ core'[d] = core[d]
      BY <1>6, <1>3, <1>4, <2>7 DEF ResetBegin, Fail
    <3>2. /\ policy'[d] = policy[d] /\ lost'[d] = lost[d] /\ charged'[d] = charged[d]
          /\ metered'[d] = metered[d] /\ resets'[d] = resets[d] /\ tomb'[d] = tomb[d]
      BY <1>3, <2>6, <2>7 DEF Flags, Counters
    <3> QED BY <3>1, <3>2 DEF Unchanged
  <2>8. ClientInv(c)'
    <3>1. BooksBalance(c)'
      BY <1>6, <1>2, <1>4, <1>5, <2>1, <2>3, <2>4, <2>6
         DEF InHand, ResetInHand, DeleteInHand, RowMatches, CoreMatches, ResetPcs, DeletePcs,
             Doing, Absent, BooksBalance, BaselineHolds, Owed, Increment
    <3>2. BaselineHolds(c)'
      BY <1>6, <1>2, <1>4, <1>5, <2>1, <2>3, <2>4, <2>6
         DEF InHand, ResetInHand, DeleteInHand, RowMatches, CoreMatches, ResetPcs, DeletePcs,
             Doing, Absent, BooksBalance, BaselineHolds
    <3>3. CoreMatches(c)' /\ RowMatches(c)'
      BY <1>6, <1>2, <1>4, <2>1, <2>3, <2>4, <2>6
         DEF InHand, ResetInHand, DeleteInHand, RowMatches, CoreMatches, ResetPcs, DeletePcs,
             Doing, Absent
    <3>4. ResetOnce(c)'
      BY <1>6, <1>2, <1>4, <1>5, <2>1, <2>3, <2>4, <2>6
         DEF InHand, ResetInHand, DeleteInHand, RowMatches, CoreMatches, ResetPcs, DeletePcs,
             Doing, Absent, ResetOnce
    <3>5. ForeignMarked(c)'
      BY <1>6, <1>2, <1>4, <1>5, <2>1, <2>3, <2>4, <2>6
         DEF InHand, ResetInHand, DeleteInHand, RowMatches, CoreMatches, ResetPcs, DeletePcs,
             Doing, Absent, ForeignMarked, TickPcs
    <3> QED BY <3>1, <3>2, <3>3, <3>4, <3>5 DEF ClientInv
  <2>9. HandOver(c)
    <3>1. c \in mgr'.todo => InHand(c)'
      BY <1>6, <1>2, <1>4, <2>1, <2>3, <2>4, <2>6
         DEF InHand, ResetInHand, DeleteInHand, RowMatches, CoreMatches, ResetPcs, DeletePcs,
             Doing, Absent
    <3>2. mgr'.c = c => ResetInHand(c)' /\ DeleteInHand(c)'
      BY <1>6, <1>2, <1>4, <1>5, <2>1, <2>3, <2>4, <2>6
         DEF InHand, ResetInHand, DeleteInHand, RowMatches, CoreMatches, ResetPcs, DeletePcs,
             Doing, Absent
    <3> QED BY <3>1, <3>2, <1>6, <1>1, <1>2, <1>4, <2>1, <2>3, <2>4, <2>6
           DEF HandOver, EditPcs, TickPcs, ResetPcs, DeletePcs, ThreadInv, HandInv
  <2>10. ManagedTypes'
    BY <1>3, <2>2, <2>3, <2>5, <2>6 DEF ManagedTypes, Flags, Counters
  <2> QED BY <2>7, <2>8, <2>9, <2>10, OneClientStep
<1>7. CASE /\ core[c] # Absent /\ row' = [row EXCEPT ![c].st = "reset_inflight"]
             /\ mgr' = [mgr EXCEPT !.pc = "resetRemote", !.c = c]
  <2>1. row'[c].op = row[c].op /\ row'[c].st = "reset_inflight" /\ row'[c].last = row[c].last
    BY <1>7, <1>2, <1>3, <1>4 DEF ResetBegin, Fail, RowSet
  <2>2. row' \in [Emails -> RowSet]
    BY <1>7, <1>2, <1>3, <1>4, <1>5 DEF ResetBegin, Fail, RowSet, Statuses
  <2>3. core' = core
    BY <1>7, <1>3, <1>4 DEF ResetBegin, Fail, CoreSet, Absent
  <2>4. /\ mgr'.pc = "resetRemote" /\ mgr'.todo = mgr.todo /\ mgr'.c = c
        /\ mgr'.final = mgr.final /\ mgr'.want = mgr.want /\ mgr'.for = mgr.for
    BY <1>7, <1>3, <1>4 DEF ResetBegin, Fail, Threads
  <2>5. mgr' \in Threads
    BY <1>7, <1>3, <1>4, <1>5 DEF ResetBegin, Fail, Threads, Pcs, ResetPcs, DeletePcs
  <2>6. UNCHANGED <<policy, lost, charged, metered, resets, tomb>>
    BY <1>7, <1>3, <1>4 DEF ResetBegin, Fail
  <2>7. ASSUME NEW d \in Emails, d # c PROVE Unchanged(d)
    <3>1. row'[d] = row[d] /\ core'[d] = core[d]
      BY <1>7, <1>3, <1>4, <2>7 DEF ResetBegin, Fail
    <3>2. /\ policy'[d] = policy[d] /\ lost'[d] = lost[d] /\ charged'[d] = charged[d]
          /\ metered'[d] = metered[d] /\ resets'[d] = resets[d] /\ tomb'[d] = tomb[d]
      BY <1>3, <2>6, <2>7 DEF Flags, Counters
    <3> QED BY <3>1, <3>2 DEF Unchanged
  <2>8. ClientInv(c)'
    <3>1. BooksBalance(c)'
      BY <1>7, <1>2, <1>4, <1>5, <2>1, <2>3, <2>4, <2>6
         DEF InHand, ResetInHand, DeleteInHand, RowMatches, CoreMatches, ResetPcs, DeletePcs,
             Doing, Absent, BooksBalance, BaselineHolds, Owed, Increment
    <3>2. BaselineHolds(c)'
      BY <1>7, <1>2, <1>4, <1>5, <2>1, <2>3, <2>4, <2>6
         DEF InHand, ResetInHand, DeleteInHand, RowMatches, CoreMatches, ResetPcs, DeletePcs,
             Doing, Absent, BooksBalance, BaselineHolds
    <3>3. CoreMatches(c)' /\ RowMatches(c)'
      BY <1>7, <1>2, <1>4, <2>1, <2>3, <2>4, <2>6
         DEF InHand, ResetInHand, DeleteInHand, RowMatches, CoreMatches, ResetPcs, DeletePcs,
             Doing, Absent
    <3>4. ResetOnce(c)'
      BY <1>7, <1>2, <1>4, <1>5, <2>1, <2>3, <2>4, <2>6
         DEF InHand, ResetInHand, DeleteInHand, RowMatches, CoreMatches, ResetPcs, DeletePcs,
             Doing, Absent, ResetOnce
    <3>5. ForeignMarked(c)'
      BY <1>7, <1>2, <1>4, <1>5, <2>1, <2>3, <2>4, <2>6
         DEF InHand, ResetInHand, DeleteInHand, RowMatches, CoreMatches, ResetPcs, DeletePcs,
             Doing, Absent, ForeignMarked, TickPcs
    <3> QED BY <3>1, <3>2, <3>3, <3>4, <3>5 DEF ClientInv
  <2>9. HandOver(c)
    <3>1. c \in mgr'.todo => InHand(c)'
      BY <1>7, <1>2, <1>4, <2>1, <2>3, <2>4, <2>6
         DEF InHand, ResetInHand, DeleteInHand, RowMatches, CoreMatches, ResetPcs, DeletePcs,
             Doing, Absent
    <3>2. mgr'.c = c => ResetInHand(c)' /\ DeleteInHand(c)'
      BY <1>7, <1>2, <1>4, <1>5, <2>1, <2>3, <2>4, <2>6
         DEF InHand, ResetInHand, DeleteInHand, RowMatches, CoreMatches, ResetPcs, DeletePcs,
             Doing, Absent
    <3> QED BY <3>1, <3>2, <1>7, <1>1, <1>2, <1>4, <2>1, <2>3, <2>4, <2>6
           DEF HandOver, EditPcs, TickPcs, ResetPcs, DeletePcs, ThreadInv, HandInv
  <2>10. ManagedTypes'
    BY <1>3, <2>2, <2>3, <2>5, <2>6 DEF ManagedTypes, Flags, Counters
  <2> QED BY <2>7, <2>8, <2>9, <2>10, OneClientStep
<1> QED BY <1>6, <1>7, <1>2, <1>4, <1>5 DEF ResetBegin, Fail

\* The Nodes reset first: an answer that never came makes it uncertain.
LEMMA ResetRemoteInv ==
    ASSUME ManagedInv, NEW c \in Emails, mgr.c = c, ResetRemote
    PROVE  ManagedInv'
<1>1. ManagedTypes /\ ThreadInv /\ \A d \in Emails : ClientInv(d)
  BY DEF ManagedInv
<1>2. /\ BooksBalance(c) /\ BaselineHolds(c) /\ CoreMatches(c) /\ RowMatches(c)
      /\ ResetOnce(c) /\ ForeignMarked(c)
      /\ c \in mgr.todo => InHand(c)
      /\ mgr.c = c => ResetInHand(c) /\ DeleteInHand(c)
      /\ mgr.pc \in ResetPcs \union DeletePcs => mgr.c \in mgr.todo
  BY <1>1 DEF ThreadInv, HandInv, ClientInv
<1>3. /\ row \in [Emails -> RowSet] /\ core \in [Emails -> CoreSet] /\ mgr \in Threads
      /\ row[c] \in RowSet /\ core[c] \in CoreSet /\ Flags /\ Counters
  BY <1>1 DEF ManagedTypes
<1>4. /\ mgr.pc = "resetRemote"
  BY <1>1, <1>2, <1>3 DEF ResetRemote, At, ManagerFault, Fail
<1>5. /\ row[c].last \in Nat /\ core[c].count \in Nat /\ charged[c] \in Nat /\ metered[c] \in Nat
      /\ tomb[c] \in Nat \union {-1} /\ mgr.final \in Nat /\ resets[c] \in Nat
      /\ core[c].who \in {"none", "own", "other"}
  BY <1>3 DEF RowSet, CoreSet, Threads, Counters
<1>6. CASE At("coreReset") /\ UNCHANGED row
  <2>1. row' = row
    BY <1>6, <1>2, <1>3, <1>4 DEF ResetRemote, At, ManagerFault, Fail, RowSet
  <2>2. core' = core
    BY <1>6, <1>3, <1>4 DEF ResetRemote, At, ManagerFault, Fail, CoreSet, Absent
  <2>3. /\ mgr'.pc = "coreReset" /\ mgr'.todo = mgr.todo /\ mgr'.c = mgr.c
        /\ mgr'.final = mgr.final /\ mgr'.want = mgr.want /\ mgr'.for = mgr.for
    BY <1>6, <1>3, <1>4 DEF ResetRemote, At, ManagerFault, Fail, Threads
  <2>4. mgr' \in Threads
    BY <1>6, <1>3, <1>4, <1>5
       DEF ResetRemote, At, ManagerFault, Fail, Threads, Pcs, ResetPcs, DeletePcs
  <2>5. UNCHANGED <<policy, lost, charged, metered, resets, tomb>>
    BY <1>6, <1>3, <1>4 DEF ResetRemote, At, ManagerFault, Fail
  <2>6. ASSUME NEW d \in Emails, d # c PROVE Unchanged(d)
    <3>1. row'[d] = row[d] /\ core'[d] = core[d]
      BY <1>6, <1>3, <1>4, <2>6 DEF ResetRemote, At, ManagerFault, Fail
    <3>2. /\ policy'[d] = policy[d] /\ lost'[d] = lost[d] /\ charged'[d] = charged[d]
          /\ metered'[d] = metered[d] /\ resets'[d] = resets[d] /\ tomb'[d] = tomb[d]
      BY <1>3, <2>5, <2>6 DEF Flags, Counters
    <3> QED BY <3>1, <3>2 DEF Unchanged
  <2>7. ClientInv(c)'
    <3>1. BooksBalance(c)'
      BY <1>6, <1>2, <1>4, <1>5, <2>1, <2>2, <2>3, <2>5
         DEF InHand, ResetInHand, DeleteInHand, RowMatches, CoreMatches, ResetPcs, DeletePcs,
             Doing, Absent, BooksBalance, BaselineHolds, Owed, Increment
    <3>2. BaselineHolds(c)'
      BY <1>6, <1>2, <1>4, <1>5, <2>1, <2>2, <2>3, <2>5
         DEF InHand, ResetInHand, DeleteInHand, RowMatches, CoreMatches, ResetPcs, DeletePcs,
             Doing, Absent, BooksBalance, BaselineHolds
    <3>3. CoreMatches(c)' /\ RowMatches(c)'
      BY <1>6, <1>2, <1>4, <2>1, <2>2, <2>3, <2>5
         DEF InHand, ResetInHand, DeleteInHand, RowMatches, CoreMatches, ResetPcs, DeletePcs,
             Doing, Absent
    <3>4. ResetOnce(c)'
      BY <1>6, <1>2, <1>4, <1>5, <2>1, <2>2, <2>3, <2>5
         DEF InHand, ResetInHand, DeleteInHand, RowMatches, CoreMatches, ResetPcs, DeletePcs,
             Doing, Absent, ResetOnce
    <3>5. ForeignMarked(c)'
      BY <1>6, <1>2, <1>4, <1>5, <2>1, <2>2, <2>3, <2>5
         DEF InHand, ResetInHand, DeleteInHand, RowMatches, CoreMatches, ResetPcs, DeletePcs,
             Doing, Absent, ForeignMarked, TickPcs
    <3> QED BY <3>1, <3>2, <3>3, <3>4, <3>5 DEF ClientInv
  <2>8. HandOver(c)
    <3>1. c \in mgr'.todo => InHand(c)'
      BY <1>6, <1>2, <1>4, <2>1, <2>2, <2>3, <2>5
         DEF InHand, ResetInHand, DeleteInHand, RowMatches, CoreMatches, ResetPcs, DeletePcs,
             Doing, Absent
    <3>2. mgr'.c = c => ResetInHand(c)' /\ DeleteInHand(c)'
      BY <1>6, <1>2, <1>4, <1>5, <2>1, <2>2, <2>3, <2>5
         DEF InHand, ResetInHand, DeleteInHand, RowMatches, CoreMatches, ResetPcs, DeletePcs,
             Doing, Absent
    <3> QED BY <3>1, <3>2, <1>6, <1>1, <1>2, <1>4, <2>1, <2>2, <2>3, <2>5
           DEF HandOver, EditPcs, TickPcs, ResetPcs, DeletePcs, ThreadInv, HandInv
  <2>9. ManagedTypes'
    BY <1>3, <2>1, <2>2, <2>4, <2>5 DEF ManagedTypes, Flags, Counters
  <2> QED BY <2>6, <2>7, <2>8, <2>9, OneClientStep
<1>7. CASE Fail(c, "error")
  <2>1. row'[c].op = row[c].op /\ row'[c].st = "error" /\ row'[c].last = row[c].last
    BY <1>7, <1>2, <1>3, <1>4 DEF ResetRemote, At, ManagerFault, Fail, RowSet
  <2>2. row' \in [Emails -> RowSet]
    BY <1>7, <1>2, <1>3, <1>4, <1>5 DEF ResetRemote, At, ManagerFault, Fail, RowSet, Statuses
  <2>3. core' = core
    BY <1>7, <1>3, <1>4 DEF ResetRemote, At, ManagerFault, Fail, CoreSet, Absent
  <2>4. /\ mgr'.pc = "ops" /\ mgr'.todo = mgr.todo \ {c} /\ mgr'.c = mgr.c
        /\ mgr'.final = mgr.final /\ mgr'.want = mgr.want /\ mgr'.for = mgr.for
    BY <1>7, <1>3, <1>4 DEF ResetRemote, At, ManagerFault, Fail, Threads
  <2>5. mgr' \in Threads
    BY <1>7, <1>3, <1>4, <1>5
       DEF ResetRemote, At, ManagerFault, Fail, Threads, Pcs, ResetPcs, DeletePcs
  <2>6. UNCHANGED <<policy, lost, charged, metered, resets, tomb>>
    BY <1>7, <1>3, <1>4 DEF ResetRemote, At, ManagerFault, Fail
  <2>7. ASSUME NEW d \in Emails, d # c PROVE Unchanged(d)
    <3>1. row'[d] = row[d] /\ core'[d] = core[d]
      BY <1>7, <1>3, <1>4, <2>7 DEF ResetRemote, At, ManagerFault, Fail
    <3>2. /\ policy'[d] = policy[d] /\ lost'[d] = lost[d] /\ charged'[d] = charged[d]
          /\ metered'[d] = metered[d] /\ resets'[d] = resets[d] /\ tomb'[d] = tomb[d]
      BY <1>3, <2>6, <2>7 DEF Flags, Counters
    <3> QED BY <3>1, <3>2 DEF Unchanged
  <2>8. ClientInv(c)'
    <3>1. BooksBalance(c)'
      BY <1>7, <1>2, <1>4, <1>5, <2>1, <2>3, <2>4, <2>6
         DEF InHand, ResetInHand, DeleteInHand, RowMatches, CoreMatches, ResetPcs, DeletePcs,
             Doing, Absent, BooksBalance, BaselineHolds, Owed, Increment
    <3>2. BaselineHolds(c)'
      BY <1>7, <1>2, <1>4, <1>5, <2>1, <2>3, <2>4, <2>6
         DEF InHand, ResetInHand, DeleteInHand, RowMatches, CoreMatches, ResetPcs, DeletePcs,
             Doing, Absent, BooksBalance, BaselineHolds
    <3>3. CoreMatches(c)' /\ RowMatches(c)'
      BY <1>7, <1>2, <1>4, <2>1, <2>3, <2>4, <2>6
         DEF InHand, ResetInHand, DeleteInHand, RowMatches, CoreMatches, ResetPcs, DeletePcs,
             Doing, Absent
    <3>4. ResetOnce(c)'
      BY <1>7, <1>2, <1>4, <1>5, <2>1, <2>3, <2>4, <2>6
         DEF InHand, ResetInHand, DeleteInHand, RowMatches, CoreMatches, ResetPcs, DeletePcs,
             Doing, Absent, ResetOnce
    <3>5. ForeignMarked(c)'
      BY <1>7, <1>2, <1>4, <1>5, <2>1, <2>3, <2>4, <2>6
         DEF InHand, ResetInHand, DeleteInHand, RowMatches, CoreMatches, ResetPcs, DeletePcs,
             Doing, Absent, ForeignMarked, TickPcs
    <3> QED BY <3>1, <3>2, <3>3, <3>4, <3>5 DEF ClientInv
  <2>9. HandOver(c)
    <3>1. c \in mgr'.todo => InHand(c)'
      BY <1>7, <1>2, <1>4, <2>1, <2>3, <2>4, <2>6
         DEF InHand, ResetInHand, DeleteInHand, RowMatches, CoreMatches, ResetPcs, DeletePcs,
             Doing, Absent
    <3>2. mgr'.c = c => ResetInHand(c)' /\ DeleteInHand(c)'
      BY <1>7, <1>2, <1>4, <1>5, <2>1, <2>3, <2>4, <2>6
         DEF InHand, ResetInHand, DeleteInHand, RowMatches, CoreMatches, ResetPcs, DeletePcs,
             Doing, Absent
    <3> QED BY <3>1, <3>2, <1>7, <1>1, <1>2, <1>4, <2>1, <2>3, <2>4, <2>6
           DEF HandOver, EditPcs, TickPcs, ResetPcs, DeletePcs, ThreadInv, HandInv
  <2>10. ManagedTypes'
    BY <1>3, <2>2, <2>3, <2>5, <2>6 DEF ManagedTypes, Flags, Counters
  <2> QED BY <2>7, <2>8, <2>9, <2>10, OneClientStep
<1>8. CASE Fail(c, "uncertain")
  <2>1. row'[c].op = row[c].op /\ row'[c].st = "uncertain" /\ row'[c].last = row[c].last
    BY <1>8, <1>2, <1>3, <1>4 DEF ResetRemote, At, ManagerFault, Fail, RowSet
  <2>2. row' \in [Emails -> RowSet]
    BY <1>8, <1>2, <1>3, <1>4, <1>5 DEF ResetRemote, At, ManagerFault, Fail, RowSet, Statuses
  <2>3. core' = core
    BY <1>8, <1>3, <1>4 DEF ResetRemote, At, ManagerFault, Fail, CoreSet, Absent
  <2>4. /\ mgr'.pc = "ops" /\ mgr'.todo = mgr.todo \ {c} /\ mgr'.c = mgr.c
        /\ mgr'.final = mgr.final /\ mgr'.want = mgr.want /\ mgr'.for = mgr.for
    BY <1>8, <1>3, <1>4 DEF ResetRemote, At, ManagerFault, Fail, Threads
  <2>5. mgr' \in Threads
    BY <1>8, <1>3, <1>4, <1>5
       DEF ResetRemote, At, ManagerFault, Fail, Threads, Pcs, ResetPcs, DeletePcs
  <2>6. UNCHANGED <<policy, lost, charged, metered, resets, tomb>>
    BY <1>8, <1>3, <1>4 DEF ResetRemote, At, ManagerFault, Fail
  <2>7. ASSUME NEW d \in Emails, d # c PROVE Unchanged(d)
    <3>1. row'[d] = row[d] /\ core'[d] = core[d]
      BY <1>8, <1>3, <1>4, <2>7 DEF ResetRemote, At, ManagerFault, Fail
    <3>2. /\ policy'[d] = policy[d] /\ lost'[d] = lost[d] /\ charged'[d] = charged[d]
          /\ metered'[d] = metered[d] /\ resets'[d] = resets[d] /\ tomb'[d] = tomb[d]
      BY <1>3, <2>6, <2>7 DEF Flags, Counters
    <3> QED BY <3>1, <3>2 DEF Unchanged
  <2>8. ClientInv(c)'
    <3>1. BooksBalance(c)'
      BY <1>8, <1>2, <1>4, <1>5, <2>1, <2>3, <2>4, <2>6
         DEF InHand, ResetInHand, DeleteInHand, RowMatches, CoreMatches, ResetPcs, DeletePcs,
             Doing, Absent, BooksBalance, BaselineHolds, Owed, Increment
    <3>2. BaselineHolds(c)'
      BY <1>8, <1>2, <1>4, <1>5, <2>1, <2>3, <2>4, <2>6
         DEF InHand, ResetInHand, DeleteInHand, RowMatches, CoreMatches, ResetPcs, DeletePcs,
             Doing, Absent, BooksBalance, BaselineHolds
    <3>3. CoreMatches(c)' /\ RowMatches(c)'
      BY <1>8, <1>2, <1>4, <2>1, <2>3, <2>4, <2>6
         DEF InHand, ResetInHand, DeleteInHand, RowMatches, CoreMatches, ResetPcs, DeletePcs,
             Doing, Absent
    <3>4. ResetOnce(c)'
      BY <1>8, <1>2, <1>4, <1>5, <2>1, <2>3, <2>4, <2>6
         DEF InHand, ResetInHand, DeleteInHand, RowMatches, CoreMatches, ResetPcs, DeletePcs,
             Doing, Absent, ResetOnce
    <3>5. ForeignMarked(c)'
      BY <1>8, <1>2, <1>4, <1>5, <2>1, <2>3, <2>4, <2>6
         DEF InHand, ResetInHand, DeleteInHand, RowMatches, CoreMatches, ResetPcs, DeletePcs,
             Doing, Absent, ForeignMarked, TickPcs
    <3> QED BY <3>1, <3>2, <3>3, <3>4, <3>5 DEF ClientInv
  <2>9. HandOver(c)
    <3>1. c \in mgr'.todo => InHand(c)'
      BY <1>8, <1>2, <1>4, <2>1, <2>3, <2>4, <2>6
         DEF InHand, ResetInHand, DeleteInHand, RowMatches, CoreMatches, ResetPcs, DeletePcs,
             Doing, Absent
    <3>2. mgr'.c = c => ResetInHand(c)' /\ DeleteInHand(c)'
      BY <1>8, <1>2, <1>4, <1>5, <2>1, <2>3, <2>4, <2>6
         DEF InHand, ResetInHand, DeleteInHand, RowMatches, CoreMatches, ResetPcs, DeletePcs,
             Doing, Absent
    <3> QED BY <3>1, <3>2, <1>8, <1>1, <1>2, <1>4, <2>1, <2>3, <2>4, <2>6
           DEF HandOver, EditPcs, TickPcs, ResetPcs, DeletePcs, ThreadInv, HandInv
  <2>10. ManagedTypes'
    BY <1>3, <2>2, <2>3, <2>5, <2>6 DEF ManagedTypes, Flags, Counters
  <2> QED BY <2>7, <2>8, <2>9, <2>10, OneClientStep
<1> QED BY <1>6, <1>7, <1>8, <1>2, <1>4, <1>5 DEF ResetRemote, At, ManagerFault, Fail

\* engine.reset: the final counter is in hand, the counter starts again.
LEMMA CoreResetInv ==
    ASSUME ManagedInv, NEW c \in Emails, mgr.c = c, CoreReset
    PROVE  ManagedInv'
<1>1. ManagedTypes /\ ThreadInv /\ \A d \in Emails : ClientInv(d)
  BY DEF ManagedInv
<1>2. /\ BooksBalance(c) /\ BaselineHolds(c) /\ CoreMatches(c) /\ RowMatches(c)
      /\ ResetOnce(c) /\ ForeignMarked(c)
      /\ c \in mgr.todo => InHand(c)
      /\ mgr.c = c => ResetInHand(c) /\ DeleteInHand(c)
      /\ mgr.pc \in ResetPcs \union DeletePcs => mgr.c \in mgr.todo
  BY <1>1 DEF ThreadInv, HandInv, ClientInv
<1>3. /\ row \in [Emails -> RowSet] /\ core \in [Emails -> CoreSet] /\ mgr \in Threads
      /\ row[c] \in RowSet /\ core[c] \in CoreSet /\ Flags /\ Counters
  BY <1>1 DEF ManagedTypes
<1>4. /\ mgr.pc = "coreReset"
  BY <1>1, <1>2, <1>3 DEF CoreReset
<1>5. /\ row[c].last \in Nat /\ core[c].count \in Nat /\ charged[c] \in Nat /\ metered[c] \in Nat
      /\ tomb[c] \in Nat \union {-1} /\ mgr.final \in Nat /\ resets[c] \in Nat
      /\ core[c].who \in {"none", "own", "other"}
  BY <1>3 DEF RowSet, CoreSet, Threads, Counters
<1>6. row' = row
  BY <1>2, <1>3, <1>4 DEF CoreReset, RowSet
<1>7. core'[c].who = core[c].who /\ core'[c].count = 0
  BY <1>3, <1>4 DEF CoreReset, CoreSet, Absent
<1>8. core' \in [Emails -> CoreSet]
  <2>1. Absent \in CoreSet
    BY DEF Absent, CoreSet
  <2> QED BY <2>1, <1>3, <1>4 DEF CoreReset, CoreSet
<1>9. /\ mgr'.pc = "resetCharge" /\ mgr'.todo = mgr.todo /\ mgr'.c = mgr.c
      /\ mgr'.final = core[c].count /\ mgr'.want = mgr.want /\ mgr'.for = mgr.for
  BY <1>3, <1>4 DEF CoreReset, Threads
<1>10. mgr' \in Threads
  BY <1>3, <1>4, <1>5 DEF CoreReset, Threads, Pcs, ResetPcs, DeletePcs
<1>11. /\ UNCHANGED <<policy, lost, charged, metered, tomb>>
      /\ resets' = [resets EXCEPT ![c] = resets[c] + 1]
  BY <1>3, <1>4 DEF CoreReset
<1>12. /\ UNCHANGED <<policy, lost, charged, metered, tomb>>
      /\ resets'[c] = resets[c] + 1
  BY <1>11, <1>3 DEF Flags, Counters
<1>13. Flags'
  BY Zenon, <1>3, <1>11 DEF Flags
<1>14. Counters'
  BY <1>3, <1>5, <1>11 DEF Counters, Increment
<1>15. ASSUME NEW d \in Emails, d # c PROVE Unchanged(d)
  <2>1. row'[d] = row[d] /\ core'[d] = core[d]
    BY <1>3, <1>4, <1>15 DEF CoreReset
  <2>2. /\ policy'[d] = policy[d] /\ lost'[d] = lost[d] /\ charged'[d] = charged[d]
        /\ metered'[d] = metered[d] /\ resets'[d] = resets[d] /\ tomb'[d] = tomb[d]
    BY <1>3, <1>11, <1>15 DEF Flags, Counters
  <2> QED BY <2>1, <2>2 DEF Unchanged
<1>16. ClientInv(c)'
  <2>1. BooksBalance(c)'
    BY <1>2, <1>4, <1>5, <1>6, <1>7, <1>9, <1>12
       DEF InHand, ResetInHand, DeleteInHand, RowMatches, CoreMatches, ResetPcs, DeletePcs, Doing,
           Absent, BooksBalance, BaselineHolds, Owed, Increment
  <2>2. BaselineHolds(c)'
    BY <1>2, <1>4, <1>5, <1>6, <1>7, <1>9, <1>12
       DEF InHand, ResetInHand, DeleteInHand, RowMatches, CoreMatches, ResetPcs, DeletePcs, Doing,
           Absent, BooksBalance, BaselineHolds
  <2>3. CoreMatches(c)' /\ RowMatches(c)'
    BY <1>2, <1>4, <1>6, <1>7, <1>9, <1>12
       DEF InHand, ResetInHand, DeleteInHand, RowMatches, CoreMatches, ResetPcs, DeletePcs, Doing,
           Absent
  <2>4. ResetOnce(c)'
    BY <1>2, <1>4, <1>5, <1>6, <1>7, <1>9, <1>12
       DEF InHand, ResetInHand, DeleteInHand, RowMatches, CoreMatches, ResetPcs, DeletePcs, Doing,
           Absent, ResetOnce
  <2>5. ForeignMarked(c)'
    BY <1>2, <1>4, <1>5, <1>6, <1>7, <1>9, <1>12
       DEF InHand, ResetInHand, DeleteInHand, RowMatches, CoreMatches, ResetPcs, DeletePcs, Doing,
           Absent, ForeignMarked, TickPcs
  <2> QED BY <2>1, <2>2, <2>3, <2>4, <2>5 DEF ClientInv
<1>17. HandOver(c)
  <2>1. c \in mgr'.todo => InHand(c)'
    BY <1>2, <1>4, <1>6, <1>7, <1>9, <1>12
       DEF InHand, ResetInHand, DeleteInHand, RowMatches, CoreMatches, ResetPcs, DeletePcs, Doing,
           Absent
  <2>2. mgr'.c = c => ResetInHand(c)' /\ DeleteInHand(c)'
    BY <1>2, <1>4, <1>5, <1>6, <1>7, <1>9, <1>12
       DEF InHand, ResetInHand, DeleteInHand, RowMatches, CoreMatches, ResetPcs, DeletePcs, Doing,
           Absent
  <2> QED BY <2>1, <2>2, <1>1, <1>2, <1>4, <1>6, <1>7, <1>9, <1>12
         DEF HandOver, EditPcs, TickPcs, ResetPcs, DeletePcs, ThreadInv, HandInv
<1>18. ManagedTypes'
  BY <1>3, <1>6, <1>8, <1>10, <1>13, <1>14 DEF ManagedTypes
<1> QED BY <1>15, <1>16, <1>17, <1>18, OneClientStep

\* The final counter is charged; traffic since then is owed on top of it.
LEMMA ResetChargeInv ==
    ASSUME ManagedInv, NEW c \in Emails, mgr.c = c, ResetCharge
    PROVE  ManagedInv'
<1>1. ManagedTypes /\ ThreadInv /\ \A d \in Emails : ClientInv(d)
  BY DEF ManagedInv
<1>2. /\ BooksBalance(c) /\ BaselineHolds(c) /\ CoreMatches(c) /\ RowMatches(c)
      /\ ResetOnce(c) /\ ForeignMarked(c)
      /\ c \in mgr.todo => InHand(c)
      /\ mgr.c = c => ResetInHand(c) /\ DeleteInHand(c)
      /\ mgr.pc \in ResetPcs \union DeletePcs => mgr.c \in mgr.todo
  BY <1>1 DEF ThreadInv, HandInv, ClientInv
<1>3. /\ row \in [Emails -> RowSet] /\ core \in [Emails -> CoreSet] /\ mgr \in Threads
      /\ row[c] \in RowSet /\ core[c] \in CoreSet /\ Flags /\ Counters
  BY <1>1 DEF ManagedTypes
<1>4. /\ mgr.pc = "resetCharge"
      /\ policy[c]
  BY <1>1, <1>2, <1>3 DEF ResetCharge, ChargeBytes, ThreadInv, ResetInHand, ResetPcs
<1>5. /\ row[c].last \in Nat /\ core[c].count \in Nat /\ charged[c] \in Nat /\ metered[c] \in Nat
      /\ tomb[c] \in Nat \union {-1} /\ mgr.final \in Nat /\ resets[c] \in Nat
      /\ core[c].who \in {"none", "own", "other"}
  BY <1>3 DEF RowSet, CoreSet, Threads, Counters
<1>6. row'[c].op = row[c].op /\ row'[c].st = row[c].st /\ row'[c].last = mgr.final
  BY <1>2, <1>3, <1>4 DEF ResetCharge, ChargeBytes, ThreadInv, ResetInHand, ResetPcs, RowSet
<1>7. row' \in [Emails -> RowSet]
  BY <1>2, <1>3, <1>4, <1>5
     DEF ResetCharge, ChargeBytes, ThreadInv, ResetInHand, ResetPcs, RowSet, Statuses
<1>8. core' = core
  BY <1>3, <1>4 DEF ResetCharge, ChargeBytes, ThreadInv, ResetInHand, ResetPcs, CoreSet, Absent
<1>9. /\ mgr'.pc = "resetZero" /\ mgr'.todo = mgr.todo /\ mgr'.c = mgr.c
      /\ mgr'.final = 0 /\ mgr'.want = mgr.want /\ mgr'.for = mgr.for
  BY <1>3, <1>4 DEF ResetCharge, ChargeBytes, ThreadInv, ResetInHand, ResetPcs, Threads
<1>10. mgr' \in Threads
  BY <1>3, <1>4, <1>5
     DEF ResetCharge, ChargeBytes, ThreadInv, ResetInHand, ResetPcs, Threads, Pcs, ResetPcs,
         DeletePcs
<1>11. /\ UNCHANGED <<policy, lost, metered, resets, tomb>>
      /\ charged' = [charged EXCEPT ![c] = charged[c] + Increment(c, mgr.final)]
  BY <1>3, <1>4 DEF ResetCharge, ChargeBytes, ThreadInv, ResetInHand, ResetPcs
<1>12. /\ UNCHANGED <<policy, lost, metered, resets, tomb>>
      /\ charged'[c] = charged[c] + Increment(c, mgr.final)
  BY <1>11, <1>3 DEF Flags, Counters
<1>13. Flags'
  BY Zenon, <1>3, <1>11 DEF Flags
<1>14. Counters'
  BY <1>3, <1>5, <1>11 DEF Counters, Increment
<1>15. ASSUME NEW d \in Emails, d # c PROVE Unchanged(d)
  <2>1. row'[d] = row[d] /\ core'[d] = core[d]
    BY <1>3, <1>4, <1>15 DEF ResetCharge, ChargeBytes, ThreadInv, ResetInHand, ResetPcs
  <2>2. /\ policy'[d] = policy[d] /\ lost'[d] = lost[d] /\ charged'[d] = charged[d]
        /\ metered'[d] = metered[d] /\ resets'[d] = resets[d] /\ tomb'[d] = tomb[d]
    BY <1>3, <1>11, <1>15 DEF Flags, Counters
  <2> QED BY <2>1, <2>2 DEF Unchanged
<1>16. ClientInv(c)'
  <2>1. BooksBalance(c)'
    BY <1>2, <1>4, <1>5, <1>6, <1>8, <1>9, <1>12
       DEF InHand, ResetInHand, DeleteInHand, RowMatches, CoreMatches, ResetPcs, DeletePcs, Doing,
           Absent, BooksBalance, BaselineHolds, Owed, Increment
  <2>2. BaselineHolds(c)'
    BY <1>2, <1>4, <1>5, <1>6, <1>8, <1>9, <1>12
       DEF InHand, ResetInHand, DeleteInHand, RowMatches, CoreMatches, ResetPcs, DeletePcs, Doing,
           Absent, BooksBalance, BaselineHolds
  <2>3. CoreMatches(c)' /\ RowMatches(c)'
    BY <1>2, <1>4, <1>6, <1>8, <1>9, <1>12
       DEF InHand, ResetInHand, DeleteInHand, RowMatches, CoreMatches, ResetPcs, DeletePcs, Doing,
           Absent
  <2>4. ResetOnce(c)'
    BY <1>2, <1>4, <1>5, <1>6, <1>8, <1>9, <1>12
       DEF InHand, ResetInHand, DeleteInHand, RowMatches, CoreMatches, ResetPcs, DeletePcs, Doing,
           Absent, ResetOnce
  <2>5. ForeignMarked(c)'
    BY <1>2, <1>4, <1>5, <1>6, <1>8, <1>9, <1>12
       DEF InHand, ResetInHand, DeleteInHand, RowMatches, CoreMatches, ResetPcs, DeletePcs, Doing,
           Absent, ForeignMarked, TickPcs
  <2> QED BY <2>1, <2>2, <2>3, <2>4, <2>5 DEF ClientInv
<1>17. HandOver(c)
  <2>1. c \in mgr'.todo => InHand(c)'
    BY <1>2, <1>4, <1>6, <1>8, <1>9, <1>12
       DEF InHand, ResetInHand, DeleteInHand, RowMatches, CoreMatches, ResetPcs, DeletePcs, Doing,
           Absent
  <2>2. mgr'.c = c => ResetInHand(c)' /\ DeleteInHand(c)'
    BY <1>2, <1>4, <1>5, <1>6, <1>8, <1>9, <1>12
       DEF InHand, ResetInHand, DeleteInHand, RowMatches, CoreMatches, ResetPcs, DeletePcs, Doing,
           Absent
  <2> QED BY <2>1, <2>2, <1>1, <1>2, <1>4, <1>6, <1>8, <1>9, <1>12
         DEF HandOver, EditPcs, TickPcs, ResetPcs, DeletePcs, ThreadInv, HandInv
<1>18. ManagedTypes'
  BY <1>3, <1>7, <1>8, <1>10, <1>13, <1>14 DEF ManagedTypes
<1> QED BY <1>15, <1>16, <1>17, <1>18, OneClientStep

\* The baseline goes to zero after the charge.
LEMMA ResetZeroInv ==
    ASSUME ManagedInv, NEW c \in Emails, mgr.c = c, ResetZero
    PROVE  ManagedInv'
<1>1. ManagedTypes /\ ThreadInv /\ \A d \in Emails : ClientInv(d)
  BY DEF ManagedInv
<1>2. /\ BooksBalance(c) /\ BaselineHolds(c) /\ CoreMatches(c) /\ RowMatches(c)
      /\ ResetOnce(c) /\ ForeignMarked(c)
      /\ c \in mgr.todo => InHand(c)
      /\ mgr.c = c => ResetInHand(c) /\ DeleteInHand(c)
      /\ mgr.pc \in ResetPcs \union DeletePcs => mgr.c \in mgr.todo
  BY <1>1 DEF ThreadInv, HandInv, ClientInv
<1>3. /\ row \in [Emails -> RowSet] /\ core \in [Emails -> CoreSet] /\ mgr \in Threads
      /\ row[c] \in RowSet /\ core[c] \in CoreSet /\ Flags /\ Counters
  BY <1>1 DEF ManagedTypes
<1>4. /\ mgr.pc = "resetZero"
  BY <1>1, <1>2, <1>3 DEF ResetZero, At
<1>5. /\ row[c].last \in Nat /\ core[c].count \in Nat /\ charged[c] \in Nat /\ metered[c] \in Nat
      /\ tomb[c] \in Nat \union {-1} /\ mgr.final \in Nat /\ resets[c] \in Nat
      /\ core[c].who \in {"none", "own", "other"}
  BY <1>3 DEF RowSet, CoreSet, Threads, Counters
<1>6. row'[c].op = row[c].op /\ row'[c].st = row[c].st /\ row'[c].last = 0
  BY <1>2, <1>3, <1>4 DEF ResetZero, At, RowSet
<1>7. row' \in [Emails -> RowSet]
  BY <1>2, <1>3, <1>4, <1>5 DEF ResetZero, At, RowSet, Statuses
<1>8. core' = core
  BY <1>3, <1>4 DEF ResetZero, At, CoreSet, Absent
<1>9. /\ mgr'.pc = "resetFinish" /\ mgr'.todo = mgr.todo /\ mgr'.c = mgr.c
      /\ mgr'.final = mgr.final /\ mgr'.want = mgr.want /\ mgr'.for = mgr.for
  BY <1>3, <1>4 DEF ResetZero, At, Threads
<1>10. mgr' \in Threads
  BY <1>3, <1>4, <1>5 DEF ResetZero, At, Threads, Pcs, ResetPcs, DeletePcs
<1>11. UNCHANGED <<policy, lost, charged, metered, resets, tomb>>
  BY <1>3, <1>4 DEF ResetZero, At
<1>12. ASSUME NEW d \in Emails, d # c PROVE Unchanged(d)
  <2>1. row'[d] = row[d] /\ core'[d] = core[d]
    BY <1>3, <1>4, <1>12 DEF ResetZero, At
  <2>2. /\ policy'[d] = policy[d] /\ lost'[d] = lost[d] /\ charged'[d] = charged[d]
        /\ metered'[d] = metered[d] /\ resets'[d] = resets[d] /\ tomb'[d] = tomb[d]
    BY <1>3, <1>11, <1>12 DEF Flags, Counters
  <2> QED BY <2>1, <2>2 DEF Unchanged
<1>13. ClientInv(c)'
  <2>1. BooksBalance(c)'
    BY <1>2, <1>4, <1>5, <1>6, <1>8, <1>9, <1>11
       DEF InHand, ResetInHand, DeleteInHand, RowMatches, CoreMatches, ResetPcs, DeletePcs, Doing,
           Absent, BooksBalance, BaselineHolds, Owed, Increment
  <2>2. BaselineHolds(c)'
    BY <1>2, <1>4, <1>5, <1>6, <1>8, <1>9, <1>11
       DEF InHand, ResetInHand, DeleteInHand, RowMatches, CoreMatches, ResetPcs, DeletePcs, Doing,
           Absent, BooksBalance, BaselineHolds
  <2>3. CoreMatches(c)' /\ RowMatches(c)'
    BY <1>2, <1>4, <1>6, <1>8, <1>9, <1>11
       DEF InHand, ResetInHand, DeleteInHand, RowMatches, CoreMatches, ResetPcs, DeletePcs, Doing,
           Absent
  <2>4. ResetOnce(c)'
    BY <1>2, <1>4, <1>5, <1>6, <1>8, <1>9, <1>11
       DEF InHand, ResetInHand, DeleteInHand, RowMatches, CoreMatches, ResetPcs, DeletePcs, Doing,
           Absent, ResetOnce
  <2>5. ForeignMarked(c)'
    BY <1>2, <1>4, <1>5, <1>6, <1>8, <1>9, <1>11
       DEF InHand, ResetInHand, DeleteInHand, RowMatches, CoreMatches, ResetPcs, DeletePcs, Doing,
           Absent, ForeignMarked, TickPcs
  <2> QED BY <2>1, <2>2, <2>3, <2>4, <2>5 DEF ClientInv
<1>14. HandOver(c)
  <2>1. c \in mgr'.todo => InHand(c)'
    BY <1>2, <1>4, <1>6, <1>8, <1>9, <1>11
       DEF InHand, ResetInHand, DeleteInHand, RowMatches, CoreMatches, ResetPcs, DeletePcs, Doing,
           Absent
  <2>2. mgr'.c = c => ResetInHand(c)' /\ DeleteInHand(c)'
    BY <1>2, <1>4, <1>5, <1>6, <1>8, <1>9, <1>11
       DEF InHand, ResetInHand, DeleteInHand, RowMatches, CoreMatches, ResetPcs, DeletePcs, Doing,
           Absent
  <2> QED BY <2>1, <2>2, <1>1, <1>2, <1>4, <1>6, <1>8, <1>9, <1>11
         DEF HandOver, EditPcs, TickPcs, ResetPcs, DeletePcs, ThreadInv, HandInv
<1>15. ManagedTypes'
  BY <1>3, <1>7, <1>8, <1>10, <1>11 DEF ManagedTypes, Flags, Counters
<1> QED BY <1>12, <1>13, <1>14, <1>15, OneClientStep

\* The reset is over.
LEMMA ResetFinishInv ==
    ASSUME ManagedInv, NEW c \in Emails, mgr.c = c, ResetFinish
    PROVE  ManagedInv'
<1>1. ManagedTypes /\ ThreadInv /\ \A d \in Emails : ClientInv(d)
  BY DEF ManagedInv
<1>2. /\ BooksBalance(c) /\ BaselineHolds(c) /\ CoreMatches(c) /\ RowMatches(c)
      /\ ResetOnce(c) /\ ForeignMarked(c)
      /\ c \in mgr.todo => InHand(c)
      /\ mgr.c = c => ResetInHand(c) /\ DeleteInHand(c)
      /\ mgr.pc \in ResetPcs \union DeletePcs => mgr.c \in mgr.todo
  BY <1>1 DEF ThreadInv, HandInv, ClientInv
<1>3. /\ row \in [Emails -> RowSet] /\ core \in [Emails -> CoreSet] /\ mgr \in Threads
      /\ row[c] \in RowSet /\ core[c] \in CoreSet /\ Flags /\ Counters
  BY <1>1 DEF ManagedTypes
<1>4. /\ mgr.pc = "resetFinish"
  BY <1>1, <1>2, <1>3 DEF ResetFinish, Finish
<1>5. /\ row[c].last \in Nat /\ core[c].count \in Nat /\ charged[c] \in Nat /\ metered[c] \in Nat
      /\ tomb[c] \in Nat \union {-1} /\ mgr.final \in Nat /\ resets[c] \in Nat
      /\ core[c].who \in {"none", "own", "other"}
  BY <1>3 DEF RowSet, CoreSet, Threads, Counters
<1>6. row'[c].op = "none" /\ row'[c].st = "applied" /\ row'[c].last = row[c].last
  BY <1>2, <1>3, <1>4 DEF ResetFinish, Finish, RowSet
<1>7. row' \in [Emails -> RowSet]
  BY <1>2, <1>3, <1>4, <1>5 DEF ResetFinish, Finish, RowSet, Statuses
<1>8. core' = core
  BY <1>3, <1>4 DEF ResetFinish, Finish, CoreSet, Absent
<1>9. /\ mgr'.pc = "ops" /\ mgr'.todo = mgr.todo \ {c} /\ mgr'.c = mgr.c
      /\ mgr'.final = mgr.final /\ mgr'.want = mgr.want /\ mgr'.for = mgr.for
  BY <1>3, <1>4 DEF ResetFinish, Finish, Threads
<1>10. mgr' \in Threads
  BY <1>3, <1>4, <1>5 DEF ResetFinish, Finish, Threads, Pcs, ResetPcs, DeletePcs
<1>11. UNCHANGED <<policy, lost, charged, metered, resets, tomb>>
  BY <1>3, <1>4 DEF ResetFinish, Finish
<1>12. ASSUME NEW d \in Emails, d # c PROVE Unchanged(d)
  <2>1. row'[d] = row[d] /\ core'[d] = core[d]
    BY <1>3, <1>4, <1>12 DEF ResetFinish, Finish
  <2>2. /\ policy'[d] = policy[d] /\ lost'[d] = lost[d] /\ charged'[d] = charged[d]
        /\ metered'[d] = metered[d] /\ resets'[d] = resets[d] /\ tomb'[d] = tomb[d]
    BY <1>3, <1>11, <1>12 DEF Flags, Counters
  <2> QED BY <2>1, <2>2 DEF Unchanged
<1>13. ClientInv(c)'
  <2>1. BooksBalance(c)'
    BY <1>2, <1>4, <1>5, <1>6, <1>8, <1>9, <1>11
       DEF InHand, ResetInHand, DeleteInHand, RowMatches, CoreMatches, ResetPcs, DeletePcs, Doing,
           Absent, BooksBalance, BaselineHolds, Owed, Increment
  <2>2. BaselineHolds(c)'
    BY <1>2, <1>4, <1>5, <1>6, <1>8, <1>9, <1>11
       DEF InHand, ResetInHand, DeleteInHand, RowMatches, CoreMatches, ResetPcs, DeletePcs, Doing,
           Absent, BooksBalance, BaselineHolds
  <2>3. CoreMatches(c)' /\ RowMatches(c)'
    BY <1>2, <1>4, <1>6, <1>8, <1>9, <1>11
       DEF InHand, ResetInHand, DeleteInHand, RowMatches, CoreMatches, ResetPcs, DeletePcs, Doing,
           Absent
  <2>4. ResetOnce(c)'
    BY <1>2, <1>4, <1>5, <1>6, <1>8, <1>9, <1>11
       DEF InHand, ResetInHand, DeleteInHand, RowMatches, CoreMatches, ResetPcs, DeletePcs, Doing,
           Absent, ResetOnce
  <2>5. ForeignMarked(c)'
    BY <1>2, <1>4, <1>5, <1>6, <1>8, <1>9, <1>11
       DEF InHand, ResetInHand, DeleteInHand, RowMatches, CoreMatches, ResetPcs, DeletePcs, Doing,
           Absent, ForeignMarked, TickPcs
  <2> QED BY <2>1, <2>2, <2>3, <2>4, <2>5 DEF ClientInv
<1>14. HandOver(c)
  <2>1. c \in mgr'.todo => InHand(c)'
    BY <1>2, <1>4, <1>6, <1>8, <1>9, <1>11
       DEF InHand, ResetInHand, DeleteInHand, RowMatches, CoreMatches, ResetPcs, DeletePcs, Doing,
           Absent
  <2>2. mgr'.c = c => ResetInHand(c)' /\ DeleteInHand(c)'
    BY <1>2, <1>4, <1>5, <1>6, <1>8, <1>9, <1>11
       DEF InHand, ResetInHand, DeleteInHand, RowMatches, CoreMatches, ResetPcs, DeletePcs, Doing,
           Absent
  <2> QED BY <2>1, <2>2, <1>1, <1>2, <1>4, <1>6, <1>8, <1>9, <1>11
         DEF HandOver, EditPcs, TickPcs, ResetPcs, DeletePcs, ThreadInv, HandInv
<1>15. ManagedTypes'
  BY <1>3, <1>7, <1>8, <1>10, <1>11 DEF ManagedTypes, Flags, Counters
<1> QED BY <1>12, <1>13, <1>14, <1>15, OneClientStep

\* The retry time of an operation comes.
LEMMA RetryTimeInv ==
    ASSUME ManagedInv, NEW c \in Emails, RetryTime(c)
    PROVE  ManagedInv'
<1>1. ManagedTypes /\ ThreadInv /\ \A d \in Emails : ClientInv(d)
  BY DEF ManagedInv
<1>2. /\ BooksBalance(c) /\ BaselineHolds(c) /\ CoreMatches(c) /\ RowMatches(c)
      /\ ResetOnce(c) /\ ForeignMarked(c)
      /\ c \in mgr.todo => InHand(c)
      /\ mgr.c = c => ResetInHand(c) /\ DeleteInHand(c)
      /\ mgr.pc \in ResetPcs \union DeletePcs => mgr.c \in mgr.todo
  BY <1>1 DEF ThreadInv, HandInv, ClientInv
<1>3. /\ row \in [Emails -> RowSet] /\ core \in [Emails -> CoreSet] /\ mgr \in Threads
      /\ row[c] \in RowSet /\ core[c] \in CoreSet /\ Flags /\ Counters
  BY <1>1 DEF ManagedTypes
<1>4. /\ mgr.pc = "idle"
      /\ mgr.todo = {}
      /\ mgr.want = "none"
  BY <1>1, <1>2, <1>3 DEF RetryTime, Free
<1>5. /\ row[c].last \in Nat /\ core[c].count \in Nat /\ charged[c] \in Nat /\ metered[c] \in Nat
      /\ tomb[c] \in Nat \union {-1} /\ mgr.final \in Nat /\ resets[c] \in Nat
      /\ core[c].who \in {"none", "own", "other"}
  BY <1>3 DEF RowSet, CoreSet, Threads, Counters
<1>6. row'[c].op = row[c].op /\ row'[c].st = row[c].st /\ row'[c].last = row[c].last
  BY <1>2, <1>3, <1>4 DEF RetryTime, Free, RowSet
<1>7. row' \in [Emails -> RowSet]
  BY <1>2, <1>3, <1>4, <1>5 DEF RetryTime, Free, RowSet, Statuses
<1>8. core' = core
  BY <1>3, <1>4 DEF RetryTime, Free, CoreSet, Absent
<1>9. mgr' = mgr
  BY <1>3, <1>4 DEF RetryTime, Free, Threads
<1>10. UNCHANGED <<policy, lost, charged, metered, resets, tomb>>
  BY <1>3, <1>4 DEF RetryTime, Free
<1>11. ASSUME NEW d \in Emails, d # c PROVE Unchanged(d)
  <2>1. row'[d] = row[d] /\ core'[d] = core[d]
    BY <1>3, <1>4, <1>11 DEF RetryTime, Free
  <2>2. /\ policy'[d] = policy[d] /\ lost'[d] = lost[d] /\ charged'[d] = charged[d]
        /\ metered'[d] = metered[d] /\ resets'[d] = resets[d] /\ tomb'[d] = tomb[d]
    BY <1>3, <1>10, <1>11 DEF Flags, Counters
  <2> QED BY <2>1, <2>2 DEF Unchanged
<1>12. ClientInv(c)'
  <2>1. BooksBalance(c)'
    BY <1>2, <1>4, <1>5, <1>6, <1>8, <1>9, <1>10
       DEF InHand, ResetInHand, DeleteInHand, RowMatches, CoreMatches, ResetPcs, DeletePcs, Doing,
           Absent, BooksBalance, BaselineHolds, Owed, Increment
  <2>2. BaselineHolds(c)'
    BY <1>2, <1>4, <1>5, <1>6, <1>8, <1>9, <1>10
       DEF InHand, ResetInHand, DeleteInHand, RowMatches, CoreMatches, ResetPcs, DeletePcs, Doing,
           Absent, BooksBalance, BaselineHolds
  <2>3. CoreMatches(c)' /\ RowMatches(c)'
    BY <1>2, <1>4, <1>6, <1>8, <1>9, <1>10
       DEF InHand, ResetInHand, DeleteInHand, RowMatches, CoreMatches, ResetPcs, DeletePcs, Doing,
           Absent
  <2>4. ResetOnce(c)'
    BY <1>2, <1>4, <1>5, <1>6, <1>8, <1>9, <1>10
       DEF InHand, ResetInHand, DeleteInHand, RowMatches, CoreMatches, ResetPcs, DeletePcs, Doing,
           Absent, ResetOnce
  <2>5. ForeignMarked(c)'
    BY <1>2, <1>4, <1>5, <1>6, <1>8, <1>9, <1>10
       DEF InHand, ResetInHand, DeleteInHand, RowMatches, CoreMatches, ResetPcs, DeletePcs, Doing,
           Absent, ForeignMarked, TickPcs
  <2> QED BY <2>1, <2>2, <2>3, <2>4, <2>5 DEF ClientInv
<1>13. HandOver(c)
  <2>1. c \in mgr'.todo => InHand(c)'
    BY <1>2, <1>4, <1>6, <1>8, <1>9, <1>10
       DEF InHand, ResetInHand, DeleteInHand, RowMatches, CoreMatches, ResetPcs, DeletePcs, Doing,
           Absent
  <2>2. mgr'.c = c => ResetInHand(c)' /\ DeleteInHand(c)'
    BY <1>2, <1>4, <1>5, <1>6, <1>8, <1>9, <1>10
       DEF InHand, ResetInHand, DeleteInHand, RowMatches, CoreMatches, ResetPcs, DeletePcs, Doing,
           Absent
  <2> QED BY <2>1, <2>2, <1>1, <1>2, <1>4, <1>6, <1>8, <1>9, <1>10
         DEF HandOver, EditPcs, TickPcs, ResetPcs, DeletePcs, ThreadInv, HandInv
<1>14. ManagedTypes'
  BY <1>3, <1>7, <1>8, <1>9, <1>10 DEF ManagedTypes, Flags, Counters
<1> QED BY <1>11, <1>12, <1>13, <1>14, OneClientStep

\* What the core counts is metered and owed.
LEMMA TrafficInv ==
    ASSUME ManagedInv, NEW c \in Emails, Traffic(c)
    PROVE  ManagedInv'
<1>1. ManagedTypes /\ ThreadInv /\ \A d \in Emails : ClientInv(d)
  BY DEF ManagedInv
<1>2. /\ BooksBalance(c) /\ BaselineHolds(c) /\ CoreMatches(c) /\ RowMatches(c)
      /\ ResetOnce(c) /\ ForeignMarked(c)
      /\ c \in mgr.todo => InHand(c)
      /\ mgr.c = c => ResetInHand(c) /\ DeleteInHand(c)
      /\ mgr.pc \in ResetPcs \union DeletePcs => mgr.c \in mgr.todo
  BY <1>1 DEF ThreadInv, HandInv, ClientInv
<1>3. /\ row \in [Emails -> RowSet] /\ core \in [Emails -> CoreSet] /\ mgr \in Threads
      /\ row[c] \in RowSet /\ core[c] \in CoreSet /\ Flags /\ Counters
  BY <1>1 DEF ManagedTypes
<1>4. /\ core[c].who = "own"
      /\ row[c].st \notin {"none", "deleted"}
  BY <1>1, <1>2, <1>3 DEF Traffic, Live
<1>5. /\ row[c].last \in Nat /\ core[c].count \in Nat /\ charged[c] \in Nat /\ metered[c] \in Nat
      /\ tomb[c] \in Nat \union {-1} /\ mgr.final \in Nat /\ resets[c] \in Nat
      /\ core[c].who \in {"none", "own", "other"}
  BY <1>3 DEF RowSet, CoreSet, Threads, Counters
<1>6. row' = row
  BY <1>2, <1>3, <1>4 DEF Traffic, Live, RowSet
<1>7. core'[c].who = core[c].who /\ core'[c].count = core[c].count + 1
  BY <1>3, <1>4 DEF Traffic, Live, CoreSet, Absent
<1>8. core' \in [Emails -> CoreSet]
  <2>1. Absent \in CoreSet
    BY DEF Absent, CoreSet
  <2> QED BY <2>1, <1>3, <1>4 DEF Traffic, Live, CoreSet
<1>9. mgr' = mgr
  BY <1>3, <1>4 DEF Traffic, Live, Threads
<1>10. /\ UNCHANGED <<policy, lost, charged, resets, tomb>>
      /\ metered' = [metered EXCEPT ![c] = metered[c] + 1]
  BY <1>3, <1>4 DEF Traffic, Live
<1>11. /\ UNCHANGED <<policy, lost, charged, resets, tomb>>
      /\ metered'[c] = metered[c] + 1
  BY <1>10, <1>3 DEF Flags, Counters
<1>12. Flags'
  BY Zenon, <1>3, <1>10 DEF Flags
<1>13. Counters'
  BY <1>3, <1>5, <1>10 DEF Counters, Increment
<1>14. ASSUME NEW d \in Emails, d # c PROVE Unchanged(d)
  <2>1. row'[d] = row[d] /\ core'[d] = core[d]
    BY <1>3, <1>4, <1>14 DEF Traffic, Live
  <2>2. /\ policy'[d] = policy[d] /\ lost'[d] = lost[d] /\ charged'[d] = charged[d]
        /\ metered'[d] = metered[d] /\ resets'[d] = resets[d] /\ tomb'[d] = tomb[d]
    BY <1>3, <1>10, <1>14 DEF Flags, Counters
  <2> QED BY <2>1, <2>2 DEF Unchanged
<1>15. ClientInv(c)'
  <2>1. BooksBalance(c)'
    <3>1. Owed(c) \in Nat /\ Owed(c)' \in Nat /\ Owed(c)' <= Owed(c) + 1
      BY <1>2, <1>4, <1>5, <1>6, <1>7, <1>9, <1>11 DEF Owed, Increment, Doing
    <3>2. ~lost[c] => Owed(c)' = Owed(c) + 1
      BY <1>2, <1>4, <1>5, <1>6, <1>7, <1>9, <1>11 DEF Owed, Increment, Doing, BaselineHolds
    <3> QED BY <1>2, <1>4, <1>5, <1>6, <1>7, <1>9, <1>11, <3>1, <3>2 DEF BooksBalance
  <2>2. BaselineHolds(c)'
    BY <1>2, <1>4, <1>5, <1>6, <1>7, <1>9, <1>11
       DEF InHand, ResetInHand, DeleteInHand, RowMatches, CoreMatches, ResetPcs, DeletePcs, Doing,
           Absent, BooksBalance, BaselineHolds
  <2>3. CoreMatches(c)' /\ RowMatches(c)'
    BY <1>2, <1>4, <1>6, <1>7, <1>9, <1>11
       DEF InHand, ResetInHand, DeleteInHand, RowMatches, CoreMatches, ResetPcs, DeletePcs, Doing,
           Absent
  <2>4. ResetOnce(c)'
    BY <1>2, <1>4, <1>5, <1>6, <1>7, <1>9, <1>11
       DEF InHand, ResetInHand, DeleteInHand, RowMatches, CoreMatches, ResetPcs, DeletePcs, Doing,
           Absent, ResetOnce
  <2>5. ForeignMarked(c)'
    BY <1>2, <1>4, <1>5, <1>6, <1>7, <1>9, <1>11
       DEF InHand, ResetInHand, DeleteInHand, RowMatches, CoreMatches, ResetPcs, DeletePcs, Doing,
           Absent, ForeignMarked, TickPcs
  <2> QED BY <2>1, <2>2, <2>3, <2>4, <2>5 DEF ClientInv
<1>16. HandOver(c)
  <2>1. c \in mgr'.todo => InHand(c)'
    BY <1>2, <1>4, <1>6, <1>7, <1>9, <1>11
       DEF InHand, ResetInHand, DeleteInHand, RowMatches, CoreMatches, ResetPcs, DeletePcs, Doing,
           Absent
  <2>2. mgr'.c = c => ResetInHand(c)' /\ DeleteInHand(c)'
    BY <1>2, <1>4, <1>5, <1>6, <1>7, <1>9, <1>11
       DEF InHand, ResetInHand, DeleteInHand, RowMatches, CoreMatches, ResetPcs, DeletePcs, Doing,
           Absent
  <2> QED BY <2>1, <2>2, <1>1, <1>2, <1>4, <1>6, <1>7, <1>9, <1>11
         DEF HandOver, EditPcs, TickPcs, ResetPcs, DeletePcs, ThreadInv, HandInv
<1>17. ManagedTypes'
  BY <1>3, <1>6, <1>8, <1>9, <1>12, <1>13 DEF ManagedTypes
<1> QED BY <1>14, <1>15, <1>16, <1>17, OneClientStep

\* The core is changed elsewhere: from then on the counter is not trusted.
LEMMA CoreChangesInv ==
    ASSUME ManagedInv, NEW c \in Emails, CoreChanges(c)
    PROVE  ManagedInv'
<1>1. ManagedTypes /\ ThreadInv /\ \A d \in Emails : ClientInv(d)
  BY DEF ManagedInv
<1>2. /\ BooksBalance(c) /\ BaselineHolds(c) /\ CoreMatches(c) /\ RowMatches(c)
      /\ ResetOnce(c) /\ ForeignMarked(c)
      /\ c \in mgr.todo => InHand(c)
      /\ mgr.c = c => ResetInHand(c) /\ DeleteInHand(c)
      /\ mgr.pc \in ResetPcs \union DeletePcs => mgr.c \in mgr.todo
  BY <1>1 DEF ThreadInv, HandInv, ClientInv
<1>3. /\ row \in [Emails -> RowSet] /\ core \in [Emails -> CoreSet] /\ mgr \in Threads
      /\ row[c] \in RowSet /\ core[c] \in CoreSet /\ Flags /\ Counters
  BY <1>1 DEF ManagedTypes
<1>4. /\ mgr.pc = "idle"
      /\ mgr.todo = {}
      /\ mgr.want = "none"
      /\ row[c].st \notin {"none", "deleted"}
      /\ core[c] # Absent
  BY <1>1, <1>2, <1>3 DEF CoreChanges, ManagerFault, Live, Free
<1>5. /\ row[c].last \in Nat /\ core[c].count \in Nat /\ charged[c] \in Nat /\ metered[c] \in Nat
      /\ tomb[c] \in Nat \union {-1} /\ mgr.final \in Nat /\ resets[c] \in Nat
      /\ core[c].who \in {"none", "own", "other"}
  BY <1>3 DEF RowSet, CoreSet, Threads, Counters
<1>6. CASE core' = [core EXCEPT ![c] = Absent]
  <2>1. row' = row
    BY <1>6, <1>2, <1>3, <1>4 DEF CoreChanges, ManagerFault, Live, Free, RowSet
  <2>2. core'[c].who = "none" /\ core'[c].count = 0 /\ core'[c] = Absent
    BY <1>6, <1>3, <1>4 DEF CoreChanges, ManagerFault, Live, Free, CoreSet, Absent
  <2>3. core' \in [Emails -> CoreSet]
    <3>1. Absent \in CoreSet
      BY DEF Absent, CoreSet
    <3> QED BY <3>1, <1>6, <1>3, <1>4 DEF CoreChanges, ManagerFault, Live, Free, CoreSet
  <2>4. mgr' = mgr
    BY <1>6, <1>3, <1>4 DEF CoreChanges, ManagerFault, Live, Free, Threads
  <2>5. /\ UNCHANGED <<policy, charged, metered, resets, tomb>>
        /\ lost' = [lost EXCEPT ![c] = TRUE]
    BY <1>6, <1>3, <1>4 DEF CoreChanges, ManagerFault, Live, Free
  <2>6. /\ UNCHANGED <<policy, charged, metered, resets, tomb>>
        /\ lost'[c] = TRUE
    BY <2>5, <1>3 DEF Flags, Counters
  <2>7. Flags'
    BY Zenon, <1>3, <2>5, FlagSet DEF Flags
  <2>8. Counters'
    BY <1>6, <1>3, <1>5, <2>5 DEF Counters, Increment
  <2>9. ASSUME NEW d \in Emails, d # c PROVE Unchanged(d)
    <3>1. row'[d] = row[d] /\ core'[d] = core[d]
      BY <1>6, <1>3, <1>4, <2>9 DEF CoreChanges, ManagerFault, Live, Free
    <3>2. /\ policy'[d] = policy[d] /\ lost'[d] = lost[d] /\ charged'[d] = charged[d]
          /\ metered'[d] = metered[d] /\ resets'[d] = resets[d] /\ tomb'[d] = tomb[d]
      BY <1>3, <2>5, <2>9 DEF Flags, Counters
    <3> QED BY <3>1, <3>2 DEF Unchanged
  <2>10. ClientInv(c)'
    <3>1. BooksBalance(c)'
      BY <1>6, <1>2, <1>4, <1>5, <2>1, <2>2, <2>4, <2>6
         DEF InHand, ResetInHand, DeleteInHand, RowMatches, CoreMatches, ResetPcs, DeletePcs,
             Doing, Absent, BooksBalance, BaselineHolds, Owed, Increment
    <3>2. BaselineHolds(c)'
      BY <1>6, <1>2, <1>4, <1>5, <2>1, <2>2, <2>4, <2>6
         DEF InHand, ResetInHand, DeleteInHand, RowMatches, CoreMatches, ResetPcs, DeletePcs,
             Doing, Absent, BooksBalance, BaselineHolds
    <3>3. CoreMatches(c)' /\ RowMatches(c)'
      BY <1>6, <1>2, <1>4, <2>1, <2>2, <2>4, <2>6
         DEF InHand, ResetInHand, DeleteInHand, RowMatches, CoreMatches, ResetPcs, DeletePcs,
             Doing, Absent
    <3>4. ResetOnce(c)'
      BY <1>6, <1>2, <1>4, <1>5, <2>1, <2>2, <2>4, <2>6
         DEF InHand, ResetInHand, DeleteInHand, RowMatches, CoreMatches, ResetPcs, DeletePcs,
             Doing, Absent, ResetOnce
    <3>5. ForeignMarked(c)'
      BY <1>6, <1>2, <1>4, <1>5, <2>1, <2>2, <2>4, <2>6
         DEF InHand, ResetInHand, DeleteInHand, RowMatches, CoreMatches, ResetPcs, DeletePcs,
             Doing, Absent, ForeignMarked, TickPcs
    <3> QED BY <3>1, <3>2, <3>3, <3>4, <3>5 DEF ClientInv
  <2>11. HandOver(c)
    <3>1. c \in mgr'.todo => InHand(c)'
      BY <1>6, <1>2, <1>4, <2>1, <2>2, <2>4, <2>6
         DEF InHand, ResetInHand, DeleteInHand, RowMatches, CoreMatches, ResetPcs, DeletePcs,
             Doing, Absent
    <3>2. mgr'.c = c => ResetInHand(c)' /\ DeleteInHand(c)'
      BY <1>6, <1>2, <1>4, <1>5, <2>1, <2>2, <2>4, <2>6
         DEF InHand, ResetInHand, DeleteInHand, RowMatches, CoreMatches, ResetPcs, DeletePcs,
             Doing, Absent
    <3> QED BY <3>1, <3>2, <1>6, <1>1, <1>2, <1>4, <2>1, <2>2, <2>4, <2>6
           DEF HandOver, EditPcs, TickPcs, ResetPcs, DeletePcs, ThreadInv, HandInv
  <2>12. ManagedTypes'
    BY <1>3, <2>1, <2>3, <2>4, <2>7, <2>8 DEF ManagedTypes
  <2> QED BY <2>9, <2>10, <2>11, <2>12, OneClientStep
<1>7. CASE core' = [core EXCEPT ![c] = [who |-> "other", on |-> TRUE, count |-> 0]]
  <2>1. row' = row
    BY <1>7, <1>2, <1>3, <1>4 DEF CoreChanges, ManagerFault, Live, Free, RowSet
  <2>2. core'[c].who = "other" /\ core'[c].count = 0
    BY <1>7, <1>3, <1>4 DEF CoreChanges, ManagerFault, Live, Free, CoreSet, Absent
  <2>3. core' \in [Emails -> CoreSet]
    <3>1. Absent \in CoreSet
      BY DEF Absent, CoreSet
    <3> QED BY <3>1, <1>7, <1>3, <1>4 DEF CoreChanges, ManagerFault, Live, Free, CoreSet
  <2>4. mgr' = mgr
    BY <1>7, <1>3, <1>4 DEF CoreChanges, ManagerFault, Live, Free, Threads
  <2>5. /\ UNCHANGED <<policy, charged, metered, resets, tomb>>
        /\ lost' = [lost EXCEPT ![c] = TRUE]
    BY <1>7, <1>3, <1>4 DEF CoreChanges, ManagerFault, Live, Free
  <2>6. /\ UNCHANGED <<policy, charged, metered, resets, tomb>>
        /\ lost'[c] = TRUE
    BY <2>5, <1>3 DEF Flags, Counters
  <2>7. Flags'
    BY Zenon, <1>3, <2>5, FlagSet DEF Flags
  <2>8. Counters'
    BY <1>7, <1>3, <1>5, <2>5 DEF Counters, Increment
  <2>9. ASSUME NEW d \in Emails, d # c PROVE Unchanged(d)
    <3>1. row'[d] = row[d] /\ core'[d] = core[d]
      BY <1>7, <1>3, <1>4, <2>9 DEF CoreChanges, ManagerFault, Live, Free
    <3>2. /\ policy'[d] = policy[d] /\ lost'[d] = lost[d] /\ charged'[d] = charged[d]
          /\ metered'[d] = metered[d] /\ resets'[d] = resets[d] /\ tomb'[d] = tomb[d]
      BY <1>3, <2>5, <2>9 DEF Flags, Counters
    <3> QED BY <3>1, <3>2 DEF Unchanged
  <2>10. ClientInv(c)'
    <3>1. BooksBalance(c)'
      BY <1>7, <1>2, <1>4, <1>5, <2>1, <2>2, <2>4, <2>6
         DEF InHand, ResetInHand, DeleteInHand, RowMatches, CoreMatches, ResetPcs, DeletePcs,
             Doing, Absent, BooksBalance, BaselineHolds, Owed, Increment
    <3>2. BaselineHolds(c)'
      BY <1>7, <1>2, <1>4, <1>5, <2>1, <2>2, <2>4, <2>6
         DEF InHand, ResetInHand, DeleteInHand, RowMatches, CoreMatches, ResetPcs, DeletePcs,
             Doing, Absent, BooksBalance, BaselineHolds
    <3>3. CoreMatches(c)' /\ RowMatches(c)'
      BY <1>7, <1>2, <1>4, <2>1, <2>2, <2>4, <2>6
         DEF InHand, ResetInHand, DeleteInHand, RowMatches, CoreMatches, ResetPcs, DeletePcs,
             Doing, Absent
    <3>4. ResetOnce(c)'
      BY <1>7, <1>2, <1>4, <1>5, <2>1, <2>2, <2>4, <2>6
         DEF InHand, ResetInHand, DeleteInHand, RowMatches, CoreMatches, ResetPcs, DeletePcs,
             Doing, Absent, ResetOnce
    <3>5. ForeignMarked(c)'
      BY <1>7, <1>2, <1>4, <1>5, <2>1, <2>2, <2>4, <2>6
         DEF InHand, ResetInHand, DeleteInHand, RowMatches, CoreMatches, ResetPcs, DeletePcs,
             Doing, Absent, ForeignMarked, TickPcs
    <3> QED BY <3>1, <3>2, <3>3, <3>4, <3>5 DEF ClientInv
  <2>11. HandOver(c)
    <3>1. c \in mgr'.todo => InHand(c)'
      BY <1>7, <1>2, <1>4, <2>1, <2>2, <2>4, <2>6
         DEF InHand, ResetInHand, DeleteInHand, RowMatches, CoreMatches, ResetPcs, DeletePcs,
             Doing, Absent
    <3>2. mgr'.c = c => ResetInHand(c)' /\ DeleteInHand(c)'
      BY <1>7, <1>2, <1>4, <1>5, <2>1, <2>2, <2>4, <2>6
         DEF InHand, ResetInHand, DeleteInHand, RowMatches, CoreMatches, ResetPcs, DeletePcs,
             Doing, Absent
    <3> QED BY <3>1, <3>2, <1>7, <1>1, <1>2, <1>4, <2>1, <2>2, <2>4, <2>6
           DEF HandOver, EditPcs, TickPcs, ResetPcs, DeletePcs, ThreadInv, HandInv
  <2>12. ManagedTypes'
    BY <1>3, <2>1, <2>3, <2>4, <2>7, <2>8 DEF ManagedTypes
  <2> QED BY <2>9, <2>10, <2>11, <2>12, OneClientStep
<1>8. CASE core' = [core EXCEPT ![c] = [core[c] EXCEPT !.on = FALSE]]
  <2>1. row' = row
    BY <1>8, <1>2, <1>3, <1>4 DEF CoreChanges, ManagerFault, Live, Free, RowSet
  <2>2. core'[c].who = core[c].who /\ core'[c].count = core[c].count
    BY <1>8, <1>3, <1>4 DEF CoreChanges, ManagerFault, Live, Free, CoreSet, Absent
  <2>3. core' \in [Emails -> CoreSet]
    <3>1. Absent \in CoreSet
      BY DEF Absent, CoreSet
    <3> QED BY <3>1, <1>8, <1>3, <1>4 DEF CoreChanges, ManagerFault, Live, Free, CoreSet
  <2>4. mgr' = mgr
    BY <1>8, <1>3, <1>4 DEF CoreChanges, ManagerFault, Live, Free, Threads
  <2>5. /\ UNCHANGED <<policy, charged, metered, resets, tomb>>
        /\ lost' = [lost EXCEPT ![c] = TRUE]
    BY <1>8, <1>3, <1>4 DEF CoreChanges, ManagerFault, Live, Free
  <2>6. /\ UNCHANGED <<policy, charged, metered, resets, tomb>>
        /\ lost'[c] = TRUE
    BY <2>5, <1>3 DEF Flags, Counters
  <2>7. Flags'
    BY Zenon, <1>3, <2>5, FlagSet DEF Flags
  <2>8. Counters'
    BY <1>8, <1>3, <1>5, <2>5 DEF Counters, Increment
  <2>9. ASSUME NEW d \in Emails, d # c PROVE Unchanged(d)
    <3>1. row'[d] = row[d] /\ core'[d] = core[d]
      BY <1>8, <1>3, <1>4, <2>9 DEF CoreChanges, ManagerFault, Live, Free
    <3>2. /\ policy'[d] = policy[d] /\ lost'[d] = lost[d] /\ charged'[d] = charged[d]
          /\ metered'[d] = metered[d] /\ resets'[d] = resets[d] /\ tomb'[d] = tomb[d]
      BY <1>3, <2>5, <2>9 DEF Flags, Counters
    <3> QED BY <3>1, <3>2 DEF Unchanged
  <2>10. ClientInv(c)'
    <3>1. BooksBalance(c)'
      BY <1>8, <1>2, <1>4, <1>5, <2>1, <2>2, <2>4, <2>6
         DEF InHand, ResetInHand, DeleteInHand, RowMatches, CoreMatches, ResetPcs, DeletePcs,
             Doing, Absent, BooksBalance, BaselineHolds, Owed, Increment
    <3>2. BaselineHolds(c)'
      BY <1>8, <1>2, <1>4, <1>5, <2>1, <2>2, <2>4, <2>6
         DEF InHand, ResetInHand, DeleteInHand, RowMatches, CoreMatches, ResetPcs, DeletePcs,
             Doing, Absent, BooksBalance, BaselineHolds
    <3>3. CoreMatches(c)' /\ RowMatches(c)'
      BY <1>8, <1>2, <1>4, <2>1, <2>2, <2>4, <2>6
         DEF InHand, ResetInHand, DeleteInHand, RowMatches, CoreMatches, ResetPcs, DeletePcs,
             Doing, Absent
    <3>4. ResetOnce(c)'
      BY <1>8, <1>2, <1>4, <1>5, <2>1, <2>2, <2>4, <2>6
         DEF InHand, ResetInHand, DeleteInHand, RowMatches, CoreMatches, ResetPcs, DeletePcs,
             Doing, Absent, ResetOnce
    <3>5. ForeignMarked(c)'
      BY <1>8, <1>2, <1>4, <1>5, <2>1, <2>2, <2>4, <2>6
         DEF InHand, ResetInHand, DeleteInHand, RowMatches, CoreMatches, ResetPcs, DeletePcs,
             Doing, Absent, ForeignMarked, TickPcs
    <3> QED BY <3>1, <3>2, <3>3, <3>4, <3>5 DEF ClientInv
  <2>11. HandOver(c)
    <3>1. c \in mgr'.todo => InHand(c)'
      BY <1>8, <1>2, <1>4, <2>1, <2>2, <2>4, <2>6
         DEF InHand, ResetInHand, DeleteInHand, RowMatches, CoreMatches, ResetPcs, DeletePcs,
             Doing, Absent
    <3>2. mgr'.c = c => ResetInHand(c)' /\ DeleteInHand(c)'
      BY <1>8, <1>2, <1>4, <1>5, <2>1, <2>2, <2>4, <2>6
         DEF InHand, ResetInHand, DeleteInHand, RowMatches, CoreMatches, ResetPcs, DeletePcs,
             Doing, Absent
    <3> QED BY <3>1, <3>2, <1>8, <1>1, <1>2, <1>4, <2>1, <2>2, <2>4, <2>6
           DEF HandOver, EditPcs, TickPcs, ResetPcs, DeletePcs, ThreadInv, HandInv
  <2>12. ManagedTypes'
    BY <1>3, <2>1, <2>3, <2>4, <2>7, <2>8 DEF ManagedTypes
  <2> QED BY <2>9, <2>10, <2>11, <2>12, OneClientStep
<1> QED BY <1>6, <1>7, <1>8, <1>2, <1>4, <1>5 DEF CoreChanges, ManagerFault, Live, Free

\* update() under its lock: a client of the manager is charged before it is written.
LEMMA EditUpsertInv ==
    ASSUME ManagedInv, NEW c \in Emails, EditUpsert(c)
    PROVE  ManagedInv'
<1>1. ManagedTypes /\ ThreadInv /\ \A d \in Emails : ClientInv(d)
  BY DEF ManagedInv
<1>2. /\ BooksBalance(c) /\ BaselineHolds(c) /\ CoreMatches(c) /\ RowMatches(c)
      /\ ResetOnce(c) /\ ForeignMarked(c)
      /\ c \in mgr.todo => InHand(c)
      /\ mgr.c = c => ResetInHand(c) /\ DeleteInHand(c)
      /\ mgr.pc \in ResetPcs \union DeletePcs => mgr.c \in mgr.todo
  BY <1>1 DEF ThreadInv, HandInv, ClientInv
<1>3. /\ row \in [Emails -> RowSet] /\ core \in [Emails -> CoreSet] /\ mgr \in Threads
      /\ row[c] \in RowSet /\ core[c] \in CoreSet /\ Flags /\ Counters
  BY <1>1 DEF ManagedTypes
<1>4. /\ mgr.pc = "edit"
      /\ c \in mgr.todo
      /\ policy[c]
      /\ row[c].op = "upsert"
  BY <1>1, <1>2, <1>3 DEF EditUpsert, Written, At, ChargeBytes, Free, InHand
<1>5. /\ row[c].last \in Nat /\ core[c].count \in Nat /\ charged[c] \in Nat /\ metered[c] \in Nat
      /\ tomb[c] \in Nat \union {-1} /\ mgr.final \in Nat /\ resets[c] \in Nat
      /\ core[c].who \in {"none", "own", "other"}
  BY <1>3 DEF RowSet, CoreSet, Threads, Counters
<1>6. CASE core[c].who = "none" /\ UNCHANGED <<row, charged>> /\ Written({c}) /\ At("editMark")
  <2>1. row' = row
    BY <1>6, <1>2, <1>3, <1>4 DEF EditUpsert, Written, At, ChargeBytes, Free, RowSet
  <2>2. core'[c].who = "own" /\ core'[c].count = core[c].count
    BY <1>6, <1>3, <1>4 DEF EditUpsert, Written, At, ChargeBytes, Free, CoreSet, Absent
  <2>3. core' \in [Emails -> CoreSet]
    <3>1. Absent \in CoreSet
      BY DEF Absent, CoreSet
    <3>2. [who |-> "own", on |-> Wanted(c), count |-> core[c].count] \in CoreSet
      <4>1. Wanted(c) \in BOOLEAN
        BY Zenon DEF Wanted
      <4> QED BY <4>1, <1>3 DEF CoreSet
    <3> QED BY <3>1, <3>2, <1>6, <1>3, <1>4 DEF EditUpsert, Written, At, ChargeBytes, Free, CoreSet
  <2>4. /\ mgr'.pc = "editMark" /\ mgr'.todo = mgr.todo /\ mgr'.c = mgr.c
        /\ mgr'.final = mgr.final /\ mgr'.want = mgr.want /\ mgr'.for = mgr.for
    BY <1>6, <1>3, <1>4 DEF EditUpsert, Written, At, ChargeBytes, Free, Threads
  <2>5. mgr' \in Threads
    BY <1>6, <1>3, <1>4, <1>5
       DEF EditUpsert, Written, At, ChargeBytes, Free, Threads, Pcs, ResetPcs, DeletePcs
  <2>6. UNCHANGED <<policy, lost, charged, metered, resets, tomb>>
    BY <1>6, <1>3, <1>4 DEF EditUpsert, Written, At, ChargeBytes, Free
  <2>7. ASSUME NEW d \in Emails, d # c PROVE Unchanged(d)
    <3>1. row'[d] = row[d] /\ core'[d] = core[d]
      BY <1>6, <1>3, <1>4, <2>7 DEF EditUpsert, Written, At, ChargeBytes, Free
    <3>2. /\ policy'[d] = policy[d] /\ lost'[d] = lost[d] /\ charged'[d] = charged[d]
          /\ metered'[d] = metered[d] /\ resets'[d] = resets[d] /\ tomb'[d] = tomb[d]
      BY <1>3, <2>6, <2>7 DEF Flags, Counters
    <3> QED BY <3>1, <3>2 DEF Unchanged
  <2>8. ClientInv(c)'
    <3>1. BooksBalance(c)'
      BY <1>6, <1>2, <1>4, <1>5, <2>1, <2>2, <2>4, <2>6
         DEF InHand, ResetInHand, DeleteInHand, RowMatches, CoreMatches, ResetPcs, DeletePcs,
             Doing, Absent, BooksBalance, BaselineHolds, Owed, Increment
    <3>2. BaselineHolds(c)'
      BY <1>6, <1>2, <1>4, <1>5, <2>1, <2>2, <2>4, <2>6
         DEF InHand, ResetInHand, DeleteInHand, RowMatches, CoreMatches, ResetPcs, DeletePcs,
             Doing, Absent, BooksBalance, BaselineHolds
    <3>3. CoreMatches(c)' /\ RowMatches(c)'
      BY <1>6, <1>2, <1>4, <2>1, <2>2, <2>4, <2>6
         DEF InHand, ResetInHand, DeleteInHand, RowMatches, CoreMatches, ResetPcs, DeletePcs,
             Doing, Absent
    <3>4. ResetOnce(c)'
      BY <1>6, <1>2, <1>4, <1>5, <2>1, <2>2, <2>4, <2>6
         DEF InHand, ResetInHand, DeleteInHand, RowMatches, CoreMatches, ResetPcs, DeletePcs,
             Doing, Absent, ResetOnce
    <3>5. ForeignMarked(c)'
      BY <1>6, <1>2, <1>4, <1>5, <2>1, <2>2, <2>4, <2>6
         DEF InHand, ResetInHand, DeleteInHand, RowMatches, CoreMatches, ResetPcs, DeletePcs,
             Doing, Absent, ForeignMarked, TickPcs
    <3> QED BY <3>1, <3>2, <3>3, <3>4, <3>5 DEF ClientInv
  <2>9. HandOver(c)
    <3>1. c \in mgr'.todo => InHand(c)'
      BY <1>6, <1>2, <1>4, <2>1, <2>2, <2>4, <2>6
         DEF InHand, ResetInHand, DeleteInHand, RowMatches, CoreMatches, ResetPcs, DeletePcs,
             Doing, Absent
    <3>2. mgr'.c = c => ResetInHand(c)' /\ DeleteInHand(c)'
      BY <1>6, <1>2, <1>4, <1>5, <2>1, <2>2, <2>4, <2>6
         DEF InHand, ResetInHand, DeleteInHand, RowMatches, CoreMatches, ResetPcs, DeletePcs,
             Doing, Absent
    <3> QED BY <3>1, <3>2, <1>6, <1>1, <1>2, <1>4, <2>1, <2>2, <2>4, <2>6
           DEF HandOver, EditPcs, TickPcs, ResetPcs, DeletePcs, ThreadInv, HandInv
  <2>10. ManagedTypes'
    BY <1>3, <2>1, <2>3, <2>5, <2>6 DEF ManagedTypes, Flags, Counters
  <2> QED BY <2>7, <2>8, <2>9, <2>10, OneClientStep
<1>7. CASE core[c].who = "own" /\ ChargeBytes(c, core[c].count) /\ Written({c}) /\ At("editMark")
  <2>1. row'[c].op = row[c].op /\ row'[c].st = row[c].st /\ row'[c].last = core[c].count
    BY <1>7, <1>2, <1>3, <1>4 DEF EditUpsert, Written, At, ChargeBytes, Free, RowSet
  <2>2. row' \in [Emails -> RowSet]
    BY <1>7, <1>2, <1>3, <1>4, <1>5 DEF EditUpsert, Written, At, ChargeBytes, Free, RowSet, Statuses
  <2>3. core'[c].who = "own" /\ core'[c].count = core[c].count
    BY <1>7, <1>3, <1>4 DEF EditUpsert, Written, At, ChargeBytes, Free, CoreSet, Absent
  <2>4. core' \in [Emails -> CoreSet]
    <3>1. Absent \in CoreSet
      BY DEF Absent, CoreSet
    <3>2. [who |-> "own", on |-> Wanted(c), count |-> core[c].count] \in CoreSet
      <4>1. Wanted(c) \in BOOLEAN
        BY Zenon DEF Wanted
      <4> QED BY <4>1, <1>3 DEF CoreSet
    <3> QED BY <3>1, <3>2, <1>7, <1>3, <1>4 DEF EditUpsert, Written, At, ChargeBytes, Free, CoreSet
  <2>5. /\ mgr'.pc = "editMark" /\ mgr'.todo = mgr.todo /\ mgr'.c = mgr.c
        /\ mgr'.final = mgr.final /\ mgr'.want = mgr.want /\ mgr'.for = mgr.for
    BY <1>7, <1>3, <1>4 DEF EditUpsert, Written, At, ChargeBytes, Free, Threads
  <2>6. mgr' \in Threads
    BY <1>7, <1>3, <1>4, <1>5
       DEF EditUpsert, Written, At, ChargeBytes, Free, Threads, Pcs, ResetPcs, DeletePcs
  <2>7. /\ UNCHANGED <<policy, lost, metered, resets, tomb>>
        /\ charged' = [charged EXCEPT ![c] = charged[c] + Increment(c, core[c].count)]
    BY <1>7, <1>3, <1>4 DEF EditUpsert, Written, At, ChargeBytes, Free
  <2>8. /\ UNCHANGED <<policy, lost, metered, resets, tomb>>
        /\ charged'[c] = charged[c] + Increment(c, core[c].count)
    BY <2>7, <1>3 DEF Flags, Counters
  <2>9. Flags'
    BY Zenon, <1>3, <2>7 DEF Flags
  <2>10. Counters'
    BY <1>7, <1>3, <1>5, <2>7 DEF Counters, Increment
  <2>11. ASSUME NEW d \in Emails, d # c PROVE Unchanged(d)
    <3>1. row'[d] = row[d] /\ core'[d] = core[d]
      BY <1>7, <1>3, <1>4, <2>11 DEF EditUpsert, Written, At, ChargeBytes, Free
    <3>2. /\ policy'[d] = policy[d] /\ lost'[d] = lost[d] /\ charged'[d] = charged[d]
          /\ metered'[d] = metered[d] /\ resets'[d] = resets[d] /\ tomb'[d] = tomb[d]
      BY <1>3, <2>7, <2>11 DEF Flags, Counters
    <3> QED BY <3>1, <3>2 DEF Unchanged
  <2>12. ClientInv(c)'
    <3>1. BooksBalance(c)'
      BY <1>7, <1>2, <1>4, <1>5, <2>1, <2>3, <2>5, <2>8
         DEF InHand, ResetInHand, DeleteInHand, RowMatches, CoreMatches, ResetPcs, DeletePcs,
             Doing, Absent, BooksBalance, BaselineHolds, Owed, Increment
    <3>2. BaselineHolds(c)'
      BY <1>7, <1>2, <1>4, <1>5, <2>1, <2>3, <2>5, <2>8
         DEF InHand, ResetInHand, DeleteInHand, RowMatches, CoreMatches, ResetPcs, DeletePcs,
             Doing, Absent, BooksBalance, BaselineHolds
    <3>3. CoreMatches(c)' /\ RowMatches(c)'
      BY <1>7, <1>2, <1>4, <2>1, <2>3, <2>5, <2>8
         DEF InHand, ResetInHand, DeleteInHand, RowMatches, CoreMatches, ResetPcs, DeletePcs,
             Doing, Absent
    <3>4. ResetOnce(c)'
      BY <1>7, <1>2, <1>4, <1>5, <2>1, <2>3, <2>5, <2>8
         DEF InHand, ResetInHand, DeleteInHand, RowMatches, CoreMatches, ResetPcs, DeletePcs,
             Doing, Absent, ResetOnce
    <3>5. ForeignMarked(c)'
      BY <1>7, <1>2, <1>4, <1>5, <2>1, <2>3, <2>5, <2>8
         DEF InHand, ResetInHand, DeleteInHand, RowMatches, CoreMatches, ResetPcs, DeletePcs,
             Doing, Absent, ForeignMarked, TickPcs
    <3> QED BY <3>1, <3>2, <3>3, <3>4, <3>5 DEF ClientInv
  <2>13. HandOver(c)
    <3>1. c \in mgr'.todo => InHand(c)'
      BY <1>7, <1>2, <1>4, <2>1, <2>3, <2>5, <2>8
         DEF InHand, ResetInHand, DeleteInHand, RowMatches, CoreMatches, ResetPcs, DeletePcs,
             Doing, Absent
    <3>2. mgr'.c = c => ResetInHand(c)' /\ DeleteInHand(c)'
      BY <1>7, <1>2, <1>4, <1>5, <2>1, <2>3, <2>5, <2>8
         DEF InHand, ResetInHand, DeleteInHand, RowMatches, CoreMatches, ResetPcs, DeletePcs,
             Doing, Absent
    <3> QED BY <3>1, <3>2, <1>7, <1>1, <1>2, <1>4, <2>1, <2>3, <2>5, <2>8
           DEF HandOver, EditPcs, TickPcs, ResetPcs, DeletePcs, ThreadInv, HandInv
  <2>14. ManagedTypes'
    BY <1>3, <2>2, <2>4, <2>6, <2>9, <2>10 DEF ManagedTypes
  <2> QED BY <2>11, <2>12, <2>13, <2>14, OneClientStep
<1>8. CASE mgr' = [Free EXCEPT !.pc = "tick"] /\ UNCHANGED <<row, charged, core>>
  <2>1. row' = row
    BY <1>8, <1>2, <1>3, <1>4 DEF EditUpsert, Written, At, ChargeBytes, Free, RowSet
  <2>2. core' = core
    BY <1>8, <1>3, <1>4 DEF EditUpsert, Written, At, ChargeBytes, Free, CoreSet, Absent
  <2>3. /\ mgr'.pc = "tick" /\ mgr'.todo = {} /\ mgr'.c = "none"
        /\ mgr'.final = 0 /\ mgr'.want = "none" /\ mgr'.for = "none"
    BY <1>8, <1>3, <1>4 DEF EditUpsert, Written, At, ChargeBytes, Free, Threads
  <2>4. mgr' \in Threads
    BY <1>8, <1>3, <1>4, <1>5
       DEF EditUpsert, Written, At, ChargeBytes, Free, Threads, Pcs, ResetPcs, DeletePcs
  <2>5. UNCHANGED <<policy, lost, charged, metered, resets, tomb>>
    BY <1>8, <1>3, <1>4 DEF EditUpsert, Written, At, ChargeBytes, Free
  <2>6. ASSUME NEW d \in Emails, d # c PROVE Unchanged(d)
    <3>1. row'[d] = row[d] /\ core'[d] = core[d]
      BY <1>8, <1>3, <1>4, <2>6 DEF EditUpsert, Written, At, ChargeBytes, Free
    <3>2. /\ policy'[d] = policy[d] /\ lost'[d] = lost[d] /\ charged'[d] = charged[d]
          /\ metered'[d] = metered[d] /\ resets'[d] = resets[d] /\ tomb'[d] = tomb[d]
      BY <1>3, <2>5, <2>6 DEF Flags, Counters
    <3> QED BY <3>1, <3>2 DEF Unchanged
  <2>7. ClientInv(c)'
    <3>1. BooksBalance(c)'
      BY <1>8, <1>2, <1>4, <1>5, <2>1, <2>2, <2>3, <2>5
         DEF InHand, ResetInHand, DeleteInHand, RowMatches, CoreMatches, ResetPcs, DeletePcs,
             Doing, Absent, BooksBalance, BaselineHolds, Owed, Increment
    <3>2. BaselineHolds(c)'
      BY <1>8, <1>2, <1>4, <1>5, <2>1, <2>2, <2>3, <2>5
         DEF InHand, ResetInHand, DeleteInHand, RowMatches, CoreMatches, ResetPcs, DeletePcs,
             Doing, Absent, BooksBalance, BaselineHolds
    <3>3. CoreMatches(c)' /\ RowMatches(c)'
      BY <1>8, <1>2, <1>4, <2>1, <2>2, <2>3, <2>5
         DEF InHand, ResetInHand, DeleteInHand, RowMatches, CoreMatches, ResetPcs, DeletePcs,
             Doing, Absent
    <3>4. ResetOnce(c)'
      BY <1>8, <1>2, <1>4, <1>5, <2>1, <2>2, <2>3, <2>5
         DEF InHand, ResetInHand, DeleteInHand, RowMatches, CoreMatches, ResetPcs, DeletePcs,
             Doing, Absent, ResetOnce
    <3>5. ForeignMarked(c)'
      BY <1>8, <1>2, <1>4, <1>5, <2>1, <2>2, <2>3, <2>5
         DEF InHand, ResetInHand, DeleteInHand, RowMatches, CoreMatches, ResetPcs, DeletePcs,
             Doing, Absent, ForeignMarked, TickPcs
    <3> QED BY <3>1, <3>2, <3>3, <3>4, <3>5 DEF ClientInv
  <2>8. HandOver(c)
    <3>1. c \in mgr'.todo => InHand(c)'
      BY <1>8, <1>2, <1>4, <2>1, <2>2, <2>3, <2>5
         DEF InHand, ResetInHand, DeleteInHand, RowMatches, CoreMatches, ResetPcs, DeletePcs,
             Doing, Absent
    <3>2. mgr'.c = c => ResetInHand(c)' /\ DeleteInHand(c)'
      BY <1>8, <1>2, <1>4, <1>5, <2>1, <2>2, <2>3, <2>5
         DEF InHand, ResetInHand, DeleteInHand, RowMatches, CoreMatches, ResetPcs, DeletePcs,
             Doing, Absent
    <3> QED BY <3>1, <3>2, <1>8, <1>1, <1>2, <1>4, <2>1, <2>2, <2>3, <2>5
           DEF HandOver, EditPcs, TickPcs, ResetPcs, DeletePcs, ThreadInv, HandInv
  <2>9. ManagedTypes'
    BY <1>3, <2>1, <2>2, <2>4, <2>5 DEF ManagedTypes, Flags, Counters
  <2> QED BY <2>6, <2>7, <2>8, <2>9, OneClientStep
<1> QED BY <1>6, <1>7, <1>8, <1>2, <1>4, <1>5 DEF EditUpsert, CoreMatches, Absent

\* blockers() only answers.
LEMMA BlockersInv ==
    ASSUME ManagedInv, NEW c \in Emails, Blockers(c)
    PROVE  ManagedInv'
BY DEF Blockers, ManagedInv, ManagedTypes, Flags, Counters, ThreadInv, HandInv, InHand, ResetInHand,
       DeleteInHand, ClientInv, ForeignMarked, BooksBalance, BaselineHolds, CoreMatches,
          RowMatches, ResetOnce, ForeignMarked, TickPcs, DeletePcs,
       Owed, Doing, Increment

\* A tick charges what each counter has moved, and marks what it cannot carry out.
LEMMA TickReadInv ==
    ASSUME ManagedInv, NEW due \in SUBSET Emails, TickRead(due)
    PROVE  ManagedInv'
<1>1. ManagedTypes /\ ThreadInv /\ \A d \in Emails : ClientInv(d)
  BY DEF ManagedInv
<1>2. mgr.pc \in {"idle", "tick"} /\ mgr.todo = {} /\ mgr \in Threads
  BY <1>1 DEF TickRead, ThreadInv, HandInv, ManagedTypes
<1>3. /\ UNCHANGED <<policy, core, tomb, metered, lost>>
      /\ mgr'.pc = "ops" /\ mgr'.c = mgr.c /\ mgr'.final = mgr.final
      /\ mgr'.want = mgr.want /\ mgr'.for = mgr.for /\ mgr' \in Threads
  BY <1>2 DEF TickRead, Threads, Pcs
<1> DEFINE Scheduled(c) == c \in due /\ row[c].op = "none" /\ row[c].st = "applied"
           Op(c) == IF Scheduled(c) THEN "reset" ELSE row[c].op
           St(c) == ReadStatus(c, Op(c), Scheduled(c))
           Read(c) == Live(c) /\ policy[c] /\ core[c].who = "own"
<1>4. ASSUME NEW d \in Emails
      PROVE  /\ row[d] \in RowSet /\ core[d] \in CoreSet /\ ClientInv(d)
             /\ row[d].last \in Nat /\ core[d].count \in Nat /\ charged[d] \in Nat
             /\ metered[d] \in Nat /\ tomb[d] \in Nat \union {-1} /\ resets[d] \in Nat
  BY <1>1 DEF ManagedTypes, RowSet, CoreSet, Counters
<1>5. ASSUME NEW d \in Emails, ~Live(d)
      PROVE  row'[d] = row[d] /\ charged'[d] = charged[d] /\ resets'[d] = resets[d]
  BY <1>5 DEF TickRead, Live
<1>6. ASSUME NEW d \in Emails, Live(d)
      PROVE  /\ row'[d] = [row[d] EXCEPT !.op = Op(d), !.st = St(d),
                                         !.last = IF Read(d) THEN core[d].count ELSE @]
             /\ charged'[d] = IF Read(d) THEN charged[d] + Increment(d, core[d].count)
                              ELSE charged[d]
             /\ resets'[d] = IF Scheduled(d) THEN 0 ELSE resets[d]
  BY <1>6 DEF TickRead
<1>7. ASSUME NEW d \in Emails, Live(d)
      PROVE  /\ row'[d].op = Op(d) /\ row'[d].st = St(d)
             /\ row'[d].last = IF Read(d) THEN core[d].count ELSE row[d].last
             /\ row'[d] \in RowSet
  <2>1. Op(d) \in {"none", "upsert", "delete", "reset"} /\ St(d) \in Statuses
    BY <1>4 DEF RowSet, ReadStatus, Statuses
  <2>2. (IF Read(d) THEN core[d].count ELSE row[d].last) \in Nat
    BY <1>4
  <2> HIDE DEF Op, St, Read
  <2> QED BY <1>4, <1>6, <1>7, <2>1, <2>2 DEF RowSet
<1>8. mgr'.todo = {d \in Emails : row'[d].op # "none" /\ ~row'[d].later
                                    /\ row'[d].st \notin {"uncertain", "conflict", "deleted"}}
  BY <1>2 DEF TickRead, Threads
<1>9. ManagedTypes'
  <2>1. row' \in [Emails -> RowSet]
    <3>1. row' = [d \in Emails |-> row'[d]]
      BY DEF TickRead
    <3>2. ASSUME NEW d \in Emails PROVE row'[d] \in RowSet
      BY <1>4, <1>5, <1>7
    <3> QED BY <3>1, <3>2
  <2>2. charged' \in [Emails -> Nat]
    <3>1. charged' = [d \in Emails |-> charged'[d]]
      BY DEF TickRead
    <3> HIDE DEF Scheduled, Op, St, Read
    <3>2. ASSUME NEW d \in Emails PROVE charged'[d] \in Nat
      <4>1. Increment(d, core[d].count) \in Nat
        BY <1>4 DEF Increment
      <4>2. CASE ~Live(d)
        BY <4>2, <1>4, <1>5
      <4>3. CASE Live(d) /\ Read(d)
        <5>1. charged'[d] = charged[d] + Increment(d, core[d].count)
          BY <4>3, <1>6
        <5> QED BY <5>1, <4>1, <1>4
      <4>4. CASE Live(d) /\ ~Read(d)
        <5>1. charged'[d] = charged[d]
          BY <4>4, <1>6
        <5> QED BY <5>1, <1>4
      <4> QED BY <4>2, <4>3, <4>4
    <3> QED BY <3>1, <3>2
  <2>3. resets' \in [Emails -> Nat]
    <3>1. resets' = [d \in Emails |-> resets'[d]]
      BY DEF TickRead
    <3> HIDE DEF Scheduled, Op, St, Read
    <3>2. ASSUME NEW d \in Emails PROVE resets'[d] \in Nat
      <4>1. resets'[d] \in {0, resets[d]}
        <5>1. CASE Live(d)
          BY <1>6, <5>1
        <5>2. CASE ~Live(d)
          BY <1>5, <5>2
        <5> QED BY <5>1, <5>2
      <4> QED BY <4>1, <1>4
    <3> QED BY <3>1, <3>2
  <2> QED BY <1>1, <1>3, <2>1, <2>2, <2>3 DEF ManagedTypes, Flags, Counters
<1> HIDE DEF Scheduled, Op, St, Read
<1>10. ASSUME NEW d \in Emails PROVE ClientInv(d)'
  <2>1. CASE ~Live(d)
    <3> QED BY <1>1, <1>2, <1>3, <1>4, <1>5, <2>1 DEF ClientInv, ForeignMarked, Live, BooksBalance,
       BaselineHolds, CoreMatches, RowMatches,
               ResetOnce, Owed, Doing, Increment, ResetPcs
  <2>2. CASE Live(d)
    <3>1. /\ BooksBalance(d) /\ BaselineHolds(d) /\ CoreMatches(d)
          /\ RowMatches(d) /\ ResetOnce(d) /\ ForeignMarked(d)
          /\ row[d].st \notin {"none", "deleted", "reset_inflight"}
      BY <1>2, <1>4, <2>2 DEF ClientInv, Live, RowMatches, ResetPcs
    <3>2. /\ row'[d].op \in {row[d].op, "reset"}
          /\ row'[d].st \notin {"none", "deleted", "reset_inflight"}
          /\ row'[d].op = "none" => row[d].op = "none"
          /\ row'[d].op # row[d].op => resets'[d] = 0
          /\ row'[d].op = row[d].op => resets'[d] = resets[d]
          /\ row'[d].st \notin {"uncertain", "conflict"} /\ row'[d].op = row[d].op
             /\ row[d].op = "reset" => row[d].st \notin {"uncertain", "conflict"}
          /\ resets'[d] \in {0, resets[d]}
          /\ core[d].who = "other" => row'[d].st = "conflict"
      BY <1>6, <1>7, <2>2, <3>1, <1>4 DEF Scheduled, Op, St, ReadStatus, RowMatches, Absent
    <3>3. CASE Read(d)
      <4>1. /\ row'[d].last = core[d].count
            /\ charged'[d] = charged[d] + Increment(d, core[d].count)
            /\ core[d].who = "own"
        BY <1>6, <1>7, <2>2, <3>3 DEF Read
      <4>2. BooksBalance(d)' /\ BaselineHolds(d)'
        BY <1>2, <1>3, <1>4, <3>1, <3>2, <4>1
           DEF BooksBalance, BaselineHolds, Owed, Doing, Increment
      <4> QED BY <1>2, <1>3, <1>4, <3>1, <3>2, <4>1, <4>2 DEF ClientInv, CoreMatches, RowMatches,
         ResetOnce, ForeignMarked, TickPcs, ResetPcs, DeletePcs
    <3>4. CASE ~Read(d)
      <4>1. row'[d].last = row[d].last /\ charged'[d] = charged[d]
        BY <1>6, <1>7, <2>2, <3>4
      <4>2. core[d].who # "own"
        BY <2>2, <3>1, <3>4 DEF Read, RowMatches, Live
      <4>3. BooksBalance(d)' /\ BaselineHolds(d)'
        BY <1>2, <1>3, <1>4, <3>1, <3>2, <4>1, <4>2
           DEF BooksBalance, BaselineHolds, Owed, Doing, Increment
      <4> QED BY <1>2, <1>3, <1>4, <3>1, <3>2, <4>1, <4>2, <4>3 DEF ClientInv, CoreMatches,
         RowMatches, ResetOnce, ForeignMarked, TickPcs, ResetPcs, DeletePcs
    <3> QED BY <3>3, <3>4
  <2> QED BY <2>1, <2>2
<1>11. ThreadInv'
  <2>1. ASSUME NEW d \in mgr'.todo PROVE InHand(d)'
    <3>1. /\ d \in Emails /\ row'[d].op # "none"
          /\ row'[d].st \notin {"uncertain", "conflict", "deleted"}
      BY <1>8
    <3>2. row'[d].st # "none"
      BY <1>10, <3>1 DEF ClientInv, RowMatches
    <3>3. core[d].who # "other"
      BY <1>4, <1>5, <1>7, <3>1, <3>2 DEF Live, St, ReadStatus
    <3> QED BY <1>3, <3>1, <3>2, <3>3 DEF InHand
  <2>2. mgr.want # "none" => row'[mgr.for].st # "none"
    <3>1. CASE mgr.want # "none"
      <4>1. mgr.for \in Emails /\ row[mgr.for].st # "none"
        BY <1>1, <3>1 DEF ThreadInv, HandInv
      <4> QED BY <4>1, <1>4, <1>5, <1>7 DEF Live, St, ReadStatus, RowSet
    <3> QED BY <3>1
  <2>3. mgr.want # "none" => mgr.for \in Emails
    BY <1>1 DEF ThreadInv, HandInv
  <2> QED BY <1>3, <2>1, <2>2, <2>3 DEF ThreadInv, HandInv, ResetInHand, DeleteInHand, ResetPcs,
     DeletePcs
<1> QED BY <1>9, <1>10, <1>11 DEF ManagedInv

\* Upserts write the clients in hand, or are put off.
LEMMA UpsertInv ==
    ASSUME ManagedInv, Upsert
    PROVE  ManagedInv'
<1>1. ManagedTypes /\ ThreadInv /\ \A d \in Emails : ClientInv(d)
  BY DEF ManagedInv
<1>2. /\ mgr.pc = "ops" /\ mgr \in Threads /\ mgr.todo \subseteq Emails
      /\ \A d \in mgr.todo : row[d].op = "upsert" /\ InHand(d)
      /\ mgr.want # "none" => mgr.for \in Emails /\ row[mgr.for].st # "none"
  BY <1>1 DEF Upsert, ManagedTypes, ThreadInv, HandInv, Threads
<1>3. UNCHANGED <<policy, tomb, charged, metered, lost, resets>>
  BY DEF Upsert
<1>4. ASSUME NEW d \in Emails
      PROVE  /\ row[d] \in RowSet /\ core[d] \in CoreSet /\ ClientInv(d)
             /\ row[d].last \in Nat /\ core[d].count \in Nat /\ charged[d] \in Nat
             /\ metered[d] \in Nat /\ tomb[d] \in Nat \union {-1}
             /\ core[d].who \in {"none", "own", "other"}
  BY <1>1 DEF ManagedTypes, RowSet, CoreSet, Counters
<1>5. CASE UNCHANGED row /\ At("mark")
            /\ core' = [d \in Emails |-> IF d \in mgr.todo
                  THEN [who |-> "own", on |-> Wanted(d), count |-> core[d].count] ELSE core[d]]
  <2>1. /\ mgr'.pc = "mark" /\ mgr'.c = mgr.c /\ mgr'.todo = mgr.todo
        /\ mgr'.want = mgr.want /\ mgr'.for = mgr.for /\ mgr' \in Threads
    BY <1>2, <1>5 DEF At, Threads, Pcs
  <2>2. core' \in [Emails -> CoreSet]
    <3>1. ASSUME NEW d \in Emails
          PROVE  [who |-> "own", on |-> Wanted(d), count |-> core[d].count] \in CoreSet
      <4>1. Wanted(d) \in BOOLEAN
        BY Zenon DEF Wanted
      <4> QED BY <4>1, <1>4 DEF CoreSet
    <3> QED BY <1>4, <1>5, <3>1
  <2>3. ASSUME NEW d \in Emails PROVE ClientInv(d)'
    <3>1. CASE d \notin mgr.todo
      <4>1. Unchanged(d)
        BY <1>3, <1>5, <3>1 DEF Unchanged
      <4> QED BY <1>1, <1>2, <2>1, <4>1, ClientUntouched DEF ResetPcs, DeletePcs, TickPcs
    <3>2. CASE d \in mgr.todo
      <4>1. core'[d].who = "own" /\ core'[d].count = core[d].count /\ row' = row
        BY <1>5, <3>2
      <4>2. /\ row[d].op = "upsert" /\ InHand(d) /\ BooksBalance(d) /\ BaselineHolds(d)
            /\ CoreMatches(d) /\ RowMatches(d) /\ ResetOnce(d) /\ ForeignMarked(d)
        BY <1>2, <1>4, <3>2 DEF ClientInv
      <4>3. /\ policy[d] /\ core[d].who \in {"own", "none"}
            /\ core[d].who = "none" => core[d].count = 0
        BY <1>2, <1>4, <4>2 DEF InHand, RowMatches, CoreMatches, Absent
      <4>7. ~lost[d] => ~(tomb[d] >= 0) /\ row[d].last <= core[d].count
        <5>1. ~lost[d] => ~(tomb[d] >= 0)
          BY <4>2 DEF BaselineHolds
        <5>2. ~lost[d] /\ core[d].who = "none" => row[d].last = 0 /\ core[d].count = 0
          BY <1>4, <4>2, <4>3, <5>1 DEF BaselineHolds
        <5>3. ~lost[d] /\ core[d].who = "own" => row[d].last <= core[d].count
          BY <1>2, <4>2 DEF BaselineHolds, Doing, InHand
        <5> QED BY <4>3, <5>1, <5>2, <5>3
      <4>5. BaselineHolds(d)'
        BY <1>3, <4>1, <4>2, <4>7 DEF BaselineHolds
      <4>6. Owed(d)' = Owed(d) \/ (lost[d] /\ tomb[d] >= 0)
        <5>1. Owed(d)' = Increment(d, core[d].count)
          BY <2>1, <4>1 DEF Owed, Doing, Increment
        <5>2. CASE core[d].who = "own"
          BY <1>2, <5>1, <5>2 DEF Owed, Doing
        <5>3. CASE core[d].who = "none" /\ ~(tomb[d] >= 0)
          BY <1>2, <1>4, <4>3, <5>1, <5>3 DEF Owed, Doing, Increment
        <5> QED BY <4>3, <4>7, <5>2, <5>3
      <4>4. BooksBalance(d)' /\ BaselineHolds(d)'
        BY <1>3, <1>4, <4>1, <4>2, <4>5, <4>6 DEF BooksBalance, InHand
      <4> QED BY <1>2, <1>3, <2>1, <4>1, <4>2, <4>3, <4>4 DEF ClientInv, CoreMatches, RowMatches,
         ResetOnce, ForeignMarked, TickPcs, ResetPcs, DeletePcs
    <3> QED BY <3>1, <3>2
  <2>4. ThreadInv'
    <3>1. ASSUME NEW d \in mgr.todo PROVE InHand(d)'
      BY <1>2, <1>5, <2>1, <3>1 DEF InHand
    <3> QED BY <1>2, <1>5, <2>1, <3>1 DEF ThreadInv, HandInv, ResetInHand, DeleteInHand, ResetPcs,
       DeletePcs
  <2> QED BY <1>1, <1>3, <1>5, <2>1, <2>2, <2>3, <2>4 DEF ManagedInv, ManagedTypes, Flags, Counters
<1>6. CASE /\ row' = [d \in Emails |-> IF d \in mgr.todo
                         THEN [row[d] EXCEPT !.st = "error", !.later = TRUE] ELSE row[d]]
           /\ mgr' = [mgr EXCEPT !.todo = {}] /\ UNCHANGED core
  <2>1. /\ mgr'.pc = "ops" /\ mgr'.c = mgr.c /\ mgr'.todo = {}
        /\ mgr'.want = mgr.want /\ mgr'.for = mgr.for /\ mgr' \in Threads
    BY <1>2, <1>6 DEF Threads
  <2>2. row' \in [Emails -> RowSet]
    BY <1>4, <1>6 DEF RowSet, Statuses
  <2>3. ASSUME NEW d \in Emails PROVE ClientInv(d)'
    <3>1. CASE d \notin mgr.todo
      <4>1. Unchanged(d)
        BY <1>3, <1>6, <3>1 DEF Unchanged
      <4> QED BY <1>1, <1>2, <2>1, <4>1, ClientUntouched DEF ResetPcs, DeletePcs, TickPcs
    <3>2. CASE d \in mgr.todo
      <4>1. row'[d].op = row[d].op /\ row'[d].last = row[d].last /\ row'[d].st = "error"
        BY <1>4, <1>6, <3>2 DEF RowSet
      <4>2. /\ row[d].op = "upsert" /\ InHand(d) /\ BooksBalance(d) /\ BaselineHolds(d)
            /\ CoreMatches(d) /\ RowMatches(d) /\ ResetOnce(d) /\ ForeignMarked(d)
        BY <1>2, <1>4, <3>2 DEF ClientInv
      <4>4. BooksBalance(d)' /\ BaselineHolds(d)'
        BY <1>2, <1>3, <1>4, <1>6, <2>1, <4>1, <4>2
           DEF BooksBalance, BaselineHolds, Owed, Doing, Increment, InHand
      <4> QED BY <1>2, <1>3, <1>6, <2>1, <4>1, <4>2, <4>4 DEF ClientInv, CoreMatches, RowMatches,
         ResetOnce, ForeignMarked, TickPcs, ResetPcs, DeletePcs, InHand
    <3> QED BY <3>1, <3>2
  <2>4. ASSUME NEW d \in Emails, row[d].st # "none" PROVE row'[d].st # "none"
    BY <1>4, <1>6, <2>4 DEF RowSet
  <2>5. ThreadInv'
    BY <1>2, <2>1, <2>4 DEF ThreadInv, HandInv, ResetInHand, DeleteInHand, ResetPcs, DeletePcs
  <2> QED BY <1>1, <1>3, <1>6, <2>1, <2>2, <2>3, <2>5 DEF ManagedInv, ManagedTypes, Flags, Counters
<1> QED
  <2>1. mgr.todo = {c \in mgr.todo : row[c].op = "upsert"}
    BY <1>2
  <2> QED BY <1>5, <1>6, <2>1 DEF Upsert, Written

\* The rows of what was written are settled.
LEMMA UpsertMarkInv ==
    ASSUME ManagedInv, UpsertMark
    PROVE  ManagedInv'
<1>1. ManagedTypes /\ ThreadInv /\ \A d \in Emails : ClientInv(d)
  BY DEF ManagedInv
<1>2. /\ mgr.pc \in {"mark", "editMark"} /\ mgr \in Threads /\ mgr.todo \subseteq Emails
      /\ \A d \in mgr.todo : row[d].op = "upsert" /\ InHand(d)
      /\ mgr.want # "none" => mgr.for \in Emails /\ row[mgr.for].st # "none"
  BY <1>1 DEF UpsertMark, ManagedTypes, ThreadInv, HandInv, Threads, InHand
<1>3. UNCHANGED <<policy, tomb, charged, metered, lost, resets, core>>
  BY DEF UpsertMark
<1>4. ASSUME NEW d \in Emails
      PROVE  /\ row[d] \in RowSet /\ core[d] \in CoreSet /\ ClientInv(d)
             /\ row[d].last \in Nat /\ core[d].count \in Nat /\ charged[d] \in Nat
             /\ metered[d] \in Nat /\ tomb[d] \in Nat \union {-1}
  BY <1>1 DEF ManagedTypes, RowSet, CoreSet, Counters
<1>5. /\ mgr'.pc \in {"ops", "idle"} /\ mgr'.todo = {} /\ mgr' \in Threads
      /\ mgr'.pc = "ops" => mgr.pc = "mark"
      /\ mgr'.want # "none" => mgr'.want = mgr.want /\ mgr'.for = mgr.for
  BY <1>2 DEF UpsertMark, Threads, Free, Pcs
<1>6. ASSUME NEW d \in mgr.todo
      PROVE  /\ row'[d].op = "none" /\ row'[d].st = "applied" /\ row'[d].last = row[d].last
             /\ row'[d] \in RowSet
  <2>1. row'[d] = [row[d] EXCEPT !.op = "none", !.st = "applied", !.later = FALSE,
                                 !.expected = core[d].on]
    BY <1>2, <1>6 DEF UpsertMark
  <2>2. core[d].on \in BOOLEAN /\ row[d] \in RowSet
    BY <1>2, <1>4, <1>6 DEF CoreSet
  <2> QED BY <2>1, <2>2 DEF RowSet, Statuses
<1>7. ASSUME NEW d \in Emails, d \notin mgr.todo PROVE row'[d] = row[d]
  BY <1>7 DEF UpsertMark
<1>8. row' \in [Emails -> RowSet]
  <2>1. row' = [d \in Emails |-> row'[d]]
    BY DEF UpsertMark
  <2> QED BY <2>1, <1>4, <1>6, <1>7
<1>9. ASSUME NEW d \in Emails PROVE ClientInv(d)'
  <2>1. CASE d \notin mgr.todo
    <3>1. Unchanged(d)
      BY <1>3, <1>7, <2>1 DEF Unchanged
    <3> QED BY <1>1, <1>2, <1>5, <3>1, ClientUntouched DEF ResetPcs, DeletePcs, TickPcs
  <2>2. CASE d \in mgr.todo
    <3>1. /\ row[d].op = "upsert" /\ InHand(d) /\ BooksBalance(d) /\ BaselineHolds(d)
          /\ CoreMatches(d) /\ RowMatches(d) /\ ResetOnce(d) /\ ForeignMarked(d)
      BY <1>2, <1>4, <2>2 DEF ClientInv
    <3>2. row'[d].op = "none" /\ row'[d].st = "applied" /\ row'[d].last = row[d].last
      BY <1>6, <2>2
    <3>4. BaselineHolds(d)'
      <4>1. ~lost[d] => ~(tomb[d] >= 0)
        BY <3>1 DEF BaselineHolds
      <4>2. ~lost[d] /\ core[d].who = "own" => row[d].last <= core[d].count
        BY <1>2, <3>1 DEF BaselineHolds, Doing, InHand
      <4>3. ~lost[d] /\ core[d].who = "none" => row[d].last = 0
        BY <1>4, <3>1, <4>1 DEF BaselineHolds
      <4> QED BY <1>3, <3>2, <4>1, <4>2, <4>3 DEF BaselineHolds
    <3>5. Owed(d)' = Owed(d)
      BY <1>2, <1>3, <1>4, <1>5, <3>1, <3>2 DEF Owed, Doing, Increment
    <3>3. BooksBalance(d)' /\ BaselineHolds(d)'
      BY <1>3, <1>4, <3>1, <3>2, <3>4, <3>5 DEF BooksBalance, InHand
    <3> QED BY <1>2, <1>3, <1>5, <3>1, <3>2, <3>3 DEF ClientInv, CoreMatches, RowMatches,
       ResetOnce, ForeignMarked, TickPcs, ResetPcs, DeletePcs, InHand
  <2> QED BY <2>1, <2>2
<1>10. ASSUME NEW d \in Emails, row[d].st # "none" PROVE row'[d].st # "none"
  BY <1>6, <1>7, <1>10
<1>11. ThreadInv'
  BY <1>2, <1>5, <1>10 DEF ThreadInv, HandInv, ResetInHand, DeleteInHand, ResetPcs, DeletePcs
<1> QED BY <1>1, <1>3, <1>5, <1>8, <1>9, <1>11 DEF ManagedInv, ManagedTypes, Flags, Counters

\* The last pass switches clients and changes no counter.
LEMMA FinalPassInv ==
    ASSUME ManagedInv, FinalPass
    PROVE  ManagedInv'
<1>1. ManagedTypes /\ ThreadInv /\ \A d \in Emails : ClientInv(d)
  BY DEF ManagedInv
<1>2. /\ mgr.pc = "ops" /\ mgr.todo = {} /\ mgr \in Threads
      /\ mgr.want # "none" => mgr.for \in Emails /\ row[mgr.for].st # "none"
  BY <1>1 DEF FinalPass, ManagedTypes, ThreadInv, HandInv
<1>3. UNCHANGED <<policy, tomb, charged, metered, lost, resets>>
  BY DEF FinalPass
<1>4. ASSUME NEW d \in Emails
      PROVE  row[d] \in RowSet /\ core[d] \in CoreSet /\ ClientInv(d)
  BY <1>1 DEF ManagedTypes
<1>5. /\ mgr'.pc \in {"idle", "done"} /\ mgr'.todo = {} /\ mgr' \in Threads
      /\ mgr'.want # "none" => mgr'.want = mgr.want /\ mgr'.for = mgr.for
  BY <1>2 DEF FinalPass, Threads, Free, Pcs
<1> DEFINE Idle(c) == Live(c) /\ core[c] # Absent /\ row[c].op = "none"
                        /\ row[c].st \notin {"conflict", "uncertain"}
           Ext(c) == row[c].ext \/ (~core[c].on /\ row[c].expected /\ ~blocked[c])
           On(c) == ~blocked[c] /\ ~Ext(c)
<1>6. ASSUME NEW d \in Emails, ~Idle(d) PROVE row'[d] = row[d] /\ core'[d] = core[d]
  BY <1>6 DEF FinalPass
<1>7. ASSUME NEW d \in Emails, Idle(d)
      PROVE  /\ row'[d] = [row[d] EXCEPT !.st = IF @ = "missing" THEN "applied" ELSE @,
                                         !.ext = Ext(d), !.expected = On(d)]
             /\ core'[d] = [core[d] EXCEPT !.on = On(d)]
  BY <1>7 DEF FinalPass
<1>8. ASSUME NEW d \in Emails PROVE Ext(d) \in BOOLEAN /\ On(d) \in BOOLEAN
  BY Zenon
<1> HIDE DEF Ext, On
<1>9. ASSUME NEW d \in Emails, Idle(d)
      PROVE  /\ row'[d].op = "none" /\ row'[d].last = row[d].last
             /\ row'[d].st = IF row[d].st = "missing" THEN "applied" ELSE row[d].st
             /\ core'[d].who = core[d].who /\ core'[d].count = core[d].count
             /\ row'[d] \in RowSet /\ core'[d] \in CoreSet
  <2>1. core'[d].who = core[d].who /\ core'[d].count = core[d].count
    BY <1>4, <1>7, <1>9 DEF CoreSet
  <2>5. row[d].op = "none"
    BY <1>9
  <2>6. row'[d].op = "none" /\ row'[d].last = row[d].last
    BY <1>4, <1>7, <1>9, <2>5 DEF RowSet
  <2>4. row'[d].st = IF row[d].st = "missing" THEN "applied" ELSE row[d].st
    BY <1>4, <1>7, <1>9 DEF RowSet
  <2>2. core'[d] \in CoreSet
    BY <1>4, <1>7, <1>8, <1>9 DEF CoreSet
  <2>3. row'[d] \in RowSet
    <3>1. (IF row[d].st = "missing" THEN "applied" ELSE row[d].st) \in Statuses
      BY <1>4 DEF RowSet, Statuses
    <3> DEFINE st == IF row[d].st = "missing" THEN "applied" ELSE row[d].st
    <3>2. row'[d] = [row[d] EXCEPT !.st = st, !.ext = Ext(d), !.expected = On(d)]
      BY <1>7, <1>9
    <3>3. st \in Statuses
      BY <3>1
    <3> HIDE DEF st
    <3> QED BY <3>2, <3>3, <1>4, <1>8 DEF RowSet
  <2> QED BY <2>1, <2>2, <2>3, <2>4, <2>6
<1> HIDE DEF Idle
<1>10. row' \in [Emails -> RowSet] /\ core' \in [Emails -> CoreSet]
  <2>1. row' = [d \in Emails |-> row'[d]] /\ core' = [d \in Emails |-> core'[d]]
    BY DEF FinalPass
  <2> QED BY <2>1, <1>4, <1>6, <1>9
<1>11. ASSUME NEW d \in Emails PROVE ClientInv(d)'
  <2>1. CASE ~Idle(d)
    <3>1. Unchanged(d)
      BY <1>3, <1>6, <2>1 DEF Unchanged
    <3> QED BY <1>1, <1>2, <1>5, <3>1, ClientUntouched DEF ResetPcs, DeletePcs, TickPcs
  <2>2. CASE Idle(d)
    <3>1. /\ row[d].op = "none" /\ row[d].st \notin {"none", "deleted"} /\ core[d] # Absent
          /\ BooksBalance(d) /\ BaselineHolds(d) /\ CoreMatches(d)
          /\ RowMatches(d) /\ ResetOnce(d) /\ ForeignMarked(d)
      BY <1>4, <2>2 DEF Idle, Live, ClientInv
    <3>2. /\ row'[d].op = "none" /\ row'[d].last = row[d].last
          /\ row'[d].st \notin {"none", "deleted", "reset_inflight"}
          /\ core'[d].who = core[d].who /\ core'[d].count = core[d].count /\ core[d].who # "none"
      BY <1>2, <1>9, <2>2, <3>1 DEF RowMatches, CoreMatches, ResetPcs
    <3> QED BY <1>2, <1>3, <1>5, <3>1, <3>2 DEF ClientInv, CoreMatches, RowMatches, ResetOnce,
       ForeignMarked, TickPcs, DeletePcs,
              BooksBalance, BaselineHolds, Owed, Doing, Increment, ResetPcs
  <2> QED BY <2>1, <2>2
<1>12. ASSUME NEW d \in Emails, row[d].st # "none" PROVE row'[d].st # "none"
  BY <1>6, <1>9, <1>12
<1>13. ThreadInv'
  BY <1>2, <1>5, <1>12 DEF ThreadInv, HandInv, ResetInHand, DeleteInHand, ResetPcs, DeletePcs
<1> QED BY <1>1, <1>3, <1>5, <1>10, <1>11, <1>13 DEF ManagedInv, ManagedTypes, Flags, Counters

\* A restart leaves a reset that was under way to the owner.
LEMMA RestartInv ==
    ASSUME ManagedInv, Restart
    PROVE  ManagedInv'
<1>1. ManagedTypes /\ ThreadInv /\ \A d \in Emails : ClientInv(d)
  BY DEF ManagedInv
<1>2. UNCHANGED <<policy, core, tomb, charged, metered, resets>>
  BY DEF Restart
<1>3. mgr' = Free /\ mgr'.pc = "idle" /\ mgr'.todo = {} /\ mgr'.want = "none" /\ mgr' \in Threads
  BY DEF Restart, Free, Threads, Pcs
<1>4. ASSUME NEW d \in Emails
      PROVE  /\ row[d] \in RowSet /\ core[d] \in CoreSet /\ ClientInv(d) /\ lost[d] \in BOOLEAN
             /\ row[d].last \in Nat /\ core[d].count \in Nat /\ charged[d] \in Nat
             /\ metered[d] \in Nat /\ tomb[d] \in Nat \union {-1} /\ mgr.final \in Nat
  BY <1>1 DEF ManagedTypes, RowSet, CoreSet, Counters, Flags, Threads
<1>5. ASSUME NEW d \in Emails, row[d].st # "reset_inflight"
      PROVE  row'[d] = row[d] /\ lost'[d] = lost[d]
  <2>1. row'[d] = row[d]
    BY <1>5 DEF Restart
  <2>2. lost'[d] = (lost[d] \/ row[d].st = "reset_inflight")
    BY DEF Restart
  <2> QED BY <1>4, <1>5, <2>1, <2>2
<1>6. ASSUME NEW d \in Emails, row[d].st = "reset_inflight"
      PROVE  /\ row'[d].op = row[d].op /\ row'[d].last = row[d].last /\ row'[d].st = "uncertain"
             /\ row'[d] \in RowSet /\ lost'[d] = TRUE
  <2>1. row'[d] = [row[d] EXCEPT !.st = "uncertain"]
    BY <1>6 DEF Restart
  <2>2. lost'[d] = TRUE
    BY <1>6 DEF Restart
  <2> QED BY <1>4, <2>1, <2>2 DEF RowSet, Statuses
<1>7. row' \in [Emails -> RowSet] /\ lost' \in [Emails -> BOOLEAN]
  <2>1. row' = [d \in Emails |-> row'[d]] /\ lost' = [d \in Emails |-> lost'[d]]
    BY DEF Restart
  <2>2. ASSUME NEW d \in Emails PROVE lost'[d] \in BOOLEAN
    BY <1>4, <1>5, <1>6
  <2> QED BY <2>1, <2>2, <1>4, <1>5, <1>6
<1>8. ASSUME NEW d \in Emails PROVE ClientInv(d)'
  <2>1. CASE row[d].st # "reset_inflight"
    <3>1. Unchanged(d)
      BY <1>2, <1>5, <2>1 DEF Unchanged
    <3>2. ~(mgr.pc \in ResetPcs /\ mgr.c = d)
      BY <1>4, <2>1 DEF ClientInv, RowMatches
    <3> QED BY <1>1, <1>3, <3>1, <3>2, ClientUntouched DEF ResetPcs, DeletePcs, TickPcs
  <2>2. CASE row[d].st = "reset_inflight"
    <3>1. /\ mgr.pc \in ResetPcs /\ mgr.c = d /\ core[d].who = "own" /\ policy[d]
          /\ BooksBalance(d) /\ BaselineHolds(d) /\ CoreMatches(d)
          /\ RowMatches(d) /\ ResetOnce(d) /\ ForeignMarked(d)
      BY <1>1, <1>4, <2>2 DEF ClientInv, RowMatches, ThreadInv, ResetInHand
    <3>2. /\ row'[d].op = row[d].op /\ row'[d].last = row[d].last /\ row'[d].st = "uncertain"
          /\ lost'[d]
      BY <1>6, <2>2
    <3>3. charged[d] + Increment(d, core[d].count) <= metered[d] \/ tomb[d] >= 0
      <4>1. Increment(d, core[d].count) <= core[d].count /\ Increment(d, core[d].count) \in Nat
        BY <1>4 DEF Increment
      <4>2. Increment(d, mgr.final) \in Nat
        BY <1>4 DEF Increment
      <4>3. charged[d] + Owed(d) <= metered[d] \/ tomb[d] >= 0
        <5>1. Owed(d) \in Nat
          BY <1>4, <3>1, <4>1, <4>2 DEF Owed
        <5> QED BY <1>4, <2>2, <3>1, <5>1 DEF BooksBalance
      <4>4. Increment(d, core[d].count) <= Owed(d) /\ Owed(d) \in Nat
        BY <1>4, <3>1, <4>1, <4>2 DEF Owed
      <4> QED BY <1>4, <4>1, <4>3, <4>4
    <3>4. BooksBalance(d)'
      BY <1>2, <1>3, <1>4, <3>1, <3>2, <3>3 DEF BooksBalance, Owed, Doing, Increment
    <3> QED BY <1>2, <1>3, <2>2, <3>1, <3>2, <3>4 DEF ClientInv, BaselineHolds, CoreMatches,
       RowMatches, ResetOnce, ForeignMarked, TickPcs, ResetPcs, DeletePcs
  <2> QED BY <2>1, <2>2
<1>9. ThreadInv'
  BY <1>3 DEF ThreadInv, HandInv, ResetInHand, DeleteInHand, ResetPcs, DeletePcs
<1> QED BY <1>1, <1>2, <1>3, <1>7, <1>8, <1>9 DEF ManagedInv, ManagedTypes, Flags, Counters

-----------------------------------------------------------------------------

\* Nobody owes anything before the first client.
LEMMA ManagedInitInv == ManagedInit => ManagedInv
<1> SUFFICES ASSUME ManagedInit PROVE ManagedInv
  OBVIOUS
<1>1. ManagedTypes
  <2>1. PICK known \in SUBSET Emails :
           core = [c \in Emails |-> IF c \in known THEN [who |-> "own", on |-> TRUE, count |-> 1]
                                    ELSE Absent]
    BY DEF ManagedInit
  <2>2. core \in [Emails -> CoreSet]
    BY <2>1 DEF CoreSet, Absent
  <2>3. mgr \in Threads
    BY DEF ManagedInit, Free, Threads, Pcs
  <2>4. row \in [Emails -> RowSet]
    BY DEF ManagedInit, NoRow, RowSet, Statuses
  <2> QED BY <2>2, <2>3, <2>4 DEF ManagedInit, ManagedTypes, Flags, Counters
<1>2. ThreadInv
  BY DEF ManagedInit, Free, ThreadInv, HandInv, ResetInHand, DeleteInHand, ResetPcs, DeletePcs
<1>3. ASSUME NEW c \in Emails PROVE ClientInv(c)
  BY DEF ManagedInit, NoRow, Free, Absent, ClientInv, BooksBalance, BaselineHolds, CoreMatches,
         RowMatches, ResetOnce, ForeignMarked, ResetPcs, DeletePcs, TickPcs
<1> QED BY <1>1, <1>2, <1>3 DEF ManagedInv

\* One lemma per action.
LEMMA ManagedStep == ManagedInv /\ [ManagedNext]_managedVars => ManagedInv'
<1> SUFFICES ASSUME ManagedInv, [ManagedNext]_managedVars PROVE ManagedInv'
  OBVIOUS
<1>1. CASE UNCHANGED managedVars
  BY <1>1 DEF managedVars, ManagedInv, ManagedTypes, Flags, Counters, ThreadInv, HandInv, InHand,
     ResetInHand, DeleteInHand, ClientInv, BooksBalance, BaselineHolds, CoreMatches, RowMatches,
     ResetOnce, ForeignMarked, Owed, Doing, Increment
<1>2. mgr.pc \in ResetPcs \union DeletePcs => mgr.c \in Emails
  BY DEF ManagedInv, ManagedTypes, ThreadInv, Threads
<1>3. mgr.pc = "done" /\ mgr.want # "none" => mgr.for \in Emails
  BY DEF ManagedInv, ThreadInv, HandInv
<1>4. ASSUME NEW c \in Emails,
             Create(c) \/ Adopt(c) \/ RetryOperation(c) \/ RestoreMissing(c) \/ ResolveReset(c)
      PROVE  ManagedInv'
  BY <1>4, CreateInv, AdoptInv, RetryOperationInv, RestoreMissingInv, ResolveResetInv
<1>5. ASSUME NEW c \in Emails,
             DeleteRemote(c) \/ ResetBegin(c) \/ EditUpsert(c) \/ RetryTime(c) \/ Blockers(c)
             \/ Traffic(c) \/ CoreChanges(c)
      PROVE  ManagedInv'
  BY <1>5, DeleteRemoteInv, ResetBeginInv, EditUpsertInv, RetryTimeInv, BlockersInv, TrafficInv,
     CoreChangesInv
<1>6. ASSUME NEW c \in Emails, NEW enable \in BOOLEAN, Update(c, enable) PROVE ManagedInv'
  BY <1>6, UpdateInv
<1>7. ASSUME NEW c \in Emails, NEW op \in {"reset", "delete"}, AskAction(c, op) PROVE ManagedInv'
  BY <1>7, AskActionInv
<1>8. ASSUME NEW due \in SUBSET Emails, TickRead(due) PROVE ManagedInv'
  BY <1>8, TickReadInv
<1>9. CASE StageAction
  BY <1>3, <1>9, StageActionInv DEF StageAction
<1>10. CASE CoreDelete
  BY <1>2, <1>10, CoreDeleteInv DEF CoreDelete, DeletePcs
<1>11. CASE DeleteCharge
  BY <1>2, <1>11, DeleteChargeInv DEF DeleteCharge, DeletePcs
<1>12. CASE DeletePolicy
  BY <1>2, <1>12, DeletePolicyInv DEF DeletePolicy, DeletePcs
<1>13. CASE DeleteFinish
  BY <1>2, <1>13, DeleteFinishInv DEF DeleteFinish, DeletePcs
<1>14. CASE ResetRemote
  BY <1>2, <1>14, ResetRemoteInv DEF ResetRemote, ResetPcs
<1>15. CASE CoreReset
  BY <1>2, <1>15, CoreResetInv DEF CoreReset, ResetPcs
<1>16. CASE ResetCharge
  BY <1>2, <1>16, ResetChargeInv DEF ResetCharge, ResetPcs
<1>17. CASE ResetZero
  BY <1>2, <1>17, ResetZeroInv DEF ResetZero, ResetPcs
<1>18. CASE ResetFinish
  BY <1>2, <1>18, ResetFinishInv DEF ResetFinish, ResetPcs
<1>19. CASE Upsert \/ UpsertMark \/ FinalPass \/ Restart
  BY <1>19, UpsertInv, UpsertMarkInv, FinalPassInv, RestartInv
<1> QED BY <1>1, <1>4, <1>5, <1>6, <1>7, <1>8, <1>9, <1>10, <1>11, <1>12, <1>13, <1>14, <1>15,
           <1>16, <1>17, <1>18, <1>19 DEF ManagedNext

\* The books balance in every state.
LEMMA ManagedInvariant == ManagedSpec => []ManagedInv
<1> QED BY ManagedInitInv, ManagedStep, PTL DEF ManagedSpec

\* What a deletion or a reset counted is paid once, wherever it was interrupted and
\* however often it was retried (manager.py, _charge_snapshot and _apply).
THEOREM CountersHold == ManagedSpec => []CountersArePaidOnce
<1>1. ManagedInv => CountersArePaidOnce
  <2> SUFFICES ASSUME ManagedInv, NEW c \in Emails
               PROVE  /\ charged[c] <= metered[c] \/ StaleTombstone(c)
                      /\ row[c].st = "deleted" /\ ~lost[c] => charged[c] = metered[c]
                      /\ resets[c] <= 1
    BY DEF CountersArePaidOnce, DeletionIsPaidOnce, ResetIsNotReplayed
  <2>1. /\ BooksBalance(c) /\ RowMatches(c) /\ ResetOnce(c) /\ ThreadInv
        /\ row[c].last \in Nat /\ core[c].count \in Nat /\ charged[c] \in Nat
        /\ metered[c] \in Nat /\ tomb[c] \in Nat \union {-1} /\ mgr.final \in Nat
    BY DEF ManagedInv, ClientInv, ManagedTypes, RowSet, CoreSet, Threads, Counters
  <2>2. Owed(c) \in Nat
    BY <2>1 DEF Owed, Increment
  <2>3. row[c].st = "deleted" => Owed(c) = 0
    BY <2>1 DEF RowMatches, Owed, Doing, ThreadInv, HandInv, InHand, ResetPcs
  <2>4. charged[c] <= metered[c] \/ StaleTombstone(c)
    BY <2>1, <2>2 DEF BooksBalance, StaleTombstone
  <2>5. row[c].st = "deleted" /\ ~lost[c] => charged[c] = metered[c]
    BY <2>1, <2>3 DEF BooksBalance
  <2> QED BY <2>1, <2>4, <2>5 DEF ResetOnce
<1> QED BY <1>1, ManagedInvariant, PTL

\* The manager neither changes nor removes a core client that has taken over the
\* identity of one of its own (manager.py, the subId comparisons of tick and _apply).
THEOREM ForeignClientsHold == ManagedSpec => ForeignClientUntouched
<1> DEFINE Kept == mgr' # mgr => \A c \in Emails : core[c].who = "other" => core'[c] = core[c]
<1>1. ManagedInv /\ [ManagedNext]_managedVars => [Kept]_managedVars
  <2> SUFFICES ASSUME ManagedInv, ManagedNext, mgr' # mgr, NEW d \in Emails, core[d].who = "other"
               PROVE  core'[d] = core[d]
    OBVIOUS
  <2>1. /\ core \in [Emails -> CoreSet] /\ mgr \in Threads /\ ThreadInv /\ ClientInv(d)
        /\ mgr.todo \subseteq Emails
    BY DEF ManagedInv, ManagedTypes, Threads
  <2>2. CASE UNCHANGED core
    BY <2>2
  <2>3. CASE CoreDelete
    <3>1. mgr.c # d
      BY <2>1, <2>3 DEF CoreDelete, ThreadInv, HandInv, InHand, DeletePcs
    <3> QED BY <2>1, <2>3, <3>1 DEF CoreDelete
  <2>4. CASE CoreReset
    <3>1. mgr.c # d
      BY <2>1, <2>4 DEF CoreReset, ThreadInv, ResetInHand, ResetPcs
    <3> QED BY <2>1, <2>4, <3>1 DEF CoreReset
  <2>5. CASE Upsert
    <3>1. d \notin mgr.todo
      BY <2>1, <2>5 DEF Upsert, ThreadInv, HandInv, InHand
    <3> QED BY <2>1, <2>5, <3>1 DEF Upsert, Written
  <2>6. ASSUME NEW c \in Emails, EditUpsert(c) PROVE core'[d] = core[d]
    <3>1. CASE c = d
      BY <2>1, <2>6, <3>1 DEF EditUpsert
    <3>2. CASE c # d
      BY <2>1, <2>6, <3>2 DEF EditUpsert, Written
    <3> QED BY <3>1, <3>2
  <2>7. CASE FinalPass
    <3>1. row[d].st \in {"none", "deleted", "conflict"}
      BY <2>1, <2>7 DEF FinalPass, ClientInv, ForeignMarked, TickPcs
    <3> QED BY <2>1, <2>7, <3>1 DEF FinalPass, Live
  <2>8. ASSUME NEW c \in Emails, Traffic(c) \/ CoreChanges(c) PROVE FALSE
    BY <2>8 DEF Traffic, CoreChanges
  <2>9. ASSUME NEW c \in Emails,
               Create(c) \/ Adopt(c) \/ RetryOperation(c) \/ RestoreMissing(c) \/ ResolveReset(c)
               \/ DeleteRemote(c) \/ ResetBegin(c) \/ RetryTime(c) \/ Blockers(c)
        PROVE  UNCHANGED core
    BY <2>9 DEF Create, Adopt, RetryOperation, RestoreMissing, ResolveReset, DeleteRemote,
       ResetBegin, RetryTime, Blockers
  <2>10. ASSUME NEW c \in Emails, NEW enable \in BOOLEAN, Update(c, enable) PROVE UNCHANGED core
    BY <2>10 DEF Update
  <2>11. ASSUME NEW c \in Emails, NEW op \in {"reset", "delete"}, AskAction(c, op)
         PROVE  UNCHANGED core
    BY <2>11 DEF AskAction
  <2>12. ASSUME NEW due \in SUBSET Emails, TickRead(due) PROVE UNCHANGED core
    BY <2>12 DEF TickRead
  <2>13. CASE StageAction \/ DeleteCharge \/ DeletePolicy \/ DeleteFinish \/ ResetRemote
              \/ ResetCharge \/ ResetZero \/ ResetFinish \/ UpsertMark \/ Restart
    BY <2>2, <2>13 DEF StageAction, DeleteCharge, DeletePolicy, DeleteFinish, ResetRemote,
       ResetCharge, ResetZero, ResetFinish, UpsertMark, Restart
  <2> QED BY <2>2, <2>3, <2>4, <2>5, <2>6, <2>7, <2>8, <2>9, <2>10, <2>11, <2>12, <2>13
          DEF ManagedNext
<1> QED BY <1>1, ManagedInvariant, PTL DEF ManagedSpec, ForeignClientUntouched

-----------------------------------------------------------------------------
(* Restored clients *)

\* Nothing is metered, served or promoted before the import.
BeforeImport ==
    sub.state = "none" =>
        /\ coreClient = NoCore /\ usage = [local |-> 0, remote |-> 0, raw |-> 0]
        /\ ~native.here /\ ~byHand /\ promo = NoPromo

\* The bytes of a meter, and what its next samples add, were all carried by the Node.
MeterHolds(m) ==
    /\ m.remote + Delta(node.raw, m.raw) <= node.carried
    /\ node.answer >= 0 =>
           m.remote + Delta(node.answer, m.raw) + Delta(node.raw, node.answer) <= node.carried

MetersHold ==
    /\ sub.state = "active" => usage.local = coreClient.up
    /\ usage.local <= coreClient.up
    /\ MeterHolds(usage)
    /\ native.met => MeterHolds(native)
    /\ ~native.met => native.remote = 0

\* The row knows of a client that is on, and of one that was switched off elsewhere.
RowKnows ==
    sub.state = "active" =>
        /\ safe.known
        /\ ~native.here /\ coreClient.on => safe.expect
        /\ ~native.here /\ byHand =>
               safe.ext \/ (safe.expect /\ coreClient.here /\ ~coreClient.on)

RestoreInv == RestoreTypeOK /\ BeforeImport /\ MetersHold /\ RowKnows

SubSet == [state : {"none", "active", "archived", "promoted"}, total : Nat, legacy : Nat,
           ends : {"never", "later", "past"}, on : BOOLEAN, scanned : BOOLEAN]
SafeSet == [known : BOOLEAN, meta : {"review", "verified", "manual"}, expect : BOOLEAN,
            ext : BOOLEAN]
RestoredCores == [here : BOOLEAN, on : BOOLEAN, up : 0..MaxLocal]

\* What the old panel may answer is a subscription.
LEMMA ScansAreSubs ==
    ASSUME NEW p \in Scans
    PROVE  p \in SubSet
<1>1. NoSub \in SubSet
  BY DEF NoSub, SubSet
<1>2. CASE p \in {[r EXCEPT !.scanned = TRUE] : r \in {[NoSub EXCEPT
              !.total = q.total, !.legacy = q.legacy, !.ends = q.ends] : q \in Reports}}
  <2>1. PICK q \in Reports : p = [[NoSub EXCEPT
              !.total = q.total, !.legacy = q.legacy, !.ends = q.ends] EXCEPT !.scanned = TRUE]
    BY <1>2
  <2>2. q.total \in Nat /\ q.legacy \in Nat /\ q.ends \in {"never", "later", "past"}
    BY RestoreAssumption
  <2> QED BY <2>1, <2>2, <1>1 DEF SubSet
<1> QED BY <1>1, <1>2 DEF Scans

\* A scan changes the numbers of a subscription and nothing else.
LEMMA ScanFacts ==
    ASSUME NEW s \in SubSet, NEW p \in SubSet
    PROVE  /\ Scan(s, p) \in SubSet /\ Scan(s, p).state = s.state
BY DEF Scan, SubSet

\* What a row says after somebody else's switch was noticed.
LEMMA NoticedFacts ==
    ASSUME NEW s \in SubSet, NEW m \in SafeSet, NEW c \in RestoredCores,
           NEW n, n = Noticed(Seeded(s, m, c), c)
    PROVE  /\ n \in SafeSet /\ n.known
           /\ m.known => /\ m.meta = "manual" => n.meta = "manual"
                         /\ n.ext <=> m.ext \/ (c.here /\ ~c.on /\ m.expect)
           /\ ~m.known => (n.ext <=> ~c.on)
<1>1. CASE m.known
  <2>1. Seeded(s, m, c) \in SafeSet /\ Seeded(s, m, c).known
        /\ (Seeded(s, m, c).ext <=> m.ext) /\ (Seeded(s, m, c).expect <=> m.expect)
        /\ (m.meta = "manual" => Seeded(s, m, c).meta = "manual")
    BY <1>1 DEF Seeded, SafeSet
  <2>2. (Seeded(s, m, c).ext \/ (c.here /\ ~c.on /\ Seeded(s, m, c).expect)) \in BOOLEAN
    OBVIOUS
  <2>3. /\ n \in SafeSet /\ n.known = Seeded(s, m, c).known /\ n.meta = Seeded(s, m, c).meta
        /\ n.ext = (Seeded(s, m, c).ext \/ (c.here /\ ~c.on /\ Seeded(s, m, c).expect))
    BY <2>1, <2>2 DEF Noticed, SafeSet
  <2> QED BY <1>1, <2>1, <2>3
<1>2. CASE ~m.known
  <2>1. Seeded(s, m, c) \in SafeSet /\ Seeded(s, m, c).known
        /\ (Seeded(s, m, c).ext <=> ~c.on) /\ (Seeded(s, m, c).expect <=> c.on)
    BY <1>2 DEF Seeded, SafeSet, RestoredCores
  <2>2. (Seeded(s, m, c).ext \/ (c.here /\ ~c.on /\ Seeded(s, m, c).expect)) \in BOOLEAN
    OBVIOUS
  <2>3. /\ n \in SafeSet /\ n.known = Seeded(s, m, c).known
        /\ n.ext = (Seeded(s, m, c).ext \/ (c.here /\ ~c.on /\ Seeded(s, m, c).expect))
    BY <2>1, <2>2 DEF Noticed, SafeSet
  <2> QED BY <1>2, <2>1, <2>3
<1> QED BY <1>1, <1>2

\* engine.apply of an active subscription: what is on is expected to be, and eligible.
LEMMA ApplyFacts ==
    ASSUME NEW s \in SubSet, s.state = "active", NEW c \in RestoredCores, NEW m \in SafeSet,
           Apply(s, c, m)
    PROVE  /\ safe' \in SafeSet /\ coreClient' \in RestoredCores /\ safe'.known
           /\ coreClient'.up = c.up /\ (coreClient'.here <=> c.here)
           /\ coreClient'.on => safe'.expect /\ Decision(s, safe', usage) = "eligible"
           /\ m.known => /\ m.meta = "manual" => safe'.meta = "manual"
                         /\ m.ext \/ (c.here /\ ~c.on /\ m.expect) => safe'.ext
<1> DEFINE n == Noticed(Seeded(s, m, c), c)
           ok == c.here /\ Decision(s, n, usage) = "eligible"
<1>1. /\ n \in SafeSet /\ n.known
      /\ m.known => /\ m.meta = "manual" => n.meta = "manual"
                    /\ n.ext <=> m.ext \/ (c.here /\ ~c.on /\ m.expect)
  BY NoticedFacts
<1>2. safe' = [n EXCEPT !.expect = ok] /\ coreClient' = [c EXCEPT !.on = c.here /\ ok]
  BY DEF Apply, Reconciled
<1>3. (c.here => ok \in BOOLEAN) /\ ok \in BOOLEAN
  OBVIOUS
<1> HIDE DEF n
<1>4. CASE ok
  <2>1. safe' = [n EXCEPT !.expect = TRUE] /\ coreClient' = [c EXCEPT !.on = TRUE]
    BY <1>2, <1>4
  <2>2. /\ safe' \in SafeSet /\ coreClient' \in RestoredCores /\ safe'.known = n.known
        /\ safe'.meta = n.meta /\ safe'.ext = n.ext /\ safe'.expect = TRUE
        /\ coreClient'.up = c.up /\ coreClient'.here = c.here
    BY <1>1, <2>1 DEF SafeSet, RestoredCores
  <2>3. Decision(s, safe', usage) = Decision(s, n, usage)
    BY <2>2 DEF Decision
  <2> QED BY <1>1, <1>4, <2>2, <2>3
<1>5. CASE ~ok
  <2>1. safe' = [n EXCEPT !.expect = FALSE] /\ coreClient' = [c EXCEPT !.on = FALSE]
    BY <1>2, <1>5
  <2>2. /\ safe' \in SafeSet /\ coreClient' \in RestoredCores /\ safe'.known = n.known
        /\ safe'.meta = n.meta /\ safe'.ext = n.ext /\ coreClient'.on = FALSE
        /\ coreClient'.up = c.up /\ coreClient'.here = c.here
    BY <1>1, <2>1 DEF SafeSet, RestoredCores
  <2> QED BY <1>1, <2>2
<1> QED BY <1>4, <1>5

\* After the reconciliation of an active subscription that was not promoted yet, the row
\* knows of the client whatever the row and the client were before.
LEMMA ApplyKnows ==
    ASSUME RestoreTypeOK, NEW s \in SubSet, s.state = "active",
           NEW c \in RestoredCores, NEW m \in SafeSet, Apply(s, c, m),
           byHand' \in BOOLEAN,
           byHand' /\ ~native.here => m.known /\ (m.ext \/ (m.expect /\ c.here /\ ~c.on))
    PROVE  /\ safe' \in SafeSet /\ coreClient' \in RestoredCores /\ serving' \in BOOLEAN
           /\ coreClient'.up = c.up /\ (coreClient'.here <=> c.here)
           /\ safe'.known
           /\ coreClient'.on => safe'.expect /\ Decision(s, safe', usage) = "eligible"
           /\ ~native.here => (coreClient'.on => ~byHand') /\ (byHand' => safe'.ext)
<1>1. /\ safe' \in SafeSet /\ coreClient' \in RestoredCores /\ safe'.known
      /\ coreClient'.up = c.up /\ (coreClient'.here <=> c.here)
      /\ coreClient'.on => safe'.expect /\ Decision(s, safe', usage) = "eligible"
      /\ m.known => (m.ext \/ (c.here /\ ~c.on /\ m.expect) => safe'.ext)
  BY ApplyFacts
<1>2. serving' \in BOOLEAN
  <2>1. (coreClient'.here /\ coreClient'.on) \in BOOLEAN
    OBVIOUS
  <2> QED BY <2>1 DEF Apply, RestoreTypeOK
<1>3. ~native.here /\ byHand' => safe'.ext
  BY <1>1
<1>4. safe'.ext => Decision(s, safe', usage) # "eligible"
  BY DEF Decision
<1> QED BY <1>1, <1>2, <1>3, <1>4

\* A step that reconciles an active subscription and meters nothing.
LEMMA SwitchInv ==
    ASSUME RestoreInv, sub' \in SubSet, sub'.state = "active",
           NEW c \in RestoredCores, NEW m \in SafeSet, Apply(sub', c, m),
           c.up = coreClient.up, usage.local = coreClient.up, byHand' \in BOOLEAN,
           byHand' /\ ~native.here => m.known /\ (m.ext \/ (m.expect /\ c.here /\ ~c.on)),
           UNCHANGED <<usage, node, native, promo>>
    PROVE  /\ RestoreInv'
           /\ coreClient'.on /\ ~native.here =>
                  Decision(sub', safe', usage') = "eligible" /\ ~byHand'
<1>1. RestoreTypeOK /\ MetersHold
  BY DEF RestoreInv
<1>2. /\ safe' \in SafeSet /\ coreClient' \in RestoredCores /\ serving' \in BOOLEAN
      /\ coreClient'.up = c.up /\ safe'.known
      /\ coreClient'.on => safe'.expect /\ Decision(sub', safe', usage) = "eligible"
      /\ ~native.here => (coreClient'.on => ~byHand') /\ (byHand' => safe'.ext)
  BY <1>1, ApplyKnows
<1>3. RestoreTypeOK'
  BY <1>1, <1>2 DEF RestoreTypeOK, SubSet, SafeSet, RestoredCores
<1>4. BeforeImport' /\ RowKnows'
  BY <1>2 DEF BeforeImport, RowKnows
<1>5. MetersHold'
  BY <1>1, <1>2 DEF MetersHold, MeterHolds
<1>6. Decision(sub', safe', usage') = Decision(sub', safe', usage)
  OBVIOUS
<1> QED BY <1>2, <1>3, <1>4, <1>5, <1>6 DEF RestoreInv

\* What SwitchedOnIsEntitled says of a step.
Entitled ==
    sub.state = "active" =>
        /\ ~native.here /\ coreClient'.on /\ ~coreClient.on =>
               Decision(sub', safe', usage') = "eligible" /\ ~byHand'
        /\ <<sub.total, sub.legacy>> # <<sub'.total, sub'.legacy>> =>
               ~Frozen \/ safe'.meta = "manual"

\* What types and invariant say of the parts, for the steps below.
LEMMA RestoreParts ==
    ASSUME RestoreInv
    PROVE  /\ sub \in SubSet /\ safe \in SafeSet /\ coreClient \in RestoredCores
           /\ usage.local \in Nat /\ usage.remote \in Nat /\ usage.raw \in Nat
           /\ node.raw \in Nat /\ node.carried \in Nat /\ node.answer \in Nat \union {-1}
           /\ native.raw \in Nat /\ native.remote \in Nat /\ coreClient.up \in Nat
BY RestoreAssumption DEF RestoreInv, RestoreTypeOK, SubSet, SafeSet, RestoredCores

\* import: the row is seeded as the client is, and reconciled.
LEMMA ImportInv ==
    ASSUME RestoreInv, NEW p \in Scans, ImportNew(p)
    PROVE  RestoreInv' /\ Entitled
<1>1. /\ sub.state = "none" /\ coreClient.up = 0 /\ usage.local = 0 /\ ~byHand
  BY DEF ImportNew, RestoreInv, BeforeImport, NoCore
<1>2. sub' \in SubSet /\ sub'.state = "active"
  <2>1. NoSub \in SubSet
    BY DEF NoSub, SubSet
  <2>2. Scan(NoSub, p) \in SubSet
    BY <2>1, ScansAreSubs, ScanFacts
  <2> QED BY <2>2 DEF ImportNew, SubSet
<1>3. NoSafe \in SafeSet
  BY DEF NoSafe, SafeSet
<1>4. [here |-> TRUE, on |-> TRUE, up |-> 0] \in RestoredCores
  BY RestoreAssumption DEF RestoredCores
<1>5. /\ Apply(sub', [here |-> TRUE, on |-> TRUE, up |-> 0], NoSafe)
      /\ UNCHANGED <<usage, node, native, promo>> /\ ~byHand' /\ byHand' \in BOOLEAN
  BY <1>1 DEF ImportNew, RestoreInv, RestoreTypeOK
<1>6. RestoreInv'
  BY <1>1, <1>2, <1>3, <1>4, <1>5, SwitchInv
<1> QED BY <1>1, <1>6 DEF Entitled

\* The same URL again changes numbers nothing depends on yet.
LEMMA ReimportInv ==
    ASSUME RestoreInv, NEW p \in Scans, Reimport(p)
    PROVE  RestoreInv' /\ Entitled
<1>1. /\ sub \in SubSet /\ safe \in SafeSet /\ coreClient \in RestoredCores /\ p \in SubSet
      /\ sub.state = "active" /\ usage.local = coreClient.up /\ byHand \in BOOLEAN
      /\ byHand /\ ~native.here =>
             safe.known /\ (safe.ext \/ (safe.expect /\ coreClient.here /\ ~coreClient.on))
  BY ScansAreSubs, RestoreParts
     DEF Reimport, RestoreInv, RestoreTypeOK, MetersHold, RowKnows
<1>2. sub' \in SubSet /\ sub'.state = "active"
  BY <1>1, ScanFacts DEF Reimport
<1>3. /\ RestoreInv'
      /\ coreClient'.on /\ ~native.here =>
             Decision(sub', safe', usage') = "eligible" /\ ~byHand'
  BY <1>1, <1>2, SwitchInv DEF Reimport
<1>4. sub' = sub \/ ~Frozen
  BY DEF Reimport
<1> QED BY <1>3, <1>4 DEF Entitled

\* review_metadata() changes the numbers by hand.
LEMMA ReviewInv ==
    ASSUME RestoreInv, NEW p \in Scans, Review(p)
    PROVE  RestoreInv' /\ Entitled
<1> DEFINE m == [safe EXCEPT !.meta = "manual"]
<1>1. /\ sub \in SubSet /\ safe \in SafeSet /\ coreClient \in RestoredCores /\ p \in SubSet
      /\ sub.state = "active" /\ usage.local = coreClient.up /\ byHand \in BOOLEAN /\ safe.known
      /\ byHand /\ ~native.here =>
             safe.ext \/ (safe.expect /\ coreClient.here /\ ~coreClient.on)
  BY ScansAreSubs, RestoreParts
     DEF Review, RestoreInv, RestoreTypeOK, MetersHold, RowKnows
<1>2. sub' \in SubSet /\ sub'.state = "active"
  BY <1>1, ScanFacts DEF Review
<1>3. /\ m \in SafeSet /\ m.meta = "manual" /\ m.known = safe.known /\ m.ext = safe.ext
      /\ m.expect = safe.expect
  BY <1>1 DEF SafeSet
<1>4. Apply(sub', coreClient, m) /\ UNCHANGED <<usage, node, native, promo, byHand>>
  BY DEF Review
<1> HIDE DEF m
<1>5. /\ RestoreInv'
      /\ coreClient'.on /\ ~native.here =>
             Decision(sub', safe', usage') = "eligible" /\ ~byHand'
  BY <1>1, <1>2, <1>3, <1>4, SwitchInv
<1>6. safe'.meta = "manual"
  BY <1>1, <1>2, <1>3, <1>4, ApplyFacts
<1> QED BY <1>5, <1>6 DEF Entitled

\* Suspending and resuming is a decision of the operator here.
LEMMA SuspensionInv ==
    ASSUME RestoreInv, NEW off \in BOOLEAN, SetSuspension(off)
    PROVE  RestoreInv' /\ Entitled
<1> DEFINE m == [safe EXCEPT !.ext = FALSE, !.expect = FALSE]
<1>1. /\ sub \in SubSet /\ safe \in SafeSet /\ coreClient \in RestoredCores
      /\ sub.state = "active" /\ usage.local = coreClient.up
  BY RestoreParts DEF SetSuspension, RestoreInv, RestoreTypeOK, MetersHold
<1>2. /\ sub' \in SubSet /\ sub'.state = "active" /\ sub'.total = sub.total
      /\ sub'.legacy = sub.legacy /\ byHand' = FALSE
  <2>1. (~off) \in BOOLEAN
    OBVIOUS
  <2> QED BY <1>1, <2>1 DEF SetSuspension, SubSet
<1>3. m \in SafeSet
  BY <1>1 DEF SafeSet
<1>4. Apply(sub', coreClient, m) /\ UNCHANGED <<usage, node, native, promo>>
  BY DEF SetSuspension
<1> HIDE DEF m
<1>5. /\ RestoreInv'
      /\ coreClient'.on /\ ~native.here =>
             Decision(sub', safe', usage') = "eligible" /\ ~byHand'
  BY <1>1, <1>2, <1>3, <1>4, SwitchInv
<1> QED BY <1>2, <1>5 DEF Entitled

\* reconcile() changes an active subscription only.
LEMMA ReconcileInv ==
    ASSUME RestoreInv, Reconcile
    PROVE  RestoreInv' /\ Entitled
<1>1. /\ sub \in SubSet /\ safe \in SafeSet /\ coreClient \in RestoredCores
      /\ byHand \in BOOLEAN /\ serving \in BOOLEAN
      /\ Apply(sub, coreClient, safe) /\ UNCHANGED <<sub, usage, node, native, promo, byHand>>
  BY RestoreParts DEF Reconcile, RestoreInv, RestoreTypeOK
<1>2. CASE sub.state = "active"
  <2>1. /\ usage.local = coreClient.up
        /\ byHand /\ ~native.here =>
               safe.known /\ (safe.ext \/ (safe.expect /\ coreClient.here /\ ~coreClient.on))
    BY <1>2 DEF RestoreInv, MetersHold, RowKnows
  <2>2. /\ sub' \in SubSet /\ sub'.state = "active" /\ Apply(sub', coreClient, safe)
        /\ UNCHANGED <<usage, node, native, promo>>
        /\ byHand' /\ ~native.here =>
               safe.known /\ (safe.ext \/ (safe.expect /\ coreClient.here /\ ~coreClient.on))
    BY <1>1, <1>2, <2>1
  <2>3. /\ RestoreInv'
        /\ coreClient'.on /\ ~native.here =>
               Decision(sub', safe', usage') = "eligible" /\ ~byHand'
    BY <1>1, <2>1, <2>2, SwitchInv
  <2> QED BY <1>1, <2>3 DEF Entitled
<1>3. CASE sub.state # "active"
  <2>1. safe' = safe /\ coreClient' = coreClient
    BY <1>1, <1>3 DEF Apply, Reconciled
  <2>2. serving' \in BOOLEAN
    <3>1. (coreClient'.here /\ coreClient'.on) \in BOOLEAN
      OBVIOUS
    <3> QED BY <3>1, <1>1 DEF Apply
  <2> QED BY <1>1, <1>3, <2>1, <2>2 DEF Entitled, RestoreInv, RestoreTypeOK, BeforeImport,
                                        MetersHold, MeterHolds, RowKnows
<1> QED BY <1>2, <1>3

\* Archived: the client is gone and switched off, the meters stay.
LEMMA ArchiveInv ==
    ASSUME RestoreInv, Archive
    PROVE  RestoreInv' /\ Entitled
<1>1. /\ sub' \in SubSet /\ sub'.state = "archived" /\ sub'.total = sub.total
      /\ sub'.legacy = sub.legacy
  BY RestoreParts DEF Archive, SubSet
<1>2. /\ coreClient' \in RestoredCores /\ ~coreClient'.on /\ coreClient'.up = coreClient.up
  BY RestoreParts DEF Archive, RestoredCores
<1>3. RestoreTypeOK'
  <2>1. serving' \in BOOLEAN /\ UNCHANGED <<safe, usage, node, native, promo, byHand>>
    BY DEF Archive, RestoreInv, RestoreTypeOK
  <2>2. RestoreTypeOK
    BY DEF RestoreInv
  <2> QED BY <1>1, <1>2, <2>1, <2>2 DEF RestoreTypeOK, SubSet, RestoredCores
<1>4. MetersHold' /\ RowKnows' /\ BeforeImport'
  BY <1>1, <1>2 DEF Archive, RestoreInv, MetersHold, MeterHolds, RowKnows, BeforeImport
<1> QED BY <1>1, <1>2, <1>3, <1>4 DEF RestoreInv, Entitled

\* A client switched off elsewhere was on, so the row expects it to be.
LEMMA SwitchedOffInv ==
    ASSUME RestoreInv, SwitchedOff
    PROVE  RestoreInv' /\ Entitled
<1>1. /\ coreClient' \in RestoredCores /\ ~coreClient'.on /\ coreClient'.up = coreClient.up
      /\ (coreClient'.here <=> coreClient.here) /\ byHand' = TRUE
  BY RestoreParts DEF SwitchedOff, RestoredCores
<1>2. RestoreTypeOK'
  BY <1>1 DEF SwitchedOff, RestoreInv, RestoreTypeOK, RestoredCores
<1>3. RowKnows'
  <2>1. safe.known /\ (~native.here => safe.expect)
    BY DEF SwitchedOff, RestoreInv, RowKnows
  <2> QED BY <1>1, <2>1 DEF SwitchedOff, RowKnows
<1>4. MetersHold' /\ BeforeImport'
  BY <1>1 DEF SwitchedOff, RestoreInv, MetersHold, MeterHolds, BeforeImport
<1> QED BY <1>1, <1>2, <1>3, <1>4 DEF SwitchedOff, RestoreInv, Entitled

\* Traffic of the core is followed by the meter while the subscription is active.
LEMMA LocalTrafficInv ==
    ASSUME RestoreInv, LocalTraffic
    PROVE  RestoreInv' /\ Entitled
<1>1. /\ coreClient' \in RestoredCores /\ coreClient'.up = coreClient.up + 1
      /\ coreClient'.on = coreClient.on /\ coreClient'.here = coreClient.here
  <2>1. /\ coreClient \in RestoredCores /\ coreClient.up + 1 \in 0..MaxLocal
        /\ coreClient' = [coreClient EXCEPT !.up = coreClient.up + 1]
    BY RestoreParts, RestoreAssumption DEF LocalTraffic, RestoredCores
  <2> QED BY <2>1 DEF RestoredCores
<1>2. sub.state # "none"
  BY DEF LocalTraffic, RestoreInv, BeforeImport, NoCore
<1>3. /\ usage'.remote = usage.remote /\ usage'.raw = usage.raw
      /\ usage'.local = IF sub.state = "active" THEN usage.local + 1 ELSE usage.local
      /\ usage' \in [local : Nat, remote : Nat, raw : Nat]
  <2>1. usage \in [local : Nat, remote : Nat, raw : Nat]
    BY DEF RestoreInv, RestoreTypeOK
  <2>2. CASE sub.state = "active"
    BY <2>1, <2>2 DEF LocalTraffic
  <2>3. CASE sub.state # "active"
    BY <2>1, <2>3 DEF LocalTraffic
  <2> QED BY <2>2, <2>3
<1>4. RestoreTypeOK'
  BY <1>1, <1>3 DEF LocalTraffic, RestoreInv, RestoreTypeOK, RestoredCores
<1>5. MetersHold'
  BY <1>1, <1>3, RestoreParts DEF LocalTraffic, RestoreInv, MetersHold, MeterHolds
<1>6. RowKnows' /\ BeforeImport'
  BY <1>1, <1>2 DEF LocalTraffic, RestoreInv, RowKnows, BeforeImport
<1> QED BY <1>1, <1>4, <1>5, <1>6 DEF LocalTraffic, RestoreInv, Entitled

\* A byte of the Node adds one at most to what the next samples add.
LEMMA NodeTrafficInv ==
    ASSUME RestoreInv, NodeTraffic
    PROVE  RestoreInv' /\ Entitled
<1>1. /\ node'.raw = node.raw + 1 /\ node'.carried = node.carried + 1
      /\ node'.answer = node.answer /\ node.carried < MaxRemote
      /\ node' \in [raw : Nat, carried : 0..MaxRemote, answer : Nat \union {-1}]
  <2>1. /\ node \in [raw : Nat, carried : 0..MaxRemote, answer : Nat \union {-1}]
        /\ node' = [node EXCEPT !.raw = node.raw + 1, !.carried = node.carried + 1]
        /\ node.carried < MaxRemote
    BY DEF NodeTraffic, RestoreInv, RestoreTypeOK
  <2>2. node.raw + 1 \in Nat /\ node.carried + 1 \in 0..MaxRemote
    BY <2>1, RestoreAssumption
  <2> QED BY <2>1, <2>2
<1>2. RestoreTypeOK'
  BY <1>1 DEF NodeTraffic, RestoreInv, RestoreTypeOK
<1>3. MeterHolds(usage)'
  <2>1. /\ Delta(node.raw + 1, usage.raw) <= Delta(node.raw, usage.raw) + 1
        /\ Delta(node.raw + 1, usage.raw) \in Nat /\ Delta(node.raw, usage.raw) \in Nat
    BY RestoreParts DEF Delta
  <2>2. node.answer >= 0 =>
            /\ Delta(node.raw + 1, node.answer) <= Delta(node.raw, node.answer) + 1
            /\ Delta(node.raw + 1, node.answer) \in Nat /\ Delta(node.raw, node.answer) \in Nat
            /\ Delta(node.answer, usage.raw) \in Nat
    BY RestoreParts DEF Delta
  <2> QED BY <1>1, <2>1, <2>2, RestoreParts DEF NodeTraffic, RestoreInv, MetersHold, MeterHolds
<1>4. native.met => MeterHolds(native)'
  <2>1. /\ Delta(node.raw + 1, native.raw) <= Delta(node.raw, native.raw) + 1
        /\ Delta(node.raw + 1, native.raw) \in Nat /\ Delta(node.raw, native.raw) \in Nat
    BY RestoreParts DEF Delta
  <2>2. node.answer >= 0 =>
            /\ Delta(node.raw + 1, node.answer) <= Delta(node.raw, node.answer) + 1
            /\ Delta(node.raw + 1, node.answer) \in Nat /\ Delta(node.raw, node.answer) \in Nat
            /\ Delta(node.answer, native.raw) \in Nat
    BY RestoreParts DEF Delta
  <2> QED BY <1>1, <2>1, <2>2, RestoreParts DEF NodeTraffic, RestoreInv, MetersHold, MeterHolds
<1>5. MetersHold'
  BY <1>3, <1>4 DEF NodeTraffic, RestoreInv, MetersHold
<1>6. RowKnows' /\ BeforeImport'
  BY DEF NodeTraffic, RestoreInv, RowKnows, BeforeImport
<1> QED BY <1>2, <1>5, <1>6 DEF NodeTraffic, RestoreInv, Entitled

\* A counter that starts anew adds nothing.
LEMMA NodeResetInv ==
    ASSUME RestoreInv, NodeReset
    PROVE  RestoreInv' /\ Entitled
<1>1. /\ node'.raw = 0 /\ node'.carried = node.carried /\ node'.answer = node.answer
      /\ node' \in [raw : Nat, carried : 0..MaxRemote, answer : Nat \union {-1}]
  BY DEF NodeReset, RestoreInv, RestoreTypeOK
<1>2. RestoreTypeOK'
  BY <1>1 DEF NodeReset, RestoreInv, RestoreTypeOK
<1>3. MeterHolds(usage)'
  <2>1. Delta(0, usage.raw) = 0 /\ Delta(node.raw, usage.raw) \in Nat
    BY RestoreParts DEF Delta
  <2>2. node.answer >= 0 => Delta(0, node.answer) = 0 /\ Delta(node.raw, node.answer) \in Nat
                            /\ Delta(node.answer, usage.raw) \in Nat
    BY RestoreParts DEF Delta
  <2> QED BY <1>1, <2>1, <2>2, RestoreParts DEF NodeReset, RestoreInv, MetersHold, MeterHolds
<1>4. native.met => MeterHolds(native)'
  <2>1. Delta(0, native.raw) = 0 /\ Delta(node.raw, native.raw) \in Nat
    BY RestoreParts DEF Delta
  <2>2. node.answer >= 0 => Delta(0, node.answer) = 0 /\ Delta(node.raw, node.answer) \in Nat
                            /\ Delta(node.answer, native.raw) \in Nat
    BY RestoreParts DEF Delta
  <2> QED BY <1>1, <2>1, <2>2, RestoreParts DEF NodeReset, RestoreInv, MetersHold, MeterHolds
<1>5. MetersHold'
  BY <1>3, <1>4 DEF NodeReset, RestoreInv, MetersHold
<1>6. RowKnows' /\ BeforeImport'
  BY DEF NodeReset, RestoreInv, RowKnows, BeforeImport
<1> QED BY <1>2, <1>5, <1>6 DEF NodeReset, RestoreInv, Entitled

\* An answer under way is worth what the counter is.
LEMMA NodeAnswersInv ==
    ASSUME RestoreInv, NodeAnswers
    PROVE  RestoreInv' /\ Entitled
<1>1. /\ node'.raw = node.raw /\ node'.carried = node.carried /\ node'.answer = node.raw
      /\ node' \in [raw : Nat, carried : 0..MaxRemote, answer : Nat \union {-1}]
  BY DEF NodeAnswers, RestoreInv, RestoreTypeOK
<1>2. RestoreTypeOK'
  BY <1>1 DEF NodeAnswers, RestoreInv, RestoreTypeOK
<1>3. MeterHolds(usage)' /\ (native.met => MeterHolds(native)')
  <2>1. /\ Delta(node.raw, node.raw) = 0 /\ Delta(node.raw, usage.raw) \in Nat
        /\ Delta(node.raw, native.raw) \in Nat
    BY RestoreParts DEF Delta
  <2> QED BY <1>1, <2>1, RestoreParts DEF NodeAnswers, RestoreInv, MetersHold, MeterHolds
<1>4. MetersHold'
  BY <1>3 DEF NodeAnswers, RestoreInv, MetersHold
<1>5. RowKnows' /\ BeforeImport'
  BY DEF NodeAnswers, RestoreInv, RowKnows, BeforeImport
<1> QED BY <1>2, <1>4, <1>5 DEF NodeAnswers, RestoreInv, Entitled

\* Both meters take the answer; what the counter ran on since then is still to come.
LEMMA NodeSampleInv ==
    ASSUME RestoreInv, NodeSample
    PROVE  RestoreInv' /\ Entitled
<1>1. /\ node'.raw = node.raw /\ node'.carried = node.carried /\ node'.answer = -1
      /\ node' \in [raw : Nat, carried : 0..MaxRemote, answer : Nat \union {-1}]
  BY DEF NodeSample, RestoreInv, RestoreTypeOK
<1>2. /\ node.answer \in Nat /\ node.answer >= 0 /\ Delta(node.answer, usage.raw) \in Nat
      /\ Delta(node.answer, native.raw) \in Nat /\ Delta(node.raw, node.answer) \in Nat
  BY RestoreParts DEF Delta, NodeSample
<1>3. /\ MeterHolds(usage)' /\ usage'.local = usage.local
      /\ usage' \in [local : Nat, remote : Nat, raw : Nat]
  <2>1. usage \in [local : Nat, remote : Nat, raw : Nat] /\ MeterHolds(usage)
    BY DEF RestoreInv, RestoreTypeOK, MetersHold
  <2>2. CASE sub.state = "active"
    <3> DEFINE d == Delta(node.answer, usage.raw)
    <3>0. /\ usage' = [usage EXCEPT !.remote = usage.remote + d, !.raw = node.answer]
          /\ usage.remote + d \in Nat
      BY <1>2, <2>1, <2>2 DEF NodeSample, WithSample
    <3> HIDE DEF d
    <3>2. /\ usage'.local = usage.local /\ usage'.raw = node.answer
          /\ usage'.remote = usage.remote + d
          /\ usage' \in [local : Nat, remote : Nat, raw : Nat]
      BY <1>2, <2>1, <3>0
    <3>1. /\ usage'.local = usage.local /\ usage'.raw = node.answer
          /\ usage'.remote = usage.remote + Delta(node.answer, usage.raw)
          /\ usage' \in [local : Nat, remote : Nat, raw : Nat]
      BY <3>2 DEF d
    <3> QED BY <1>1, <1>2, <2>1, <3>1 DEF MeterHolds
  <2>3. CASE sub.state # "active"
    <3>1. usage' = usage
      BY <2>3 DEF NodeSample
    <3> QED BY <1>1, <2>1, <3>1 DEF MeterHolds
  <2> QED BY <2>2, <2>3
<1> DEFINE Natives == [here : BOOLEAN, quota : Nat, used : Nat, last : Nat, manual : BOOLEAN,
                       met : BOOLEAN, raw : Nat, remote : Nat]
<1>4. native \in Natives
  BY DEF RestoreInv, RestoreTypeOK
<1>5. /\ native' \in Natives /\ native'.here = native.here
      /\ native'.met => MeterHolds(native)'
      /\ ~native'.met => native'.remote = 0
  <2>1. CASE ~native.here
    <3>1. native' = native
      BY <2>1 DEF NodeSample, NativeSample
    <3> QED BY <1>1, <1>4, <3>1 DEF RestoreInv, MetersHold, MeterHolds
  <2>2. CASE native.here /\ native.met
    <3>1. /\ native' \in Natives /\ native'.here = native.here /\ native'.met
          /\ native'.raw = node.answer
          /\ native'.remote = native.remote + Delta(node.answer, native.raw)
      <4> DEFINE cur == native.remote + Delta(node.answer, native.raw)
      <4>1. /\ native' = [native EXCEPT !.met = TRUE, !.raw = node.answer, !.remote = cur,
                                         !.used = native.last + cur]
            /\ cur \in Nat /\ native.last + cur \in Nat
        BY <1>2, <1>4, <2>2 DEF NodeSample, NativeSample
      <4> HIDE DEF cur
      <4>2. /\ native' \in Natives /\ native'.here = native.here /\ native'.met
            /\ native'.raw = node.answer /\ native'.remote = cur
        BY <1>2, <1>4, <4>1
      <4> QED BY <4>2 DEF cur
    <3> QED BY <1>1, <1>2, <2>2, <3>1 DEF RestoreInv, MetersHold, MeterHolds
  <2>3. CASE native.here /\ ~native.met
    <3>1. /\ native' \in Natives /\ native'.here = native.here /\ native'.met
          /\ native'.raw = node.answer /\ native'.remote = native.remote
      <4>1. /\ native' = [native EXCEPT !.met = TRUE, !.raw = node.answer,
                                         !.remote = native.remote,
                                         !.used = native.last + native.remote]
            /\ native.last + native.remote \in Nat
        BY <1>4, <2>3 DEF NodeSample, NativeSample
      <4> QED BY <1>2, <1>4, <4>1
    <3>2. native.remote = 0 /\ Delta(node.raw, node.answer) <= node.carried
      BY <1>2, <2>3, RestoreParts DEF RestoreInv, MetersHold, MeterHolds
    <3> QED BY <1>1, <1>2, <3>1, <3>2 DEF MeterHolds
  <2> QED BY <2>1, <2>2, <2>3
<1>6. RestoreTypeOK'
  BY <1>1, <1>3, <1>5 DEF NodeSample, RestoreInv, RestoreTypeOK
<1>7. MetersHold'
  BY <1>3, <1>5 DEF NodeSample, RestoreInv, MetersHold
<1>8. RowKnows' /\ BeforeImport'
  BY <1>5 DEF NodeSample, RestoreInv, RowKnows, BeforeImport
<1> QED BY <1>6, <1>7, <1>8 DEF NodeSample, RestoreInv, Entitled

\* Expiry changes no number.
LEMMA ExpiryInv ==
    ASSUME RestoreInv, Expiry
    PROVE  RestoreInv' /\ Entitled
<1>1. /\ sub' \in SubSet /\ sub'.state = sub.state /\ sub'.total = sub.total
      /\ sub'.legacy = sub.legacy
  BY RestoreParts DEF Expiry, SubSet
<1>2. RestoreTypeOK'
  BY <1>1 DEF Expiry, RestoreInv, RestoreTypeOK, SubSet
<1>3. MetersHold' /\ RowKnows' /\ BeforeImport'
  BY <1>1 DEF Expiry, RestoreInv, MetersHold, MeterHolds, RowKnows, BeforeImport
<1> QED BY <1>1, <1>2, <1>3 DEF Expiry, RestoreInv, Entitled

\* The steps of a promotion that only the thread itself sees.
LEMMA PromotionInv ==
    ASSUME RestoreInv, PromoteRead \/ AdoptRefused \/ HubKilled
    PROVE  RestoreInv' /\ Entitled
<1>1. /\ promo' \in [pc : {"idle", "adopt", "raise", "mark"}, dark : Nat]
      /\ sub.state = "none" => promo' = NoPromo
      /\ UNCHANGED <<sub, safe, coreClient, serving, usage, node, native, byHand>>
  <2>1. NoPromo \in [pc : {"idle", "adopt", "raise", "mark"}, dark : Nat]
    BY DEF NoPromo
  <2>2. Dark(usage) \in Nat
    BY RestoreParts DEF Dark
  <2> QED BY <2>1, <2>2 DEF PromoteRead, AdoptRefused, HubKilled
<1>2. RestoreTypeOK'
  BY <1>1 DEF RestoreInv, RestoreTypeOK
<1>3. MetersHold' /\ RowKnows' /\ BeforeImport'
  BY <1>1 DEF RestoreInv, MetersHold, MeterHolds, RowKnows, BeforeImport
<1> QED BY <1>1, <1>2, <1>3 DEF RestoreInv, Entitled

\* adopt(): the client of the manager starts with no sample of the Node.
LEMMA AdoptNativeInv ==
    ASSUME RestoreInv, AdoptNative
    PROVE  RestoreInv' /\ Entitled
<1> DEFINE quota == IF sub.total = 0 THEN 0
                    ELSE IF sub.total > sub.legacy THEN sub.total - sub.legacy ELSE 1
<1>1. quota \in Nat
  BY RestoreParts DEF SubSet
<1>2. native' = [here |-> TRUE, quota |-> quota, used |-> coreClient.up, last |-> coreClient.up,
                 manual |-> ~coreClient.on, met |-> FALSE, raw |-> 0, remote |-> 0]
  BY DEF AdoptNative, NoNative
<1> HIDE DEF quota
<1>3. (~coreClient.on) \in BOOLEAN /\ coreClient.up \in Nat
  BY RestoreParts
<1>4. /\ native' \in [here : BOOLEAN, quota : Nat, used : Nat, last : Nat, manual : BOOLEAN,
                       met : BOOLEAN, raw : Nat, remote : Nat]
      /\ native'.here /\ ~native'.met /\ native'.remote = 0
  BY <1>1, <1>2, <1>3
<1>5. /\ promo' \in [pc : {"idle", "adopt", "raise", "mark"}, dark : Nat]
      /\ UNCHANGED <<sub, safe, coreClient, serving, usage, node, byHand>>
  BY DEF AdoptNative, RestoreInv, RestoreTypeOK
<1>6. sub.state # "none"
  BY DEF AdoptNative, RestoreInv, BeforeImport, NoPromo
<1>7. RestoreTypeOK'
  BY <1>4, <1>5 DEF RestoreInv, RestoreTypeOK
<1>8. MetersHold' /\ RowKnows' /\ BeforeImport'
  BY <1>4, <1>5, <1>6 DEF RestoreInv, MetersHold, MeterHolds, RowKnows, BeforeImport
<1> QED BY <1>5, <1>7, <1>8 DEF RestoreInv, Entitled

\* The usage of a promotion raises used, and no meter.
LEMMA RaiseBaselineInv ==
    ASSUME RestoreInv, RaiseBaseline
    PROVE  RestoreInv' /\ Entitled
<1> DEFINE up == IF promo.dark > native.used THEN promo.dark ELSE native.used
           Natives == [here : BOOLEAN, quota : Nat, used : Nat, last : Nat, manual : BOOLEAN,
                       met : BOOLEAN, raw : Nat, remote : Nat]
<1>1. native \in Natives /\ promo \in [pc : {"idle", "adopt", "raise", "mark"}, dark : Nat]
  BY DEF RestoreInv, RestoreTypeOK
<1>2. up \in Nat
  BY <1>1
<1>3. native' = [native EXCEPT !.used = up]
  BY DEF RaiseBaseline
<1> HIDE DEF up
<1>4. /\ native' \in Natives /\ native'.here = native.here /\ native'.met = native.met
      /\ native'.raw = native.raw /\ native'.remote = native.remote
  BY <1>1, <1>2, <1>3
<1>5. /\ promo' \in [pc : {"idle", "adopt", "raise", "mark"}, dark : Nat]
      /\ UNCHANGED <<sub, safe, coreClient, serving, usage, node, byHand>>
  BY <1>1 DEF RaiseBaseline
<1>6. sub.state # "none"
  BY DEF RaiseBaseline, RestoreInv, BeforeImport, NoPromo
<1>7. RestoreTypeOK'
  BY <1>4, <1>5 DEF RestoreInv, RestoreTypeOK
<1>8. MetersHold' /\ RowKnows' /\ BeforeImport'
  BY <1>4, <1>5, <1>6 DEF RestoreInv, MetersHold, MeterHolds, RowKnows, BeforeImport
<1> QED BY <1>5, <1>7, <1>8 DEF RestoreInv, Entitled

\* Promoted: its restore meter stands still from here.
LEMMA MarkPromotedInv ==
    ASSUME RestoreInv, MarkPromoted
    PROVE  RestoreInv' /\ Entitled
<1>1. /\ sub' \in SubSet /\ sub'.state = "promoted" /\ sub'.total = sub.total
      /\ sub'.legacy = sub.legacy
  BY RestoreParts DEF MarkPromoted, SubSet
<1>2. promo' \in [pc : {"idle", "adopt", "raise", "mark"}, dark : Nat]
  BY DEF MarkPromoted, NoPromo
<1>3. RestoreTypeOK'
  BY <1>1, <1>2 DEF MarkPromoted, RestoreInv, RestoreTypeOK, SubSet
<1>4. MetersHold' /\ RowKnows' /\ BeforeImport'
  BY <1>1 DEF MarkPromoted, RestoreInv, MetersHold, MeterHolds, RowKnows, BeforeImport
<1> QED BY <1>1, <1>3, <1>4 DEF MarkPromoted, RestoreInv, Entitled

\* The tick recomputes used from the meters and leaves them alone.
LEMMA ManagerTickInv ==
    ASSUME RestoreInv, ManagerTick
    PROVE  RestoreInv' /\ Entitled
<1> DEFINE Natives == [here : BOOLEAN, quota : Nat, used : Nat, last : Nat, manual : BOOLEAN,
                       met : BOOLEAN, raw : Nat, remote : Nat]
           used == coreClient.up + native.remote
<1>1. native \in Natives /\ used \in Nat /\ coreClient.up \in Nat /\ native.here
  BY RestoreParts DEF ManagerTick, RestoreInv, RestoreTypeOK
<1>2. native' = [native EXCEPT !.last = coreClient.up, !.used = used]
  BY DEF ManagerTick
<1> HIDE DEF used
<1>3. /\ native' \in Natives /\ native'.here /\ native'.met = native.met
      /\ native'.raw = native.raw /\ native'.remote = native.remote
  BY <1>1, <1>2
<1>4. PICK free \in BOOLEAN : /\ coreClient' = [coreClient EXCEPT !.on = free]
                              /\ serving' \in {serving, free}
  <2> DEFINE free == /\ ~native.manual /\ sub.ends # "past"
                     /\ native.quota = 0 \/ coreClient.up + native.remote < native.quota
  <2>1. free \in BOOLEAN
    OBVIOUS
  <2> QED BY <2>1 DEF ManagerTick
<1>5. /\ coreClient' \in RestoredCores /\ coreClient'.up = coreClient.up
      /\ coreClient'.here = coreClient.here /\ serving' \in BOOLEAN
  BY <1>4, RestoreParts DEF RestoredCores, RestoreInv, RestoreTypeOK
<1>6. UNCHANGED <<sub, safe, usage, node, promo, byHand>>
  BY DEF ManagerTick
<1>7. RestoreTypeOK'
  BY <1>3, <1>5, <1>6 DEF RestoreInv, RestoreTypeOK, RestoredCores
<1>8. MetersHold' /\ RowKnows' /\ BeforeImport'
  BY <1>1, <1>3, <1>5, <1>6 DEF RestoreInv, MetersHold, MeterHolds, RowKnows, BeforeImport
<1> QED BY <1>1, <1>6, <1>7, <1>8 DEF RestoreInv, Entitled

\* Nothing was carried, nothing is metered.
LEMMA RestoreInitInv == RestoreInit => RestoreInv
<1> SUFFICES ASSUME RestoreInit PROVE RestoreInv
  OBVIOUS
<1>1. RestoreTypeOK
  <2>1. /\ NoSub \in SubSet /\ NoSafe \in SafeSet
    BY DEF NoSub, NoSafe, SubSet, SafeSet
  <2>2. NoCore \in RestoredCores
    BY RestoreAssumption DEF NoCore, RestoredCores
  <2>3. /\ NoNative \in [here : BOOLEAN, quota : Nat, used : Nat, last : Nat, manual : BOOLEAN,
                         met : BOOLEAN, raw : Nat, remote : Nat]
        /\ NoPromo \in [pc : {"idle", "adopt", "raise", "mark"}, dark : Nat]
    BY DEF NoNative, NoPromo
  <2>4. [local |-> 0, remote |-> 0, raw |-> 0] \in [local : Nat, remote : Nat, raw : Nat]
    OBVIOUS
  <2>5. [raw |-> 0, carried |-> 0, answer |-> -1]
            \in [raw : Nat, carried : 0..MaxRemote, answer : Nat \union {-1}]
    BY RestoreAssumption
  <2>6. /\ sub \in SubSet /\ safe \in SafeSet /\ coreClient \in RestoredCores
        /\ serving \in BOOLEAN /\ byHand \in BOOLEAN
    BY <2>1, <2>2 DEF RestoreInit
  <2> QED BY <2>3, <2>4, <2>5, <2>6
          DEF RestoreInit, RestoreTypeOK, SubSet, SafeSet, RestoredCores
<1>2. MetersHold
  BY DEF RestoreInit, MetersHold, MeterHolds, Delta, NoSub, NoCore, NoNative
<1>3. BeforeImport /\ RowKnows
  BY DEF RestoreInit, BeforeImport, RowKnows, NoSub, NoNative
<1> QED BY <1>1, <1>2, <1>3 DEF RestoreInv

\* One lemma per action, with what SwitchedOnIsEntitled says of it.
LEMMA RestoreStep == RestoreInv /\ [RestoreNext]_restoreVars => RestoreInv' /\ Entitled
<1> SUFFICES ASSUME RestoreInv, [RestoreNext]_restoreVars PROVE RestoreInv' /\ Entitled
  OBVIOUS
<1>1. CASE \E p \in Scans : ImportNew(p) \/ Reimport(p) \/ Review(p)
  BY <1>1, ImportInv, ReimportInv, ReviewInv
<1>2. CASE \E off \in BOOLEAN : SetSuspension(off)
  BY <1>2, SuspensionInv
<1>3. CASE Archive \/ Reconcile \/ SwitchedOff
  BY <1>3, ArchiveInv, ReconcileInv, SwitchedOffInv
<1>4. CASE LocalTraffic \/ NodeTraffic \/ NodeReset \/ NodeAnswers \/ NodeSample \/ Expiry
  BY <1>4, LocalTrafficInv, NodeTrafficInv, NodeResetInv, NodeAnswersInv, NodeSampleInv, ExpiryInv
<1>5. CASE PromoteRead \/ AdoptNative \/ AdoptRefused \/ RaiseBaseline \/ MarkPromoted \/ HubKilled
  BY <1>5, PromotionInv, AdoptNativeInv, RaiseBaselineInv, MarkPromotedInv
<1>6. CASE ManagerTick
  BY <1>6, ManagerTickInv
<1>7. CASE UNCHANGED restoreVars
  BY <1>7 DEF restoreVars, RestoreInv, RestoreTypeOK, BeforeImport, MetersHold, MeterHolds,
              RowKnows, Entitled
<1> QED BY <1>1, <1>2, <1>3, <1>4, <1>5, <1>6, <1>7 DEF RestoreNext

\* The meters hold in every state.
LEMMA RestoreInvariant == RestoreSpec => []RestoreInv
<1> QED BY RestoreInitInv, RestoreStep, PTL DEF RestoreSpec

\* The rows of a restored subscription and of its promotion keep their types
\* (dark_restore.py, restore_safety.py, restore_promotion.py).
THEOREM RestoreTypeCorrect == RestoreSpec => []RestoreTypeOK
<1>1. RestoreInv => RestoreTypeOK
  BY DEF RestoreInv
<1> QED BY <1>1, RestoreInvariant, PTL

\* Whatever happens to the Node's counter and to the answers under way, what is metered of
\* a subscription was carried: every byte here, and no byte of the Node twice
\* (record_node_usage, restore_local_usage_v1, apply_traffic_snapshot).
THEOREM UsageHolds == RestoreSpec => []UsageIsTraffic
<1>1. RestoreInv => UsageIsTraffic
  <2> SUFFICES ASSUME RestoreInv PROVE UsageIsTraffic
    OBVIOUS
  <2>1. Delta(node.raw, usage.raw) \in Nat /\ Delta(node.raw, native.raw) \in Nat
    BY RestoreParts DEF Delta
  <2> QED BY <2>1, RestoreParts DEF RestoreInv, MetersHold, MeterHolds, UsageIsTraffic
<1> QED BY <1>1, RestoreInvariant, PTL

\* A restored client is switched on only when reconcile() finds it eligible and nobody has
\* it switched off elsewhere; its numbers change by hand only once anything depends on them.
THEOREM SwitchingHolds == RestoreSpec => SwitchedOnIsEntitled
<1>1. RestoreInv /\ [RestoreNext]_restoreVars => [Entitled]_restoreVars
  BY RestoreStep
<1> QED BY <1>1, RestoreInvariant, PTL DEF RestoreSpec, SwitchedOnIsEntitled, Entitled
=============================================================================
