------------------------------- MODULE Shop_proofs -------------------------------
(***************************************************************************)
(* The money of the Hub, for any number of customers, orders, panels and   *)
(* concurrent handlers, any prices and any credit.                         *)
(* CustomerWallet: balances are the sums of their ledgers.  Orders: one    *)
(* service per paid order, for the time paid for.  RepMarket: a paid panel *)
(* is opened or refunded, a suspended one is closed.  CreditLedger: what   *)
(* representatives spend, allocate and consume.                            *)
(***************************************************************************)
EXTENDS MCShop, FiniteSums

-----------------------------------------------------------------------------
(* Wallets *)

Deltas(S) == [e \in S |-> e.delta]
Mine(w, c) == {e \in w.led : e.who = c}

\* A ledger, as a sum over a function.
LEMMA LedgerSum ==
    ASSUME NEW S, IsFiniteSet(S), \A e \in S : e.delta \in Int
    PROVE  MapThenSumSet(LAMBDA e : e.delta, S) = Sum(Deltas(S), S)
<1> DEFINE v == Deltas(S)
           Step(h) == [s \in SUBSET S |-> IF s = {} THEN 0 ELSE Pick(s).delta + h[s \ {Pick(s)}]]
           f == CHOOSE h : h = Step(h)
<1>1. Terms(v, S) /\ \A x \in S : v[x] = x.delta
  BY DEF Terms, Deltas
<1> HIDE DEF v
<1>2. PICK g \in [SUBSET S -> Int] : Adder(g, v, S)
  BY <1>1, AddingExists
<1>3. g = Step(g)
  <2> SUFFICES ASSUME NEW s \in SUBSET S
               PROVE  g[s] = IF s = {} THEN 0 ELSE Pick(s).delta + g[s \ {Pick(s)}]
    OBVIOUS
  <2>1. s # {} => v[Pick(s)] = Pick(s).delta
    BY <1>1 DEF Pick
  <2> QED BY <1>2, <2>1 DEF Adder, Adds
<1>4. f = Step(f)
  BY <1>3
<1>5. MapThenSumSet(LAMBDA e : e.delta, S) = f[S]
  BY DEF MapThenSumSet, MapThenFoldSet, Pick
<1> HIDE DEF f
<1>6. Adder(f, v, S)
  <2> SUFFICES ASSUME NEW s \in SUBSET S PROVE Adds(f, v, s)
    BY DEF Adder
  <2>1. s # {} => v[Pick(s)] = Pick(s).delta
    BY <1>1 DEF Pick
  <2>2. f[s] = IF s = {} THEN 0 ELSE Pick(s).delta + f[s \ {Pick(s)}]
    BY <1>4
  <2> QED BY <2>1, <2>2 DEF Adds
<1>7. f[S] = Sum(v, S)
  BY <1>1, <1>6, AddedIsSum
<1> QED BY <1>5, <1>7 DEF v

\* A wallet that is in order: its ledger is finite, names each reference once, and adds up
\* to the balances.
WalletHolds(w) ==
    /\ w.bal \in [Customers -> Nat]
    /\ IsFiniteSet(w.led)
    /\ \A e \in w.led : e.who \in Customers /\ e.delta \in Int
    /\ \A e, f \in w.led : e.kind = f.kind /\ e.ref = f.ref => e = f
    /\ \A c \in Customers : w.bal[c] = Sum(Deltas(Mine(w, c)), Mine(w, c))

\* Such a wallet is what the runs check.
LEMMA WalletHoldsBalance ==
    ASSUME WalletHolds(wallet) PROVE BalanceIsLedger
<1> SUFFICES ASSUME NEW c \in Customers
             PROVE  wallet.bal[c] >= 0
                    /\ wallet.bal[c] = MapThenSumSet(LAMBDA e : e.delta, {e \in wallet.led : e.who = c})
  BY DEF WalletHolds, BalanceIsLedger
<1>1. IsFiniteSet(Mine(wallet, c)) /\ \A e \in Mine(wallet, c) : e.delta \in Int
  BY FS_Subset DEF Mine, WalletHolds
<1>2. MapThenSumSet(LAMBDA e : e.delta, Mine(wallet, c)) = Sum(Deltas(Mine(wallet, c)), Mine(wallet, c))
  BY <1>1, LedgerSum
<1> QED BY <1>2 DEF WalletHolds, Mine

\* A movement under a new reference adds one entry to one customer's ledger.
LEMMA MovedHolds ==
    ASSUME NEW w, WalletHolds(w), NEW c \in Customers, NEW d \in Int, NEW kind, NEW ref,
           HasEntry(w, kind, ref) \/ w.bal[c] + d >= 0
    PROVE  /\ WalletHolds(Moved(w, c, d, kind, ref))
           /\ \A k, r : HasEntry(Moved(w, c, d, kind, ref), k, r)
                          <=> HasEntry(w, k, r) \/ (k = kind /\ r = ref)
<1>1. CASE HasEntry(w, kind, ref)
  BY <1>1 DEF Moved
<1>2. CASE ~HasEntry(w, kind, ref)
  <2> DEFINE new == [kind |-> kind, ref |-> ref, who |-> c, delta |-> d]
             m == Moved(w, c, d, kind, ref)
  <2>1. m.bal = [w.bal EXCEPT ![c] = @ + d] /\ m.led = w.led \union {new}
    BY <1>2 DEF Moved
  <2>2. new \notin w.led /\ \A e \in w.led : e.kind = kind => e.ref # ref
    BY <1>2 DEF HasEntry
  <2>3. new.kind = kind /\ new.ref = ref /\ new.who = c /\ new.delta = d
    OBVIOUS
  <2> HIDE DEF new, m
  <2>4. m.bal \in [Customers -> Nat]
    BY <1>2, <2>1 DEF WalletHolds
  <2>5. IsFiniteSet(m.led)
    BY <2>1, FS_AddElement DEF WalletHolds
  <2>6. \A e \in m.led : e.who \in Customers /\ e.delta \in Int
    BY <2>1, <2>3 DEF WalletHolds
  <2>7. \A e, f \in m.led : e.kind = f.kind /\ e.ref = f.ref => e = f
    BY <2>1, <2>2, <2>3 DEF WalletHolds
  <2>8. ASSUME NEW b \in Customers PROVE m.bal[b] = Sum(Deltas(Mine(m, b)), Mine(m, b))
    <3>1. CASE b # c
      <4>1. Mine(m, b) = Mine(w, b) /\ m.bal[b] = w.bal[b]
        BY <2>1, <2>3, <3>1 DEF Mine, WalletHolds
      <4> QED BY <4>1 DEF WalletHolds
    <3>2. CASE b = c
      <4> DEFINE S == Mine(w, c)
                 U == S \union {new}
      <4>1. Mine(m, c) = U /\ new \notin S /\ m.bal[c] = w.bal[c] + d
        BY <2>1, <2>2, <2>3 DEF Mine, WalletHolds
      <4>2. IsFiniteSet(S) /\ IsFiniteSet(U)
        BY FS_Subset, FS_AddElement DEF Mine, WalletHolds
      <4>3. Terms(Deltas(U), U) /\ Terms(Deltas(S), S) /\ Deltas(U)[new] = d
        BY <2>3 DEF Terms, Deltas, Mine, WalletHolds
      <4>4. \A e \in S : Deltas(U)[e] = Deltas(S)[e]
        BY DEF Deltas
      <4>5. w.bal[c] = Sum(Deltas(S), S)
        BY DEF WalletHolds
      <4> HIDE DEF S
      <4>6. Sum(Deltas(U), U) = Deltas(U)[new] + Sum(Deltas(U), S)
        BY <4>1, <4>2, <4>3, SumAddsElement
      <4>7. Sum(Deltas(U), S) = Sum(Deltas(S), S) /\ Sum(Deltas(S), S) \in Int
        BY <4>2, <4>3, <4>4, SameTermsSameSum, SumType
      <4>8. Sum(Deltas(U), U) = w.bal[c] + d
        BY <4>3, <4>5, <4>6, <4>7
      <4> QED BY <3>2, <4>1, <4>8
    <3> QED BY <3>1, <3>2
  <2>9. WalletHolds(m)
    BY <2>4, <2>5, <2>6, <2>7, <2>8 DEF WalletHolds
  <2>10. \A k, r : HasEntry(m, k, r) <=> HasEntry(w, k, r) \/ (k = kind /\ r = ref)
    BY <2>1, <2>3 DEF HasEntry
  <2> QED BY <2>9, <2>10 DEF m
<1> QED BY <1>1, <1>2

\* Top-ups, referrals and the clerks that handle them.
TopupsHold ==
    /\ topups \in [Topups -> [who : Customers \union {Nobody},
           st : {"none", "awaiting_receipt", "review", "rejected", "approved"}]]
    /\ referral \in [Customers -> [by : Customers \union {Nobody}, qualified : BOOLEAN]]
    /\ clerk \in [Clerks -> [pc : {"idle", "review", "rejected"}, k : Topups \union {0}]]
    /\ \A k \in Topups : topups[k].st # "none" => topups[k].who \in Customers
    /\ \A t \in Clerks : clerk[t].pc # "idle" =>
           clerk[t].k \in Topups /\ topups[clerk[t].k].st # "none"

\* The inductive invariant of the wallets.
WalletInv == WalletHolds(wallet) /\ TopupsHold

\* The invariant implies the properties of the wallets.
LEMMA WalletInvShows == WalletInv => WalletTypeOK /\ BalanceIsLedger
BY WalletHoldsBalance DEF WalletInv, WalletHolds, TopupsHold, WalletTypeOK

\* A wallet starts with one entry for each buyer.
LEMMA WalletInvInit ==
    ASSUME NEW funds \in Nat,
           NEW referrals \in SUBSET [Customers -> [by : Customers \union {Nobody}, qualified : BOOLEAN]],
           WalletInit(funds, referrals)
    PROVE  WalletInv /\ \A kind, ref : HasEntry(wallet, kind, ref) => kind = "topup"
<1> DEFINE entry(c) == [kind |-> "topup", ref |-> c, who |-> c, delta |-> funds]
           f == [c \in Buyers |-> entry(c)]
<1>1. wallet.led = {entry(c) : c \in Buyers}
      /\ wallet.bal = [c \in Customers |-> IF c \in Buyers THEN funds ELSE 0]
  BY DEF WalletInit
<1>2. \A c : entry(c).kind = "topup" /\ entry(c).ref = c /\ entry(c).who = c
             /\ entry(c).delta = funds
  OBVIOUS
<1>3. IsFiniteSet(wallet.led)
  <2>1. f \in Surjection(Buyers, wallet.led)
    BY <1>1 DEF Surjection
  <2>2. IsFiniteSet(Buyers)
    BY WalletAssumption, FS_Subset
  <2> HIDE DEF f
  <2> QED BY <2>1, <2>2, FS_Surjection
<1> HIDE DEF entry, f
<1>4. ASSUME NEW c \in Customers
      PROVE  wallet.bal[c] = Sum(Deltas(Mine(wallet, c)), Mine(wallet, c))
  <2>1. CASE c \in Buyers
    <3>1. Mine(wallet, c) = {entry(c)}
      BY <1>1, <1>2, <2>1 DEF Mine
    <3>2. Terms(Deltas({entry(c)}), {} \union {entry(c)}) /\ Deltas({entry(c)})[entry(c)] = funds
      BY <1>2 DEF Terms, Deltas
    <3>3. Sum(Deltas({entry(c)}), {} \union {entry(c)})
             = Deltas({entry(c)})[entry(c)] + Sum(Deltas({entry(c)}), {})
      BY <3>2, FS_EmptySet, SumAddsElement
    <3>4. Sum(Deltas({entry(c)}), {}) = 0
      BY SumOfNone
    <3>5. {} \union {entry(c)} = {entry(c)}
      OBVIOUS
    <3> QED BY <1>1, <2>1, <3>1, <3>2, <3>3, <3>4, <3>5
  <2>2. CASE c \notin Buyers
    <3>1. Mine(wallet, c) = {}
      BY <1>1, <1>2, <2>2 DEF Mine
    <3> QED BY <1>1, <2>2, <3>1, SumOfNone
  <2> QED BY <2>1, <2>2
<1>5. WalletHolds(wallet)
  <2>1. wallet.bal \in [Customers -> Nat]
    BY <1>1
  <2>2. \A e \in wallet.led : e.who \in Customers /\ e.delta \in Int
    BY <1>1, <1>2, WalletAssumption
  <2>3. \A e, g \in wallet.led : e.kind = g.kind /\ e.ref = g.ref => e = g
    BY <1>1, <1>2
  <2> QED BY <1>3, <1>4, <2>1, <2>2, <2>3 DEF WalletHolds
<1>6. TopupsHold
  BY DEF WalletInit, TopupsHold
<1>7. \A kind, ref : HasEntry(wallet, kind, ref) => kind = "topup"
  BY <1>1, <1>2 DEF HasEntry
<1> QED BY <1>5, <1>6, <1>7 DEF WalletInv

\* The latest of some numbered things is one of them.
LEMMA LatestIsOne ==
    ASSUME NEW S \in SUBSET Nat, IsFiniteSet(S), S # {} PROVE Latest(S) \in S
<1>1. \E m \in S : \A x \in S : x <= m
  BY FiniteSetHasMax
<1> QED BY <1>1 DEF Latest

\* The operations on top-ups and referrals keep the wallets in order, and no reference
\* is forgotten.
LEMMA WalletInvNext ==
    ASSUME WalletInv, WalletNext
    PROVE  WalletInv' /\ \A kind, ref : HasEntry(wallet, kind, ref) => HasEntry(wallet', kind, ref)
<1> USE DEF WalletInv, TopupsHold
<1>1. ASSUME NEW k \in Topups, NEW c \in Customers, CreateTopup(k, c)
      PROVE  TopupsHold' /\ wallet' = wallet
  BY <1>1 DEF CreateTopup
<1>2. ASSUME NEW t \in Clerks, NEW c \in Customers, TopupReceiptRead(t, c)
      PROVE  TopupsHold' /\ wallet' = wallet
  <2> DEFINE waiting == {k \in Topups : topups[k] = [who |-> c, st |-> "awaiting_receipt"]}
  <2>1. /\ waiting # {}
        /\ clerk' = [clerk EXCEPT ![t] = [pc |-> "review", k |-> Latest(waiting)]]
        /\ UNCHANGED <<wallet, topups, referral>>
    BY <1>2 DEF TopupReceiptRead
  <2>2. waiting \in SUBSET Nat /\ IsFiniteSet(waiting)
    BY WalletAssumption, FS_Subset
  <2> HIDE DEF waiting
  <2>3. Latest(waiting) \in waiting
    BY <2>1, <2>2, LatestIsOne
  <2>4. Latest(waiting) \in Topups /\ topups[Latest(waiting)].st # "none"
    BY <2>3 DEF waiting
  <2> QED BY <2>1, <2>4
<1>3. ASSUME NEW t \in Clerks, NEW k \in Topups, RejectTopupRead(t, k)
      PROVE  TopupsHold' /\ wallet' = wallet
  BY <1>3 DEF RejectTopupRead
<1>4. ASSUME NEW t \in Clerks, TopupWrite(t) PROVE TopupsHold' /\ wallet' = wallet
  BY <1>4 DEF TopupWrite
<1>5. ASSUME NEW k \in Topups, ApproveTopup(k)
      PROVE  /\ TopupsHold' /\ WalletHolds(wallet')
             /\ \A kind, ref : HasEntry(wallet, kind, ref) => HasEntry(wallet', kind, ref)
  <2>1. TopupsHold'
    BY <1>5 DEF ApproveTopup
  <2> DEFINE c == topups[k].who
  <2>2. c \in Customers /\ wallet' = Moved(wallet, c, TopupAmount, "topup", k)
    BY <1>5 DEF ApproveTopup, Credited
  <2>3. TopupAmount \in Int /\ wallet.bal[c] + TopupAmount >= 0
    BY <2>2, WalletAssumption DEF WalletHolds
  <2> HIDE DEF c
  <2> QED BY <2>1, <2>2, <2>3, MovedHolds
<1>6. ASSUME NEW c \in Customers, NEW by \in Customers, RegisterReferral(c, by)
      PROVE  TopupsHold' /\ wallet' = wallet
  BY <1>6 DEF RegisterReferral
<1> QED BY <1>1, <1>2, <1>3, <1>4, <1>5, <1>6 DEF WalletNext

\* A referral brings its reward once.
LEMMA QualifyHolds ==
    ASSUME WalletInv, NEW c \in Customers, Qualify(c), UNCHANGED <<topups, clerk>>
    PROVE  /\ WalletInv'
           /\ \A kind, ref : HasEntry(wallet, kind, ref) => HasEntry(wallet', kind, ref)
<1>0. TopupsHold'
  <2>1. \/ referral' = referral
        \/ referral' = [referral EXCEPT ![c] = [@ EXCEPT !.qualified = TRUE]]
    BY DEF Qualify
  <2>2. referral' \in [Customers -> [by : Customers \union {Nobody}, qualified : BOOLEAN]]
    BY <2>1 DEF WalletInv, TopupsHold
  <2>3. topups' = topups /\ clerk' = clerk
    OBVIOUS
  <2> QED BY <2>2, <2>3 DEF WalletInv, TopupsHold
<1>1. CASE wallet' = wallet
  BY <1>0, <1>1 DEF WalletInv, WalletHolds
<1>2. CASE wallet' # wallet
  <2> DEFINE b == referral[c].by
  <2>1. b \in Customers /\ wallet' = Moved(wallet, b, Reward, "referral", c)
    BY <1>2 DEF Qualify, Credited, WalletInv, TopupsHold
  <2>2. Reward \in Int /\ wallet.bal[b] + Reward >= 0
    BY <2>1, WalletAssumption DEF WalletInv, WalletHolds
  <2> HIDE DEF b
  <2> QED BY <1>0, <2>1, <2>2, MovedHolds DEF WalletInv
<1> QED BY <1>1, <1>2

\* A debit that is covered.
LEMMA DebitHolds ==
    ASSUME WalletInv, NEW c \in Customers, NEW n \in Nat, NEW kind, NEW ref,
           CanDebit(wallet, c, n, kind, ref), wallet' = Debited(wallet, c, n, kind, ref),
           UNCHANGED <<topups, referral, clerk>>
    PROVE  /\ WalletInv'
           /\ \A k, r : HasEntry(wallet', k, r) <=> HasEntry(wallet, k, r) \/ (k = kind /\ r = ref)
<1>1. -n \in Int /\ (HasEntry(wallet, kind, ref) \/ wallet.bal[c] + (-n) >= 0)
  BY DEF CanDebit, WalletInv, WalletHolds
<1>2. wallet' = Moved(wallet, c, -n, kind, ref)
  BY DEF Debited
<1>3. TopupsHold'
  BY DEF WalletInv, TopupsHold
<1> QED BY <1>1, <1>2, <1>3, MovedHolds DEF WalletInv

\* A step that does not touch them.
LEMMA WalletUntouched ==
    ASSUME WalletInv, UNCHANGED walletVars
    PROVE  WalletInv' /\ \A kind, ref : HasEntry(wallet, kind, ref) <=> HasEntry(wallet', kind, ref)
BY DEF walletVars, WalletInv, WalletHolds, TopupsHold

-----------------------------------------------------------------------------
(* Service orders *)

PaidFor(o) == o \in backed \/ HasEntry(wallet, "purchase", o)
PaidRenewals(s) == {o \in Orders : orders[o].target = s /\ HasEntry(wallet, "renewal", o)}

\* An order that exists has a buyer; a service it got was paid for, and the end a renewal
\* will write is covered once the renewal itself is paid.
RowHolds(o) ==
    /\ orders[o].st = "none" => orders[o] = NoOrder
    /\ orders[o].st # "none" => orders[o].buyer \in Buyers
    /\ orders[o].stamp \in Ends \union {0}
    /\ orders[o].st \in {"provisioned", "provisioned_waiting_activation"} => PaidFor(o)
    /\ orders[o].st # "none" /\ orders[o].type = "renewal" =>
           /\ orders[o].target \in Orders
           /\ orders[o].end <= Max(Ends) + Cardinality(PaidRenewals(orders[o].target) \union {o})

ServiceHolds(o) ==
    /\ service[o].made <= 1
    /\ service[o].made > 0 => PaidFor(o)
    /\ service[o].end <= Max(Ends) + Cardinality(PaidRenewals(o))

\* What a handler works on exists; it provisions and renews what was paid for.
JobHolds(j) ==
    /\ j.pc # "idle" => j.o \in Orders /\ orders[j.o].st # "none"
    /\ j.pc \in {"provision", "mark"} => PaidFor(j.o)
    /\ j.pc \in {"renew", "reset", "renewed"} =>
           orders[j.o].type = "renewal" /\ HasEntry(wallet, "renewal", j.o)

\* The services that orders refer to belong to orders that exist.
LinksHold ==
    \A o, s \in Orders : orders[o].client = s \/ orders[o].target = s => orders[s].st # "none"

\* The inductive invariant of the orders.
OrderInv ==
    /\ WalletInv
    /\ OrdersTypeOK
    /\ \A o \in Orders : RowHolds(o) /\ ServiceHolds(o)
    /\ LinksHold
    /\ \A t \in Handlers : JobHolds(job[t])

\* The last possible end of a first period.
LEMMA LastEnd ==
    /\ Max(Ends) \in Nat /\ Max(Ends) >= 1
    /\ \A e \in Ends : e <= Max(Ends)
<1>1. \E m \in Ends : \A x \in Ends : x <= m
  BY OrdersAssumption, FiniteSetHasMax
<1>2. \E m \in Ends : \A x \in Ends : m >= x
  BY <1>1, OrdersAssumption
<1> QED BY <1>2, OrdersAssumption DEF Max

\* The invariant implies the properties of the orders.
LEMMA OrderInvShows == OrderInv =>
    WalletTypeOK /\ BalanceIsLedger /\ OrdersTypeOK /\ OneServicePerPaidOrder /\ ServiceTimeIsPaid
BY WalletInvShows
   DEF OrderInv, OneServicePerPaidOrder, ServiceTimeIsPaid, ServiceHolds, PaidFor, PaidRenewals

\* No order, no service, no handler at work.
LEMMA OrderInvInit ==
    ASSUME WalletInit(1, Invited), part = "orders", OrdersInit,
           WalletInv, \A kind, ref : HasEntry(wallet, kind, ref) => kind = "topup"
    PROVE  OrderInv
<1>1. OrdersTypeOK
  BY OrdersAssumption DEF OrdersInit, OrdersTypeOK, NoOrder, Idle, Statuses
<1>2. ASSUME NEW o \in Orders PROVE RowHolds(o)
  BY DEF OrdersInit, RowHolds, NoOrder
<1>3. ASSUME NEW o \in Orders PROVE ServiceHolds(o)
  <2>1. IsFiniteSet(PaidRenewals(o))
    BY OrdersAssumption, FS_Subset DEF PaidRenewals
  <2>2. Cardinality(PaidRenewals(o)) \in Nat
    BY <2>1, FS_CardinalityType
  <2> QED BY <2>2, LastEnd DEF OrdersInit, ServiceHolds
<1>4. ASSUME NEW t \in Handlers PROVE JobHolds(job[t])
  BY DEF OrdersInit, JobHolds, Idle
<1>5. LinksHold
  BY OrdersAssumption DEF OrdersInit, LinksHold, NoOrder
<1> QED BY <1>1, <1>2, <1>3, <1>4, <1>5 DEF OrderInv

-----------------------------------------------------------------------------
(* What no step of an order undoes *)

Steady ==
    /\ \A o \in Orders : orders[o].st # "none" =>
           /\ orders'[o].st # "none"
           /\ orders'[o].type = orders[o].type /\ orders'[o].buyer = orders[o].buyer
           /\ orders'[o].target = orders[o].target /\ orders'[o].end = orders[o].end
    /\ \A kind, ref : HasEntry(wallet, kind, ref) => HasEntry(wallet', kind, ref)
    /\ backed \subseteq backed'

\* What a step does to the orders, the services and the handlers it touches.
Effect ==
    /\ Steady
    /\ WalletInv' /\ OrdersTypeOK'
    /\ \A o \in Orders :
           IF orders[o].st = "none" THEN orders'[o] = NoOrder \/ RowHolds(o)'
           ELSE /\ orders'[o].stamp \in Ends \union {0}
                /\ orders'[o].st \in {"provisioned", "provisioned_waiting_activation"} => PaidFor(o)'
    /\ \A o, s \in Orders : orders'[o].client = s \/ orders'[o].target = s =>
           orders[o].client = s \/ orders[o].target = s \/ orders[s].st # "none"
    /\ \A o \in Orders : service'[o] = service[o] \/ ServiceHolds(o)'
    /\ \A t \in Handlers : job'[t] = job[t] \/ JobHolds(job[t])'

\* What is paid stays paid.
LEMMA PaidStaysPaid ==
    ASSUME OrderInv, Steady
    PROVE  /\ \A o \in Orders : PaidFor(o) => PaidFor(o)'
           /\ \A s \in Orders :
                  /\ PaidRenewals(s) \subseteq PaidRenewals(s)'
                  /\ IsFiniteSet(PaidRenewals(s)')
                  /\ Cardinality(PaidRenewals(s)') \in Nat
                  /\ Cardinality(PaidRenewals(s)) \in Nat
                  /\ Cardinality(PaidRenewals(s)) <= Cardinality(PaidRenewals(s)')
<1>1. \A o \in Orders : PaidFor(o) => PaidFor(o)'
  BY DEF PaidFor, Steady
<1>2. ASSUME NEW s \in Orders
      PROVE  /\ PaidRenewals(s) \subseteq PaidRenewals(s)'
             /\ IsFiniteSet(PaidRenewals(s)')
             /\ Cardinality(PaidRenewals(s)') \in Nat
             /\ Cardinality(PaidRenewals(s)) \in Nat
             /\ Cardinality(PaidRenewals(s)) <= Cardinality(PaidRenewals(s)')
  <2>1. ASSUME NEW o \in PaidRenewals(s) PROVE o \in PaidRenewals(s)'
    <3>1. o \in Orders /\ orders[o].target = s /\ HasEntry(wallet, "renewal", o)
      BY <2>1 DEF PaidRenewals
    <3>2. orders[o].st # "none"
      <4>1. orders[o].st = "none" => orders[o].target = 0
        <5>1. RowHolds(o)
          BY <3>1 DEF OrderInv
        <5> QED BY <5>1 DEF RowHolds, NoOrder
      <4> QED BY <3>1, <4>1, OrdersAssumption
    <3> QED BY <3>1, <3>2 DEF Steady, PaidRenewals
  <2>2. IsFiniteSet(PaidRenewals(s)')
    BY OrdersAssumption, FS_Subset DEF PaidRenewals
  <2>3. Cardinality(PaidRenewals(s)) <= Cardinality(PaidRenewals(s)')
    BY <2>1, <2>2, FS_Subset
  <2>4. IsFiniteSet(PaidRenewals(s))
    BY OrdersAssumption, FS_Subset DEF PaidRenewals
  <2> QED BY <2>1, <2>2, <2>3, <2>4, FS_CardinalityType
<1> QED BY <1>1, <1>2

\* A step with such an effect keeps the invariant.
LEMMA EffectKeepsOrders == ASSUME OrderInv, Effect PROVE OrderInv'
<1>1. Steady /\ WalletInv' /\ OrdersTypeOK'
  BY DEF Effect
<1>2. ASSUME NEW o \in Orders PROVE RowHolds(o)'
  <2>1. CASE orders[o].st = "none"
    <3>1. CASE orders'[o] = NoOrder
      BY <3>1 DEF RowHolds, NoOrder
    <3> QED BY <2>1, <3>1 DEF Effect
  <2>2. CASE orders[o].st # "none"
    <3>1. orders'[o].st # "none" /\ orders'[o].buyer \in Buyers
      BY <1>1, <2>2 DEF OrderInv, RowHolds, Steady
    <3>2. /\ orders'[o].stamp \in Ends \union {0}
          /\ orders'[o].st \in {"provisioned", "provisioned_waiting_activation"} => PaidFor(o)'
      BY <2>2 DEF Effect
    <3>3. PICK s : s = orders[o].target
      OBVIOUS
    <3>4. orders'[o].target = s /\ orders'[o].end = orders[o].end
      BY <1>1, <2>2, <3>3 DEF Steady
    <3>5. ASSUME orders'[o].type = "renewal"
          PROVE  /\ s \in Orders
                 /\ orders'[o].end <= Max(Ends) + Cardinality(PaidRenewals(s)' \union {o})
      <4> DEFINE P == PaidRenewals(s)
                 Q == PaidRenewals(s)'
      <4>1. s \in Orders /\ orders[o].end <= Max(Ends) + Cardinality(P \union {o})
        BY <1>1, <2>2, <3>3, <3>5 DEF OrderInv, RowHolds, Steady
      <4>2. P \subseteq Q /\ IsFiniteSet(Q)
        BY <1>1, <4>1, PaidStaysPaid
      <4>3. orders[o].end \in Nat
        BY DEF OrderInv, OrdersTypeOK
      <4> HIDE DEF P, Q
      <4>4. /\ IsFiniteSet(Q \union {o}) /\ P \union {o} \subseteq Q \union {o}
        BY <4>2, FS_AddElement
      <4>5. /\ Cardinality(P \union {o}) <= Cardinality(Q \union {o})
            /\ IsFiniteSet(P \union {o})
        BY <4>4, FS_Subset
      <4>6. Cardinality(P \union {o}) \in Nat /\ Cardinality(Q \union {o}) \in Nat
        BY <4>4, <4>5, FS_CardinalityType
      <4>7. orders'[o].end <= Max(Ends) + Cardinality(Q \union {o})
        BY <3>4, <4>1, <4>3, <4>5, <4>6, LastEnd
      <4> QED BY <4>1, <4>7 DEF Q
    <3>6. PaidRenewals(orders[o].target)' = PaidRenewals(s)'
      BY <3>4 DEF PaidRenewals
    <3> QED BY <3>1, <3>2, <3>4, <3>5, <3>6 DEF RowHolds
  <2> QED BY <2>1, <2>2
<1>3. ASSUME NEW o \in Orders PROVE ServiceHolds(o)'
  <2>1. CASE service'[o] = service[o]
    <3>1. /\ service[o].made <= 1
          /\ service[o].made > 0 => PaidFor(o)
          /\ service[o].end <= Max(Ends) + Cardinality(PaidRenewals(o))
          /\ service[o].end \in Nat
      BY DEF OrderInv, ServiceHolds, OrdersTypeOK
    <3>2. /\ PaidFor(o) => PaidFor(o)'
          /\ Cardinality(PaidRenewals(o)') \in Nat
          /\ Cardinality(PaidRenewals(o)) \in Nat
          /\ Cardinality(PaidRenewals(o)) <= Cardinality(PaidRenewals(o)')
      BY <1>1, PaidStaysPaid
    <3>3. service[o].end <= Max(Ends) + Cardinality(PaidRenewals(o)')
      BY <3>1, <3>2, LastEnd
    <3> QED BY <2>1, <3>1, <3>2, <3>3 DEF ServiceHolds
  <2> QED BY <2>1 DEF Effect
<1>4. ASSUME NEW t \in Handlers PROVE JobHolds(job[t])'
  <2>1. CASE job'[t] = job[t]
    BY <1>1, <2>1, PaidStaysPaid DEF OrderInv, JobHolds, Steady
  <2> QED BY <2>1 DEF Effect
<1>5. LinksHold'
  BY <1>1 DEF Effect, Steady, LinksHold, OrderInv
<1> QED BY <1>1, <1>2, <1>3, <1>4, <1>5 DEF OrderInv

\* A row of the orders.
OrderRow == [st : Statuses, type : {"purchase", "renewal"}, buyer : Customers \union {Nobody},
             gate : {"none", "gateway", "wallet"}, wait : BOOLEAN, client : Orders \union {0},
             stamp : Nat, target : Orders \union {0}, end : Nat]

\* A step writes a row that differs in its status, its gate, its client or its stamp.
SameOrder(r, q) ==
    /\ r \in OrderRow /\ r.st # "none"
    /\ r.type = q.type /\ r.buyer = q.buyer /\ r.target = q.target /\ r.end = q.end

\* A handler that writes one order and keeps what identifies it.
LEMMA RowWritten ==
    ASSUME OrderInv, NEW o \in Orders, NEW r, orders[o].st # "none", SameOrder(r, orders[o]),
           r.stamp \in Ends \union {0},
           r.st \in {"provisioned", "provisioned_waiting_activation"} => PaidFor(o)',
           r.client = orders[o].client \/ (r.client \in Orders /\ orders[r.client].st # "none"),
           orders' = [orders EXCEPT ![o] = r],
           \A kind, ref : HasEntry(wallet, kind, ref) => HasEntry(wallet', kind, ref),
           backed \subseteq backed', WalletInv', service' = service,
           shopFaults' = shopFaults, backed' \subseteq Orders,
           job' \in [Handlers ->
               [pc : {"idle", "receipt", "confirm", "debit", "provision", "qualify"} \union Locked,
                o : Orders \union {0}, refer : BOOLEAN]],
           \A t \in Handlers : job'[t] = job[t] \/ JobHolds(job[t])'
    PROVE  Effect
<1>1. OrdersTypeOK'
  BY DEF OrderInv, OrdersTypeOK, SameOrder, OrderRow
<1>2. Steady
  BY DEF OrderInv, OrdersTypeOK, SameOrder, Steady
<1>3. ASSUME NEW p \in Orders
      PROVE  IF orders[p].st = "none" THEN orders'[p] = NoOrder
             ELSE /\ orders'[p].stamp \in Ends \union {0}
                  /\ orders'[p].st \in {"provisioned", "provisioned_waiting_activation"} => PaidFor(p)'
  <2>1. RowHolds(p) /\ (PaidFor(p) => PaidFor(p)')
    BY <1>2, PaidStaysPaid DEF OrderInv
  <2>2. CASE p = o
    BY <2>2 DEF OrderInv, OrdersTypeOK
  <2>3. CASE p # o
    <3>1. orders'[p] = orders[p]
      BY <2>3 DEF OrderInv, OrdersTypeOK
    <3> QED BY <2>1, <3>1 DEF RowHolds
  <2> QED BY <2>2, <2>3
<1>4. \A p, s \in Orders : orders'[p].client = s \/ orders'[p].target = s =>
          orders[p].client = s \/ orders[p].target = s \/ orders[s].st # "none"
  BY DEF OrderInv, OrdersTypeOK, SameOrder
<1> QED BY <1>1, <1>2, <1>3, <1>4 DEF Effect

\* Steps that touch neither orders nor wallets.
LEMMA RowsUntouched ==
    ASSUME OrderInv, orders' = orders, UNCHANGED walletVars, backed \subseteq backed',
           OrdersTypeOK', \A o \in Orders : service'[o] = service[o] \/ ServiceHolds(o)',
           \A t \in Handlers : job'[t] = job[t] \/ JobHolds(job[t])'
    PROVE  Effect
<1>1. WalletInv' /\ Steady
  BY WalletUntouched DEF OrderInv, Steady
<1>2. ASSUME NEW p \in Orders
      PROVE  IF orders[p].st = "none" THEN orders'[p] = NoOrder
             ELSE /\ orders'[p].stamp \in Ends \union {0}
                  /\ orders'[p].st \in {"provisioned", "provisioned_waiting_activation"} => PaidFor(p)'
  <2>1. RowHolds(p) /\ (PaidFor(p) => PaidFor(p)')
    BY <1>1, PaidStaysPaid DEF OrderInv
  <2> QED BY <2>1 DEF RowHolds
<1> QED BY <1>1, <1>2 DEF Effect

\* The handlers after one of them has moved on.
LEMMA HandlerMoves ==
    ASSUME OrderInv, NEW t \in Handlers, NEW pc, NEW o, NEW refer,
           \/ Done(t)
           \/ /\ Go(t, pc, o, refer)
              /\ pc \in {"idle", "receipt", "confirm", "debit", "provision", "qualify"} \union Locked
              /\ o \in Orders /\ refer \in BOOLEAN /\ orders'[o].st # "none"
              /\ pc \in {"provision", "mark"} => PaidFor(o)'
              /\ pc \in {"renew", "reset", "renewed"} =>
                     orders'[o].type = "renewal" /\ HasEntry(wallet', "renewal", o)
    PROVE  /\ job' \in [Handlers ->
               [pc : {"idle", "receipt", "confirm", "debit", "provision", "qualify"} \union Locked,
                o : Orders \union {0}, refer : BOOLEAN]]
           /\ \A u \in Handlers : job'[u] = job[u] \/ JobHolds(job[u])'
<1>1. CASE Done(t)
  BY <1>1 DEF Done, Idle, JobHolds, OrderInv, OrdersTypeOK
<1>2. CASE Go(t, pc, o, refer) /\ ~Done(t)
  <2>1. job' = [job EXCEPT ![t] = [pc |-> pc, o |-> o, refer |-> refer]]
    BY <1>2 DEF Go
  <2>2. JobHolds(job[t])'
    <3>1. job'[t].pc = pc /\ job'[t].o = o
      BY <2>1 DEF OrderInv, OrdersTypeOK
    <3> QED BY <1>2, <3>1 DEF JobHolds, PaidFor
  <2>3. \A u \in Handlers : u # t => job'[u] = job[u]
    BY <2>1 DEF OrderInv, OrdersTypeOK
  <2>4. job' \in [Handlers ->
            [pc : {"idle", "receipt", "confirm", "debit", "provision", "qualify"} \union Locked,
             o : Orders \union {0}, refer : BOOLEAN]]
    BY <1>2, <2>1 DEF OrderInv, OrdersTypeOK
  <2> QED BY <2>2, <2>3, <2>4
<1> QED BY <1>1, <1>2

-----------------------------------------------------------------------------
(* The steps of an order *)

\* What holds of an order that exists.
LEMMA RowFacts ==
    ASSUME OrderInv, NEW o \in Orders
    PROVE  /\ orders[o] \in OrderRow
           /\ orders[o].stamp \in Ends \union {0}
           /\ orders[o].st \in {"provisioned", "provisioned_waiting_activation"} => PaidFor(o)
           /\ orders[o].st # "none" => orders[o].buyer \in Buyers /\ orders[o].buyer \in Customers
           /\ orders[o].st = "none" => orders[o] = NoOrder
BY WalletAssumption DEF OrderInv, OrdersTypeOK, RowHolds, OrderRow

\* What holds of a handler at work.
LEMMA JobFacts ==
    ASSUME OrderInv, NEW t \in Handlers, job[t].pc # "idle"
    PROVE  /\ job[t].o \in Orders /\ orders[job[t].o].st # "none" /\ job[t].refer \in BOOLEAN
           /\ job[t].pc \in {"provision", "mark"} => PaidFor(job[t].o)
           /\ job[t].pc \in {"renew", "reset", "renewed"} =>
                  /\ orders[job[t].o].type = "renewal"
                  /\ HasEntry(wallet, "renewal", job[t].o)
BY DEF OrderInv, OrdersTypeOK, JobHolds

\* A step that leaves the wallets alone forgets no payment.
LEMMA WalletKept ==
    ASSUME OrderInv, UNCHANGED walletVars
    PROVE  WalletInv' /\ \A kind, ref : HasEntry(wallet, kind, ref) => HasEntry(wallet', kind, ref)
BY WalletUntouched DEF OrderInv

\* Nothing but the status of one order changes.
LEMMA StatusStep ==
    ASSUME OrderInv, NEW o \in Orders, NEW st, orders[o].st # "none",
           st \in Statuses \ {"none", "provisioned", "provisioned_waiting_activation"},
           Status(o, st), UNCHANGED <<walletVars, service, shopFaults>>,
           backed \subseteq backed', backed' \subseteq Orders,
           job' \in [Handlers ->
               [pc : {"idle", "receipt", "confirm", "debit", "provision", "qualify"} \union Locked,
                o : Orders \union {0}, refer : BOOLEAN]],
           \A t \in Handlers : job'[t] = job[t] \/ JobHolds(job[t])'
    PROVE  Effect
<1> DEFINE r == [orders[o] EXCEPT !.st = st]
<1>1. orders' = [orders EXCEPT ![o] = r]
  BY DEF Status
<1>2. /\ SameOrder(r, orders[o]) /\ r.stamp = orders[o].stamp /\ r.st = st
      /\ r.client = orders[o].client
  BY RowFacts DEF SameOrder, OrderRow
<1>3. WalletInv' /\ \A kind, ref : HasEntry(wallet, kind, ref) => HasEntry(wallet', kind, ref)
  BY WalletKept
<1>4. r.stamp \in Ends \union {0}
  BY <1>2, RowFacts
<1> HIDE DEF r
<1> QED BY <1>1, <1>2, <1>3, <1>4, RowWritten

\* Handlers that do not move keep what they work on.
LEMMA NoHandlerMoves ==
    ASSUME OrderInv, job' = job
    PROVE  /\ job' \in [Handlers ->
               [pc : {"idle", "receipt", "confirm", "debit", "provision", "qualify"} \union Locked,
                o : Orders \union {0}, refer : BOOLEAN]]
           /\ \A t \in Handlers : job'[t] = job[t] \/ JobHolds(job[t])'
BY DEF OrderInv, OrdersTypeOK

\* A new order takes the place of none.
LEMMA NewOrder ==
    ASSUME OrderInv, NEW o \in Orders, NEW r, orders[o].st = "none", r \in OrderRow,
           r.st = "pending", r.buyer \in Buyers, r.stamp = 0,
           r.type = "renewal" =>
               /\ r.target \in Orders
               /\ r.end <= Max(Ends) + Cardinality(PaidRenewals(r.target) \union {o}),
           r.client = 0, r.target \in Orders => orders[r.target].st # "none",
           orders' = [orders EXCEPT ![o] = r],
           UNCHANGED <<walletVars, service, job, shopFaults, backed>>
    PROVE  Effect
<1>1. WalletInv' /\ \A kind, ref : HasEntry(wallet, kind, ref) => HasEntry(wallet', kind, ref)
  BY WalletKept
<1>2. OrdersTypeOK'
  BY DEF OrderInv, OrdersTypeOK, OrderRow
<1>3. Steady
  BY <1>1 DEF OrderInv, OrdersTypeOK, Steady
<1>4. ASSUME NEW p \in Orders
      PROVE  IF orders[p].st = "none" THEN orders'[p] = NoOrder \/ RowHolds(p)'
             ELSE /\ orders'[p].stamp \in Ends \union {0}
                  /\ orders'[p].st \in {"provisioned", "provisioned_waiting_activation"} => PaidFor(p)'
  <2>1. CASE p # o
    <3>1. orders'[p] = orders[p] /\ (PaidFor(p) => PaidFor(p)')
      BY <1>3, <2>1, PaidStaysPaid DEF OrderInv, OrdersTypeOK
    <3> QED BY <3>1, RowFacts
  <2>2. CASE p = o
    <3>1. orders'[o] = r
      BY DEF OrderInv, OrdersTypeOK
    <3>2. PICK s : s = r.target
      OBVIOUS
    <3>3. ASSUME r.type = "renewal"
          PROVE  r.end <= Max(Ends) + Cardinality(PaidRenewals(s)' \union {o})
      <4> DEFINE P == PaidRenewals(s)
                 Q == PaidRenewals(s)'
      <4>1. P \subseteq Q /\ IsFiniteSet(Q) /\ r.end <= Max(Ends) + Cardinality(P \union {o})
        BY <1>3, <3>2, <3>3, PaidStaysPaid
      <4>2. r.end \in Nat
        BY DEF OrderRow
      <4> HIDE DEF P, Q
      <4>3. IsFiniteSet(Q \union {o}) /\ P \union {o} \subseteq Q \union {o}
        BY <4>1, FS_AddElement
      <4>4. /\ Cardinality(P \union {o}) <= Cardinality(Q \union {o})
            /\ IsFiniteSet(P \union {o})
        BY <4>3, FS_Subset
      <4>5. Cardinality(P \union {o}) \in Nat /\ Cardinality(Q \union {o}) \in Nat
        BY <4>3, <4>4, FS_CardinalityType
      <4>6. r.end <= Max(Ends) + Cardinality(Q \union {o})
        BY <4>1, <4>2, <4>4, <4>5, LastEnd
      <4> QED BY <4>6 DEF Q
    <3>4. PaidRenewals(orders[o].target)' = PaidRenewals(s)'
      BY <3>1, <3>2 DEF PaidRenewals
    <3>5. RowHolds(o)'
      BY <3>1, <3>2, <3>3, <3>4 DEF RowHolds
    <3> QED BY <2>2, <3>5
  <2> QED BY <2>1, <2>2
<1>5. \A p \in Orders : service'[p] = service[p]
  OBVIOUS
<1>6. \A t \in Handlers : job'[t] = job[t]
  OBVIOUS
<1>7. \A p, s \in Orders : orders'[p].client = s \/ orders'[p].target = s =>
          orders[p].client = s \/ orders[p].target = s \/ orders[s].st # "none"
  <2> SUFFICES ASSUME NEW p \in Orders, NEW s \in Orders,
                      orders'[p].client = s \/ orders'[p].target = s
               PROVE  orders[p].client = s \/ orders[p].target = s \/ orders[s].st # "none"
    OBVIOUS
  <2>1. orders'[p] = orders[p] \/ (p = o /\ orders'[p] = r)
    BY DEF OrderInv, OrdersTypeOK
  <2> QED BY <2>1, OrdersAssumption
<1> QED BY <1>1, <1>2, <1>3, <1>4, <1>5, <1>6, <1>7 DEF Effect

\* A new order: nothing is paid yet.
LEMMA CreateOrderEffect ==
    ASSUME OrderInv, NEW o \in Orders, NEW b \in Buyers, NEW w \in BOOLEAN, CreateOrder(o, b, w)
    PROVE  Effect
<1> DEFINE r == [NoOrder EXCEPT !.st = "pending", !.buyer = b, !.wait = w]
<1>1. /\ orders[o].st = "none" /\ orders' = [orders EXCEPT ![o] = r]
      /\ UNCHANGED <<walletVars, service, job, shopFaults, backed>>
  BY DEF CreateOrder, Fresh
<1>2. /\ r \in OrderRow /\ r.st = "pending" /\ r.buyer = b /\ r.stamp = 0 /\ r.type = "purchase"
      /\ r.client = 0 /\ r.target = 0
  BY WalletAssumption DEF NoOrder, OrderRow, Statuses
<1> HIDE DEF r
<1>3. ~(r.type = "renewal") /\ r.buyer \in Buyers /\ r.target \notin Orders
  BY <1>2, OrdersAssumption
<1> QED BY <1>1, <1>2, <1>3, NewOrder

\* A new renewal: its end is fixed, nothing is paid yet.
LEMMA CreateRenewalEffect ==
    ASSUME OrderInv, NEW o \in Orders, NEW s \in Orders, CreateRenewal(o, s)
    PROVE  Effect
<1> DEFINE r == [NoOrder EXCEPT !.st = "pending", !.type = "renewal", !.buyer = orders[s].buyer,
                                !.target = s, !.end = service[s].end + 1]
<1>1. /\ orders[o].st = "none" /\ orders' = [orders EXCEPT ![o] = r]
      /\ UNCHANGED <<walletVars, service, job, shopFaults, backed>>
  BY DEF CreateRenewal, Fresh
<1>2. orders[s].st # "none" /\ orders[s].buyer \in Customers /\ orders[s].buyer \in Buyers
  <2>1. orders[s].st # "none"
    BY DEF CreateRenewal, OrderInv, LinksHold
  <2> QED BY <2>1, RowFacts
<1>3. service[s].end \in Nat /\ service[s].end <= Max(Ends) + Cardinality(PaidRenewals(s))
  BY DEF OrderInv, OrdersTypeOK, ServiceHolds
<1>4. /\ r \in OrderRow /\ r.st = "pending" /\ r.buyer \in Buyers /\ r.stamp = 0
      /\ r.target = s /\ r.end = service[s].end + 1 /\ r.client = 0
  <2> DEFINE b == orders[s].buyer
             e == service[s].end + 1
  <2>1. b \in Customers /\ b \in Buyers /\ e \in Nat
    BY <1>2, <1>3
  <2> HIDE DEF b, e
  <2>2. /\ r = [[NoOrder EXCEPT !.st = "pending", !.type = "renewal", !.buyer = b]
                   EXCEPT !.target = s, !.end = e]
        /\ [NoOrder EXCEPT !.st = "pending", !.type = "renewal", !.buyer = b] \in OrderRow
    BY <2>1 DEF NoOrder, OrderRow, Statuses, b, e
  <2> HIDE DEF r
  <2>3. /\ r \in OrderRow /\ r.st = "pending" /\ r.buyer = b /\ r.stamp = 0
        /\ r.target = s /\ r.end = e /\ r.client = 0
    BY <2>1, <2>2 DEF OrderRow, NoOrder
  <2> QED BY <2>1, <2>3 DEF b, e
<1> HIDE DEF r
<1>5. r.end <= Max(Ends) + Cardinality(PaidRenewals(s) \union {o})
  <2>1. o \notin PaidRenewals(s)
    <3>1. orders[o].target = 0
      BY <1>1, RowFacts DEF NoOrder
    <3> QED BY <3>1, OrdersAssumption DEF PaidRenewals
  <2>2. IsFiniteSet(PaidRenewals(s))
    BY OrdersAssumption, FS_Subset DEF PaidRenewals
  <2>3. /\ Cardinality(PaidRenewals(s) \union {o}) = Cardinality(PaidRenewals(s)) + 1
        /\ Cardinality(PaidRenewals(s)) \in Nat
    BY <2>1, <2>2, FS_AddElement, FS_CardinalityType
  <2> QED BY <1>3, <1>4, <2>3, LastEnd
<1>6. /\ r.target \in Orders /\ orders[r.target].st # "none"
      /\ r.end <= Max(Ends) + Cardinality(PaidRenewals(r.target) \union {o})
  BY <1>2, <1>4, <1>5
<1> QED BY <1>1, <1>4, <1>6, NewOrder

\* The steps of payments that change no more than a status.
LEMMA PaymentEffect ==
    ASSUME OrderInv, NEW o \in Orders,
           StartPayment(o) \/ RejectPayment(o) \/ \E st \in {"payment_rejected", "cancelled"} : WebhookFailed(o, st)
    PROVE  Effect
<1>1. orders[o].gate # "none" => orders[o].st # "none"
  BY RowFacts DEF NoOrder
<1>2. CASE StartPayment(o)
  <2> DEFINE r == [orders[o] EXCEPT !.st = "awaiting_payment", !.gate = "gateway"]
  <2>1. orders' = [orders EXCEPT ![o] = r] /\ orders[o].st # "none" /\ job' = job
        /\ UNCHANGED <<walletVars, service, shopFaults, backed>>
    BY <1>2, RowFacts DEF StartPayment, OrderRow
  <2>2. /\ SameOrder(r, orders[o]) /\ r.stamp = orders[o].stamp /\ r.st = "awaiting_payment"
        /\ r.client = orders[o].client
    BY <2>1, RowFacts DEF SameOrder, OrderRow, Statuses
  <2>3. WalletInv' /\ \A kind, ref : HasEntry(wallet, kind, ref) => HasEntry(wallet', kind, ref)
    BY <2>1, WalletKept
  <2>4. r.stamp \in Ends \union {0} /\ backed' \subseteq Orders
    BY <2>1, <2>2, RowFacts DEF OrderInv, OrdersTypeOK
  <2> HIDE DEF r
  <2>5. /\ job' \in [Handlers ->
               [pc : {"idle", "receipt", "confirm", "debit", "provision", "qualify"} \union Locked,
                o : Orders \union {0}, refer : BOOLEAN]]
        /\ \A t \in Handlers : job'[t] = job[t] \/ JobHolds(job[t])'
    BY <2>1, NoHandlerMoves
  <2> QED BY <2>1, <2>2, <2>3, <2>4, <2>5, RowWritten
<1>3. CASE RejectPayment(o) \/ \E st \in {"payment_rejected", "cancelled"} : WebhookFailed(o, st)
  <2>1. PICK st \in {"payment_rejected", "cancelled"} : Status(o, st)
    BY <1>3 DEF RejectPayment, WebhookFailed
  <2>2. orders[o].st # "none" /\ UNCHANGED <<walletVars, service, job, shopFaults, backed>>
    BY <1>1, <1>3 DEF RejectPayment, WebhookFailed
  <2>3. /\ job' \in [Handlers ->
               [pc : {"idle", "receipt", "confirm", "debit", "provision", "qualify"} \union Locked,
                o : Orders \union {0}, refer : BOOLEAN]]
        /\ \A t \in Handlers : job'[t] = job[t] \/ JobHolds(job[t])'
    BY <2>2, NoHandlerMoves
  <2>4. backed \subseteq backed' /\ backed' \subseteq Orders
    BY <2>2 DEF OrderInv, OrdersTypeOK
  <2>5. st \in Statuses \ {"none", "provisioned", "provisioned_waiting_activation"}
    BY DEF Statuses
  <2> QED BY <2>1, <2>2, <2>3, <2>4, <2>5, StatusStep
<1> QED BY <1>2, <1>3

\* A handler takes up an order, or puts one down, and nothing else changes.
LEMMA HandlerStep ==
    ASSUME OrderInv, NEW t \in Handlers, NEW pc, NEW o, NEW refer,
           \/ Done(t)
           \/ /\ Go(t, pc, o, refer)
              /\ pc \in {"idle", "receipt", "confirm", "debit", "provision", "qualify"} \union Locked
              /\ o \in Orders /\ refer \in BOOLEAN /\ orders[o].st # "none"
              /\ pc \in {"provision", "mark"} => PaidFor(o)'
              /\ pc \in {"renew", "reset", "renewed"} =>
                     orders[o].type = "renewal" /\ HasEntry(wallet, "renewal", o),
           UNCHANGED <<walletVars, orders>>, backed \subseteq backed', backed' \subseteq Orders,
           service' \in [Orders -> [made : Nat, end : Nat]], shopFaults' \in 0..ShopFaults,
           \A p \in Orders : service'[p] = service[p] \/ ServiceHolds(p)'
    PROVE  Effect
<1>0. orders' = orders /\ UNCHANGED walletVars /\ wallet' = wallet
  BY DEF walletVars
<1>1. /\ job' \in [Handlers ->
               [pc : {"idle", "receipt", "confirm", "debit", "provision", "qualify"} \union Locked,
                o : Orders \union {0}, refer : BOOLEAN]]
      /\ \A u \in Handlers : job'[u] = job[u] \/ JobHolds(job[u])'
  <2>1. \/ Done(t)
        \/ /\ Go(t, pc, o, refer)
           /\ pc \in {"idle", "receipt", "confirm", "debit", "provision", "qualify"} \union Locked
           /\ o \in Orders /\ refer \in BOOLEAN /\ orders'[o].st # "none"
           /\ pc \in {"provision", "mark"} => PaidFor(o)'
           /\ pc \in {"renew", "reset", "renewed"} =>
                  orders'[o].type = "renewal" /\ HasEntry(wallet', "renewal", o)
    BY <1>0
  <2> QED BY <2>1, HandlerMoves
<1>2. OrdersTypeOK'
  BY <1>0, <1>1 DEF OrderInv, OrdersTypeOK
<1> QED BY <1>0, <1>1, <1>2, RowsUntouched

\* record_receipt, its read: the handler remembers an order that exists.
LEMMA ReceiptReadEffect ==
    ASSUME OrderInv, NEW t \in Handlers, NEW b \in Buyers, ReceiptRead(t, b) PROVE Effect
<1> DEFINE waiting == {o \in Orders : orders[o].buyer = b /\ orders[o].st = "awaiting_payment"}
           o == Latest(waiting)
<1>1. waiting # {} /\ Go(t, "receipt", o, FALSE)
      /\ UNCHANGED <<walletVars, orders, service, shopFaults, backed>>
  BY DEF ReceiptRead
<1>2. waiting \in SUBSET Nat /\ IsFiniteSet(waiting)
  BY OrdersAssumption, FS_Subset
<1> HIDE DEF waiting
<1>3. o \in waiting
  BY <1>1, <1>2, LatestIsOne
<1>4. o \in Orders /\ orders[o].st # "none"
  BY <1>3 DEF waiting
<1> HIDE DEF o
<1>5. /\ service' \in [Orders -> [made : Nat, end : Nat]] /\ shopFaults' \in 0..ShopFaults
      /\ backed' \subseteq Orders /\ backed \subseteq backed'
  BY <1>1 DEF OrderInv, OrdersTypeOK
<1>6. "receipt" \notin {"provision", "mark", "renew", "reset", "renewed"}
  OBVIOUS
<1> QED BY <1>1, <1>4, <1>5, <1>6, HandlerStep

\* The reads of a confirmation, a provisioning and a purchase.
LEMMA ReadEffect ==
    ASSUME OrderInv, NEW t \in Handlers, NEW o \in Orders,
           ConfirmRead(t, o) \/ ProvisionRequest(t, o) \/ PurchaseRead(t, o)
    PROVE  Effect
<1>1. CASE ConfirmRead(t, o)
  <2>1. orders[o].st # "none" /\ Go(t, "confirm", o, FALSE)
        /\ UNCHANGED <<walletVars, orders, service, shopFaults, backed>>
    BY <1>1 DEF ConfirmRead
  <2>2. /\ service' \in [Orders -> [made : Nat, end : Nat]] /\ shopFaults' \in 0..ShopFaults
        /\ backed' \subseteq Orders /\ backed \subseteq backed'
    BY <2>1 DEF OrderInv, OrdersTypeOK
  <2>3. "confirm" \notin {"provision", "mark", "renew", "reset", "renewed"}
    OBVIOUS
  <2> QED BY <2>1, <2>2, <2>3, HandlerStep
<1>2. CASE ProvisionRequest(t, o)
  <2>1. /\ orders[o].st # "none" /\ Go(t, "provision", o, FALSE)
        /\ UNCHANGED <<walletVars, orders, service, shopFaults>>
        /\ backed' = backed \union {o}
    BY <1>2 DEF ProvisionRequest
  <2>2. /\ service' \in [Orders -> [made : Nat, end : Nat]] /\ shopFaults' \in 0..ShopFaults
        /\ backed' \subseteq Orders /\ backed \subseteq backed' /\ PaidFor(o)'
    BY <2>1 DEF OrderInv, OrdersTypeOK, PaidFor
  <2>3. "provision" \notin {"renew", "reset", "renewed"}
    OBVIOUS
  <2> QED BY <2>1, <2>2, <2>3, HandlerStep
<1>3. CASE PurchaseRead(t, o)
  <2> DEFINE ready == orders[o].st \in {"provisioned", "provisioned_waiting_activation"}
             pc == IF ready THEN "provision" ELSE "debit"
  <2>1. /\ orders[o].st # "none" /\ Go(t, pc, o, TRUE)
        /\ UNCHANGED <<walletVars, orders, service, shopFaults, backed>>
    BY <1>3 DEF PurchaseRead
  <2>2. /\ service' \in [Orders -> [made : Nat, end : Nat]] /\ shopFaults' \in 0..ShopFaults
        /\ backed' \subseteq Orders /\ backed \subseteq backed'
    BY <2>1 DEF OrderInv, OrdersTypeOK
  <2>3. /\ pc \in {"provision", "debit"}
        /\ pc \in {"provision", "mark"} => PaidFor(o)
    BY RowFacts
  <2>4. PaidFor(o) => PaidFor(o)'
    BY <2>1, WalletKept DEF PaidFor
  <2> HIDE DEF pc
  <2>5. pc \notin {"renew", "reset", "renewed"}
        /\ pc \in {"idle", "receipt", "confirm", "debit", "provision", "qualify"} \union Locked
    BY <2>3
  <2> QED BY <2>1, <2>2, <2>3, <2>4, <2>5, HandlerStep
<1> QED BY <1>1, <1>2, <1>3

\* The writes of a receipt and of a confirmation.
LEMMA StatusWriteEffect ==
    ASSUME OrderInv, NEW t \in Handlers, ReceiptWrite(t) \/ ConfirmWrite(t)
    PROVE  Effect
<1> DEFINE o == job[t].o
<1>1. o \in Orders /\ orders[o].st # "none"
  BY JobFacts DEF ReceiptWrite, ConfirmWrite
<1>2. CASE ReceiptWrite(t)
  <2>1. Status(o, "payment_review") /\ Done(t)
        /\ UNCHANGED <<walletVars, service, shopFaults, backed>>
    BY <1>2 DEF ReceiptWrite
  <2>2. /\ job' \in [Handlers ->
               [pc : {"idle", "receipt", "confirm", "debit", "provision", "qualify"} \union Locked,
                o : Orders \union {0}, refer : BOOLEAN]]
        /\ \A u \in Handlers : job'[u] = job[u] \/ JobHolds(job[u])'
    BY <2>1, HandlerMoves
  <2>3. backed \subseteq backed' /\ backed' \subseteq Orders
    BY <2>1 DEF OrderInv, OrdersTypeOK
  <2>4. "payment_review" \in Statuses \ {"none", "provisioned", "provisioned_waiting_activation"}
    BY DEF Statuses
  <2> HIDE DEF o
  <2> QED BY <1>1, <2>1, <2>2, <2>3, <2>4, StatusStep
<1>3. CASE ConfirmWrite(t)
  <2>1. /\ Status(o, "paid") /\ Go(t, "provision", o, FALSE) /\ backed' = backed \union {o}
        /\ UNCHANGED <<walletVars, service, shopFaults>>
    BY <1>3 DEF ConfirmWrite
  <2> HIDE DEF o
  <2>2. backed \subseteq backed' /\ backed' \subseteq Orders
    BY <1>1, <2>1 DEF OrderInv, OrdersTypeOK
  <2>3. orders'[o].st = "paid" /\ o \in backed'
    BY <1>1, <2>1 DEF OrderInv, OrdersTypeOK, Status
  <2>4. PICK p : p = o
    OBVIOUS
  <2>5. PaidFor(p)'
    BY <2>3, <2>4 DEF PaidFor
  <2>6. /\ Go(t, "provision", p, FALSE) /\ p \in Orders /\ orders'[p].st # "none"
        /\ "provision" \notin {"renew", "reset", "renewed"}
    BY <1>1, <2>1, <2>3, <2>4
  <2>7. /\ job' \in [Handlers ->
               [pc : {"idle", "receipt", "confirm", "debit", "provision", "qualify"} \union Locked,
                o : Orders \union {0}, refer : BOOLEAN]]
        /\ \A u \in Handlers : job'[u] = job[u] \/ JobHolds(job[u])'
    BY <2>5, <2>6, HandlerMoves
  <2>8. "paid" \in Statuses \ {"none", "provisioned", "provisioned_waiting_activation"}
    BY DEF Statuses
  <2> QED BY <1>1, <2>1, <2>2, <2>4, <2>7, <2>8, StatusStep
<1> QED BY <1>2, <1>3

\* Paying from the wallet: the debit and the status in one transaction.
LEMMA PaysEffect ==
    ASSUME OrderInv, NEW t \in Handlers, NEW o \in Orders, NEW kind, NEW pc, NEW refer \in BOOLEAN,
           orders[o].st # "none", WalletPays(o, kind), Go(t, pc, o, refer),
           \/ kind = "purchase" /\ pc = "provision"
           \/ kind = "renewal" /\ pc = "renew" /\ orders[o].type = "renewal",
           UNCHANGED <<service, shopFaults, backed>>
    PROVE  Effect
<1> DEFINE r == [orders[o] EXCEPT !.st = "paid", !.gate = "wallet"]
<1>1. PICK b : b = orders[o].buyer
  OBVIOUS
<1>2. b \in Customers /\ Price \in Nat /\ WalletInv
  BY <1>1, RowFacts, OrdersAssumption DEF OrderInv
<1>3. /\ CanDebit(wallet, b, Price, kind, o) /\ wallet' = Debited(wallet, b, Price, kind, o)
      /\ UNCHANGED <<topups, referral, clerk>> /\ orders' = [orders EXCEPT ![o] = r]
  BY <1>1, RowFacts DEF WalletPays, OrderRow
<1>4. /\ WalletInv'
      /\ \A k, ref : HasEntry(wallet', k, ref) <=> HasEntry(wallet, k, ref) \/ (k = kind /\ ref = o)
  BY <1>2, <1>3, DebitHolds
<1>5. /\ SameOrder(r, orders[o]) /\ r.stamp = orders[o].stamp /\ r.st = "paid"
      /\ r.client = orders[o].client
  BY RowFacts DEF SameOrder, OrderRow, Statuses
<1>6. r.stamp \in Ends \union {0} /\ backed \subseteq backed' /\ backed' \subseteq Orders
  BY <1>5, RowFacts DEF OrderInv, OrdersTypeOK
<1>7. orders'[o].st # "none" /\ orders'[o].type = orders[o].type
  BY <1>3 DEF OrderInv, OrdersTypeOK
<1> HIDE DEF r
<1>8. /\ pc \in {"provision", "renew"}
      /\ pc \in {"provision", "mark"} => PaidFor(o)'
      /\ pc \in {"renew", "reset", "renewed"} =>
             orders'[o].type = "renewal" /\ HasEntry(wallet', "renewal", o)
  BY <1>4, <1>7 DEF PaidFor
<1>9. /\ job' \in [Handlers ->
               [pc : {"idle", "receipt", "confirm", "debit", "provision", "qualify"} \union Locked,
                o : Orders \union {0}, refer : BOOLEAN]]
      /\ \A u \in Handlers : job'[u] = job[u] \/ JobHolds(job[u])'
  <2>1. pc \in {"idle", "receipt", "confirm", "debit", "provision", "qualify"} \union Locked
    BY <1>8 DEF Locked
  <2> QED BY <1>7, <1>8, <2>1, HandlerMoves
<1> QED BY <1>3, <1>4, <1>5, <1>6, <1>9, RowWritten

\* A purchase is debited before it is provisioned.
LEMMA PurchaseDebitEffect ==
    ASSUME OrderInv, NEW t \in Handlers, PurchaseDebit(t) PROVE Effect
<1>1. PICK o : o = job[t].o
  OBVIOUS
<1>2. o \in Orders /\ orders[o].st # "none"
  BY <1>1, JobFacts DEF PurchaseDebit
<1>3. UNCHANGED <<service, shopFaults, backed>>
  BY DEF PurchaseDebit
<1>4. \/ WalletPays(o, "purchase") /\ Go(t, "provision", o, TRUE)
      \/ Done(t) /\ UNCHANGED <<walletVars, orders>>
  BY <1>1 DEF PurchaseDebit
<1>5. CASE WalletPays(o, "purchase") /\ Go(t, "provision", o, TRUE)
  BY <1>2, <1>3, <1>5, PaysEffect
<1>6. CASE Done(t) /\ UNCHANGED <<walletVars, orders>>
  <2>1. /\ service' \in [Orders -> [made : Nat, end : Nat]] /\ shopFaults' \in 0..ShopFaults
        /\ backed' \subseteq Orders /\ backed \subseteq backed'
    BY <1>3 DEF OrderInv, OrdersTypeOK
  <2> QED BY <1>3, <1>6, <2>1, HandlerStep
<1> QED BY <1>4, <1>5, <1>6

\* A renewal is debited before it is carried out.
LEMMA RenewalPayEffect ==
    ASSUME OrderInv, NEW t \in Handlers, NEW o \in Orders, RenewalPay(t, o) PROVE Effect
<1>1. /\ orders[o].st # "none" /\ orders[o].type = "renewal" /\ WalletPays(o, "renewal")
      /\ Go(t, "renew", o, FALSE) /\ UNCHANGED <<service, shopFaults, backed>>
  BY DEF RenewalPay
<1> QED BY <1>1, PaysEffect

\* Faults are counted.
LEMMA FaultType == ASSUME OrderInv, Fault PROVE shopFaults' \in 0..ShopFaults
BY OrdersAssumption DEF OrderInv, OrdersTypeOK, Fault

\* Provisioning: a client is created for what was paid, once.
LEMMA ProvisionCallEffect ==
    ASSUME OrderInv, NEW t \in Handlers, ProvisionCall(t) PROVE Effect
<1>1. PICK o : o = job[t].o
  OBVIOUS
<1>2. o \in Orders /\ orders[o].st # "none" /\ PaidFor(o) /\ job[t].refer \in BOOLEAN
  BY <1>1, JobFacts DEF ProvisionCall
<1>3. UNCHANGED <<walletVars, orders, backed>>
  BY DEF ProvisionCall
<1>4. /\ backed' \subseteq Orders /\ backed \subseteq backed' /\ PaidFor(o)'
  BY <1>2, <1>3, WalletKept DEF OrderInv, OrdersTypeOK, PaidFor
<1>5. service \in [Orders -> [made : Nat, end : Nat]] /\ shopFaults \in 0..ShopFaults
  BY DEF OrderInv, OrdersTypeOK
<1>6. \/ Go(t, "qualify", o, TRUE) /\ UNCHANGED <<service, shopFaults>>
      \/ Done(t) /\ UNCHANGED <<service, shopFaults>>
      \/ Go(t, "mark", o, job[t].refer) /\ UNCHANGED <<service, shopFaults>>
      \/ Go(t, "mark", o, job[t].refer) /\ UNCHANGED shopFaults /\ ~(service[o].made > 0) /\ Made(o)
      \/ Fault /\ Done(t) /\ UNCHANGED service
  BY <1>1 DEF ProvisionCall
<1>7. "qualify" \notin {"provision", "mark", "renew", "reset", "renewed"}
      /\ "mark" \notin {"renew", "reset", "renewed"} /\ "mark" \in Locked
  BY DEF Locked
<1>8. CASE Go(t, "qualify", o, TRUE) /\ UNCHANGED <<service, shopFaults>>
  BY <1>2, <1>3, <1>4, <1>5, <1>7, <1>8, HandlerStep
<1>9. CASE Done(t) /\ UNCHANGED <<service, shopFaults>>
  BY <1>3, <1>4, <1>5, <1>9, HandlerStep
<1>10. CASE Go(t, "mark", o, job[t].refer) /\ UNCHANGED <<service, shopFaults>>
  BY <1>2, <1>3, <1>4, <1>5, <1>7, <1>10, HandlerStep
<1>11. CASE Go(t, "mark", o, job[t].refer) /\ UNCHANGED shopFaults /\ ~(service[o].made > 0) /\ Made(o)
  <2> DEFINE e == IF orders[o].wait THEN 0 ELSE 1
  <2>1. service' = [service EXCEPT ![o] = [made |-> service[o].made + 1, end |-> e]]
    BY <1>5, <1>11 DEF Made
  <2>2. service[o].made = 0 /\ e \in Nat /\ e <= 1
    BY <1>2, <1>5, <1>11
  <2> HIDE DEF e
  <2>3. service' \in [Orders -> [made : Nat, end : Nat]]
    BY <1>2, <1>5, <2>1, <2>2
  <2>4. ServiceHolds(o)'
    <3>1. service'[o].made = 1 /\ service'[o].end = e
      BY <1>2, <1>5, <2>1, <2>2
    <3>2. IsFiniteSet(PaidRenewals(o)')
      BY OrdersAssumption, FS_Subset DEF PaidRenewals
    <3>3. Cardinality(PaidRenewals(o)') \in Nat
      BY <3>2, FS_CardinalityType
    <3>4. service'[o].end <= Max(Ends) + Cardinality(PaidRenewals(o)')
      BY <2>2, <3>1, <3>3, LastEnd
    <3> QED BY <1>4, <3>1, <3>4 DEF ServiceHolds
  <2>5. \A p \in Orders : service'[p] = service[p] \/ ServiceHolds(p)'
    BY <1>2, <1>5, <2>1, <2>4
  <2> QED BY <1>2, <1>3, <1>4, <1>5, <1>7, <1>11, <2>3, <2>5, HandlerStep
<1>12. CASE Fault /\ Done(t) /\ UNCHANGED service
  BY <1>3, <1>4, <1>5, <1>12, FaultType, HandlerStep
<1> QED BY <1>6, <1>8, <1>9, <1>10, <1>11, <1>12

\* The order is marked with the service that was made for it.
LEMMA ProvisionMarkEffect ==
    ASSUME OrderInv, NEW t \in Handlers, ProvisionMark(t) PROVE Effect
<1>1. PICK o : o = job[t].o
  OBVIOUS
<1>2. o \in Orders /\ orders[o].st # "none" /\ PaidFor(o)
  BY <1>1, JobFacts DEF ProvisionMark
<1> DEFINE st == IF orders[o].wait THEN "provisioned_waiting_activation" ELSE "provisioned"
           r == [orders[o] EXCEPT !.st = st, !.client = o]
<1>3. /\ orders' = [orders EXCEPT ![o] = r]
      /\ UNCHANGED <<walletVars, service, shopFaults, backed>>
      /\ Go(t, "qualify", o, TRUE) \/ Done(t)
  BY <1>1 DEF ProvisionMark
<1>4. st \in Statuses /\ st # "none"
  BY DEF Statuses
<1> HIDE DEF st
<1>5. SameOrder(r, orders[o]) /\ r.stamp = orders[o].stamp /\ r.client = o /\ r.st = st
  BY <1>2, <1>4, RowFacts DEF SameOrder, OrderRow
<1>6. WalletInv' /\ (\A kind, ref : HasEntry(wallet, kind, ref) => HasEntry(wallet', kind, ref))
      /\ PaidFor(o)'
  BY <1>2, <1>3, WalletKept DEF PaidFor
<1>7. r.stamp \in Ends \union {0} /\ backed \subseteq backed' /\ backed' \subseteq Orders
  BY <1>2, <1>3, <1>5, RowFacts DEF OrderInv, OrdersTypeOK
<1>8. orders'[o].st # "none"
  BY <1>2, <1>3, <1>4 DEF OrderInv, OrdersTypeOK
<1> HIDE DEF r
<1>9. /\ job' \in [Handlers ->
               [pc : {"idle", "receipt", "confirm", "debit", "provision", "qualify"} \union Locked,
                o : Orders \union {0}, refer : BOOLEAN]]
      /\ \A u \in Handlers : job'[u] = job[u] \/ JobHolds(job[u])'
  <2>1. "qualify" \notin {"provision", "mark", "renew", "reset", "renewed"}
    OBVIOUS
  <2> QED BY <1>2, <1>3, <1>8, <2>1, HandlerMoves
<1> QED BY <1>2, <1>3, <1>5, <1>6, <1>7, <1>9, RowWritten

\* The first connection stamps the end of the service.
LEMMA ActivateStampEffect ==
    ASSUME OrderInv, NEW t \in Handlers, NEW o \in Orders, ActivateStamp(t, o) PROVE Effect
<1>1. PICK e \in Ends : orders' = [orders EXCEPT ![o].stamp = IF @ = 0 THEN e ELSE @]
  BY DEF ActivateStamp
<1>2. /\ orders[o].st = "provisioned_waiting_activation" /\ Go(t, "activate", o, FALSE)
      /\ UNCHANGED <<walletVars, service, shopFaults, backed>>
  BY DEF ActivateStamp
<1> DEFINE s == IF orders[o].stamp = 0 THEN e ELSE orders[o].stamp
           r == [orders[o] EXCEPT !.stamp = s]
<1>3. orders' = [orders EXCEPT ![o] = r]
  BY <1>1, RowFacts DEF OrderRow
<1>4. s \in Ends \union {0} /\ s \in Nat
  BY RowFacts, OrdersAssumption
<1> HIDE DEF s
<1>5. /\ SameOrder(r, orders[o]) /\ r.stamp = s /\ r.client = orders[o].client
      /\ r.st = orders[o].st
  BY <1>2, <1>4, RowFacts DEF SameOrder, OrderRow
<1>6. /\ WalletInv' /\ (\A kind, ref : HasEntry(wallet, kind, ref) => HasEntry(wallet', kind, ref))
      /\ PaidFor(o)'
  BY <1>2, WalletKept, RowFacts DEF PaidFor
<1>7. backed \subseteq backed' /\ backed' \subseteq Orders
  BY <1>2 DEF OrderInv, OrdersTypeOK
<1>8. orders'[o].st # "none"
  BY <1>2, <1>3, <1>5 DEF OrderInv, OrdersTypeOK
<1> HIDE DEF r
<1>9. /\ job' \in [Handlers ->
               [pc : {"idle", "receipt", "confirm", "debit", "provision", "qualify"} \union Locked,
                o : Orders \union {0}, refer : BOOLEAN]]
      /\ \A u \in Handlers : job'[u] = job[u] \/ JobHolds(job[u])'
  <2>1. "activate" \notin {"provision", "mark", "renew", "reset", "renewed"} /\ "activate" \in Locked
    BY DEF Locked
  <2> QED BY <1>2, <1>8, <2>1, HandlerMoves
<1>10. orders[o].st # "none" /\ r.stamp \in Ends \union {0}
  BY <1>2, <1>4, <1>5
<1> QED BY <1>2, <1>3, <1>5, <1>6, <1>7, <1>9, <1>10, RowWritten

\* A service keeps within what is paid when one end is written that does.
LEMMA EndWritten ==
    ASSUME OrderInv, NEW c, NEW e \in Nat,
           service' = [service EXCEPT ![c].end = e], UNCHANGED <<walletVars, orders, backed>>,
           c \in Orders => e <= Max(Ends) + Cardinality(PaidRenewals(c))
    PROVE  /\ service' \in [Orders -> [made : Nat, end : Nat]]
           /\ \A p \in Orders : service'[p] = service[p] \/ ServiceHolds(p)'
<1>1. service \in [Orders -> [made : Nat, end : Nat]]
  BY DEF OrderInv, OrdersTypeOK
<1>2. CASE c \notin Orders
  <2>1. service' = service
    BY <1>1, <1>2
  <2> QED BY <1>1, <2>1
<1>3. CASE c \in Orders
  <2>1. service' = [service EXCEPT ![c] = [service[c] EXCEPT !.end = e]]
    BY <1>1, <1>3
  <2>2. service' \in [Orders -> [made : Nat, end : Nat]]
    BY <1>1, <1>3, <2>1
  <2>3. service'[c].made = service[c].made /\ service'[c].end = e
    BY <1>1, <1>3, <2>1
  <2>4. PaidRenewals(c)' = PaidRenewals(c) /\ (PaidFor(c) => PaidFor(c)')
    BY DEF walletVars, PaidRenewals, PaidFor
  <2>5. ServiceHolds(c)
    BY <1>3 DEF OrderInv
  <2>6. ServiceHolds(c)'
    BY <1>3, <2>3, <2>4, <2>5 DEF ServiceHolds
  <2>7. \A p \in Orders : p # c => service'[p] = service[p]
    BY <1>1, <2>1
  <2> QED BY <2>2, <2>6, <2>7
<1> QED BY <1>2, <1>3

\* The stamped end is written to the client.
LEMMA ActivateUpdateEffect ==
    ASSUME OrderInv, NEW t \in Handlers, ActivateUpdate(t) PROVE Effect
<1>1. PICK o : o = job[t].o
  OBVIOUS
<1>2. o \in Orders /\ orders[o].st # "none"
  BY <1>1, JobFacts DEF ActivateUpdate
<1>3. /\ UNCHANGED <<walletVars, orders, backed>>
      /\ \/ /\ service' = [service EXCEPT ![orders[o].client].end = orders[o].stamp]
            /\ Go(t, "activated", o, FALSE) /\ UNCHANGED shopFaults
         \/ Fault /\ Done(t) /\ UNCHANGED service
  BY <1>1 DEF ActivateUpdate
<1>4. /\ backed' \subseteq Orders /\ backed \subseteq backed'
      /\ service \in [Orders -> [made : Nat, end : Nat]] /\ shopFaults \in 0..ShopFaults
  BY <1>3 DEF OrderInv, OrdersTypeOK
<1>5. CASE Fault /\ Done(t) /\ UNCHANGED service
  BY <1>3, <1>4, <1>5, FaultType, HandlerStep
<1>6. CASE /\ service' = [service EXCEPT ![orders[o].client].end = orders[o].stamp]
           /\ Go(t, "activated", o, FALSE) /\ UNCHANGED shopFaults
  <2>1. PICK c : c = orders[o].client
    OBVIOUS
  <2>2. PICK e : e = orders[o].stamp
    OBVIOUS
  <2>3. e \in Nat /\ e <= Max(Ends)
    BY <1>2, <2>2, RowFacts, LastEnd, OrdersAssumption
  <2>4. ASSUME c \in Orders PROVE e <= Max(Ends) + Cardinality(PaidRenewals(c))
    <3>1. IsFiniteSet(PaidRenewals(c))
      BY OrdersAssumption, FS_Subset DEF PaidRenewals
    <3>2. Cardinality(PaidRenewals(c)) \in Nat
      BY <3>1, FS_CardinalityType
    <3> QED BY <2>3, <3>2, LastEnd
  <2>5. /\ service' \in [Orders -> [made : Nat, end : Nat]]
        /\ \A p \in Orders : service'[p] = service[p] \/ ServiceHolds(p)'
    BY <1>3, <1>6, <2>1, <2>2, <2>3, <2>4, EndWritten
  <2>6. "activated" \notin {"provision", "mark", "renew", "reset", "renewed"} /\ "activated" \in Locked
    BY DEF Locked
  <2> QED BY <1>2, <1>3, <1>4, <1>6, <2>5, <2>6, HandlerStep
<1> QED BY <1>3, <1>5, <1>6

\* The order is marked as activated.
LEMMA ActivateMarkEffect ==
    ASSUME OrderInv, NEW t \in Handlers, ActivateMark(t) PROVE Effect
<1>1. PICK o : o = job[t].o
  OBVIOUS
<1>2. o \in Orders /\ orders[o].st # "none"
  BY <1>1, JobFacts DEF ActivateMark
<1>3. /\ UNCHANGED <<walletVars, service, shopFaults, backed>> /\ Done(t)
      /\ IF orders[o].st = "provisioned_waiting_activation"
         THEN Status(o, "provisioned") ELSE UNCHANGED orders
  BY <1>1 DEF ActivateMark
<1>4. /\ backed' \subseteq Orders /\ backed \subseteq backed'
      /\ service' \in [Orders -> [made : Nat, end : Nat]] /\ shopFaults' \in 0..ShopFaults
  BY <1>3 DEF OrderInv, OrdersTypeOK
<1>5. CASE orders' = orders
  BY <1>3, <1>4, <1>5, HandlerStep
<1>6. CASE orders[o].st = "provisioned_waiting_activation" /\ Status(o, "provisioned")
  <2> DEFINE r == [orders[o] EXCEPT !.st = "provisioned"]
  <2>1. orders' = [orders EXCEPT ![o] = r]
    BY <1>6 DEF Status
  <2>2. SameOrder(r, orders[o]) /\ r.stamp = orders[o].stamp /\ r.client = orders[o].client
    BY <1>2, RowFacts DEF SameOrder, OrderRow, Statuses
  <2>3. WalletInv' /\ (\A kind, ref : HasEntry(wallet, kind, ref) => HasEntry(wallet', kind, ref))
        /\ PaidFor(o)'
    BY <1>2, <1>3, <1>6, WalletKept, RowFacts DEF PaidFor
  <2>4. r.stamp \in Ends \union {0}
    BY <1>2, <2>2, RowFacts
  <2>5. /\ job' \in [Handlers ->
               [pc : {"idle", "receipt", "confirm", "debit", "provision", "qualify"} \union Locked,
                o : Orders \union {0}, refer : BOOLEAN]]
        /\ \A u \in Handlers : job'[u] = job[u] \/ JobHolds(job[u])'
    BY <1>3, HandlerMoves
  <2> HIDE DEF r
  <2> QED BY <1>2, <1>3, <1>4, <2>1, <2>2, <2>3, <2>4, <2>5, RowWritten
<1> QED BY <1>3, <1>5, <1>6

\* The end that was fixed with the order is written, once or again.
LEMMA RenewalUpdateEffect ==
    ASSUME OrderInv, NEW t \in Handlers, RenewalUpdate(t) PROVE Effect
<1>1. PICK o : o = job[t].o
  OBVIOUS
<1>2. /\ o \in Orders /\ orders[o].st # "none" /\ orders[o].type = "renewal"
      /\ HasEntry(wallet, "renewal", o)
  BY <1>1, JobFacts DEF RenewalUpdate
<1>3. /\ UNCHANGED <<walletVars, orders, backed>>
      /\ \/ /\ service' = [service EXCEPT ![orders[o].target].end = orders[o].end]
            /\ Go(t, "reset", o, FALSE) /\ UNCHANGED shopFaults
         \/ Done(t) /\ UNCHANGED <<service, shopFaults>>
         \/ Fault /\ Done(t) /\ UNCHANGED service
  BY <1>1 DEF RenewalUpdate
<1>4. /\ backed' \subseteq Orders /\ backed \subseteq backed'
      /\ service \in [Orders -> [made : Nat, end : Nat]] /\ shopFaults \in 0..ShopFaults
  BY <1>3 DEF OrderInv, OrdersTypeOK
<1>5. CASE Fault /\ Done(t) /\ UNCHANGED service
  BY <1>3, <1>4, <1>5, FaultType, HandlerStep
<1>6. CASE Done(t) /\ UNCHANGED <<service, shopFaults>>
  BY <1>3, <1>4, <1>6, HandlerStep
<1>7. CASE /\ service' = [service EXCEPT ![orders[o].target].end = orders[o].end]
           /\ Go(t, "reset", o, FALSE) /\ UNCHANGED shopFaults
  <2>1. PICK c : c = orders[o].target
    OBVIOUS
  <2>2. PICK e : e = orders[o].end
    OBVIOUS
  <2>3. e \in Nat /\ c \in Orders /\ e <= Max(Ends) + Cardinality(PaidRenewals(c) \union {o})
    BY <1>2, <2>1, <2>2 DEF OrderInv, OrdersTypeOK, RowHolds
  <2>4. PaidRenewals(c) \union {o} = PaidRenewals(c)
    BY <1>2, <2>1 DEF PaidRenewals
  <2>5. /\ service' \in [Orders -> [made : Nat, end : Nat]]
        /\ \A p \in Orders : service'[p] = service[p] \/ ServiceHolds(p)'
    BY <1>3, <1>7, <2>1, <2>2, <2>3, <2>4, EndWritten
  <2>6. "reset" \notin {"provision", "mark"} /\ "reset" \in Locked
    BY DEF Locked
  <2> QED BY <1>2, <1>3, <1>4, <1>7, <2>5, <2>6, HandlerStep
<1> QED BY <1>3, <1>5, <1>6, <1>7

\* The counters of a renewed client are reset.
LEMMA RenewalResetEffect ==
    ASSUME OrderInv, NEW t \in Handlers, RenewalReset(t) PROVE Effect
<1>1. PICK o : o = job[t].o
  OBVIOUS
<1>2. /\ o \in Orders /\ orders[o].st # "none" /\ orders[o].type = "renewal"
      /\ HasEntry(wallet, "renewal", o)
  BY <1>1, JobFacts DEF RenewalReset
<1>3. /\ UNCHANGED <<walletVars, orders, service, backed>>
      /\ \/ Go(t, "renewed", o, FALSE) /\ UNCHANGED shopFaults
         \/ Fault /\ Done(t)
  BY <1>1 DEF RenewalReset
<1>4. /\ backed' \subseteq Orders /\ backed \subseteq backed'
      /\ service' \in [Orders -> [made : Nat, end : Nat]] /\ shopFaults \in 0..ShopFaults
  BY <1>3 DEF OrderInv, OrdersTypeOK
<1>5. "renewed" \notin {"provision", "mark"} /\ "renewed" \in Locked
  BY DEF Locked
<1>6. CASE Go(t, "renewed", o, FALSE) /\ UNCHANGED shopFaults
  BY <1>2, <1>3, <1>4, <1>5, <1>6, HandlerStep
<1>7. CASE Fault /\ Done(t)
  BY <1>3, <1>4, <1>7, FaultType, HandlerStep
<1> QED BY <1>3, <1>6, <1>7

\* The renewal is marked as done.
LEMMA RenewalMarkEffect ==
    ASSUME OrderInv, NEW t \in Handlers, RenewalMark(t) PROVE Effect
<1>1. PICK o : o = job[t].o
  OBVIOUS
<1>2. o \in Orders /\ orders[o].st # "none" /\ orders[o].type = "renewal"
  BY <1>1, JobFacts DEF RenewalMark
<1> DEFINE r == [orders[o] EXCEPT !.st = "renewed", !.client = orders[o].target]
<1>3. /\ orders' = [orders EXCEPT ![o] = r] /\ Done(t)
      /\ UNCHANGED <<walletVars, service, shopFaults, backed>>
  BY <1>1, <1>2, RowFacts DEF RenewalMark, OrderRow
<1>4. orders[o].target \in Orders /\ orders[orders[o].target].st # "none"
  BY <1>2 DEF OrderInv, RowHolds, LinksHold
<1>5. /\ SameOrder(r, orders[o]) /\ r.stamp = orders[o].stamp
      /\ r.client = orders[o].target /\ r.st = "renewed"
  BY <1>2, <1>4, RowFacts DEF SameOrder, OrderRow, Statuses
<1>6. WalletInv' /\ (\A kind, ref : HasEntry(wallet, kind, ref) => HasEntry(wallet', kind, ref))
  BY <1>3, WalletKept
<1>7. r.stamp \in Ends \union {0} /\ backed \subseteq backed' /\ backed' \subseteq Orders
  BY <1>2, <1>3, <1>5, RowFacts DEF OrderInv, OrdersTypeOK
<1>8. /\ job' \in [Handlers ->
               [pc : {"idle", "receipt", "confirm", "debit", "provision", "qualify"} \union Locked,
                o : Orders \union {0}, refer : BOOLEAN]]
      /\ \A u \in Handlers : job'[u] = job[u] \/ JobHolds(job[u])'
  BY <1>3, HandlerMoves
<1> HIDE DEF r
<1> QED BY <1>2, <1>3, <1>4, <1>5, <1>6, <1>7, <1>8, RowWritten

\* The reward of the referrer is the only movement besides the payments.
LEMMA QualifyReferralEffect ==
    ASSUME OrderInv, NEW t \in Handlers, QualifyReferral(t) PROVE Effect
<1>1. PICK b : b = orders[job[t].o].buyer
  OBVIOUS
<1>2. b \in Customers
  BY <1>1, JobFacts, RowFacts DEF QualifyReferral
<1>3. /\ Qualify(b) /\ Done(t) /\ UNCHANGED <<topups, clerk>>
      /\ UNCHANGED <<orders, service, shopFaults, backed>>
  BY <1>1 DEF QualifyReferral
<1>4. WalletInv' /\ \A kind, ref : HasEntry(wallet, kind, ref) => HasEntry(wallet', kind, ref)
  BY <1>2, <1>3, QualifyHolds DEF OrderInv
<1>5. /\ job' \in [Handlers ->
               [pc : {"idle", "receipt", "confirm", "debit", "provision", "qualify"} \union Locked,
                o : Orders \union {0}, refer : BOOLEAN]]
      /\ \A u \in Handlers : job'[u] = job[u] \/ JobHolds(job[u])'
  BY <1>3, HandlerMoves
<1>6. OrdersTypeOK' /\ Steady
  BY <1>3, <1>4, <1>5 DEF OrderInv, OrdersTypeOK, Steady
<1>7. ASSUME NEW p \in Orders
      PROVE  IF orders[p].st = "none" THEN orders'[p] = NoOrder
             ELSE /\ orders'[p].stamp \in Ends \union {0}
                  /\ orders'[p].st \in {"provisioned", "provisioned_waiting_activation"} => PaidFor(p)'
  <2>1. PaidFor(p) => PaidFor(p)'
    BY <1>6, PaidStaysPaid
  <2> QED BY <1>3, <2>1, RowFacts
<1> QED BY <1>3, <1>4, <1>5, <1>6, <1>7 DEF Effect

\* A crash forgets what the handlers were about to do, and nothing else.
LEMMA ShopCrashEffect == ASSUME OrderInv, ShopCrash PROVE Effect
<1>1. /\ Fault /\ job' = [t \in Handlers |-> Idle]
      /\ UNCHANGED <<walletVars, orders, service, backed>>
  BY DEF ShopCrash
<1>2. OrdersTypeOK'
  BY <1>1, FaultType DEF OrderInv, OrdersTypeOK, Idle
<1>3. \A t \in Handlers : JobHolds(job[t])'
  BY <1>1 DEF JobHolds, Idle
<1>4. orders' = orders /\ UNCHANGED walletVars /\ backed \subseteq backed'
      /\ \A o \in Orders : service'[o] = service[o]
  BY <1>1
<1> QED BY <1>2, <1>3, <1>4, RowsUntouched

\* Every step of the orders keeps the invariant.
LEMMA OrderInvNext == ASSUME OrderInv, OrdersNext PROVE OrderInv'
<1>1. Effect
  BY CreateOrderEffect, CreateRenewalEffect, PaymentEffect, ReceiptReadEffect, ReadEffect,
     StatusWriteEffect, PurchaseDebitEffect, RenewalPayEffect, ProvisionCallEffect,
     ProvisionMarkEffect, ActivateStampEffect, ActivateUpdateEffect, ActivateMarkEffect,
     RenewalUpdateEffect, RenewalResetEffect, RenewalMarkEffect, QualifyReferralEffect,
     ShopCrashEffect
     DEF OrdersNext
<1> QED BY <1>1, EffectKeepsOrders

\* What has been stamped as the end of a first period is not stamped again.
LEMMA StampIsKept ==
    ASSUME OrderInv, OrdersNext, NEW o \in Orders, orders[o].stamp > 0
    PROVE  orders'[o].stamp = orders[o].stamp
<1>1. /\ orders \in [Orders -> OrderRow]
      /\ \A p \in Orders : orders[p].st = "none" => orders[p].stamp = 0
  BY RowFacts DEF OrderInv, OrdersTypeOK, OrderRow, NoOrder
<1>2. ASSUME NEW p \in Orders, NEW b \in Buyers, NEW w \in BOOLEAN, CreateOrder(p, b, w)
      PROVE  orders'[o] = orders[o]
  <2>1. p # o
    BY <1>1, <1>2 DEF CreateOrder, Fresh
  <2> QED BY <1>1, <1>2, <2>1 DEF CreateOrder
<1>3. ASSUME NEW p \in Orders, NEW s \in Orders, CreateRenewal(p, s)
      PROVE  orders'[o] = orders[o]
  <2>1. p # o
    BY <1>1, <1>3 DEF CreateRenewal, Fresh
  <2> QED BY <1>1, <1>3, <2>1 DEF CreateRenewal
<1>4. ASSUME NEW p \in Orders, NEW st, Status(p, st)
      PROVE  orders'[o].stamp = orders[o].stamp
  BY <1>1, <1>4 DEF Status, OrderRow
<1>5. ASSUME NEW p \in Orders, NEW kind, WalletPays(p, kind)
      PROVE  orders'[o].stamp = orders[o].stamp
  BY <1>1, <1>5 DEF WalletPays, OrderRow
<1>6. ASSUME NEW p \in Orders,
             StartPayment(p) \/ RejectPayment(p)
                 \/ \E st \in {"payment_rejected", "cancelled"} : WebhookFailed(p, st)
      PROVE  orders'[o].stamp = orders[o].stamp
  BY <1>1, <1>4, <1>6 DEF StartPayment, RejectPayment, WebhookFailed, OrderRow
<1>7. ASSUME NEW t \in Handlers, NEW b \in Buyers, ReceiptRead(t, b)
      PROVE  orders' = orders
  BY <1>7 DEF ReceiptRead
<1>8. ASSUME NEW t \in Handlers, NEW p \in Orders,
             ConfirmRead(t, p) \/ ProvisionRequest(t, p) \/ PurchaseRead(t, p)
      PROVE  orders' = orders
  BY <1>8 DEF ConfirmRead, ProvisionRequest, PurchaseRead
<1>9. ASSUME NEW t \in Handlers, NEW p \in Orders, ActivateStamp(t, p)
      PROVE  orders'[o].stamp = orders[o].stamp
  <2>1. PICK e \in Ends : orders' = [orders EXCEPT ![p].stamp = IF @ = 0 THEN e ELSE @]
    BY <1>9 DEF ActivateStamp
  <2> QED BY <1>1, <2>1 DEF OrderRow
<1>10. ASSUME NEW t \in Handlers, NEW p \in Orders, RenewalPay(t, p)
       PROVE  orders'[o].stamp = orders[o].stamp
  BY <1>5, <1>10 DEF RenewalPay
<1>11. ASSUME NEW t \in Handlers, ReceiptWrite(t) \/ ConfirmWrite(t) \/ ActivateMark(t)
       PROVE  orders'[o].stamp = orders[o].stamp
  <2>1. job[t].o \in Orders
    BY <1>11, JobFacts DEF ReceiptWrite, ConfirmWrite, ActivateMark
  <2> QED BY <1>4, <1>11, <2>1 DEF ReceiptWrite, ConfirmWrite, ActivateMark
<1>12. ASSUME NEW t \in Handlers, PurchaseDebit(t)
       PROVE  orders'[o].stamp = orders[o].stamp
  <2>1. job[t].o \in Orders
    BY <1>12, JobFacts DEF PurchaseDebit
  <2> QED BY <1>5, <1>12, <2>1 DEF PurchaseDebit
<1>13. ASSUME NEW t \in Handlers,
              ProvisionCall(t) \/ ActivateUpdate(t) \/ RenewalUpdate(t) \/ RenewalReset(t)
                  \/ QualifyReferral(t)
       PROVE  orders' = orders
  BY <1>13 DEF ProvisionCall, ActivateUpdate, RenewalUpdate, RenewalReset, QualifyReferral
<1>14. ASSUME NEW t \in Handlers, ProvisionMark(t)
       PROVE  orders'[o].stamp = orders[o].stamp
  BY <1>1, <1>14 DEF ProvisionMark, OrderRow
<1>15. ASSUME NEW t \in Handlers, RenewalMark(t)
       PROVE  orders'[o].stamp = orders[o].stamp
  BY <1>1, <1>15 DEF RenewalMark, OrderRow
<1>16. ASSUME ShopCrash PROVE orders' = orders
  BY <1>16 DEF ShopCrash
<1> QED BY <1>2, <1>3, <1>6, <1>7, <1>8, <1>9, <1>10, <1>11, <1>12, <1>13, <1>14, <1>15, <1>16
        DEF OrdersNext

-----------------------------------------------------------------------------
(* Representative panels *)

RepPaid(o) == HasEntry(wallet, Kind(o), o)
RepRefunded(o) == HasEntry(wallet, "rep_refund", o)
BuyerOf(t) == repOrders[pay[t].o].buyer

\* What a payer works on exists, is paid once the debit is behind, and refunded once
\* the refund is.
PayerHolds(t) ==
    /\ pay[t].pc = "idle" => pay[t] = AtRest
    /\ pay[t].pc # "idle" => pay[t].o \in RepOrders /\ repOrders[pay[t].o].st # "none"
    /\ pay[t].pc \notin {"idle", "debit"} => RepPaid(pay[t].o)
    /\ pay[t].pc = "cleanup" => RepRefunded(pay[t].o)
    /\ pay[t].pc \in {"account", "create"} => ~Renewal(pay[t].o)
    /\ pay[t].pc = "open" /\ Renewal(pay[t].o) => panel[BuyerOf(t)].sub # "none"

\* What was paid is being worked on, or was served or given back.
MoneyHolds(o) ==
    /\ RepPaid(o) /\ ~crashed =>
           \/ \E t \in Payers : pay[t].o = o /\ pay[t].pc \notin {"idle", "debit"}
           \/ served[o] > 0
           \/ RepRefunded(o)
    /\ RepRefunded(o) => RepPaid(o)

\* As long as the payments of one buyer came one after another, a panel has an account,
\* and the account that a payer found or created is there when it opens the panel.
PanelHolds(b) ==
    /\ panel[b].sub # "none" => account[b] # "none"
    /\ panel[b].sub = "suspended" => account[b] # "enabled" /\ ~sessions[b]

OneByOne ==
    /\ \A t, u \in Payers : t # u /\ pay[t].pc # "idle" /\ pay[u].pc # "idle" => BuyerOf(t) # BuyerOf(u)
    /\ \A t \in Payers : pay[t].pc = "open" /\ ~Renewal(pay[t].o) => account[BuyerOf(t)] # "none"
    /\ \A b \in Buyers : PanelHolds(b)

MarketTypes ==
    /\ MarketTypeOK
    /\ served \in [RepOrders -> Nat] /\ day \in Nat
    /\ crashed \in BOOLEAN /\ overlap \in BOOLEAN
    /\ \A o \in RepOrders : repOrders[o].st # "none" => repOrders[o].buyer \in Buyers

\* The inductive invariant of the panels.
MarketInv ==
    /\ WalletInv
    /\ MarketTypes
    /\ \A t \in Payers : PayerHolds(t)
    /\ \A o \in RepOrders : MoneyHolds(o)
    /\ ~overlap => OneByOne

\* The invariant implies the properties of the panels.
LEMMA MarketInvShows ==
    MarketInv => /\ WalletTypeOK /\ BalanceIsLedger /\ MarketTypeOK
                 /\ NoPaymentForNothing /\ SuspendedIsLockedOut
<1> SUFFICES ASSUME MarketInv
             PROVE  /\ WalletTypeOK /\ BalanceIsLedger /\ MarketTypeOK
                    /\ NoPaymentForNothing /\ SuspendedIsLockedOut
  OBVIOUS
<1>1. NoPaymentForNothing
  BY DEF MarketInv, MoneyHolds, NoPaymentForNothing, RepPaid, RepRefunded
<1>2. SuspendedIsLockedOut
  BY DEF MarketInv, OneByOne, PanelHolds, SuspendedIsLockedOut
<1> QED BY <1>1, <1>2, WalletInvShows DEF MarketInv, MarketTypes

\* No order and no panel.
LEMMA MarketInvInit ==
    ASSUME WalletInv, \A kind, ref : HasEntry(wallet, kind, ref) => kind = "topup", MarketInit
    PROVE  MarketInv
<1>1. MarketTypes
  BY DEF MarketInit, MarketTypes, MarketTypeOK, NoPanel, AtRest
<1>2. \A t \in Payers : PayerHolds(t)
  BY DEF MarketInit, PayerHolds, AtRest
<1>3. \A o \in RepOrders : MoneyHolds(o)
  BY DEF MoneyHolds, RepPaid, RepRefunded, Kind
<1>4. OneByOne
  BY DEF MarketInit, OneByOne, PanelHolds, AtRest, NoPanel
<1> QED BY <1>1, <1>2, <1>3, <1>4 DEF MarketInv

\* What no step takes back.
Kept ==
    /\ \A o \in RepOrders : repOrders[o].st # "none" =>
           repOrders'[o].st # "none" /\ repOrders'[o].buyer = repOrders[o].buyer
    /\ \A b \in Buyers : panel[b].sub # "none" => panel'[b].sub # "none"
    /\ \A kind, ref : HasEntry(wallet, kind, ref) => HasEntry(wallet', kind, ref)

\* A payer that does not move is where it was.
LEMMA OtherPayer ==
    ASSUME MarketInv, NEW u \in Payers, pay'[u] = pay[u], Kept
    PROVE  PayerHolds(u)' /\ (pay[u].pc # "idle" => BuyerOf(u)' = BuyerOf(u))
<1>1. PayerHolds(u)
  BY DEF MarketInv
<1>2. ASSUME pay[u].pc # "idle" PROVE BuyerOf(u)' = BuyerOf(u) /\ BuyerOf(u) \in Buyers
  BY <1>1, <1>2 DEF BuyerOf, PayerHolds, Kept, MarketInv, MarketTypes
<1>3. ASSUME pay[u].pc # "idle"
      PROVE  /\ pay[u].o \in RepOrders /\ repOrders'[pay[u].o].st # "none"
             /\ pay[u].pc # "debit" => HasEntry(wallet', Kind(pay[u].o), pay[u].o)
             /\ pay[u].pc = "cleanup" => HasEntry(wallet', "rep_refund", pay[u].o)
  BY <1>1, <1>3 DEF PayerHolds, Kept, RepPaid, RepRefunded
<1>4. ASSUME pay[u].pc = "open", Renewal(pay[u].o) PROVE panel'[BuyerOf(u)].sub # "none"
  <2>1. panel[BuyerOf(u)].sub # "none" /\ BuyerOf(u) \in Buyers
    BY <1>1, <1>2, <1>4 DEF PayerHolds
  <2> QED BY <2>1 DEF Kept
<1>5. Renewal(pay[u].o)' <=> Renewal(pay[u].o)
  BY DEF Renewal
<1>6. Kind(pay[u].o)' = Kind(pay[u].o)
  BY <1>5 DEF Kind
<1>7. RepPaid(pay[u].o)' <=> HasEntry(wallet', Kind(pay[u].o), pay[u].o)
  BY <1>6 DEF RepPaid
<1>8. RepRefunded(pay[u].o)' <=> HasEntry(wallet', "rep_refund", pay[u].o)
  BY DEF RepRefunded
<1> QED BY <1>1, <1>2, <1>3, <1>4, <1>5, <1>7, <1>8 DEF PayerHolds

\* Steps in which no payer moves.
LEMMA BystanderStep ==
    ASSUME MarketInv, UNCHANGED <<walletVars, pay, served, crashed, overlap>>, MarketTypes', Kept,
           \A b \in Buyers : account[b] # "none" => account'[b] # "none",
           ~overlap => \A b \in Buyers : PanelHolds(b)'
    PROVE  MarketInv'
<1>1. WalletInv' /\ wallet' = wallet
  BY WalletUntouched DEF MarketInv, walletVars
<1>2. \A u \in Payers : PayerHolds(u)' /\ (pay[u].pc # "idle" => BuyerOf(u)' = BuyerOf(u))
  BY OtherPayer
<1>3. ASSUME NEW o \in RepOrders PROVE MoneyHolds(o)'
  <2>1. MoneyHolds(o)
    BY DEF MarketInv
  <2> QED BY <1>1, <2>1 DEF MoneyHolds, RepPaid, RepRefunded
<1>4. ASSUME ~overlap PROVE OneByOne'
  <2>1. OneByOne
    BY <1>4 DEF MarketInv
  <2>2. ASSUME NEW t \in Payers, pay[t].pc = "open", ~Renewal(pay[t].o)
        PROVE  account'[BuyerOf(t)'] # "none"
    <3>1. BuyerOf(t)' = BuyerOf(t) /\ BuyerOf(t) \in Buyers
      BY <1>2, <2>2 DEF MarketInv, MarketTypes, PayerHolds, BuyerOf
    <3>2. account[BuyerOf(t)] # "none"
      BY <2>1, <2>2 DEF OneByOne
    <3> QED BY <3>1, <3>2
  <2>3. \A t, u \in Payers : t # u /\ pay'[t].pc # "idle" /\ pay'[u].pc # "idle"
                                 => BuyerOf(t)' # BuyerOf(u)'
    BY <1>2, <2>1 DEF OneByOne
  <2>4. \A t \in Payers : pay'[t].pc = "open" /\ ~Renewal(pay'[t].o) => account'[BuyerOf(t)'] # "none"
    BY <2>2
  <2> QED BY <1>4, <2>3, <2>4 DEF OneByOne, Renewal
<1> QED BY <1>1, <1>2, <1>3, <1>4 DEF MarketInv

\* Payer t, on order o of buyer b, moves to q.
PayerMove(t, o, b, q) ==
    /\ pay[t].pc # "idle" /\ o = pay[t].o /\ b = repOrders[o].buyer
    /\ pay' = [pay EXCEPT ![t] = q]
    /\ q = AtRest \/ (q.o = o /\ q.pc # "idle")
    /\ crashed' = crashed /\ overlap' = overlap
    /\ \A p \in RepOrders : served'[p] >= served[p]
    /\ \A p \in RepOrders : RepPaid(p)' => RepPaid(p) \/ (p = o /\ q.pc \notin {"idle", "debit"})
    /\ \A p \in RepOrders : RepRefunded(p)' => RepRefunded(p) \/ (p = o /\ RepPaid(o))
    /\ q = AtRest \/ q.pc = "debit" => pay[t].pc = "debit" \/ served'[o] > 0 \/ RepRefunded(o)'
    /\ \A a \in Buyers : a # b /\ account[a] # "none" => account'[a] # "none"
    /\ ~overlap => \A a \in Buyers : PanelHolds(a)'
    /\ ~overlap /\ q.pc = "open" /\ ~Renewal(o) => account'[b] # "none"

\* A payer that moves keeps what the others work on.
LEMMA PayerStep ==
    ASSUME MarketInv, NEW t \in Payers, NEW o, NEW b, NEW q, PayerMove(t, o, b, q),
           WalletInv', MarketTypes', Kept, PayerHolds(t)'
    PROVE  MarketInv'
<1> USE DEF PayerMove
<1>1. pay \in [Payers -> [pc : {"idle", "debit", "policy", "account", "create", "open", "refund",
                                "cleanup"}, o : RepOrders \union {0}, end : Nat]]
  BY DEF MarketInv, MarketTypes, MarketTypeOK
<1>2. /\ o \in RepOrders /\ repOrders[o].st # "none" /\ b \in Buyers
      /\ b = BuyerOf(t) /\ repOrders'[o].buyer = b
  BY DEF MarketInv, MarketTypes, PayerHolds, BuyerOf, Kept
<1>3. pay'[t] = q /\ \A u \in Payers : u # t => pay'[u] = pay[u]
  BY <1>1
<1>4. \A u \in Payers : u # t => /\ PayerHolds(u)'
                                 /\ pay[u].pc # "idle" => BuyerOf(u)' = BuyerOf(u)
  BY <1>3, OtherPayer
<1>5. ASSUME NEW p \in RepOrders PROVE MoneyHolds(p)'
  <2>1. MoneyHolds(p) /\ (RepRefunded(p) => RepRefunded(p)') /\ (RepPaid(p) => RepPaid(p)')
    BY DEF MarketInv, RepPaid, RepRefunded, Kept
  <2>2. RepRefunded(p)' => RepPaid(p)'
    BY <1>2, <2>1 DEF MoneyHolds
  <2>3. ASSUME RepPaid(p)', ~crashed
        PROVE  \/ \E u \in Payers : pay'[u].o = p /\ pay'[u].pc \notin {"idle", "debit"}
               \/ served'[p] > 0
               \/ RepRefunded(p)'
    <3>1. served[p] \in Nat /\ served'[p] \in Nat /\ served'[p] >= served[p]
      BY DEF MarketInv, MarketTypes
    <3>2. CASE RepPaid(p)
      <4>1. CASE served[p] > 0 \/ RepRefunded(p)
        BY <2>1, <3>1, <4>1
      <4>2. CASE \E u \in Payers : pay[u].o = p /\ pay[u].pc \notin {"idle", "debit"}
        <5>1. PICK u \in Payers : pay[u].o = p /\ pay[u].pc \notin {"idle", "debit"}
          BY <4>2
        <5>2. CASE u # t
          BY <1>3, <5>1, <5>2
        <5>3. CASE u = t
          <6>1. p = o /\ pay[t].pc # "debit"
            BY <5>1, <5>3
          <6>2. CASE q = AtRest \/ q.pc = "debit"
            BY <6>1, <6>2
          <6>3. CASE ~(q = AtRest \/ q.pc = "debit")
            BY <1>3, <6>1, <6>3
          <6> QED BY <6>2, <6>3
        <5> QED BY <5>2, <5>3
      <4> QED BY <2>1, <2>3, <3>2, <4>1, <4>2 DEF MoneyHolds
    <3>3. CASE p = o /\ q.pc \notin {"idle", "debit"}
      <4>1. q.o = o
        BY <3>3 DEF AtRest
      <4> QED BY <1>3, <3>3, <4>1
    <3> QED BY <2>3, <3>2, <3>3
  <2> QED BY <2>2, <2>3 DEF MoneyHolds
<1>6. ASSUME ~overlap PROVE OneByOne'
  <2>1. OneByOne
    BY <1>6 DEF MarketInv
  <2>2. q.pc # "idle" => BuyerOf(t)' = b
    BY <1>2, <1>3 DEF BuyerOf, AtRest
  <2>3. \A u \in Payers : pay'[u].pc # "idle" => pay[u].pc # "idle" /\ BuyerOf(u)' = BuyerOf(u)
    BY <1>2, <1>3, <1>4, <2>2
  <2>4. \A s, u \in Payers : s # u /\ pay'[s].pc # "idle" /\ pay'[u].pc # "idle"
                                 => BuyerOf(s)' # BuyerOf(u)'
    BY <2>1, <2>3 DEF OneByOne
  <2>5. ASSUME NEW u \in Payers, pay'[u].pc = "open", ~Renewal(pay'[u].o)
        PROVE  account'[BuyerOf(u)'] # "none"
    <3>1. CASE u = t
      <4>1. q.pc = "open" /\ ~Renewal(o) /\ BuyerOf(t)' = b
        BY <1>3, <2>2, <2>5, <3>1 DEF AtRest
      <4> QED BY <1>6, <3>1, <4>1
    <3>2. CASE u # t
      <4>1. pay[u].pc = "open" /\ ~Renewal(pay[u].o) /\ BuyerOf(u)' = BuyerOf(u)
        BY <1>3, <1>4, <2>5, <3>2
      <4>2. account[BuyerOf(u)] # "none" /\ BuyerOf(u) # b
        BY <1>2, <2>1, <3>2, <4>1 DEF OneByOne
      <4>3. BuyerOf(u) \in Buyers
        BY <4>1 DEF MarketInv, MarketTypes, PayerHolds, BuyerOf
      <4> QED BY <4>1, <4>2, <4>3
    <3> QED BY <3>1, <3>2
  <2> QED BY <1>6, <2>4, <2>5 DEF OneByOne, Renewal
<1> QED BY <1>3, <1>4, <1>5, <1>6 DEF MarketInv

\* A new order for a panel: nothing is paid yet.
LEMMA CreateRepOrderStep ==
    ASSUME MarketInv, NEW o \in RepOrders, NEW b \in Buyers, CreateRepOrder(o, b)
    PROVE  MarketInv'
<1>1. /\ repOrders[o].st = "none" /\ repOrders' = [repOrders EXCEPT ![o] = [st |-> "pending", buyer |-> b]]
      /\ UNCHANGED <<walletVars, asked, panel, account, bot, sessions, pay, sweep, day,
                     marketFaults, served, crashed, overlap>>
  BY DEF CreateRepOrder
<1>2. MarketTypes'
  BY <1>1 DEF MarketInv, MarketTypes, MarketTypeOK
<1>3. Kept
  BY <1>1 DEF Kept, MarketInv, MarketTypes, MarketTypeOK, walletVars
<1>4. ~overlap => \A a \in Buyers : PanelHolds(a)'
  BY <1>1 DEF MarketInv, OneByOne, PanelHolds
<1> QED BY <1>1, <1>2, <1>3, <1>4, BystanderStep

\* Logins, requests for the bot, the sweep's read and the clock: no order and no account changes.
LEMMA UseStep ==
    ASSUME MarketInv,
           (\E b \in Buyers : PanelLogin(b) \/ AskBot(b) \/ EnableBot(b)) \/ SweepRead \/ DayPasses
    PROVE  MarketInv'
<1>1. UNCHANGED <<walletVars, repOrders, panel, account, pay, served, crashed, overlap>>
  BY DEF PanelLogin, AskBot, EnableBot, SweepRead, DayPasses
<1>2. MarketTypes'
  <2>1. MarketTypes
    BY DEF MarketInv
  <2>2. ASSUME NEW b \in Buyers, PanelLogin(b) PROVE MarketTypes'
    BY <1>1, <2>1, <2>2 DEF PanelLogin, MarketTypes, MarketTypeOK
  <2>3. ASSUME NEW b \in Buyers, AskBot(b) \/ EnableBot(b) PROVE MarketTypes'
    BY <1>1, <2>1, <2>3 DEF AskBot, EnableBot, MarketTypes, MarketTypeOK
  <2>4. ASSUME SweepRead PROVE MarketTypes'
    BY <1>1, <2>1, <2>4 DEF SweepRead, MarketTypes, MarketTypeOK
  <2>5. ASSUME DayPasses PROVE MarketTypes'
    BY <1>1, <2>1, <2>5 DEF DayPasses, MarketTypes, MarketTypeOK
  <2> QED BY <2>2, <2>3, <2>4, <2>5
<1>3. Kept
  BY <1>1 DEF Kept, walletVars
<1>4. ASSUME ~overlap, NEW a \in Buyers PROVE PanelHolds(a)'
  <2>1. PanelHolds(a)
    BY <1>4 DEF MarketInv, OneByOne
  <2>2. sessions' = sessions \/ \E b \in Buyers : PanelLogin(b)
    BY DEF AskBot, EnableBot, SweepRead, DayPasses
  <2>3. sessions \in [Buyers -> BOOLEAN]
    BY DEF MarketInv, MarketTypes, MarketTypeOK
  <2>4. CASE sessions' = sessions
    BY <1>1, <2>1, <2>4 DEF PanelHolds
  <2>5. ASSUME NEW b \in Buyers, PanelLogin(b) PROVE PanelHolds(a)'
    <3>1. account[b] = "enabled" /\ sessions' = [sessions EXCEPT ![b] = TRUE]
      BY <2>5 DEF PanelLogin
    <3>2. sessions'[a] => a = b \/ sessions[a]
      BY <2>3, <3>1
    <3> QED BY <1>1, <2>1, <3>1, <3>2 DEF PanelHolds
  <2> QED BY <2>2, <2>4, <2>5
<1> QED BY <1>1, <1>2, <1>3, <1>4, BystanderStep

\* The sweep closes what it has read, renewed since or not.
LEMMA SweepCloseStep ==
    ASSUME MarketInv, NEW b \in Buyers, SweepClose(b) PROVE MarketInv'
<1> DEFINE ac == IF account[b] = "none" THEN "none" ELSE "disabled"
           pn == IF panel[b].sub = "active" THEN [panel[b] EXCEPT !.sub = "suspended", !.was = bot[b]]
                                            ELSE panel[b]
<1>1. /\ account' = [account EXCEPT ![b] = ac] /\ sessions' = [sessions EXCEPT ![b] = FALSE]
      /\ bot' = [bot EXCEPT ![b] = FALSE] /\ panel' = [panel EXCEPT ![b] = pn]
      /\ sweep' = sweep \ {b}
      /\ UNCHANGED <<walletVars, asked, repOrders, pay, day, marketFaults, served, crashed,
                     overlap>>
  BY DEF SweepClose, Closed, MarketInv, MarketTypes, MarketTypeOK
<1>2. /\ panel \in [Buyers -> [sub : {"none", "active", "suspended"}, end : Nat, was : BOOLEAN]]
      /\ account \in [Buyers -> {"none", "enabled", "disabled"}]
      /\ sessions \in [Buyers -> BOOLEAN] /\ bot \in [Buyers -> BOOLEAN]
  BY DEF MarketInv, MarketTypes, MarketTypeOK
<1>3. /\ ac \in {"none", "disabled"} /\ (ac = "none" <=> account[b] = "none")
      /\ pn \in [sub : {"none", "active", "suspended"}, end : Nat, was : BOOLEAN]
      /\ (pn.sub = "none" <=> panel[b].sub = "none")
  BY <1>2
<1> HIDE DEF ac, pn
<1>4. MarketTypes'
  BY <1>1, <1>2, <1>3 DEF MarketInv, MarketTypes, MarketTypeOK
<1>5. Kept
  BY <1>1, <1>2, <1>3 DEF Kept, walletVars
<1>6. \A a \in Buyers : account[a] # "none" => account'[a] # "none"
  BY <1>1, <1>2, <1>3
<1>7. ASSUME ~overlap, NEW a \in Buyers PROVE PanelHolds(a)'
  <2>1. PanelHolds(a)
    BY <1>7 DEF MarketInv, OneByOne
  <2>2. CASE a = b
    BY <1>1, <1>2, <1>3, <2>1, <2>2 DEF PanelHolds
  <2>3. CASE a # b
    BY <1>1, <1>2, <2>1, <2>3 DEF PanelHolds
  <2> QED BY <2>2, <2>3
<1> QED BY <1>1, <1>4, <1>5, <1>6, <1>7, BystanderStep

\* A payment is taken up: with another one of the same buyer it makes an overlap.
LEMMA PayReadStep ==
    ASSUME MarketInv, NEW t \in Payers, NEW o \in RepOrders, PayRead(t, o) PROVE MarketInv'
<1> DEFINE q == [AtRest EXCEPT !.pc = "debit", !.o = o]
<1>1. /\ pay[t] = AtRest /\ repOrders[o].st # "none" /\ pay' = [pay EXCEPT ![t] = q]
      /\ overlap' = (overlap \/ \E u \in Payers : pay[u] # AtRest
                        /\ repOrders[pay[u].o].buyer = repOrders[o].buyer)
      /\ UNCHANGED <<walletVars, asked, repOrders, panel, account, bot, sessions, sweep, day,
                     marketFaults, served, crashed>>
  BY DEF PayRead
<1>0. /\ q.pc = "debit" /\ q.o = o
      /\ q \in [pc : {"debit"}, o : RepOrders, end : Nat]
  BY DEF AtRest
<1> HIDE DEF q
<1>2. MarketTypes'
  BY <1>0, <1>1 DEF MarketInv, MarketTypes, MarketTypeOK
<1>3. WalletInv' /\ Kept /\ wallet' = wallet
  BY <1>1, WalletUntouched DEF MarketInv, Kept, walletVars
<1>4. pay'[t] = q /\ \A u \in Payers : u # t => pay'[u] = pay[u]
  BY <1>1 DEF MarketInv, MarketTypes, MarketTypeOK
<1>5. \A u \in Payers : u # t => /\ PayerHolds(u)'
                                 /\ pay[u].pc # "idle" => BuyerOf(u)' = BuyerOf(u)
  BY <1>3, <1>4, OtherPayer
<1>6. PayerHolds(t)'
  BY <1>0, <1>1, <1>4 DEF PayerHolds
<1>7. ASSUME NEW p \in RepOrders PROVE MoneyHolds(p)'
  <2>1. MoneyHolds(p)
    BY DEF MarketInv
  <2>2. \A u \in Payers : pay[u].pc \notin {"idle", "debit"} => pay'[u] = pay[u]
    BY <1>1, <1>4 DEF AtRest
  <2> QED BY <1>1, <1>3, <2>1, <2>2 DEF MoneyHolds, RepPaid, RepRefunded
<1>8. ASSUME ~overlap' PROVE OneByOne'
  <2>1. OneByOne /\ \A u \in Payers : pay[u] # AtRest => repOrders[pay[u].o].buyer # repOrders[o].buyer
    BY <1>1, <1>8 DEF MarketInv
  <2>2. BuyerOf(t)' = repOrders[o].buyer
    BY <1>0, <1>1, <1>4 DEF BuyerOf
  <2>3. \A u \in Payers : u # t /\ pay[u].pc # "idle" =>
            BuyerOf(u)' = BuyerOf(u) /\ BuyerOf(u) # repOrders[o].buyer
    BY <1>5, <2>1 DEF BuyerOf, AtRest
  <2>4. \A s, u \in Payers : s # u /\ pay'[s].pc # "idle" /\ pay'[u].pc # "idle"
                                 => BuyerOf(s)' # BuyerOf(u)'
    BY <1>4, <2>1, <2>2, <2>3 DEF OneByOne
  <2>5. \A u \in Payers : pay'[u].pc = "open" /\ ~Renewal(pay'[u].o) => account'[BuyerOf(u)'] # "none"
    BY <1>0, <1>1, <1>4, <1>5, <2>1 DEF OneByOne
  <2>6. \A a \in Buyers : PanelHolds(a)'
    BY <1>1, <2>1 DEF OneByOne, PanelHolds
  <2> QED BY <2>4, <2>5, <2>6 DEF OneByOne, Renewal
<1> QED BY <1>2, <1>3, <1>4, <1>5, <1>6, <1>7, <1>8 DEF MarketInv

\* A payer dies: what it had debited stays booked.
LEMMA PayerCrashStep == ASSUME MarketInv, PayerCrash PROVE MarketInv'
<1>1. /\ pay' = [t \in Payers |-> AtRest] /\ sweep' = {} /\ asked' = {} /\ crashed' = TRUE
      /\ UNCHANGED <<walletVars, repOrders, panel, account, bot, sessions, day, served, overlap>>
  BY DEF PayerCrash
<1>2. MarketTypes'
  BY <1>1 DEF MarketInv, MarketTypes, MarketTypeOK, AtRest
<1>3. WalletInv' /\ wallet' = wallet
  BY <1>1, WalletUntouched DEF MarketInv, walletVars
<1>4. \A t \in Payers : PayerHolds(t)'
  BY <1>1 DEF PayerHolds, AtRest
<1>5. ASSUME NEW p \in RepOrders PROVE MoneyHolds(p)'
  <2>1. MoneyHolds(p)
    BY DEF MarketInv
  <2> QED BY <1>1, <1>3, <2>1 DEF MoneyHolds, RepPaid, RepRefunded
<1>6. ASSUME ~overlap PROVE OneByOne'
  <2>1. OneByOne
    BY <1>6 DEF MarketInv
  <2>2. \A t \in Payers : pay'[t].pc = "idle"
    BY <1>1 DEF AtRest
  <2> QED BY <1>1, <2>1, <2>2 DEF OneByOne, PanelHolds
<1> QED BY <1>1, <1>2, <1>3, <1>4, <1>5, <1>6 DEF MarketInv

Payment == [pc : {"idle", "debit", "policy", "account", "create", "open", "refund", "cleanup"},
            o : RepOrders \union {0}, end : Nat]

\* What holds of a payer at work.
LEMMA PayerFacts ==
    ASSUME MarketInv, NEW t \in Payers, pay[t].pc # "idle"
    PROVE  /\ pay \in [Payers -> Payment]
           /\ pay[t].o \in RepOrders /\ repOrders[pay[t].o].st # "none"
           /\ repOrders[pay[t].o].buyer \in Buyers /\ repOrders[pay[t].o].buyer \in Customers
           /\ pay[t].pc # "debit" => RepPaid(pay[t].o)
           /\ pay[t].pc = "cleanup" => RepRefunded(pay[t].o)
           /\ pay[t].pc = "open" /\ Renewal(pay[t].o) => panel[repOrders[pay[t].o].buyer].sub # "none"
           /\ pay[t].pc \in {"account", "create"} => ~Renewal(pay[t].o)
BY WalletAssumption DEF MarketInv, MarketTypes, MarketTypeOK, PayerHolds, Payment, BuyerOf

\* A payer goes on with its provisioning: at most the account is created on the way.
LEMMA PayerGoesOn ==
    ASSUME MarketInv, NEW t \in Payers, NEW o, NEW b, NEW q \in Payment,
           pay[t].pc \notin {"idle", "debit"}, o = pay[t].o, b = repOrders[o].buyer,
           pay' = [pay EXCEPT ![t] = q], q.o = o, q.pc \notin {"idle", "debit", "cleanup"},
           UNCHANGED <<walletVars, asked, repOrders, panel, bot, sessions, sweep, day, served,
                       crashed, overlap>>,
           account' \in [Buyers -> {"none", "enabled", "disabled"}],
           \A a \in Buyers : account[a] # "none" => account'[a] = account[a],
           ~overlap => \A a \in Buyers : account'[a] # account[a] => panel[a].sub = "none",
           q.pc = "open" /\ Renewal(o) => panel[b].sub # "none",
           q.pc \in {"account", "create"} => ~Renewal(o),
           ~overlap /\ q.pc = "open" /\ ~Renewal(o) => account'[b] # "none"
    PROVE  MarketInv'
<1>1. /\ pay \in [Payers -> Payment] /\ o \in RepOrders /\ repOrders[o].st # "none"
      /\ RepPaid(o) /\ b \in Buyers
  BY PayerFacts
<1>2. WalletInv' /\ wallet' = wallet
  BY WalletUntouched DEF MarketInv, walletVars
<1>3. MarketTypes'
  BY <1>1 DEF MarketInv, MarketTypes, MarketTypeOK, Payment
<1>4. Kept
  BY <1>2 DEF Kept
<1>5. pay'[t] = q
  BY <1>1
<1>6. RepPaid(o)' /\ Renewal(o)' = Renewal(o)
  BY <1>1, <1>2 DEF RepPaid, Kind, Renewal
<1>7. PayerHolds(t)'
  <2>1. HasEntry(wallet', Kind(o), o)
    BY <1>1, <1>2 DEF RepPaid
  <2> QED BY <1>1, <1>5, <2>1 DEF PayerHolds, BuyerOf, RepPaid, Kind, Renewal
<1>8. \A p \in RepOrders : served'[p] >= served[p]
  BY DEF MarketInv, MarketTypes
<1>9. \A p \in RepOrders : (RepPaid(p)' => RepPaid(p)) /\ (RepRefunded(p)' => RepRefunded(p))
  BY <1>2 DEF RepPaid, RepRefunded, Kind, Renewal
<1>10. ASSUME ~overlap, NEW a \in Buyers PROVE PanelHolds(a)'
  <2>1. PanelHolds(a)
    BY <1>10 DEF MarketInv, OneByOne
  <2> QED BY <1>10, <2>1 DEF PanelHolds
<1>11. ~(q = AtRest \/ q.pc = "debit") /\ (q.o = o /\ q.pc # "idle")
  BY DEF AtRest
<1>12. /\ \A p \in RepOrders : RepPaid(p)' => RepPaid(p) \/ (p = o /\ q.pc \notin {"idle", "debit"})
       /\ \A p \in RepOrders : RepRefunded(p)' => RepRefunded(p) \/ (p = o /\ RepPaid(o))
  BY <1>9
<1>13. /\ \A a \in Buyers : a # b /\ account[a] # "none" => account'[a] # "none"
       /\ ~overlap => \A a \in Buyers : PanelHolds(a)'
  BY <1>10
<1>14. PayerMove(t, o, b, q)
  BY <1>8, <1>11, <1>12, <1>13 DEF PayerMove
<1> QED BY <1>2, <1>3, <1>4, <1>7, <1>14, PayerStep

\* The policy of the representative is written, or the payment turns to its refund.
LEMMA ApplyPolicyStep ==
    ASSUME MarketInv, NEW t \in Payers, ApplyPolicy(t) PROVE MarketInv'
<1>1. PICK o, b : o = pay[t].o /\ b = repOrders[o].buyer
  OBVIOUS
<1>2. pay[t].pc = "policy"
  BY DEF ApplyPolicy
<1>3. pay \in [Payers -> Payment] /\ o \in RepOrders /\ b \in Buyers
  BY <1>1, <1>2, PayerFacts
<1>4. PICK q \in Payment :
          /\ pay' = [pay EXCEPT ![t] = q] /\ q.o = o /\ q.pc \notin {"idle", "debit", "cleanup"}
          /\ q.pc = "open" => Renewal(o) /\ panel[b].sub # "none"
          /\ q.pc \in {"account", "create"} => ~Renewal(o)
  <2> DEFINE n == IF Renewal(o) THEN "open" ELSE "account"
             q1 == [pay[t] EXCEPT !.pc = n, !.end = panel[b].end]
             q2 == [pay[t] EXCEPT !.pc = "refund"]
  <2>1. \/ /\ Renewal(o) => panel[b].sub # "none"
           /\ pay' = [pay EXCEPT ![t] = q1]
        \/ pay' = [pay EXCEPT ![t] = q2]
    BY <1>1, <1>3 DEF ApplyPolicy, To, Payment
  <2>2. panel[b].end \in Nat
    BY <1>3 DEF MarketInv, MarketTypes, MarketTypeOK
  <2>3. q1 \in Payment /\ q1.o = o /\ q1.pc = n
    BY <1>1, <1>3, <2>2 DEF Payment
  <2>4. q2 \in Payment /\ q2.o = o /\ q2.pc = "refund"
    BY <1>1, <1>3 DEF Payment
  <2> HIDE DEF q1, q2
  <2> QED BY <2>1, <2>3, <2>4
<1>5. /\ UNCHANGED <<walletVars, asked, repOrders, panel, bot, sessions, sweep, day, served,
                     crashed, overlap>>
      /\ account' = account
  BY DEF ApplyPolicy
<1>6. account' \in [Buyers -> {"none", "enabled", "disabled"}]
  BY <1>5 DEF MarketInv, MarketTypes, MarketTypeOK
<1> QED BY <1>1, <1>2, <1>4, <1>5, <1>6, PayerGoesOn

\* The account is looked up.
LEMMA AccountReadStep ==
    ASSUME MarketInv, NEW t \in Payers, AccountRead(t) PROVE MarketInv'
<1>1. PICK o, b : o = pay[t].o /\ b = repOrders[o].buyer
  OBVIOUS
<1>2. pay[t].pc = "account"
  BY DEF AccountRead
<1>3. pay \in [Payers -> Payment] /\ o \in RepOrders /\ b \in Buyers
  BY <1>1, <1>2, PayerFacts
<1> DEFINE n == IF account[b] = "none" THEN "create" ELSE "open"
           q == [pay[t] EXCEPT !.pc = n]
<1>4. /\ pay' = [pay EXCEPT ![t] = q]
      /\ UNCHANGED <<walletVars, asked, repOrders, panel, bot, sessions, sweep, day, served,
                     crashed, overlap>>
      /\ account' = account
  BY <1>1, <1>3 DEF AccountRead, To, Payment
<1>5. q \in Payment /\ q.o = o /\ q.pc = n
  BY <1>1, <1>3 DEF Payment
<1>6. account' \in [Buyers -> {"none", "enabled", "disabled"}]
  BY <1>4 DEF MarketInv, MarketTypes, MarketTypeOK
<1> HIDE DEF q
<1>7. q.pc = "open" => account'[b] # "none"
  BY <1>4, <1>5
<1>8. ~Renewal(o) /\ q.pc \notin {"idle", "debit", "cleanup"}
  BY <1>1, <1>2, <1>5, PayerFacts
<1> QED BY <1>1, <1>2, <1>4, <1>5, <1>6, <1>7, <1>8, PayerGoesOn

\* The account is created, unless it exists by now.
LEMMA AccountCreateStep ==
    ASSUME MarketInv, NEW t \in Payers, AccountCreate(t) PROVE MarketInv'
<1>1. PICK o, b : o = pay[t].o /\ b = repOrders[o].buyer
  OBVIOUS
<1>2. pay[t].pc = "create"
  BY DEF AccountCreate
<1>3. pay \in [Payers -> Payment] /\ o \in RepOrders /\ b \in Buyers /\ ~Renewal(o)
  BY <1>1, <1>2, PayerFacts
<1>4. account \in [Buyers -> {"none", "enabled", "disabled"}]
  BY DEF MarketInv, MarketTypes, MarketTypeOK
<1>5. ASSUME ~overlap PROVE panel[b].sub # "none" => account[b] # "none"
  BY <1>3, <1>5 DEF MarketInv, OneByOne, PanelHolds
<1>6. UNCHANGED <<walletVars, asked, repOrders, panel, bot, sessions, sweep, day, served,
                  crashed, overlap>>
  BY DEF AccountCreate
<1> DEFINE q1 == [pay[t] EXCEPT !.pc = "open"]
           q2 == [pay[t] EXCEPT !.pc = "refund"]
<1>7. \/ /\ account[b] = "none" /\ account' = [account EXCEPT ![b] = "enabled"]
         /\ pay' = [pay EXCEPT ![t] = q1]
      \/ account' = account /\ pay' = [pay EXCEPT ![t] = q2]
  BY <1>1, <1>3 DEF AccountCreate, To, Payment
<1>8. q1 \in Payment /\ q1.o = o /\ q1.pc = "open"
  BY <1>1, <1>3 DEF Payment
<1>9. q2 \in Payment /\ q2.o = o /\ q2.pc = "refund"
  BY <1>1, <1>3 DEF Payment
<1> HIDE DEF q1, q2
<1>10. CASE /\ account[b] = "none" /\ account' = [account EXCEPT ![b] = "enabled"]
            /\ pay' = [pay EXCEPT ![t] = q1]
  <2>1. /\ account' \in [Buyers -> {"none", "enabled", "disabled"}]
        /\ \A a \in Buyers : account[a] # "none" => account'[a] = account[a]
        /\ account'[b] # "none"
        /\ ~overlap => \A a \in Buyers : account'[a] # account[a] => panel[a].sub = "none"
    BY <1>3, <1>4, <1>5, <1>10
  <2> QED BY <1>1, <1>2, <1>3, <1>6, <1>8, <1>10, <2>1, PayerGoesOn
<1>11. CASE account' = account /\ pay' = [pay EXCEPT ![t] = q2]
  BY <1>1, <1>2, <1>3, <1>4, <1>6, <1>9, <1>11, PayerGoesOn
<1> QED BY <1>7, <1>10, <1>11

\* The debit and the mark on the order, in one transaction.
LEMMA PayDebitStep ==
    ASSUME MarketInv, NEW t \in Payers, PayDebit(t) PROVE MarketInv'
<1>1. PICK o, b : o = pay[t].o /\ b = repOrders[o].buyer
  OBVIOUS
<1>2. pay[t].pc = "debit"
  BY DEF PayDebit
<1>3. /\ pay \in [Payers -> Payment] /\ o \in RepOrders /\ b \in Buyers /\ b \in Customers
      /\ repOrders[o].st # "none"
  BY <1>1, <1>2, PayerFacts
<1>4. UNCHANGED <<topups, referral, clerk, asked, panel, account, bot, sessions, sweep, day,
                  marketFaults, served, crashed, overlap>>
  BY DEF PayDebit
<1>5. ~overlap => \A a \in Buyers : PanelHolds(a)'
  BY <1>4 DEF MarketInv, OneByOne, PanelHolds
<1>6. \A p \in RepOrders : served'[p] >= served[p]
  BY <1>4 DEF MarketInv, MarketTypes
<1> DEFINE q == [pay[t] EXCEPT !.pc = "policy"]
           r == [repOrders[o] EXCEPT !.st = "paid"]
<1>7. q \in Payment /\ q.o = o /\ q.pc = "policy"
  BY <1>1, <1>3 DEF Payment
<1>8. CASE CanDebit(wallet, b, PanelPrice, Kind(o), o)
  <2>1. /\ wallet' = Debited(wallet, b, PanelPrice, Kind(o), o)
        /\ repOrders' = [repOrders EXCEPT ![o] = r]
        /\ pay' = [pay EXCEPT ![t] = q]
    BY <1>1, <1>8 DEF PayDebit
  <2>2. PICK kind : kind = Kind(o)
    OBVIOUS
  <2>3. /\ WalletInv'
        /\ \A k, ref : HasEntry(wallet', k, ref) <=> HasEntry(wallet, k, ref) \/ (k = kind /\ ref = o)
    BY <1>3, <1>4, <1>8, <2>1, <2>2, MarketAssumption, DebitHolds DEF MarketInv
  <2>4. /\ r \in [st : {"paid"}, buyer : Buyers \union {Nobody}] /\ r.buyer = b
    BY <1>1, <1>3 DEF MarketInv, MarketTypes, MarketTypeOK
  <2> HIDE DEF q, r
  <2>5. MarketTypes'
    BY <1>3, <1>4, <1>7, <2>1, <2>4 DEF MarketInv, MarketTypes, MarketTypeOK, Payment
  <2>6. Kept
    BY <1>1, <1>3, <1>4, <2>1, <2>3, <2>4 DEF Kept, MarketInv, MarketTypes, MarketTypeOK
  <2>7. pay'[t] = q /\ repOrders'[o].st # "none"
    BY <1>3, <2>1, <2>4 DEF MarketInv, MarketTypes, MarketTypeOK
  <2>8. HasEntry(wallet', Kind(o), o)
    BY <2>2, <2>3
  <2>9. PayerHolds(t)'
    BY <1>3, <1>7, <2>7, <2>8 DEF PayerHolds, RepPaid, Kind, Renewal
  <2>10. \A p \in RepOrders : (RepPaid(p)' => RepPaid(p) \/ p = o) /\ (RepRefunded(p)' => RepRefunded(p))
    BY <2>2, <2>3 DEF RepPaid, RepRefunded, Kind, Renewal
  <2>11. q.pc \notin {"idle", "debit"} /\ q # AtRest
    BY <1>7 DEF AtRest
  <2>12. PayerMove(t, o, b, q)
    BY <1>1, <1>2, <1>4, <1>5, <1>6, <1>7, <2>1, <2>10, <2>11 DEF PayerMove
  <2> QED BY <2>3, <2>5, <2>6, <2>9, <2>12, PayerStep
<1>9. CASE ~CanDebit(wallet, b, PanelPrice, Kind(o), o)
  <2>1. pay' = [pay EXCEPT ![t] = AtRest] /\ UNCHANGED <<wallet, repOrders>>
    BY <1>1, <1>9 DEF PayDebit
  <2>2. WalletInv'
    BY <1>4, <2>1, WalletUntouched DEF MarketInv, walletVars
  <2>3. MarketTypes'
    BY <1>3, <1>4, <2>1 DEF MarketInv, MarketTypes, MarketTypeOK, Payment, AtRest
  <2>4. Kept
    BY <1>4, <2>1 DEF Kept
  <2>5. PayerHolds(t)'
    BY <1>3, <2>1 DEF PayerHolds, AtRest
  <2>6. \A p \in RepOrders : (RepPaid(p)' => RepPaid(p)) /\ (RepRefunded(p)' => RepRefunded(p))
    BY <2>1 DEF RepPaid, RepRefunded, Kind, Renewal
  <2>7. AtRest.pc = "idle"
    BY DEF AtRest
  <2>8. PayerMove(t, o, b, AtRest)
    BY <1>1, <1>2, <1>4, <1>5, <1>6, <2>1, <2>6, <2>7 DEF PayerMove
  <2> QED BY <2>2, <2>3, <2>4, <2>5, <2>8, PayerStep
<1> QED BY <1>8, <1>9

\* A payment that failed is given back, once.
LEMMA RefundStep ==
    ASSUME MarketInv, NEW t \in Payers, Refund(t) PROVE MarketInv'
<1>1. PICK o, b : o = pay[t].o /\ b = repOrders[o].buyer
  OBVIOUS
<1>2. pay[t].pc = "refund"
  BY DEF Refund
<1>3. /\ pay \in [Payers -> Payment] /\ o \in RepOrders /\ b \in Buyers /\ b \in Customers
      /\ repOrders[o].st # "none" /\ RepPaid(o)
  BY <1>1, <1>2, PayerFacts
<1> DEFINE q == IF Renewal(o) THEN AtRest ELSE [pay[t] EXCEPT !.pc = "cleanup"]
           r == [repOrders[o] EXCEPT !.st = "failed_refunded"]
<1>4. /\ UNCHANGED <<topups, referral, clerk, asked, panel, account, bot, sessions, sweep, day,
                     marketFaults, served, crashed, overlap>>
      /\ wallet' = Moved(wallet, b, PanelPrice, "rep_refund", o)
      /\ repOrders' = [repOrders EXCEPT ![o] = r]
      /\ pay' = [pay EXCEPT ![t] = q]
  BY <1>1 DEF Refund, Credited
<1>5. ~overlap => \A a \in Buyers : PanelHolds(a)'
  BY <1>4 DEF MarketInv, OneByOne, PanelHolds
<1>6. \A p \in RepOrders : served'[p] >= served[p]
  BY <1>4 DEF MarketInv, MarketTypes
<1>7. /\ q \in Payment
      /\ q = AtRest \/ (q.o = o /\ q.pc = "cleanup" /\ ~Renewal(o))
  BY <1>1, <1>3 DEF Payment, AtRest
<1>8. /\ WalletInv'
      /\ \A k, ref : HasEntry(wallet', k, ref)
                         <=> HasEntry(wallet, k, ref) \/ (k = "rep_refund" /\ ref = o)
  <2>1. PanelPrice \in Int /\ wallet.bal[b] + PanelPrice >= 0
    BY <1>3, MarketAssumption DEF MarketInv, WalletInv, WalletHolds
  <2>2. TopupsHold'
    BY <1>4 DEF MarketInv, WalletInv, TopupsHold
  <2> QED BY <1>3, <1>4, <2>1, <2>2, MovedHolds DEF MarketInv, WalletInv
<1>9. r \in [st : {"failed_refunded"}, buyer : Buyers \union {Nobody}] /\ r.buyer = b
  BY <1>1, <1>3 DEF MarketInv, MarketTypes, MarketTypeOK
<1> HIDE DEF q, r
<1>10. MarketTypes'
  BY <1>3, <1>4, <1>7, <1>9 DEF MarketInv, MarketTypes, MarketTypeOK, Payment
<1>11. Kept
  BY <1>1, <1>3, <1>4, <1>8, <1>9 DEF Kept, MarketInv, MarketTypes, MarketTypeOK
<1>12. pay'[t] = q /\ repOrders'[o].st # "none"
  BY <1>3, <1>4, <1>9 DEF MarketInv, MarketTypes, MarketTypeOK
<1>13. HasEntry(wallet', Kind(o), o) /\ HasEntry(wallet', "rep_refund", o)
  BY <1>3, <1>8 DEF RepPaid
<1>14. PayerHolds(t)'
  <2>1. CASE q = AtRest
    BY <1>12, <2>1 DEF PayerHolds, AtRest
  <2>2. CASE q.o = o /\ q.pc = "cleanup"
    BY <1>3, <1>12, <1>13, <2>2 DEF PayerHolds, RepPaid, RepRefunded, Kind, Renewal
  <2> QED BY <1>7, <2>1, <2>2
<1>15. /\ \A p \in RepOrders : RepPaid(p)' => RepPaid(p) \/ (p = o /\ q.pc \notin {"idle", "debit"})
       /\ \A p \in RepOrders : RepRefunded(p)' => RepRefunded(p) \/ (p = o /\ RepPaid(o))
  <2>1. ASSUME NEW p \in RepOrders
        PROVE  (RepPaid(p)' => RepPaid(p)) /\ (RepRefunded(p)' => RepRefunded(p) \/ p = o)
    BY <1>8 DEF RepPaid, RepRefunded, Kind, Renewal
  <2> QED BY <1>3, <2>1
<1>16. /\ q = AtRest \/ (q.o = o /\ q.pc # "idle")
       /\ q = AtRest \/ q.pc = "debit" => pay[t].pc = "debit" \/ served'[o] > 0 \/ RepRefunded(o)'
       /\ ~overlap /\ q.pc = "open" /\ ~Renewal(o) => account'[b] # "none"
  BY <1>7, <1>13 DEF RepRefunded, AtRest
<1>17. PayerMove(t, o, b, q)
  BY <1>1, <1>2, <1>4, <1>5, <1>6, <1>15, <1>16 DEF PayerMove
<1> QED BY <1>8, <1>10, <1>11, <1>14, <1>17, PayerStep

\* A panel is opened or renewed: the order is served.
LEMMA ServedStep ==
    ASSUME MarketInv, NEW t \in Payers, NEW o, NEW b, NEW st \in {"provisioned", "renewed"}, NEW n \in Nat,
           pay[t].pc = "open", o = pay[t].o, b = repOrders[o].buyer,
           Enabled(b), panel' = [panel EXCEPT ![b] = [sub |-> "active", end |-> n, was |-> FALSE]],
           repOrders' = [repOrders EXCEPT ![o].st = st], served' = [served EXCEPT ![o] = @ + 1],
           pay' = [pay EXCEPT ![t] = AtRest], bot' \in [Buyers -> BOOLEAN],
           ~overlap => account[b] # "none",
           UNCHANGED <<walletVars, asked, sessions, sweep, day, marketFaults, crashed, overlap>>
    PROVE  MarketInv'
<1>1. /\ pay \in [Payers -> Payment] /\ o \in RepOrders /\ b \in Buyers
      /\ repOrders[o].st # "none" /\ RepPaid(o)
  BY PayerFacts
<1> DEFINE r == [repOrders[o] EXCEPT !.st = st]
           ac == IF account[b] = "none" THEN "none" ELSE "enabled"
<1>2. repOrders' = [repOrders EXCEPT ![o] = r] /\ account' = [account EXCEPT ![b] = ac]
  BY <1>1 DEF Enabled, MarketInv, MarketTypes, MarketTypeOK
<1>3. r \in [st : {"provisioned", "renewed"}, buyer : Buyers \union {Nobody}] /\ r.buyer = b
  <2>1. repOrders[o] \in
            [st : {"none", "pending", "paid", "provisioned", "renewed", "failed_refunded"},
             buyer : Buyers \union {Nobody}]
    BY <1>1 DEF MarketInv, MarketTypes, MarketTypeOK
  <2> QED BY <1>1, <2>1
<1>4. /\ account \in [Buyers -> {"none", "enabled", "disabled"}]
      /\ panel \in [Buyers -> [sub : {"none", "active", "suspended"}, end : Nat, was : BOOLEAN]]
      /\ served \in [RepOrders -> Nat]
  BY DEF MarketInv, MarketTypes, MarketTypeOK
<1>5. ac \in {"none", "enabled"} /\ (ac = "none" <=> account[b] = "none")
  OBVIOUS
<1>6. WalletInv' /\ wallet' = wallet
  BY WalletUntouched DEF MarketInv, walletVars
<1> HIDE DEF r, ac
<1>7. MarketTypes'
  <2>1. panel' \in [Buyers -> [sub : {"none", "active", "suspended"}, end : Nat, was : BOOLEAN]]
    BY <1>1, <1>4
  <2>2. pay' \in [Payers -> Payment]
    BY <1>1 DEF AtRest, Payment
  <2>3. served' \in [RepOrders -> Nat]
    BY <1>1, <1>4
  <2>4. account' \in [Buyers -> {"none", "enabled", "disabled"}]
    BY <1>1, <1>2, <1>4, <1>5
  <2>5. /\ repOrders' \in [RepOrders ->
               [st : {"none", "pending", "paid", "provisioned", "renewed", "failed_refunded"},
                buyer : Buyers \union {Nobody}]]
        /\ \A p \in RepOrders : repOrders'[p].st # "none" => repOrders'[p].buyer \in Buyers
    BY <1>1, <1>2, <1>3 DEF MarketInv, MarketTypes, MarketTypeOK
  <2> QED BY <2>1, <2>2, <2>3, <2>4, <2>5 DEF MarketInv, MarketTypes, MarketTypeOK, Payment
<1>8. Kept
  <2>1. \A p \in RepOrders : repOrders[p].st # "none" =>
            repOrders'[p].st # "none" /\ repOrders'[p].buyer = repOrders[p].buyer
    BY <1>1, <1>2, <1>3 DEF MarketInv, MarketTypes, MarketTypeOK
  <2>2. \A a \in Buyers : panel[a].sub # "none" => panel'[a].sub # "none"
    BY <1>1, <1>4
  <2> QED BY <1>6, <2>1, <2>2 DEF Kept
<1>9. PayerHolds(t)'
  BY <1>1 DEF PayerHolds, AtRest
<1>10. \A p \in RepOrders : served'[p] >= served[p]
  BY <1>1, <1>4
<1>11. served'[o] > 0
  BY <1>1, <1>4
<1>12. \A p \in RepOrders : (RepPaid(p)' => RepPaid(p)) /\ (RepRefunded(p)' => RepRefunded(p))
  BY <1>6 DEF RepPaid, RepRefunded, Kind, Renewal
<1>13. ASSUME ~overlap, NEW a \in Buyers PROVE PanelHolds(a)'
  <2>1. PanelHolds(a)
    BY <1>13 DEF MarketInv, OneByOne
  <2>2. CASE a = b
    <3>1. panel'[a].sub = "active" /\ account'[a] # "none"
      BY <1>1, <1>2, <1>4, <1>5, <1>13, <2>2
    <3> QED BY <3>1 DEF PanelHolds
  <2>3. CASE a # b
    <3>1. panel'[a] = panel[a] /\ account'[a] = account[a]
      BY <1>2, <1>4, <2>3
    <3> QED BY <2>1, <3>1 DEF PanelHolds
  <2> QED BY <2>2, <2>3
<1>14. \A a \in Buyers : a # b /\ account[a] # "none" => account'[a] # "none"
  BY <1>2, <1>4
<1>15. PayerMove(t, o, b, AtRest)
  BY <1>10, <1>11, <1>12, <1>13, <1>14 DEF PayerMove, AtRest
<1> QED BY <1>6, <1>7, <1>8, <1>9, <1>15, PayerStep

\* The panel is opened for an order that was paid.
LEMMA OpenPanelStep ==
    ASSUME MarketInv, NEW t \in Payers, OpenPanel(t) PROVE MarketInv'
<1>1. PICK o, b : o = pay[t].o /\ b = repOrders[o].buyer
  OBVIOUS
<1>2. pay[t].pc = "open" /\ ~Renewal(o)
  BY <1>1 DEF OpenPanel
<1>3. pay \in [Payers -> Payment] /\ o \in RepOrders /\ b \in Buyers
  BY <1>1, <1>2, PayerFacts
<1>4. UNCHANGED <<walletVars, asked, bot, sessions, sweep, day, marketFaults, crashed, overlap>>
  BY DEF OpenPanel
<1>5. CASE panel[b].sub = "none"
  <2>1. /\ Enabled(b)
        /\ panel' = [panel EXCEPT ![b] = [sub |-> "active", end |-> day + 1, was |-> FALSE]]
        /\ repOrders' = [repOrders EXCEPT ![o].st = "provisioned"]
        /\ served' = [served EXCEPT ![o] = @ + 1]
        /\ pay' = [pay EXCEPT ![t] = AtRest]
    BY <1>1, <1>5 DEF OpenPanel
  <2>2. day + 1 \in Nat /\ bot' \in [Buyers -> BOOLEAN]
    BY <1>4 DEF MarketInv, MarketTypes, MarketTypeOK
  <2>3. ~overlap => account[b] # "none"
    BY <1>1, <1>2 DEF MarketInv, OneByOne, BuyerOf
  <2> QED BY <1>1, <1>2, <1>4, <2>1, <2>2, <2>3, ServedStep
<1>6. CASE panel[b].sub # "none"
  <2> DEFINE q == [pay[t] EXCEPT !.pc = "refund"]
  <2>1. pay' = [pay EXCEPT ![t] = q] /\ UNCHANGED <<account, panel, repOrders, served>>
    BY <1>1, <1>3, <1>6 DEF OpenPanel, To, Payment
  <2>2. q \in Payment /\ q.o = o /\ q.pc = "refund"
    BY <1>1, <1>3 DEF Payment
  <2>3. account' \in [Buyers -> {"none", "enabled", "disabled"}]
    BY <2>1 DEF MarketInv, MarketTypes, MarketTypeOK
  <2> HIDE DEF q
  <2> QED BY <1>1, <1>2, <1>4, <2>1, <2>2, <2>3, PayerGoesOn
<1> QED BY <1>5, <1>6

\* The panel is prolonged for an order that was paid.
LEMMA RenewPanelStep ==
    ASSUME MarketInv, NEW t \in Payers, RenewPanel(t) PROVE MarketInv'
<1>1. PICK o, b : o = pay[t].o /\ b = repOrders[o].buyer
  OBVIOUS
<1>2. pay[t].pc = "open" /\ Renewal(o)
  BY <1>1 DEF RenewPanel
<1>3. pay \in [Payers -> Payment] /\ o \in RepOrders /\ b \in Buyers /\ panel[b].sub # "none"
  BY <1>1, <1>2, PayerFacts
<1>4. PICK n : n = Later(day, pay[t].end) + 1
  OBVIOUS
<1>5. /\ Enabled(b)
      /\ bot' = [bot EXCEPT ![b] = @ \/ panel[b].was]
      /\ panel' = [panel EXCEPT ![b] = [sub |-> "active", end |-> n, was |-> FALSE]]
      /\ repOrders' = [repOrders EXCEPT ![o].st = "renewed"]
      /\ served' = [served EXCEPT ![o] = @ + 1]
      /\ pay' = [pay EXCEPT ![t] = AtRest]
      /\ UNCHANGED <<walletVars, asked, sessions, sweep, day, marketFaults, crashed, overlap>>
  BY <1>1, <1>4 DEF RenewPanel
<1>6. n \in Nat
  BY <1>3, <1>4 DEF Later, Payment, MarketInv, MarketTypes
<1>7. bot' \in [Buyers -> BOOLEAN]
  <2>1. bot \in [Buyers -> BOOLEAN]
    BY DEF MarketInv, MarketTypes, MarketTypeOK
  <2>2. (bot[b] \/ panel[b].was) \in BOOLEAN
    OBVIOUS
  <2> QED BY <1>5, <2>1, <2>2
<1>8. ~overlap => account[b] # "none"
  BY <1>3 DEF MarketInv, OneByOne, PanelHolds
<1> QED BY <1>1, <1>2, <1>5, <1>6, <1>7, <1>8, ServedStep

\* After a refund a panel without subscription loses its account.
LEMMA CleanupStep ==
    ASSUME MarketInv, NEW t \in Payers, Cleanup(t) PROVE MarketInv'
<1>1. PICK o, b : o = pay[t].o /\ b = repOrders[o].buyer
  OBVIOUS
<1>2. pay[t].pc = "cleanup"
  BY DEF Cleanup
<1>3. pay \in [Payers -> Payment] /\ o \in RepOrders /\ b \in Buyers /\ RepRefunded(o)
  BY <1>1, <1>2, PayerFacts
<1>4. /\ UNCHANGED <<walletVars, asked, repOrders, panel, sweep, day, marketFaults, served,
                     crashed, overlap>>
      /\ pay' = [pay EXCEPT ![t] = AtRest]
      /\ IF panel[b].sub = "none"
         THEN /\ account' = [account EXCEPT ![b] = "none"]
              /\ sessions' = [sessions EXCEPT ![b] = FALSE]
              /\ bot' = [bot EXCEPT ![b] = FALSE]
         ELSE UNCHANGED <<account, sessions, bot>>
  BY <1>1 DEF Cleanup
<1>5. /\ account \in [Buyers -> {"none", "enabled", "disabled"}]
      /\ sessions \in [Buyers -> BOOLEAN] /\ bot \in [Buyers -> BOOLEAN]
  BY DEF MarketInv, MarketTypes, MarketTypeOK
<1>6. WalletInv' /\ wallet' = wallet
  BY <1>4, WalletUntouched DEF MarketInv, walletVars
<1>7. MarketTypes'
  <2>1. /\ account' \in [Buyers -> {"none", "enabled", "disabled"}]
        /\ sessions' \in [Buyers -> BOOLEAN] /\ bot' \in [Buyers -> BOOLEAN]
    BY <1>4, <1>5
  <2>2. pay' \in [Payers -> Payment]
    BY <1>3, <1>4 DEF AtRest, Payment
  <2> QED BY <1>4, <2>1, <2>2 DEF MarketInv, MarketTypes, MarketTypeOK, Payment
<1>8. Kept
  BY <1>4, <1>6 DEF Kept
<1>9. PayerHolds(t)'
  BY <1>3, <1>4 DEF PayerHolds, AtRest
<1>10. \A p \in RepOrders : served'[p] >= served[p]
  BY <1>4 DEF MarketInv, MarketTypes
<1>11. \A p \in RepOrders : (RepPaid(p)' => RepPaid(p)) /\ (RepRefunded(p)' => RepRefunded(p))
  BY <1>6 DEF RepPaid, RepRefunded, Kind, Renewal
<1>12. RepRefunded(o)'
  BY <1>3, <1>6 DEF RepRefunded
<1>13. ASSUME ~overlap, NEW a \in Buyers PROVE PanelHolds(a)'
  <2>1. PanelHolds(a)
    BY <1>13 DEF MarketInv, OneByOne
  <2>2. \/ account'[a] = account[a] /\ sessions'[a] = sessions[a]
        \/ panel[a].sub = "none"
    BY <1>4, <1>5
  <2> QED BY <1>4, <2>1, <2>2 DEF PanelHolds
<1>14. \A a \in Buyers : a # b /\ account[a] # "none" => account'[a] # "none"
  BY <1>4, <1>5
<1>15. PayerMove(t, o, b, AtRest)
  BY <1>1, <1>2, <1>4, <1>10, <1>11, <1>12, <1>13, <1>14 DEF PayerMove, AtRest
<1> QED BY <1>6, <1>7, <1>8, <1>9, <1>15, PayerStep

\* Every step of the panels keeps the invariant.
LEMMA MarketInvNext == ASSUME MarketInv, MarketNext PROVE MarketInv'
BY CreateRepOrderStep, PayReadStep, PayDebitStep, ApplyPolicyStep, AccountReadStep,
   AccountCreateStep, OpenPanelStep, RenewPanelStep, RefundStep, CleanupStep, UseStep,
   SweepCloseStep, PayerCrashStep
   DEF MarketNext

-----------------------------------------------------------------------------
(* Resource credit *)

\* What a client has bought and may still use from day t on.  A balance that waits for its
\* first day counts whole; a client that migration left without end has bought nothing.
Ahead(f, t) == [d \in Days |-> IF d >= t THEN f[d] ELSE 0]
Left(e, t) ==
    IF e.pending > 0 THEN e.pendingIps * e.pending
    ELSE IF e.legacy > 0 THEN 0 ELSE Sum(Ahead(e.cover, t), Days)

\* The types of an entitlement.
EntTyped(e) ==
    e \in [row : BOOLEAN, cover : [Days -> Nat], seconds : Nat, units : Nat,
           pending : Nat, pendingIps : Nat, legacy : Nat]

\* What a client had and what it may still use is bought, or left to it by migration; its
\* units pay for what it bought.
Backed(e, had, given, t) ==
    /\ e.seconds <= e.units * MonthDays
    /\ had + Left(e, t) <= e.seconds + given
    /\ e.legacy > 0 => e.pending = 0 /\ given = 0
    /\ ~e.row => e = NoEnt /\ had = 0 /\ given = 0

\* A service that ends is bought day by day until its end.
Bookings(s, e, t) ==
    s.quota = 0 /\ s.expires > 0 =>
        /\ e.pending = 0 /\ e.legacy = 0
        /\ \A d \in Days : t <= d /\ d < s.expires => s.ips <= e.cover[d]

\* The clients of an owner hold no more than its volume.
Share(r, o) == IF r.owner = o THEN r.quota ELSE 0
QuotasOf(s, o) == [c \in Subs |-> Share(s[c], o)]

\* A client: what it had is paid for, and its owner is known.
ClientHolds(c) ==
    /\ Backed(ent[c], used[c], gift[c], today)
    /\ ~ent[c].row => sub[c] = NoSub
    /\ sub[c] # NoSub => sub[c].owner \in Owners /\ Bookings(sub[c], ent[c], today)

\* A representative: its balance is what remains, and its clients fit into its volume.
OwnerHolds(o) ==
    /\ owner[o].spent <= owner[o].credit
    /\ book[o] = owner[o].credit - owner[o].spent
    /\ Sum(QuotasOf(sub, o), Subs) <= owner[o].volume

\* What holds of credit in every reachable state.
CreditInv ==
    /\ CreditTypeOK
    /\ \A c \in Subs : ClientHolds(c)
    /\ \A o \in Owners : OwnerHolds(o)

\* The quotas of a set of clients, as a sum over a function.
LEMMA QuotaSum ==
    ASSUME NEW s, NEW S, IsFiniteSet(S), \A c \in S : s[c].quota \in Nat
    PROVE  MapThenSumSet(LAMBDA c : s[c].quota, S) = Sum([c \in S |-> s[c].quota], S)
<1> DEFINE v == [c \in S |-> s[c].quota]
           Step(h) == [T \in SUBSET S |-> IF T = {} THEN 0
                                          ELSE s[Pick(T)].quota + h[T \ {Pick(T)}]]
           f == CHOOSE h : h = Step(h)
<1>1. Terms(v, S) /\ \A x \in S : v[x] = s[x].quota
  BY DEF Terms
<1> HIDE DEF v
<1>2. PICK g \in [SUBSET S -> Int] : Adder(g, v, S)
  BY <1>1, AddingExists
<1>3. g = Step(g)
  <2> SUFFICES ASSUME NEW T \in SUBSET S
               PROVE  g[T] = IF T = {} THEN 0 ELSE s[Pick(T)].quota + g[T \ {Pick(T)}]
    OBVIOUS
  <2>1. T # {} => v[Pick(T)] = s[Pick(T)].quota
    BY <1>1 DEF Pick
  <2> QED BY <1>2, <2>1 DEF Adder, Adds
<1>4. f = Step(f)
  BY <1>3
<1>5. MapThenSumSet(LAMBDA c : s[c].quota, S) = f[S]
  BY DEF MapThenSumSet, MapThenFoldSet, Pick
<1> HIDE DEF f
<1>6. Adder(f, v, S)
  <2> SUFFICES ASSUME NEW T \in SUBSET S PROVE Adds(f, v, T)
    BY DEF Adder
  <2>1. T # {} => v[Pick(T)] = s[Pick(T)].quota
    BY <1>1 DEF Pick
  <2>2. f[T] = IF T = {} THEN 0 ELSE s[Pick(T)].quota + f[T \ {Pick(T)}]
    BY <1>4
  <2> QED BY <2>1, <2>2 DEF Adder, Adds
<1>7. f[S] = Sum(v, S)
  BY <1>1, <1>6, AddedIsSum
<1> QED BY <1>5, <1>7 DEF v

\* The calendar is finite.
LEMMA DaysAreFinite == IsFiniteSet(Days) /\ Days \subseteq Nat
BY FS_Interval, CreditAssumption DEF Days

\* Natural numbers can be added.
LEMMA NaturalTerms ==
    ASSUME NEW S, NEW f \in [S -> Nat] PROVE Terms(f, S)
BY DEF Terms

\* Nothing adds up to 0.
LEMMA SumOfZeroes ==
    ASSUME NEW S, IsFiniteSet(S), NEW f, \A x \in S : f[x] = 0 PROVE Sum(f, S) = 0
<1>1. {} \in SUBSET S /\ Terms(f, {}) /\ \A x \in S : f[x] = IF x \in {} THEN f[x] ELSE 0
  BY DEF Terms
<1> HIDE <1>1
<1>2. Sum(f, {}) = Sum(f, S)
  BY <1>1, SumOfPart
<1> QED BY <1>2, SumOfNone

\* The IP-days of a plan.
LEMMA IpDaysIsNatural ==
    ASSUME NEW f \in [Days -> Nat] PROVE IpDays(f) = Sum(f, Days) /\ IpDays(f) \in Nat
<1>1. IpDays(f) = Sum(f, Days)
  BY DEF IpDays, Sum
<1> QED BY <1>1, DaysAreFinite, SumIsNatural

\* n IP-users for p days are at most n * p IP-days: the calendar may end before.
LEMMA SpanSum ==
    ASSUME NEW n \in Nat, NEW t \in Nat, NEW p \in Nat
    PROVE  Sum(Span(n, t, t + p), Days) <= n * p
<1> DEFINE I == {q \in Nat : Sum(Span(n, t, t + q), Days) <= n * q}
<1>1. 0 \in I
  <2>1. \A d \in Days : Span(n, t, t + 0)[d] = 0
    BY DaysAreFinite DEF Span
  <2>2. Sum(Span(n, t, t + 0), Days) = 0
    BY <2>1, DaysAreFinite, SumOfZeroes
  <2> QED BY <2>2
<1>2. ASSUME NEW q \in Nat, q \in I PROVE q + 1 \in I
  <2> DEFINE v == Span(n, t, t + q)
             w == Span(n, t, t + (q + 1))
  <2>1. \A d \in Days : /\ v[d] = IF t <= d /\ d < t + q THEN n ELSE 0
                        /\ w[d] = IF t <= d /\ d < t + (q + 1) THEN n ELSE 0
    BY DEF Span
  <2>2. Terms(v, Days) /\ Terms(w, Days)
    BY <2>1 DEF Terms
  <2>3. Sum(v, Days) <= n * q
    BY <1>2
  <2> HIDE DEF v, w
  <2>4. \A d \in Days \ {t + q} : w[d] = v[d]
    BY <2>1, DaysAreFinite
  <2>5. n * (q + 1) = n * q + n /\ n * q \in Nat
    OBVIOUS
  <2>6. CASE t + q \in Days
    <3>1. Sum(w, Days) = Sum(v, Days) - v[t + q] + w[t + q]
      <4> DEFINE d == t + q
      <4>1. d \in Days /\ \A y \in Days \ {d} : w[y] = v[y]
        BY <2>4, <2>6
      <4>2. IsFiniteSet(Days)
        BY DaysAreFinite
      <4> HIDE DEF d
      <4>3. Sum(w, Days) = Sum(v, Days) - v[d] + w[d]
        BY <2>2, <4>1, <4>2, SumOfChange
      <4> QED BY <4>3 DEF d
    <3>2. v[t + q] = 0 /\ w[t + q] = n /\ Sum(v, Days) \in Int
      BY <2>1, <2>2, <2>6, DaysAreFinite, SumType
    <3>3. Sum(w, Days) <= n * (q + 1)
      BY <2>3, <2>5, <3>1, <3>2
    <3> QED BY <3>3 DEF w
  <2>7. CASE t + q \notin Days
    <3>1. Sum(w, Days) = Sum(v, Days) /\ Sum(v, Days) \in Int
      BY <2>2, <2>4, <2>7, DaysAreFinite, SameTermsSameSum, SumType
    <3>2. Sum(w, Days) <= n * (q + 1)
      BY <2>3, <2>5, <3>1
    <3> QED BY <3>2 DEF w
  <2> QED BY <2>6, <2>7
<1> HIDE DEF I
<1>3. Nat \subseteq I
  BY <1>1, <1>2, NaturalSetInduction
<1> QED BY <1>3 DEF I

\* What lies ahead is part of the whole.
LEMMA AheadType ==
    ASSUME NEW f \in [Days -> Nat], NEW t \in Nat
    PROVE  /\ Ahead(f, t) \in [Days -> Nat] /\ Sum(Ahead(f, t), Days) \in Nat
           /\ Sum(Ahead(f, t), Days) <= IpDays(f)
<1>1. Ahead(f, t) \in [Days -> Nat] /\ \A d \in Days : Ahead(f, t)[d] <= f[d]
  BY DEF Ahead
<1>2. Terms(f, Days) /\ Terms(Ahead(f, t), Days)
  BY <1>1 DEF Terms
<1>3. Sum(Ahead(f, t), Days) \in Nat
  BY <1>1, DaysAreFinite, SumIsNatural
<1>4. Sum(Ahead(f, t), Days) <= Sum(f, Days)
  BY <1>1, <1>2, DaysAreFinite, SumIsMonotone
<1> QED BY <1>1, <1>3, <1>4, IpDaysIsNatural

\* A purchase for the days ahead adds there what it adds to the whole.
LEMMA AheadGrows ==
    ASSUME NEW f \in [Days -> Nat], NEW g \in [Days -> Nat], NEW t \in Nat,
           \A d \in Days : d < t => g[d] = f[d]
    PROVE  Sum(Ahead(g, t), Days) - Sum(Ahead(f, t), Days) = IpDays(g) - IpDays(f)
<1> DEFINE Behind(h) == [d \in Days |-> IF d >= t THEN 0 ELSE h[d]]
           b == Behind(f)
           v == Ahead(f, t)
           w == Ahead(g, t)
<1>1. b = Behind(g)
  BY DaysAreFinite
<1>2. IsFiniteSet(Days)
  BY DaysAreFinite
<1>3. \A d \in Days : f[d] = b[d] + v[d]
  BY <1>1, DaysAreFinite DEF Ahead
<1>4. \A d \in Days : g[d] = b[d] + w[d]
  BY <1>1, DaysAreFinite DEF Ahead
<1>5. b \in [Days -> Nat] /\ v \in [Days -> Nat] /\ w \in [Days -> Nat]
  BY DEF Ahead
<1> HIDE DEF b, v, w
<1>6. Terms(b, Days) /\ Terms(v, Days) /\ Terms(w, Days)
  BY <1>5 DEF Terms
<1>7. Sum(f, Days) = Sum(b, Days) + Sum(v, Days)
  BY <1>2, <1>3, <1>6, SumOfSums
<1>8. Sum(g, Days) = Sum(b, Days) + Sum(w, Days)
  BY <1>2, <1>4, <1>6, SumOfSums
<1>9. Sum(b, Days) \in Int /\ Sum(v, Days) \in Int /\ Sum(w, Days) \in Int
  BY <1>6, DaysAreFinite, SumType
<1>10. Sum(w, Days) - Sum(v, Days) = IpDays(g) - IpDays(f)
  BY <1>7, <1>8, <1>9, IpDaysIsNatural
<1> QED BY <1>10 DEF v, w

\* A day that ends takes its own share.
LEMMA AheadNextDay ==
    ASSUME NEW f \in [Days -> Nat], NEW t \in Days
    PROVE  Sum(Ahead(f, t), Days) = f[t] + Sum(Ahead(f, t + 1), Days)
<1> DEFINE v == Ahead(f, t + 1)
           w == Ahead(f, t)
<1>1. \A d \in Days : v[d] = (IF d >= t + 1 THEN f[d] ELSE 0) /\ w[d] = IF d >= t THEN f[d] ELSE 0
  BY DEF Ahead
<1>2. Terms(v, Days) /\ Terms(w, Days)
  BY <1>1 DEF Terms
<1> HIDE DEF v, w
<1>3. \A d \in Days \ {t} : w[d] = v[d]
  BY <1>1, DaysAreFinite
<1>4. Sum(w, Days) = Sum(v, Days) - v[t] + w[t] /\ Sum(v, Days) \in Int
  <2>1. IsFiniteSet(Days)
    BY DaysAreFinite
  <2>2. Sum(w, Days) = Sum(v, Days) - v[t] + w[t]
    BY <1>2, <1>3, <2>1, SumOfChange
  <2> QED BY <1>2, <2>1, <2>2, SumType
<1>5. v[t] = 0 /\ w[t] = f[t] /\ f[t] \in Nat
  BY <1>1, DaysAreFinite
<1>6. Sum(w, Days) = f[t] + Sum(v, Days)
  BY <1>4, <1>5
<1> QED BY <1>6 DEF v, w

-----------------------------------------------------------------------------
(* What a plan costs and what it leaves *)

\* What migration left to a client, after a plan.
Gifted(e, given, quota, expires) ==
    IF quota = 0 /\ e.legacy > 0 THEN IpDays(Bought(e, expires)) ELSE given

\* A plan that may be billed.
Billable(e, had, given, quota, ips, expires, duration) ==
    /\ EntTyped(e) /\ Backed(e, had, given, today)
    /\ had \in Nat /\ given \in Nat /\ today \in Nat
    /\ quota \in Nat /\ ips \in Nat /\ expires \in Nat /\ duration \in Nat
    /\ ~Refused(e, quota, ips, expires, duration)

\* What the plan makes of the entitlement.
WellPlanned(new, e, had, given, quota, ips, expires) ==
    /\ EntTyped(new) /\ new.row
    /\ Backed(new, had, Gifted(e, given, quota, expires), today)
    /\ Gifted(e, given, quota, expires) \in Nat
    /\ quota = 0 /\ expires > 0 =>
          /\ new.pending = 0 /\ new.legacy = 0
          /\ \A d \in Days : today <= d /\ d < expires => ips <= new.cover[d]

\* The fields of an entitlement.
LEMMA EntFields ==
    ASSUME NEW e, EntTyped(e)
    PROVE  /\ e.row \in BOOLEAN /\ e.cover \in [Days -> Nat]
           /\ e.seconds \in Nat /\ e.units \in Nat /\ e.pending \in Nat
           /\ e.pendingIps \in Nat /\ e.legacy \in Nat
BY DEF EntTyped

\* What is left is a natural number.
LEMMA LeftType ==
    ASSUME NEW e, EntTyped(e), NEW t \in Nat PROVE Left(e, t) \in Nat
<1>1. e.cover \in [Days -> Nat] /\ e.pending \in Nat /\ e.pendingIps \in Nat
  BY EntFields
<1>2. e.pendingIps * e.pending \in Nat
  BY <1>1
<1> QED BY <1>1, <1>2, AheadType DEF Left

\* Rounding up loses nothing.
LEMMA UnitsPay ==
    ASSUME NEW s \in Nat PROVE Units(s) \in Nat /\ s <= Units(s) * MonthDays
<1>1. MonthDays \in Nat \ {0}
  BY CreditAssumption
<1> DEFINE m == MonthDays
<1>2. m \in Nat \ {0}
  BY <1>1
<1> HIDE DEF m
<1>3. (s + m - 1) \div m \in Nat /\ s <= ((s + m - 1) \div m) * m
  BY <1>2
<1> QED BY <1>3 DEF Units, m

\* A volumetric plan drops what was bought.
LEMMA VolumetricHolds ==
    ASSUME NEW e, NEW had, NEW given, NEW quota, NEW ips, NEW expires, NEW duration,
           Billable(e, had, given, quota, ips, expires, duration), quota > 0
    PROVE  WellPlanned(Volumetric(e), e, had, given, quota, ips, expires)
<1> DEFINE zero == Span(0, 0, 0)
           m == [e EXCEPT !.row = TRUE, !.cover = zero, !.pending = 0]
           new == Volumetric(e)
<1>0. EntTyped(e) /\ had \in Nat /\ given \in Nat /\ today \in Nat /\ quota \in Nat
  BY DEF Billable
<1>1. zero \in [Days -> Nat] /\ \A d \in Days : zero[d] = 0
  BY DEF Span
<1>2. new = [m EXCEPT !.pendingIps = 0, !.legacy = 0]
  BY DEF Volumetric
<1> HIDE DEF zero, new
<1>3. EntTyped(m) /\ m.row = TRUE /\ m.cover = zero /\ m.pending = 0 /\ m.seconds = e.seconds
      /\ m.units = e.units
  BY <1>0, <1>1 DEF EntTyped
<1> HIDE DEF m
<1>4. EntTyped(new) /\ new.row = TRUE /\ new.cover = zero /\ new.pending = 0
      /\ new.seconds = e.seconds /\ new.units = e.units /\ new.legacy = 0
  BY <1>2, <1>3 DEF EntTyped
<1>5. Left(new, today) = 0
  <2>1. \A d \in Days : Ahead(zero, today)[d] = 0
    BY <1>1 DEF Ahead
  <2>2. Sum(Ahead(zero, today), Days) = 0
    BY <2>1, DaysAreFinite, SumOfZeroes
  <2> QED BY <1>4, <2>2 DEF Left
<1>6. Gifted(e, given, quota, expires) = given
  BY <1>0 DEF Gifted
<1>7. Backed(new, had, given, today)
  <2>1. e.seconds <= e.units * MonthDays /\ had + Left(e, today) <= e.seconds + given
    BY DEF Billable, Backed
  <2>2. Left(e, today) \in Nat /\ e.seconds \in Nat
    BY <1>0, LeftType, EntFields
  <2> QED BY <1>0, <1>4, <1>5, <2>1, <2>2 DEF Backed
<1>8. ~(quota = 0)
  BY <1>0
<1>9. WellPlanned(new, e, had, given, quota, ips, expires)
  BY <1>0, <1>4, <1>6, <1>7, <1>8 DEF WellPlanned
<1> QED BY <1>9 DEF new

\* A plan without end: for a new client it is priced by its duration.
LEMMA WaitedHolds ==
    ASSUME NEW e, NEW had, NEW given, NEW quota, NEW ips, NEW expires, NEW duration,
           Billable(e, had, given, quota, ips, expires, duration),
           quota = 0, expires = 0, ~e.row
    PROVE  WellPlanned(Waited(e, ips, duration), e, had, given, quota, ips, expires)
<1> DEFINE days == ips * duration
           m == [NoEnt EXCEPT !.row = TRUE, !.pending = duration, !.pendingIps = ips]
           new == Waited(e, ips, duration)
<1>0. /\ had = 0 /\ given = 0 /\ today \in Nat /\ ips \in Nat /\ duration \in Nat
      /\ duration > 0 /\ e = NoEnt
  <2>1. had = 0 /\ given = 0 /\ today \in Nat /\ ips \in Nat /\ duration \in Nat /\ e = NoEnt
    BY DEF Billable, Backed
  <2>2. duration # 0
    BY DEF Billable, Refused
  <2> QED BY <2>1, <2>2
<1>1. days \in Nat
  BY <1>0
<1>2. new = [m EXCEPT !.seconds = days, !.units = Units(days)]
  BY DEF Waited
<1>3. EntTyped(NoEnt) /\ NoEnt.legacy = 0
  BY DEF EntTyped, NoEnt
<1> HIDE DEF new
<1>4. EntTyped(m) /\ m.row = TRUE /\ m.pending = duration /\ m.pendingIps = ips /\ m.legacy = 0
  BY <1>0, <1>3 DEF EntTyped
<1> HIDE DEF m
<1>5. Units(days) \in Nat /\ days <= Units(days) * MonthDays
  BY <1>1, UnitsPay
<1> HIDE DEF days
<1>6. EntTyped(new) /\ new.row = TRUE /\ new.pending = duration /\ new.pendingIps = ips
      /\ new.legacy = 0 /\ new.seconds = days /\ new.units = Units(days)
  BY <1>1, <1>2, <1>4, <1>5 DEF EntTyped
<1>7. Left(new, today) = days
  BY <1>0, <1>6 DEF Left, days
<1>8. Gifted(e, given, quota, expires) = 0
  BY <1>0, <1>3 DEF Gifted
<1>9. Backed(new, had, 0, today)
  <2>1. had + days <= days + 0
    BY <1>0, <1>1
  <2> QED BY <1>5, <1>6, <1>7, <2>1 DEF Backed
<1>10. ~(expires > 0)
  OBVIOUS
<1>11. WellPlanned(new, e, had, given, quota, ips, expires)
  BY <1>6, <1>8, <1>9, <1>10 DEF WellPlanned
<1> QED BY <1>11 DEF new

\* What a purchase adds to an entitlement is priced with everything bought before.
LEMMA PricedFields ==
    ASSUME NEW m, EntTyped(m), NEW added \in Nat, NEW new, new = Priced(m, added)
    PROVE  /\ EntTyped(new) /\ new.row = TRUE /\ new.cover = m.cover
           /\ new.pending = m.pending /\ new.pendingIps = m.pendingIps /\ new.legacy = m.legacy
           /\ new.seconds = m.seconds + added /\ new.seconds <= new.units * MonthDays
<1> DEFINE s == m.seconds + added
           u == Units(s)
<1>1. s \in Nat
  BY EntFields
<1>2. u \in Nat /\ s <= u * MonthDays
  BY <1>1, UnitsPay
<1>3. new = [m EXCEPT !.row = TRUE, !.seconds = s, !.units = u]
  BY EntFields DEF Priced, EntTyped
<1> HIDE DEF s, u
<1>4. EntTyped(new) /\ new.row = TRUE /\ new.seconds = s /\ new.units = u
      /\ new.cover = m.cover /\ new.pending = m.pending
      /\ new.pendingIps = m.pendingIps /\ new.legacy = m.legacy
  BY <1>1, <1>2, <1>3 DEF EntTyped
<1> QED BY <1>2, <1>4 DEF s

\* More IP-users in a balance that waits pay for all of its days.
LEMMA WidenedHolds ==
    ASSUME NEW e, NEW had, NEW given, NEW quota, NEW ips, NEW expires, NEW duration,
           Billable(e, had, given, quota, ips, expires, duration),
           quota = 0, expires = 0, e.row
    PROVE  WellPlanned(Priced([e EXCEPT !.pendingIps = Higher(@, ips)],
                              Higher(0, ips - e.pendingIps) * e.pending),
                       e, had, given, quota, ips, expires)
<1> DEFINE n == Higher(e.pendingIps, ips)
           more == Higher(0, ips - e.pendingIps)
           added == more * e.pending
           m == [e EXCEPT !.pendingIps = n]
           new == Priced(m, added)
<1>0. /\ EntTyped(e) /\ had \in Nat /\ given \in Nat /\ today \in Nat /\ ips \in Nat
      /\ e.pending # 0 /\ had + Left(e, today) <= e.seconds + given
      /\ e.legacy > 0 => e.pending = 0
  BY DEF Billable, Backed, Refused
<1>1. /\ e.pendingIps \in Nat /\ e.pending \in Nat /\ e.legacy \in Nat /\ e.seconds \in Nat
      /\ e.pending > 0 /\ e.legacy = 0
  BY <1>0, EntFields
<1>2. n \in Nat /\ more \in Nat /\ n = e.pendingIps + more
  BY <1>0, <1>1 DEF Higher
<1> HIDE DEF n, more
<1>3. added \in Nat /\ n * e.pending = e.pendingIps * e.pending + added
      /\ e.pendingIps * e.pending \in Nat
  BY <1>1, <1>2
<1>4. EntTyped(m) /\ m.pendingIps = n /\ m.pending = e.pending /\ m.legacy = 0
      /\ m.seconds = e.seconds
  BY <1>0, <1>1, <1>2 DEF EntTyped
<1>5. new = Priced(m, added)
  OBVIOUS
<1> HIDE DEF added, m, new
<1>6. /\ EntTyped(new) /\ new.row = TRUE /\ new.pending = e.pending /\ new.pendingIps = n
      /\ new.legacy = 0 /\ new.seconds = e.seconds + added
      /\ new.seconds <= new.units * MonthDays
  <2>1. EntTyped(m) /\ added \in Nat
    BY <1>3, <1>4
  <2>2. /\ EntTyped(new) /\ new.row = TRUE /\ new.cover = m.cover
        /\ new.pending = m.pending /\ new.pendingIps = m.pendingIps /\ new.legacy = m.legacy
        /\ new.seconds = m.seconds + added /\ new.seconds <= new.units * MonthDays
    BY <2>1, <1>5, PricedFields
  <2> QED BY <1>4, <2>2
<1>7. Left(e, today) = e.pendingIps * e.pending /\ Left(new, today) = n * e.pending
  BY <1>1, <1>6 DEF Left
<1>8. had + Left(new, today) <= new.seconds + given
  BY <1>0, <1>1, <1>3, <1>6, <1>7
<1>9. Gifted(e, given, quota, expires) = given
  BY <1>1 DEF Gifted
<1>10. Backed(new, had, given, today)
  BY <1>6, <1>8 DEF Backed
<1>11. ~(expires > 0)
  OBVIOUS
<1>12. WellPlanned(new, e, had, given, quota, ips, expires)
  BY <1>0, <1>6, <1>9, <1>10, <1>11 DEF WellPlanned
<1> QED BY <1>12 DEF new, m, n, added, more

\* What was bought, as a calendar.  A balance that waits is worth at least its calendar.
LEMMA BoughtHolds ==
    ASSUME NEW e, EntTyped(e), NEW expires \in Nat, today \in Nat
    PROVE  /\ Bought(e, expires) \in [Days -> Nat]
           /\ e.pending > 0 => IpDays(Bought(e, expires)) <= e.pendingIps * e.pending
           /\ e.pending > 0 \/ e.legacy > 0 =>
                 \A d \in Days : d < today => Bought(e, expires)[d] = 0
           /\ ~(e.pending > 0) /\ ~(e.legacy > 0) => Bought(e, expires) = e.cover
<1> DEFINE b == Bought(e, expires)
           p == e.pendingIps
           q == e.pending
           l == e.legacy
<1>1. p \in Nat /\ q \in Nat /\ l \in Nat /\ e.cover \in [Days -> Nat]
  BY EntFields
<1>2. Higher(today, expires) \in Nat
  BY DEF Higher
<1>3. ASSUME NEW n \in Nat, NEW u \in Nat
      PROVE  Span(n, today, u) \in [Days -> Nat] /\ \A d \in Days : d < today => Span(n, today, u)[d] = 0
  BY DaysAreFinite DEF Span
<1>4. CASE q > 0
  <2>1. b = Span(p, today, today + q) /\ today + q \in Nat
    BY <1>1, <1>4 DEF Bought
  <2>2. b \in [Days -> Nat] /\ \A d \in Days : d < today => b[d] = 0
    BY <1>1, <1>3, <2>1
  <2>3. Sum(b, Days) <= p * q
    BY <1>1, <2>1, SpanSum
  <2>4. IpDays(b) <= p * q
    BY <2>2, <2>3, IpDaysIsNatural
  <2> QED BY <1>4, <2>2, <2>4
<1>5. CASE ~(q > 0) /\ l > 0
  <2>1. b = Span(l, today, Higher(today, expires))
    BY <1>5 DEF Bought
  <2>2. b \in [Days -> Nat] /\ \A d \in Days : d < today => b[d] = 0
    BY <1>1, <1>2, <1>3, <2>1
  <2> QED BY <1>5, <2>2
<1>6. CASE ~(q > 0) /\ ~(l > 0)
  BY <1>1, <1>6 DEF Bought
<1> QED BY <1>4, <1>5, <1>6

\* A plan with an end: the days not yet bought are bought, for the users not yet paid.
LEMMA BookedHolds ==
    ASSUME NEW e, NEW had, NEW given, NEW quota, NEW ips, NEW expires, NEW duration,
           Billable(e, had, given, quota, ips, expires, duration),
           quota = 0, expires > 0
    PROVE  WellPlanned(Planned(e, quota, ips, expires, duration), e, had, given, quota, ips, expires)
<1> DEFINE before == Bought(e, expires)
           after == Raised(before, Span(ips, today, expires))
           added == IpDays(after) - IpDays(before)
           m1 == [e EXCEPT !.cover = after, !.pending = 0]
           m == [m1 EXCEPT !.pendingIps = 0, !.legacy = 0]
           new == Planned(e, quota, ips, expires, duration)
           b == Sum(Ahead(before, today), Days)
<1>0. /\ EntTyped(e) /\ had \in Nat /\ given \in Nat /\ today \in Nat /\ ips \in Nat
      /\ expires \in Nat /\ had + Left(e, today) <= e.seconds + given
      /\ e.legacy > 0 => e.pending = 0 /\ given = 0
  BY DEF Billable, Backed
<1>1. e.pendingIps \in Nat /\ e.pending \in Nat /\ e.legacy \in Nat /\ e.seconds \in Nat
  BY <1>0, EntFields
<1>2. before \in [Days -> Nat]
  BY <1>0, BoughtHolds
<1>3. ~(quota > 0) /\ ~(expires = 0)
  BY <1>0
<1>4. new = Priced(m, added)
  BY <1>3 DEF Planned
<1> HIDE DEF before, new
<1>5. \A d \in Days : after[d] = Higher(before[d], IF today <= d /\ d < expires THEN ips ELSE 0)
  BY DEF Raised, Span
<1>6. after \in [Days -> Nat]
  <2>1. \A d \in Days : after[d] \in Nat
    BY <1>0, <1>2, <1>5 DEF Higher
  <2>2. after = [d \in Days |-> Higher(before[d], Span(ips, today, expires)[d])]
    BY DEF Raised
  <2> HIDE DEF after
  <2>3. after \in [Days -> Nat] <=> \A d \in Days : after[d] \in Nat
    BY <2>2
  <2> QED BY <2>1, <2>3
<1> HIDE DEF after
<1>7. /\ \A d \in Days : d < today => after[d] = before[d]
      /\ \A d \in Days : today <= d /\ d < expires => ips <= after[d]
      /\ \A d \in Days : before[d] <= after[d]
  BY <1>0, <1>2, <1>5, DaysAreFinite DEF Higher
<1>8. /\ IpDays(before) \in Nat /\ IpDays(after) \in Nat /\ IpDays(before) <= IpDays(after)
      /\ b \in Nat /\ b <= IpDays(before)
  <2>1. IsFiniteSet(Days)
    BY DaysAreFinite
  <2>2. Terms(before, Days) /\ Terms(after, Days)
    BY <1>2, <1>6 DEF Terms
  <2>3. Sum(before, Days) <= Sum(after, Days)
    BY <1>7, <2>1, <2>2, SumIsMonotone
  <2> QED BY <1>0, <1>2, <1>6, <2>3, IpDaysIsNatural, AheadType
<1>9. added \in Nat
  BY <1>8
<1>10. Sum(Ahead(after, today), Days) - b = added
  BY <1>0, <1>2, <1>6, <1>7, AheadGrows
<1>11. Sum(Ahead(after, today), Days) \in Nat
  BY <1>0, <1>6, AheadType
<1> HIDE DEF b, added
<1>12. EntTyped(m1) /\ m1.cover = after /\ m1.pending = 0 /\ m1.seconds = e.seconds
  BY <1>0, <1>6 DEF EntTyped
<1> HIDE DEF m1
<1>13. EntTyped(m) /\ m.cover = after /\ m.pending = 0 /\ m.legacy = 0 /\ m.seconds = e.seconds
  BY <1>12 DEF EntTyped
<1> HIDE DEF m
<1>14. /\ EntTyped(new) /\ new.row = TRUE /\ new.cover = after /\ new.pending = 0
       /\ new.legacy = 0 /\ new.seconds = e.seconds + added
       /\ new.seconds <= new.units * MonthDays
  <2>1. /\ EntTyped(new) /\ new.row = TRUE /\ new.cover = m.cover
        /\ new.pending = m.pending /\ new.legacy = m.legacy
        /\ new.seconds = m.seconds + added /\ new.seconds <= new.units * MonthDays
    BY <1>4, <1>9, <1>13, PricedFields
  <2> QED BY <1>13, <2>1
<1>15. Left(new, today) = b + added
  <2>1. Left(new, today) = Sum(Ahead(after, today), Days)
    BY <1>14 DEF Left
  <2>2. b \in Nat /\ added \in Nat
    BY <1>8, <1>9
  <2> QED BY <1>10, <1>11, <2>1, <2>2
<1>16. /\ Gifted(e, given, quota, expires) \in Nat
       /\ had + (b + added) <= e.seconds + added + Gifted(e, given, quota, expires)
  <2>1. CASE e.pending > 0
    <3>1. IpDays(before) <= e.pendingIps * e.pending /\ Left(e, today) = e.pendingIps * e.pending
      BY <1>0, <2>1, BoughtHolds DEF before, Left
    <3>2. e.pendingIps * e.pending \in Nat
      BY <1>1
    <3>3. ~(e.legacy > 0)
      BY <1>0, <1>1, <2>1
    <3>4. Gifted(e, given, quota, expires) = given
      BY <3>3 DEF Gifted
    <3>5. b <= Left(e, today) /\ Left(e, today) \in Nat
      BY <1>8, <3>1, <3>2
    <3> QED BY <1>0, <1>1, <1>8, <1>9, <3>4, <3>5
  <2>2. CASE e.legacy > 0
    <3>1. Gifted(e, given, quota, expires) = IpDays(before) /\ given = 0
      BY <1>0, <2>2 DEF Gifted, before
    <3>2. Left(e, today) = 0
      BY <1>0, <2>2 DEF Left
    <3> QED BY <1>0, <1>1, <1>8, <1>9, <3>1, <3>2
  <2>3. CASE ~(e.pending > 0) /\ ~(e.legacy > 0)
    <3>1. before = e.cover
      BY <1>0, <2>3, BoughtHolds DEF before
    <3>2. Left(e, today) = b
      BY <2>3, <3>1 DEF Left, b
    <3>3. Gifted(e, given, quota, expires) = given
      BY <2>3 DEF Gifted
    <3> QED BY <1>0, <1>1, <1>8, <1>9, <3>2, <3>3
  <2> QED BY <2>1, <2>2, <2>3
<1>17. Backed(new, had, Gifted(e, given, quota, expires), today)
  <2>1. ~(new.legacy > 0)
    BY <1>14
  <2> QED BY <1>14, <1>15, <1>16, <2>1 DEF Backed
<1>18. WellPlanned(new, e, had, given, quota, ips, expires)
  BY <1>7, <1>14, <1>16, <1>17 DEF WellPlanned
<1> QED BY <1>18 DEF new

\* Every plan that is not refused leaves an entitlement that backs it.
LEMMA PlannedHolds ==
    ASSUME NEW e, NEW had, NEW given, NEW quota, NEW ips, NEW expires, NEW duration,
           Billable(e, had, given, quota, ips, expires, duration)
    PROVE  WellPlanned(Planned(e, quota, ips, expires, duration), e, had, given, quota, ips, expires)
<1>0. quota \in Nat /\ expires \in Nat
  BY DEF Billable
<1>1. CASE quota > 0
  BY <1>1, VolumetricHolds DEF Planned
<1>2. CASE quota = 0 /\ expires > 0
  BY <1>2, BookedHolds
<1>3. CASE quota = 0 /\ expires = 0 /\ e.row
  BY <1>3, WidenedHolds DEF Planned
<1>4. CASE quota = 0 /\ expires = 0 /\ ~e.row
  BY <1>4, WaitedHolds DEF Planned
<1> QED BY <1>0, <1>1, <1>2, <1>3, <1>4

-----------------------------------------------------------------------------
(* Steps of the credit ledger *)

\* What an owner's clients hold, as a sum over all clients.
LEMMA AllocatedIsSum ==
    ASSUME CreditTypeOK, NEW o
    PROVE  /\ Allocated(Held(o)) = Sum(QuotasOf(sub, o), Subs)
           /\ Allocated(Held(o)) \in Nat
<1> DEFINE T == Held(o)
           v == [c \in T |-> sub[c].quota]
           w == QuotasOf(sub, o)
<1>1. T \in SUBSET Subs /\ IsFiniteSet(Subs) /\ IsFiniteSet(T)
  BY FS_Subset, CreditAssumption DEF Held
<1>2. \A c \in Subs : sub[c].quota \in Nat
  BY DEF CreditTypeOK
<1>3. Allocated(T) = Sum(v, T)
  BY <1>1, <1>2, QuotaSum DEF Allocated
<1>4. Terms(v, T) /\ \A c \in T : v[c] \in Nat
  BY <1>1, <1>2 DEF Terms
<1>5. \A c \in Subs : w[c] = IF c \in T THEN v[c] ELSE 0
  BY DEF QuotasOf, Share, Held
<1> HIDE DEF v, w, T
<1>6. Sum(v, T) = Sum(w, Subs)
  BY <1>1, <1>4, <1>5, SumOfPart
<1>7. Sum(v, T) \in Nat
  BY <1>1, <1>4, SumIsNatural
<1> QED BY <1>3, <1>6, <1>7 DEF T, w

\* The same without one of them.
LEMMA AllocatedToOthers ==
    ASSUME CreditTypeOK, NEW o, NEW c \in Held(o)
    PROVE  Allocated(Held(o) \ {c}) = Sum(QuotasOf(sub, o), Subs) - sub[c].quota
<1> DEFINE T == Held(o) \ {c}
           v == [b \in T |-> sub[b].quota]
           w == [b \in Subs |-> IF b \in T THEN v[b] ELSE 0]
           u == QuotasOf(sub, o)
<1>1. T \in SUBSET Subs /\ IsFiniteSet(Subs) /\ IsFiniteSet(T) /\ c \in Subs /\ c \notin T
  BY FS_Subset, CreditAssumption DEF Held
<1>2. \A b \in Subs : sub[b].quota \in Nat
  BY DEF CreditTypeOK
<1>3. Allocated(T) = Sum(v, T)
  BY <1>1, <1>2, QuotaSum DEF Allocated
<1>4. Terms(v, T) /\ Terms(w, Subs) /\ Terms(u, Subs)
  BY <1>1, <1>2 DEF Terms, QuotasOf, Share
<1>5. \A b \in Subs : w[b] = IF b \in T THEN v[b] ELSE 0
  OBVIOUS
<1>6. /\ \A b \in Subs \ {c} : w[b] = u[b]
      /\ w[c] = 0 /\ u[c] = sub[c].quota
  BY <1>1 DEF QuotasOf, Share, Held
<1> HIDE DEF v, w, u, T
<1>7. Sum(v, T) = Sum(w, Subs)
  BY <1>1, <1>4, <1>5, SumOfPart
<1>8. Sum(w, Subs) = Sum(u, Subs) - u[c] + w[c]
  BY <1>1, <1>4, <1>6, SumOfChange
<1>9. Sum(u, Subs) \in Int
  BY <1>1, <1>4, SumType
<1>10. Allocated(T) = Sum(u, Subs) - sub[c].quota
  BY <1>1, <1>2, <1>3, <1>6, <1>7, <1>8, <1>9
<1> QED BY <1>10 DEF T, u

\* One client changes its quota.
LEMMA QuotaChanges ==
    ASSUME CreditTypeOK, NEW c \in Subs, NEW r, r.quota \in Nat, sub' = [sub EXCEPT ![c] = r],
           NEW o
    PROVE  /\ Sum(QuotasOf(sub, o), Subs) \in Nat
           /\ Sum(QuotasOf(sub', o), Subs) = Sum(QuotasOf(sub, o), Subs)
                                            - Share(sub[c], o) + Share(r, o)
<1> DEFINE v == QuotasOf(sub, o)
           w == QuotasOf(sub', o)
<1>1. \A b \in Subs : sub[b].quota \in Nat /\ sub'[b] = IF b = c THEN r ELSE sub[b]
  BY DEF CreditTypeOK
<1>2. \A b \in Subs : v[b] \in Nat /\ w[b] \in Nat
  BY <1>1 DEF QuotasOf, Share
<1>3. v[c] = Share(sub[c], o) /\ w[c] = Share(r, o)
  BY <1>1 DEF QuotasOf
<1>4. \A b \in Subs \ {c} : w[b] = v[b]
  BY <1>1 DEF QuotasOf
<1>5. IsFiniteSet(Subs)
  BY CreditAssumption
<1> HIDE DEF v, w
<1>6. Terms(v, Subs) /\ Terms(w, Subs)
  BY <1>2 DEF Terms
<1>7. Sum(w, Subs) = Sum(v, Subs) - v[c] + w[c]
  BY <1>4, <1>5, <1>6, SumOfChange
<1>8. Sum(v, Subs) \in Nat
  BY <1>2, <1>5, SumIsNatural
<1> QED BY <1>3, <1>7, <1>8 DEF v, w

\* The properties that the runs check.
LEMMA CreditInvShows ==
    ASSUME CreditInv PROVE CreditTypeOK /\ CreditConserved /\ ServiceIsPaid
<1>1. CreditTypeOK
  BY DEF CreditInv
<1>2. ASSUME NEW o \in Owners
      PROVE  /\ owner[o].spent <= owner[o].credit
             /\ Allocated(Held(o)) <= owner[o].volume
             /\ book[o] = owner[o].credit - owner[o].spent
  <2>1. OwnerHolds(o)
    BY DEF CreditInv
  <2>2. Allocated(Held(o)) = Sum(QuotasOf(sub, o), Subs)
    BY <1>1, AllocatedIsSum
  <2> QED BY <2>1, <2>2 DEF OwnerHolds
<1>3. ASSUME NEW c \in Subs PROVE used[c] <= ent[c].units * MonthDays + gift[c]
  <2>1. EntTyped(ent[c]) /\ used[c] \in Nat /\ gift[c] \in Nat /\ today \in Nat
    BY <1>1, CreditAssumption DEF CreditTypeOK, EntTyped
  <2>2. Left(ent[c], today) \in Nat /\ ent[c].seconds \in Nat /\ ent[c].units \in Nat
    BY <2>1, LeftType, EntFields
  <2>3. used[c] + Left(ent[c], today) <= ent[c].seconds + gift[c]
        /\ ent[c].seconds <= ent[c].units * MonthDays
    BY DEF CreditInv, ClientHolds, Backed
  <2>4. MonthDays \in Nat
    BY CreditAssumption
  <2>5. ent[c].units * MonthDays \in Nat
    BY <2>2, <2>4
  <2> QED BY <2>1, <2>2, <2>3, <2>5
<1> QED BY <1>1, <1>2, <1>3 DEF CreditConserved, ServiceIsPaid

\* What a bill leaves: the owner pays what the plan costs, in the ledger too, and the
\* entitlement backs the plan.
Billed(c, o, quota, ips, expires) ==
    /\ owner' \in [Owners -> [volume : Nat, credit : Nat, spent : Nat]]
    /\ book' \in [Owners -> Int]
    /\ \A p \in Owners :
          /\ owner'[p].volume = owner[p].volume
          /\ owner'[p].spent <= owner'[p].credit
          /\ book'[p] = owner'[p].credit - owner'[p].spent
    /\ ent' \in [Subs -> [row : BOOLEAN, cover : [Days -> Nat], seconds : Nat, units : Nat,
                          pending : Nat, pendingIps : Nat, legacy : Nat]]
    /\ gift' \in [Subs -> Nat]
    /\ \A b \in Subs \ {c} : ent'[b] = ent[b] /\ gift'[b] = gift[b]
    /\ Backed(ent'[c], used[c], gift'[c], today) /\ ent'[c].row
    /\ quota = 0 /\ expires > 0 =>
          /\ ent'[c].pending = 0 /\ ent'[c].legacy = 0
          /\ \A d \in Days : today <= d /\ d < expires => ips <= ent'[c].cover[d]

\* Bill: what every plan that is billed leaves behind.
LEMMA BillHolds ==
    ASSUME CreditInv, NEW c \in Subs, NEW o \in Owners, NEW quota \in Nat, NEW ips \in Nat,
           NEW expires \in Nat, NEW duration \in Nat,
           Bill(c, o, quota, ips, expires, duration)
    PROVE  Billed(c, o, quota, ips, expires)
<1> DEFINE e == ent[c]
           new == Planned(e, quota, ips, expires, duration)
           debit == Higher(0, new.units - e.units)
           g == Gifted(e, gift[c], quota, expires)
<1>1. /\ CreditTypeOK /\ EntTyped(e) /\ used[c] \in Nat /\ gift[c] \in Nat /\ today \in Nat
  BY CreditAssumption DEF CreditInv, CreditTypeOK, EntTyped
<1>2. Billable(e, used[c], gift[c], quota, ips, expires, duration)
  BY <1>1 DEF Billable, CreditInv, ClientHolds, Bill
<1>3. WellPlanned(new, e, used[c], gift[c], quota, ips, expires)
  BY <1>2, PlannedHolds
<1>4. debit <= owner[o].credit - owner[o].spent /\ ent' = [ent EXCEPT ![c] = new]
      /\ owner' = [owner EXCEPT ![o].spent = @ + debit]
      /\ book' = [book EXCEPT ![o] = @ - debit]
  BY DEF Bill
<1>5. gift' = [gift EXCEPT ![c] = g]
  <2>1. gift' = [gift EXCEPT ![c] = IF quota = 0 /\ ent[c].legacy > 0
                      THEN IpDays(Bought(ent[c], expires)) ELSE gift[c]]
    BY DEF Bill
  <2> QED BY <2>1 DEF Gifted
<1> HIDE DEF new, g
<1>6. EntTyped(new) /\ new.row /\ g \in Nat /\ Backed(new, used[c], g, today)
      /\ (quota = 0 /\ expires > 0 =>
            /\ new.pending = 0 /\ new.legacy = 0
            /\ \A d \in Days : today <= d /\ d < expires => ips <= new.cover[d])
  BY <1>3 DEF WellPlanned, g
<1>7. debit \in Nat
  BY <1>1, <1>6, EntFields DEF Higher
<1> HIDE DEF e, debit
<1>8. /\ owner' \in [Owners -> [volume : Nat, credit : Nat, spent : Nat]]
      /\ book' \in [Owners -> Int]
      /\ \A p \in Owners : /\ owner'[p].volume = owner[p].volume
                           /\ owner'[p].spent <= owner'[p].credit
                           /\ book'[p] = owner'[p].credit - owner'[p].spent
  <2>1. owner \in [Owners -> [volume : Nat, credit : Nat, spent : Nat]] /\ book \in [Owners -> Int]
    BY <1>1 DEF CreditTypeOK
  <2>2. \A p \in Owners : owner[p].spent <= owner[p].credit /\ book[p] = owner[p].credit - owner[p].spent
    BY DEF CreditInv, OwnerHolds
  <2> QED BY <1>4, <1>7, <2>1, <2>2
<1>9. /\ ent' \in [Subs -> [row : BOOLEAN, cover : [Days -> Nat], seconds : Nat, units : Nat,
                          pending : Nat, pendingIps : Nat, legacy : Nat]]
      /\ gift' \in [Subs -> Nat]
  BY <1>1, <1>4, <1>5, <1>6 DEF CreditTypeOK, EntTyped
<1>10. ent'[c] = new /\ gift'[c] = g /\ \A b \in Subs \ {c} : ent'[b] = ent[b] /\ gift'[b] = gift[b]
  BY <1>1, <1>4, <1>5 DEF CreditTypeOK
<1> QED BY <1>6, <1>8, <1>9, <1>10 DEF Billed

\* A client that is created or edited, with its bill.
LEMMA ClientStep ==
    ASSUME CreditInv, NEW c \in Subs, NEW o \in Owners, NEW quota \in Nat, NEW ips \in Nat,
           NEW expires \in Nat, Billed(c, o, quota, ips, expires),
           NEW r, r = [owner |-> o, quota |-> quota, ips |-> ips, expires |-> expires],
           sub' = [sub EXCEPT ![c] = r],
           \A p \in Owners : Sum(QuotasOf(sub', p), Subs) <= owner[p].volume,
           UNCHANGED <<adjusted, today, used>>
    PROVE  CreditInv'
<1>1. CreditTypeOK
  BY DEF CreditInv
<1>2. CreditTypeOK'
  <2>1. sub' \in [Subs -> [owner : Owners \union {"none"}, quota : Nat, ips : Nat, expires : Nat]]
    BY <1>1 DEF CreditTypeOK
  <2>2. adjusted' \subseteq Adjustments /\ today' \in 0 .. Horizon /\ used' \in [Subs -> Nat]
    BY <1>1 DEF CreditTypeOK
  <2> QED BY <2>1, <2>2 DEF CreditTypeOK, Billed
<1>3. ASSUME NEW b \in Subs PROVE ClientHolds(b)'
  <2>1. CASE b = c
    <3>1. sub'[c] = r /\ r.owner = o /\ r.quota = quota /\ r.ips = ips /\ r.expires = expires
      BY <1>1 DEF CreditTypeOK
    <3>2. Backed(ent'[c], used'[c], gift'[c], today') /\ ent'[c].row
      BY DEF Billed
    <3>3. Bookings(sub'[c], ent'[c], today')
      BY <3>1 DEF Billed, Bookings
    <3> QED BY <2>1, <3>1, <3>2, <3>3 DEF ClientHolds
  <2>2. CASE b # c
    <3>1. sub'[b] = sub[b]
      BY <1>1, <2>2 DEF CreditTypeOK
    <3>2. ent'[b] = ent[b] /\ gift'[b] = gift[b] /\ used'[b] = used[b] /\ today' = today
      BY <2>2 DEF Billed
    <3>3. ClientHolds(b)
      BY DEF CreditInv
    <3> QED BY <3>1, <3>2, <3>3 DEF ClientHolds
  <2> QED BY <2>1, <2>2
<1>4. ASSUME NEW p \in Owners PROVE OwnerHolds(p)'
  <2>1. Sum(QuotasOf(sub', p), Subs) <= owner'[p].volume
    BY DEF Billed
  <2> QED BY <2>1 DEF OwnerHolds, Billed
<1> QED BY <1>2, <1>3, <1>4 DEF CreditInv

\* A client is created within the volume of its owner.
LEMMA RegisterClientHolds ==
    ASSUME CreditInv, NEW c \in Subs, NEW o \in Owners, NEW quota \in Nat, NEW ips \in Nat,
           NEW expires \in Nat, NEW duration \in Nat,
           RegisterClient(c, o, quota, ips, expires, duration)
    PROVE  CreditInv'
<1> DEFINE r == [owner |-> o, quota |-> quota, ips |-> ips, expires |-> expires]
<1>1. CreditTypeOK /\ \A p \in Owners : OwnerHolds(p)
  BY DEF CreditInv
<1>2. Billed(c, o, quota, ips, expires)
  BY BillHolds DEF RegisterClient
<1>3. sub[c] = NoSub /\ sub' = [sub EXCEPT ![c] = r] /\ UNCHANGED <<adjusted, today, used>>
      /\ (quota > 0 => Allocated(Held(o)) + quota <= owner[o].volume)
  BY DEF RegisterClient
<1>4. r.quota = quota /\ r.owner = o /\ sub[c].quota = 0
  BY <1>3 DEF NoSub
<1>5. ASSUME NEW p \in Owners PROVE Sum(QuotasOf(sub', p), Subs) <= owner[p].volume
  <2> DEFINE before == Sum(QuotasOf(sub, p), Subs)
             after == Sum(QuotasOf(sub', p), Subs)
  <2>1. before \in Nat /\ before <= owner[p].volume /\ owner[p].volume \in Nat
    BY <1>1, <1>3, <1>4, QuotaChanges DEF OwnerHolds, CreditTypeOK
  <2>2. after = before - Share(sub[c], p) + Share(r, p)
    <3>1. r.quota \in Nat
      BY <1>4
    <3> HIDE DEF r
    <3> QED BY <1>1, <1>3, <3>1, QuotaChanges
  <2>3. after = before + (IF o = p THEN quota ELSE 0)
    <3>1. Share(sub[c], p) = 0 /\ Share(r, p) = IF o = p THEN quota ELSE 0
      BY <1>4 DEF Share
    <3> HIDE DEF before, after, r
    <3> QED BY <2>1, <2>2, <3>1
  <2>4. Allocated(Held(o)) = Sum(QuotasOf(sub, o), Subs)
    BY <1>1, AllocatedIsSum
  <2>5. p = o /\ quota > 0 => before + quota <= owner[p].volume
    BY <1>3, <2>4
  <2> HIDE DEF before, after
  <2>6. after <= owner[p].volume
    BY <2>1, <2>3, <2>5
  <2> QED BY <2>6 DEF after
<1> HIDE DEF r
<1>6. r = [owner |-> o, quota |-> quota, ips |-> ips, expires |-> expires]
  BY DEF r
<1> QED BY <1>2, <1>3, <1>5, <1>6, ClientStep

\* A client is edited within the volume of its owner.
LEMMA EditClientHolds ==
    ASSUME CreditInv, NEW c \in Subs, NEW quota \in Nat, NEW ips \in Nat, NEW expires \in Nat,
           EditClient(c, quota, ips, expires)
    PROVE  CreditInv'
<1>1. CreditTypeOK /\ \A p \in Owners : OwnerHolds(p)
  BY DEF CreditInv
<1>2. PICK o : o = sub[c].owner
  OBVIOUS
<1> DEFINE r == [owner |-> o, quota |-> quota, ips |-> ips, expires |-> expires]
<1>3. o \in Owners /\ sub[c] # NoSub
  BY <1>2 DEF EditClient, CreditInv, ClientHolds
<1>4. Billed(c, o, quota, ips, expires)
  BY <1>2, <1>3, BillHolds DEF EditClient
<1>5. UNCHANGED <<adjusted, today, used>>
      /\ (quota > 0 => Allocated(Held(o) \ {c}) + quota <= owner[o].volume)
  BY <1>2 DEF EditClient
<1>6. sub' = [sub EXCEPT ![c] = r]
  <2>1. sub' = [sub EXCEPT ![c].quota = quota, ![c].ips = ips, ![c].expires = expires]
    BY DEF EditClient
  <2>2. sub[c] \in [owner : Owners \union {"none"}, quota : Nat, ips : Nat, expires : Nat]
    BY <1>1 DEF CreditTypeOK
  <2>3. [sub[c] EXCEPT !.quota = quota, !.ips = ips, !.expires = expires] = r
    <3>1. PICK x : x = sub[c]
      OBVIOUS
    <3>2. x \in [owner : Owners \union {"none"}, quota : Nat, ips : Nat, expires : Nat] /\ x.owner = o
      BY <1>2, <2>2, <3>1
    <3>3. [x EXCEPT !.quota = quota] = [owner |-> o, quota |-> quota, ips |-> x.ips, expires |-> x.expires]
      BY <3>2
    <3>4. PICK y : y = [x EXCEPT !.quota = quota]
      OBVIOUS
    <3>5. PICK z : z = [y EXCEPT !.ips = ips]
      OBVIOUS
    <3>6. z = [owner |-> o, quota |-> quota, ips |-> ips, expires |-> x.expires]
      BY <3>3, <3>4, <3>5
    <3>7. [z EXCEPT !.expires = expires] = r
      BY <3>6
    <3>8. [x EXCEPT !.quota = quota, !.ips = ips, !.expires = expires] = [z EXCEPT !.expires = expires]
      BY <3>4, <3>5
    <3> QED BY <3>1, <3>7, <3>8
  <2>4. sub' = [sub EXCEPT ![c] = [sub[c] EXCEPT !.quota = quota, !.ips = ips, !.expires = expires]]
    BY <1>1, <2>1 DEF CreditTypeOK
  <2> QED BY <2>3, <2>4
<1>7. r.quota = quota /\ r.owner = o /\ sub[c].quota \in Nat
  BY <1>1 DEF CreditTypeOK
<1>8. ASSUME NEW p \in Owners PROVE Sum(QuotasOf(sub', p), Subs) <= owner[p].volume
  <2> DEFINE before == Sum(QuotasOf(sub, p), Subs)
             after == Sum(QuotasOf(sub', p), Subs)
  <2>1. before \in Nat /\ before <= owner[p].volume /\ owner[p].volume \in Nat
    BY <1>1, <1>6, <1>7, QuotaChanges DEF OwnerHolds, CreditTypeOK
  <2>2. after = before - Share(sub[c], p) + Share(r, p)
    <3>1. r.quota \in Nat
      BY <1>7
    <3> HIDE DEF r
    <3> QED BY <1>1, <1>6, <3>1, QuotaChanges
  <2>3. after = before - (IF o = p THEN sub[c].quota ELSE 0) + (IF o = p THEN quota ELSE 0)
    <3>1. /\ Share(sub[c], p) = IF o = p THEN sub[c].quota ELSE 0
          /\ Share(r, p) = IF o = p THEN quota ELSE 0
      BY <1>2, <1>7 DEF Share
    <3> HIDE DEF before, after, r
    <3> QED BY <2>1, <2>2, <3>1
  <2>4. Allocated(Held(o) \ {c}) = Sum(QuotasOf(sub, o), Subs) - sub[c].quota
    BY <1>1, <1>2, AllocatedToOthers DEF Held
  <2>5. p = o /\ quota > 0 => before - sub[c].quota + quota <= owner[p].volume
    BY <1>5, <2>4
  <2> HIDE DEF before, after
  <2>6. after <= owner[p].volume
    BY <1>7, <2>1, <2>3, <2>5
  <2> QED BY <2>6 DEF after
<1> HIDE DEF r
<1>9. r = [owner |-> o, quota |-> quota, ips |-> ips, expires |-> expires]
  BY DEF r
<1> QED BY <1>3, <1>4, <1>5, <1>6, <1>8, <1>9, ClientStep

\* A client that is deleted frees its volume; what it bought stays on record.
LEMMA DeleteClientHolds ==
    ASSUME CreditInv, NEW c \in Subs, DeleteClient(c) PROVE CreditInv'
<1> DEFINE r == NoSub
<1>1. CreditTypeOK /\ UNCHANGED <<owner, book, ent, adjusted, today, used, gift>>
      /\ sub' = [sub EXCEPT ![c] = r]
  BY DEF CreditInv, DeleteClient
<1>2. r \in [owner : Owners \union {"none"}, quota : Nat, ips : Nat, expires : Nat] /\ r.quota = 0
  BY DEF NoSub
<1>3. CreditTypeOK'
  BY <1>1, <1>2 DEF CreditTypeOK
<1> HIDE DEF r
<1>4. ASSUME NEW b \in Subs PROVE ClientHolds(b)'
  <2>1. sub'[b] = sub[b] \/ sub'[b] = NoSub
    BY <1>1 DEF CreditTypeOK, r
  <2>2. ClientHolds(b)
    BY DEF CreditInv
  <2> QED BY <1>1, <2>1, <2>2 DEF ClientHolds
<1>5. ASSUME NEW p \in Owners PROVE OwnerHolds(p)'
  <2>1. OwnerHolds(p) /\ owner[p].volume \in Nat
    BY <1>1 DEF CreditInv, CreditTypeOK
  <2>2. r.quota \in Nat
    BY <1>2
  <2>3. /\ Sum(QuotasOf(sub, p), Subs) \in Nat
        /\ Sum(QuotasOf(sub', p), Subs)
             = Sum(QuotasOf(sub, p), Subs) - Share(sub[c], p) + Share(r, p)
    BY <1>1, <2>2, QuotaChanges
  <2>4. Share(sub[c], p) \in Nat /\ Share(r, p) = 0
    BY <1>1, <1>2 DEF Share, CreditTypeOK
  <2>5. Sum(QuotasOf(sub', p), Subs) <= owner[p].volume
    BY <2>1, <2>3, <2>4 DEF OwnerHolds
  <2> QED BY <1>1, <2>1, <2>5 DEF OwnerHolds
<1> QED BY <1>3, <1>4, <1>5 DEF CreditInv

\* Steps that change only what owners have.
LEMMA OwnerStep ==
    ASSUME CreditInv, UNCHANGED <<sub, ent, today, used, gift>>,
           adjusted' \subseteq Adjustments,
           NEW o \in Owners, NEW volume \in Nat, NEW credit \in Nat,
           owner' = [owner EXCEPT ![o] = [owner[o] EXCEPT !.volume = volume, !.credit = credit]],
           book' = [book EXCEPT ![o] = @ + (credit - owner[o].credit)],
           Allocated(Held(o)) <= volume, owner[o].spent <= credit
    PROVE  CreditInv'
<1>1. CreditTypeOK /\ OwnerHolds(o)
  BY DEF CreditInv
<1>2. /\ owner[o] \in [volume : Nat, credit : Nat, spent : Nat] /\ book[o] \in Int
      /\ owner \in [Owners -> [volume : Nat, credit : Nat, spent : Nat]] /\ book \in [Owners -> Int]
  BY <1>1 DEF CreditTypeOK
<1>3. PICK r : r = [owner[o] EXCEPT !.volume = volume, !.credit = credit]
  OBVIOUS
<1>4. r \in [volume : Nat, credit : Nat, spent : Nat] /\ r.volume = volume /\ r.credit = credit
      /\ r.spent = owner[o].spent
  BY <1>2, <1>3
<1>5. owner' = [owner EXCEPT ![o] = r]
  BY <1>3
<1>6. CreditTypeOK'
  <2>1. owner' \in [Owners -> [volume : Nat, credit : Nat, spent : Nat]]
    BY <1>2, <1>4, <1>5
  <2>2. book' \in [Owners -> Int]
    BY <1>2
  <2> QED BY <1>1, <2>1, <2>2 DEF CreditTypeOK
<1>7. ASSUME NEW b \in Subs PROVE ClientHolds(b)'
  BY DEF CreditInv, ClientHolds
<1>8. ASSUME NEW p \in Owners PROVE OwnerHolds(p)'
  <2>1. CASE p # o
    <3>1. owner'[p] = owner[p] /\ book'[p] = book[p]
      BY <1>2, <1>5, <2>1
    <3>2. OwnerHolds(p)
      BY DEF CreditInv
    <3> QED BY <3>1, <3>2 DEF OwnerHolds
  <2>2. CASE p = o
    <3>1. owner'[o] = r /\ book'[o] = book[o] + (credit - owner[o].credit)
      BY <1>2, <1>5
    <3>2. Sum(QuotasOf(sub, o), Subs) <= volume
      BY <1>1, AllocatedIsSum
    <3>3. book[o] = owner[o].credit - owner[o].spent
      BY <1>1 DEF OwnerHolds
    <3>4. book'[o] = credit - owner[o].spent
      BY <1>2, <3>1, <3>3
    <3> QED BY <1>4, <2>2, <3>1, <3>2, <3>4 DEF OwnerHolds
  <2> QED BY <2>1, <2>2
<1> QED BY <1>6, <1>7, <1>8 DEF CreditInv

\* Both credits are set, above what is in use.
LEMMA RegisterOwnerHolds ==
    ASSUME CreditInv, NEW o \in Owners, NEW volume \in Nat, NEW credit \in Nat,
           RegisterOwner(o, volume, credit)
    PROVE  CreditInv'
<1>1. /\ owner \in [Owners -> [volume : Nat, credit : Nat, spent : Nat]] /\ book \in [Owners -> Int]
      /\ adjusted \subseteq Adjustments /\ CreditTypeOK
  BY DEF CreditInv, CreditTypeOK
<1>2. /\ owner' = [owner EXCEPT ![o].volume = volume, ![o].credit = credit]
      /\ book' = [book EXCEPT ![o] = @ + credit - owner[o].credit]
      /\ UNCHANGED <<sub, ent, today, used, gift>> /\ adjusted' = adjusted
      /\ volume >= Allocated(Held(o)) /\ credit >= owner[o].spent
  BY DEF RegisterOwner
<1>3. owner' = [owner EXCEPT ![o] = [owner[o] EXCEPT !.volume = volume, !.credit = credit]]
  BY <1>1, <1>2
<1>4. book' = [book EXCEPT ![o] = @ + (credit - owner[o].credit)]
  BY <1>1, <1>2
<1>5. Allocated(Held(o)) <= volume /\ owner[o].spent <= credit /\ adjusted' \subseteq Adjustments
  <2>1. Allocated(Held(o)) \in Nat /\ owner[o].spent \in Nat
    BY <1>1, AllocatedIsSum
  <2> QED BY <1>1, <1>2, <2>1
<1> QED BY <1>2, <1>3, <1>4, <1>5, OwnerStep

\* Both credits are adjusted, above what is in use.
LEMMA AdjustCreditHolds ==
    ASSUME CreditInv, NEW k \in Adjustments, NEW o \in Owners, NEW volume \in Int, NEW units \in Int,
           AdjustCredit(k, o, volume, units)
    PROVE  CreditInv'
<1>1. /\ owner \in [Owners -> [volume : Nat, credit : Nat, spent : Nat]] /\ book \in [Owners -> Int]
      /\ adjusted \subseteq Adjustments /\ CreditTypeOK
  BY DEF CreditInv, CreditTypeOK
<1>2. /\ owner' = [owner EXCEPT ![o].volume = @ + volume, ![o].credit = @ + units]
      /\ book' = [book EXCEPT ![o] = @ + units]
      /\ UNCHANGED <<sub, ent, today, used, gift>> /\ adjusted' = adjusted \union {k}
      /\ owner[o].volume + volume \in Allocated(Held(o)) .. MaxCredit
      /\ owner[o].credit + units \in owner[o].spent .. MaxCredit
  BY DEF AdjustCredit
<1>3. PICK v : v = owner[o].volume + volume
  OBVIOUS
<1>4. PICK u : u = owner[o].credit + units
  OBVIOUS
<1>5. Allocated(Held(o)) \in Nat /\ owner[o].spent \in Nat /\ owner[o].volume \in Nat
      /\ owner[o].credit \in Nat
  BY <1>1, AllocatedIsSum
<1>6. v \in Nat /\ u \in Nat /\ Allocated(Held(o)) <= v /\ owner[o].spent <= u
  BY <1>2, <1>3, <1>4, <1>5, CreditAssumption
<1>7. owner' = [owner EXCEPT ![o] = [owner[o] EXCEPT !.volume = v, !.credit = u]]
  BY <1>1, <1>2, <1>3, <1>4
<1>8. book' = [book EXCEPT ![o] = @ + (u - owner[o].credit)]
  <2>1. units = u - owner[o].credit
    BY <1>4, <1>5
  <2> QED BY <1>2, <2>1
<1>9. adjusted' \subseteq Adjustments
  BY <1>1, <1>2
<1> QED BY <1>2, <1>6, <1>7, <1>8, <1>9, OwnerStep

\* A day that ends uses what was bought for it.
LEMMA DayEndsHolds ==
    ASSUME CreditInv, DayEnds PROVE CreditInv'
<1>1. CreditTypeOK /\ Horizon \in Nat
  BY CreditAssumption DEF CreditInv
<1>2. today < Horizon /\ today' = today + 1 /\ UNCHANGED <<owner, book, sub, ent, adjusted, gift>>
  BY DEF DayEnds
<1>3. today \in Days /\ today \in Nat /\ today' \in 0 .. Horizon
  BY <1>1, <1>2 DEF CreditTypeOK, Days
<1>4. \A c \in Subs : used'[c] = IF sub[c] # NoSub /\ sub[c].quota = 0 /\ sub[c].expires > today
                                 THEN used[c] + sub[c].ips ELSE used[c]
  BY DEF DayEnds
<1>5. used' \in [Subs -> Nat]
  <2>1. \A c \in Subs : used[c] \in Nat /\ sub[c].ips \in Nat
    BY <1>1 DEF CreditTypeOK
  <2>2. \A c \in Subs : used'[c] \in Nat
    BY <1>4, <2>1
  <2>3. used' = [c \in Subs |-> used'[c]]
    BY DEF DayEnds
  <2> QED BY <2>2, <2>3
<1>6. CreditTypeOK'
  BY <1>1, <1>2, <1>3, <1>5 DEF CreditTypeOK
<1>7. ASSUME NEW c \in Subs PROVE ClientHolds(c)'
  <2> DEFINE e == ent[c]
             s == sub[c]
  <2>1. /\ EntTyped(e) /\ e.cover \in [Days -> Nat] /\ e.seconds \in Nat
        /\ s.ips \in Nat /\ s.expires \in Nat /\ s.quota \in Nat
        /\ used[c] \in Nat /\ gift[c] \in Nat
    <3>1. EntTyped(e)
      BY <1>1 DEF CreditTypeOK, EntTyped
    <3> QED BY <1>1, <3>1, EntFields DEF CreditTypeOK
  <2>2. ClientHolds(c)
    BY DEF CreditInv
  <2>3. Left(e, today) \in Nat /\ Left(e, today + 1) \in Nat
    BY <1>3, <2>1, LeftType
  <2>4. Left(e, today + 1) <= Left(e, today)
    <3>1. CASE e.pending > 0 \/ e.legacy > 0
      <4>1. Left(e, today + 1) = Left(e, today)
        BY <3>1 DEF Left
      <4> QED BY <2>3, <4>1
    <3>2. CASE ~(e.pending > 0 \/ e.legacy > 0)
      <4>1. Left(e, today) = e.cover[today] + Left(e, today + 1)
        BY <1>3, <2>1, <3>2, AheadNextDay DEF Left
      <4>2. e.cover[today] \in Nat
        BY <1>3, <2>1
      <4> QED BY <2>3, <4>1, <4>2
    <3> QED BY <3>1, <3>2
  <2>5. used'[c] + Left(e, today + 1) <= used[c] + Left(e, today)
    <3>1. CASE s # NoSub /\ s.quota = 0 /\ s.expires > today
      <4>1. s.expires > 0
        BY <1>3, <2>1, <3>1
      <4>2. Bookings(s, e, today)
        BY <2>2, <3>1 DEF ClientHolds
      <4>3. e.pending = 0 /\ e.legacy = 0 /\ s.ips <= e.cover[today]
        BY <1>3, <3>1, <4>1, <4>2 DEF Bookings
      <4>4. Left(e, today) = e.cover[today] + Left(e, today + 1)
        BY <1>3, <2>1, <4>3, AheadNextDay DEF Left
      <4>5. used'[c] = used[c] + s.ips /\ e.cover[today] \in Nat
        BY <1>3, <1>4, <2>1, <3>1
      <4> QED BY <2>1, <2>3, <4>3, <4>4, <4>5
    <3>2. CASE ~(s # NoSub /\ s.quota = 0 /\ s.expires > today)
      <4>1. used'[c] = used[c]
        BY <1>4, <3>2
      <4> QED BY <2>1, <2>3, <2>4, <4>1
    <3> QED BY <3>1, <3>2
  <2>6. /\ e.seconds <= e.units * MonthDays
        /\ used[c] + Left(e, today) <= e.seconds + gift[c]
        /\ e.legacy > 0 => e.pending = 0 /\ gift[c] = 0
        /\ ~e.row => e = NoEnt /\ used[c] = 0 /\ gift[c] = 0
        /\ ~e.row => s = NoSub
        /\ s # NoSub => s.owner \in Owners /\ Bookings(s, e, today)
    BY <2>2 DEF ClientHolds, Backed
  <2>7. used'[c] + Left(e, today') <= e.seconds + gift[c]
    <3>1. used'[c] \in Nat
      BY <1>5
    <3> QED BY <1>2, <2>1, <2>3, <2>5, <2>6, <3>1
  <2>8. ~e.row => used'[c] = 0
    BY <1>4, <2>6
  <2>9. Bookings(s, e, today) => Bookings(s, e, today')
    BY <1>2, <1>3, DaysAreFinite DEF Bookings
  <2> HIDE DEF e, s
  <2>10. e' = e /\ s' = s /\ gift'[c] = gift[c]
    BY <1>2 DEF e, s
  <2>11. Backed(e, used'[c], gift[c], today')
    BY <2>6, <2>7, <2>8 DEF Backed
  <2>12. /\ Backed(e, used'[c], gift'[c], today')
         /\ ~e.row => s = NoSub
         /\ s # NoSub => s.owner \in Owners /\ Bookings(s, e, today')
    BY <2>6, <2>9, <2>10, <2>11
  <2>13. ent'[c] = e /\ sub'[c] = s
    BY <1>2 DEF e, s
  <2> QED BY <2>12, <2>13 DEF ClientHolds
<1>8. ASSUME NEW p \in Owners PROVE OwnerHolds(p)'
  <2>1. OwnerHolds(p)
    BY DEF CreditInv
  <2> QED BY <1>2, <2>1 DEF OwnerHolds
<1> QED BY <1>6, <1>7, <1>8 DEF CreditInv

\* The ledger opens with what migration found.
LEMMA CreditInvInit ==
    ASSUME NEW old \in {{}, Subs}, NEW n \in Grants, CreditInit(old, n) PROVE CreditInv
<1>1. /\ n \in Nat /\ Horizon \in Nat /\ IsFiniteSet(Subs) /\ IsFiniteSet(old) /\ MonthDays \in Nat
      /\ old \subseteq Subs
  BY CreditAssumption, FS_EmptySet
<1> DEFINE opening == IF Cardinality(old) < n THEN Cardinality(old) ELSE n
<1>2. opening \in Nat /\ opening <= n
  <2>1. Cardinality(old) \in Nat
    BY <1>1, FS_CardinalityType
  <2> QED BY <1>1, <2>1
<1>3. PICK o \in Owners :
        /\ owner = [p \in Owners |-> [volume |-> 0, credit |-> IF p = o THEN n ELSE 0,
                                      spent |-> IF p = o THEN opening ELSE 0]]
        /\ book = [p \in Owners |-> IF p = o THEN n - opening ELSE 0]
        /\ sub = [c \in Subs |-> IF c \in old THEN [NoSub EXCEPT !.owner = o, !.ips = 1]
                                 ELSE NoSub]
        /\ ent = [c \in Subs |-> IF c \in old
                     THEN [NoEnt EXCEPT !.row = TRUE, !.legacy = 1] ELSE NoEnt]
        /\ adjusted = {} /\ today = 0
        /\ used = [c \in Subs |-> 0] /\ gift = [c \in Subs |-> 0]
  BY DEF CreditInit
<1> HIDE DEF opening
<1>4. NoSub \in [owner : Owners \union {"none"}, quota : Nat, ips : Nat, expires : Nat]
      /\ NoSub.quota = 0 /\ NoSub.expires = 0
  BY DEF NoSub
<1>5. PICK s : s = [NoSub EXCEPT !.owner = o, !.ips = 1]
  OBVIOUS
<1>6. s \in [owner : Owners \union {"none"}, quota : Nat, ips : Nat, expires : Nat]
      /\ s.owner = o /\ s.quota = 0 /\ s.expires = 0
  BY <1>4, <1>5
<1>7. EntTyped(NoEnt) /\ NoEnt.legacy = 0 /\ NoEnt.pending = 0 /\ NoEnt.seconds = 0
      /\ NoEnt.units = 0 /\ NoEnt.row = FALSE /\ \A d \in Days : NoEnt.cover[d] = 0
  BY DEF EntTyped, NoEnt
<1>8. PICK e : e = [NoEnt EXCEPT !.row = TRUE, !.legacy = 1]
  OBVIOUS
<1>9. EntTyped(e) /\ e.row = TRUE /\ e.legacy = 1 /\ e.pending = 0 /\ e.seconds = 0 /\ e.units = 0
  BY <1>7, <1>8 DEF EntTyped
<1>10. /\ sub = [c \in Subs |-> IF c \in old THEN s ELSE NoSub]
       /\ ent = [c \in Subs |-> IF c \in old THEN e ELSE NoEnt]
  BY <1>3, <1>5, <1>8
<1>11. CreditTypeOK
  <2>1. owner \in [Owners -> [volume : Nat, credit : Nat, spent : Nat]] /\ book \in [Owners -> Int]
    BY <1>1, <1>2, <1>3
  <2>2. sub \in [Subs -> [owner : Owners \union {"none"}, quota : Nat, ips : Nat, expires : Nat]]
    BY <1>4, <1>6, <1>10
  <2>3. ent \in [Subs -> [row : BOOLEAN, cover : [Days -> Nat], seconds : Nat, units : Nat,
                          pending : Nat, pendingIps : Nat, legacy : Nat]]
    BY <1>7, <1>9, <1>10 DEF EntTyped
  <2>4. adjusted \subseteq Adjustments /\ today \in 0 .. Horizon
        /\ used \in [Subs -> Nat] /\ gift \in [Subs -> Nat]
    BY <1>1, <1>3
  <2> QED BY <2>1, <2>2, <2>3, <2>4 DEF CreditTypeOK
<1>12. ASSUME NEW c \in Subs PROVE ClientHolds(c)
  <2>1. used[c] = 0 /\ gift[c] = 0 /\ today = 0
    BY <1>3
  <2>2. CASE c \in old
    <3>1. sub[c] = s /\ ent[c] = e
      BY <1>10, <2>2
    <3>2. Left(e, 0) = 0
      BY <1>9 DEF Left
    <3>3. Backed(e, 0, 0, 0)
      BY <1>1, <1>9, <3>2 DEF Backed
    <3>4. Bookings(s, e, 0)
      BY <1>6 DEF Bookings
    <3> QED BY <1>6, <1>9, <2>1, <3>1, <3>3, <3>4 DEF ClientHolds
  <2>3. CASE c \notin old
    <3>1. sub[c] = NoSub /\ ent[c] = NoEnt
      BY <1>10, <2>3
    <3>2. Left(NoEnt, 0) = 0
      <4>1. \A d \in Days : Ahead(NoEnt.cover, 0)[d] = 0
        BY <1>7 DEF Ahead
      <4>2. Sum(Ahead(NoEnt.cover, 0), Days) = 0
        BY <4>1, DaysAreFinite, SumOfZeroes
      <4> QED BY <1>7, <4>2 DEF Left
    <3>3. Backed(NoEnt, 0, 0, 0)
      BY <1>1, <1>7, <3>2 DEF Backed
    <3> QED BY <2>1, <3>1, <3>3 DEF ClientHolds
  <2> QED BY <2>2, <2>3
<1>13. ASSUME NEW p \in Owners PROVE OwnerHolds(p)
  <2>1. owner[p].spent <= owner[p].credit /\ book[p] = owner[p].credit - owner[p].spent
        /\ owner[p].volume = 0
    BY <1>1, <1>2, <1>3
  <2>2. \A c \in Subs : QuotasOf(sub, p)[c] = 0
    BY <1>4, <1>6, <1>10 DEF QuotasOf, Share
  <2>3. Sum(QuotasOf(sub, p), Subs) = 0
    BY <1>1, <2>2, SumOfZeroes
  <2> QED BY <2>1, <2>3 DEF OwnerHolds
<1> QED BY <1>11, <1>12, <1>13 DEF CreditInv

\* Every step of the ledger keeps it in order.
LEMMA CreditInvNext ==
    ASSUME CreditInv, CreditNext \/ UNCHANGED creditVars PROVE CreditInv'
<1>1. /\ Volumes \union {0} \subseteq Nat /\ 0 .. MaxIps \subseteq Nat /\ 0 .. Horizon \subseteq Nat
      /\ 1 .. Horizon \subseteq Nat /\ Grants \subseteq Nat /\ {-1, 1} \subseteq Int
  BY CreditAssumption
<1>2. ASSUME NEW c \in Subs, NEW o \in Owners, NEW q \in Volumes \union {0}, NEW n \in 0 .. MaxIps,
             \/ \E e \in 1 .. Horizon : RegisterClient(c, o, q, n, e, 0)
             \/ \E d \in 0 .. Horizon : RegisterClient(c, o, q, n, 0, d)
      PROVE  CreditInv'
  <2>1. PICK e \in Nat, d \in Nat : RegisterClient(c, o, q, n, e, d)
    BY <1>1, <1>2
  <2> QED BY <1>1, <2>1, RegisterClientHolds
<1>3. ASSUME NEW c \in Subs, NEW q \in Volumes \union {0}, NEW n \in 0 .. MaxIps,
             NEW e \in 0 .. Horizon, EditClient(c, q, n, e)
      PROVE  CreditInv'
  BY <1>1, <1>3, EditClientHolds
<1>4. ASSUME NEW c \in Subs, DeleteClient(c) PROVE CreditInv'
  BY <1>4, DeleteClientHolds
<1>5. ASSUME NEW o \in Owners, NEW v \in Grants, NEW u \in Grants, RegisterOwner(o, v, u)
      PROVE  CreditInv'
  BY <1>1, <1>5, RegisterOwnerHolds
<1>6. ASSUME NEW k \in Adjustments, NEW o \in Owners, NEW v \in {-1, 1}, NEW u \in {-1, 1},
             AdjustCredit(k, o, v, u)
      PROVE  CreditInv'
  BY <1>1, <1>6, AdjustCreditHolds
<1>7. CASE DayEnds
  BY <1>7, DayEndsHolds
<1>8. CASE UNCHANGED creditVars
  <2>1. UNCHANGED <<owner, book, sub, ent, adjusted, today, used, gift>>
    BY <1>8 DEF creditVars
  <2> QED BY <2>1 DEF CreditInv, CreditTypeOK, ClientHolds, OwnerHolds
<1> QED BY <1>2, <1>3, <1>4, <1>5, <1>6, <1>7, <1>8 DEF CreditNext

-----------------------------------------------------------------------------
(* The shop *)

\* What holds of the part that a behaviour exercises.
ShopInv ==
    /\ part \in {"orders", "market", "wallet", "credit"}
    /\ part = "orders" => OrderInv
    /\ part = "market" => MarketInv
    /\ part = "wallet" => WalletInv
    /\ part = "credit" => CreditInv

\* The invariant implies what the runs check.
LEMMA ShopInvShows ==
    ShopInv => ShopTypeOK /\ MoneyIsConserved /\ OrdersAreServed /\ TimeIsPaid /\ PanelsAreHonest
<1> SUFFICES ASSUME ShopInv
             PROVE  ShopTypeOK /\ MoneyIsConserved /\ OrdersAreServed /\ TimeIsPaid /\ PanelsAreHonest
  OBVIOUS
<1>1. CASE part = "orders"
  <2>1. WalletTypeOK /\ BalanceIsLedger /\ OrdersTypeOK /\ OneServicePerPaidOrder /\ ServiceTimeIsPaid
    BY <1>1, OrderInvShows DEF ShopInv
  <2> QED BY <1>1, <2>1
          DEF ShopTypeOK, MoneyIsConserved, OrdersAreServed, TimeIsPaid, PanelsAreHonest, Money
<1>2. CASE part = "market"
  <2>1. /\ WalletTypeOK /\ BalanceIsLedger /\ MarketTypeOK
        /\ NoPaymentForNothing /\ SuspendedIsLockedOut
    BY <1>2, MarketInvShows DEF ShopInv
  <2> QED BY <1>2, <2>1
          DEF ShopTypeOK, MoneyIsConserved, OrdersAreServed, TimeIsPaid, PanelsAreHonest, Money
<1>3. CASE part = "wallet"
  <2>1. WalletTypeOK /\ BalanceIsLedger
    BY <1>3, WalletInvShows DEF ShopInv
  <2> QED BY <1>3, <2>1
          DEF ShopTypeOK, MoneyIsConserved, OrdersAreServed, TimeIsPaid, PanelsAreHonest, Money
<1>4. CASE part = "credit"
  <2>1. CreditTypeOK /\ CreditConserved /\ ServiceIsPaid
    BY <1>4, CreditInvShows DEF ShopInv
  <2> QED BY <1>4, <2>1
          DEF ShopTypeOK, MoneyIsConserved, OrdersAreServed, TimeIsPaid, PanelsAreHonest, Money
<1> QED BY <1>1, <1>2, <1>3, <1>4 DEF ShopInv

\* The shop opens in order.
LEMMA ShopInvInit == MCShopInit => ShopInv
<1> SUFFICES ASSUME MCShopInit PROVE ShopInv
  OBVIOUS
<1>1. part \in {"orders", "market", "wallet", "credit"} /\ OrdersInit /\ MarketInit
  BY DEF MCShopInit
<1>2. PICK referrals : referrals = IF part = "wallet" THEN NoReferral ELSE Invited
  OBVIOUS
<1>3. referrals \in SUBSET [Customers -> [by : Customers \union {Nobody}, qualified : BOOLEAN]]
  <2>1. NoReferral \subseteq [Customers -> [by : Customers \union {Nobody}, qualified : BOOLEAN]]
    BY DEF NoReferral
  <2>2. Invited \subseteq [Customers -> [by : Customers \union {Nobody}, qualified : BOOLEAN]]
    BY ShopAssumption DEF Invited
  <2> QED BY <1>2, <2>1, <2>2
<1>4. PICK funds \in Nat : funds = IF part = "orders" THEN 1 ELSE 2
  OBVIOUS
<1>5. WalletInit(funds, referrals)
  BY <1>2, <1>4 DEF MCShopInit
<1>6. WalletInv /\ \A kind, ref : HasEntry(wallet, kind, ref) => kind = "topup"
  BY <1>3, <1>5, WalletInvInit
<1>7. part = "orders" => OrderInv
  <2> SUFFICES ASSUME part = "orders" PROVE OrderInv
    OBVIOUS
  <2>1. WalletInit(1, Invited)
    BY <1>2, <1>4, <1>5
  <2> QED BY <1>1, <1>6, <2>1, OrderInvInit
<1>8. part = "market" => MarketInv
  BY <1>1, <1>6, MarketInvInit
<1>9. part = "credit" => CreditInv
  <2> SUFFICES ASSUME part = "credit" PROVE CreditInv
    OBVIOUS
  <2>1. PICK old \in {{}, Subs}, n \in Grants : CreditInit(old, n)
    BY DEF MCShopInit
  <2> QED BY <2>1, CreditInvInit
<1> QED BY <1>1, <1>6, <1>7, <1>8, <1>9 DEF ShopInv

\* A step that leaves the orders alone leaves them in order.
LEMMA OrdersUntouched ==
    ASSUME OrderInv, UNCHANGED shopVars PROVE OrderInv'
<1>1. UNCHANGED <<wallet, topups, referral, clerk, orders, service, job, shopFaults, backed>>
  BY DEF shopVars, walletVars, orderVars
<1>2. WalletInv'
  BY <1>1 DEF OrderInv, WalletInv, TopupsHold
<1> QED BY <1>1, <1>2
        DEF OrderInv, OrdersTypeOK, RowHolds, ServiceHolds, LinksHold, JobHolds, PaidFor,
            PaidRenewals

\* The same for the panels.
LEMMA MarketUntouched ==
    ASSUME MarketInv, UNCHANGED marketVars PROVE MarketInv'
<1>1. /\ UNCHANGED <<wallet, topups, referral, clerk, repOrders, panel, account, bot, asked, sessions>>
      /\ UNCHANGED <<pay, sweep, day, marketFaults, served, crashed, overlap>>
  BY DEF marketVars, walletVars, panelVars
<1>2. WalletInv'
  BY <1>1 DEF MarketInv, WalletInv, TopupsHold
<1> QED BY <1>1, <1>2
        DEF MarketInv, MarketTypes, MarketTypeOK, PayerHolds, MoneyHolds, OneByOne, PanelHolds,
            RepPaid, RepRefunded, BuyerOf

\* Every step keeps the shop in order.
LEMMA ShopInvNext == ShopInv /\ [MCShopNext]_mcShopVars => ShopInv'
<1> SUFFICES ASSUME ShopInv, [MCShopNext]_mcShopVars PROVE ShopInv'
  OBVIOUS
<1>1. part' = part /\ part \in {"orders", "market", "wallet", "credit"}
  BY DEF ShopInv, MCShopNext, mcShopVars
<1>2. CASE part = "orders"
  <2>1. OrderInv
    BY <1>2 DEF ShopInv
  <2>2. OrdersNext \/ UNCHANGED shopVars
    BY <1>2 DEF MCShopNext, mcShopVars
  <2>3. OrderInv'
    BY <2>1, <2>2, OrderInvNext, OrdersUntouched
  <2> QED BY <1>1, <1>2, <2>3 DEF ShopInv
<1>3. CASE part = "market"
  <2>1. MarketInv
    BY <1>3 DEF ShopInv
  <2>2. MarketNext \/ UNCHANGED marketVars
    BY <1>3 DEF MCShopNext, mcShopVars, shopVars, marketVars
  <2>3. MarketInv'
    BY <2>1, <2>2, MarketInvNext, MarketUntouched
  <2> QED BY <1>1, <1>3, <2>3 DEF ShopInv
<1>4. CASE part = "wallet"
  <2>1. WalletInv
    BY <1>4 DEF ShopInv
  <2>2. WalletNext \/ UNCHANGED walletVars
    BY <1>4 DEF MCShopNext, mcShopVars, shopVars
  <2>3. WalletInv'
    BY <2>1, <2>2, WalletInvNext, WalletUntouched
  <2> QED BY <1>1, <1>4, <2>3 DEF ShopInv
<1>5. CASE part = "credit"
  <2>1. CreditInv
    BY <1>5 DEF ShopInv
  <2>2. CreditNext \/ UNCHANGED creditVars
    BY <1>5 DEF MCShopNext, mcShopVars
  <2>3. CreditInv'
    BY <2>1, <2>2, CreditInvNext
  <2> QED BY <1>1, <1>5, <2>3 DEF ShopInv
<1> QED BY <1>1, <1>2, <1>3, <1>4, <1>5

\* In every reachable state.
THEOREM ShopInvariant == MCShopSpec => []ShopInv
<1>1. MCShopInit => ShopInv
  BY ShopInvInit
<1>2. ShopInv /\ [MCShopNext]_mcShopVars => ShopInv'
  BY ShopInvNext
<1> QED BY <1>1, <1>2, PTL DEF MCShopSpec

\* The state of the shop keeps its types (customer_wallets, commerce_orders,
\* representative_panel_orders, unlimited_entitlements and their ledgers).
THEOREM ShopTypes == MCShopSpec => []ShopTypeOK
BY ShopInvariant, ShopInvShows, PTL

\* No balance is overdrawn, every wallet is the sum of its ledger whatever is retried or
\* repeated, and what representatives spend and allocate stays within their credit.
THEOREM ShopConservesMoney == MCShopSpec => []MoneyIsConserved
BY ShopInvariant, ShopInvShows, PTL

\* provision_order: one service per order, and only for an order that was debited or let
\* through, whatever crashes and however many handlers provision at once.
THEOREM ShopServesOrders == MCShopSpec => []OrdersAreServed
BY ShopInvariant, ShopInvShows, PTL

\* Neither retried renewals nor any sequence of extensions, upgrades and plan changes
\* yields time that was not paid for.
THEOREM ShopSellsTime == MCShopSpec => []TimeIsPaid
BY ShopInvariant, ShopInvShows, PTL

\* A panel that was paid for is opened or refunded, and a suspended one stays closed to
\* its buyer, except after two payments of one buyer at the same time.
THEOREM ShopPanelsAreHonest == MCShopSpec => []PanelsAreHonest
BY ShopInvariant, ShopInvShows, PTL

\* The end of a service that waited for its first connection is stamped once.
THEOREM ShopStampsOnce == MCShopSpec => ActivationIsFixed
<1> DEFINE StampsStay == \A o \in Orders : orders[o].stamp > 0 => orders'[o].stamp = orders[o].stamp
<1>1. ShopInv /\ [MCShopNext]_mcShopVars => [StampsStay]_shopVars
  <2> SUFFICES ASSUME ShopInv, [MCShopNext]_mcShopVars PROVE [StampsStay]_shopVars
    OBVIOUS
  <2>1. CASE part = "orders" /\ OrdersNext
    <3>1. OrderInv
      BY <2>1 DEF ShopInv
    <3> QED BY <2>1, <3>1, StampIsKept
  <2>2. CASE orders' = orders
    BY <2>2
  <2> QED BY <2>1, <2>2 DEF MCShopNext, mcShopVars, shopVars, orderVars
<1>2. MCShopSpec => [][StampsStay]_shopVars
  BY <1>1, ShopInvariant, PTL DEF MCShopSpec
<1> QED BY <1>2 DEF ActivationIsFixed

=============================================================================
