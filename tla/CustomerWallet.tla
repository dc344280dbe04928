--------------------------- MODULE CustomerWallet ---------------------------
(***************************************************************************)
(* The wallets of Telegram customers (telegram_customer.py): a balance and *)
(* a ledger, written together in the transaction of the caller.  Orders,   *)
(* RepMarket and their composition share this variable.                    *)
(***************************************************************************)
EXTENDS Integers, FiniteSets, FiniteSetsExt

CONSTANTS
    Customers,      \* the customers of one shop
    Buyers,         \* those who order
    Clerks,         \* threads that handle top-ups
    Topups,         \* 1..n, in the order of their creation
    TopupAmount,    \* what a top-up brings
    Reward          \* what a referral brings, 0 turns it off

ASSUME WalletAssumption ==
    /\ IsFiniteSet(Customers) /\ Buyers \subseteq Customers
    /\ Topups \subseteq Nat \ {0} /\ IsFiniteSet(Topups)
    /\ TopupAmount \in Nat \ {0} /\ Reward \in Nat

VARIABLES
    wallet,     \* [bal, led]: customer_wallets and customer_wallet_ledger
    topups,     \* customer_topups: owner and status
    referral,   \* customer_referrals: referrer, qualified
    clerk       \* the top-up each clerk has read and is about to write

walletVars == <<wallet, topups, referral, clerk>>

Nobody == "nobody"
Latest(S) == CHOOSE x \in S : \A y \in S : y <= x

\* Every buyer may already hold funds, from a top-up approved earlier.
WalletInit(funds, referrals) ==
    /\ wallet = [bal |-> [c \in Customers |-> IF c \in Buyers THEN funds ELSE 0],
                 led |-> {[kind |-> "topup", ref |-> c, who |-> c, delta |-> funds] :
                             c \in Buyers}]
    /\ topups = [k \in Topups |-> [who |-> Nobody, st |-> "none"]]
    /\ referral \in referrals
    /\ clerk = [t \in Clerks |-> [pc |-> "idle", k |-> 0]]

NoReferral == {[c \in Customers |-> [by |-> Nobody, qualified |-> FALSE]]}

HasEntry(w, kind, ref) == \E e \in w.led : e.kind = kind /\ e.ref = ref

\* Faulty variant: the reference is not looked up, a repeated call pays again.
MovedTwice(w, c, delta, kind, ref) ==
    [bal |-> [w.bal EXCEPT ![c] = @ + delta],
     led |-> w.led \union
             {[kind |-> kind, ref |-> ref, who |-> c, delta |-> delta]}]

\* What a credit or a debit leaves behind: a known reference changes nothing.
Moved(w, c, delta, kind, ref) ==
    IF HasEntry(w, kind, ref) THEN w
    ELSE [bal |-> [w.bal EXCEPT ![c] = @ + delta],
          led |-> w.led \union
                  {[kind |-> kind, ref |-> ref, who |-> c, delta |-> delta]}]

Credited(w, c, n, kind, ref) == Moved(w, c, n, kind, ref)

\* Faulty variant: the balance is not compared with the price.
CanOverdraw(w, c, n, kind, ref) == TRUE

CanDebit(w, c, n, kind, ref) == HasEntry(w, kind, ref) \/ w.bal[c] >= n

Debited(w, c, n, kind, ref) == Moved(w, c, -n, kind, ref)

---------------------------------------------------------------------------
(* Top-ups and referrals *)

CreateTopup(k, c) ==
    /\ topups[k].st = "none" /\ \A j \in Topups : j < k => topups[j].st # "none"
    /\ topups' = [topups EXCEPT ![k] = [who |-> c, st |-> "awaiting_receipt"]]
    /\ UNCHANGED <<wallet, referral, clerk>>

\* record_topup_receipt takes the latest top-up that waits.
TopupReceiptRead(t, c) ==
    LET waiting == {k \in Topups : topups[k] = [who |-> c, st |-> "awaiting_receipt"]}
    IN /\ clerk[t].pc = "idle" /\ waiting # {}
       /\ clerk' = [clerk EXCEPT ![t] = [pc |-> "review", k |-> Latest(waiting)]]
       /\ UNCHANGED <<wallet, topups, referral>>

RejectTopupRead(t, k) ==
    /\ clerk[t].pc = "idle" /\ topups[k].st \in {"review", "awaiting_receipt"}
    /\ clerk' = [clerk EXCEPT ![t] = [pc |-> "rejected", k |-> k]]
    /\ UNCHANGED <<wallet, topups, referral>>

\* Both writes are unconditional: the status they act on was read before.
TopupWrite(t) ==
    /\ clerk[t].pc # "idle"
    /\ topups' = [topups EXCEPT ![clerk[t].k].st = clerk[t].pc]
    /\ clerk' = [clerk EXCEPT ![t] = [pc |-> "idle", k |-> 0]]
    /\ UNCHANGED <<wallet, referral>>

ApproveTopup(k) ==
    /\ topups[k].st = "review"
    /\ wallet' = Credited(wallet, topups[k].who, TopupAmount, "topup", k)
    /\ topups' = [topups EXCEPT ![k].st = "approved"]
    /\ UNCHANGED <<referral, clerk>>

RegisterReferral(c, by) ==
    /\ c # by /\ referral[c].by = Nobody
    /\ referral' = [referral EXCEPT ![c].by = by]
    /\ UNCHANGED <<wallet, topups, clerk>>

\* qualify_referral, a step of the handlers of Orders.
Qualify(c) ==
    IF referral[c].by # Nobody /\ ~referral[c].qualified
    THEN /\ wallet' = IF Reward > 0
             THEN Credited(wallet, referral[c].by, Reward, "referral", c) ELSE wallet
         /\ referral' = [referral EXCEPT ![c].qualified = TRUE]
    ELSE UNCHANGED <<wallet, referral>>

WalletNext ==
    \/ \E k \in Topups, c \in Customers : CreateTopup(k, c)
    \/ \E t \in Clerks, c \in Customers : TopupReceiptRead(t, c)
    \/ \E t \in Clerks, k \in Topups : RejectTopupRead(t, k)
    \/ \E t \in Clerks : TopupWrite(t)
    \/ \E k \in Topups : ApproveTopup(k)
    \/ \E c, by \in Customers : RegisterReferral(c, by)

---------------------------------------------------------------------------
WalletTypeOK ==
    /\ wallet.bal \in [Customers -> Nat]
    /\ \A e \in wallet.led : e.who \in Customers /\ e.delta \in Int
    /\ topups \in [Topups -> [who : Customers \union {Nobody},
           st : {"none", "awaiting_receipt", "review", "rejected", "approved"}]]
    /\ referral \in [Customers -> [by : Customers \union {Nobody}, qualified : BOOLEAN]]
    /\ clerk \in [Clerks -> [pc : {"idle", "review", "rejected"}, k : Topups \union {0}]]

\* The balance of every customer is the sum of the ledger and never negative,
\* and no reference is booked twice: retried payments, repeated approvals and
\* repeated refunds (_credit_tx, _debit_tx) move money once.
BalanceIsLedger ==
    \A c \in Customers :
        LET mine == {e \in wallet.led : e.who = c}
        IN /\ wallet.bal[c] >= 0
           /\ wallet.bal[c] = MapThenSumSet(LAMBDA e : e.delta, mine)
           /\ \A e, f \in wallet.led :
                  e.kind = f.kind /\ e.ref = f.ref => e = f
=============================================================================
