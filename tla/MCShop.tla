-------------------------------- MODULE MCShop --------------------------------
(***************************************************************************)
(* The money of the Hub, for TLC: service orders, representative panels,   *)
(* top-ups and resource credit.  The first three share the wallet module;  *)
(* a behaviour exercises one part, chosen in the initial state, so that    *)
(* every part has two concurrent handlers within reach.                    *)
(***************************************************************************)
EXTENDS Orders, RepMarket, CreditLedger, TLC

CONSTANTS alice, bob, t1, t2      \* two customers, two handlers
ASSUME ShopAssumption == alice \in Customers

VARIABLE part               \* the part this behaviour exercises

mcShopVars == <<shopVars, panelVars, creditVars, part>>
Twins == Permutations({t1, t2})

\* bob was invited by alice, except where the referral itself is exercised.
Invited == {[c \in Customers |-> [by |-> IF c = bob THEN alice ELSE Nobody, qualified |-> FALSE]]}

MCShopInit ==
    /\ part \in {"orders", "market", "wallet", "credit"}
    /\ WalletInit(IF part = "orders" THEN 1 ELSE 2, IF part = "wallet" THEN NoReferral ELSE Invited)
    /\ OrdersInit /\ MarketInit
    /\ IF part = "credit" THEN \E old \in {{}, Subs}, n \in Grants : CreditInit(old, n)
                          ELSE CreditInit({}, 0)

MCShopNext ==
    /\ UNCHANGED part
    /\ \/ part = "orders" /\ OrdersNext /\ UNCHANGED <<panelVars, creditVars>>
       \/ part = "market" /\ MarketNext /\ UNCHANGED <<orderVars, creditVars>>
       \/ part = "wallet" /\ WalletNext /\ UNCHANGED <<orderVars, panelVars, creditVars>>
       \/ part = "credit" /\ CreditNext /\ UNCHANGED <<shopVars, panelVars>>

MCShopSpec == MCShopInit /\ [][MCShopNext]_mcShopVars

------------------------------------------------------------------------------
\* A part that is not exercised keeps its initial state: its invariants are checked where
\* it runs.
Money == part \in {"orders", "market", "wallet"}

\* The variables of every part keep their types; no balance is overdrawn.
ShopTypeOK ==
    /\ Money => WalletTypeOK
    /\ part = "orders" => OrdersTypeOK
    /\ part = "market" => MarketTypeOK
    /\ part = "credit" => CreditTypeOK

\* No money and no credit comes from nowhere or is lost: every balance is what its
\* ledger of movements adds up to.
MoneyIsConserved == IF Money THEN BalanceIsLedger ELSE part = "credit" => CreditConserved

\* Orders: a paid order yields one service, and a service is backed by a payment.
OrdersAreServed == part = "orders" => OneServicePerPaidOrder

\* No service lasts longer than what was paid for it, by orders or by resource credit.
TimeIsPaid ==
    /\ part = "orders" => ServiceTimeIsPaid
    /\ part = "credit" => ServiceIsPaid

\* RepMarket: a panel that was paid for is opened or refunded, and a suspended one stays
\* closed to its buyer.
PanelsAreHonest == part = "market" => NoPaymentForNothing /\ SuspendedIsLockedOut
===============================================================================
