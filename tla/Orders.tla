------------------------------- MODULE Orders -------------------------------
(***************************************************************************)
(* Service orders of a shop: telegram_commerce.py and the purchase,        *)
(* renewal and referral calls of telegram_customer.py.  Every      *)
(* handler may run on its own thread (bot worker, Mini App and panel       *)
(* requests, supervisor); a step is a transaction or a call of the client  *)
(* manager, which is made under manager.lock.                              *)
(***************************************************************************)
EXTENDS CustomerWallet

CONSTANTS
    Orders,         \* 1..n, in the order of their creation
    Purchases,      \* those that are purchases, the others are renewals
    Handlers,       \* threads
    Price,          \* what an order costs
    Ends,           \* where the first period may end: 1, later after a wait
    SaleLimit,      \* orders per buyer, 0 for no limit
    MaxEnd,         \* bound on the end of a service
    ShopFaults      \* crashes and failed manager calls

ASSUME OrdersAssumption ==
    /\ Orders \subseteq Nat \ {0} /\ IsFiniteSet(Orders) /\ Purchases \subseteq Orders
    /\ Ends \subseteq Nat \ {0} /\ IsFiniteSet(Ends) /\ 1 \in Ends
    /\ Price \in Nat /\ SaleLimit \in Nat /\ MaxEnd \in Nat /\ ShopFaults \in Nat

VARIABLES
    orders,     \* commerce_orders; gate says how it was last paid for
    service,    \* the managed client of an order: times created, expiry
    job,        \* what each handler is about to do
    shopFaults, \* faults so far
    backed      \* history: orders a person or a gateway let through

orderVars == <<orders, service, job, shopFaults, backed>>
shopVars == <<walletVars, orderVars>>

Idle == [pc |-> "idle", o |-> 0, refer |-> FALSE]
NoOrder == [st |-> "none", type |-> "purchase", buyer |-> Nobody, gate |-> "none",
            wait |-> FALSE, client |-> 0, stamp |-> 0, target |-> 0, end |-> 0]

\* Provisioning, activation and renewals run under manager.lock.
Locked == {"mark", "activate", "activated", "renew", "reset", "renewed"}
LockFree == \A t \in Handlers : job[t].pc \notin Locked

Go(t, pc, o, refer) == job' = [job EXCEPT ![t] = [pc |-> pc, o |-> o, refer |-> refer]]
Done(t) == job' = [job EXCEPT ![t] = Idle]
Status(o, st) == orders' = [orders EXCEPT ![o].st = st]
Fault == shopFaults < ShopFaults /\ shopFaults' = shopFaults + 1

OrdersInit ==
    /\ orders = [o \in Orders |-> NoOrder]
    /\ service = [o \in Orders |-> [made |-> 0, end |-> 0]]
    /\ job = [t \in Handlers |-> Idle]
    /\ shopFaults = 0
    /\ backed = {}

---------------------------------------------------------------------------
(* Orders and payments through a gateway *)

Sold(b) == {o \in Orders : orders[o].buyer = b
                /\ orders[o].st \notin {"none", "payment_rejected", "cancelled"}}

Fresh(o) == orders[o].st = "none" /\ \A p \in Orders : p < o => orders[p].st # "none"

CreateOrder(o, b, wait) ==
    /\ Fresh(o) /\ o \in Purchases
    /\ SaleLimit = 0 \/ Cardinality(Sold(b)) < SaleLimit
    /\ orders' = [orders EXCEPT ![o] =
           [NoOrder EXCEPT !.st = "pending", !.buyer = b, !.wait = wait]]
    /\ UNCHANGED <<walletVars, service, job, shopFaults, backed>>

StartPayment(o) ==
    /\ orders[o].st \in {"pending", "awaiting_payment", "payment_rejected"}
    /\ orders' = [orders EXCEPT ![o].st = "awaiting_payment", ![o].gate = "gateway"]
    /\ UNCHANGED <<walletVars, service, job, shopFaults, backed>>

\* record_receipt picks the order first and marks it in a later transaction.
ReceiptRead(t, b) ==
    LET waiting == {o \in Orders : orders[o].buyer = b /\ orders[o].st = "awaiting_payment"}
    IN /\ job[t] = Idle /\ waiting # {}
       /\ Go(t, "receipt", Latest(waiting), FALSE)
       /\ UNCHANGED <<walletVars, orders, service, shopFaults, backed>>

ReceiptWrite(t) ==
    /\ job[t].pc = "receipt"
    /\ Status(job[t].o, "payment_review")
    /\ Done(t)
    /\ UNCHANGED <<walletVars, service, shopFaults, backed>>

\* reject_payment needs a payment and does not look at the state of the order.
RejectPayment(o) ==
    /\ orders[o].gate # "none"
    /\ Status(o, "payment_rejected")
    /\ UNCHANGED <<walletVars, service, job, shopFaults, backed>>

\* The failed and expired events of crypto_webhook.
WebhookFailed(o, terminal) ==
    /\ orders[o].gate = "gateway"
    /\ orders[o].st \in {"pending", "awaiting_payment", "payment_review"}
    /\ Status(o, terminal)
    /\ UNCHANGED <<walletVars, service, job, shopFaults, backed>>

\* confirm_payment, approve_payment and the paid event: read, mark, provision.
ConfirmRead(t, o) ==
    /\ job[t] = Idle
    /\ orders[o].st \in {"awaiting_payment", "payment_review", "paid"}
    /\ Go(t, "confirm", o, FALSE)
    /\ UNCHANGED <<walletVars, orders, service, shopFaults, backed>>

ConfirmWrite(t) ==
    LET o == job[t].o
    IN /\ job[t].pc = "confirm"
       /\ Status(o, "paid")
       /\ backed' = backed \union {o}
       /\ Go(t, "provision", o, FALSE)
       /\ UNCHANGED <<walletVars, service, shopFaults>>

\* The panel's provision endpoint has no condition on the order.
ProvisionRequest(t, o) ==
    /\ job[t] = Idle /\ orders[o].st # "none"
    /\ backed' = backed \union {o}
    /\ Go(t, "provision", o, FALSE)
    /\ UNCHANGED <<walletVars, orders, service, shopFaults>>

---------------------------------------------------------------------------
(* Payment from the wallet *)

PurchaseRead(t, o) ==
    /\ job[t] = Idle /\ orders[o].st # "none" /\ orders[o].type = "purchase"
    /\ LET ready == orders[o].st \in {"provisioned", "provisioned_waiting_activation"}
       IN Go(t, IF ready THEN "provision" ELSE "debit", o, TRUE)
    /\ UNCHANGED <<walletVars, orders, service, shopFaults, backed>>

\* The one transaction of a wallet payment: debit, payment row, status.
WalletPays(o, kind) ==
    /\ CanDebit(wallet, orders[o].buyer, Price, kind, o)
    /\ wallet' = Debited(wallet, orders[o].buyer, Price, kind, o)
    /\ orders' = [orders EXCEPT ![o].st = "paid", ![o].gate = "wallet"]
    /\ UNCHANGED <<topups, referral, clerk>>

PurchaseDebit(t) ==
    LET o == job[t].o
        payable == /\ orders[o].st \in {"pending", "awaiting_payment",
                                        "payment_rejected", "paid"}
                   /\ CanDebit(wallet, orders[o].buyer, Price, "purchase", o)
    IN /\ job[t].pc = "debit"
       /\ IF payable THEN WalletPays(o, "purchase") /\ Go(t, "provision", o, TRUE)
                     ELSE Done(t) /\ UNCHANGED <<walletVars, orders>>
       /\ UNCHANGED <<service, shopFaults, backed>>

---------------------------------------------------------------------------
(* Provisioning, under manager.lock *)

\* Time is counted in periods from the creation; there is no end before the first
\* connection of a service that waits for it.
Made(o) ==
    service' = [service EXCEPT ![o] =
        [made |-> @.made + 1, end |-> IF orders[o].wait THEN 0 ELSE 1]]

\* Faulty variant: a client left by an interrupted call is not recognised.
BlindProvisionCall(t) ==
    LET o == job[t].o
    IN /\ job[t].pc = "provision" /\ LockFree /\ orders[o].client = 0
       /\ Made(o)
       /\ Go(t, "mark", o, job[t].refer)
       /\ UNCHANGED <<walletVars, orders, shopFaults, backed>>

\* A repeated call finds the client of the order by its identity.
ProvisionCall(t) ==
    LET o == job[t].o
    IN /\ job[t].pc = "provision" /\ LockFree
       /\ \/ /\ orders[o].client # 0
             /\ IF job[t].refer THEN Go(t, "qualify", o, TRUE) ELSE Done(t)
             /\ UNCHANGED <<service, shopFaults>>
          \/ /\ orders[o].client = 0
             /\ IF service[o].made > 0 THEN UNCHANGED service ELSE Made(o)
             /\ Go(t, "mark", o, job[t].refer)
             /\ UNCHANGED shopFaults
          \/ /\ orders[o].client = 0 /\ Fault /\ Done(t)
             /\ UNCHANGED service
       /\ UNCHANGED <<walletVars, orders, backed>>

ProvisionMark(t) ==
    LET o == job[t].o
    IN /\ job[t].pc = "mark"
       /\ orders' = [orders EXCEPT ![o] =
              [@ EXCEPT !.st = IF orders[o].wait THEN "provisioned_waiting_activation"
                               ELSE "provisioned", !.client = o]]
       /\ IF job[t].refer THEN Go(t, "qualify", o, TRUE) ELSE Done(t)
       /\ UNCHANGED <<walletVars, service, shopFaults, backed>>

\* Faulty variant: a second attempt computes the end of the service anew.
RestampingActivate(t, o) ==
    /\ job[t] = Idle /\ LockFree
    /\ orders[o].st = "provisioned_waiting_activation" /\ orders[o].client # 0
    /\ \E e \in Ends : orders' = [orders EXCEPT ![o].stamp = e]
    /\ Go(t, "activate", o, FALSE)
    /\ UNCHANGED <<walletVars, service, shopFaults, backed>>

\* activate_first_connections, one order: stamp once, give the client its
\* expiry, and close the wait if the order still waits.
ActivateStamp(t, o) ==
    /\ job[t] = Idle /\ LockFree
    /\ orders[o].st = "provisioned_waiting_activation" /\ orders[o].client # 0
    /\ \E e \in Ends :
          orders' = [orders EXCEPT ![o].stamp = IF @ = 0 THEN e ELSE @]
    /\ Go(t, "activate", o, FALSE)
    /\ UNCHANGED <<walletVars, service, shopFaults, backed>>

ActivateUpdate(t) ==
    LET o == job[t].o
    IN /\ job[t].pc = "activate"
       /\ \/ /\ service' = [service EXCEPT ![orders[o].client].end = orders[o].stamp]
             /\ Go(t, "activated", o, FALSE) /\ UNCHANGED shopFaults
          \/ Fault /\ Done(t) /\ UNCHANGED service
       /\ UNCHANGED <<walletVars, orders, backed>>

ActivateMark(t) ==
    LET o == job[t].o
    IN /\ job[t].pc = "activated"
       /\ IF orders[o].st = "provisioned_waiting_activation"
          THEN Status(o, "provisioned") ELSE UNCHANGED orders
       /\ Done(t)
       /\ UNCHANGED <<walletVars, service, shopFaults, backed>>

---------------------------------------------------------------------------
(* Renewals *)

Waiting(s) == \E o \in Orders : orders[o].client = s
                  /\ orders[o].st = "provisioned_waiting_activation"

\* The new end of the service is computed when the renewal is ordered.
CreateRenewal(o, s) ==
    /\ Fresh(o) /\ o \notin Purchases
    /\ \E p \in Orders : orders[p].client = s /\ orders[p].st = "provisioned"
    /\ ~Waiting(s)
    /\ service[s].end < MaxEnd
    /\ orders' = [orders EXCEPT ![o] =
           [NoOrder EXCEPT !.st = "pending", !.type = "renewal", !.buyer = orders[s].buyer,
                           !.target = s, !.end = service[s].end + 1]]
    /\ UNCHANGED <<walletVars, service, job, shopFaults, backed>>

RenewalPay(t, o) ==
    /\ job[t] = Idle /\ LockFree /\ orders[o].type = "renewal"
    /\ orders[o].st \in {"pending", "paid"}
    /\ WalletPays(o, "renewal")
    /\ Go(t, "renew", o, FALSE)
    /\ UNCHANGED <<service, shopFaults, backed>>

\* Faulty variant: the end is computed from what the service has at that time.
RollingRenewalUpdate(t) ==
    LET o == job[t].o
        s == orders[o].target
    IN /\ job[t].pc = "renew" /\ ~Waiting(s) /\ service[s].end < MaxEnd + 2
       /\ service' = [service EXCEPT ![s].end = @ + 1]
       /\ Go(t, "reset", o, FALSE)
       /\ UNCHANGED <<walletVars, orders, shopFaults, backed>>

RenewalUpdate(t) ==
    LET o == job[t].o
        s == orders[o].target
    IN /\ job[t].pc = "renew"
       /\ \/ /\ ~Waiting(s)
             /\ service' = [service EXCEPT ![s].end = orders[o].end]
             /\ Go(t, "reset", o, FALSE) /\ UNCHANGED shopFaults
          \/ Waiting(s) /\ Done(t) /\ UNCHANGED <<service, shopFaults>>
          \/ Fault /\ Done(t) /\ UNCHANGED service
       /\ UNCHANGED <<walletVars, orders, backed>>

RenewalReset(t) ==
    /\ job[t].pc = "reset"
    /\ \/ Go(t, "renewed", job[t].o, FALSE) /\ UNCHANGED shopFaults
       \/ Fault /\ Done(t)
    /\ UNCHANGED <<walletVars, orders, service, backed>>

RenewalMark(t) ==
    LET o == job[t].o
    IN /\ job[t].pc = "renewed"
       /\ orders' = [orders EXCEPT ![o].st = "renewed", ![o].client = orders[o].target]
       /\ Done(t)
       /\ UNCHANGED <<walletVars, service, shopFaults, backed>>

QualifyReferral(t) ==
    /\ job[t].pc = "qualify"
    /\ Qualify(orders[job[t].o].buyer)
    /\ Done(t)
    /\ UNCHANGED <<topups, clerk, orders, service, shopFaults, backed>>

\* The Hub restarts: the handlers are gone, the tables stay.
ShopCrash ==
    /\ Fault /\ \E t \in Handlers : job[t] # Idle
    /\ job' = [t \in Handlers |-> Idle]
    /\ UNCHANGED <<walletVars, orders, service, backed>>

OrdersNext ==
    \/ \E o \in Orders, b \in Buyers, w \in BOOLEAN : CreateOrder(o, b, w)
    \/ \E o \in Orders : StartPayment(o)
    \/ \E o \in Orders : RejectPayment(o)
    \/ \E o \in Orders, st \in {"payment_rejected", "cancelled"} : WebhookFailed(o, st)
    \/ \E o, s \in Orders : CreateRenewal(o, s)
    \/ \E t \in Handlers, b \in Buyers : ReceiptRead(t, b)
    \/ \E t \in Handlers, o \in Orders :
          \/ ConfirmRead(t, o) \/ ProvisionRequest(t, o) \/ PurchaseRead(t, o)
          \/ ActivateStamp(t, o) \/ RenewalPay(t, o)
    \/ \E t \in Handlers :
          \/ ReceiptWrite(t) \/ ConfirmWrite(t) \/ PurchaseDebit(t)
          \/ ProvisionCall(t) \/ ProvisionMark(t) \/ ActivateUpdate(t) \/ ActivateMark(t)
          \/ RenewalUpdate(t) \/ RenewalReset(t) \/ RenewalMark(t) \/ QualifyReferral(t)
    \/ ShopCrash

OrdersSpec ==
    /\ WalletInit(1, NoReferral) /\ OrdersInit
    /\ [][OrdersNext \/ (WalletNext /\ UNCHANGED orderVars)]_shopVars

---------------------------------------------------------------------------
Statuses == {"none", "pending", "awaiting_payment", "payment_review", "payment_rejected",
             "paid", "provisioned", "provisioned_waiting_activation", "renewed", "cancelled"}

OrdersTypeOK ==
    /\ orders \in [Orders ->
           [st : Statuses, type : {"purchase", "renewal"}, buyer : Customers \union {Nobody},
            gate : {"none", "gateway", "wallet"}, wait : BOOLEAN,
            client : Orders \union {0}, stamp : Nat, target : Orders \union {0}, end : Nat]]
    /\ service \in [Orders -> [made : Nat, end : Nat]]
    /\ job \in [Handlers ->
           [pc : {"idle", "receipt", "confirm", "debit", "provision", "qualify"} \union Locked,
            o : Orders \union {0}, refer : BOOLEAN]]
    /\ shopFaults \in 0..ShopFaults
    /\ backed \subseteq Orders

\* A service is created once per order, whatever crashes between the creation and
\* the mark on the order and however many calls provision it at once, and only for
\* an order that was debited from its buyer's wallet or that a gateway, a reviewer
\* or the panel let through (provision_order does not look at the order's status).
OneServicePerPaidOrder ==
    \A o \in Orders :
        /\ service[o].made <= 1
        /\ service[o].made > 0 => o \in backed \/ HasEntry(wallet, "purchase", o)

\* However often the payment of a renewal is retried after a failed step, a service
\* never runs longer than its first period and one period per renewal paid for.
ServiceTimeIsPaid ==
    \A s \in Orders :
        LET paid == {o \in Orders : orders[o].target = s /\ HasEntry(wallet, "renewal", o)}
        IN service[s].end <= Max(Ends) + Cardinality(paid)

\* The end of a service that waits for its first connection is stamped once: a
\* failed or repeated activation does not move it.
ActivationIsFixed ==
    [][\A o \in Orders : orders[o].stamp > 0
           => orders'[o].stamp = orders[o].stamp]_shopVars
=============================================================================
