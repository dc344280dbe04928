------------------------------ MODULE RepMarket ------------------------------
(***************************************************************************)
(* The shop's representative panels (representative_marketplace.py): a     *)
(* customer buys or renews a panel with the wallet; the sweep closes       *)
(* expired panels.  Payments of one order may run at the same time on the  *)
(* bot's worker and on Mini App requests; nothing serialises them.         *)
(***************************************************************************)
EXTENDS CustomerWallet

CONSTANTS
    RepOrders,      \* 1..n, in the order of their creation
    RepRenewals,    \* those that are renewals
    Payers,         \* threads that pay
    PanelPrice,
    MaxDay,         \* bound of the clock
    MaxPanelEnd,    \* bound of renewed panels
    MarketFaults    \* failed provisioning steps and crashes

ASSUME MarketAssumption ==
    /\ RepOrders \subseteq Nat \ {0} /\ IsFiniteSet(RepOrders)
    /\ RepRenewals \subseteq RepOrders
    /\ PanelPrice \in Nat \ {0} /\ MaxDay \in Nat /\ MaxPanelEnd \in Nat
    /\ MarketFaults \in Nat

VARIABLES
    repOrders,  \* representative_market_orders
    panel,      \* [sub, end, was] of representative_subscriptions, by buyer
    account,    \* api_admins: none, enabled or disabled
    bot,        \* telegram_bots.enabled of the panel
    asked,      \* panels whose request to enable the bot has been checked
    sessions,   \* live sessions of the panel's account
    pay,        \* what each payer is about to do
    sweep,      \* expired subscriptions the sweep has read
    day,        \* clock, in plan periods
    marketFaults,
    served,     \* history: how often an order was provisioned
    crashed,    \* history: a payer died
    overlap     \* history: two payments of one buyer ran at once

panelVars == <<repOrders, panel, account, bot, asked, sessions, pay, sweep, day,
               marketFaults, served, crashed, overlap>>
marketVars == <<walletVars, panelVars>>

AtRest == [pc |-> "idle", o |-> 0, end |-> 0]
NoPanel == [sub |-> "none", end |-> 0, was |-> FALSE]

MarketInit ==
    /\ repOrders = [o \in RepOrders |-> [st |-> "none", buyer |-> Nobody]]
    /\ panel = [b \in Buyers |-> NoPanel]
    /\ account = [b \in Buyers |-> "none"]
    /\ bot = [b \in Buyers |-> FALSE]
    /\ sessions = [b \in Buyers |-> FALSE]
    /\ pay = [t \in Payers |-> AtRest]
    /\ sweep = {} /\ asked = {}
    /\ day = 0 /\ marketFaults = 0
    /\ served = [o \in RepOrders |-> 0]
    /\ crashed = FALSE /\ overlap = FALSE

Renewal(o) == o \in RepRenewals
Kind(o) == IF Renewal(o) THEN "rep_renewal" ELSE "rep_purchase"
To(t, pc) == pay' = [pay EXCEPT ![t].pc = pc]
MarketFault == marketFaults < MarketFaults /\ marketFaults' = marketFaults + 1

---------------------------------------------------------------------------
(* Orders and payment *)

CreateRepOrder(o, b) ==
    /\ repOrders[o].st = "none" /\ \A p \in RepOrders : p < o => repOrders[p].st # "none"
    /\ Renewal(o) <=> panel[b].sub # "none"
    /\ repOrders' = [repOrders EXCEPT ![o] = [st |-> "pending", buyer |-> b]]
    /\ UNCHANGED <<walletVars, asked, panel, account, bot, sessions, pay, sweep, day,
                   marketFaults, served, crashed, overlap>>

\* pay_order reads the order before the transaction.
PayRead(t, o) ==
    /\ pay[t] = AtRest /\ repOrders[o].st \in {"pending", "paid"}
    /\ pay' = [pay EXCEPT ![t] = [AtRest EXCEPT !.pc = "debit", !.o = o]]
    /\ overlap' = (overlap \/ \E u \in Payers : pay[u] # AtRest
                      /\ repOrders[pay[u].o].buyer = repOrders[o].buyer)
    /\ UNCHANGED <<walletVars, asked, repOrders, panel, account, bot, sessions, sweep, day,
                   marketFaults, served, crashed>>

PayDebit(t) ==
    LET o == pay[t].o
        b == repOrders[o].buyer
    IN /\ pay[t].pc = "debit"
       /\ IF CanDebit(wallet, b, PanelPrice, Kind(o), o)
          THEN /\ wallet' = Debited(wallet, b, PanelPrice, Kind(o), o)
               /\ repOrders' = [repOrders EXCEPT ![o].st = "paid"]
               /\ pay' = [pay EXCEPT ![t].pc = "policy"]
          ELSE /\ pay' = [pay EXCEPT ![t] = AtRest]
               /\ UNCHANGED <<wallet, repOrders>>
       /\ UNCHANGED <<topups, referral, clerk, asked, panel, account, bot, sessions, sweep, day,
                      marketFaults, served, crashed, overlap>>

\* _apply_policy writes the owner row; a renewal has read the subscription by then.
ApplyPolicy(t) ==
    LET o == pay[t].o
        b == repOrders[o].buyer
    IN /\ pay[t].pc = "policy"
       /\ \/ /\ Renewal(o) => panel[b].sub # "none"
             /\ pay' = [pay EXCEPT ![t].pc = IF Renewal(o) THEN "open" ELSE "account",
                                   ![t].end = panel[b].end]
             /\ UNCHANGED marketFaults
          \/ To(t, "refund") /\ MarketFault
       /\ UNCHANGED <<walletVars, asked, repOrders, panel, account, bot, sessions, sweep, day,
                      served, crashed, overlap>>

\* The account is looked up and, when missing, created in a later transaction.
AccountRead(t) ==
    LET b == repOrders[pay[t].o].buyer
    IN /\ pay[t].pc = "account"
       /\ To(t, IF account[b] = "none" THEN "create" ELSE "open")
       /\ UNCHANGED <<walletVars, asked, repOrders, panel, account, bot, sessions, sweep, day,
                      marketFaults, served, crashed, overlap>>

AccountCreate(t) ==
    LET b == repOrders[pay[t].o].buyer
    IN /\ pay[t].pc = "create"
       /\ \/ /\ account[b] = "none"
             /\ account' = [account EXCEPT ![b] = "enabled"]
             /\ To(t, "open") /\ UNCHANGED marketFaults
          \/ account[b] # "none" /\ To(t, "refund") /\ UNCHANGED <<account, marketFaults>>
          \/ MarketFault /\ To(t, "refund") /\ UNCHANGED account
       /\ UNCHANGED <<walletVars, asked, repOrders, panel, bot, sessions, sweep, day, served,
                      crashed, overlap>>

Enabled(b) == account' = [account EXCEPT ![b] = IF @ = "none" THEN @ ELSE "enabled"]

\* A second subscription of one buyer breaks the primary key: nothing is written.
OpenPanel(t) ==
    LET o == pay[t].o
        b == repOrders[o].buyer
    IN /\ pay[t].pc = "open" /\ ~Renewal(o)
       /\ IF panel[b].sub = "none"
          THEN /\ Enabled(b)
               /\ panel' = [panel EXCEPT ![b] = [sub |-> "active", end |-> day + 1, was |-> FALSE]]
               /\ repOrders' = [repOrders EXCEPT ![o].st = "provisioned"]
               /\ served' = [served EXCEPT ![o] = @ + 1]
               /\ pay' = [pay EXCEPT ![t] = AtRest]
          ELSE To(t, "refund") /\ UNCHANGED <<account, panel, repOrders, served>>
       /\ UNCHANGED <<walletVars, asked, bot, sessions, sweep, day, marketFaults, crashed,
                      overlap>>

Later(x, y) == IF x > y THEN x ELSE y

RenewPanel(t) ==
    LET o == pay[t].o
        b == repOrders[o].buyer
    IN /\ pay[t].pc = "open" /\ Renewal(o)
       /\ Later(day, pay[t].end) < MaxPanelEnd
       /\ Enabled(b)
       /\ bot' = [bot EXCEPT ![b] = @ \/ panel[b].was]
       /\ panel' = [panel EXCEPT ![b] =
              [sub |-> "active", end |-> Later(day, pay[t].end) + 1, was |-> FALSE]]
       /\ repOrders' = [repOrders EXCEPT ![o].st = "renewed"]
       /\ served' = [served EXCEPT ![o] = @ + 1]
       /\ pay' = [pay EXCEPT ![t] = AtRest]
       /\ UNCHANGED <<walletVars, asked, sessions, sweep, day, marketFaults, crashed, overlap>>

\* Faulty variant: an order that failed because its panel exists is only closed.
SilentRefund(t) ==
    LET o == pay[t].o
    IN /\ pay[t].pc = "refund"
       /\ repOrders' = [repOrders EXCEPT ![o].st = "failed_refunded"]
       /\ pay' = [pay EXCEPT ![t] = AtRest]
       /\ UNCHANGED <<walletVars, asked, panel, account, bot, sessions, sweep, day, marketFaults,
                      served, crashed, overlap>>

\* Any failure gives the money back, once, and closes the order.
Refund(t) ==
    LET o == pay[t].o
        b == repOrders[o].buyer
    IN /\ pay[t].pc = "refund"
       /\ wallet' = Credited(wallet, b, PanelPrice, "rep_refund", o)
       /\ repOrders' = [repOrders EXCEPT ![o].st = "failed_refunded"]
       /\ pay' = [pay EXCEPT ![t] = IF Renewal(o) THEN AtRest ELSE [@ EXCEPT !.pc = "cleanup"]]
       /\ UNCHANGED <<topups, referral, clerk, asked, panel, account, bot, sessions, sweep, day,
                      marketFaults, served, crashed, overlap>>

\* _cleanup_failed_new_rep: a panel without subscription loses its account.
Cleanup(t) ==
    LET b == repOrders[pay[t].o].buyer
    IN /\ pay[t].pc = "cleanup"
       /\ IF panel[b].sub = "none"
          THEN /\ account' = [account EXCEPT ![b] = "none"]
               /\ sessions' = [sessions EXCEPT ![b] = FALSE]
               /\ bot' = [bot EXCEPT ![b] = FALSE]
          ELSE UNCHANGED <<account, sessions, bot>>
       /\ pay' = [pay EXCEPT ![t] = AtRest]
       /\ UNCHANGED <<walletVars, asked, repOrders, panel, sweep, day, marketFaults, served,
                      crashed, overlap>>

\* The process dies: the money is booked, the order can be paid again.
PayerCrash ==
    /\ MarketFault /\ \E t \in Payers : pay[t] # AtRest
    /\ pay' = [t \in Payers |-> AtRest] /\ sweep' = {} /\ asked' = {}
    /\ crashed' = TRUE
    /\ UNCHANGED <<walletVars, repOrders, panel, account, bot, sessions, day, served, overlap>>

---------------------------------------------------------------------------
(* The panel in use, and its end *)

PanelLogin(b) ==
    /\ account[b] = "enabled" /\ ~sessions[b]
    /\ sessions' = [sessions EXCEPT ![b] = TRUE]
    /\ UNCHANGED <<walletVars, asked, repOrders, panel, account, bot, pay, sweep, day,
                   marketFaults, served, crashed, overlap>>

\* telegram_settings_put asks bot_allowed first and writes in a later transaction.
AskBot(b) ==
    /\ sessions[b] /\ panel[b].sub = "active" /\ ~bot[b]
    /\ asked' = asked \union {b}
    /\ UNCHANGED <<walletVars, repOrders, panel, account, bot, sessions, pay, sweep, day,
                   marketFaults, served, crashed, overlap>>

EnableBot(b) ==
    /\ b \in asked /\ asked' = asked \ {b}
    /\ bot' = [bot EXCEPT ![b] = TRUE]
    /\ UNCHANGED <<walletVars, repOrders, panel, account, sessions, pay, sweep, day, marketFaults,
                   served, crashed, overlap>>

\* sweep_expired collects first and closes each panel in a transaction of its own.
SweepRead ==
    LET due == {b \in Buyers : panel[b].sub = "active" /\ panel[b].end <= day}
    IN /\ sweep = {} /\ due # {}
       /\ sweep' = due
       /\ UNCHANGED <<walletVars, asked, repOrders, panel, account, bot, sessions, pay, day,
                      marketFaults, served, crashed, overlap>>

Closed(b) ==
    /\ account' = [account EXCEPT ![b] = IF @ = "none" THEN @ ELSE "disabled"]
    /\ sessions' = [sessions EXCEPT ![b] = FALSE]
    /\ bot' = [bot EXCEPT ![b] = FALSE]

SweepClose(b) ==
    /\ b \in sweep
    /\ sweep' = sweep \ {b}
    /\ Closed(b)
    /\ panel' = [panel EXCEPT ![b] =
           IF @.sub = "active" THEN [@ EXCEPT !.sub = "suspended", !.was = bot[b]] ELSE @]
    /\ UNCHANGED <<walletVars, asked, repOrders, pay, day, marketFaults, served, crashed,
                   overlap>>

DayPasses ==
    /\ day < MaxDay /\ day' = day + 1
    /\ UNCHANGED <<walletVars, asked, repOrders, panel, account, bot, sessions, pay, sweep,
                   marketFaults, served, crashed, overlap>>

MarketNext ==
    \/ \E o \in RepOrders, b \in Buyers : CreateRepOrder(o, b)
    \/ \E t \in Payers, o \in RepOrders : PayRead(t, o)
    \/ \E t \in Payers :
          \/ PayDebit(t) \/ ApplyPolicy(t) \/ AccountRead(t) \/ AccountCreate(t)
          \/ OpenPanel(t) \/ RenewPanel(t) \/ Refund(t) \/ Cleanup(t)
    \/ \E b \in Buyers : PanelLogin(b) \/ AskBot(b) \/ EnableBot(b) \/ SweepClose(b)
    \/ SweepRead \/ DayPasses \/ PayerCrash

---------------------------------------------------------------------------
MarketTypeOK ==
    /\ repOrders \in [RepOrders ->
           [st : {"none", "pending", "paid", "provisioned", "renewed", "failed_refunded"},
            buyer : Buyers \union {Nobody}]]
    /\ panel \in [Buyers -> [sub : {"none", "active", "suspended"}, end : Nat, was : BOOLEAN]]
    /\ account \in [Buyers -> {"none", "enabled", "disabled"}]
    /\ bot \in [Buyers -> BOOLEAN] /\ sessions \in [Buyers -> BOOLEAN]
    /\ pay \in [Payers ->
           [pc : {"idle", "debit", "policy", "account", "create", "open", "refund", "cleanup"},
            o : RepOrders \union {0}, end : Nat]]
    /\ sweep \subseteq Buyers /\ asked \subseteq Buyers

\* A payment that was booked has bought a panel or has been given back as soon as
\* no payer works on the order (unless the process died in between, after which
\* the order can be paid again without a second debit), and only what was taken
\* is given back.
NoPaymentForNothing ==
    \A o \in RepOrders :
        LET paid == HasEntry(wallet, Kind(o), o)
            refunded == HasEntry(wallet, "rep_refund", o)
        IN /\ paid /\ ~crashed /\ (\A t \in Payers : pay[t].o # o)
                  => served[o] > 0 \/ refunded
           /\ refunded => paid

\* A suspended panel stays closed: its account is disabled and nobody is logged in,
\* however sweep, renewal, login and restart interleave (login looks at the account
\* again in the transaction that opens the session).  Two payments of one buyer at
\* the same time may break it: the later one creates the account anew after the
\* cleanup of the earlier.  The bot may be enabled by a request checked before.
SuspendedIsLockedOut ==
    \A b \in Buyers : panel[b].sub = "suspended" /\ ~overlap =>
        account[b] # "enabled" /\ ~sessions[b]
=============================================================================
