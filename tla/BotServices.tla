----------------------------- MODULE BotServices -----------------------------
(***************************************************************************)
(* What the administrator does to customers from the Telegram bot, and     *)
(* what customers write to it: renewals, limits, inbounds and deletions of *)
(* a service by its row number, direct messages, the payment card, new     *)
(* representatives, tickets and custom top-ups (telegram_runtime.py,       *)
(* telegram_customer_runtime.py).  The bot handles one update at a time;   *)
(* the web panel and the mini app write the same tables meanwhile.         *)
(***************************************************************************)
EXTENDS Integers, FiniteSets, SequencesExt

CONSTANTS
    ServiceInbounds,          \* inbounds a service may use
    MaxClients, MaxGiven, MaxDeeds, ServiceFaults  \* bounds: services, extensions, what
                              \* the web panel and the mini app do, failures and kills

VARIABLES
    chief,      \* "a" is the configured administrator
    session,    \* sessions: where the dialogue of "a" and of the customer "c" stands
    data,       \* session_data of "a": the service's row, which service was meant, inbounds
    busy,       \* the handler at work, between two of its transactions
    clients,    \* rows of clients: id, row, the end of the service, its inbounds
    rows,       \* the row number each service was given, by id
    given,      \* extensions granted to each service
    raced,      \* services another writer came to between a handler's read and its write
    astray,     \* services that were changed by the button of another one that exists
    rep,        \* the representative "r": whose its profile and its login are; told
    card,       \* the manual gateway: absent, on, off
    ticket,     \* the customer's ticket: its status and what was written, by whom, as whom
    receipts,   \* the customer's top-up and order: none, waiting, receipt
    deeds, mishaps

serviceVars == <<chief, session, data, busy, clients, rows, given, raced, astray, rep, card,
                 ticket, receipts, deeds, mishaps>>
clientVars == <<clients, rows, given, raced, astray>>
deskVars == <<rep, card, ticket, receipts>>

NoTalk == ""
Nothing == [op |-> "none", id |-> 0, base |-> 0]
NoData == [row |-> 0, meant |-> 0, selected |-> {}]
ClientAt(r) == {c \in clients : c.row = r}
NewClientRow == 1 + Max({0} \cup {c.row : c \in clients})
Changed(c, d) == (clients \ {c}) \cup {d}

BotServicesInit ==
    /\ chief = TRUE
    /\ session = [u \in {"a", "c"} |-> NoTalk] /\ data = NoData /\ busy = Nothing
    /\ clients = {[id |-> 1, row |-> 1, end |-> 0, inbounds |-> ServiceInbounds]}
    /\ rows = <<1>> /\ given = [c \in 1..MaxClients |-> 0]
    /\ raced = {} /\ astray = {}
    /\ rep = [profile |-> "none", login |-> "none", told |-> FALSE]
    /\ card = "absent"
    /\ ticket = [status |-> "none", said |-> {}]
    /\ receipts = [topup |-> "none", order |-> "waiting"]
    /\ deeds = 0 /\ mishaps = 0

-----------------------------------------------------------------------------
\* The bot takes one update at a time, and looks at the administrator with each.

Free == busy = Nothing
Asked(s) == Free /\ chief /\ session["a"] = s
Goes(s) == session' = [session EXCEPT !["a"] = s]
Done == Goes(NoTalk) /\ data' = NoData

\* The first message of a dialogue takes the place of any other.
Begin(s, row, meant, selected) ==
    Goes(s) /\ data' = [row |-> row, meant |-> meant, selected |-> selected]

\* A button or dialogue of service n has changed service c.
Hit(n, c) ==
    astray' = IF n # c /\ \E d \in clients : d.id = n THEN astray \cup {c} ELSE astray

StartService(n, kind) ==
    /\ Free /\ chief
    /\ \E c \in ClientAt(rows[n]) :
          Begin(kind, rows[n], n, IF kind = "service_inbounds" THEN c.inbounds ELSE {})
    /\ UNCHANGED <<chief, busy, deeds, mishaps>> /\ UNCHANGED clientVars /\ UNCHANGED deskVars

\* The row is looked up once more with the answer: a refused one or a service that is gone
\* raises, and the dialogue goes on, except for a renewal's, which is over before.
RefuseRenewal ==
    /\ Asked("service_renew")
    /\ Done
    /\ UNCHANGED <<chief, busy, deeds, mishaps>> /\ UNCHANGED clientVars /\ UNCHANGED deskVars

\* renew_client and service_volume: what the service has is read, and the sum written.
RenewRead ==
    /\ Asked("service_renew")
    /\ Done
    /\ \E c \in ClientAt(data.row) :
          /\ busy' = [op |-> "renew", id |-> c.id, base |-> c.end]
          /\ Hit(data.meant, c.id)
    /\ UNCHANGED <<chief, clients, rows, given, raced, deeds, mishaps>> /\ UNCHANGED deskVars

Renewed(c) == [c EXCEPT !.end = busy.base + 1]

RenewWrite ==
    /\ busy.op = "renew"
    /\ busy' = Nothing
    /\ IF \E c \in clients : c.id = busy.id /\ given[c.id] < MaxGiven
       THEN \E c \in clients : /\ c.id = busy.id
                               /\ clients' = Changed(c, Renewed(c))
                               /\ given' = [given EXCEPT ![c.id] = @ + 1]
       ELSE UNCHANGED <<clients, given>>
    /\ UNCHANGED <<chief, session, data, rows, raced, astray, deeds, mishaps>>
    /\ UNCHANGED deskVars

\* The limits of addresses and devices.
LimitText ==
    /\ Asked("service_ip")
    /\ \E c \in ClientAt(data.row) : Hit(data.meant, c.id)
    /\ Done
    /\ UNCHANGED <<chief, busy, clients, rows, given, raced, deeds, mishaps>>
    /\ UNCHANGED deskVars

ToggleServiceInbound(i) ==
    /\ Asked("service_inbounds")
    /\ data' = [data EXCEPT !.selected = SymDiff(@, {i})]
    /\ UNCHANGED <<chief, session, busy, deeds, mishaps>>
    /\ UNCHANGED clientVars /\ UNCHANGED deskVars

InboundsDone ==
    /\ Asked("service_inbounds") /\ data.selected # {}
    /\ \E c \in ClientAt(data.row) :
          /\ clients' = Changed(c, [c EXCEPT !.inbounds = data.selected])
          /\ Hit(data.meant, c.id)
    /\ Done
    /\ UNCHANGED <<chief, busy, rows, given, raced, deeds, mishaps>> /\ UNCHANGED deskVars

\* "Delete for good", pressed whenever: the button holds a row number.
PressDelete(n) ==
    /\ Free /\ chief
    /\ \E c \in ClientAt(rows[n]) :
          /\ clients' = clients \ {c}
          /\ Hit(n, c.id)
    /\ UNCHANGED <<chief, session, data, busy, rows, given, raced, deeds, mishaps>>
    /\ UNCHANGED deskVars

\* A direct message keeps the customer's Telegram account from its first step.
StartMessage(n) == StartService(n, "crm_message")
MessageText ==
    /\ Asked("crm_message") /\ Goes("crm_review")
    /\ UNCHANGED <<chief, data, busy, deeds, mishaps>>
    /\ UNCHANGED clientVars /\ UNCHANGED deskVars
SendMessage ==
    /\ Asked("crm_review") /\ Done
    /\ UNCHANGED <<chief, busy, deeds, mishaps>> /\ UNCHANGED clientVars /\ UNCHANGED deskVars

-----------------------------------------------------------------------------
\* The payment card, and representatives.

NextText ==
    [s \in {"pay_card", "pay_holder", "pay_bank", "rep_new_password", "rep_new_volume",
            "rep_new_unlimited"} |->
        CASE s = "pay_card" -> "pay_holder" [] s = "pay_holder" -> "pay_bank"
          [] s = "pay_bank" -> "pay_instructions" [] s = "rep_new_password" -> "rep_new_volume"
          [] s = "rep_new_volume" -> "rep_new_unlimited"
          [] s = "rep_new_unlimited" -> "rep_new_confirm"]

StartForm(s) ==
    /\ Free /\ chief
    /\ Begin(s, 0, 0, {})
    /\ UNCHANGED <<chief, busy, deeds, mishaps>> /\ UNCHANGED clientVars /\ UNCHANGED deskVars

FormText ==
    /\ Free /\ chief
    /\ session["a"] \in DOMAIN NextText
    /\ Goes(NextText[session["a"]])
    /\ UNCHANGED <<chief, data, busy, deeds, mishaps>>
    /\ UNCHANGED clientVars /\ UNCHANGED deskVars

\* Saving the card switches the gateway on.
PayInstructions ==
    /\ Asked("pay_instructions")
    /\ card' = "on"
    /\ Done
    /\ UNCHANGED <<chief, busy, rep, ticket, receipts, deeds, mishaps>> /\ UNCHANGED clientVars

ToggleCard ==
    /\ Free /\ chief
    /\ IF card = "absent" THEN Begin("pay_card", 0, 0, {}) /\ UNCHANGED card
       ELSE /\ card' = IF card = "on" THEN "off" ELSE "on"
            /\ UNCHANGED <<session, data>>
    /\ UNCHANGED <<chief, busy, rep, ticket, receipts, deeds, mishaps>> /\ UNCHANGED clientVars

\* Only logins are looked at, not profiles.
RepId ==
    /\ Asked("rep_new_id") /\ rep.login = "none"
    /\ Goes("rep_new_password")
    /\ UNCHANGED <<chief, data, busy, deeds, mishaps>>
    /\ UNCHANGED clientVars /\ UNCHANGED deskVars

\* The confirmation, or everything in one line: an id that has a login by now is refused.
RepConfirm ==
    /\ Asked("rep_new_confirm") /\ rep.login = "none"
    /\ busy' = [Nothing EXCEPT !.op = "rep profile"]
    /\ UNCHANGED <<chief, session, data, deeds, mishaps>>
    /\ UNCHANGED clientVars /\ UNCHANGED deskVars

\* owner_put writes over whatever profile there is.
RepProfile ==
    /\ busy.op = "rep profile"
    /\ busy' = [Nothing EXCEPT !.op = "rep login"]
    /\ rep' = [rep EXCEPT !.profile = "bot"]
    /\ raced' = IF rep.login # "none" THEN raced \cup {0} ELSE raced
    /\ UNCHANGED <<chief, session, data, clients, rows, given, astray, card, ticket, receipts,
                   deeds, mishaps>>

\* admin_create; the password is told only when the dialogue has ended with it.
RepLogin ==
    /\ busy.op = "rep login"
    /\ busy' = Nothing
    /\ IF rep.login = "none"
       THEN rep' = [rep EXCEPT !.login = "bot", !.told = TRUE] /\ Done
       ELSE UNCHANGED <<rep, session, data>>
    /\ UNCHANGED <<chief, card, ticket, receipts, deeds, mishaps>> /\ UNCHANGED clientVars

-----------------------------------------------------------------------------
\* Tickets, top-ups and files.

Say(u, as) ==
    ticket' = [status |-> IF as = "admin" THEN "answered" ELSE "open",
               said |-> ticket.said \cup {[by |-> u, as |-> as, chief |-> chief]}]

\* The buttons of the customer's menus.
CustomerStarts(s) ==
    /\ Free
    /\ s = "customer_support_message" => ticket.status # "none"
    /\ session' = [session EXCEPT !["c"] = s]
    /\ UNCHANGED <<chief, data, busy, deeds, mishaps>>
    /\ UNCHANGED clientVars /\ UNCHANGED deskVars

\* The ticket is there before its first message.
SupportSubject ==
    /\ Free /\ session["c"] = "customer_support_subject"
    /\ ticket.status = "none"
    /\ ticket' = [ticket EXCEPT !.status = "open"]
    /\ session' = [session EXCEPT !["c"] = "customer_support_message"]
    /\ UNCHANGED <<chief, data, busy, rep, card, receipts, deeds, mishaps>>
    /\ UNCHANGED clientVars

\* A text or a file.
SupportMessage ==
    /\ Free /\ session["c"] = "customer_support_message"
    /\ Say("c", "customer")
    /\ session' = [session EXCEPT !["c"] = NoTalk]
    /\ UNCHANGED <<chief, data, busy, rep, card, receipts, deeds, mishaps>>
    /\ UNCHANGED clientVars

StartReply ==
    /\ Free /\ chief /\ ticket.status # "none"
    /\ Begin("admin_support_reply", 0, 0, {})
    /\ UNCHANGED <<chief, busy, deeds, mishaps>> /\ UNCHANGED clientVars /\ UNCHANGED deskVars

ReplyText ==
    /\ Asked("admin_support_reply")
    /\ Say("a", "admin")
    /\ Done
    /\ UNCHANGED <<chief, busy, rep, card, receipts, deeds, mishaps>> /\ UNCHANGED clientVars

\* A file of somebody who is no longer the administrator goes into the ticket as the
\* customer's.
ReplyFile ==
    /\ Free /\ session["a"] = "admin_support_reply"
    /\ Say("a", IF chief THEN "admin" ELSE "customer")
    /\ Done
    /\ UNCHANGED <<chief, busy, rep, card, receipts, deeds, mishaps>> /\ UNCHANGED clientVars

\* Closed with a button, by either side; a "resolved" answer is said first.
CloseTicket ==
    /\ Free /\ ticket.status # "none"
    /\ ticket' = [ticket EXCEPT !.status = "closed"]
    /\ UNCHANGED <<chief, session, data, busy, rep, card, receipts, deeds, mishaps>>
    /\ UNCHANGED clientVars

QuickReply ==
    /\ Free /\ chief /\ ticket.status # "none"
    /\ Say("a", "admin")
    /\ UNCHANGED <<chief, session, data, busy, rep, card, receipts, deeds, mishaps>>
    /\ UNCHANGED clientVars

\* The dialogue is over before the gateway is looked at.
TopupText ==
    /\ Free /\ session["c"] = "customer_topup_custom"
    /\ session' = [session EXCEPT !["c"] = NoTalk]
    /\ receipts' = IF card = "on" THEN [receipts EXCEPT !.topup = "waiting"] ELSE receipts
    /\ UNCHANGED <<chief, data, busy, rep, card, ticket, deeds, mishaps>> /\ UNCHANGED clientVars

\* A picture outside a ticket: a top-up that waits for its receipt comes before an order.
Receipt ==
    /\ Free /\ session["c"] # "customer_support_message"
    /\ \/ receipts.topup = "waiting" /\ receipts' = [receipts EXCEPT !.topup = "receipt"]
       \/ /\ receipts.topup # "waiting" /\ receipts.order = "waiting"
          /\ receipts' = [receipts EXCEPT !.order = "receipt"]
    /\ UNCHANGED <<chief, session, data, busy, rep, card, ticket, deeds, mishaps>>
    /\ UNCHANGED clientVars

Cancel(u) ==
    /\ Free /\ session[u] # NoTalk
    /\ session' = [session EXCEPT ![u] = NoTalk]
    /\ data' = IF u = "a" THEN NoData ELSE data
    /\ UNCHANGED <<chief, busy, deeds, mishaps>> /\ UNCHANGED clientVars /\ UNCHANGED deskVars

-----------------------------------------------------------------------------
\* What others do at any moment, between the transactions of a handler too.

Deed == deeds < MaxDeeds /\ deeds' = deeds + 1

\* An order or a Web request makes a service, extends one, or deletes one.
NewClient ==
    /\ Deed /\ Len(rows) < MaxClients
    /\ clients' = clients \cup {[id |-> Len(rows) + 1, row |-> NewClientRow, end |-> 0,
                                 inbounds |-> ServiceInbounds]}
    /\ rows' = Append(rows, NewClientRow)
    /\ UNCHANGED <<chief, session, data, busy, given, raced, astray, mishaps>>
    /\ UNCHANGED deskVars
PaidRenewal(c) ==
    /\ Deed /\ given[c.id] < MaxGiven
    /\ clients' = Changed(c, [c EXCEPT !.end = @ + 1])
    /\ given' = [given EXCEPT ![c.id] = @ + 1]
    /\ raced' = IF busy.op = "renew" /\ busy.id = c.id THEN raced \cup {c.id} ELSE raced
    /\ UNCHANGED <<chief, session, data, busy, rows, astray, mishaps>> /\ UNCHANGED deskVars
WebDelete(c) ==
    /\ Deed
    /\ clients' = clients \ {c}
    /\ UNCHANGED <<chief, session, data, busy, rows, given, raced, astray, mishaps>>
    /\ UNCHANGED deskVars

\* The panel creates the same representative.
WebRep ==
    /\ Deed /\ rep.login = "none"
    /\ rep' = [rep EXCEPT !.profile = "web", !.login = "web"]
    /\ UNCHANGED <<chief, session, data, busy, card, ticket, receipts, mishaps>>
    /\ UNCHANGED clientVars

ChiefChanges ==
    /\ Deed
    /\ chief' = ~chief
    /\ UNCHANGED <<session, data, busy, mishaps>> /\ UNCHANGED clientVars /\ UNCHANGED deskVars

\* A transaction of the handler at work fails: the update is over, its dialogue is not.
HandlerFails ==
    /\ mishaps < ServiceFaults /\ ~Free
    /\ mishaps' = mishaps + 1
    /\ busy' = Nothing
    /\ UNCHANGED <<chief, session, data, deeds>> /\ UNCHANGED clientVars /\ UNCHANGED deskVars

\* The panel is killed: dialogues are in its memory only.
BotKill ==
    /\ mishaps < ServiceFaults
    /\ mishaps' = mishaps + 1
    /\ busy' = Nothing
    /\ session' = [u \in {"a", "c"} |-> NoTalk] /\ data' = NoData
    /\ UNCHANGED <<chief, deeds>> /\ UNCHANGED clientVars /\ UNCHANGED deskVars

\* Services and the dialogues about them.
ServicesNext ==
    \/ \E n \in DOMAIN rows : \/ StartMessage(n) \/ PressDelete(n)
                              \/ \E kind \in {"service_renew", "service_ip", "service_inbounds"} :
                                    StartService(n, kind)
    \/ RefuseRenewal \/ RenewRead \/ RenewWrite \/ LimitText \/ InboundsDone
    \/ \E i \in ServiceInbounds : ToggleServiceInbound(i)
    \/ MessageText \/ SendMessage \/ NewClient \/ Cancel("a") \/ HandlerFails \/ BotKill
    \/ \E c \in clients : PaidRenewal(c) \/ WebDelete(c)

\* The card, representatives and what customers write.
DeskNext ==
    \/ \E s \in {"pay_card", "rep_new_id"} : StartForm(s)
    \/ FormText \/ PayInstructions \/ ToggleCard \/ RepId \/ RepConfirm \/ RepProfile \/ RepLogin
    \/ \E s \in {"customer_support_subject", "customer_support_message",
                 "customer_topup_custom"} : CustomerStarts(s)
    \/ SupportSubject \/ SupportMessage \/ StartReply \/ ReplyText \/ ReplyFile \/ CloseTicket
    \/ QuickReply \/ TopupText \/ Receipt
    \/ \E u \in {"a", "c"} : Cancel(u)
    \/ WebRep \/ ChiefChanges \/ HandlerFails \/ BotKill

BotServicesNext == ServicesNext \/ DeskNext
BotServicesSpec == BotServicesInit /\ [][BotServicesNext]_serviceVars

-----------------------------------------------------------------------------
BotServicesTypeOK ==
    /\ chief \in BOOLEAN /\ busy.op \in {"none", "renew", "rep profile", "rep login"}
    /\ Len(rows) <= MaxClients
    /\ \A c \in clients : c.id \in DOMAIN rows /\ c.row = rows[c.id] /\ c.inbounds # {}
    /\ rep.profile \in {"none", "bot", "web"} /\ rep.login \in {"none", "bot", "web"}
    /\ card \in {"absent", "on", "off"}
    /\ ticket.status \in {"none", "open", "answered", "closed"}
    /\ deeds \in 0..MaxDeeds /\ mishaps \in 0..ServiceFaults

\* A button or dialogue of a service changes that service, as long as it exists: its row
\* number is not another's.
ButtonsHitTheirService == astray = {}

\* Every extension granted lengthens the service, unless another came between the
\* handler's read and its write.
ExtensionsAddUp == \A c \in clients : c.id \in raced \/ c.end = given[c.id]

\* A representative's login has a profile, made by the same hand unless the panel created
\* the representative while the bot's handler was at it; and a password the administrator
\* was told is the one that opens the account.
RepsAreWhole ==
    /\ rep.login # "none" => rep.profile = rep.login \/ 0 \in raced
    /\ rep.told => rep.login = "bot"

\* What a ticket shows as the administrator's answer was written by the administrator of
\* that moment, and what it shows as the customer's by the customer, unless the
\* administrator was replaced in the middle of a reply.
TicketsAreTheirs ==
    \A m \in ticket.said : IF m.as = "admin" THEN m.by = "a" /\ m.chief
                                             ELSE m.by = "c" \/ ~m.chief

ServicesHold == ButtonsHitTheirService /\ ExtensionsAddUp /\ RepsAreWhole /\ TicketsAreTheirs
=============================================================================
