-------------------------------- MODULE MCPanel --------------------------------
(***************************************************************************)
(* The parts of the Hub that do not share state with one another, for TLC: *)
(* the client manager, logins, restored subscriptions, the address limit,  *)
(* updates, the files of the panel's and of the restored domains on its    *)
(* host, and the Telegram bot: its workers, what it sends on its own, its  *)
(* report forum and its dialogues.  A behaviour is about one, the others   *)
(* stand still.                                                            *)
(***************************************************************************)
EXTENDS ManagedClients, Sessions, MCLegacyRestore, IpGuard, Updater, Sequences

VARIABLES
    part,
    disk, served, guardUp, lineage, tool, toolRuns, spoiled, kills, torn, critical,  \* PanelTls
    imported, site, common, nginx, onBoot, ready, setup,                    \* RestoreSites
    setups, setupFaults, setupKills, untold,
    botRow, arrived, kept, worker, current, super, tried, crossed, repeated,   \* BotUpdates
    trouble,
    pref, campaigns, pass, client, reached, late, cycle, noticed, alerted,  \* BotBroadcasts
    lapses,
    audit, forum, topic, polling, desk, told, connectedAt, doubled, mixed, failures, \* BotForum
    reseller, credit, admin, talk, notes, begun, products, prices, issued,  \* BotCatalogue
    review, orders, archived, turns,
    chief, session, data, busy, clients, rows, given, raced, astray, rep,   \* BotServices
    card, ticket, receipts, deeds, mishaps

T == INSTANCE PanelTls WITH
        broken <- spoiled, Domains <- {"a", "b"}, PanelPorts <- {1, 2}, Guarded <- TRUE,
        MaxTools <- 2, MaxRenewals <- 1, MaxBroken <- 1, MaxKills <- 1
S == INSTANCE RestoreSites WITH
        Sites <- {"c", "d"}, MaxPorts <- 2, MaxSetups <- 3, MaxSetupFaults <- 1,
        MaxSetupKills <- 1
U == INSTANCE BotUpdates WITH
        row <- botRow, Bots <- {"b1", "b2"}, Slots <- {"w1", "w2"}, MaxUpdates <- 2,
        BatchSize <- 2, MaxSaves <- 1, UpdateFaults <- 1
B == INSTANCE BotBroadcasts WITH
        jobs <- campaigns, due <- cycle, mishaps <- lapses, Chats <- {1, 2}, MaxJobs <- 2,
        PassSize <- 1, MaxCycle <- 2, BroadcastFaults <- 1
F == INSTANCE BotForum WITH
        Topics <- {"financial"}, Groups <- {"g1", "g2"}, Pollers <- {"w1", "w2"},
        MaxAudit <- 2, ForumFaults <- 1
C == INSTANCE BotCatalogue WITH
        seen <- review, Inbounds <- {1, 2}, MaxDialogues <- 1, MaxProducts <- 3, MaxPrices <- 2,
        MaxTurns <- 1
D == INSTANCE BotServices WITH
        ServiceInbounds <- {1}, MaxClients <- 2, MaxGiven <- 2, MaxDeeds <- 3,
        ServiceFaults <- 1

hostVars == <<disk, served, guardUp, lineage, tool, toolRuns, spoiled, kills, torn, critical>>
siteVars == <<imported, site, common, nginx, onBoot, ready, setup, setups, setupFaults,
              setupKills, untold>>
botVars == <<botRow, arrived, kept, worker, current, super, tried, crossed, repeated, trouble>>
campaignVars == <<pref, campaigns, pass, client, reached, late, cycle, noticed, alerted, lapses>>
reportVars == <<audit, forum, topic, polling, desk, told, connectedAt, doubled, mixed, failures>>
shopVars == <<reseller, credit, admin, talk, notes, begun, products, prices, issued, review,
              orders, archived, turns>>
deskVars == <<chief, session, data, busy, clients, rows, given, raced, astray, rep, card, ticket,
              receipts, deeds, mishaps>>
hubVars == <<managedVars, sessionVars, restoreVars, guardVars, updateVars, hostVars, siteVars>>
telegramVars == <<botVars, campaignVars, reportVars, shopVars, deskVars>>
panelVars == <<part, hubVars, telegramVars>>

Telegram == {"updates", "campaigns", "alerts", "forum", "catalogue", "services", "desk"}

PanelInit ==
    /\ part \in {"managed", "sessions", "restore", "guard", "update", "address", "sites"}
                \cup Telegram
    /\ ManagedInit /\ SessionInit /\ RestoreInit /\ GuardInit /\ UpdateInit
    /\ T!TlsInit /\ S!SitesInit
    /\ U!BotUpdatesInit /\ B!BroadcastsInit /\ F!ForumInit /\ D!BotServicesInit
    /\ \/ C!BotCatalogueInit(2, 1)
       \/ part = "catalogue" /\ C!BotCatalogueInit(3, 0)   \* changes, but no more products
    /\ reseller
    \* What the manager finds does not matter to the others.
    /\ part # "managed" => \A c \in Emails : core[c] = Absent

Managing ==
    /\ part = "managed" /\ ManagedNext
    /\ UNCHANGED <<part, sessionVars, restoreVars, guardVars, updateVars, hostVars, siteVars>>
LoggingIn ==
    /\ part = "sessions" /\ SessionNext
    /\ UNCHANGED <<part, managedVars, restoreVars, guardVars, updateVars, hostVars, siteVars>>
Restoring ==
    /\ part = "restore" /\ RestoreNext
    /\ UNCHANGED <<part, managedVars, sessionVars, guardVars, updateVars, hostVars, siteVars>>
Guarding ==
    /\ part = "guard" /\ GuardNext
    /\ UNCHANGED <<part, managedVars, sessionVars, restoreVars, updateVars, hostVars, siteVars>>
Updating ==
    /\ part = "update" /\ UpdateNext
    /\ UNCHANGED <<part, managedVars, sessionVars, restoreVars, guardVars, hostVars, siteVars>>
Moving ==
    /\ part = "address" /\ T!TlsNext
    /\ UNCHANGED <<part, managedVars, sessionVars, restoreVars, guardVars, updateVars, siteVars>>
Serving ==
    /\ part = "sites" /\ S!SitesNext
    /\ UNCHANGED <<part, managedVars, sessionVars, restoreVars, guardVars, updateVars, hostVars>>

HubStep ==
    /\ Managing \/ LoggingIn \/ Restoring \/ Guarding \/ Updating \/ Moving \/ Serving
    /\ UNCHANGED telegramVars

Polling ==
    /\ part = "updates" /\ U!BotUpdatesNext
    /\ UNCHANGED <<campaignVars, reportVars, shopVars, deskVars>>
Campaigning ==
    /\ part = "campaigns" /\ B!BroadcastsNext /\ UNCHANGED cycle
    /\ \A c \in DOMAIN pref : pref'[c].alerts = pref[c].alerts
    /\ UNCHANGED <<botVars, reportVars, shopVars, deskVars>>
Alerting ==
    /\ part = "alerts" /\ B!BroadcastsNext /\ UNCHANGED campaigns
    /\ \A c \in DOMAIN pref : pref'[c].campaigns = pref[c].campaigns
    /\ UNCHANGED <<botVars, reportVars, shopVars, deskVars>>
\* Two rows for one worker, or one row for two.
Reporting ==
    /\ part = "forum" /\ F!ForumNext
    /\ Len(audit') < 2 \/ polling'["w2"].pc = "off"
    /\ UNCHANGED <<botVars, campaignVars, shopVars, deskVars>>
KeepingShop ==
    /\ part = "catalogue" /\ C!BotCatalogueNext
    /\ UNCHANGED <<botVars, campaignVars, reportVars, deskVars>>
KeepingServices ==
    /\ part = "services" /\ D!ServicesNext
    /\ UNCHANGED <<botVars, campaignVars, reportVars, shopVars>>
KeepingDesk ==
    /\ part = "desk" /\ D!DeskNext /\ deeds' < 2
    /\ UNCHANGED <<botVars, campaignVars, reportVars, shopVars>>

BotStep ==
    /\ \/ Polling \/ Campaigning \/ Alerting \/ Reporting \/ KeepingShop \/ KeepingServices
       \/ KeepingDesk
    /\ UNCHANGED <<part, hubVars>>

\* A broker killed between clearing and copying the source has no source to restart from;
\* and nothing goes on when nobody writes to the bot or to the panel any more.
Halted ==
    /\ \/ part = "update" /\ ~webBroker.up /\ app = Partial
       \/ part \in Telegram
    /\ UNCHANGED panelVars

PanelNext == HubStep \/ BotStep \/ Halted
PanelSpec == PanelInit /\ [][PanelNext]_panelVars

------------------------------------------------------------------------------
\* A part that is not exercised keeps its initial state: its types are checked where it runs.

\* The variables of the parts keep their types.
PanelTypeOK ==
    CASE part = "managed"   -> ManagedTypeOK
      [] part = "sessions"  -> SessionTypeOK
      [] part = "restore"   -> RestoreTypeOK
      [] part = "guard"     -> GuardTypeOK
      [] part = "update"    -> UpdateTypeOK
      [] part = "address"   -> T!TlsTypeOK
      [] part = "sites"     -> S!SitesTypeOK
      [] part = "updates"   -> U!BotUpdatesTypeOK
      [] part \in {"campaigns", "alerts"} -> B!BroadcastsTypeOK
      [] part = "forum"     -> F!ForumTypeOK
      [] part = "catalogue" -> C!BotCatalogueTypeOK
      [] part \in {"services", "desk"} -> D!BotServicesTypeOK

\* PanelTls and RestoreSites: whichever step of a tool fails, and mostly wherever it is
\* killed, the panel and the restored domains are reached over whole files.
HostFilesHold ==
    /\ part = "address" => T!AddressHolds
    /\ part = "sites" => S!SitesHold

\* ManagedClients and LegacyRestore: clients of the core the manager does not know are left
\* alone, and a restored subscription is switched on only while it is entitled to be.
ClientsAreKept == ForeignClientUntouched /\ SwitchedOnIsEntitled

\* BotUpdates, BotBroadcasts and BotForum: an update, a broadcast, an alert and a report are
\* each taken on, told and recorded once, whoever is stopped, replaced or killed between the
\* sending and the record, and each exception the code allows is the one named there.
BotDeliveryHolds ==
    /\ part = "updates" => U!UpdatesAreHandled
    /\ part \in {"campaigns", "alerts"} => B!BroadcastsHold
    /\ part = "forum" => F!ForumHolds

\* BotCatalogue and BotServices: a dialogue writes what that dialogue was told, to the
\* product, service, representative or ticket it was begun for, and a customer gets what is
\* for sale, although others write the same rows between its steps.
BotDialoguesHold ==
    /\ part = "catalogue" => C!CatalogueHolds
    /\ part \in {"services", "desk"} => D!ServicesHold
==============================================================================
