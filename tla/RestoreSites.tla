----------------------------- MODULE RestoreSites -----------------------------
(***************************************************************************)
(* TLS frontend of imported subscription domains (tools/restore_tls.py): a *)
(* dedicated nginx whose main file, unit and hook are shared and which     *)
(* includes one file per domain.  An activation writes them all, reloads   *)
(* or starts nginx, verifies it and only then marks the domain ready; it   *)
(* puts everything back when a step fails.  Activations hold a lock file.  *)
(***************************************************************************)
EXTENDS Naturals

CONSTANTS
    Sites,          \* imported domains
    MaxPorts,       \* bounds: endpoints imported per domain, runs, failing steps, kills
    MaxSetups,
    MaxSetupFaults,
    MaxSetupKills

VARIABLES
    imported,   \* restore_subscriptions: endpoints of each domain
    site,       \* the file of each domain, as the endpoints it listens on; 0 without
    common,     \* the shared files: main file, unit, hook
    nginx,      \* what the running nginx serves of each domain; Stopped
    onBoot,     \* the unit is enabled
    ready,      \* restore_domains: ssl_status is ready
    setup,      \* the activation in progress
    setups, setupFaults, setupKills,
    untold      \* history: a reload of the rollback failed, which is not checked

siteVars == <<imported, site, common, nginx, onBoot, ready, setup, setups, setupFaults,
              setupKills, untold>>

Shared == {"main", "unit", "hook"}
Stopped == [d \in Sites |-> 0]
NoSetup == [pc |-> "none", dom |-> "none", plan |-> 0, wasActive |-> FALSE,
            oldSite |-> 0, oldCommon |-> {}]
Active == nginx # Stopped

SitesInit ==
    /\ imported = [d \in Sites |-> 0] /\ site = Stopped /\ common = {} /\ nginx = Stopped
    /\ onBoot = FALSE /\ ready = [d \in Sites |-> FALSE] /\ setup = NoSetup
    /\ setups = 0 /\ setupFaults = 0 /\ setupKills = 0 /\ untold = FALSE

At(step) == setup.pc = step
To(step) == setup' = [setup EXCEPT !.pc = step]
SetupFault == setupFaults < MaxSetupFaults /\ setupFaults' = setupFaults + 1

\* nginx -t and then every file that is included.
Usable == "main" \in common
Serves == nginx' = site

Import(d) ==
    /\ imported[d] < MaxPorts /\ imported' = [imported EXCEPT ![d] = @ + 1]
    /\ UNCHANGED <<site, common, nginx, onBoot, ready, setup, setups, setupFaults, setupKills,
                   untold>>

\* plan and the checks of activate; the certificate is issued before any file is written.
Activate(d) ==
    /\ setup = NoSetup /\ imported[d] > 0 /\ setups < MaxSetups /\ setups' = setups + 1
    /\ setup' = [pc |-> "main", dom |-> d, plan |-> imported[d], wasActive |-> Active,
                 oldSite |-> site[d], oldCommon |-> common]
    /\ UNCHANGED <<imported, site, common, nginx, onBoot, ready, setupFaults, setupKills, untold>>

OnDisk == UNCHANGED <<imported, nginx, onBoot, ready, setups, setupFaults, setupKills, untold>>

WriteShared(f, step, next) ==
    /\ At(step) /\ common' = common \union {f} /\ To(next) /\ UNCHANGED site /\ OnDisk

WriteMain == WriteShared("main", "main", "site")
WriteSite ==
    /\ At("site") /\ site' = [site EXCEPT ![setup.dom] = setup.plan] /\ To("unit")
    /\ UNCHANGED common /\ OnDisk
WriteUnit == WriteShared("unit", "unit", "hook")
WriteSiteHook == WriteShared("hook", "hook", "reload")

Reload ==
    /\ At("reload") /\ Usable /\ Serves /\ To("verify")
    /\ UNCHANGED <<imported, site, common, onBoot, ready, setups, setupFaults, setupKills,
                   untold>>

\* Every endpoint answers through this nginx; then it is enabled.
VerifyAndEnable ==
    /\ At("verify") /\ nginx[setup.dom] = setup.plan /\ onBoot' = TRUE /\ To("record")
    /\ UNCHANGED <<imported, site, common, nginx, ready, setups, setupFaults, setupKills, untold>>

MarkReady ==
    /\ At("record") /\ ready' = [ready EXCEPT ![setup.dom] = TRUE] /\ setup' = NoSetup
    /\ UNCHANGED <<imported, site, common, nginx, onBoot, setups, setupFaults, setupKills,
                   untold>>

\* The files of the managed set go back to what they were.
SavedFiles ==
    site' = [site EXCEPT ![setup.dom] = setup.oldSite] /\ common' = setup.oldCommon

\* A step fails.  nginx is stopped, or reloaded, and whether that worked is not looked at;
\* the unit is not disabled again.
SetupFails ==
    /\ setup.pc \in {"main", "site", "unit", "hook", "reload", "verify"} /\ SetupFault
    /\ SavedFiles /\ setup' = NoSetup
    /\ \/ /\ nginx' = IF ~setup.wasActive THEN Stopped ELSE site'
          /\ UNCHANGED untold
       \/ /\ setup.wasActive /\ nginx' \in {nginx, site} /\ untold' = TRUE
    /\ \/ UNCHANGED onBoot
       \/ At("verify") /\ onBoot' = TRUE
    /\ UNCHANGED <<imported, ready, setups, setupKills>>

SetupKilled ==
    /\ setup # NoSetup /\ setupKills < MaxSetupKills /\ setupKills' = setupKills + 1
    /\ setup' = NoSetup
    /\ UNCHANGED <<imported, site, common, nginx, onBoot, ready, setups, setupFaults, untold>>

\* The host restarts, also in the middle of an activation, which is gone then.
SiteBoot ==
    /\ setup = NoSetup
    /\ IF onBoot /\ Usable /\ "unit" \in common THEN Serves ELSE nginx' = Stopped
    /\ UNCHANGED <<imported, site, common, onBoot, ready, setup, setups, setupFaults, setupKills,
                   untold>>

SitesNext ==
    \/ \E d \in Sites : Import(d) \/ Activate(d)
    \/ WriteMain \/ WriteSite \/ WriteUnit \/ WriteSiteHook \/ Reload \/ VerifyAndEnable
    \/ MarkReady \/ SetupFails \/ SetupKilled \/ SiteBoot

SitesSpec == SitesInit /\ [][SitesNext]_siteVars

-----------------------------------------------------------------------------
\* Files, processes and rows.
SitesTypeOK ==
    /\ imported \in [Sites -> 0..MaxPorts] /\ site \in [Sites -> 0..MaxPorts]
    /\ nginx \in [Sites -> 0..MaxPorts] /\ common \subseteq Shared
    /\ ready \in [Sites -> BOOLEAN] /\ setup.dom \in Sites \union {"none"}

\* A domain that was marked ready stays on disk, and its frontend comes back after a
\* restart, whatever happens to later activations of this or another domain; and without
\* a kill or an unnoticed reload nginx serves what is on disk.
SitesHold ==
    /\ \A d \in Sites : ready[d] => site[d] > 0 /\ onBoot /\ Shared \subseteq common
    /\ setup = NoSetup /\ setupKills = 0 /\ ~untold /\ Active => nginx = site
===============================================================================
