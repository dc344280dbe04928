------------------------------- MODULE PanelTls -------------------------------
(***************************************************************************)
(* Address of the panel on its host: tools/settings_apply.py moves it      *)
(* between SSH-only HTTP and a domain with TLS, tools/domain.py provisions *)
(* the certificate of a domain and renews it from Certbot's hook.  Each    *)
(* replaces several files, restarts the service and puts the files back    *)
(* when that fails.  One tool runs at a time; it may be killed anywhere.   *)
(***************************************************************************)
EXTENDS Naturals, FiniteSets

CONSTANTS
    Domains,
    PanelPorts,
    Guarded,            \* is there an IP guard on this host?
    MaxTools,           \* bounds: tools started, renewals, failing steps, kills
    MaxRenewals,
    MaxBroken,
    MaxKills

VARIABLES
    disk,       \* config.json, cert.pem, key.pem, guard.json, tls-source.json, the renewal hook
    served,     \* what dark-xray.service has loaded; Down
    guardUp,    \* the port the running guard protects
    lineage,    \* Certbot: generation of the certificate of each domain
    tool,       \* the program at work: where it is, what it does and what it remembers
    toolRuns, broken, kills,
    torn,       \* history: killed between the two files of a pair
    critical    \* history: a tool said it could not put the panel back

tlsVars == <<disk, served, guardUp, lineage, tool, toolRuns, broken, kills, torn, critical>>

NoPair == [dom |-> "none", gen |-> 0]
Plain(p) == [mode |-> "ssh", dom |-> "none", port |-> p]
Secure(d, p) == [mode |-> "domain_tls", dom |-> d, port |-> p]
PanelAddresses == {Plain(p) : p \in PanelPorts} \union {Secure(d, p) : d \in Domains, p \in PanelPorts}
Down == [cfg |-> Plain(0), pair |-> NoPair]
FirstPort == CHOOSE p \in PanelPorts : \A q \in PanelPorts : p <= q
GuardFor(p) == IF Guarded THEN p ELSE 0
NoTool == [pc |-> "none", job |-> "none", cand |-> Plain(0), pair |-> NoPair,
           was |-> [cfg |-> Plain(0), cert |-> NoPair, key |-> NoPair, guard |-> 0,
                    src |-> "none", hook |-> "none"]]

TlsInit ==
    /\ disk = [cfg |-> Plain(FirstPort), cert |-> NoPair, key |-> NoPair,
               guard |-> GuardFor(FirstPort), src |-> "none", hook |-> "none"]
    /\ served = [cfg |-> disk.cfg, pair |-> NoPair] /\ guardUp = disk.guard
    /\ lineage = [d \in Domains |-> 0]
    /\ tool = NoTool /\ toolRuns = 0 /\ broken = 0 /\ kills = 0
    /\ torn = FALSE /\ critical = FALSE

Running(step) == tool.pc = step
Goes(step) == tool' = [tool EXCEPT !.pc = step]
Breaks == broken < MaxBroken /\ broken' = broken + 1
toolBounds == <<toolRuns, broken, kills>>

\* The service starts with a TLS configuration only if the two files belong together.
Startable(files) ==
    files.cfg.mode = "domain_tls" => files.cert = files.key /\ files.cert # NoPair

Loaded(files) ==
    [cfg |-> files.cfg, pair |-> IF files.cfg.mode = "domain_tls" THEN files.cert ELSE NoPair]

\* _restart_checked of the panel, and of the guard if there is one.
Restarts(files) == served' = Loaded(files) /\ guardUp' = files.guard

---------------------------------------------------------------------------
(* The owner and Certbot *)

\* build_plan: with the certificate of this domain in place nothing is issued.
TlsReady(a) ==
    /\ disk.cfg.mode = "domain_tls" /\ disk.cfg.dom = a.dom
    /\ disk.cert # NoPair /\ disk.key # NoPair

Tool(step, job, a) ==
    [pc |-> step, job |-> job, cand |-> a, pair |-> disk.cert, was |-> disk]

Starts == tool = NoTool /\ toolRuns < MaxTools /\ toolRuns' = toolRuns + 1

\* settings_apply of the address staged in the runtime section: validate_desired and
\* build_plan, then apply_settings.
ApplySettings(a) ==
    /\ Starts /\ disk.cfg # a
    /\ tool' = Tool(IF a.mode = "ssh" \/ TlsReady(a) THEN "config" ELSE "issue", "apply", a)
    /\ UNCHANGED <<disk, served, guardUp, lineage, broken, kills, torn, critical>>

\* domain.py for a domain on the command line.
Provision(d, p) ==
    /\ Starts /\ tool' = Tool("issue", "provision", Secure(d, p))
    /\ UNCHANGED <<disk, served, guardUp, lineage, broken, kills, torn, critical>>

\* A renewed lineage runs the hook; domain.py --renew works for the panel's domain only.
RenewedBy(d) == disk.hook = d /\ disk.src # "none"

\* _renewal_source_active
SourceActive == disk.cfg.mode = "domain_tls" /\ disk.cfg.dom = disk.src

Certbot(d) ==
    /\ tool = NoTool /\ lineage[d] \in 1..MaxRenewals
    /\ lineage' = [lineage EXCEPT ![d] = @ + 1]
    /\ tool' = IF RenewedBy(d) /\ SourceActive THEN Tool("renew", "renew", disk.cfg) ELSE NoTool
    /\ UNCHANGED <<disk, served, guardUp, toolBounds, torn, critical>>

---------------------------------------------------------------------------
(* Provisioning and renewal *)

\* certbot certonly, then _prepare_pair checks what it left.
Issue ==
    /\ Running("issue")
    /\ LET d == tool.cand.dom
           g == IF lineage[d] = 0 THEN 1 ELSE lineage[d]
       IN /\ lineage' = [lineage EXCEPT ![d] = g]
          /\ tool' = [tool EXCEPT !.pc = "cert", !.pair = [dom |-> d, gen |-> g], !.was = disk]
    /\ UNCHANGED <<disk, served, guardUp, toolBounds, torn, critical>>

\* _renew reads the renewed pair of its source.
Renew ==
    /\ Running("renew")
    /\ tool' = [tool EXCEPT !.pc = "cert", !.was = disk,
                            !.pair = [dom |-> disk.src, gen |-> lineage[disk.src]]]
    /\ UNCHANGED <<disk, served, guardUp, lineage, toolBounds, torn, critical>>

\* Nothing has been changed yet: ACME fails, or the new material is invalid.
Refuse ==
    /\ tool.pc \in {"issue", "renew"} /\ Breaks /\ tool' = NoTool
    /\ UNCHANGED <<disk, served, guardUp, lineage, toolRuns, kills, torn, critical>>

Writes == UNCHANGED <<served, guardUp, lineage, toolBounds, torn, critical>>

\* _copy_pair_bytes: two files, one after the other.
WriteCert == Running("cert") /\ disk' = [disk EXCEPT !.cert = tool.pair] /\ Goes("key") /\ Writes
WriteKey ==
    /\ Running("key") /\ disk' = [disk EXCEPT !.key = tool.pair]
    /\ Goes(IF tool.job = "renew" THEN "restart" ELSE "guard") /\ Writes

\* _activate_tls writes the guard first, _activate_candidate the configuration.
NewGuard == [disk EXCEPT !.guard = GuardFor(tool.cand.port)]
NewConfig == [disk EXCEPT !.cfg = tool.cand]
WriteGuard == Running("guard") /\ disk' = NewGuard /\ Goes("tlsconfig") /\ Writes
WriteTlsConfig == Running("tlsconfig") /\ disk' = NewConfig /\ Goes("restart") /\ Writes
WriteConfig == Running("config") /\ disk' = NewConfig /\ Goes("configguard") /\ Writes
WriteConfigGuard == Running("configguard") /\ disk' = NewGuard /\ Goes("reload") /\ Writes

\* Both services restart; domain.py then reads the health over the new certificate.
Restart ==
    /\ tool.pc \in {"restart", "reload"} /\ Startable(disk) /\ Restarts(disk)
    /\ IF Running("restart") /\ tool.job # "renew" THEN Goes("source")
       ELSE IF Running("reload") /\ tool.cand.mode = "ssh" THEN Goes("unhook")
       ELSE tool' = NoTool
    /\ UNCHANGED <<disk, lineage, toolBounds, torn, critical>>

\* _install_renewal_metadata; settings_apply then activates what is left of its settings.
WriteSource ==
    Running("source") /\ disk' = [disk EXCEPT !.src = tool.cand.dom] /\ Goes("hook") /\ Writes
WriteHook ==
    /\ Running("hook") /\ disk' = [disk EXCEPT !.hook = tool.cand.dom] /\ Writes
    /\ tool' = IF tool.job = "apply"
               THEN [tool EXCEPT !.pc = "config", !.was = [disk EXCEPT !.hook = tool.cand.dom]]
               ELSE NoTool

\* _deactivate_tls_renewal, the hook first.
RemoveHook ==
    Running("unhook") /\ disk' = [disk EXCEPT !.hook = "none"] /\ Goes("unsource") /\ Writes
RemoveSource ==
    Running("unsource") /\ disk' = [disk EXCEPT !.src = "none"] /\ tool' = NoTool /\ Writes

---------------------------------------------------------------------------
(* Failures *)

Undone == {"cert", "key", "guard", "tlsconfig", "restart", "config", "configguard", "reload",
           "source", "hook"}

\* A step fails; a restart that fails has taken the old process down.
StepFails ==
    /\ tool.pc \in Undone
    /\ Breaks \/ (tool.pc \in {"restart", "reload"} /\ ~Startable(disk) /\ UNCHANGED broken)
    /\ served' = IF tool.pc \in {"restart", "reload"} THEN Down ELSE served
    /\ Goes("undo")
    /\ UNCHANGED <<disk, guardUp, lineage, toolRuns, kills, torn, critical>>

\* Faulty variant: an activation that fails leaves the new pair.
ForgetCert == UNCHANGED disk

\* _restore_runtime: configuration, guard and renewal metadata, then the two files of the
\* pair, then the services.
UndoConfig ==
    /\ Running("undo") /\ Goes("undocert") /\ Writes
    /\ disk' = [tool.was EXCEPT !.cert = disk.cert, !.key = disk.key]
RestoreCert == disk' = [disk EXCEPT !.cert = tool.was.cert]
UndoCert == Running("undocert") /\ RestoreCert /\ Goes("undokey") /\ Writes

RestoreKey == disk' = [disk EXCEPT !.key = tool.was.key]
UndoKey ==
    /\ Running("undokey") /\ RestoreKey /\ Startable(tool.was) /\ Restarts(tool.was)
    /\ tool' = NoTool
    /\ UNCHANGED <<lineage, toolBounds, torn, critical>>

\* CRITICAL: the files are back, the service is not.
UndoFails ==
    /\ Running("undokey") /\ RestoreKey
    /\ served' = Down /\ critical' = TRUE /\ tool' = NoTool
    /\ UNCHANGED <<guardUp, lineage, toolBounds, torn>>

\* The removal of the renewal fails after the panel has been moved: nothing is undone.
UnhookFails ==
    /\ tool.pc \in {"unhook", "unsource"} /\ Breaks /\ tool' = NoTool
    /\ UNCHANGED <<disk, served, guardUp, lineage, toolRuns, kills, torn, critical>>

\* A hangup of the operator's terminal, or the host goes down.
Killed ==
    /\ tool # NoTool /\ kills < MaxKills /\ kills' = kills + 1
    /\ tool' = NoTool /\ torn' = (torn \/ disk.cert # disk.key)
    /\ UNCHANGED <<disk, served, guardUp, lineage, toolRuns, broken, critical>>

\* systemd, or the next boot, starts what it finds.
Boot ==
    /\ tool = NoTool
    /\ IF Startable(disk) THEN Restarts(disk) ELSE served' = Down /\ guardUp' = disk.guard
    /\ UNCHANGED <<disk, lineage, tool, toolBounds, torn, critical>>

---------------------------------------------------------------------------
TlsNext ==
    \/ \E a \in PanelAddresses : ApplySettings(a)
    \/ \E d \in Domains : Certbot(d) \/ \E p \in PanelPorts : Provision(d, p)
    \/ Issue \/ Renew \/ Refuse
    \/ WriteCert \/ WriteKey \/ WriteGuard \/ WriteTlsConfig \/ WriteConfig \/ WriteConfigGuard
    \/ Restart \/ WriteSource \/ WriteHook \/ RemoveHook \/ RemoveSource
    \/ StepFails \/ UndoConfig \/ UndoCert \/ UndoKey \/ UndoFails \/ UnhookFails \/ Killed \/ Boot

TlsSpec == TlsInit /\ [][TlsNext]_tlsVars

---------------------------------------------------------------------------
Pairs == {NoPair} \union [dom : Domains, gen : 1..MaxRenewals+1]

\* Files, processes and the tool at work.
TlsTypeOK ==
    /\ disk.cfg \in PanelAddresses /\ disk.cert \in Pairs /\ disk.key \in Pairs
    /\ disk.guard \in PanelPorts \union {0}
    /\ disk.src \in Domains \union {"none"} /\ disk.hook \in Domains \union {"none"}
    /\ served = Down \/ (served.cfg \in PanelAddresses /\ served.pair \in Pairs)

\* Outside the tools the panel is up with the files on disk, its certificate is of its own
\* domain and is renewed, and the guard protects its port: whichever step of which tool
\* failed.
PanelIsWhole ==
    tool = NoTool /\ kills = 0 /\ ~critical =>
        /\ served = Loaded(disk) /\ guardUp = disk.guard
        /\ disk.guard = GuardFor(disk.cfg.port)
        /\ disk.cfg.mode = "domain_tls" =>
              /\ disk.cert.dom = disk.cfg.dom /\ disk.src = disk.cfg.dom
              /\ disk.hook = disk.cfg.dom

\* A tool that was killed, or gave up, leaves a panel that starts, unless it died between
\* the two files of the pair in use.
PanelStarts == tool = NoTool /\ ~torn => Startable(disk)

\* Both of the above.
AddressHolds == PanelIsWhole /\ PanelStarts
================================================================================
