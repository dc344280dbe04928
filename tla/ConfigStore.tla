----------------------------- MODULE ConfigStore -----------------------------
(***************************************************************************)
(* The configuration the Hub stores, as the panel's handlers edit it       *)
(* (backend/core.py, backend/server.py): inbounds with their direct and    *)
(* tunnel listeners, outbounds with their chaining, routing rules and      *)
(* balancer groups, hosts, the requested panel port, the customers'        *)
(* attachments and the owner's allowance.                                  *)
(*                                                                         *)
(* Every editing method of CoreEngine holds the engine's lock and is one   *)
(* action.  A handler that goes on in transactions of its own after the    *)
(* engine's is two: between them any other request may run.  What a section*)
(* says beyond the references between its parts is left out; requests come *)
(* from the small sets below, refused ones included.                       *)
(***************************************************************************)
EXTENDS Naturals, FiniteSets, SequencesExt

CONSTANTS
    Inbounds,       \* AUTOINCREMENT identities of inbounds, in the order they are given out
    DataPorts,      \* ports an owner asks for; 0 is "no tunnel port"
    PanelPort,      \* the port the panel listens on, a protected port
    Customers,      \* managed identities
    MaxOwnerEdits   \* bound: requests that change the store

VARIABLES
    inb,       \* inbound -> [port, tun, local, proto], or Gone
    born,      \* inbounds ever created: identities are never given out again
    sec,       \* the sections: [out, rules, group, hosts, panel, sub]
    core,      \* customer -> inbounds the core attaches it to, {} without a row
    row,       \* customer -> [op, ids] of the managed row
    allowed,   \* inbounds in the owner's profile
    matrix,    \* Traffic Matrix rows of the Hub: a set of <<inbound, path>>
    tail,      \* what handlers still have to do after their first transaction
    checked,   \* customer -> the inbounds a request has checked and not yet written
    ownerEdits

storeVars == <<inb, born, sec, core, row, allowed, matrix, tail, checked, ownerEdits>>

Gone == [port |-> 0, tun |-> 0, local |-> FALSE, proto |-> "none"]
Live == {i \in Inbounds : inb[i] # Gone}
NoRow == [op |-> "absent", ids |-> {}]
None == "none"
Paths == {"direct", "tunnel"}

\* One outbound per tag; its value is the tag it dials through, or None.
DefaultOut == [t \in {"direct", "block"} |-> None]
Tags == {"direct", "block", "alt"}
Outs == UNION {[T -> Tags \union {None}] : T \in SUBSET Tags}

\* Requests: sections an owner submits, sensible and not.
OutRequests == {DefaultOut, [t \in {"direct"} |-> None],
                [t \in {"direct", "alt"} |-> IF t = "alt" THEN "direct" ELSE None],
                [t \in {"direct", "alt"} |-> IF t = "alt" THEN "direct" ELSE "alt"],
                [t \in {"direct", "alt"} |-> IF t = "alt" THEN "block" ELSE None]}
Rules == [to : {"alt", "block", "group"}, via : {0} \union Inbounds]
RuleRequests == {{}, {[to |-> "alt", via |-> 0]}, {[to |-> "group", via |-> 0]}}
                    \union {{[to |-> "block", via |-> i]} : i \in Inbounds}
GroupRequests == {{}, {"alt"}}
UrlPaths == {<<>>, <<"s">>, <<"p">>, <<"p", "x">>}
Inbound == [port : DataPorts, tun : {0} \union DataPorts, local : BOOLEAN, proto : {"vless", "trojan"}]

StoreInit ==
    /\ inb = [i \in Inbounds |-> Gone] /\ born = {}
    /\ sec = [out |-> DefaultOut, rules |-> {}, group |-> {}, hosts |-> {},
                                                 panel |-> <<>>, sub |-> <<"s">>]
    /\ core = [c \in Customers |-> {}] /\ row = [c \in Customers |-> NoRow]
    /\ allowed = {} /\ matrix = {} /\ tail = {}
    /\ checked = [c \in Customers |-> {}] /\ ownerEdits = 0

Request == ownerEdits < MaxOwnerEdits /\ ownerEdits' = ownerEdits + 1
Task(do, i) == [do |-> do, id |-> i, out |-> DefaultOut, deployed |-> Gone, ids |-> {}]
Then(t) == tail' = tail \union {t}
\* The Manager holds its own lock from a check to the write that follows.
ManagerFree == (\A c \in Customers : checked[c] = {}) /\ \A t \in tail : t.do # "write"

-----------------------------------------------------------------------------
(* Inbounds.                                                               *)

\* Faulty variant: the new direct port is not compared with the tunnel ports.
FitsDirectly(v, i) ==
    /\ v.port # PanelPort /\ v.tun \notin {v.port, PanelPort}
    /\ \A j \in Live \ {i} :
          /\ inb[j].port # v.port
          /\ v.tun # 0 => inb[j].tun # v.tun /\ ~(inb[j].local /\ inb[j].port = v.tun)

\* save_inbound, the checks against the other inbounds and the protected
\* ports: direct ports are compared wherever they are deployed, tunnel ports
\* with the direct ports of the inbounds the Hub runs.
Fits(v, i) ==
    /\ v.port # PanelPort /\ v.tun \notin {v.port, PanelPort}
    /\ \A j \in Live \ {i} :
          /\ inb[j].port # v.port
          /\ v.tun # 0 => inb[j].tun # v.tun /\ ~(inb[j].local /\ inb[j].port = v.tun)
          /\ inb[j].tun # 0 => ~(v.local /\ v.port = inb[j].tun)

\* POST /api/inbounds: the inbound, then the owner's profile.
AddInbound(i, v) ==
    /\ Request /\ i \notin born /\ \A j \in Inbounds \ born : i <= j
    /\ Fits(v, i)
    /\ inb' = [inb EXCEPT ![i] = v] /\ born' = born \union {i} /\ Then(Task("allow", i))
    /\ UNCHANGED <<sec, core, row, allowed, matrix, checked>>

\* A protocol stays while the core has customers on the inbound.
Replace(i, v) ==
    /\ i \in Live /\ v # inb[i] /\ Fits(v, i)
    /\ v.proto # inb[i].proto => \A c \in Customers : i \notin core[c]
    /\ inb' = [inb EXCEPT ![i] = v]

\* PUT /api/inbounds.
EditInbound(i, v) ==
    /\ Request /\ Replace(i, v)
    /\ UNCHANGED <<born, sec, core, row, allowed, matrix, tail, checked>>

\* PUT /api/inbounds/{id}/deployments: the inbound, as it was read, perhaps
\* before another edit, with its new targets and tunnel port; and later the
\* matrix rows of what is no longer deployed.
Deploy(i, v) ==
    /\ Request /\ (v.tun # 0 => v.local) /\ Replace(i, v)
    /\ Then([Task("prune", i) EXCEPT !.deployed = v])
    /\ UNCHANGED <<born, sec, core, row, allowed, matrix, checked>>

\* delete_inbound: customers, pending ones included, hosts and routing rules
\* hold an inbound.
Held(i) ==
    \/ \E c \in Customers : i \in core[c] \/ i \in row[c].ids
    \/ i \in sec.hosts
    \/ \E r \in sec.rules : r.via = i
DeleteInbound(i) ==
    /\ Request /\ i \in Live /\ ~Held(i)
    /\ inb' = [inb EXCEPT ![i] = Gone] /\ Then(Task("forget", i))
    /\ UNCHANGED <<born, sec, core, row, allowed, matrix, checked>>

\* What the handlers do in transactions of their own.  add_inbound reads the
\* owner's profile, and owner_put looks for its inbounds, in the Manager's lock
\* but not in the engine's, before it writes it with the new one.
Instead(t, u) == tail' = (tail \ {t}) \union {u}
AllowRead(t) ==
    /\ t.do = "allow" /\ Instead(t, [t EXCEPT !.do = "put", !.ids = allowed \union {t.id}])
    /\ UNCHANGED <<inb, born, sec, core, row, allowed, matrix, checked, ownerEdits>>
AllowCheck(t) ==
    /\ t.do = "put" /\ ManagerFree
    /\ IF t.ids \subseteq Live /\ \A c \in Customers : row[c].ids \subseteq t.ids
       THEN Instead(t, [t EXCEPT !.do = "write"]) ELSE tail' = tail \ {t}
    /\ UNCHANGED <<inb, born, sec, core, row, allowed, matrix, checked, ownerEdits>>
AllowWrite(t) ==
    /\ t.do = "write" /\ allowed' = t.ids /\ tail' = tail \ {t}
    /\ UNCHANGED <<inb, born, sec, core, row, matrix, checked, ownerEdits>>
\* The rows are pruned by what the request asked for.
Prune(t) ==
    /\ t.do = "prune"
    /\ matrix' = {m \in matrix : m[1] = t.id =>
                     t.deployed.local /\ (m[2] = "tunnel" => t.deployed.tun # 0)}
    /\ tail' = tail \ {t}
    /\ UNCHANGED <<inb, born, sec, core, row, allowed, checked, ownerEdits>>
Forget(t) ==
    /\ t.do = "forget"
    /\ allowed' = allowed \ {t.id} /\ matrix' = {m \in matrix : m[1] # t.id}
    /\ tail' = tail \ {t}
    /\ UNCHANGED <<inb, born, sec, core, row, checked, ownerEdits>>

-----------------------------------------------------------------------------
(* Sections.                                                               *)

Acyclic(out) ==
    \A t \in DOMAIN out : out[t] # None => out[t] # t /\ (out[out[t]] # None => out[out[t]] # t)
Resolves(out, rules, group) ==
    /\ \A r \in rules : r.to \in DOMAIN out \/ (r.to = "group" /\ group # {})
    /\ group # {} => group \intersect DOMAIN out # {}

\* save_section("outbounds"): chains stay inside the list and end, and what
\* the routing section names stays.
Usable(out) ==
    /\ \A t \in DOMAIN out : out[t] = None \/ out[t] \in DOMAIN out
    /\ Acyclic(out)
    /\ Resolves(out, sec.rules, sec.group)
SaveOutbounds(out) ==
    /\ Request /\ out # sec.out /\ Usable(out)
    /\ sec' = [sec EXCEPT !.out = out]
    /\ UNCHANGED <<inb, born, core, row, allowed, matrix, tail, checked>>

\* save_section("routing") looks at outbounds and balancers; it takes the
\* inbound tags of a rule as they come.
SaveRouting(rules, group) ==
    /\ Request /\ <<rules, group>> # <<sec.rules, sec.group>>
    /\ Resolves(sec.out, rules, group)
    /\ sec' = [sec EXCEPT !.rules = rules, !.group = group]
    /\ UNCHANGED <<inb, born, core, row, allowed, matrix, tail, checked>>

SaveHosts(hosts) ==
    /\ Request /\ hosts # sec.hosts /\ hosts \subseteq Live
    /\ sec' = [sec EXCEPT !.hosts = hosts]
    /\ UNCHANGED <<inb, born, core, row, allowed, matrix, tail, checked>>

\* save_section("runtime") and ("subscription"): the path under which the panel
\* is served, <<>> for the root, and that of the subscriptions do not overlap.
Overlap(panel, sub) == panel # <<>> /\ (IsPrefix(panel, sub) \/ IsPrefix(sub, panel))
SaveRuntime(path) ==
    /\ Request /\ path # sec.panel /\ ~Overlap(path, sec.sub)
    /\ sec' = [sec EXCEPT !.panel = path]
    /\ UNCHANGED <<inb, born, core, row, allowed, matrix, tail, checked>>
SaveSubscription(path) ==
    /\ Request /\ path # sec.sub /\ path # <<>> /\ ~Overlap(sec.panel, path)
    /\ sec' = [sec EXCEPT !.sub = path]
    /\ UNCHANGED <<inb, born, core, row, allowed, matrix, tail, checked>>

-----------------------------------------------------------------------------
(* The Traffic Matrix: the path is checked and the outbounds its rules need*)
(* are read; they are saved, and the row written, later.                   *)

ReadMatrix(i, path) ==
    /\ Request /\ i \in Live /\ inb[i].local /\ (path = "tunnel" => inb[i].tun # 0)
    /\ tail' = tail \union {[Task(path, i) EXCEPT !.out = sec.out]}
    /\ UNCHANGED <<inb, born, sec, core, row, allowed, matrix, checked>>

WithBase(out) == [t \in DOMAIN out \union {"direct", "block"} |-> IF t \in DOMAIN out THEN out[t] ELSE None]
WriteMatrix(t) ==
    /\ t.do \in Paths /\ tail' = tail \ {t}
    /\ IF t.out = WithBase(t.out)
       THEN sec' = sec /\ matrix' = matrix \union {<<t.id, t.do>>}
       ELSE IF Usable(WithBase(t.out))
       THEN sec' = [sec EXCEPT !.out = WithBase(t.out)] /\ matrix' = matrix \union {<<t.id, t.do>>}
       ELSE UNCHANGED <<sec, matrix>>
    /\ UNCHANGED <<inb, born, core, row, allowed, checked, ownerEdits>>

-----------------------------------------------------------------------------
(* Customers: the Manager checks the inbounds of a request and then writes *)
(* the row; a reconciliation pass brings the core to it.                   *)

CheckInbounds(c, ids) ==
    /\ Request /\ ManagerFree /\ ids # {} /\ row[c].op # "deleted"
    /\ ids \subseteq allowed /\ ids \subseteq Live
    /\ checked' = [checked EXCEPT ![c] = ids]
    /\ UNCHANGED <<inb, born, sec, core, row, allowed, matrix, tail>>
WriteRow(c) ==
    /\ checked[c] # {}
    /\ row' = [row EXCEPT ![c] = [op |-> "upsert", ids |-> checked[c]]]
    /\ checked' = [checked EXCEPT ![c] = {}]
    /\ UNCHANGED <<inb, born, sec, core, allowed, matrix, tail, ownerEdits>>
DeleteCustomer(c) ==
    /\ Request /\ row[c].op \in {"none", "upsert"} /\ ManagerFree
    /\ row' = [row EXCEPT ![c].op = "delete"]
    /\ UNCHANGED <<inb, born, sec, core, allowed, matrix, tail, checked>>

\* upsert_many, and the engine's create, attach and detach, refuse an inbound
\* that is not there: the row stays pending.
Reconcile(c) ==
    /\ ManagerFree
    /\ \/ /\ row[c].op = "upsert" /\ row[c].ids \subseteq Live
          /\ core' = [core EXCEPT ![c] = row[c].ids] /\ row' = [row EXCEPT ![c].op = "none"]
       \/ /\ row[c].op = "delete"
          /\ core' = [core EXCEPT ![c] = {}]
          /\ row' = [row EXCEPT ![c] = [op |-> "deleted", ids |-> {}]]
    /\ UNCHANGED <<inb, born, sec, allowed, matrix, tail, checked, ownerEdits>>

\* Handlers go no further when the panel is killed, or when a step of theirs
\* between two transactions raises.
PanelDies ==
    /\ tail # {} /\ \E left \in SUBSET tail : left # tail /\ tail' = left
    /\ checked' \in {checked, [c \in Customers |-> {}]}
    /\ UNCHANGED <<inb, born, sec, core, row, allowed, matrix, ownerEdits>>

StoreNext ==
    \/ \E i \in Inbounds, v \in Inbound : AddInbound(i, v) \/ EditInbound(i, v) \/ Deploy(i, v)
    \/ \E i \in Inbounds : DeleteInbound(i)
    \/ \E t \in tail : AllowRead(t) \/ AllowCheck(t) \/ AllowWrite(t) \/ Prune(t) \/ Forget(t) \/ WriteMatrix(t)
    \/ \E out \in OutRequests : SaveOutbounds(out)
    \/ \E rules \in RuleRequests, group \in GroupRequests : SaveRouting(rules, group)
    \/ \E hosts \in SUBSET Inbounds : SaveHosts(hosts)
    \/ \E path \in UrlPaths : SaveRuntime(path) \/ SaveSubscription(path)
    \/ \E i \in Inbounds, path \in Paths : ReadMatrix(i, path)
    \/ \E c \in Customers, ids \in SUBSET Inbounds : CheckInbounds(c, ids)
    \/ PanelDies
    \/ \E c \in Customers : WriteRow(c) \/ DeleteCustomer(c) \/ Reconcile(c)

StoreSpec == StoreInit /\ [][StoreNext]_storeVars

-----------------------------------------------------------------------------
StoreTypeOK ==
    /\ inb \in [Inbounds -> Inbound \union {Gone}] /\ born \subseteq Inbounds
    /\ sec.out \in Outs /\ sec.rules \subseteq Rules /\ sec.group \subseteq Tags
    /\ sec.hosts \subseteq Inbounds /\ sec.panel \in UrlPaths /\ sec.sub \in UrlPaths
    /\ core \in [Customers -> SUBSET Inbounds]
    /\ row \in [Customers -> [op : {"absent", "upsert", "none", "delete", "deleted"}, ids : SUBSET Inbounds]]
    /\ allowed \subseteq Inbounds /\ matrix \subseteq Inbounds \X Paths
    /\ tail \subseteq [do : {"allow", "put", "write", "prune", "forget"} \union Paths, id : Inbounds,
                       out : Outs, deployed : Inbound \union {Gone}, ids : SUBSET Inbounds]
    /\ checked \in [Customers -> SUBSET Inbounds] /\ ownerEdits \in 0..MaxOwnerEdits

\* Sockets the compiled configuration opens on the Hub: one per local inbound,
\* and a shadow of it on its tunnel port.
Listeners == {l \in Inbounds \X Paths :
                 inb[l[1]].local /\ (l[2] = "tunnel" => inb[l[1]].tun # 0)}
PortOf(l) == IF l[2] = "tunnel" THEN inb[l[1]].tun ELSE inb[l[1]].port

\* Whatever the order of accepted requests, with customers being created while
\* inbounds are deleted and the matrix saving outbounds it read earlier
\* (core.py save_section, save_inbound, delete_inbound, upsert_many): no two
\* listeners share a port or take the panel's, chains end, rules and groups
\* find an outbound, the subscriptions are not hidden by the panel's path, hosts
\* and attached customers have an inbound that is there, and a customer whose row is settled has exactly the row's inbounds.
StoreIsClosed ==
    /\ \A l, m \in Listeners : PortOf(l) # PanelPort /\ (l # m => PortOf(l) # PortOf(m))
    /\ Usable(sec.out)
    /\ sec.hosts \subseteq Live /\ ~Overlap(sec.panel, sec.sub)
    /\ \A c \in Customers : core[c] \subseteq Live /\ (row[c].op = "none" => core[c] = row[c].ids)
=============================================================================
