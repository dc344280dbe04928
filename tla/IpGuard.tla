-------------------------------- MODULE IpGuard --------------------------------
(***************************************************************************)
(* The address limit of one client (Guard in dark_policy.py, sync_ip_guard *)
(* and read_ip_log in core.py) and the root-owned broker that blocks an    *)
(* address in nftables (guardd.py).  The statistics loop and every request *)
(* that asks for a client's activity read the access log, each replaying   *)
(* the bans that SQLite still holds before it judges new lines; the owner  *)
(* releases addresses and changes the mode meanwhile; the Hub and the      *)
(* broker die and come back on their own.  Time passes in phases: a ban is *)
(* long, in its last ten seconds, or over; an observation is recent or     *)
(* forgotten.  The client's group of data ports does not change.           *)
(***************************************************************************)
EXTENDS Integers, FiniteSets

CONSTANTS
    Addresses,      \* source addresses the core logs
    LogReaders,     \* threads inside read_ip_log
    LimitIp         \* the client's limit_ip; 0: no limit

ASSUME GuardAssumption == IsFiniteSet(Addresses) /\ LimitIp \in Nat

VARIABLES
    mode,       \* the section ipguard: observe or enforce
    seen,       \* observations: none, granted or refused within the window
    bans,       \* the table bans: the phase of an applied row, or off
    dropped,    \* addresses in the sets of nftables, which the broker's leases mirror
    broker,     \* up or down
    armed,      \* _guard_executor is set
    reader,     \* each thread: position, bans to replay, address at hand
    hand,       \* the owner's request under way
    unbacked    \* addresses taken out of nftables by a restart or by hand since blocked

guardVars == <<mode, seen, bans, dropped, broker, armed, reader, hand, unbacked>>

Phases == {"off", "long", "short"}
Away == [pc |-> "away", todo |-> {}, short |-> {}, ip |-> {}]
Rest == [op |-> "rest", ip |-> {}]

GuardInit ==
    /\ mode = "observe" /\ broker = "up" /\ armed = FALSE
    /\ seen = [i \in Addresses |-> "none"] /\ bans = [i \in Addresses |-> "off"]
    /\ dropped = {} /\ unbacked = {} /\ hand = Rest
    /\ reader = [t \in LogReaders |-> Away]

Held == {i \in Addresses : bans[i] # "off"}
To(t, r) == reader' = [reader EXCEPT ![t] = r]
Block(i) == dropped' = dropped \union {i} /\ unbacked' = unbacked \ {i}

---------------------------------------------------------------------------
(* read_ip_log *)

\* sync_ip_guard: the policy, the broker's status, the bans not yet expired.
SyncStart(t) ==
    /\ reader[t].pc = "away" /\ armed' = FALSE
    /\ To(t, [pc |-> IF mode = "enforce" /\ broker = "up" THEN "replay" ELSE "log",
              ip |-> {}, todo |-> IF mode = "enforce" /\ broker = "up" THEN Held ELSE {},
              short |-> IF mode = "enforce" /\ broker = "up"
                        THEN {i \in Held : bans[i] = "short"} ELSE {}])
    /\ UNCHANGED <<mode, seen, bans, dropped, broker, hand, unbacked>>

\* The broker accepts ten seconds or more; a refusal ends the replay and leaves the guard
\* without an executor.
Replay(t, i) ==
    LET r == reader[t]
        refused == broker = "down" \/ i \in r.short
    IN /\ r.pc = "replay" /\ i \in r.todo
       /\ IF refused THEN UNCHANGED <<dropped, unbacked>> ELSE Block(i)
       /\ To(t, IF refused THEN [Away EXCEPT !.pc = "log"] ELSE [r EXCEPT !.todo = @ \ {i}])
       /\ UNCHANGED <<mode, seen, bans, broker, armed, hand>>

SyncDone(t) ==
    /\ reader[t].pc = "replay" /\ reader[t].todo = {}
    /\ armed' = TRUE /\ To(t, [Away EXCEPT !.pc = "log"])
    /\ UNCHANGED <<mode, seen, bans, dropped, broker, hand, unbacked>>

Granted == {i \in Addresses : seen[i] = "granted"}

Grant(i) == LimitIp = 0 \/ i \in Granted \/ Cardinality(Granted) < LimitIp

\* Guard.observe, its first transaction, for a line of address i.
Observe(t, i) ==
    LET banned == bans[i] # "off"
        refuse == ~banned /\ ~Grant(i)
    IN /\ reader[t].pc = "log"
       /\ seen' = IF banned THEN seen
                  ELSE [seen EXCEPT ![i] = IF Grant(i) THEN "granted" ELSE "refused"]
       /\ To(t, IF refuse /\ armed THEN [reader[t] EXCEPT !.pc = "ban", !.ip = {i}] ELSE Away)
       /\ UNCHANGED <<mode, bans, dropped, broker, armed, hand, unbacked>>

\* No new line.
LogEnds(t) ==
    /\ reader[t].pc = "log" /\ To(t, Away)
    /\ UNCHANGED <<mode, seen, bans, dropped, broker, armed, hand, unbacked>>

Ban(t) ==
    /\ reader[t].pc = "ban" /\ broker = "up"
    /\ dropped' = dropped \union reader[t].ip /\ unbacked' = unbacked \ reader[t].ip
    /\ To(t, [reader[t] EXCEPT !.pc = "record"])
    /\ UNCHANGED <<mode, seen, bans, broker, armed, hand>>

\* Faulty variant: a ban the broker did not take is recorded all the same.
HopefulBanFails(t) ==
    /\ reader[t].pc = "ban" /\ To(t, [reader[t] EXCEPT !.pc = "record"])
    /\ UNCHANGED <<mode, seen, bans, dropped, broker, armed, hand, unbacked>>

\* The broker is away, or its answer is lost: enforcement_failed.
BanFails(t) ==
    /\ reader[t].pc = "ban" /\ To(t, Away)
    /\ dropped' \in IF broker = "up" THEN {dropped, dropped \union reader[t].ip} ELSE {dropped}
    /\ unbacked' = unbacked \ dropped'
    /\ UNCHANGED <<mode, seen, bans, broker, armed, hand>>

Record(t) ==
    /\ reader[t].pc = "record"
    /\ bans' = [i \in Addresses |-> IF i \in reader[t].ip
                    THEN "long" ELSE bans[i]]
    /\ To(t, Away)
    /\ UNCHANGED <<mode, seen, dropped, broker, armed, hand, unbacked>>

---------------------------------------------------------------------------
(* The owner *)

\* save_section: enforcement ends only after the broker has released every address.
ClearAll ==
    /\ hand = Rest /\ mode = "enforce" /\ broker = "up"
    /\ dropped' = {} /\ unbacked' = unbacked \union dropped /\ hand' = [op |-> "observe", ip |-> {}]
    /\ UNCHANGED <<mode, seen, bans, broker, armed, reader>>

ModeObserve ==
    /\ hand.op = "observe" /\ hand' = Rest /\ mode' = "observe"
    /\ bans' = [i \in Addresses |-> "off"]
    /\ UNCHANGED <<seen, dropped, broker, armed, reader, unbacked>>

ModeEnforce ==
    /\ hand = Rest /\ mode = "observe" /\ mode' = "enforce"
    /\ UNCHANGED <<seen, bans, dropped, broker, armed, reader, hand, unbacked>>

\* unban_ip: the broker first, the rows afterwards.
Release(i) ==
    /\ hand = Rest /\ broker = "up"
    /\ dropped' = dropped \ {i} /\ unbacked' = unbacked \union ({i} \intersect dropped)
    /\ hand' = [op |-> "unban", ip |-> {i}]
    /\ UNCHANGED <<mode, seen, bans, broker, armed, reader>>

UnbanRows ==
    /\ hand.op = "unban" /\ hand' = Rest
    /\ bans' = [i \in Addresses |-> IF i \in hand.ip THEN "off" ELSE bans[i]]
    /\ seen' = [i \in Addresses |-> IF i \in hand.ip /\ seen[i] = "refused" THEN "none"
                                    ELSE seen[i]]
    /\ UNCHANGED <<mode, dropped, broker, armed, reader, unbacked>>

ClearIps ==
    /\ seen' = [i \in Addresses |-> "none"] /\ seen' # seen
    /\ UNCHANGED <<mode, bans, dropped, broker, armed, reader, hand, unbacked>>

---------------------------------------------------------------------------
(* Time and crashes *)

Forget(i) ==
    /\ seen[i] # "none" /\ seen' = [seen EXCEPT ![i] = "none"]
    /\ UNCHANGED <<mode, bans, dropped, broker, armed, reader, hand, unbacked>>

BanAges(i) ==
    /\ bans[i] # "off" /\ bans' = [bans EXCEPT ![i] = IF @ = "long" THEN "short" ELSE "off"]
    /\ UNCHANGED <<mode, seen, dropped, broker, armed, reader, hand, unbacked>>

\* The timeout of an element: not before the last seconds of its row.
Timeout(i) ==
    /\ i \in dropped /\ bans[i] # "long" /\ dropped' = dropped \ {i}
    /\ \A t \in LogReaders : reader[t].pc = "record" => i \notin reader[t].ip
    /\ UNCHANGED <<mode, seen, bans, broker, armed, reader, hand, unbacked>>

BrokerDies ==
    /\ broker = "up" /\ broker' = "down"
    /\ UNCHANGED <<mode, seen, bans, dropped, armed, reader, hand, unbacked>>

\* bootstrap: the table is replaced by an empty one.
BrokerStarts ==
    /\ broker = "down" /\ broker' = "up" /\ dropped' = {} /\ unbacked' = unbacked \union dropped
    /\ UNCHANGED <<mode, seen, bans, armed, reader, hand>>

GuardHubKilled ==
    /\ \/ hand # Rest
       \/ \E t \in LogReaders : reader[t] # Away
    /\ armed' = FALSE /\ hand' = Rest /\ reader' = [t \in LogReaders |-> Away]
    /\ UNCHANGED <<mode, seen, bans, dropped, broker, unbacked>>

GuardNext ==
    \/ \E t \in LogReaders : \/ SyncStart(t) \/ SyncDone(t) \/ LogEnds(t)
                             \/ Ban(t) \/ BanFails(t) \/ Record(t)
                             \/ \E i \in Addresses : Replay(t, i) \/ Observe(t, i)
    \/ ClearAll \/ ModeObserve \/ ModeEnforce \/ UnbanRows \/ ClearIps
    \/ \E i \in Addresses : Release(i) \/ Forget(i) \/ BanAges(i) \/ Timeout(i)
    \/ BrokerDies \/ BrokerStarts \/ GuardHubKilled

GuardSpec == GuardInit /\ [][GuardNext]_guardVars

---------------------------------------------------------------------------
GuardTypeOK ==
    /\ mode \in {"observe", "enforce"} /\ broker \in {"up", "down"}
    /\ armed \in BOOLEAN /\ dropped \subseteq Addresses /\ unbacked \subseteq Addresses
    /\ seen \in [Addresses -> {"none", "granted", "refused"}]
    /\ bans \in [Addresses -> Phases]
    /\ reader \in [LogReaders -> [pc : {"away", "replay", "log", "ban", "record"},
          todo : SUBSET Addresses, short : SUBSET Addresses, ip : SUBSET Addresses]]
    /\ hand \in [op : {"rest", "observe", "unban"}, ip : SUBSET Addresses]

\* At no time do more recent addresses hold a lease than the client may use.
GrantsWithinLimit == LimitIp > 0 => Cardinality(Granted) <= LimitIp

\* A ban the panel shows as applied is in nftables, unless a restart of the broker or the
\* owner took it out since.
BansAreBacked == \A i \in Addresses : bans[i] = "long" => i \in dropped \union unbacked

\* The limit is kept, and its bans are real.
LimitIsEnforced == GrantsWithinLimit /\ BansAreBacked

\* A replay with the broker up restores every applied ban: none is left behind because
\* another one is about to end.
ReplayRestores ==
    [][\A t \in LogReaders, i \in Addresses :
         /\ reader[t].pc = "replay" /\ reader'[t].pc = "log" /\ broker = "up"
         /\ i \in reader[t].todo /\ bans[i] = "long"
         => i \in dropped']_guardVars
=============================================================================
