--------------------------- MODULE BotBroadcasts ---------------------------
(***************************************************************************)
(* What the Telegram supervisor sends on its own (telegram_runtime.py):    *)
(* broadcasts to a list of recipients fixed when they are queued, and      *)
(* alerts about a service that is about to end.  Every message is sent     *)
(* first and recorded afterwards, so a kill between the two sends it       *)
(* again.  Customers change their preferences meanwhile, through the bot.  *)
(***************************************************************************)
EXTENDS Integers, Sequences, FiniteSets, FiniteSetsExt

CONSTANTS
    Chats,              \* Telegram ids of the customers
    MaxJobs,            \* broadcasts queued
    PassSize,           \* recipients one pass serves (15 in the code)
    MaxCycle,           \* service cycles an alert may be about
    BroadcastFaults     \* kills, shutdowns and answers that are lost

VARIABLES
    pref,       \* telegram_customer_preferences: alerts, campaigns
    jobs,       \* telegram_broadcasts with their recipients, in the order they were queued
    pass,       \* the supervisor's pass
    client,     \* the worker's HTTP client is usable
    reached,    \* how often a broadcast really arrived, by broadcast and customer
    late,       \* campaign messages that arrived since the customer opted out
    due,        \* the cycle the customer's service is running out in; 0 if it is not
    noticed,    \* telegram_customer_notifications: cycles already told of
    alerted,    \* how often an alert really arrived
    mishaps     \* faults so far

broadcastVars == <<pref, jobs, pass, client, reached, late, due, noticed, alerted, mishaps>>

NoPass == [pc |-> "idle", job |-> 0, left |-> {}, who |-> 0, result |-> "none"]

BroadcastsInit ==
    /\ pref = [c \in Chats |-> [alerts |-> TRUE, campaigns |-> TRUE]]
    /\ jobs = <<>>
    /\ pass = NoPass
    /\ client = TRUE
    /\ reached = [c \in Chats |-> [j \in 1..MaxJobs |-> 0]]
    /\ late = [c \in Chats |-> 0]
    /\ due = [c \in Chats |-> 0]
    /\ noticed = [c \in Chats |-> {}]
    /\ alerted = [c \in Chats |-> [k \in 1..MaxCycle |-> 0]]
    /\ mishaps = 0

With(j, state) == {c \in DOMAIN jobs[j].to : jobs[j].to[c] = state}
Open == {j \in DOMAIN jobs : jobs[j].status # "completed"}
Arrived(n) == IF n = 0 THEN 1 ELSE 2     \* never, once, more often

-----------------------------------------------------------------------------
\* Customers and the administrator, through the bot's handlers.

\* set_notification_preference: both columns are written, the other one as it was read.
Toggle(c, field) ==
    /\ pref' = [pref EXCEPT ![c][field] = ~@]
    /\ late' = IF field = "campaigns" THEN [late EXCEPT ![c] = 0] ELSE late
    /\ UNCHANGED <<jobs, pass, client, reached, due, noticed, alerted, mishaps>>

\* _broadcast_targets: the segment as it is now; campaigns leave out who opted out.
Targets(segment, kind) ==
    IF kind = "marketing" THEN {c \in segment : pref[c].campaigns} ELSE segment

\* queue_broadcast: the recipients are fixed here, whatever the preview has shown.
Enqueue(kind, segment) ==
    /\ Len(jobs) < MaxJobs /\ Targets(segment, kind) # {}
    /\ jobs' = Append(jobs, [kind |-> kind, status |-> "queued", sent |-> 0, failed |-> 0,
                             skipped |-> 0,
                             to |-> [c \in Targets(segment, kind) |-> "pending"]])
    /\ UNCHANGED <<pref, pass, client, reached, late, due, noticed, alerted, mishaps>>

\* A service comes close to its end, or starts another cycle.
NextCycle(c) ==
    /\ due[c] < MaxCycle
    /\ due' = [due EXCEPT ![c] = @ + 1]
    /\ UNCHANGED <<pref, jobs, pass, client, reached, late, noticed, alerted, mishaps>>

-----------------------------------------------------------------------------
\* process_broadcasts: the oldest unfinished broadcast, a few recipients at a time.

PickBroadcast ==
    /\ pass = NoPass /\ Open # {}
    /\ LET j == Min(Open)
           waiting == With(j, "pending")
       IN  /\ jobs' = [jobs EXCEPT ![j].status = "running"]
           /\ pass' = [NoPass EXCEPT !.pc = "next", !.job = j,
                           !.left = {c \in waiting :
                                        Cardinality({d \in waiting : d < c}) < PassSize}]
    /\ UNCHANGED <<pref, client, reached, late, due, noticed, alerted, mishaps>>

\* The preference is asked again before every single campaign message.
Consider ==
    /\ pass.pc = "next" /\ pass.left # {}
    /\ LET c == Min(pass.left)
           optedOut == jobs[pass.job].kind = "marketing" /\ ~pref[c].campaigns
       IN  pass' = [pass EXCEPT !.pc = IF optedOut THEN "mark" ELSE "send", !.who = c,
                                !.left = @ \ {c},
                                !.result = IF optedOut THEN "skipped" ELSE "none"]
    /\ UNCHANGED <<pref, jobs, client, reached, late, due, noticed, alerted, mishaps>>

\* Whether the message arrives, and whether the sender learns of it, are two things.
Transmitted(arrives, ok) ==
    /\ client \/ (~arrives /\ ~ok)
    /\ ok => arrives
    /\ IF client /\ ~ok THEN mishaps < BroadcastFaults /\ mishaps' = mishaps + 1
                        ELSE UNCHANGED mishaps

SendBroadcast(arrives, ok) ==
    /\ pass.pc = "send"
    /\ Transmitted(arrives, ok)
    /\ pass' = [pass EXCEPT !.pc = "mark", !.result = IF ok THEN "sent" ELSE "failed"]
    /\ reached' = IF arrives THEN [reached EXCEPT ![pass.who][pass.job] = Arrived(@)] ELSE reached
    /\ late' = IF arrives /\ jobs[pass.job].kind = "marketing" /\ ~pref[pass.who].campaigns
               THEN [late EXCEPT ![pass.who] = Arrived(@)] ELSE late
    /\ UNCHANGED <<pref, jobs, client, due, noticed, alerted>>

\* A failed recipient is not tried again.
MarkRecipient ==
    /\ pass.pc = "mark"
    /\ jobs' = [jobs EXCEPT ![pass.job].to[pass.who] = IF @ = "pending" THEN pass.result ELSE @]
    /\ pass' = [pass EXCEPT !.pc = "next", !.who = 0, !.result = "none"]
    /\ UNCHANGED <<pref, client, reached, late, due, noticed, alerted, mishaps>>

CountRecipients ==
    /\ pass.pc = "next" /\ pass.left = {}
    /\ LET j == pass.job
       IN  jobs' = [jobs EXCEPT ![j].sent = Cardinality(With(j, "sent")),
                                ![j].failed = Cardinality(With(j, "failed")),
                                ![j].skipped = Cardinality(With(j, "skipped")),
                                ![j].status = IF With(j, "pending") = {} THEN "completed"
                                              ELSE "running"]
    /\ pass' = NoPass
    /\ UNCHANGED <<pref, client, reached, late, due, noticed, alerted, mishaps>>

-----------------------------------------------------------------------------
\* notify_service_health: one alert per customer and cycle.

PickAlert(c) ==
    /\ pass = NoPass
    /\ pref[c].alerts /\ due[c] > 0 /\ due[c] \notin noticed[c]
    /\ pass' = [NoPass EXCEPT !.pc = "alert", !.who = c, !.job = due[c]]
    /\ UNCHANGED <<pref, jobs, client, reached, late, due, noticed, alerted, mishaps>>

\* An alert that could not be sent is tried again in a later scan.
SendAlert(arrives, ok) ==
    /\ pass.pc = "alert"
    /\ Transmitted(arrives, ok)
    /\ alerted' = IF arrives THEN [alerted EXCEPT ![pass.who][pass.job] = Arrived(@)] ELSE alerted
    /\ pass' = IF ok THEN [pass EXCEPT !.pc = "told"] ELSE NoPass
    /\ UNCHANGED <<pref, jobs, client, reached, late, due, noticed>>

MarkAlert ==
    /\ pass.pc = "told"
    /\ noticed' = [noticed EXCEPT ![pass.who] = @ \cup {pass.job}]
    /\ pass' = NoPass
    /\ UNCHANGED <<pref, jobs, client, reached, late, due, alerted, mishaps>>

-----------------------------------------------------------------------------
\* close: the workers' clients are closed after four seconds, wherever the pass is.
ShutDown ==
    /\ client /\ mishaps < BroadcastFaults
    /\ client' = FALSE
    /\ mishaps' = mishaps + 1
    /\ UNCHANGED <<pref, jobs, pass, reached, late, due, noticed, alerted>>

\* The process ends, in order or not, and another one starts.
Restart ==
    /\ client => mishaps < BroadcastFaults
    /\ mishaps' = IF client THEN mishaps + 1 ELSE mishaps
    /\ client' = TRUE
    /\ pass' = NoPass
    /\ UNCHANGED <<pref, jobs, reached, late, due, noticed, alerted>>

BroadcastsNext ==
    \/ \E c \in Chats : NextCycle(c) \/ PickAlert(c)
    \/ \E c \in Chats, field \in {"alerts", "campaigns"} : Toggle(c, field)
    \/ \E kind \in {"operational", "marketing"}, segment \in SUBSET Chats : Enqueue(kind, segment)
    \/ \E arrives, ok \in BOOLEAN : SendBroadcast(arrives, ok) \/ SendAlert(arrives, ok)
    \/ PickBroadcast \/ Consider \/ MarkRecipient \/ CountRecipients \/ MarkAlert
    \/ ShutDown \/ Restart

BroadcastsSpec == BroadcastsInit /\ [][BroadcastsNext]_broadcastVars

-----------------------------------------------------------------------------
BroadcastsTypeOK ==
    /\ pref \in [Chats -> [alerts : BOOLEAN, campaigns : BOOLEAN]]
    /\ \A j \in DOMAIN jobs :
           /\ jobs[j].kind \in {"operational", "marketing"}
           /\ jobs[j].status \in {"queued", "running", "completed"}
           /\ \A c \in DOMAIN jobs[j].to :
                  jobs[j].to[c] \in {"pending", "sent", "failed", "skipped"}
    /\ pass.pc \in {"idle", "next", "send", "mark", "alert", "told"}
    /\ client \in BOOLEAN
    /\ late \in [Chats -> 0..2] /\ due \in [Chats -> 0..MaxCycle]
    /\ mishaps \in 0..BroadcastFaults

\* A finished broadcast accounts for every recipient it was queued for, and its counters
\* are what the recipients' rows say.
BroadcastAddsUp ==
    \A j \in DOMAIN jobs : jobs[j].status = "completed" =>
        /\ With(j, "pending") = {}
        /\ jobs[j].sent = Cardinality(With(j, "sent"))
        /\ jobs[j].sent + jobs[j].failed + jobs[j].skipped = Cardinality(DOMAIN jobs[j].to)

\* Who is recorded as reached was reached; nobody who was not on the list was; and a
\* message arrives twice only if the process died between sending and recording it.
RecordsAreTrue ==
    /\ \A j \in 1..MaxJobs, c \in Chats :
           /\ reached[c][j] > 0 => j \in DOMAIN jobs /\ c \in DOMAIN jobs[j].to
           /\ reached[c][j] > 1 => mishaps > 0
    /\ \A j \in DOMAIN jobs : \A c \in With(j, "sent") : reached[c][j] > 0
    /\ \A c \in Chats, k \in 1..MaxCycle :
           /\ k \in noticed[c] => alerted[c][k] > 0
           /\ alerted[c][k] > 1 => mishaps > 0

\* After opting out a customer receives at most the one campaign message that was already
\* being sent, however many campaigns list him.
OptOutStopsCampaigns == \A c \in Chats : late[c] <= 1

BroadcastsHold == BroadcastAddsUp /\ RecordsAreTrue /\ OptOutStopsCampaigns
=============================================================================
