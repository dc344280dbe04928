----------------------------- MODULE BotUpdates -----------------------------
(***************************************************************************)
(* The workers of one owner's Telegram bot (telegram_runtime.py): threads  *)
(* that poll for updates, handle them one at a time and move the offset    *)
(* kept in the bot's row; the supervisor that starts and stops them as the *)
(* row changes; and the settings page that changes the row.  A worker that *)
(* is told to stop is waited for only briefly, so that an old worker may   *)
(* still be at its updates when the new one starts.                        *)
(*                                                                         *)
(* The platform is external: it keeps the updates of each bot until a poll *)
(* with a higher offset confirms them.                                     *)
(***************************************************************************)
EXTENDS Integers, FiniteSets, Sequences, Functions

CONSTANTS
    Bots,               \* bots of the platform whose token the owner may save
    Slots,              \* worker threads
    MaxUpdates,         \* updates users send
    BatchSize,          \* updates one poll returns (50 in the code)
    MaxSaves, UpdateFaults  \* bounds: settings saved; failed polls and kills

VARIABLES
    row,        \* the row of telegram_bots: enabled, the bot, the mark of its token,
                \* how often it was saved, the offset
    arrived,    \* updates users have sent, by bot
    kept,       \* the first update the platform still keeps, by bot
    worker,     \* the threads
    current,    \* runtime.workers: the thread the runtime knows of
    super,      \* the supervisor's pass: where it is, and the row it has read
    tried,      \* how often the handler has begun an update, by bot and update: never, once,
                \* twice or more
    crossed,    \* a worker has written its offset over another token's
    repeated,   \* a kill, a saved token or a second worker may repeat an update
    trouble     \* faults so far

updateVars == <<row, arrived, kept, worker, current, super, tried, crossed, repeated, trouble>>

NoSlot == "no worker"
Gone == [pc |-> "off", bot |-> CHOOSE b \in Bots : TRUE, mark |-> 0, batch |-> <<>>, from |-> 0,
         stop |-> FALSE, open |-> FALSE]
Resting == [pc |-> "idle", on |-> FALSE, bot |-> Gone.bot, mark |-> 0, old |-> NoSlot]
Alive == {w \in Slots : worker[w].pc # "off"}

BotUpdatesInit ==
    /\ row = [on |-> TRUE, bot |-> Gone.bot, mark |-> 0, saves |-> 0, offset |-> 0]
    /\ arrived = [b \in Bots |-> 0]
    /\ kept = [b \in Bots |-> 1]
    /\ worker = [w \in Slots |-> Gone]
    /\ current = NoSlot
    /\ super = Resting
    /\ tried = [b \in Bots |-> [u \in 1..MaxUpdates |-> 0]]
    /\ crossed = FALSE /\ repeated = FALSE
    /\ trouble = 0

Goto(w, pc) == worker' = [worker EXCEPT ![w].pc = pc]
End(w) == worker' = [worker EXCEPT ![w] = [Gone EXCEPT !.mark = worker[w].mark]]

-----------------------------------------------------------------------------
\* Users and the settings page.

UserWrites(b) ==
    /\ FoldFunction(+, 0, arrived) < MaxUpdates
    /\ arrived' = [arrived EXCEPT ![b] = @ + 1]
    /\ UNCHANGED <<row, kept, worker, current, super, tried, crossed, repeated, trouble>>

\* PUT /api/telegram/settings with a token: every token is sealed anew, even the same one,
\* and updates are asked for from the first the platform still keeps.
SaveToken(on, b) ==
    /\ row.saves < MaxSaves
    /\ row' = [on |-> on, bot |-> b, mark |-> row.saves + 1, saves |-> row.saves + 1,
               offset |-> 0]
    /\ repeated' = TRUE
    /\ UNCHANGED <<arrived, kept, worker, current, super, tried, crossed, trouble>>

\* The same without a token: the bot is switched on or off.
SaveSwitch ==
    /\ row.saves < MaxSaves
    /\ row' = [row EXCEPT !.on = ~@, !.saves = @ + 1]
    /\ UNCHANGED <<arrived, kept, worker, current, super, tried, crossed, repeated, trouble>>

-----------------------------------------------------------------------------
\* A worker.  What it polls with and what it writes back are two accesses to the row.

\* configure_telegram_surface: a worker that cannot reach the platform ends, and nothing
\* starts it again while the runtime knows it.
Configure(w) ==
    /\ worker[w].pc = "new"
    /\ \/ Goto(w, "idle") /\ UNCHANGED trouble
       \/ trouble < UpdateFaults /\ End(w) /\ trouble' = trouble + 1
    /\ UNCHANGED <<row, arrived, kept, current, super, tried, crossed, repeated>>

Poll(w) ==
    /\ worker[w].pc = "idle"
    /\ IF worker[w].stop \/ ~row.on
       THEN End(w)
       ELSE worker' = [worker EXCEPT ![w].pc = "poll", ![w].from = row.offset]
    /\ UNCHANGED <<row, arrived, kept, current, super, tried, crossed, repeated, trouble>>

\* getUpdates: the platform forgets what is below the offset and hands out what follows.
Answer(w) ==
    LET me == worker[w]
        first == IF me.from > kept[me.bot] THEN me.from ELSE kept[me.bot]
        last == IF arrived[me.bot] > first + BatchSize - 1 THEN first + BatchSize - 1
                ELSE arrived[me.bot]
    IN  /\ me.pc = "poll" /\ me.open
        /\ kept' = [kept EXCEPT ![me.bot] = first]
        /\ worker' = [worker EXCEPT ![w].from = 0,
                                    ![w].batch = [i \in 1..(last - first + 1) |-> first + i - 1],
                                    ![w].pc = IF last < first THEN "idle" ELSE "handle"]
        /\ UNCHANGED <<row, arrived, current, super, tried, crossed, repeated, trouble>>

\* The poll fails: the client was closed, the network broke, another poll took over.
PollFails(w) ==
    /\ worker[w].pc = "poll"
    /\ worker[w].open => trouble < UpdateFaults
    /\ trouble' = IF worker[w].open THEN trouble + 1 ELSE trouble
    /\ worker' = [worker EXCEPT ![w].pc = "idle", ![w].from = 0]
    /\ UNCHANGED <<row, arrived, kept, current, super, tried, crossed, repeated>>

\* handle: whatever comes of it, the offset moves on; a stopped worker goes through the
\* rest of its batch as well.
Handle(w) ==
    /\ worker[w].pc = "handle"
    /\ tried' = [tried EXCEPT ![worker[w].bot][Head(worker[w].batch)] = IF @ = 0 THEN 1 ELSE 2]
    /\ Goto(w, "write")
    /\ UNCHANGED <<row, arrived, kept, current, super, crossed, repeated, trouble>>

\* Faulty variant: the offset is written past the batch after its first update.
WritePastBatch(w) ==
    LET me == worker[w]
    IN  /\ me.pc = "write"
        /\ row' = [row EXCEPT !.offset = me.batch[Len(me.batch)] + 1]
        /\ crossed' = (crossed \/ me.mark # row.mark)
        /\ worker' = [worker EXCEPT ![w].batch = Tail(me.batch),
                                    ![w].pc = IF Len(me.batch) > 1 THEN "handle" ELSE "idle"]
        /\ UNCHANGED <<arrived, kept, current, super, tried, repeated, trouble>>

\* The UPDATE names the owner only, neither the token nor the offset it replaces.
WriteOffset(w) ==
    LET me == worker[w]
    IN  /\ me.pc = "write"
        /\ row' = [row EXCEPT !.offset = Head(me.batch) + 1]
        /\ crossed' = (crossed \/ me.mark # row.mark)
        /\ worker' = [worker EXCEPT ![w].batch = Tail(me.batch),
                                    ![w].pc = IF Len(me.batch) > 1 THEN "handle" ELSE "idle"]
        /\ UNCHANGED <<arrived, kept, current, super, tried, repeated, trouble>>

-----------------------------------------------------------------------------
\* The supervisor (sync_workers): one pass reads the row once and acts on what it read.

ReadRow ==
    /\ super.pc = "idle"
    /\ LET stale == /\ current # NoSlot
                    /\ ~row.on \/ worker[current].mark # row.mark
       IN  /\ super' = [pc |-> IF stale THEN "join" ELSE "start", on |-> row.on,
                        bot |-> row.bot, mark |-> row.mark,
                        old |-> IF stale THEN current ELSE NoSlot]
           /\ current' = IF stale THEN NoSlot ELSE current
           /\ worker' = IF stale
                        THEN [worker EXCEPT ![current].stop = (@ \/ worker[current].pc # "off")]
                        ELSE worker
    /\ UNCHANGED <<row, arrived, kept, tried, crossed, repeated, trouble>>

\* The thread has ended, or three seconds have passed: its client is closed either way.
Join ==
    /\ super.pc = "join"
    /\ super' = [super EXCEPT !.pc = "start"]
    /\ worker' = [worker EXCEPT ![super.old].open = FALSE]
    /\ UNCHANGED <<row, arrived, kept, current, tried, crossed, repeated, trouble>>

\* A worker for a row that was read before the old one was stopped.
StartWorker ==
    /\ super.pc = "start"
    /\ super' = Resting
    /\ IF super.on /\ current = NoSlot
       THEN \E w \in Slots \ Alive :
                /\ worker' = [worker EXCEPT ![w] =
                                 [Gone EXCEPT !.pc = "new", !.bot = super.bot,
                                              !.mark = super.mark, !.open = TRUE]]
                /\ current' = w
                /\ repeated' = (repeated \/ Alive # {})
       ELSE UNCHANGED <<worker, current, repeated>>
    /\ UNCHANGED <<row, arrived, kept, tried, crossed, trouble>>

\* The panel is killed and starts again: threads and sessions are gone, the row stays.
PanelKill ==
    /\ trouble < UpdateFaults
    /\ trouble' = trouble + 1
    /\ worker' = [w \in Slots |-> Gone]
    /\ current' = NoSlot
    /\ super' = Resting
    /\ repeated' = TRUE
    /\ UNCHANGED <<row, arrived, kept, tried, crossed>>

BotUpdatesNext ==
    \/ \E b \in Bots : UserWrites(b)
    \/ \E on \in BOOLEAN, b \in Bots : SaveToken(on, b)
    \/ SaveSwitch
    \/ \E w \in Slots : \/ Configure(w) \/ Poll(w) \/ Answer(w) \/ PollFails(w)
                        \/ Handle(w) \/ WriteOffset(w)
    \/ ReadRow \/ Join \/ StartWorker
    \/ PanelKill

BotUpdatesSpec == BotUpdatesInit /\ [][BotUpdatesNext]_updateVars

-----------------------------------------------------------------------------
BotUpdatesTypeOK ==
    /\ row \in [on : BOOLEAN, bot : Bots, mark : 0..MaxSaves, saves : 0..MaxSaves,
                offset : 0..(MaxUpdates + 1)]
    /\ arrived \in [Bots -> 0..MaxUpdates] /\ kept \in [Bots -> 1..(MaxUpdates + 1)]
    /\ \A w \in Slots : /\ worker[w].pc \in {"off", "new", "idle", "poll", "handle", "write"}
                        /\ worker[w].batch \in Seq(1..MaxUpdates)
    /\ current \in Slots \cup {NoSlot}
    /\ super.pc \in {"idle", "join", "start"}
    /\ \A b \in Bots : tried[b] \in [1..MaxUpdates -> 0..2]
    /\ crossed \in BOOLEAN /\ repeated \in BOOLEAN /\ trouble \in 0..UpdateFaults

\* The platform forgets no update the bot has not at least begun to handle, unless a worker
\* of a replaced token wrote its offset over the new bot's.
NoUpdatePassedOver ==
    \A b \in Bots, u \in 1..MaxUpdates : u < kept[b] => tried[b][u] > 0 \/ crossed

\* An update is handled twice only after a kill, a newly saved token, or while a worker
\* that was told to stop is still at work.
HandledOnce == \A b \in Bots, u \in 1..MaxUpdates : tried[b][u] > 1 => repeated

\* Only the worker the runtime knows may talk to the platform, once the supervisor is
\* done with the others.
StrangersAreClosed ==
    \A w \in Slots : worker[w].open => w \in {current, super.old}

UpdatesAreHandled == NoUpdatePassedOver /\ HandledOnce /\ StrangersAreClosed
=============================================================================
