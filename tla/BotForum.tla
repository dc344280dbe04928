------------------------------ MODULE BotForum ------------------------------
(***************************************************************************)
(* The report forum of a Telegram bot (telegram_forum.py): a group with    *)
(* one topic per kind of report.  Bot workers copy the audit log into it,  *)
(* each row sent and then committed; connecting another group, repairing   *)
(* the topics from the panel and rebinding after a restore change where    *)
(* the reports go.  Two workers poll when an old one has not ended yet.    *)
(***************************************************************************)
EXTENDS Integers, Sequences, FiniteSets

CONSTANTS
    Topics, Groups,     \* kinds of report; forums the administrator may choose
    Pollers,            \* worker threads of this bot
    MaxAudit,           \* rows of the audit log
    ForumFaults         \* bound: calls that fail, topics deleted, restores

VARIABLES
    audit,      \* live_audit: the kind of each row
    forum,      \* telegram_forums: the group, whether it is bound, last_audit_id
    topic,      \* telegram_forum_topics: the group each kind's thread lives in
    polling,    \* what each worker is at: a poll of the log, or connecting a group
    desk,       \* a repair asked for in the panel
    told,       \* how often a row has arrived in a forum: never, once, more often
    connectedAt,\* the last row before a forum was connected
    doubled,    \* a row may be told twice: a fault, or two workers at once
    mixed,      \* a repair has recorded a topic of a group that was replaced meanwhile
    failures    \* faults so far

forumVars == <<audit, forum, topic, polling, desk, told, connectedAt, doubled, mixed, failures>>

NoGroup == "none"
Deleted == "deleted"            \* the thread is gone in Telegram; the row does not know
Activation == "activation"      \* a row that is told with the customer's own message
Off == [pc |-> "off", rows |-> <<>>, to |-> NoGroup, mark |-> 0, made |-> <<>>]
\* The administrator connects or rebinds one group at a time.
Connecting == {p \in Pollers : polling[p].pc \in {"setup", "rebind"}}
Busy == {p \in Pollers : polling[p].pc \in {"send", "commit"}}

ForumInit ==
    /\ audit = <<>>
    /\ forum = [group |-> NoGroup, bound |-> FALSE, cursor |-> 0]
    /\ topic = [k \in Topics |-> NoGroup]
    /\ polling = [p \in Pollers |-> Off]
    /\ desk = [pc |-> "idle", to |-> NoGroup, left |-> {}, kind |-> CHOOSE k \in Topics : TRUE]
    /\ told = [i \in 1..MaxAudit |-> 0]
    /\ connectedAt = 0
    /\ doubled = FALSE /\ mixed = FALSE
    /\ failures = 0

\* The panel audits something.
Record(kind) ==
    /\ Len(audit) < MaxAudit
    /\ audit' = Append(audit, kind)
    /\ UNCHANGED <<forum, topic, polling, desk, told, connectedAt, doubled, mixed, failures>>

-----------------------------------------------------------------------------
\* poll_audits: the rows after the cursor are read once, then told one at a time.

ReadRows(p) ==
    /\ polling[p] = Off
    /\ forum.bound /\ Len(audit) > forum.cursor
    /\ polling' = [polling EXCEPT ![p].pc = "send", ![p].mark = forum.cursor,
                       ![p].rows = [i \in 1..(Len(audit) - forum.cursor) |-> forum.cursor + i]]
    /\ doubled' = (doubled \/ Busy # {})
    /\ UNCHANGED <<audit, forum, topic, desk, told, connectedAt, mixed, failures>>

\* _target, where the row goes; nowhere if it is told elsewhere or no topic is known.
Place(i) == IF audit[i] = Activation \/ ~forum.bound THEN NoGroup ELSE topic[audit[i]]

\* report: the topic is looked up when the row is sent; in a thread that was deleted the
\* call fails and ends the poll, to be begun again at the same row.
TellRow(p) ==
    LET i == Head(polling[p].rows)
    IN  /\ polling[p].pc = "send"
        /\ \/ /\ Place(i) = NoGroup
              /\ polling' = [polling EXCEPT ![p].pc = "commit"]
              /\ UNCHANGED <<told, doubled, failures>>
           \/ /\ Place(i) \in Groups
              /\ told' = [told EXCEPT ![i] = IF @ = 0 THEN 1 ELSE 2]
              /\ \/ /\ polling' = [polling EXCEPT ![p].pc = "commit"]
                    /\ UNCHANGED <<doubled, failures>>
                 \/ /\ failures < ForumFaults /\ failures' = failures + 1   \* the answer is lost
                    /\ polling' = [polling EXCEPT ![p] = Off]
                    /\ doubled' = TRUE
           \/ /\ Place(i) = Deleted
              /\ polling' = [polling EXCEPT ![p] = Off]
              /\ UNCHANGED <<told, doubled, failures>>
        /\ UNCHANGED <<audit, forum, topic, desk, connectedAt, mixed>>

\* Each delivery is committed before the next row is sent.
CommitRow(p) ==
    LET i == Head(polling[p].rows)
        rest == Tail(polling[p].rows)
    IN  /\ polling[p].pc = "commit"
        /\ forum' = [forum EXCEPT !.cursor = IF i > polling[p].mark THEN i ELSE polling[p].mark]
        /\ polling' = [polling EXCEPT ![p] = IF rest = <<>> THEN Off
                          ELSE [@ EXCEPT !.pc = "send", !.rows = rest, !.mark = i]]
        /\ UNCHANGED <<audit, topic, desk, told, connectedAt, doubled, mixed, failures>>

-----------------------------------------------------------------------------
\* setup: the threads that are missing are created in Telegram, then group, cursor and
\* topics are written together.  Rows recorded meanwhile come after the mark.

BeginSetup(p, g) ==
    /\ polling[p] = Off /\ Connecting = {}
    /\ polling' = [polling EXCEPT ![p] = [pc |-> "setup", rows |-> <<>>, to |-> g,
                       mark |-> Len(audit),
                       made |-> [k \in Topics |-> IF forum.group # g \/ topic[k] = NoGroup
                                                  THEN g ELSE topic[k]]]]
    /\ UNCHANGED <<audit, forum, topic, desk, told, connectedAt, doubled, mixed, failures>>

CommitSetup(p) ==
    LET g == polling[p].to
    IN  /\ polling[p].pc = "setup"
        /\ forum' = [group |-> g, bound |-> TRUE, cursor |-> polling[p].mark]
        /\ topic' = polling[p].made
        /\ connectedAt' = IF polling[p].mark > connectedAt THEN polling[p].mark ELSE connectedAt
        /\ polling' = [polling EXCEPT ![p] = Off]
        /\ doubled' = (doubled \/ Busy # {} \/ forum.cursor > polling[p].mark)
        /\ UNCHANGED <<audit, desk, told, mixed, failures>>

SetupFails(p) ==
    /\ polling[p].pc = "setup" /\ failures < ForumFaults
    /\ failures' = failures + 1
    /\ polling' = [polling EXCEPT ![p] = Off]
    /\ UNCHANGED <<audit, forum, topic, desk, told, connectedAt, doubled, mixed>>

-----------------------------------------------------------------------------
\* repair, from the panel: each topic is tried and, if its thread is gone, made again in
\* the group that was read at the start.

BeginRepair ==
    /\ desk.pc = "idle" /\ forum.bound
    /\ desk' = [desk EXCEPT !.pc = "try", !.to = forum.group, !.left = Topics]
    /\ UNCHANGED <<audit, forum, topic, polling, told, connectedAt, doubled, mixed, failures>>

TryTopic(k) ==
    /\ desk.pc = "try" /\ k \in desk.left
    /\ desk' = [desk EXCEPT !.left = @ \ {k}, !.kind = k,
                    !.pc = IF topic[k] = desk.to THEN "try" ELSE "write"]
    /\ UNCHANGED <<audit, forum, topic, polling, told, connectedAt, doubled, mixed, failures>>

WriteTopic ==
    /\ desk.pc = "write"
    /\ topic' = [topic EXCEPT ![desk.kind] = desk.to]
    /\ mixed' = (mixed \/ desk.to # forum.group)
    /\ desk' = [desk EXCEPT !.pc = "try"]
    /\ UNCHANGED <<audit, forum, polling, told, connectedAt, doubled, failures>>

EndRepair ==
    /\ desk.pc = "try" /\ desk.left = {}
    /\ desk' = [desk EXCEPT !.pc = "idle", !.to = NoGroup]
    /\ UNCHANGED <<audit, forum, topic, polling, told, connectedAt, doubled, mixed, failures>>

\* rebind_existing, in a worker after a restore: the group and the cursor stay.
BeginRebind(p) ==
    /\ polling[p] = Off /\ Connecting = {} /\ forum.group # NoGroup
    /\ polling' = [polling EXCEPT ![p] = [pc |-> "rebind", rows |-> <<>>, to |-> forum.group,
                       mark |-> 0, made |-> [k \in Topics |-> forum.group]]]
    /\ UNCHANGED <<audit, forum, topic, desk, told, connectedAt, doubled, mixed, failures>>

CommitRebind(p) ==
    /\ polling[p].pc = "rebind"
    /\ forum' = [forum EXCEPT !.bound = TRUE]
    /\ topic' = polling[p].made
    /\ mixed' = (mixed \/ polling[p].to # forum.group)
    /\ polling' = [polling EXCEPT ![p] = Off]
    /\ UNCHANGED <<audit, desk, told, connectedAt, doubled, failures>>

\* Someone deletes a thread in Telegram.
DeleteThread(k) ==
    /\ failures < ForumFaults /\ topic[k] \in Groups
    /\ failures' = failures + 1
    /\ topic' = [topic EXCEPT ![k] = Deleted]
    /\ UNCHANGED <<audit, forum, polling, desk, told, connectedAt, doubled, mixed>>

\* The panel is killed; a restore in between asks for the forum to be bound again.
ForumKill ==
    /\ failures < ForumFaults
    /\ failures' = failures + 1
    /\ polling' = [p \in Pollers |-> Off]
    /\ desk' = [desk EXCEPT !.pc = "idle", !.to = NoGroup, !.left = {}]
    /\ forum' \in {forum, [forum EXCEPT !.bound = FALSE]}
    /\ doubled' = TRUE
    /\ UNCHANGED <<audit, topic, told, connectedAt, mixed>>

ForumNext ==
    \/ \E kind \in Topics \cup {Activation} : Record(kind)
    \/ \E p \in Pollers : \/ ReadRows(p) \/ TellRow(p) \/ CommitRow(p)
                          \/ (\E g \in Groups : BeginSetup(p, g)) \/ CommitSetup(p)
                          \/ SetupFails(p) \/ BeginRebind(p) \/ CommitRebind(p)
    \/ BeginRepair \/ WriteTopic \/ EndRepair
    \/ \E k \in Topics : TryTopic(k) \/ DeleteThread(k)
    \/ ForumKill

ForumSpec == ForumInit /\ [][ForumNext]_forumVars

-----------------------------------------------------------------------------
ForumTypeOK ==
    /\ audit \in Seq(Topics \cup {Activation})
    /\ forum \in [group : Groups \cup {NoGroup}, bound : BOOLEAN, cursor : 0..MaxAudit]
    /\ topic \in [Topics -> Groups \cup {NoGroup, Deleted}]
    /\ \A p \in Pollers : polling[p].pc \in {"off", "send", "commit", "setup", "rebind"}
    /\ desk.pc \in {"idle", "try", "write"}
    /\ told \in [1..MaxAudit -> 0..2]
    /\ failures \in 0..ForumFaults

\* The cursor passes over no row recorded since the forum was connected that was not told,
\* whatever failed in between and whoever moved it.
NoReportSkipped ==
    \A i \in 1..forum.cursor :
        i > connectedAt /\ audit[i] # Activation => told[i] > 0

\* A later failure does not make a row that was told and committed be told again.
NoReportReplayed == \A i \in 1..MaxAudit : told[i] > 1 => doubled

\* Every topic on record is a thread of the connected group, unless a repair was under way
\* while another group was connected.
TopicsOfTheForum ==
    \A k \in Topics : topic[k] \in {NoGroup, Deleted, forum.group} \/ mixed

ForumHolds == NoReportSkipped /\ NoReportReplayed /\ TopicsOfTheForum
=============================================================================
