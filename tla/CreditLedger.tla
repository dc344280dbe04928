---------------------------- MODULE CreditLedger ----------------------------
(***************************************************************************)
(* Resource credit of representatives (dark_policy.py, unlimited_credit.py)*)
(* Volume credit is capacity: it bounds what the representative's clients  *)
(* hold.  Unlimited credit is consumed: one unit is one IP-user for a      *)
(* month, bought for the days it is not yet bought for, rounded up over    *)
(* everything a client ever bought, never given back.  Time is in days.    *)
(***************************************************************************)
EXTENDS Integers, FiniteSets, FiniteSetsExt

CONSTANTS
    Owners,         \* representatives
    Subs,           \* client identities
    Horizon,        \* bound of the calendar
    MonthDays,      \* days in a unit
    MaxIps,         \* bound on the IP limit
    Volumes,        \* traffic quotas a client may be given, without 0
    Grants,         \* credits an owner may be given at once
    MaxCredit,      \* bound on adjusted credits
    Adjustments     \* identities of credit adjustments

ASSUME CreditAssumption ==
    /\ IsFiniteSet(Owners) /\ IsFiniteSet(Subs) /\ IsFiniteSet(Adjustments)
    /\ Horizon \in Nat /\ MonthDays \in Nat \ {0} /\ MaxIps \in Nat \ {0}
    /\ Volumes \subseteq Nat \ {0} /\ Grants \subseteq Nat /\ MaxCredit \in Nat

VARIABLES
    owner,      \* owners: volume credit, unlimited credit, spent
    book,       \* balance of unlimited units in resource_credit_ledger
    sub,        \* clients: owner, quota (0: unlimited), IP limit, expiry (0: none)
    ent,        \* unlimited_entitlements; rows outlive their client
    adjusted,   \* adjustments in the ledger
    today,
    used,       \* history: IP-days of unlimited service each client had
    gift        \* history: IP-days that migration left to a client for nothing

creditVars == <<owner, book, sub, ent, adjusted, today, used, gift>>

Days == 0 .. Horizon - 1
NoSub == [owner |-> "none", quota |-> 0, ips |-> 0, expires |-> 0]
NoEnt == [row |-> FALSE, cover |-> [d \in Days |-> 0], seconds |-> 0, units |-> 0,
          pending |-> 0, pendingIps |-> 0, legacy |-> 0]

Held(o) == {c \in Subs : sub[c].owner = o}
Allocated(S) == MapThenSumSet(LAMBDA c : sub[c].quota, S)

\* migrate: clients without end that existed before this accounting keep their
\* balance: each opens with one unit spent, as far as the credit goes.
CreditInit(old, n) ==
    \E o \in Owners :
        LET opening == IF Cardinality(old) < n THEN Cardinality(old) ELSE n
        IN /\ owner = [p \in Owners |-> [volume |-> 0, credit |-> IF p = o THEN n ELSE 0,
                                         spent |-> IF p = o THEN opening ELSE 0]]
           /\ book = [p \in Owners |-> IF p = o THEN n - opening ELSE 0]
           /\ sub = [c \in Subs |-> IF c \in old THEN [NoSub EXCEPT !.owner = o, !.ips = 1]
                                    ELSE NoSub]
           /\ ent = [c \in Subs |-> IF c \in old
                        THEN [NoEnt EXCEPT !.row = TRUE, !.legacy = 1] ELSE NoEnt]
           /\ adjusted = {} /\ today = 0
           /\ used = [c \in Subs |-> 0] /\ gift = [c \in Subs |-> 0]

---------------------------------------------------------------------------
(* plan_change: what a service costs *)

Higher(x, y) == IF x > y THEN x ELSE y
Span(n, from, to) == [d \in Days |-> IF from <= d /\ d < to THEN n ELSE 0]
Raised(f, g) == [d \in Days |-> Higher(f[d], g[d])]
IpDays(f) == MapThenSumSet(LAMBDA d : f[d], Days)
Units(ipDays) == (ipDays + MonthDays - 1) \div MonthDays

\* What a client has bought already, seen from today on.
Bought(e, expires) ==
    IF e.pending > 0 THEN Span(e.pendingIps, today, today + e.pending)
    ELSE IF e.legacy > 0 THEN Span(e.legacy, today, Higher(today, expires))
    ELSE e.cover

Priced(e, added) ==
    [e EXCEPT !.row = TRUE, !.seconds = @ + added, !.units = Units(e.seconds + added)]

\* A volumetric plan drops what was bought.
Volumetric(e) ==
    [e EXCEPT !.row = TRUE, !.cover = Span(0, 0, 0), !.pending = 0, !.pendingIps = 0,
              !.legacy = 0]

\* A service without end is priced by its duration and waits for its first day.
Waited(e, ips, duration) ==
    [NoEnt EXCEPT !.row = TRUE, !.pending = duration, !.pendingIps = ips,
                  !.seconds = ips * duration, !.units = Units(ips * duration)]

Planned(e, quota, ips, expires, duration) ==
    IF quota > 0 THEN Volumetric(e)
    ELSE IF expires = 0
    THEN IF e.row
         THEN Priced([e EXCEPT !.pendingIps = Higher(@, ips)],
                     Higher(0, ips - e.pendingIps) * e.pending)
         ELSE Waited(e, ips, duration)
    ELSE LET before == Bought(e, expires)
             after == Raised(before, Span(ips, today, expires))
         IN Priced([e EXCEPT !.cover = after, !.pending = 0, !.pendingIps = 0, !.legacy = 0],
                   IpDays(after) - IpDays(before))

Refused(e, quota, ips, expires, duration) ==
    /\ quota = 0
    /\ \/ ips = 0
       \/ expires = 0 /\ IF e.row THEN e.pending = 0 ELSE duration = 0
       \/ expires > 0 /\ ~e.row /\ expires <= today

---------------------------------------------------------------------------
(* Clients *)

\* change: the debit, the ledger entry and the entitlement in one transaction.
Bill(c, o, quota, ips, expires, duration) ==
    LET new == Planned(ent[c], quota, ips, expires, duration)
        debit == Higher(0, new.units - ent[c].units)
    IN /\ ~Refused(ent[c], quota, ips, expires, duration)
       /\ debit <= owner[o].credit - owner[o].spent
       /\ ent' = [ent EXCEPT ![c] = new]
       /\ gift' = [gift EXCEPT ![c] = IF quota = 0 /\ ent[c].legacy > 0
                       THEN IpDays(Bought(ent[c], expires)) ELSE @]
       /\ owner' = [owner EXCEPT ![o].spent = @ + debit]
       /\ book' = [book EXCEPT ![o] = @ - debit]

RegisterClient(c, o, quota, ips, expires, duration) ==
    /\ sub[c] = NoSub /\ ~ent[c].row
    /\ quota > 0 => Allocated(Held(o)) + quota <= owner[o].volume
    /\ Bill(c, o, quota, ips, expires, duration)
    /\ sub' = [sub EXCEPT ![c] =
           [owner |-> o, quota |-> quota, ips |-> ips, expires |-> expires]]
    /\ UNCHANGED <<adjusted, today, used>>

\* edit_client, also a row of edit_clients_many: rows that fail change nothing.
EditClient(c, quota, ips, expires) ==
    LET o == sub[c].owner
    IN /\ sub[c] # NoSub
       /\ quota > 0 => Allocated(Held(o) \ {c}) + quota <= owner[o].volume
       /\ <<quota, ips, expires>> # <<sub[c].quota, sub[c].ips, sub[c].expires>>
       /\ Bill(c, o, quota, ips, expires, 0)
       /\ sub' = [sub EXCEPT ![c].quota = quota, ![c].ips = ips, ![c].expires = expires]
       /\ UNCHANGED <<adjusted, today, used>>

DeleteClient(c) ==
    /\ sub[c] # NoSub
    /\ sub' = [sub EXCEPT ![c] = NoSub]
    /\ UNCHANGED <<owner, book, ent, adjusted, today, used, gift>>

---------------------------------------------------------------------------
(* Owners *)

\* register_owner sets both credits, above what is in use.
RegisterOwner(o, volume, credit) ==
    /\ volume >= Allocated(Held(o)) /\ credit >= owner[o].spent
    /\ owner' = [owner EXCEPT ![o].volume = volume, ![o].credit = credit]
    /\ book' = [book EXCEPT ![o] = @ + credit - owner[o].credit]
    /\ UNCHANGED <<sub, ent, adjusted, today, used, gift>>

\* adjust_resource_credit, once per event identity.
AdjustCredit(k, o, volume, units) ==
    /\ k \notin adjusted
    /\ owner[o].volume + volume \in Allocated(Held(o)) .. MaxCredit
    /\ owner[o].credit + units \in owner[o].spent .. MaxCredit
    /\ owner' = [owner EXCEPT ![o].volume = @ + volume, ![o].credit = @ + units]
    /\ book' = [book EXCEPT ![o] = @ + units]
    /\ adjusted' = adjusted \union {k}
    /\ UNCHANGED <<sub, ent, today, used, gift>>

\* A day ends; who was in service had its IP-users for that day.
DayEnds ==
    /\ today < Horizon /\ today' = today + 1
    /\ used' = [c \in Subs |->
           IF sub[c] # NoSub /\ sub[c].quota = 0 /\ sub[c].expires > today
           THEN used[c] + sub[c].ips ELSE used[c]]
    /\ UNCHANGED <<owner, book, sub, ent, adjusted, gift>>

CreditNext ==
    \/ \E c \in Subs, o \in Owners, q \in Volumes \union {0}, n \in 0 .. MaxIps :
          \/ \E e \in 1 .. Horizon : RegisterClient(c, o, q, n, e, 0)
          \/ \E d \in 0 .. Horizon : RegisterClient(c, o, q, n, 0, d)
    \/ \E c \in Subs, q \in Volumes \union {0}, n \in 0 .. MaxIps, e \in 0 .. Horizon :
          EditClient(c, q, n, e)
    \/ \E c \in Subs : DeleteClient(c)
    \/ \E o \in Owners, v, u \in Grants : RegisterOwner(o, v, u)
    \/ \E k \in Adjustments, o \in Owners, v, u \in {-1, 1} : AdjustCredit(k, o, v, u)
    \/ DayEnds

---------------------------------------------------------------------------
CreditTypeOK ==
    /\ owner \in [Owners -> [volume : Nat, credit : Nat, spent : Nat]]
    /\ book \in [Owners -> Int]
    /\ sub \in [Subs -> [owner : Owners \union {"none"}, quota : Nat, ips : Nat, expires : Nat]]
    /\ ent \in [Subs -> [row : BOOLEAN, cover : [Days -> Nat], seconds : Nat, units : Nat,
                         pending : Nat, pendingIps : Nat, legacy : Nat]]
    /\ adjusted \subseteq Adjustments /\ today \in 0 .. Horizon
    /\ used \in [Subs -> Nat] /\ gift \in [Subs -> Nat]

\* A representative never spends or allocates more than was granted, and the
\* ledger's balance is what remains, whatever is created, edited, deleted and
\* adjusted in whatever order.
CreditConserved ==
    \A o \in Owners :
        /\ owner[o].spent <= owner[o].credit
        /\ Allocated(Held(o)) <= owner[o].volume
        /\ book[o] = owner[o].credit - owner[o].spent

\* No sequence of short extensions, upgrades, downgrades and plan changes yields
\* service that was not bought: nobody in unlimited service has had more IP-days
\* than its units are worth and migration left it (cumulative rounding, _cover).
ServiceIsPaid ==
    \A c \in Subs : sub[c] # NoSub /\ sub[c].quota = 0 =>
        used[c] <= ent[c].units * MonthDays + gift[c]
=============================================================================
