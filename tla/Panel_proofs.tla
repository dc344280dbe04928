------------------------------ MODULE Panel_proofs ------------------------------
(***************************************************************************)
(* Who may use the panel and the proxy, and what may be installed, for     *)
(* every value of the constants.                                           *)
(* IpGuard: the address limit of a client, for every finite set of         *)
(* addresses, every number of threads that read the log and every limit.   *)
(* Sessions: logins, for every set of accounts and of concurrent requests. *)
(* Updater: the Hub runs a green commit, says what became of a job, and    *)
(* loses no byte.                                                          *)
(***************************************************************************)
EXTENDS IpGuard, Sessions, Updater, FiniteSetTheorems, TLAPS

-----------------------------------------------------------------------------
(* The address limit *)

\* Whoever is about to record a ban has its address in nftables, unless a restart of the
\* broker or the owner took it out since: Timeout spares an address until its row is there.
RecordsAreBacked ==
    \A t \in LogReaders : reader[t].pc = "record" => reader[t].ip \subseteq dropped \union unbacked

GuardInv == GuardTypeOK /\ GrantsWithinLimit /\ BansAreBacked /\ RecordsAreBacked

-----------------------------------------------------------------------------
\* Granting one more address below the limit stays within it.
LEMMA OneMoreGrant ==
    ASSUME NEW i \in Addresses, GuardTypeOK, GrantsWithinLimit, Grant(i),
           seen' = [seen EXCEPT ![i] = "granted"]
    PROVE  GrantsWithinLimit'
<1>1. Granted' = Granted \union {i} /\ IsFiniteSet(Granted)
  <2>1. IsFiniteSet(Granted)
    BY GuardAssumption, FS_Subset DEF Granted
  <2>2. Granted' = Granted \union {i}
    BY DEF Granted, GuardTypeOK
  <2> QED BY <2>1, <2>2
<1>2. CASE i \in Granted
  <2>1. Granted' = Granted
    BY <1>1, <1>2
  <2> QED BY <2>1 DEF GrantsWithinLimit
<1>3. CASE i \notin Granted
  <2>1. Cardinality(Granted') = Cardinality(Granted) + 1 /\ Cardinality(Granted) \in Nat
    BY <1>1, <1>3, FS_AddElement, FS_CardinalityType
  <2> QED BY <2>1, <1>3, GuardAssumption DEF GrantsWithinLimit, Grant
<1> QED BY <1>2, <1>3

\* Forgetting and refusing addresses grants none.
LEMMA FewerGrants ==
    ASSUME GrantsWithinLimit, Granted' \subseteq Granted
    PROVE  GrantsWithinLimit'
<1>1. IsFiniteSet(Granted)
  BY GuardAssumption, FS_Subset DEF Granted
<1>2. /\ Cardinality(Granted') <= Cardinality(Granted)
      /\ Cardinality(Granted) \in Nat /\ Cardinality(Granted') \in Nat
  BY <1>1, FS_Subset, FS_CardinalityType
<1> QED BY <1>2, GuardAssumption DEF GrantsWithinLimit

-----------------------------------------------------------------------------
\* No address is let in or banned at first.
LEMMA GuardInitInv == GuardInit => GuardInv
<1> SUFFICES ASSUME GuardInit PROVE GuardInv
  OBVIOUS
<1>1. GuardTypeOK
  BY DEF GuardInit, GuardTypeOK, Phases, Away, Rest
<1>2. GrantsWithinLimit
  <2>1. Granted = {}
    BY DEF GuardInit, Granted
  <2> QED BY <2>1, FS_EmptySet, GuardAssumption DEF GrantsWithinLimit
<1>3. BansAreBacked /\ RecordsAreBacked
  BY DEF GuardInit, BansAreBacked, RecordsAreBacked, Away
<1> QED BY <1>1, <1>2, <1>3 DEF GuardInv

\* The types are kept by every step.
LEMMA GuardTypes == GuardTypeOK /\ [GuardNext]_guardVars => GuardTypeOK'
<1> SUFFICES ASSUME GuardTypeOK, [GuardNext]_guardVars PROVE GuardTypeOK'
  OBVIOUS
<1>1. ASSUME NEW t \in LogReaders,
             \/ SyncStart(t) \/ SyncDone(t) \/ LogEnds(t) \/ Ban(t) \/ BanFails(t) \/ Record(t)
             \/ \E i \in Addresses : Replay(t, i) \/ Observe(t, i)
      PROVE  GuardTypeOK'
  <2>1. CASE SyncStart(t)
    BY <2>1 DEF GuardTypeOK, SyncStart, To, Held
  <2>2. CASE SyncDone(t) \/ LogEnds(t)
    <3>1. CASE SyncDone(t)
      BY <3>1 DEF GuardTypeOK, SyncDone, To, Away
    <3>2. CASE LogEnds(t)
      BY <3>2 DEF GuardTypeOK, LogEnds, To, Away
    <3> QED BY <2>2, <3>1, <3>2
  <2>3. CASE Ban(t)
    BY <2>3 DEF GuardTypeOK, Ban, To
  <2>4. CASE BanFails(t)
    BY <2>4 DEF GuardTypeOK, BanFails, To, Away
  <2>5. CASE Record(t)
    BY <2>5 DEF GuardTypeOK, Record, To, Away, Phases
  <2>6. ASSUME NEW i \in Addresses, Replay(t, i) PROVE GuardTypeOK'
    BY <2>6 DEF GuardTypeOK, Replay, To, Away, Block
  <2>7. ASSUME NEW i \in Addresses, Observe(t, i) PROVE GuardTypeOK'
    BY <2>7 DEF GuardTypeOK, Observe, To, Away
  <2> QED BY <1>1, <2>1, <2>2, <2>3, <2>4, <2>5, <2>6, <2>7
<1>2. CASE ClearAll \/ ModeObserve \/ ModeEnforce \/ UnbanRows \/ ClearIps
  BY <1>2 DEF GuardTypeOK, ClearAll, ModeObserve, ModeEnforce, UnbanRows, ClearIps, Rest, Phases
<1>3. ASSUME NEW i \in Addresses, Release(i) \/ Forget(i) \/ BanAges(i) \/ Timeout(i)
      PROVE  GuardTypeOK'
  BY <1>3 DEF GuardTypeOK, Release, Forget, BanAges, Timeout, Phases
<1>4. CASE BrokerDies \/ BrokerStarts \/ GuardHubKilled
  <2>1. CASE BrokerDies \/ BrokerStarts
    BY <2>1 DEF GuardTypeOK, BrokerDies, BrokerStarts
  <2>2. CASE GuardHubKilled
    BY <2>2 DEF GuardTypeOK, GuardHubKilled, Rest, Away
  <2> QED BY <1>4, <2>1, <2>2
<1>5. CASE UNCHANGED guardVars
  BY <1>5 DEF GuardTypeOK, guardVars
<1> QED BY <1>1, <1>2, <1>3, <1>4, <1>5 DEF GuardNext

\* Every step keeps the limit.
LEMMA LimitKept ==
    GuardTypeOK /\ GrantsWithinLimit /\ [GuardNext]_guardVars => GrantsWithinLimit'
<1> SUFFICES ASSUME GuardTypeOK, GrantsWithinLimit, [GuardNext]_guardVars
             PROVE  GrantsWithinLimit'
  OBVIOUS
<1>1. ASSUME NEW t \in LogReaders, NEW i \in Addresses, Observe(t, i)
      PROVE  GrantsWithinLimit'
  <2>1. CASE bans[i] # "off"
    BY <1>1, <2>1, FewerGrants DEF Observe, Granted
  <2>2. CASE bans[i] = "off" /\ Grant(i)
    BY <1>1, <2>2, OneMoreGrant DEF Observe
  <2>3. CASE bans[i] = "off" /\ ~Grant(i)
    <3>1. Granted' \subseteq Granted
      BY <1>1, <2>3 DEF Observe, Granted, GuardTypeOK
    <3> QED BY <3>1, FewerGrants
  <2> QED BY <2>1, <2>2, <2>3
<1>2. CASE UnbanRows \/ ClearIps \/ \E i \in Addresses : Forget(i)
  <2>1. Granted' \subseteq Granted
    BY <1>2 DEF UnbanRows, ClearIps, Forget, Granted, GuardTypeOK
  <2> QED BY <2>1, FewerGrants
<1>3. CASE seen' = seen
  BY <1>3, FewerGrants DEF Granted
<1> QED
  BY <1>1, <1>2, <1>3
  DEF GuardNext, guardVars, SyncStart, SyncDone, LogEnds, Ban, BanFails, Record, Replay,
      ClearAll, ModeObserve, ModeEnforce, Release, BanAges, Timeout, BrokerDies, BrokerStarts,
      GuardHubKilled

\* An address leaves nftables only when its ban is about to end and nobody is about to
\* record it, or into the set of those taken out.
LEMMA BansStayBacked == GuardInv /\ [GuardNext]_guardVars => BansAreBacked' /\ RecordsAreBacked'
<1> SUFFICES ASSUME GuardInv, [GuardNext]_guardVars
             PROVE  BansAreBacked' /\ RecordsAreBacked'
  OBVIOUS
<1> USE DEF GuardInv, GuardTypeOK, BansAreBacked, RecordsAreBacked
<1>1. ASSUME NEW t \in LogReaders,
             \/ SyncStart(t) \/ SyncDone(t) \/ LogEnds(t) \/ Ban(t) \/ BanFails(t) \/ Record(t)
             \/ \E i \in Addresses : Replay(t, i) \/ Observe(t, i)
      PROVE  BansAreBacked' /\ RecordsAreBacked'
  <2>1. CASE SyncStart(t) \/ SyncDone(t) \/ LogEnds(t)
    BY <2>1 DEF SyncStart, SyncDone, LogEnds, To, Away
  <2>2. CASE Ban(t)
    BY <2>2 DEF Ban, To
  <2>3. CASE BanFails(t)
    BY <2>3 DEF BanFails, To, Away
  <2>4. CASE Record(t)
    BY <2>4 DEF Record, To, Away
  <2>5. ASSUME NEW i \in Addresses, Replay(t, i) PROVE BansAreBacked' /\ RecordsAreBacked'
    BY <2>5 DEF Replay, To, Away, Block
  <2>6. ASSUME NEW i \in Addresses, Observe(t, i) PROVE BansAreBacked' /\ RecordsAreBacked'
    BY <2>6 DEF Observe, To, Away
  <2> QED BY <1>1, <2>1, <2>2, <2>3, <2>4, <2>5, <2>6
<1>2. CASE ClearAll \/ ModeObserve \/ ModeEnforce \/ UnbanRows \/ ClearIps
  BY <1>2 DEF ClearAll, ModeObserve, ModeEnforce, UnbanRows, ClearIps
<1>3. ASSUME NEW i \in Addresses, Release(i) \/ Forget(i) \/ BanAges(i) \/ Timeout(i)
      PROVE  BansAreBacked' /\ RecordsAreBacked'
  BY <1>3 DEF Release, Forget, BanAges, Timeout
<1>4. CASE BrokerDies \/ BrokerStarts \/ GuardHubKilled
  BY <1>4 DEF BrokerDies, BrokerStarts, GuardHubKilled, Away
<1>5. CASE UNCHANGED guardVars
  BY <1>5 DEF guardVars
<1> QED BY <1>1, <1>2, <1>3, <1>4, <1>5 DEF GuardNext

\* The invariant the theorems rest on.
LEMMA GuardInvariant == GuardSpec => []GuardInv
<1>1. GuardInv /\ [GuardNext]_guardVars => GuardInv'
  BY GuardTypes, LimitKept, BansStayBacked DEF GuardInv
<1> QED BY <1>1, GuardInitInv, PTL DEF GuardSpec

-----------------------------------------------------------------------------
\* dark_policy.py, core.py, guardd.py: rows, leases and threads keep their types.
THEOREM GuardTypeCorrect == GuardSpec => []GuardTypeOK
BY GuardInvariant, PTL DEF GuardInv

\* Guard.observe and the replay of bans: never more recent addresses than the limit, and no
\* ban shown as applied that nobody took out and that is not in nftables.
THEOREM LimitHolds == GuardSpec => []LimitIsEnforced
<1>1. GuardInv => LimitIsEnforced
  BY DEF GuardInv, LimitIsEnforced
<1> QED BY <1>1, GuardInvariant, PTL

-----------------------------------------------------------------------------
(* Logins *)

\* The secrets a code of account a may be made from.
InUse(a) ==
    {x \in {account[a].mfa.pend} : x # 0}
       \union {x \in {account[a].mfa.secret} : account[a].mfa.on}

\* Every secret in use was handed out to one account and one enrolment.
SecretsAreOwn ==
    /\ \A a \in Admins : /\ InUse(a) \subseteq 1..secrets
                         /\ account[a].mfa.on => account[a].mfa.pend # account[a].mfa.secret
    /\ \A a, b \in Admins : a # b => InUse(a) \intersect InUse(b) = {}

\* A code accepted so far is of a secret handed out, and is one the account would now refuse.
CodesAreSpent ==
    \A c \in accepted :
        /\ c.secret <= secrets
        /\ \A a \in Admins :
              /\ account[a].mfa.pend # c.secret
              /\ account[a].mfa.on /\ account[a].mfa.secret = c.secret
                 => IF c.at = Recovery THEN ~account[a].mfa.left ELSE c.at <= account[a].mfa.last

OwnerLeft == \E o \in OwnerRole : ~account[o].off

SessionInv ==
    /\ SessionTypeOK /\ SessionsAreCurrent /\ SecretsAreOwn /\ CodesAreSpent
    /\ ~reused /\ OwnerLeft

-----------------------------------------------------------------------------
\* Nobody is logged in at first.
LEMMA SessionInitInv == SessionInit => SessionInv
<1> SUFFICES ASSUME SessionInit PROVE SessionInv
  OBVIOUS
<1> USE SessionAssumption
<1>1. SessionTypeOK
  <2>1. Quiet.who \in Admins
    BY DEF Quiet
  <2>4. 0 \in 0..MaxPassword
    OBVIOUS
  <2>2. Quiet \in [do : {"none", "login", "password", "setup", "disable"}, who : Admins,
                   pw : 0..MaxPassword, name : Nat]
    BY <2>1, <2>4 DEF Quiet
  <2>3. /\ account \in [Admins -> [pw : 0..MaxPassword, name : Nat, off : BOOLEAN,
              mfa : [on : BOOLEAN, secret : Nat, pend : Nat, last : Int, left : BOOLEAN]]]
    BY DEF SessionInit, NoMfa
  <2>5. pending \in [Requests -> [do : {"none", "login", "password", "setup", "disable"},
                                  who : Admins, pw : 0..MaxPassword, name : Nat]]
    BY <2>2 DEF SessionInit
  <2>6. /\ opened = {} /\ accepted = {} /\ reused = FALSE
        /\ attempts \in 0..MaxAttempts /\ step \in 0..MaxStep /\ secrets \in 0..MaxSecret
    BY DEF SessionInit
  <2> QED BY <2>3, <2>5, <2>6 DEF SessionTypeOK
<1>2. SessionsAreCurrent /\ CodesAreSpent /\ ~reused /\ OwnerLeft
  BY DEF SessionInit, SessionsAreCurrent, CodesAreSpent, OwnerLeft
<1>3. SecretsAreOwn
  BY DEF SessionInit, SecretsAreOwn, InUse, NoMfa
<1> QED BY <1>1, <1>2, <1>3 DEF SessionInv

\* Switching an account off leaves an owner who can log in.
LEMMA AnOwnerStays ==
    ASSUME SessionTypeOK, OwnerLeft, NEW s, NEW a \in Admins, NEW off \in BOOLEAN,
           AdminSwitch(s, a, off)
    PROVE  OwnerLeft'
<1> DEFINE Able == {o \in OwnerRole : ~account[o].off}
<1>1. \A b \in Admins : account'[b].off = IF b = a THEN off ELSE account[b].off
  BY DEF AdminSwitch, SessionTypeOK
<1>2. CASE off => a \notin OwnerRole
  <2>1. PICK o \in OwnerRole : ~account[o].off
    BY DEF OwnerLeft
  <2>2. ~account'[o].off
    BY <1>1, <1>2, <2>1, SessionAssumption
  <2> QED BY <2>2 DEF OwnerLeft
<1>3. CASE off /\ a \in OwnerRole
  <2>1. ~(Cardinality(Able) <= 1)
    BY <1>3 DEF AdminSwitch, LastOwner
  <2>2. IsFiniteSet(Able) /\ Cardinality(Able) \in Nat
    BY SessionAssumption, FS_Subset, FS_CardinalityType
  <2>3. Able \ {a} # {}
    <3>1. CASE a \in Able
      <4>1. Cardinality(Able \ {a}) = Cardinality(Able) - 1
        BY <2>2, <3>1, FS_RemoveElement
      <4>2. Cardinality({}) = 0
        BY FS_EmptySet
      <4>3. Cardinality(Able \ {a}) # 0
        BY <2>1, <2>2, <4>1
      <4> QED BY <4>2, <4>3
    <3>2. CASE a \notin Able
      BY <2>1, <2>2, <3>2, FS_EmptySet
    <3> QED BY <3>1, <3>2
  <2> QED BY <1>1, <2>3, SessionAssumption DEF OwnerLeft
<1> QED BY <1>2, <1>3

-----------------------------------------------------------------------------
(* What a step of a request, of an owner or of the recovery tool leaves of *)
(* an account.                                                             *)

Mfas == [on : BOOLEAN, secret : Nat, pend : Nat, last : Int, left : BOOLEAN]

\* Replacing the second factor of an account keeps the types.
LEMMA MfaTypes ==
    ASSUME SessionTypeOK, NEW a \in Admins, NEW m \in Mfas,
           account' = [account EXCEPT ![a].mfa = m]
    PROVE  /\ account' \in [Admins -> [pw : 0..MaxPassword, name : Nat, off : BOOLEAN, mfa : Mfas]]
           /\ account'[a].mfa = m
           /\ \A b \in Admins : /\ b # a => account'[b] = account[b]
                                /\ account'[b].pw = account[b].pw
                                /\ account'[b].off = account[b].off
BY DEF SessionTypeOK, Mfas

\* Secrets stay apart when the ones an account now uses are among those it used, or new.
LEMMA SecretsStayOwn ==
    ASSUME SessionTypeOK, SecretsAreOwn, NEW a \in Admins, NEW m \in Mfas,
           account' = [account EXCEPT ![a].mfa = m],
           secrets' \in Nat, secrets' >= secrets,
           m.on => m.pend # m.secret,
           m.pend # 0 => m.pend \in InUse(a) \union (secrets + 1)..secrets',
           m.on => m.secret \in InUse(a)
    PROVE  SecretsAreOwn'
<1>1. /\ InUse(a)' \subseteq InUse(a) \union (secrets + 1)..secrets'
      /\ \A b \in Admins : b # a => InUse(b)' = InUse(b)
      /\ account'[a].mfa = m
      /\ \A b \in Admins : b # a => account'[b] = account[b]
  <2>1. /\ account'[a].mfa = m
        /\ \A b \in Admins : b # a => account'[b] = account[b]
    BY MfaTypes
  <2>2. \A x \in InUse(a)' : (x = m.pend /\ m.pend # 0) \/ (x = m.secret /\ m.on)
    BY <2>1 DEF InUse
  <2>3. InUse(a)' \subseteq InUse(a) \union (secrets + 1)..secrets'
    BY <2>2
  <2>4. \A b \in Admins : b # a => InUse(b)' = InUse(b)
    BY <2>1 DEF InUse
  <2> QED BY <2>1, <2>3, <2>4
<1>2. secrets \in Nat /\ \A b \in Admins : InUse(b) \subseteq 1..secrets
  BY SessionAssumption DEF SessionTypeOK, SecretsAreOwn
<1>3. \A b \in Admins : /\ InUse(b)' \subseteq 1..secrets'
                        /\ account'[b].mfa.on => account'[b].mfa.pend # account'[b].mfa.secret
  BY <1>1, <1>2 DEF SecretsAreOwn
<1>4. ASSUME NEW b \in Admins, NEW d \in Admins, b # d
      PROVE  (InUse(b) \intersect InUse(d) = {})'
  <2>1. CASE b # a /\ d # a
    BY <1>1, <1>4, <2>1 DEF SecretsAreOwn
  <2>2. CASE b = a
    <3>1. InUse(d)' = InUse(d) /\ InUse(b) \intersect InUse(d) = {}
      BY <1>1, <1>4, <2>2 DEF SecretsAreOwn
    <3> QED BY <1>1, <1>2, <2>2, <3>1
  <2>3. CASE d = a
    <3>1. InUse(b)' = InUse(b) /\ InUse(b) \intersect InUse(d) = {}
      BY <1>1, <1>4, <2>3 DEF SecretsAreOwn
    <3> QED BY <1>1, <1>2, <2>3, <3>1
  <2> QED BY <2>1, <2>2, <2>3
<1> QED BY <1>3, <1>4 DEF SecretsAreOwn

\* Logins, and the end of the second factor.
LEMMA CodeIsTaken ==
    ASSUME SessionInv, NEW a \in Admins, NEW at \in 0..MaxStep \union {Recovery},
           NEW c, c = [secret |-> account[a].mfa.secret, at |-> at], NEW m \in Mfas,
           account[a].mfa.on, ValidCode(account[a].mfa, c), Accept(c), secrets' = secrets,
           account' = [account EXCEPT ![a].mfa = m],
           m = NoMfa \/ m = Consume(account[a].mfa, c)
    PROVE  /\ c \in Codes /\ account'[a].mfa = m
           /\ accepted' \subseteq Codes /\ ~reused'
           /\ SecretsAreOwn' /\ CodesAreSpent'
<1> DEFINE n == account[a].mfa
<1>0. n \in Mfas /\ secrets \in Nat /\ secrets <= MaxSecret /\ Recovery = -1
  BY SessionAssumption DEF SessionInv, SessionTypeOK, Mfas, Recovery
<1>1. /\ n.secret \in InUse(a) /\ n.secret \in 1..secrets
  BY DEF SessionInv, SecretsAreOwn, InUse
<1>2. c \in Codes /\ at \in Int
  BY <1>0, <1>1, SessionAssumption DEF Codes
<1>3. c \notin accepted
  BY <1>0, <1>2 DEF SessionInv, CodesAreSpent, ValidCode, Mfas
<1>4. /\ accepted' = accepted \union {c} /\ ~reused'
      /\ accepted' \subseteq Codes
  BY <1>2, <1>3 DEF Accept, SessionInv, SessionTypeOK
<1>5. /\ m.on => /\ m.secret = n.secret /\ m.pend = n.pend
                 /\ m.last = IF c.at = Recovery THEN n.last ELSE c.at
                 /\ m.left = IF c.at = Recovery THEN FALSE ELSE n.left
      /\ m.pend = n.pend \/ m.pend = 0
  <2>1. CASE m = NoMfa
    BY <2>1 DEF NoMfa
  <2>2. CASE m = Consume(n, c)
    <3>1. c.at \in Int
      BY <1>2
    <3>2. /\ Consume(n, c).secret = n.secret /\ Consume(n, c).pend = n.pend
          /\ Consume(n, c).last = IF c.at = Recovery THEN n.last ELSE c.at
          /\ Consume(n, c).left = IF c.at = Recovery THEN FALSE ELSE n.left
      BY <1>0, <1>2, <3>1 DEF Consume, Mfas
    <3> QED BY <2>2, <3>2, Zenon
  <2> QED BY <2>1, <2>2
<1>6. SecretsAreOwn'
  <2>1. m.on => m.pend # m.secret
    BY <1>5 DEF SessionInv, SecretsAreOwn
  <2>2. m.pend # 0 => m.pend \in InUse(a)
    BY <1>5 DEF InUse
  <2>3. m.on => m.secret \in InUse(a)
    BY <1>1, <1>5
  <2>4. secrets' \in Nat /\ secrets' >= secrets
    BY <1>0
  <2>5. m.pend # 0 => m.pend \in InUse(a) \union (secrets + 1)..secrets'
    BY <2>2
  <2> QED BY <2>1, <2>3, <2>4, <2>5, SecretsStayOwn DEF SessionInv
<1>7. CodesAreSpent'
  <2>1. /\ account'[a].mfa = m
        /\ \A b \in Admins : b # a => account'[b] = account[b]
    BY MfaTypes DEF SessionInv
  <2>2. ASSUME NEW d \in accepted, NEW b \in Admins
        PROVE  /\ d.secret <= secrets'
               /\ account'[b].mfa.pend # d.secret
               /\ account'[b].mfa.on /\ account'[b].mfa.secret = d.secret
                  => IF d.at = Recovery THEN ~account'[b].mfa.left
                                        ELSE d.at <= account'[b].mfa.last
    <3>0. d \in Codes /\ d.at \in Int /\ d.secret >= 1
      BY <1>0, SessionAssumption DEF SessionInv, SessionTypeOK, Codes
    <3>1. CASE b # a
      BY <2>1, <2>2, <3>1 DEF SessionInv, CodesAreSpent
    <3>2. CASE b = a
      <4>1. /\ d.secret <= secrets /\ n.pend # d.secret
            /\ n.secret = d.secret => IF d.at = Recovery THEN ~n.left ELSE d.at <= n.last
        BY <2>2 DEF SessionInv, CodesAreSpent
      <4>2. c.at # Recovery => c.at > n.last
        BY DEF ValidCode
      <4>3. m.pend # d.secret
        BY <1>5, <3>0, <4>1
      <4>4. ASSUME m.on, m.secret = d.secret
            PROVE  IF d.at = Recovery THEN ~m.left ELSE d.at <= m.last
        <5>1. CASE c.at = Recovery
          BY <1>5, <4>1, <4>4, <5>1
        <5>2. CASE c.at # Recovery
          BY <1>0, <1>2, <1>5, <3>0, <4>1, <4>2, <4>4, <5>2 DEF Mfas
        <5> QED BY <5>1, <5>2
      <4> QED BY <2>1, <3>2, <4>1, <4>3, <4>4
    <3> QED BY <3>1, <3>2
  <2>3. ASSUME NEW b \in Admins
        PROVE  /\ c.secret <= secrets'
               /\ account'[b].mfa.pend # c.secret
               /\ account'[b].mfa.on /\ account'[b].mfa.secret = c.secret
                  => IF c.at = Recovery THEN ~account'[b].mfa.left
                                        ELSE c.at <= account'[b].mfa.last
    <3>1. CASE b # a
      <4>1. n.secret \notin InUse(b)
        BY <1>1, <3>1 DEF SessionInv, SecretsAreOwn
      <4>2. account[b].mfa.pend # n.secret /\ ~(account[b].mfa.on /\ account[b].mfa.secret = n.secret)
        BY <1>1, <4>1 DEF InUse
      <4> QED BY <1>1, <2>1, <3>1, <4>2
    <3>2. CASE b = a
      <4>1. n.pend # n.secret /\ n.secret # 0
        BY <1>1 DEF SessionInv, SecretsAreOwn
      <4>2. m.pend # c.secret /\ c.secret <= secrets'
        BY <1>0, <1>1, <1>5, <4>1
      <4>3. m.on => IF c.at = Recovery THEN ~m.left ELSE c.at <= m.last
        <5>1. CASE c.at = Recovery
          BY <1>5, <5>1, Zenon
        <5>2. CASE c.at # Recovery
          BY <1>2, <1>5, <5>2
        <5> QED BY <5>1, <5>2
      <4> QED BY <2>1, <3>2, <4>2, <4>3
    <3> QED BY <3>1, <3>2
  <2> QED BY <1>4, <2>2, <2>3 DEF CodesAreSpent
<1> QED BY <1>2, <1>4, <1>6, <1>7, MfaTypes DEF SessionInv

\* Steps that leave every second factor, and the codes accepted, alone.
LEMMA FactorUntouched ==
    ASSUME SessionInv, \A b \in Admins : account'[b].mfa = account[b].mfa,
           accepted' = accepted, secrets' = secrets, reused' = reused
    PROVE  SecretsAreOwn' /\ CodesAreSpent' /\ ~reused'
<1>1. \A b \in Admins : InUse(b)' = InUse(b)
  BY DEF InUse
<1>2. SecretsAreOwn'
  BY <1>1 DEF SessionInv, SecretsAreOwn
<1>3. CodesAreSpent'
  BY DEF SessionInv, CodesAreSpent
<1> QED BY <1>2, <1>3 DEF SessionInv

\* Requests are typed, whichever of them changes.
LEMMA RequestTypes ==
    ASSUME SessionTypeOK, NEW r \in Requests
    PROVE  /\ \A a \in Admins, do \in {"login", "password", "setup", "disable"} :
                 Read(r, do, a) => pending' \in [Requests ->
                    [do : {"none", "login", "password", "setup", "disable"}, who : Admins,
                     pw : 0..MaxPassword, name : Nat]]
           /\ Done(r) => pending' \in [Requests ->
                    [do : {"none", "login", "password", "setup", "disable"}, who : Admins,
                     pw : 0..MaxPassword, name : Nat]]
           /\ pending[r].who \in Admins /\ pending[r].pw \in 0..MaxPassword
<1>1. Quiet \in [do : {"none", "login", "password", "setup", "disable"}, who : Admins,
                pw : 0..MaxPassword, name : Nat]
  <2>1. Quiet.who \in Admins
    BY SessionAssumption DEF Quiet
  <2>2. 0 \in 0..MaxPassword
    BY SessionAssumption
  <2> QED BY <2>1, <2>2 DEF Quiet
<1>2. ASSUME NEW a \in Admins, NEW do \in {"login", "password", "setup", "disable"}, Read(r, do, a)
      PROVE  pending' \in [Requests -> [do : {"none", "login", "password", "setup", "disable"},
                                       who : Admins, pw : 0..MaxPassword, name : Nat]]
  BY <1>2 DEF SessionTypeOK, Read
<1> QED BY <1>1, <1>2 DEF SessionTypeOK, Done

-----------------------------------------------------------------------------
\* Steps that change no account: sessions end, time passes, requests begin and fail.
LEMMA QuietSteps ==
    ASSUME SessionInv, UNCHANGED <<account, secrets, accepted, reused>>,
           opened' \subseteq opened,
           attempts' \in 0..MaxAttempts, step' \in 0..MaxStep,
           \/ UNCHANGED pending
           \/ \E r \in Requests :
                 \/ Done(r)
                 \/ \E a \in Admins, do \in {"login", "password", "setup", "disable"} : Read(r, do, a)
    PROVE  SessionInv'
<1>1. SecretsAreOwn' /\ CodesAreSpent' /\ ~reused'
  BY FactorUntouched
<1>2. SessionTypeOK'
  BY RequestTypes DEF SessionInv, SessionTypeOK
<1>3. SessionsAreCurrent' /\ OwnerLeft'
  BY DEF SessionInv, SessionsAreCurrent, OwnerLeft
<1> QED BY <1>1, <1>2, <1>3 DEF SessionInv

\* A new password ends the sessions opened with the old one.
LEMMA PasswordChanges ==
    ASSUME SessionInv, NEW a \in Admins, NewPassword(a, Without(a)),
           UNCHANGED pending \/ \E r \in Requests : Done(r)
    PROVE  SessionInv'
<1>1. \A b \in Admins : /\ account'[b].mfa = account[b].mfa /\ account'[b].off = account[b].off
                        /\ b # a => account'[b] = account[b]
  BY DEF SessionInv, SessionTypeOK, NewPassword
<1>2. SecretsAreOwn' /\ CodesAreSpent' /\ ~reused'
  BY <1>1, FactorUntouched DEF NewPassword
<1>3. SessionTypeOK'
  <2>1. account[a].pw + 1 \in 0..MaxPassword
    BY SessionAssumption DEF SessionInv, SessionTypeOK, NewPassword
  <2>2. account' \in [Admins -> [pw : 0..MaxPassword, name : Nat, off : BOOLEAN,
           mfa : [on : BOOLEAN, secret : Nat, pend : Nat, last : Int, left : BOOLEAN]]]
    BY <2>1 DEF SessionInv, SessionTypeOK, NewPassword
  <2> QED BY <2>2, RequestTypes DEF SessionInv, SessionTypeOK, NewPassword, Without
<1>4. SessionsAreCurrent'
  BY <1>1 DEF SessionInv, SessionTypeOK, SessionsAreCurrent, NewPassword, Without
<1>5. OwnerLeft'
  BY <1>1, SessionAssumption DEF SessionInv, OwnerLeft
<1> QED BY <1>2, <1>3, <1>4, <1>5 DEF SessionInv

\* An account is switched off or on.
LEMMA AccountSwitched ==
    ASSUME SessionInv, NEW s, NEW a \in Admins, NEW off \in BOOLEAN, AdminSwitch(s, a, off)
    PROVE  SessionInv'
<1>1. \A b \in Admins : /\ account'[b].mfa = account[b].mfa /\ account'[b].pw = account[b].pw
                        /\ b # a => account'[b] = account[b]
  BY DEF SessionInv, SessionTypeOK, AdminSwitch
<1>2. SecretsAreOwn' /\ CodesAreSpent' /\ ~reused'
  BY <1>1, FactorUntouched DEF AdminSwitch
<1>3. SessionTypeOK'
  BY DEF SessionInv, SessionTypeOK, AdminSwitch, Without
<1>4. SessionsAreCurrent'
  BY <1>1 DEF SessionInv, SessionTypeOK, SessionsAreCurrent, AdminSwitch, Without
<1>5. OwnerLeft'
  BY AnOwnerStays DEF SessionInv
<1> QED BY <1>2, <1>3, <1>4, <1>5 DEF SessionInv

\* The recovery tool renames an owner.
LEMMA AccountRenamed ==
    ASSUME SessionInv, NEW a \in Admins, RecoverRename(a)
    PROVE  SessionInv'
<1>1. \A b \in Admins : /\ account'[b].mfa = account[b].mfa /\ account'[b].pw = account[b].pw
                        /\ account'[b].off = account[b].off
  BY DEF SessionInv, SessionTypeOK, RecoverRename
<1>2. SecretsAreOwn' /\ CodesAreSpent' /\ ~reused'
  BY <1>1, FactorUntouched DEF RecoverRename
<1>3. SessionTypeOK'
  BY DEF SessionInv, SessionTypeOK, RecoverRename, Without
<1>4. SessionsAreCurrent'
  BY <1>1 DEF SessionInv, SessionTypeOK, SessionsAreCurrent, RecoverRename, Without
<1>5. OwnerLeft'
  BY <1>1, SessionAssumption DEF SessionInv, OwnerLeft
<1> QED BY <1>2, <1>3, <1>4, <1>5 DEF SessionInv

\* The second transaction of a login.
LEMMA LoginKeeps ==
    ASSUME SessionInv, NEW r \in Requests, NEW at \in 0..MaxStep \union {Recovery}, LoginOpens(r, at)
    PROVE  SessionInv'
<1> DEFINE a == pending[r].who
           n == account[a].mfa
           c == [secret |-> n.secret, at |-> at]
           s == [who |-> a, pw |-> pending[r].pw, coded |-> n.on]
<1>1. a \in Admins /\ pending[r].pw \in 0..MaxPassword /\ n \in Mfas /\ n.on \in BOOLEAN
  BY RequestTypes DEF SessionInv, SessionTypeOK, Mfas
<1>2. /\ opened' = opened \union {s} /\ Done(r) /\ UNCHANGED <<step, secrets>>
      /\ attempts' = 0 /\ ~account[a].off /\ account[a].pw = pending[r].pw
  BY DEF LoginOpens
<1>3. /\ SecretsAreOwn' /\ CodesAreSpent' /\ ~reused' /\ accepted' \subseteq Codes
      /\ account' \in [Admins -> [pw : 0..MaxPassword, name : Nat, off : BOOLEAN, mfa : Mfas]]
      /\ \A b \in Admins : /\ account'[b].mfa.on = account[b].mfa.on
                           /\ account'[b].pw = account[b].pw
                           /\ account'[b].off = account[b].off
  <2>1. CASE ~n.on
    <3>1. UNCHANGED <<account, accepted, reused>>
      BY <2>1 DEF LoginOpens
    <3> QED BY <1>2, <3>1, FactorUntouched DEF SessionInv, SessionTypeOK, Mfas
  <2>2. CASE n.on
    <3>1. /\ ValidCode(n, c) /\ Accept(c)
          /\ account' = [account EXCEPT ![a].mfa = Consume(n, c)]
      BY <2>2 DEF LoginOpens
    <3>2. at \in Int
      BY SessionAssumption DEF Recovery
    <3>3. Consume(n, c) \in Mfas /\ Consume(n, c).on = n.on
      BY <1>1, <3>2 DEF Consume, Mfas
    <3>4. SecretsAreOwn' /\ CodesAreSpent' /\ ~reused' /\ accepted' \subseteq Codes
      BY <1>1, <1>2, <2>2, <3>1, <3>3, CodeIsTaken
    <3>5. /\ account' \in [Admins -> [pw : 0..MaxPassword, name : Nat, off : BOOLEAN, mfa : Mfas]]
          /\ account'[a].mfa = Consume(n, c)
          /\ \A b \in Admins : /\ b # a => account'[b] = account[b]
                               /\ account'[b].pw = account[b].pw
                               /\ account'[b].off = account[b].off
      BY <1>1, <3>1, <3>3, MfaTypes DEF SessionInv
    <3> QED BY <3>3, <3>4, <3>5
  <2> QED BY <2>1, <2>2
<1>4. SessionTypeOK'
  <2>1. 0 \in 0..MaxAttempts /\ s \in [who : Admins, pw : 0..MaxPassword, coded : BOOLEAN]
    BY <1>1, SessionAssumption
  <2>2. pending' \in [Requests -> [do : {"none", "login", "password", "setup", "disable"},
                                  who : Admins, pw : 0..MaxPassword, name : Nat]]
    BY <1>2, RequestTypes DEF SessionInv
  <2>3. reused' \in BOOLEAN
    BY DEF LoginOpens, Accept, SessionInv, SessionTypeOK
  <2> QED BY <1>2, <1>3, <2>1, <2>2, <2>3 DEF SessionInv, SessionTypeOK, Mfas
<1>5. SessionsAreCurrent'
  <2>1. \A t \in opened : t.who \in Admins
    BY DEF SessionInv, SessionTypeOK
  <2>2. ASSUME NEW t \in opened
        PROVE  /\ t.pw = account'[t.who].pw /\ ~account'[t.who].off
               /\ account'[t.who].mfa.on => t.coded
    BY <1>3, <2>1 DEF SessionInv, SessionsAreCurrent
  <2>3. s.who = a /\ s.pw = account'[a].pw /\ ~account'[a].off
    BY <1>1, <1>2, <1>3
  <2>4. account'[a].mfa.on => s.coded
    BY <1>1, <1>3
  <2> QED BY <1>2, <2>2, <2>3, <2>4 DEF SessionsAreCurrent
<1>6. OwnerLeft'
  BY <1>3, SessionAssumption DEF SessionInv, OwnerLeft
<1> QED BY <1>3, <1>4, <1>5, <1>6 DEF SessionInv

\* The second factor of an account is replaced; turning it on ends the sessions.
LEMMA FactorReplaced ==
    ASSUME SessionInv, NEW a \in Admins, NEW m \in Mfas,
           account' = [account EXCEPT ![a].mfa = m],
           opened' \subseteq opened, m.on => account[a].mfa.on \/ opened' \subseteq Without(a),
           UNCHANGED <<attempts, step>>, secrets' \in 0..MaxSecret,
           accepted' \subseteq Codes, SecretsAreOwn', CodesAreSpent', ~reused', reused' \in BOOLEAN,
           UNCHANGED pending \/ \E r \in Requests : Done(r)
    PROVE  SessionInv'
<1>1. /\ account' \in [Admins -> [pw : 0..MaxPassword, name : Nat, off : BOOLEAN, mfa : Mfas]]
      /\ account'[a].mfa = m
      /\ \A b \in Admins : /\ b # a => account'[b] = account[b]
                           /\ account'[b].pw = account[b].pw
                           /\ account'[b].off = account[b].off
  BY MfaTypes DEF SessionInv
<1>2. SessionTypeOK'
  BY <1>1, RequestTypes DEF SessionInv, SessionTypeOK, Mfas
<1>3. SessionsAreCurrent'
  BY <1>1 DEF SessionInv, SessionTypeOK, SessionsAreCurrent, Without
<1>4. OwnerLeft'
  BY <1>1, SessionAssumption DEF SessionInv, OwnerLeft
<1> QED BY <1>2, <1>3, <1>4 DEF SessionInv

\* MfaDisable, and the recovery tool.
LEMMA FactorRemoved ==
    ASSUME SessionInv,
           \/ \E r \in Requests, at \in 0..MaxStep \union {Recovery} : MfaDisable(r, at)
           \/ \E a \in Admins : RecoverTotp(a)
    PROVE  SessionInv'
<1>1. NoMfa \in Mfas /\ ~NoMfa.on /\ NoMfa.pend = 0
  BY DEF NoMfa, Mfas
<1>2. ASSUME NEW r \in Requests, NEW at \in 0..MaxStep \union {Recovery}, MfaDisable(r, at)
      PROVE  SessionInv'
  <2> DEFINE a == pending[r].who
             c == [secret |-> account[a].mfa.secret, at |-> at]
  <2>1. a \in Admins /\ reused \in BOOLEAN /\ secrets \in 0..MaxSecret
    BY RequestTypes DEF SessionInv, SessionTypeOK
  <2>2. /\ account[a].mfa.on /\ ValidCode(account[a].mfa, c) /\ Accept(c)
        /\ account' = [account EXCEPT ![a].mfa = NoMfa]
        /\ opened' \subseteq opened /\ Done(r) /\ UNCHANGED <<attempts, step, secrets>>
    BY <1>2 DEF MfaDisable, Without
  <2>3. SecretsAreOwn' /\ CodesAreSpent' /\ ~reused' /\ accepted' \subseteq Codes
    BY <1>1, <2>1, <2>2, CodeIsTaken
  <2>4. reused' \in BOOLEAN
    BY <2>2 DEF Accept
  <2> QED BY <1>1, <2>1, <2>2, <2>3, <2>4, FactorReplaced
<1>3. ASSUME NEW a \in Admins, RecoverTotp(a)
      PROVE  SessionInv'
  <2>1. /\ account' = [account EXCEPT ![a].mfa = NoMfa]
        /\ opened' \subseteq opened
        /\ UNCHANGED <<attempts, step, secrets, accepted, reused, pending>>
        /\ secrets \in 0..MaxSecret /\ secrets \in Nat /\ secrets' >= secrets
        /\ reused' \in BOOLEAN /\ ~reused' /\ accepted' \subseteq Codes
    BY <1>3, SessionAssumption DEF RecoverTotp, Without, SessionInv, SessionTypeOK
  <2>2. SecretsAreOwn'
    BY <1>1, <2>1, SecretsStayOwn DEF SessionInv
  <2>3. CodesAreSpent'
    <3>1. /\ account'[a].mfa = NoMfa
          /\ \A b \in Admins : b # a => account'[b] = account[b]
      BY <1>1, <2>1, MfaTypes DEF SessionInv
    <3>2. \A d \in accepted : d.secret # 0
      BY DEF SessionInv, SessionTypeOK, Codes
    <3> QED BY <1>1, <2>1, <3>1, <3>2 DEF SessionInv, CodesAreSpent
  <2> QED BY <1>1, <2>1, <2>2, <2>3, FactorReplaced
<1> QED BY <1>2, <1>3

\* A new secret waits for its first code.
LEMMA SetupKeeps ==
    ASSUME SessionInv, NEW r \in Requests, MfaSetup(r)
    PROVE  SessionInv'
<1> DEFINE a == pending[r].who
           n == account[a].mfa
           m == [on |-> n.on, secret |-> IF n.secret = 0 THEN secrets + 1 ELSE n.secret,
                 pend |-> secrets + 1, last |-> n.last, left |-> n.left]
<1>1. /\ a \in Admins /\ n \in Mfas /\ secrets \in Nat /\ reused \in BOOLEAN /\ ~reused
      /\ accepted \subseteq Codes /\ n.on \in BOOLEAN
  BY RequestTypes, SessionAssumption DEF SessionInv, SessionTypeOK, Mfas
<1>2. /\ m \in Mfas /\ m.pend = secrets + 1 /\ m.on = n.on /\ m.last = n.last /\ m.left = n.left
      /\ n.secret # 0 => m.secret = n.secret
  BY <1>1 DEF Mfas
<1>3. /\ secrets' = secrets + 1 /\ secrets' \in 0..MaxSecret /\ Done(r)
      /\ UNCHANGED <<opened, attempts, step, accepted, reused>>
  BY <1>1, SessionAssumption DEF MfaSetup, SessionInv, SessionTypeOK
<1>4. account' = [account EXCEPT ![a].mfa = m]
  BY DEF MfaSetup
<1>5. m.on => n.secret \in InUse(a) /\ n.secret \in 1..secrets
  BY <1>1, <1>2 DEF SessionInv, SecretsAreOwn, InUse
<1>6. SecretsAreOwn'
  <2>1. m.on => m.pend # m.secret /\ m.secret \in InUse(a)
    BY <1>1, <1>2, <1>5
  <2>2. m.pend \in InUse(a) \union (secrets + 1)..secrets'
    BY <1>1, <1>2, <1>3
  <2>3. secrets' \in Nat /\ secrets' >= secrets
    BY <1>1, <1>3
  <2> QED BY <1>1, <1>2, <1>4, <2>1, <2>2, <2>3, SecretsStayOwn DEF SessionInv
<1>7. CodesAreSpent'
  <2>1. /\ account'[a].mfa = m
        /\ \A b \in Admins : b # a => account'[b] = account[b]
    BY <1>1, <1>2, <1>4, MfaTypes DEF SessionInv
  <2>2. ASSUME NEW d \in accepted
        PROVE  /\ d.secret <= secrets'
               /\ \A b \in Admins :
                     /\ account'[b].mfa.pend # d.secret
                     /\ account'[b].mfa.on /\ account'[b].mfa.secret = d.secret
                        => IF d.at = Recovery THEN ~account'[b].mfa.left
                                              ELSE d.at <= account'[b].mfa.last
    <3>1. d.secret \in Int /\ d.secret <= secrets
      BY <1>1, SessionAssumption DEF SessionInv, CodesAreSpent, Codes
    <3>2. m.pend # d.secret /\ d.secret <= secrets'
      BY <1>1, <1>2, <1>3, <3>1
    <3>3. m.on /\ m.secret = d.secret
             => IF d.at = Recovery THEN ~m.left ELSE d.at <= m.last
      BY <1>1, <1>2, <1>5 DEF SessionInv, CodesAreSpent
    <3>4. ASSUME NEW b \in Admins
          PROVE  /\ account'[b].mfa.pend # d.secret
                 /\ account'[b].mfa.on /\ account'[b].mfa.secret = d.secret
                    => IF d.at = Recovery THEN ~account'[b].mfa.left
                                          ELSE d.at <= account'[b].mfa.last
      <4>1. CASE b = a
        BY <2>1, <3>2, <3>3, <4>1
      <4>2. CASE b # a
        BY <2>1, <4>2 DEF SessionInv, CodesAreSpent
      <4> QED BY <4>1, <4>2
    <3> QED BY <3>2, <3>4
  <2> QED BY <1>3, <2>2 DEF CodesAreSpent
<1> QED BY <1>1, <1>2, <1>3, <1>4, <1>6, <1>7, FactorReplaced

\* The first code turns the second factor on.
LEMMA EnrollKeeps ==
    ASSUME SessionInv, NEW s \in opened, NEW at \in 0..MaxStep, MfaEnable(s, at)
    PROVE  SessionInv'
<1> DEFINE a == s.who
           n == account[a].mfa
           m == [on |-> TRUE, secret |-> n.pend, pend |-> 0, last |-> at, left |-> TRUE]
           c == [secret |-> n.pend, at |-> at]
<1>1. /\ a \in Admins /\ n \in Mfas /\ secrets \in Nat /\ secrets \in 0..MaxSecret
      /\ accepted \subseteq Codes /\ at \in Int /\ at # Recovery
  BY SessionAssumption DEF SessionInv, SessionTypeOK, Mfas, Recovery
<1>2. /\ n.pend # 0 /\ ~n.on /\ Accept(c)
      /\ account' = [account EXCEPT ![a].mfa = m]
      /\ opened' = Without(a) /\ UNCHANGED <<attempts, step, secrets, pending>>
  BY DEF MfaEnable, Enroll
<1>3. m \in Mfas /\ n.pend \in InUse(a) /\ n.pend \in 1..secrets
  BY <1>1, <1>2 DEF Mfas, InUse, SessionInv, SecretsAreOwn
<1>4. /\ c \in Codes /\ c \notin accepted
      /\ \A d \in accepted : d.secret # n.pend
  BY <1>1, <1>3, SessionAssumption DEF Codes, SessionInv, CodesAreSpent
<1>5. /\ accepted' = accepted \union {c} /\ ~reused' /\ reused' \in BOOLEAN
      /\ accepted' \subseteq Codes
  BY <1>1, <1>2, <1>4 DEF Accept, SessionInv
<1>6. SecretsAreOwn'
  <2>1. m.on => m.pend # m.secret /\ m.secret \in InUse(a)
    BY <1>2, <1>3
  <2>2. m.pend = 0 /\ secrets' \in Nat /\ secrets' >= secrets
    BY <1>1, <1>2
  <2> QED BY <1>1, <1>2, <1>3, <2>1, <2>2, SecretsStayOwn DEF SessionInv
<1>7. CodesAreSpent'
  <2>1. /\ account'[a].mfa = m
        /\ \A b \in Admins : b # a => account'[b] = account[b]
    BY <1>1, <1>2, <1>3, MfaTypes DEF SessionInv
  <2>2. ASSUME NEW d \in accepted, NEW b \in Admins
        PROVE  /\ d.secret <= secrets' /\ account'[b].mfa.pend # d.secret
               /\ account'[b].mfa.on /\ account'[b].mfa.secret = d.secret
                  => IF d.at = Recovery THEN ~account'[b].mfa.left
                                        ELSE d.at <= account'[b].mfa.last
    <3>1. d.secret # 0 /\ d.secret # n.pend /\ d.secret <= secrets'
      BY <1>1, <1>2, <1>4 DEF Codes, SessionInv, CodesAreSpent
    <3>2. CASE b = a
      BY <2>1, <3>1, <3>2
    <3>3. CASE b # a
      BY <2>1, <3>1, <3>3 DEF SessionInv, CodesAreSpent
    <3> QED BY <3>2, <3>3
  <2>3. ASSUME NEW d, d = c, NEW b \in Admins
        PROVE  /\ d.secret <= secrets' /\ account'[b].mfa.pend # d.secret
               /\ account'[b].mfa.on /\ account'[b].mfa.secret = d.secret
                  => IF d.at = Recovery THEN ~account'[b].mfa.left
                                        ELSE d.at <= account'[b].mfa.last
    <3>1. d.secret = n.pend /\ d.secret <= secrets' /\ d.secret # 0 /\ d.at = at
      BY <1>1, <1>2, <1>3, <2>3
    <3>2. CASE b = a
      BY <1>1, <2>1, <3>1, <3>2
    <3>3. CASE b # a
      <4>1. n.pend \notin InUse(b)
        BY <1>1, <1>3, <3>3 DEF SessionInv, SecretsAreOwn
      <4>2. account[b].mfa.pend # n.pend /\ ~(account[b].mfa.on /\ account[b].mfa.secret = n.pend)
        BY <1>2, <4>1 DEF InUse
      <4> QED BY <2>1, <3>1, <3>3, <4>2
    <3> QED BY <3>2, <3>3
  <2>4. \A d \in accepted' : d \in accepted \/ d = c
    BY <1>5
  <2> HIDE DEF c
  <2>5. ASSUME NEW d \in accepted'
        PROVE  /\ d.secret <= secrets'
               /\ \A b \in Admins :
                     /\ account'[b].mfa.pend # d.secret
                     /\ account'[b].mfa.on /\ account'[b].mfa.secret = d.secret
                        => IF d.at = Recovery THEN ~account'[b].mfa.left
                                              ELSE d.at <= account'[b].mfa.last
    BY <1>1, <2>2, <2>3, <2>4
  <2> QED BY <2>5 DEF CodesAreSpent
<1>8. opened' \subseteq opened
  BY <1>2 DEF Without
<1> QED BY <1>1, <1>2, <1>3, <1>5, <1>6, <1>7, <1>8, FactorReplaced

-----------------------------------------------------------------------------
\* Every step of a request, of an owner and of the recovery tool keeps the invariant.
LEMMA SessionStep == SessionInv /\ [SessionNext]_sessionVars => SessionInv'
<1> SUFFICES ASSUME SessionInv, [SessionNext]_sessionVars PROVE SessionInv'
  OBVIOUS
<1>1. /\ attempts \in 0..MaxAttempts /\ step \in 0..MaxStep /\ 0 \in 0..MaxAttempts
      /\ \A s \in opened : s.who \in Admins
      /\ \A r \in Requests : pending[r].who \in Admins
  BY SessionAssumption DEF SessionInv, SessionTypeOK
<1>2. ASSUME NEW r \in Requests, NEW a \in Admins, LoginRead(r, a) PROVE SessionInv'
  <2>1. attempts' \in 0..MaxAttempts
    BY <1>1, <1>2, SessionAssumption DEF LoginRead
  <2> QED BY <1>1, <1>2, <2>1, QuietSteps DEF LoginRead
<1>3. ASSUME NEW r \in Requests, NEW s \in opened, NEW do \in {"password", "setup", "disable"},
             Begin(r, s, do)
      PROVE  SessionInv'
  BY <1>1, <1>3, QuietSteps DEF Begin
<1>4. ASSUME NEW r \in Requests, LoginFails(r) \/ RequestFails(r) PROVE SessionInv'
  BY <1>1, <1>4, QuietSteps DEF LoginFails, RequestFails
<1>5. ASSUME NEW r \in Requests, ChangePassword(r) PROVE SessionInv'
  BY <1>1, <1>5, PasswordChanges DEF ChangePassword
<1>6. ASSUME NEW s \in opened, RevokeSession(s) \/ RevokeOthers(s) PROVE SessionInv'
  BY <1>1, <1>6, QuietSteps DEF RevokeSession, RevokeOthers, Revoke
<1>7. ASSUME NEW a \in Admins, RecoverSessions(a) PROVE SessionInv'
  BY <1>1, <1>7, QuietSteps DEF RecoverSessions, Revoke
<1>8. ASSUME NEW a \in Admins, RecoverPassword(a) \/ \E s \in opened : AdminPassword(s, a)
      PROVE  SessionInv'
  BY <1>8, PasswordChanges DEF RecoverPassword, AdminPassword
<1>9. CASE StepPasses
  <2>1. step' \in 0..MaxStep
    BY <1>1, <1>9, SessionAssumption DEF StepPasses
  <2> QED BY <1>1, <1>9, <2>1, QuietSteps DEF StepPasses
<1>10. CASE UNCHANGED sessionVars
  BY <1>1, <1>10, QuietSteps DEF sessionVars
<1>11. ASSUME NEW r \in Requests, NEW at \in 0..MaxStep \union {Recovery},
              LoginOpens(r, at) \/ MfaDisable(r, at)
       PROVE  SessionInv'
  BY <1>11, LoginKeeps, FactorRemoved
<1>12. ASSUME NEW s \in opened, NEW at \in 0..MaxStep, MfaEnable(s, at) PROVE SessionInv'
  BY <1>12, EnrollKeeps
<1>13. ASSUME NEW r \in Requests, MfaSetup(r) PROVE SessionInv'
  BY <1>13, SetupKeeps
<1>14. ASSUME NEW s \in opened, NEW a \in Admins, NEW off \in BOOLEAN, AdminSwitch(s, a, off)
       PROVE  SessionInv'
  BY <1>14, AccountSwitched
<1>15. ASSUME NEW a \in Admins, RecoverRename(a) \/ RecoverTotp(a) PROVE SessionInv'
  BY <1>15, AccountRenamed, FactorRemoved
<1>16. ASSUME NEW r \in Requests,
              \/ \E a \in Admins : LoginRead(r, a)
              \/ \E at \in 0..MaxStep \union {Recovery} : LoginOpens(r, at) \/ MfaDisable(r, at)
              \/ \E s \in opened, do \in {"password", "setup", "disable"} : Begin(r, s, do)
              \/ ChangePassword(r) \/ MfaSetup(r) \/ LoginFails(r) \/ RequestFails(r)
       PROVE  SessionInv'
  BY <1>16, <1>2, <1>3, <1>4, <1>5, <1>11, <1>13
<1>17. ASSUME NEW s \in opened,
              \/ \E at \in 0..MaxStep : MfaEnable(s, at)
              \/ RevokeSession(s) \/ RevokeOthers(s)
              \/ \E a \in Admins : AdminPassword(s, a) \/ \E off \in BOOLEAN : AdminSwitch(s, a, off)
       PROVE  SessionInv'
  BY <1>17, <1>6, <1>8, <1>12, <1>14
<1> QED BY <1>7, <1>8, <1>9, <1>10, <1>15, <1>16, <1>17 DEF SessionNext

\* auth.py and owner_recovery.py: accounts, sessions, codes and requests keep their types.
THEOREM SessionTypeCorrect == SessionSpec => []SessionTypeOK
<1>1. SessionInv => SessionTypeOK
  BY DEF SessionInv
<1> QED BY <1>1, SessionInitInv, SessionStep, PTL DEF SessionSpec

\* login, change_password, mfa_*, revoke_*, admin_put and the recovery tool, in any order and
\* with any number of requests under way: who is logged in has proven what his account asks
\* for now, no code serves twice, and an owner can log in.
THEOREM LoginsHold == SessionSpec => []LoginsAreSound
<1>1. SessionInv => LoginsAreSound
  BY DEF SessionInv, LoginsAreSound, CodesServeOnce, OwnerLeft
<1> QED BY <1>1, SessionInitInv, SessionStep, PTL DEF SessionSpec

-----------------------------------------------------------------------------
(* The Hub *)

Working == script.pc \notin {"none", "exit"}

\* Nobody else reports while a job works, and it is the one the broker started.
JobIsOwned ==
    /\ script.pc # "none" => webBroker.up /\ webBroker.job = script.c /\ script.c # NoCommit
    /\ webBroker.job # NoCommit => script.pc # "none"
    /\ Working => report.st \in Busy

\* Whatever the job works with was green when it was checked, or was there before.
SourcesAreGreen ==
    /\ Installed \in green
    /\ webBroker.ready => webBroker.c \in green
    /\ script.pc # "none" => script.c \in green
    /\ {app, origin} \subseteq green \union {Partial}
    /\ script.pc \in {"stop", "clear", "copy", "activate", "info", "rbStop", "rbRestore", "rbStart"}
       => script.src = origin

\* How far the job has come is how far the installation has changed.
JobMatchesSource ==
    /\ script.pc \in {"health", "prepare", "snapshot", "stop", "clear", "rbStart"} => app = origin
    /\ script.pc \in {"activate", "info"} => app = script.c
    /\ script.pc = "info" => hubRuns = app
    /\ script.pc \in {"none", "health", "prepare", "snapshot", "stop", "exit"} /\ ~broken
       => hubRuns = app

UpdateInv ==
    /\ UpdateTypeOK /\ JobIsOwned /\ SourcesAreGreen /\ JobMatchesSource
    /\ liveUsage = carried /\ ReportsAreTrue

Reports == [st : Busy \union {"idle", "checking", "ready", "blocked", "success", "failed",
                            "rolled_back"}, c : Commits \union {NoCommit}]
Brokers == [up : BOOLEAN, c : Commits \union {NoCommit}, ready : BOOLEAN,
            job : Commits \union {NoCommit}]
Scripts == [pc : {"none", "health", "prepare", "snapshot", "stop", "clear", "copy",
                  "activate", "info", "rbStop", "rbRestore", "rbStart", "exit"},
            c : Commits \union {NoCommit}, src : Commits \union {NoCommit, Installed, Partial},
            db : Nat, ok : BOOLEAN]
Numbers ==
    /\ app \in Commits \union {Installed, Partial} /\ info \in Commits \union {Installed}
    /\ hubRuns \in Commits \union {Installed, Partial, Stopped}
    /\ carried \in 0..MaxUsage /\ liveUsage = carried
    /\ jobs \in 0..MaxJobs /\ updateFaults \in 0..UpdateFaults
    /\ green \subseteq Commits \union {Installed} /\ origin \in Commits \union {Installed, Partial}
    /\ broken \in BOOLEAN

\* The types of the parts, for the steps below.
LEMMA UpdateTypesSplit ==
    UpdateTypeOK /\ liveUsage = carried
       <=> report \in Reports /\ webBroker \in Brokers /\ script \in Scripts /\ Numbers
BY DEF UpdateTypeOK, Reports, Brokers, Scripts, Numbers

\* The first installation is whole, and nothing is reported.
LEMMA UpdateInitInv == UpdateInit => UpdateInv
<1> SUFFICES ASSUME UpdateInit PROVE UpdateInv
  OBVIOUS
<1> USE UpdateAssumption DEF UpdateInit, NoScript, NoCommit
<1>1. UpdateTypeOK
  <2>1. report \in Reports
    BY DEF Reports
  <2>2. webBroker \in Brokers
    BY DEF Brokers
  <2>3. script \in Scripts
    BY DEF Scripts
  <2>4. Numbers
    <3>1. 0 \in 0..MaxUsage /\ 0 \in 0..MaxJobs /\ 0 \in 0..UpdateFaults
      OBVIOUS
    <3> QED BY <3>1 DEF Numbers
  <2> QED BY <2>1, <2>2, <2>3, <2>4, UpdateTypesSplit
<1>2. JobIsOwned /\ SourcesAreGreen /\ JobMatchesSource /\ ReportsAreTrue
  BY DEF JobIsOwned, SourcesAreGreen, JobMatchesSource, ReportsAreTrue, Working
<1> QED BY <1>1, <1>2 DEF UpdateInv

\* One step per action keeps the types.
LEMMA UpdateTypes ==
    UpdateInv /\ [UpdateNext]_updateVars => UpdateTypeOK' /\ (liveUsage = carried)'
<1> SUFFICES ASSUME UpdateInv, [UpdateNext]_updateVars
             PROVE  UpdateTypeOK' /\ (liveUsage = carried)'
  OBVIOUS
<1> DEFINE Typed == report \in Reports /\ webBroker \in Brokers /\ script \in Scripts /\ Numbers
<1>0. Typed /\ JobIsOwned /\ SourcesAreGreen
  BY UpdateTypesSplit DEF UpdateInv
<1> SUFFICES Typed'
  BY DEF UpdateTypeOK, Reports, Brokers, Scripts, Numbers
<1> USE UpdateAssumption DEF Busy, NoCommit
<1>1. ASSUME NEW c \in Commits, NEW ci \in BOOLEAN, Check(c, ci) PROVE Typed'
  <2>1. report' \in Reports
    BY <1>0, <1>1 DEF Check, Reports, Says
  <2>2. webBroker' \in Brokers
    BY <1>0, <1>1 DEF Check, Brokers
  <2>3. script' \in Scripts
    BY <1>0, <1>1 DEF Check, Scripts, NoScript, Numbers
  <2>4. Numbers'
    BY <1>0, <1>1 DEF Check, Numbers, Scripts, Partial, Stopped, JobIsOwned, SourcesAreGreen
  <2> QED BY <2>1, <2>2, <2>3, <2>4
<1>2. ASSUME NEW c \in Commits, Start(c) PROVE Typed'
  <2>1. report' \in Reports
    BY <1>0, <1>2 DEF Start, CanStart, NoScript, Reports, Says
  <2>2. webBroker' \in Brokers
    BY <1>0, <1>2 DEF Start, CanStart, NoScript, Brokers
  <2>3. script' \in Scripts
    BY <1>0, <1>2 DEF Start, CanStart, NoScript, Scripts, Numbers
  <2>4. Numbers'
    BY <1>0, <1>2
       DEF Start, CanStart, NoScript, Numbers, Scripts, Partial, Stopped, JobIsOwned,
           SourcesAreGreen
  <2> QED BY <2>1, <2>2, <2>3, <2>4
<1>3. CASE CheckFails
  <2>1. report' \in Reports
    BY <1>0, <1>3 DEF CheckFails, Reports, Says
  <2>2. webBroker' \in Brokers
    BY <1>0, <1>3 DEF CheckFails, Brokers
  <2>3. script' \in Scripts
    BY <1>0, <1>3 DEF CheckFails, Scripts, NoScript, Numbers
  <2>4. Numbers'
    BY <1>0, <1>3 DEF CheckFails, Numbers, Scripts, Partial, Stopped, JobIsOwned, SourcesAreGreen
  <2> QED BY <2>1, <2>2, <2>3, <2>4
<1>4. CASE WorkerEnds
  <2>1. report' \in Reports
    BY <1>0, <1>4 DEF WorkerEnds, NoScript, Reports, Says
  <2>2. webBroker' \in Brokers
    BY <1>0, <1>4 DEF WorkerEnds, NoScript, Brokers
  <2>3. script' \in Scripts
    BY <1>0, <1>4 DEF WorkerEnds, NoScript, Scripts, Numbers
  <2>4. Numbers'
    BY <1>0, <1>4
       DEF WorkerEnds, NoScript, Numbers, Scripts, Partial, Stopped, JobIsOwned, SourcesAreGreen
  <2> QED BY <2>1, <2>2, <2>3, <2>4
<1>5. CASE BrokerCrash
  <2>1. report' \in Reports
    BY <1>0, <1>5 DEF BrokerCrash, Breaks, NoScript, Reports, Says
  <2>2. webBroker' \in Brokers
    BY <1>0, <1>5 DEF BrokerCrash, Breaks, NoScript, Brokers
  <2>3. script' \in Scripts
    BY <1>0, <1>5 DEF BrokerCrash, Breaks, NoScript, Scripts, Numbers
  <2>4. Numbers'
    BY <1>0, <1>5
       DEF BrokerCrash, Breaks, NoScript, Numbers, Scripts, Partial, Stopped, JobIsOwned,
           SourcesAreGreen
  <2> QED BY <2>1, <2>2, <2>3, <2>4
<1>6. CASE BrokerRestart
  <2>1. report' \in Reports
    BY <1>0, <1>6 DEF BrokerRestart, Reports, Says
  <2>2. webBroker' \in Brokers
    BY <1>0, <1>6 DEF BrokerRestart, Brokers
  <2>3. script' \in Scripts
    BY <1>0, <1>6 DEF BrokerRestart, Scripts, NoScript, Numbers
  <2>4. Numbers'
    BY <1>0, <1>6 DEF BrokerRestart, Numbers, Scripts, Partial, Stopped, JobIsOwned, SourcesAreGreen
  <2> QED BY <2>1, <2>2, <2>3, <2>4
<1>7. CASE GivesUp
  <2>1. report' \in Reports
    BY <1>0, <1>7 DEF GivesUp, Breaks, Ends, Says, Reports
  <2>2. webBroker' \in Brokers
    BY <1>0, <1>7 DEF GivesUp, Breaks, Ends, Says, Brokers
  <2>3. script' \in Scripts
    BY <1>0, <1>7 DEF GivesUp, Breaks, Ends, Says, Scripts, NoScript, Numbers
  <2>4. Numbers'
    BY <1>0, <1>7
       DEF GivesUp, Breaks, Ends, Says, Numbers, Scripts, Partial, Stopped, JobIsOwned,
           SourcesAreGreen
  <2> QED BY <2>1, <2>2, <2>3, <2>4
<1>8. CASE Health
  <2>1. report' \in Reports
    BY <1>0, <1>8 DEF Health, Ends, Says, Step, Reports
  <2>2. webBroker' \in Brokers
    BY <1>0, <1>8 DEF Health, Ends, Says, Step, Brokers
  <2>3. script' \in Scripts
    BY <1>0, <1>8 DEF Health, Ends, Says, Step, Scripts, NoScript, Numbers
  <2>4. Numbers'
    BY <1>0, <1>8
       DEF Health, Ends, Says, Step, Numbers, Scripts, Partial, Stopped, JobIsOwned, SourcesAreGreen
  <2> QED BY <2>1, <2>2, <2>3, <2>4
<1>9. CASE Prepare
  <2>1. report' \in Reports
    BY <1>0, <1>9 DEF Prepare, Step, Reports, Says
  <2>2. webBroker' \in Brokers
    BY <1>0, <1>9 DEF Prepare, Step, Brokers
  <2>3. script' \in Scripts
    BY <1>0, <1>9 DEF Prepare, Step, Scripts, NoScript, Numbers
  <2>4. Numbers'
    BY <1>0, <1>9 DEF Prepare, Step, Numbers, Scripts, Partial, Stopped, JobIsOwned, SourcesAreGreen
  <2> QED BY <2>1, <2>2, <2>3, <2>4
<1>10. CASE Snapshot
  <2>1. report' \in Reports
    BY <1>0, <1>10 DEF Snapshot, Reports, Says
  <2>2. webBroker' \in Brokers
    BY <1>0, <1>10 DEF Snapshot, Brokers
  <2>3. script' \in Scripts
    <3>1. app \in Commits \union {NoCommit, Installed, Partial} /\ liveUsage \in Nat
      BY <1>0 DEF Numbers
    <3> QED BY <1>0, <1>10, <3>1 DEF Snapshot, Scripts
  <2>4. Numbers'
    BY <1>0, <1>10 DEF Snapshot, Numbers, Scripts, Partial, Stopped, JobIsOwned, SourcesAreGreen
  <2> QED BY <2>1, <2>2, <2>3, <2>4
<1>11. CASE StopHub
  <2>1. report' \in Reports
    BY <1>0, <1>11 DEF StopHub, Step, Reports, Says
  <2>2. webBroker' \in Brokers
    BY <1>0, <1>11 DEF StopHub, Step, Brokers
  <2>3. script' \in Scripts
    BY <1>0, <1>11 DEF StopHub, Step, Scripts, NoScript, Numbers
  <2>4. Numbers'
    BY <1>0, <1>11
       DEF StopHub, Step, Numbers, Scripts, Partial, Stopped, JobIsOwned, SourcesAreGreen
  <2> QED BY <2>1, <2>2, <2>3, <2>4
<1>12. CASE StopFails
  <2>1. report' \in Reports
    BY <1>0, <1>12 DEF StopFails, Breaks, RestartHub, Ends, Says, Reports
  <2>2. webBroker' \in Brokers
    BY <1>0, <1>12 DEF StopFails, Breaks, RestartHub, Ends, Says, Brokers
  <2>3. script' \in Scripts
    BY <1>0, <1>12 DEF StopFails, Breaks, RestartHub, Ends, Says, Scripts, NoScript, Numbers
  <2>4. Numbers'
    <3>1. hubRuns' \in {app, Stopped} /\ broken' \in {broken, TRUE}
      BY <1>12 DEF StopFails, RestartHub
    <3>2. updateFaults' \in 0..UpdateFaults
      BY <1>0, <1>12 DEF StopFails, Breaks, Numbers
    <3> QED BY <1>0, <1>12, <3>1, <3>2 DEF StopFails, Numbers
  <2> QED BY <2>1, <2>2, <2>3, <2>4
<1>13. CASE ClearSource
  <2>1. report' \in Reports
    BY <1>0, <1>13 DEF ClearSource, Step, Reports, Says
  <2>2. webBroker' \in Brokers
    BY <1>0, <1>13 DEF ClearSource, Step, Brokers
  <2>3. script' \in Scripts
    BY <1>0, <1>13 DEF ClearSource, Step, Scripts, NoScript, Numbers
  <2>4. Numbers'
    BY <1>0, <1>13
       DEF ClearSource, Step, Numbers, Scripts, Partial, Stopped, JobIsOwned, SourcesAreGreen
  <2> QED BY <2>1, <2>2, <2>3, <2>4
<1>14. CASE CopySource
  <2>1. report' \in Reports
    BY <1>0, <1>14 DEF CopySource, Step, Says, Reports
  <2>2. webBroker' \in Brokers
    BY <1>0, <1>14 DEF CopySource, Step, Says, Brokers
  <2>3. script' \in Scripts
    BY <1>0, <1>14 DEF CopySource, Step, Says, Scripts, NoScript, Numbers
  <2>4. Numbers'
    BY <1>0, <1>14
       DEF CopySource, Step, Says, Numbers, Scripts, Partial, Stopped, JobIsOwned, SourcesAreGreen
  <2> QED BY <2>1, <2>2, <2>3, <2>4
<1>15. CASE Activate
  <2>1. report' \in Reports
    BY <1>0, <1>15 DEF Activate, Step, Reports, Says
  <2>2. webBroker' \in Brokers
    BY <1>0, <1>15 DEF Activate, Step, Brokers
  <2>3. script' \in Scripts
    BY <1>0, <1>15 DEF Activate, Step, Scripts, NoScript, Numbers
  <2>4. Numbers'
    BY <1>0, <1>15
       DEF Activate, Step, Numbers, Scripts, Partial, Stopped, JobIsOwned, SourcesAreGreen
  <2> QED BY <2>1, <2>2, <2>3, <2>4
<1>16. CASE SwapFails
  <2>1. report' \in Reports
    BY <1>0, <1>16 DEF SwapFails, Breaks, Step, Says, Reports
  <2>2. webBroker' \in Brokers
    BY <1>0, <1>16 DEF SwapFails, Breaks, Step, Says, Brokers
  <2>3. script' \in Scripts
    BY <1>0, <1>16 DEF SwapFails, Breaks, Step, Says, Scripts, NoScript, Numbers
  <2>4. Numbers'
    BY <1>0, <1>16
       DEF SwapFails, Breaks, Step, Says, Numbers, Scripts, Partial, Stopped, JobIsOwned,
           SourcesAreGreen
  <2> QED BY <2>1, <2>2, <2>3, <2>4
<1>17. CASE WriteInfo
  <2>1. report' \in Reports
    BY <1>0, <1>17 DEF WriteInfo, Ends, Says, Reports
  <2>2. webBroker' \in Brokers
    BY <1>0, <1>17 DEF WriteInfo, Ends, Says, Brokers
  <2>3. script' \in Scripts
    BY <1>0, <1>17 DEF WriteInfo, Ends, Says, Scripts, NoScript, Numbers
  <2>4. Numbers'
    BY <1>0, <1>17
       DEF WriteInfo, Ends, Says, Numbers, Scripts, Partial, Stopped, JobIsOwned, SourcesAreGreen
  <2> QED BY <2>1, <2>2, <2>3, <2>4
<1>18. CASE InfoFails
  <2>1. report' \in Reports
    BY <1>0, <1>18 DEF InfoFails, Breaks, Ends, Says, Reports
  <2>2. webBroker' \in Brokers
    BY <1>0, <1>18 DEF InfoFails, Breaks, Ends, Says, Brokers
  <2>3. script' \in Scripts
    BY <1>0, <1>18 DEF InfoFails, Breaks, Ends, Says, Scripts, NoScript, Numbers
  <2>4. Numbers'
    BY <1>0, <1>18
       DEF InfoFails, Breaks, Ends, Says, Numbers, Scripts, Partial, Stopped, JobIsOwned,
           SourcesAreGreen
  <2> QED BY <2>1, <2>2, <2>3, <2>4
<1>19. CASE RollbackStop
  <2>1. report' \in Reports
    BY <1>0, <1>19 DEF RollbackStop, Step, Reports, Says
  <2>2. webBroker' \in Brokers
    BY <1>0, <1>19 DEF RollbackStop, Step, Brokers
  <2>3. script' \in Scripts
    BY <1>0, <1>19 DEF RollbackStop, Step, Scripts, NoScript, Numbers
  <2>4. Numbers'
    BY <1>0, <1>19
       DEF RollbackStop, Step, Numbers, Scripts, Partial, Stopped, JobIsOwned, SourcesAreGreen
  <2> QED BY <2>1, <2>2, <2>3, <2>4
<1>20. CASE RollbackSource
  <2>1. report' \in Reports
    BY <1>0, <1>20 DEF RollbackSource, RestoreSource, Step, Reports, Says
  <2>2. webBroker' \in Brokers
    BY <1>0, <1>20 DEF RollbackSource, RestoreSource, Step, Brokers
  <2>3. script' \in Scripts
    BY <1>0, <1>20 DEF RollbackSource, RestoreSource, Step, Scripts, NoScript, Numbers
  <2>4. Numbers'
    BY <1>0, <1>20
       DEF RollbackSource, RestoreSource, Step, Numbers, Scripts, Partial, Stopped, JobIsOwned,
           SourcesAreGreen
  <2> QED BY <2>1, <2>2, <2>3, <2>4
<1>21. CASE RollbackStart
  <2>1. report' \in Reports
    BY <1>0, <1>21 DEF RollbackStart, Ends, Says, Reports
  <2>2. webBroker' \in Brokers
    BY <1>0, <1>21 DEF RollbackStart, Ends, Says, Brokers
  <2>3. script' \in Scripts
    BY <1>0, <1>21 DEF RollbackStart, Ends, Says, Scripts, NoScript, Numbers
  <2>4. Numbers'
    BY <1>0, <1>21
       DEF RollbackStart, Ends, Says, Numbers, Scripts, Partial, Stopped, JobIsOwned,
           SourcesAreGreen
  <2> QED BY <2>1, <2>2, <2>3, <2>4
<1>22. CASE RollbackFails
  <2>1. report' \in Reports
    BY <1>0, <1>22 DEF RollbackFails, Breaks, Ends, Says, Reports
  <2>2. webBroker' \in Brokers
    BY <1>0, <1>22 DEF RollbackFails, Breaks, Ends, Says, Brokers
  <2>3. script' \in Scripts
    BY <1>0, <1>22 DEF RollbackFails, Breaks, Ends, Says, Scripts, NoScript, Numbers
  <2>4. Numbers'
    BY <1>0, <1>22
       DEF RollbackFails, Breaks, Ends, Says, Numbers, Scripts, Partial, Stopped, JobIsOwned,
           SourcesAreGreen
  <2> QED BY <2>1, <2>2, <2>3, <2>4
<1>23. CASE HubMeters
  <2>1. report' \in Reports
    BY <1>0, <1>23 DEF HubMeters, Reports, Says
  <2>2. webBroker' \in Brokers
    BY <1>0, <1>23 DEF HubMeters, Brokers
  <2>3. script' \in Scripts
    BY <1>0, <1>23 DEF HubMeters, Scripts, NoScript, Numbers
  <2>4. Numbers'
    BY <1>0, <1>23 DEF HubMeters, Numbers, Scripts, Partial, Stopped, JobIsOwned, SourcesAreGreen
  <2> QED BY <2>1, <2>2, <2>3, <2>4
<1>24. CASE UNCHANGED updateVars
  BY <1>0, <1>24 DEF updateVars, Numbers
<1> QED
  BY <1>1, <1>2, <1>3, <1>4, <1>5, <1>6, <1>7, <1>8, <1>9, <1>10, <1>11, <1>12, <1>13, <1>14,
     <1>15, <1>16, <1>17, <1>18, <1>19, <1>20, <1>21, <1>22, <1>23, <1>24
  DEF UpdateNext

\* What the job, the broker and the installation owe each other.
LEMMA UpdateStep ==
    UpdateInv /\ [UpdateNext]_updateVars
       => JobIsOwned' /\ SourcesAreGreen' /\ JobMatchesSource' /\ ReportsAreTrue'
<1> SUFFICES ASSUME UpdateInv, [UpdateNext]_updateVars
             PROVE  JobIsOwned' /\ SourcesAreGreen' /\ JobMatchesSource' /\ ReportsAreTrue'
  OBVIOUS
<1> DEFINE Matched == JobIsOwned /\ SourcesAreGreen /\ JobMatchesSource /\ ReportsAreTrue
<1>0. /\ report \in Reports /\ webBroker \in Brokers /\ script \in Scripts /\ Numbers
      /\ Matched
  BY UpdateTypesSplit DEF UpdateInv
<1> SUFFICES Matched'
  OBVIOUS
<1> USE UpdateAssumption DEF Busy, NoCommit, Reports, Brokers, Scripts, Numbers
<1>1. ASSUME NEW c \in Commits, NEW ci \in BOOLEAN, Check(c, ci) PROVE Matched'
  <2>1. JobIsOwned'
    BY <1>0, <1>1 DEF Check, JobIsOwned, Working
  <2>2. SourcesAreGreen'
    BY <1>0, <1>1 DEF Check, SourcesAreGreen
  <2>3. JobMatchesSource'
    BY <1>0, <1>1 DEF Check, JobMatchesSource
  <2>4. ReportsAreTrue'
    BY <1>0, <1>1 DEF Check, ReportsAreTrue, JobMatchesSource, JobIsOwned, Working
  <2> QED BY <2>1, <2>2, <2>3, <2>4
<1>2. ASSUME NEW c \in Commits, Start(c) PROVE Matched'
  <2>1. JobIsOwned'
    BY <1>0, <1>2 DEF Start, CanStart, NoScript, JobIsOwned, Working
  <2>2. SourcesAreGreen'
    BY <1>0, <1>2 DEF Start, CanStart, NoScript, SourcesAreGreen
  <2>3. JobMatchesSource'
    BY <1>0, <1>2 DEF Start, CanStart, NoScript, JobMatchesSource, JobIsOwned
  <2>4. ReportsAreTrue'
    BY <1>0, <1>2
       DEF Start, CanStart, NoScript, ReportsAreTrue, JobMatchesSource, JobIsOwned, Working
  <2> QED BY <2>1, <2>2, <2>3, <2>4
<1>3. CASE CheckFails
  <2>1. JobIsOwned'
    BY <1>0, <1>3 DEF CheckFails, JobIsOwned, Working
  <2>2. SourcesAreGreen'
    BY <1>0, <1>3 DEF CheckFails, SourcesAreGreen
  <2>3. JobMatchesSource'
    BY <1>0, <1>3 DEF CheckFails, JobMatchesSource
  <2>4. ReportsAreTrue'
    BY <1>0, <1>3 DEF CheckFails, ReportsAreTrue, JobMatchesSource, JobIsOwned, Working
  <2> QED BY <2>1, <2>2, <2>3, <2>4
<1>4. CASE WorkerEnds
  <2>1. JobIsOwned'
    BY <1>0, <1>4 DEF WorkerEnds, NoScript, JobIsOwned, Working
  <2>2. SourcesAreGreen'
    BY <1>0, <1>4 DEF WorkerEnds, NoScript, SourcesAreGreen
  <2>3. JobMatchesSource'
    BY <1>0, <1>4 DEF WorkerEnds, NoScript, JobMatchesSource
  <2>4. ReportsAreTrue'
    BY <1>0, <1>4 DEF WorkerEnds, NoScript, ReportsAreTrue, JobMatchesSource, JobIsOwned, Working
  <2> QED BY <2>1, <2>2, <2>3, <2>4
<1>5. CASE BrokerCrash
  <2>1. JobIsOwned'
    BY <1>0, <1>5 DEF BrokerCrash, Breaks, NoScript, JobIsOwned, Working
  <2>2. SourcesAreGreen'
    BY <1>0, <1>5 DEF BrokerCrash, Breaks, NoScript, SourcesAreGreen
  <2>3. JobMatchesSource'
    BY <1>0, <1>5 DEF BrokerCrash, Breaks, NoScript, JobMatchesSource
  <2>4. ReportsAreTrue'
    BY <1>0, <1>5
       DEF BrokerCrash, Breaks, NoScript, ReportsAreTrue, JobMatchesSource, JobIsOwned, Working
  <2> QED BY <2>1, <2>2, <2>3, <2>4
<1>6. CASE BrokerRestart
  <2>1. JobIsOwned'
    BY <1>0, <1>6 DEF BrokerRestart, JobIsOwned, Working
  <2>2. SourcesAreGreen'
    BY <1>0, <1>6 DEF BrokerRestart, SourcesAreGreen
  <2>3. JobMatchesSource'
    BY <1>0, <1>6 DEF BrokerRestart, JobMatchesSource
  <2>4. ReportsAreTrue'
    BY <1>0, <1>6 DEF BrokerRestart, ReportsAreTrue, JobMatchesSource, JobIsOwned, Working
  <2> QED BY <2>1, <2>2, <2>3, <2>4
<1>7. CASE GivesUp
  <2>1. JobIsOwned'
    BY <1>0, <1>7 DEF GivesUp, Breaks, Ends, Says, JobIsOwned, Working
  <2>2. SourcesAreGreen'
    BY <1>0, <1>7 DEF GivesUp, Breaks, Ends, Says, SourcesAreGreen
  <2>3. JobMatchesSource'
    BY <1>0, <1>7 DEF GivesUp, Breaks, Ends, Says, JobMatchesSource
  <2>4. ReportsAreTrue'
    BY <1>0, <1>7
       DEF GivesUp, Breaks, Ends, Says, ReportsAreTrue, JobMatchesSource, JobIsOwned, Working
  <2> QED BY <2>1, <2>2, <2>3, <2>4
<1>8. CASE Health
  <2>1. JobIsOwned'
    BY <1>0, <1>8 DEF Health, Ends, Says, Step, JobIsOwned, Working
  <2>2. SourcesAreGreen'
    <3>1. script'.c = script.c /\ script'.src = script.src /\ script.pc = "health"
          /\ script'.pc \in {"prepare", "exit"}
      BY <1>0, <1>8 DEF Health, Ends, Step
    <3> QED BY <1>0, <1>8, <3>1 DEF Health, SourcesAreGreen
  <2>3. JobMatchesSource'
    BY <1>0, <1>8 DEF Health, Ends, Says, Step, JobMatchesSource
  <2>4. ReportsAreTrue'
    BY <1>0, <1>8
       DEF Health, Ends, Says, Step, ReportsAreTrue, JobMatchesSource, JobIsOwned, Working
  <2> QED BY <2>1, <2>2, <2>3, <2>4
<1>9. CASE Prepare
  <2>1. JobIsOwned'
    BY <1>0, <1>9 DEF Prepare, Step, JobIsOwned, Working
  <2>2. SourcesAreGreen'
    BY <1>0, <1>9 DEF Prepare, Step, SourcesAreGreen
  <2>3. JobMatchesSource'
    BY <1>0, <1>9 DEF Prepare, Step, JobMatchesSource
  <2>4. ReportsAreTrue'
    BY <1>0, <1>9 DEF Prepare, Step, ReportsAreTrue, JobMatchesSource, JobIsOwned, Working
  <2> QED BY <2>1, <2>2, <2>3, <2>4
<1>10. CASE Snapshot
  <2>1. JobIsOwned'
    BY <1>0, <1>10 DEF Snapshot, JobIsOwned, Working
  <2>2. SourcesAreGreen'
    BY <1>0, <1>10 DEF Snapshot, SourcesAreGreen, JobMatchesSource
  <2>3. JobMatchesSource'
    BY <1>0, <1>10 DEF Snapshot, JobMatchesSource
  <2>4. ReportsAreTrue'
    BY <1>0, <1>10 DEF Snapshot, ReportsAreTrue, JobMatchesSource, JobIsOwned, Working
  <2> QED BY <2>1, <2>2, <2>3, <2>4
<1>11. CASE StopHub
  <2>1. JobIsOwned'
    BY <1>0, <1>11 DEF StopHub, Step, JobIsOwned, Working
  <2>2. SourcesAreGreen'
    BY <1>0, <1>11 DEF StopHub, Step, SourcesAreGreen
  <2>3. JobMatchesSource'
    BY <1>0, <1>11 DEF StopHub, Step, JobMatchesSource
  <2>4. ReportsAreTrue'
    BY <1>0, <1>11 DEF StopHub, Step, ReportsAreTrue, JobMatchesSource, JobIsOwned, Working
  <2> QED BY <2>1, <2>2, <2>3, <2>4
<1>12. CASE StopFails
  <2>1. JobIsOwned'
    BY <1>0, <1>12 DEF StopFails, Breaks, RestartHub, Ends, Says, JobIsOwned, Working
  <2>2. SourcesAreGreen'
    BY <1>0, <1>12 DEF StopFails, Breaks, RestartHub, Ends, Says, SourcesAreGreen
  <2>3. JobMatchesSource'
    BY <1>0, <1>12 DEF StopFails, Breaks, RestartHub, Ends, Says, JobMatchesSource
  <2>4. ReportsAreTrue'
    BY <1>0, <1>12
       DEF StopFails, Breaks, RestartHub, Ends, Says, ReportsAreTrue, JobMatchesSource, JobIsOwned,
           Working
  <2> QED BY <2>1, <2>2, <2>3, <2>4
<1>13. CASE ClearSource
  <2>1. JobIsOwned'
    BY <1>0, <1>13 DEF ClearSource, Step, JobIsOwned, Working
  <2>2. SourcesAreGreen'
    BY <1>0, <1>13 DEF ClearSource, Step, SourcesAreGreen
  <2>3. JobMatchesSource'
    BY <1>0, <1>13 DEF ClearSource, Step, JobMatchesSource
  <2>4. ReportsAreTrue'
    BY <1>0, <1>13 DEF ClearSource, Step, ReportsAreTrue, JobMatchesSource, JobIsOwned, Working
  <2> QED BY <2>1, <2>2, <2>3, <2>4
<1>14. CASE CopySource
  <2>1. JobIsOwned'
    BY <1>0, <1>14 DEF CopySource, Step, Says, JobIsOwned, Working
  <2>2. SourcesAreGreen'
    BY <1>0, <1>14 DEF CopySource, Step, Says, SourcesAreGreen
  <2>3. JobMatchesSource'
    BY <1>0, <1>14 DEF CopySource, Step, Says, JobMatchesSource
  <2>4. ReportsAreTrue'
    BY <1>0, <1>14 DEF CopySource, Step, Says, ReportsAreTrue, JobMatchesSource, JobIsOwned, Working
  <2> QED BY <2>1, <2>2, <2>3, <2>4
<1>15. CASE Activate
  <2>1. JobIsOwned'
    BY <1>0, <1>15 DEF Activate, Step, JobIsOwned, Working
  <2>2. SourcesAreGreen'
    BY <1>0, <1>15 DEF Activate, Step, SourcesAreGreen
  <2>3. JobMatchesSource'
    BY <1>0, <1>15 DEF Activate, Step, JobMatchesSource
  <2>4. ReportsAreTrue'
    BY <1>0, <1>15 DEF Activate, Step, ReportsAreTrue, JobMatchesSource, JobIsOwned, Working
  <2> QED BY <2>1, <2>2, <2>3, <2>4
<1>16. CASE SwapFails
  <2>1. JobIsOwned'
    BY <1>0, <1>16 DEF SwapFails, Breaks, Step, Says, JobIsOwned, Working
  <2>2. SourcesAreGreen'
    BY <1>0, <1>16 DEF SwapFails, Breaks, Step, Says, SourcesAreGreen
  <2>3. JobMatchesSource'
    BY <1>0, <1>16 DEF SwapFails, Breaks, Step, Says, JobMatchesSource
  <2>4. ReportsAreTrue'
    BY <1>0, <1>16
       DEF SwapFails, Breaks, Step, Says, ReportsAreTrue, JobMatchesSource, JobIsOwned, Working
  <2> QED BY <2>1, <2>2, <2>3, <2>4
<1>17. CASE WriteInfo
  <2>1. JobIsOwned'
    BY <1>0, <1>17 DEF WriteInfo, Ends, Says, JobIsOwned, Working
  <2>2. SourcesAreGreen'
    BY <1>0, <1>17 DEF WriteInfo, Ends, Says, SourcesAreGreen
  <2>3. JobMatchesSource'
    BY <1>0, <1>17 DEF WriteInfo, Ends, Says, JobMatchesSource
  <2>4. ReportsAreTrue'
    BY <1>0, <1>17 DEF WriteInfo, Ends, Says, ReportsAreTrue, JobMatchesSource, JobIsOwned, Working
  <2> QED BY <2>1, <2>2, <2>3, <2>4
<1>18. CASE InfoFails
  <2>1. JobIsOwned'
    BY <1>0, <1>18 DEF InfoFails, Breaks, Ends, Says, JobIsOwned, Working
  <2>2. SourcesAreGreen'
    BY <1>0, <1>18 DEF InfoFails, Breaks, Ends, Says, SourcesAreGreen
  <2>3. JobMatchesSource'
    BY <1>0, <1>18 DEF InfoFails, Breaks, Ends, Says, JobMatchesSource
  <2>4. ReportsAreTrue'
    BY <1>0, <1>18
       DEF InfoFails, Breaks, Ends, Says, ReportsAreTrue, JobMatchesSource, JobIsOwned, Working
  <2> QED BY <2>1, <2>2, <2>3, <2>4
<1>19. CASE RollbackStop
  <2>1. JobIsOwned'
    BY <1>0, <1>19 DEF RollbackStop, Step, JobIsOwned, Working
  <2>2. SourcesAreGreen'
    BY <1>0, <1>19 DEF RollbackStop, Step, SourcesAreGreen
  <2>3. JobMatchesSource'
    BY <1>0, <1>19 DEF RollbackStop, Step, JobMatchesSource
  <2>4. ReportsAreTrue'
    BY <1>0, <1>19 DEF RollbackStop, Step, ReportsAreTrue, JobMatchesSource, JobIsOwned, Working
  <2> QED BY <2>1, <2>2, <2>3, <2>4
<1>20. CASE RollbackSource
  <2>1. JobIsOwned'
    BY <1>0, <1>20 DEF RollbackSource, RestoreSource, Step, JobIsOwned, Working
  <2>2. SourcesAreGreen'
    BY <1>0, <1>20 DEF RollbackSource, RestoreSource, Step, SourcesAreGreen
  <2>3. JobMatchesSource'
    BY <1>0, <1>20 DEF RollbackSource, RestoreSource, Step, JobMatchesSource, SourcesAreGreen
  <2>4. ReportsAreTrue'
    BY <1>0, <1>20
       DEF RollbackSource, RestoreSource, Step, ReportsAreTrue, JobMatchesSource, JobIsOwned,
           Working
  <2> QED BY <2>1, <2>2, <2>3, <2>4
<1>21. CASE RollbackStart
  <2>1. JobIsOwned'
    BY <1>0, <1>21 DEF RollbackStart, Ends, Says, JobIsOwned, Working
  <2>2. SourcesAreGreen'
    BY <1>0, <1>21 DEF RollbackStart, Ends, Says, SourcesAreGreen
  <2>3. JobMatchesSource'
    BY <1>0, <1>21 DEF RollbackStart, Ends, Says, JobMatchesSource
  <2>4. ReportsAreTrue'
    BY <1>0, <1>21
       DEF RollbackStart, Ends, Says, ReportsAreTrue, JobMatchesSource, JobIsOwned, Working
  <2> QED BY <2>1, <2>2, <2>3, <2>4
<1>22. CASE RollbackFails
  <2>1. JobIsOwned'
    BY <1>0, <1>22 DEF RollbackFails, Breaks, Ends, Says, JobIsOwned, Working
  <2>2. SourcesAreGreen'
    BY <1>0, <1>22 DEF RollbackFails, Breaks, Ends, Says, SourcesAreGreen
  <2>3. JobMatchesSource'
    BY <1>0, <1>22 DEF RollbackFails, Breaks, Ends, Says, JobMatchesSource
  <2>4. ReportsAreTrue'
    BY <1>0, <1>22
       DEF RollbackFails, Breaks, Ends, Says, ReportsAreTrue, JobMatchesSource, JobIsOwned, Working
  <2> QED BY <2>1, <2>2, <2>3, <2>4
<1>23. CASE HubMeters
  <2>1. JobIsOwned'
    BY <1>0, <1>23 DEF HubMeters, JobIsOwned, Working
  <2>2. SourcesAreGreen'
    BY <1>0, <1>23 DEF HubMeters, SourcesAreGreen
  <2>3. JobMatchesSource'
    BY <1>0, <1>23 DEF HubMeters, JobMatchesSource
  <2>4. ReportsAreTrue'
    BY <1>0, <1>23 DEF HubMeters, ReportsAreTrue, JobMatchesSource, JobIsOwned, Working
  <2> QED BY <2>1, <2>2, <2>3, <2>4
<1>24. CASE UNCHANGED updateVars
  BY <1>0, <1>24
     DEF updateVars, JobIsOwned, Working, SourcesAreGreen, JobMatchesSource, ReportsAreTrue
<1> QED
  BY <1>1, <1>2, <1>3, <1>4, <1>5, <1>6, <1>7, <1>8, <1>9, <1>10, <1>11, <1>12, <1>13, <1>14,
     <1>15, <1>16, <1>17, <1>18, <1>19, <1>20, <1>21, <1>22, <1>23, <1>24
  DEF UpdateNext

\* The installation, its backup and the reports agree in every state.
LEMMA UpdateInvariant == UpdateSpec => []UpdateInv
<1>1. UpdateInv /\ [UpdateNext]_updateVars => UpdateInv'
  BY UpdateTypes, UpdateStep DEF UpdateInv
<1> QED BY <1>1, UpdateInitInv, PTL DEF UpdateSpec

\* updated.py and update.py: reports, jobs and the installation keep their types.
THEOREM UpdateTypeCorrect == UpdateSpec => []UpdateTypeOK
BY UpdateInvariant, PTL DEF UpdateInv

\* update.py and the broker: only green commits are installed, a job that is over leaves the
\* Hub running what is installed unless it called for help, what is reported is so, and no
\* update takes a metered byte with it.
THEOREM HubUpdatesHold == UpdateSpec => []UpdatesHold
<1>1. UpdateInv => UpdatesHold
  BY DEF UpdateInv, UpdatesHold, UpdatesAreSafe, SourcesAreGreen, JobMatchesSource
<1> QED BY <1>1, UpdateInvariant, PTL

=================================================================================
