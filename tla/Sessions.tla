------------------------------- MODULE Sessions -------------------------------
(***************************************************************************)
(* Logins of the panel (auth.py) and the recovery tool that changes the    *)
(* same tables from another process (owner_recovery.py).  A password is    *)
(* verified between two accesses to the database, so everything it was     *)
(* verified against may have changed when the second one writes.           *)
(***************************************************************************)
EXTENDS Integers, FiniteSets

CONSTANTS
    Admins, OwnerRole,  \* accounts, and those with the role owner
    Requests,           \* requests served at the same time
    MaxAttempts,        \* logins per window (8 in the code)
    MaxPassword, MaxSecret, MaxStep, MaxSessions, MaxRename     \* bounds

ASSUME SessionAssumption ==
    /\ OwnerRole \subseteq Admins /\ OwnerRole # {} /\ IsFiniteSet(OwnerRole)
    /\ {MaxAttempts, MaxPassword, MaxSecret, MaxStep} \subseteq Nat

VARIABLES
    account,    \* api_admins and mfa, by account
    opened,     \* live_sessions, by the state each was opened under
    attempts,   \* auth_attempts of the one source address
    step,       \* time, in TOTP steps
    secrets,    \* TOTP secrets handed out so far
    accepted,   \* codes that have been accepted
    reused,     \* a code was accepted a second time
    pending     \* what each request has read before verifying a password

sessionVars == <<account, opened, attempts, step, secrets, accepted, reused, pending>>

Recovery == -1      \* the recovery code, among the steps a code may stand for
NoMfa == [on |-> FALSE, secret |-> 0, pend |-> 0, last |-> -1, left |-> FALSE]
Quiet == [do |-> "none", who |-> CHOOSE a \in Admins : TRUE, pw |-> 0, name |-> 0]

SessionInit ==
    /\ account = [a \in Admins |-> [pw |-> 0, name |-> 0, off |-> FALSE, mfa |-> NoMfa]]
    /\ opened = {}
    /\ attempts = 0
    /\ step = 0 /\ secrets = 0
    /\ accepted = {} /\ reused = FALSE
    /\ pending = [r \in Requests |-> Quiet]

\* Nobody's session survives a change of his credentials.
Without(a) == {s \in opened : s.who # a}

\* The first half of a request: the row is read, then the password verified, which
\* takes a while.  Callers of everything but a login have a session.
Read(r, do, a) ==
    /\ pending[r] = Quiet
    /\ pending' = [pending EXCEPT ![r] = [do |-> do, who |-> a, pw |-> account[a].pw,
                                          name |-> account[a].name]]

\* The account the request has read about is still there under that name.
Same(r) == account[pending[r].who].name = pending[r].name

Done(r) == pending' = [pending EXCEPT ![r] = Quiet]

\* _verify_mfa: a step of the window later than the last one accepted, or an unused
\* recovery code.
ValidCode(m, c) ==
    /\ c.secret = m.secret
    /\ IF c.at = Recovery THEN m.left ELSE c.at > m.last /\ c.at \in step - 1 .. step + 1

Consume(m, c) == IF c.at = Recovery THEN [m EXCEPT !.left = FALSE] ELSE [m EXCEPT !.last = c.at]

Accept(c) ==
    /\ accepted' = accepted \union {c}
    /\ reused' = (reused \/ c \in accepted)

Codes == [secret : 1..MaxSecret, at : 0..MaxStep \union {Recovery}]

---------------------------------------------------------------------------
(* Requests of the panel *)

\* The attempt is counted before the password is looked at.
LoginRead(r, a) ==
    /\ attempts < MaxAttempts
    /\ attempts' = attempts + 1
    /\ Read(r, "login", a)
    /\ UNCHANGED <<account, opened, step, secrets, accepted, reused>>

\* Wrong password, disabled account, or a wrong code: the attempt stays counted.
LoginFails(r) ==
    /\ pending[r].do = "login" /\ Done(r)
    /\ UNCHANGED <<account, opened, attempts, step, secrets, accepted, reused>>

\* Faulty variant: the row is not read again.
TrustingOpens(r, code) ==
    LET a == pending[r].who
        m == account[a].mfa
        c == [secret |-> m.secret, at |-> code]
    IN /\ pending[r].do = "login" /\ Same(r)
       /\ Cardinality(opened) < MaxSessions
       /\ IF m.on THEN /\ ValidCode(m, c) /\ Accept(c)
                       /\ account' = [account EXCEPT ![a].mfa = Consume(m, c)]
                  ELSE UNCHANGED <<account, accepted, reused>>
       /\ opened' = opened \union {[who |-> a, pw |-> pending[r].pw, coded |-> m.on]}
       /\ attempts' = 0 /\ Done(r)
       /\ UNCHANGED <<step, secrets>>

\* The second transaction of login: the row must be the one that was verified.
LoginOpens(r, code) ==
    LET a == pending[r].who
        m == account[a].mfa
        c == [secret |-> m.secret, at |-> code]
    IN /\ pending[r].do = "login" /\ Same(r)
       /\ ~account[a].off /\ account[a].pw = pending[r].pw
       /\ Cardinality(opened) < MaxSessions
       /\ IF m.on THEN /\ ValidCode(m, c) /\ Accept(c)
                       /\ account' = [account EXCEPT ![a].mfa = Consume(m, c)]
                  ELSE UNCHANGED <<account, accepted, reused>>
       /\ opened' = opened \union {[who |-> a, pw |-> pending[r].pw, coded |-> m.on]}
       /\ attempts' = 0 /\ Done(r)
       /\ UNCHANGED <<step, secrets>>

\* An authenticated request that verifies a password: change_password, mfa_setup,
\* mfa_disable.  The session may be gone when it goes on.
Begin(r, s, do) ==
    /\ do = "setup" => ~account[s.who].mfa.on
    /\ Read(r, do, s.who)
    /\ UNCHANGED <<account, opened, attempts, step, secrets, accepted, reused>>

NewPassword(a, without) ==
    /\ account[a].pw < MaxPassword
    /\ account' = [account EXCEPT ![a].pw = @ + 1]
    /\ opened' = without
    /\ UNCHANGED <<attempts, step, secrets, accepted, reused>>

\* The hash read before is not compared again.
ChangePassword(r) ==
    /\ pending[r].do = "password" /\ Same(r) /\ Done(r)
    /\ NewPassword(pending[r].who, Without(pending[r].who))

\* The new secret waits for its first code; it is the secret only of an account without one.
MfaSetup(r) ==
    LET m == account[pending[r].who].mfa
    IN /\ pending[r].do = "setup" /\ Same(r) /\ secrets < MaxSecret
       /\ secrets' = secrets + 1
       /\ account' = [account EXCEPT ![pending[r].who].mfa =
                        [on |-> m.on, secret |-> IF m.secret = 0 THEN secrets + 1 ELSE m.secret,
                         pend |-> secrets + 1, last |-> m.last, left |-> m.left]]
       /\ Done(r)
       /\ UNCHANGED <<opened, attempts, step, accepted, reused>>

Enroll(s, at, without) ==
    LET m == account[s.who].mfa
        c == [secret |-> m.pend, at |-> at]
    IN /\ m.pend # 0 /\ ~m.on
       /\ at \in step - 1 .. step + 1 /\ at >= 0
       /\ account' = [account EXCEPT ![s.who].mfa =
                        [on |-> TRUE, secret |-> m.pend, pend |-> 0, last |-> at, left |-> TRUE]]
       /\ Accept(c)
       /\ opened' = without
       /\ UNCHANGED <<attempts, step, secrets, pending>>

MfaEnable(s, at) == Enroll(s, at, Without(s.who))

MfaDisable(r, at) ==
    LET a == pending[r].who
        c == [secret |-> account[a].mfa.secret, at |-> at]
    IN /\ pending[r].do = "disable" /\ Same(r)
       /\ account[a].mfa.on /\ ValidCode(account[a].mfa, c) /\ Accept(c)
       /\ account' = [account EXCEPT ![a].mfa = NoMfa]
       /\ opened' = Without(a) /\ Done(r)
       /\ UNCHANGED <<attempts, step, secrets>>

\* Wrong password, or the request ends otherwise.
RequestFails(r) ==
    /\ pending[r].do \notin {"none", "login"} /\ Done(r)
    /\ UNCHANGED <<account, opened, attempts, step, secrets, accepted, reused>>

Revoke(gone) ==
    /\ opened' = opened \ gone
    /\ UNCHANGED <<account, attempts, step, secrets, accepted, reused, pending>>

RevokeSession(s) == Revoke({s})

RevokeOthers(s) == Revoke({t \in opened : t.who = s.who} \ {s})

\* An owner edits an account: off, on, or a new password; sessions end in any case.
LastOwner(a) ==
    a \in OwnerRole /\ Cardinality({o \in OwnerRole : ~account[o].off}) <= 1

AdminSwitch(s, a, off) ==
    /\ s.who \in OwnerRole
    /\ off => ~LastOwner(a)
    /\ account' = [account EXCEPT ![a].off = off]
    /\ opened' = Without(a)
    /\ UNCHANGED <<attempts, step, secrets, accepted, reused, pending>>

AdminPassword(s, a) ==
    s.who \in OwnerRole /\ NewPassword(a, Without(a)) /\ UNCHANGED pending

---------------------------------------------------------------------------
(* The recovery tool, in a process of its own; and time *)

RecoverPassword(a) ==
    a \in OwnerRole /\ NewPassword(a, Without(a)) /\ UNCHANGED pending

RecoverRename(a) ==
    /\ a \in OwnerRole /\ account[a].name < MaxRename
    /\ account' = [account EXCEPT ![a].name = @ + 1]
    /\ opened' = Without(a)
    /\ UNCHANGED <<attempts, step, secrets, accepted, reused, pending>>

RecoverTotp(a) ==
    /\ a \in OwnerRole
    /\ account' = [account EXCEPT ![a].mfa = NoMfa]
    /\ opened' = Without(a)
    /\ UNCHANGED <<attempts, step, secrets, accepted, reused, pending>>

RecoverSessions(a) == a \in OwnerRole /\ Revoke({s \in opened : s.who = a})

\* Also ends the window of the login throttle.
StepPasses ==
    /\ step < MaxStep
    /\ step' = step + 1 /\ attempts' = 0
    /\ UNCHANGED <<account, opened, secrets, accepted, reused, pending>>

SessionNext ==
    \/ \E r \in Requests :
          \/ \E a \in Admins : LoginRead(r, a)
          \/ \E at \in 0..MaxStep \union {Recovery} : LoginOpens(r, at) \/ MfaDisable(r, at)
          \/ \E s \in opened, do \in {"password", "setup", "disable"} : Begin(r, s, do)
          \/ ChangePassword(r) \/ MfaSetup(r) \/ LoginFails(r) \/ RequestFails(r)
    \/ \E s \in opened :
          \/ \E at \in 0..MaxStep : MfaEnable(s, at)
          \/ RevokeSession(s) \/ RevokeOthers(s)
          \/ \E a \in Admins : AdminPassword(s, a) \/ \E off \in BOOLEAN : AdminSwitch(s, a, off)
    \/ \E a \in Admins :
          RecoverPassword(a) \/ RecoverRename(a) \/ RecoverTotp(a) \/ RecoverSessions(a)
    \/ StepPasses

SessionSpec == SessionInit /\ [][SessionNext]_sessionVars

---------------------------------------------------------------------------
SessionTypeOK ==
    /\ account \in [Admins -> [pw : 0..MaxPassword, name : Nat, off : BOOLEAN,
           mfa : [on : BOOLEAN, secret : Nat, pend : Nat, last : Int, left : BOOLEAN]]]
    /\ opened \subseteq [who : Admins, pw : 0..MaxPassword, coded : BOOLEAN]
    /\ attempts \in 0..MaxAttempts
    /\ step \in 0..MaxStep /\ secrets \in 0..MaxSecret
    /\ accepted \subseteq Codes /\ reused \in BOOLEAN
    /\ pending \in [Requests ->
           [do : {"none", "login", "password", "setup", "disable"}, who : Admins,
            pw : 0..MaxPassword, name : Nat]]

\* However requests and the recovery tool interleave, a session that is open was
\* opened under the account's present password, the account is enabled, and with
\* TOTP on it was opened with a code.
SessionsAreCurrent ==
    \A s \in opened :
        /\ s.pw = account[s.who].pw /\ ~account[s.who].off
        /\ account[s.who].mfa.on => s.coded

\* No TOTP code and no recovery code is accepted twice, and an owner can log in.
CodesServeOnce == ~reused /\ \E o \in OwnerRole : ~account[o].off

\* Who is logged in has proven what the account asks for now, with codes of his own.
LoginsAreSound == SessionsAreCurrent /\ CodesServeOnce
=============================================================================
