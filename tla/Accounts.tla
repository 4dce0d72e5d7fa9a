------------------------------ MODULE Accounts ------------------------------
(***************************************************************************)
(* The dashboard's accounts of one organisation: registration, sign-in,    *)
(* the guards a request passes, and what administrators and owners change. *)
(* A request is admitted by the guards, then the service reads and         *)
(* decides, then it writes: three steps other requests come between.       *)
(* Sign-in reads the account's row once and answers from that copy.        *)
(* A session's end after 12 hours, one network's quota of registrations    *)
(* and the length of a lock are left out: sessions last, locks end at any  *)
(* moment.                                                                 *)
(***************************************************************************)
EXTENDS Naturals, FiniteSets

CONSTANTS
    People,         \* the e-mail addresses
    Admins,         \* those who are administrators at the start
    Passwords,      \* the passwords people choose
    NoPassword      \* a null passwordHash

\* The seed makes an administrator, and whoever creates an organisation is one.
ASSUME AccountsAssumption ==
    /\ IsFiniteSet(People)
    /\ Admins \subseteq People /\ Admins # {}
    /\ NoPassword \notin Passwords

VARIABLES
    account,    \* the User row, its membership here and, once that is gone, whether it has another
    lock,       \* the account's failed sign-ins and whether it is locked
    logins,     \* sign-ins in progress, with the row as read
    sessions,   \* the access tokens people hold
    calls,      \* requests on accounts in progress
    era,        \* how often the account's password or access was taken away
    crossed     \* two checked removals of administrators were under way at once

accountVars == <<account, lock, logins, sessions, calls, era, crossed>>

LimitOfFailures == 3

Absent == [registered |-> FALSE, verified |-> FALSE, approved |-> FALSE,
           password |-> NoPassword, version |-> 0, role |-> "none", elsewhere |-> FALSE]
Unlocked == [failures |-> 0, locked |-> FALSE]

AccountsInit ==
    \E pw \in Passwords :
        /\ account = [p \in People |->
             IF p \in Admins
             THEN [registered |-> TRUE, verified |-> TRUE, approved |-> TRUE,
                   password |-> pw, version |-> 0, role |-> "admin", elsewhere |-> FALSE]
             ELSE Absent]
        /\ lock = [p \in People |-> Unlocked]
        /\ logins = {} /\ calls = {}
        /\ sessions = {[who |-> p, version |-> 0, era |-> 0] : p \in Admins}
        /\ era = [p \in People |-> 0]
        /\ crossed = FALSE

-----------------------------------------------------------------------------
(* The guards.                                                             *)

JwtAuthGuard(s) ==
    LET row == account[s.who]
    IN  row.approved /\ row.password # NoPassword /\ row.version = s.version

OrgRoleGuard(s, roles) ==
    /\ account[s.who].role # "none"
    /\ account[s.who].role \in roles

\* Somebody with one of these roles makes a request.
Permitted(roles) == \E s \in sessions : JwtAuthGuard(s) /\ OrgRoleGuard(s, roles)

-----------------------------------------------------------------------------
(* Registration and sign-in.                                               *)

\* mail: Mailgun is configured, so the address has to be verified.
Register(p, pw, mail) ==
    /\ ~account[p].registered
    /\ account' = [account EXCEPT ![p] =
         [Absent EXCEPT !.registered = TRUE, !.verified = ~mail,
                        !.password = pw, !.role = "viewer"]]
    /\ UNCHANGED <<lock, logins, sessions, calls, era, crossed>>

VerifyEmail(p) ==
    /\ account[p].role # "none" /\ ~account[p].verified
    /\ account' = [account EXCEPT ![p].verified = TRUE]
    /\ UNCHANGED <<lock, logins, sessions, calls, era, crossed>>

LoginReads(p, pw) ==
    /\ ~lock[p].locked
    /\ logins' = logins \cup
         {[who |-> p, password |-> pw, row |-> account[p], era |-> era[p]]}
    /\ UNCHANGED <<account, lock, sessions, calls, era, crossed>>

ValidPassword(l) == l.row.password # NoPassword /\ l.row.password = l.password

\* The row of authRateLimit after one more failure: the third one locks, any
\* other one leaves the account without a lock.
RecordLoginFailure(k) ==
    IF k.failures + 1 >= LimitOfFailures
    THEN [failures |-> 0, locked |-> TRUE]
    ELSE [failures |-> k.failures + 1, locked |-> FALSE]

\* A wrong password, math challenge or captcha.
FailLogin(l) ==
    /\ l \in logins
    /\ lock' = [lock EXCEPT ![l.who] = RecordLoginFailure(@)]
    /\ logins' = logins \ {l}
    /\ UNCHANGED <<account, sessions, calls, era, crossed>>

\* Signing in needs an organisation, whichever.
Member(row) == row.role # "none" \/ row.elsewhere

\* The right password of an account that may not sign in: no verified address
\* (where mail is configured), no approval, no organisation.
LoginRefused(l) ==
    /\ l \in logins /\ ValidPassword(l)
    /\ ~l.row.verified \/ ~l.row.approved \/ ~Member(l.row)
    /\ logins' = logins \ {l}
    /\ UNCHANGED <<account, lock, sessions, calls, era, crossed>>

LoginAnswers_FreshVersion(l) ==
    /\ l \in logins /\ ValidPassword(l)
    /\ l.row.approved /\ Member(l.row)
    /\ sessions' = sessions \cup
         {[who |-> l.who, version |-> account[l.who].version, era |-> l.era]}
    /\ lock' = [lock EXCEPT ![l.who] = Unlocked]
    /\ logins' = logins \ {l}
    /\ UNCHANGED <<account, calls, era, crossed>>

LoginAnswers(l) ==
    /\ l \in logins /\ ValidPassword(l)
    /\ l.row.approved /\ Member(l.row)
    /\ sessions' = sessions \cup
         {[who |-> l.who, version |-> l.row.version, era |-> l.era]}
    /\ lock' = [lock EXCEPT ![l.who] = Unlocked]
    /\ logins' = logins \ {l}
    /\ UNCHANGED <<account, calls, era, crossed>>

LockEnds(p) ==
    /\ lock[p].locked
    /\ lock' = [lock EXCEPT ![p].locked = FALSE]
    /\ UNCHANGED <<account, logins, sessions, calls, era, crossed>>

-----------------------------------------------------------------------------
(* Requests of people who are signed in.                                   *)

\* The guards let a request about account p in.
Admit(op, s, p, value) ==
    /\ JwtAuthGuard(s)
    /\ op # "changePassword" => OrgRoleGuard(s, {"admin"})
    /\ (op = "changePassword") <=> (p = s.who)
    /\ calls' = calls \cup {[op |-> op, by |-> s.who, who |-> p, value |-> value,
                            phase |-> "admitted"]}
    /\ UNCHANGED <<account, lock, logins, sessions, era, crossed>>

\* What the service reads before it decides.
IsAdmin(p) == account[p].role = "admin"
AdminCount == Cardinality({p \in People : IsAdmin(p)})

KeepsAnAdmin_OffByOne(p) == IsAdmin(p) => AdminCount >= 1
KeepsAnAdmin(p) == IsAdmin(p) => AdminCount > 1

MayChangePassword(c) ==
    /\ account[c.who].password = c.value.current
    /\ c.value.current # c.value.new

\* Only approval needs a verified address and a password.
MayApprove(c) ==
    /\ IsAdmin(c.by) /\ account[c.who].role \notin {"none", "admin"}
    /\ c.value => account[c.who].verified /\ account[c.who].password # NoPassword
    /\ account[c.who].approved # c.value

MayResetPassword(c) == IsAdmin(c.by) /\ account[c.who].role \notin {"none", "admin"}

MayDelete(c) == account[c.who].role # "none" /\ KeepsAnAdmin(c.who)

Check(c) ==
    LET passes == CASE c.op = "changePassword" -> MayChangePassword(c)
                    [] c.op = "setAccountApproval" -> MayApprove(c)
                    [] c.op = "resetAccountPassword" -> MayResetPassword(c)
                    [] c.op = "deleteAccount" -> MayDelete(c)
    IN  /\ c \in calls /\ c.phase = "admitted"
        /\ calls' = (calls \ {c}) \cup
             (IF passes THEN {[c EXCEPT !.phase = "checked"]} ELSE {})
        /\ UNCHANGED <<account, lock, logins, sessions, era, crossed>>

Writing(c, op) == c \in calls /\ c.phase = "checked" /\ c.op = op /\ calls' = calls \ {c}
TakesAway(p) == era' = [era EXCEPT ![p] = @ + 1]

ChangePassword(c) ==
    /\ Writing(c, "changePassword")
    /\ account' = [account EXCEPT ![c.who].password = c.value.new, ![c.who].version = @ + 1]
    /\ TakesAway(c.who)
    /\ UNCHANGED <<lock, logins, sessions, crossed>>

ResetAccountPassword(c) ==
    /\ Writing(c, "resetAccountPassword")
    /\ account' = [account EXCEPT ![c.who].password = c.value, ![c.who].version = @ + 1]
    /\ TakesAway(c.who)
    /\ UNCHANGED <<lock, logins, sessions, crossed>>

SetAccountApproval(c) ==
    /\ Writing(c, "setAccountApproval")
    /\ account' = [account EXCEPT ![c.who].approved = c.value, ![c.who].version = @ + 1]
    /\ IF c.value THEN UNCHANGED era ELSE TakesAway(c.who)
    /\ UNCHANGED <<lock, logins, sessions, crossed>>

\* A member of another organisation too loses this membership only; anyone else is shut out.
Removed(row) ==
    {[row EXCEPT !.role = "none", !.elsewhere = TRUE],
     [row EXCEPT !.role = "none", !.password = NoPassword, !.approved = FALSE, !.version = @ + 1]}

\* The transaction fails when the membership is gone.
DeleteAccount(c) ==
    /\ Writing(c, "deleteAccount")
    /\ \/ /\ account[c.who].role # "none"
          /\ \E row \in Removed(account[c.who]) :
                /\ account' = [account EXCEPT ![c.who] = row]
                /\ IF row.elsewhere THEN UNCHANGED era ELSE TakesAway(c.who)
          /\ crossed' = (crossed \/ \E d \in calls \ {c} :
               d.op = "deleteAccount" /\ d.phase = "checked" /\ IsAdmin(d.who))
       \/ account[c.who].role = "none" /\ UNCHANGED <<account, era, crossed>>
    /\ UNCHANGED <<lock, logins, sessions>>

\* An administrator's new account is verified and approved at once.
CreateAccount(p, pw, role) ==
    /\ Permitted({"admin"})
    /\ ~account[p].registered
    /\ account' = [account EXCEPT ![p] =
         [registered |-> TRUE, verified |-> TRUE, approved |-> TRUE,
          password |-> pw, version |-> 0, role |-> role, elsewhere |-> FALSE]]
    /\ UNCHANGED <<lock, logins, sessions, calls, era, crossed>>

-----------------------------------------------------------------------------
(* Properties.                                                             *)

(* A session the guards let in was opened by a sign-in that read the        *)
(* account after the last change of its password, withdrawal of its         *)
(* approval or removal from its only organisation: none that came before,   *)
(* or that was under way meanwhile, still opens a door (jwt-auth.guard.ts:39 *)
(* compares the token's version with the row's, auth.service.ts:194 signs   *)
(* the version read at the start).                                          *)
SessionsCurrent ==
    \A s \in sessions : JwtAuthGuard(s) => s.era = era[s.who]

(* The organisation keeps an administrator (orgs.service.ts:157), unless   *)
(* two administrators were removed by requests that had both counted them. *)
AdminKept == crossed \/ \E p \in People : IsAdmin(p)
=============================================================================
