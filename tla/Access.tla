------------------------------- MODULE Access -------------------------------
(***************************************************************************)
(* Who may do what: accounts and the enrolment of hosts together.  The     *)
(* endpoints of pairing tokens, key rotation and hosts are behind the same *)
(* guards as the accounts'; the guards' answer and the first query of      *)
(* those three are one step.                                               *)
(***************************************************************************)
EXTENDS Accounts, Enrolment

CONSTANTS
    Requests,       \* pair requests and rotations that may run at once
    MaxRequests,    \* bound on the requests people make
    MaxStarts       \* bound on the starts of the agent

ASSUME AccessAssumption == MaxRequests \in Nat /\ MaxStarts \in Nat

VARIABLES requests, starts

vars == <<accountVars, enrolmentVars, requests, starts>>

Init == AccountsInit /\ EnrolmentInit /\ requests = 0 /\ starts = 0

Request == requests < MaxRequests /\ requests' = requests + 1 /\ UNCHANGED starts
Server == UNCHANGED <<requests, starts>>

\* What people ask of the dashboard about accounts.
AccountRequest ==
    /\ Request
    /\ UNCHANGED enrolmentVars
    /\ \E p \in People :
        \/ \E pw \in Passwords :
             \/ \E mail \in BOOLEAN : Register(p, pw, mail)
             \/ LoginReads(p, pw)
             \/ \E role \in {"operator", "viewer"} : CreateAccount(p, pw, role)
        \/ VerifyEmail(p)
        \/ \E s \in sessions :
             \/ \E old, new \in Passwords :
                  Admit("changePassword", s, p, [current |-> old, new |-> new])
             \/ \E approved \in BOOLEAN : Admit("setAccountApproval", s, p, approved)
             \/ \E pw \in Passwords : Admit("resetAccountPassword", s, p, pw)
             \/ Admit("deleteAccount", s, p, TRUE)

AccountStep ==
    /\ Server
    /\ UNCHANGED enrolmentVars
    /\ \/ \E l \in logins : FailLogin(l) \/ LoginRefused(l) \/ LoginAnswers(l)
       \/ \E p \in People : LockEnds(p)
       \/ \E c \in calls :
            \/ Check(c) \/ ChangePassword(c) \/ SetAccountApproval(c)
            \/ ResetAccountPassword(c) \/ DeleteAccount(c)

\* What administrators, and for a removal operators, ask for about hosts.
HostRequest ==
    /\ Request
    /\ UNCHANGED accountVars
    /\ \/ Permitted({"admin"}) /\ \E t \in Tokens : CreateToken(t)
       \/ Permitted({"admin", "operator"}) /\ \E h \in HostIds : RemoveHost(h)
       \/ /\ Permitted({"admin"})
          /\ \E h \in HostIds, x \in Requests \ {r.id : r \in rotations} :
               RotateReads(h, x)

HostStep ==
    /\ Server
    /\ UNCHANGED accountVars
    /\ \/ \E t \in Tokens : TokenExpires(t) \/ OperatorSetsToken(t)
       \/ \E x \in exchanges :
            \/ PairReads(x) \/ PairMarksToken(x) \/ PairAnswers(x) \/ PairFails(x)
            \/ \E h \in HostIds : PairCreatesHost(x, h)
       \/ \E r \in rotations : RotateWrites(r)
       \/ AgentStoresKey \/ AgentStoresHost \/ AgentStops
       \/ OperatorRemovesKey \/ \E k \in handouts : OperatorInstallsKey(k)

Start ==
    /\ starts < MaxStarts /\ starts' = starts + 1 /\ UNCHANGED requests
    /\ UNCHANGED accountVars
    /\ \E x \in Requests : AgentStart(x)

Next == AccountRequest \/ AccountStep \/ HostRequest \/ HostStep \/ Start

Spec == Init /\ [][Next]_vars
=============================================================================
