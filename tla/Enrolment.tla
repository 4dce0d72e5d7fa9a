----------------------------- MODULE Enrolment -----------------------------
(***************************************************************************)
(* Pairing tokens, hosts and agent keys, and the agent of one machine: an  *)
(* administrator hands out a token, the agent exchanges it for a key once, *)
(* stores the key and its host's id, and presents both from then on.  The  *)
(* control plane's exchange and its key rotation are sequences of queries  *)
(* other requests come between; the agent may give up waiting and be       *)
(* started again while its first exchange still runs.                      *)
(***************************************************************************)
EXTENDS Naturals, FiniteSets

CONSTANTS
    Tokens,         \* pairing tokens
    HostIds,        \* rows of hosts that may come to exist
    None            \* no token, host, key or file

ASSUME EnrolmentAssumption == None \notin Tokens \cup HostIds

VARIABLES
    token,      \* none, fresh, expired or used
    host,       \* the Host rows: the token each came from and its key version
    exchanges,  \* pair requests in progress
    rotations,  \* key rotations in progress, with the version read
    handouts,   \* keys somebody was given, numbered as they were given
    blurred,    \* tokens whose exchanges, or whose hosts' rotations, overlapped
                \* or were cut off between creating the host and marking
    agent,      \* the agent process: where it is, its key and host id
    files       \* the machine: configured token, key file and host_id file

enrolmentVars == <<token, host, exchanges, rotations, handouts, blurred, agent, files>>

NoHost == [token |-> None, version |-> 0]
Off == [phase |-> "off", key |-> None, host |-> None, exchange |-> None]

EnrolmentInit ==
    /\ token = [t \in Tokens |-> "none"]
    /\ host = [h \in HostIds |-> NoHost]
    /\ exchanges = {} /\ rotations = {} /\ handouts = {} /\ blurred = {}
    /\ agent = Off
    /\ files = [token |-> None, key |-> None, host |-> None]

-----------------------------------------------------------------------------
(* The control plane.                                                      *)

\* verifyAgentKey: the row exists and has the key's version.
VerifyAgentKey(k) ==
    host[k.host].token # None /\ host[k.host].version = k.version

AgentAuthGuard(k, pathHost) == VerifyAgentKey(k) /\ pathHost = k.host

CreateToken(t) ==
    /\ token[t] = "none"
    /\ token' = [token EXCEPT ![t] = "fresh"]
    /\ UNCHANGED <<host, exchanges, rotations, handouts, blurred, agent, files>>

TokenExpires(t) ==
    /\ token[t] = "fresh"
    /\ token' = [token EXCEPT ![t] = "expired"]
    /\ UNCHANGED <<host, exchanges, rotations, handouts, blurred, agent, files>>

Waiting(x) == agent.phase = "pairing" /\ agent.exchange = x.id

\* An exchange that ends without a key: the agent, if it still waits, exits.
PairEnds(x) ==
    /\ exchanges' = exchanges \ {x}
    /\ agent' = IF Waiting(x) THEN Off ELSE agent

\* Requests for token t that found it unused and have not marked it.
Unmarked(t) == {x \in exchanges : x.token = t /\ x.pc \in {"create", "mark"}}

PairReads_Unchecked(x) ==
    /\ x \in exchanges /\ x.pc = "read"
    /\ exchanges' = (exchanges \ {x}) \cup {[x EXCEPT !.pc = "create"]}
    /\ blurred' = blurred \cup {t \in {x.token} : Unmarked(t) # {}}
    /\ UNCHANGED <<token, host, rotations, handouts, agent, files>>

PairReads(x) ==
    /\ x \in exchanges /\ x.pc = "read"
    /\ \/ /\ token[x.token] = "fresh"
          /\ exchanges' = (exchanges \ {x}) \cup {[x EXCEPT !.pc = "create"]}
          /\ blurred' = blurred \cup {t \in {x.token} : Unmarked(t) # {}}
          /\ UNCHANGED agent
       \/ token[x.token] # "fresh" /\ PairEnds(x) /\ UNCHANGED blurred
    /\ UNCHANGED <<token, host, rotations, handouts, files>>

\* h is a new id; one that was removed is not used again.
PairCreatesHost(x, h) ==
    /\ x \in exchanges /\ x.pc = "create"
    /\ host[h] = NoHost
    /\ host' = [host EXCEPT ![h] = [token |-> x.token, version |-> 1]]
    /\ exchanges' = (exchanges \ {x}) \cup {[x EXCEPT !.pc = "mark", !.host = h]}
    /\ UNCHANGED <<token, rotations, handouts, blurred, agent, files>>

PairMarksToken(x) ==
    /\ x \in exchanges /\ x.pc = "mark"
    /\ token' = [token EXCEPT ![x.token] = "used"]
    /\ exchanges' = (exchanges \ {x}) \cup {[x EXCEPT !.pc = "answer"]}
    /\ UNCHANGED <<host, rotations, handouts, blurred, agent, files>>

Handout(h, v) == [host |-> h, version |-> v, n |-> Cardinality(handouts) + 1]

\* The audit entry is written and the answer reaches the agent, if it waits.
PairAnswers(x) ==
    /\ x \in exchanges /\ x.pc = "answer"
    /\ exchanges' = exchanges \ {x}
    /\ IF Waiting(x)
       THEN /\ handouts' = handouts \cup {Handout(x.host, 1)}
            /\ agent' = [phase |-> "paired", exchange |-> None, host |-> x.host,
                         key |-> [host |-> x.host, version |-> 1]]
       ELSE UNCHANGED <<handouts, agent>>
    /\ UNCHANGED <<token, host, rotations, blurred, files>>

\* A query or the audit entry fails, the control plane stops, or the answer
\* is lost: what was written stays.
PairFails(x) ==
    /\ x \in exchanges
    /\ PairEnds(x)
    /\ blurred' = blurred \cup {t \in {x.token} : x.pc = "mark"}
    /\ UNCHANGED <<token, host, rotations, handouts, files>>

RotateReads(h, id) ==
    /\ host[h].token # None
    /\ rotations' = rotations \cup {[host |-> h, version |-> host[h].version, id |-> id]}
    /\ blurred' = blurred \cup {host[g].token : g \in {r.host : r \in rotations} \cap {h}}
    /\ UNCHANGED <<token, host, exchanges, handouts, agent, files>>

\* The version is written as read plus one; the new key goes to the
\* administrator, unless the answer is lost.  A removed host fails it.
RotateWrites(r) ==
    /\ r \in rotations
    /\ rotations' = rotations \ {r}
    /\ \/ /\ host[r.host].token # None
          /\ host' = [host EXCEPT ![r.host].version = r.version + 1]
          /\ handouts' \in {handouts, handouts \cup {Handout(r.host, r.version + 1)}}
       \/ host[r.host].token = None /\ UNCHANGED <<host, handouts>>
    /\ UNCHANGED <<token, exchanges, blurred, agent, files>>

RemoveHost(h) ==
    /\ host[h].token # None
    /\ host' = [host EXCEPT ![h].token = None]
    /\ UNCHANGED <<token, exchanges, rotations, handouts, blurred, agent, files>>

-----------------------------------------------------------------------------
(* The agent and its machine.                                              *)

\* With a key file the agent takes its host id from the file beside it, and
\* exits when there is none; without one it exchanges the configured token,
\* and exits when there is none.
AgentStart(x) ==
    /\ agent.phase = "off"
    /\ \/ /\ files.key # None /\ files.host # None
          /\ agent' = [phase |-> "running", key |-> files.key, host |-> files.host,
                       exchange |-> None]
          /\ UNCHANGED exchanges
       \/ /\ files.key = None /\ files.token # None
          /\ x \notin {y.id : y \in exchanges}
          /\ agent' = [Off EXCEPT !.phase = "pairing", !.exchange = x]
          /\ exchanges' = exchanges \cup
               {[id |-> x, token |-> files.token, pc |-> "read", host |-> None]}
    /\ UNCHANGED <<token, host, rotations, handouts, blurred, files>>

\* A key that cannot be stored makes the agent exit.
AgentStoresKey ==
    /\ agent.phase = "paired"
    /\ \/ /\ files' = [files EXCEPT !.key = agent.key]
          /\ agent' = [agent EXCEPT !.phase = "stored"]
       \/ agent' = Off /\ UNCHANGED files
    /\ UNCHANGED <<token, host, exchanges, rotations, handouts, blurred>>

\* A host id that cannot be stored is only warned of.
AgentStoresHost ==
    /\ agent.phase = "stored"
    /\ files' \in {files, [files EXCEPT !.host = agent.host]}
    /\ agent' = [agent EXCEPT !.phase = "running"]
    /\ UNCHANGED <<token, host, exchanges, rotations, handouts, blurred>>

\* The agent is stopped or dies, or it gives up waiting for its exchange.
AgentStops ==
    /\ agent.phase # "off"
    /\ agent' = Off
    /\ UNCHANGED <<token, host, exchanges, rotations, handouts, blurred, files>>

\* What operators do on the machine: configure a token, remove the key so that
\* the agent pairs again, put a rotated key in the file.
OperatorSetsToken(t) ==
    /\ token[t] # "none"
    /\ files' = [files EXCEPT !.token = t]
    /\ UNCHANGED <<token, host, exchanges, rotations, handouts, blurred, agent>>

OperatorRemovesKey ==
    /\ files.key # None
    /\ files' = [files EXCEPT !.key = None]
    /\ UNCHANGED <<token, host, exchanges, rotations, handouts, blurred, agent>>

OperatorInstallsKey(k) ==
    /\ k \in handouts /\ files.key # None /\ files.key.host = k.host
    /\ files' = [files EXCEPT !.key.version = k.version]
    /\ UNCHANGED <<token, host, exchanges, rotations, handouts, blurred, agent>>

-----------------------------------------------------------------------------
(* Properties.                                                             *)

(* Of all the keys that hosts made from one token were ever given, the     *)
(* guard accepts at most one (pairing.service.ts:79 refuses a used token,  *)
(* :156 a version that was rotated away), unless two exchanges of the      *)
(* token were between the check and the mark, or two rotations of its host *)
(* between reading and writing, at once, or an exchange was cut off after  *)
(* it had created its host and before it marked the token.                 *)
OneKeyPerToken ==
    \A t \in Tokens \ blurred :
        \A j, k \in handouts :
            (\A i \in {j, k} : host[i.host].token = t /\ VerifyAgentKey(i)) => j = k

=============================================================================
