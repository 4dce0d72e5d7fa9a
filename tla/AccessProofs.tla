---------------------------- MODULE AccessProofs ----------------------------
(***************************************************************************)
(* Proofs about who is let in: the accounts of the dashboard and the       *)
(* enrolment of hosts (Access), the players' portal (Portal) and the       *)
(* integrations of organisations (Settings), for any people, passwords,    *)
(* tokens, hosts and numbers of requests in progress at once.              *)
(***************************************************************************)
EXTENDS Access, Portal, Settings, FiniteSetTheorems, WellFoundedInduction, TLAPS

-----------------------------------------------------------------------------
(* Integrations                                                            *)

Parts == {"open", "secret"}

SettingsTypeOK ==
    /\ settings \in [Integrations -> SUBSET Parts]
    /\ provider \in [Orgs -> {"codex", "kimi"}]
    /\ saving \in [Savers -> {NoSave}
            \cup [op : {"save"}, of : Integrations, parts : SUBSET Parts]
            \cup [op : {"select"}, of : Orgs \X {"codex", "kimi"}, parts : {{}}]]
    /\ overlapped \in BOOLEAN
    /\ \A x \in Savers : saving[x].op = "save" => saving[x].parts \in Given(saving[x].of)

\* A request that was checked is still right about the secret it relies on.
CheckedStillHolds ==
    \A x \in Savers :
        /\ saving[x].op = "save" => SecretKnown(saving[x].of, saving[x].parts)
        /\ saving[x].op = "select" /\ saving[x].of[2] = "kimi" => Secret(<<saving[x].of[1], "kimi">>)

\* The captcha's secret is never stored without its site key, whatever overlaps.
SettingsInv ==
    /\ SettingsTypeOK
    /\ \A o \in Orgs : CaptchaEnforced(o) => "open" \in settings[<<o, "recaptcha">>]
    /\ ~overlapped =>
        /\ CheckedStillHolds /\ \A o \in Orgs : EditPossible(o)
        /\ \A x, y \in Savers : saving[x] # NoSave /\ saving[y] # NoSave => x = y
        /\ \A i \in Integrations : settings[i] # {} => Configured(i)

(* What a save may contain: the open part of a captcha and of Mailgun       *)
(* always, and a secret when there is no open part.                         *)
LEMMA GivenParts ==
    ASSUME NEW i \in Integrations, NEW parts \in Given(i)
    PROVE  /\ parts \in SUBSET Parts
           /\ Kind(i) \in {"recaptcha", "mailgun"} => "open" \in parts
<1>1. Kind(i) \in {"recaptcha", "mailgun", "stripe", "openai", "kimi", "cloudflare",
                   "digitalocean", "maintenance", "discord"}
  BY SettingsAssumption DEF Kind
<1>2. QED
  BY <1>1 DEF Given, Parts, SaveRecaptchaSettings, SaveMailgunSettings,
     SaveStripeSettings, SaveModelSettings, SaveToken, UpdateOrg

(* Every request about settings, its check and its write apart, preserves   *)
(* the invariant.                                                           *)
LEMMA SettingsStep == SettingsInv /\ [SettingsNext]_settingsVars => SettingsInv'
<1> SUFFICES ASSUME SettingsInv, [SettingsNext]_settingsVars PROVE SettingsInv'
  OBVIOUS
<1>0. SettingsTypeOK
  BY DEF SettingsInv
<1>1. ASSUME NEW x \in Savers, NEW i \in Integrations, NEW given \in SUBSET Parts,
             NEW role, SaveReads(x, role, i, given)
      PROVE  SettingsInv'
  <2> DEFINE r == [op |-> "save", of |-> i, parts |-> given]
  <2>1. /\ given \in Given(i) /\ SecretKnown(i, given) /\ saving[x] = NoSave
        /\ saving' = [saving EXCEPT ![x] = r]
        /\ overlapped' = (overlapped \/ \E y \in Savers \ {x} : saving[y] # NoSave)
        /\ UNCHANGED <<settings, provider>>
    BY <1>1 DEF SaveReads, SettingsRequest
  <2>2. \A y \in Savers : saving'[y] = IF y = x THEN r ELSE saving[y]
    BY <1>0, <2>1 DEF SettingsTypeOK
  <2>3. SettingsTypeOK'
    <3>1. r \in [op : {"save"}, of : Integrations, parts : SUBSET Parts]
      OBVIOUS
    <3>2. overlapped' \in BOOLEAN
      BY <1>0, <2>1 DEF SettingsTypeOK
    <3> HIDE DEF r
    <3>3. saving' \in [Savers -> {NoSave}
            \cup [op : {"save"}, of : Integrations, parts : SUBSET Parts]
            \cup [op : {"select"}, of : Orgs \X {"codex", "kimi"}, parts : {{}}]]
      BY <1>0, <2>1, <3>1 DEF SettingsTypeOK
    <3>4. \A y \in Savers : saving'[y].op = "save" => saving'[y].parts \in Given(saving'[y].of)
      BY <1>0, <2>1, <2>2 DEF SettingsTypeOK, r
    <3>5. QED
      BY <1>0, <2>1, <3>2, <3>3, <3>4 DEF SettingsTypeOK
  <2>4. (\A o : CaptchaEnforced(o)' = CaptchaEnforced(o)) /\ (\A o : EditPossible(o)' = EditPossible(o))
        /\ \A j : Configured(j)' = Configured(j)
    BY <2>1 DEF CaptchaEnforced, EditPossible, Configured, Secret
  <2>5. ~overlapped' => CheckedStillHolds'
    <3> SUFFICES ASSUME ~overlapped' PROVE CheckedStillHolds'
      OBVIOUS
    <3>1. \A y \in Savers \ {x} : saving[y] = NoSave
      BY <1>0, <2>1 DEF SettingsTypeOK
    <3>2. \A y \in Savers : saving'[y] = IF y = x THEN r ELSE NoSave
      BY <2>2, <3>1
    <3>3. SecretKnown(i, given)'
      BY <2>1 DEF Secret, SecretKnown
    <3>4. QED
      BY <3>2, <3>3 DEF CheckedStillHolds, NoSave
  <2>6. QED
    BY <2>1, <2>2, <2>3, <2>4, <2>5 DEF SettingsInv
<1>2. ASSUME NEW x \in Savers, NEW o \in Orgs, NEW p \in {"codex", "kimi"}, NEW role,
             SelectReads(x, role, o, p)
      PROVE  SettingsInv'
  <2> DEFINE r == [op |-> "select", of |-> <<o, p>>, parts |-> {}]
  <2>1. /\ p = "kimi" => Secret(<<o, "kimi">>)
        /\ saving[x] = NoSave
        /\ saving' = [saving EXCEPT ![x] = r]
        /\ overlapped' = (overlapped \/ \E y \in Savers \ {x} : saving[y] # NoSave)
        /\ UNCHANGED <<settings, provider>>
    BY <1>2 DEF SelectReads, SettingsRequest
  <2>2. \A y \in Savers : saving'[y] = IF y = x THEN r ELSE saving[y]
    BY <1>0, <2>1 DEF SettingsTypeOK
  <2>3. SettingsTypeOK'
    <3>1. r \in [op : {"select"}, of : Orgs \X {"codex", "kimi"}, parts : {{}}]
      OBVIOUS
    <3>2. overlapped' \in BOOLEAN
      BY <1>0, <2>1 DEF SettingsTypeOK
    <3> HIDE DEF r
    <3>3. saving' \in [Savers -> {NoSave}
            \cup [op : {"save"}, of : Integrations, parts : SUBSET Parts]
            \cup [op : {"select"}, of : Orgs \X {"codex", "kimi"}, parts : {{}}]]
      BY <1>0, <2>1, <3>1 DEF SettingsTypeOK
    <3>4. \A y \in Savers : saving'[y].op = "save" => saving'[y].parts \in Given(saving'[y].of)
      BY <1>0, <2>1, <2>2 DEF SettingsTypeOK, r
    <3>5. QED
      BY <1>0, <2>1, <3>2, <3>3, <3>4 DEF SettingsTypeOK
  <2>4. (\A q : CaptchaEnforced(q)' = CaptchaEnforced(q)) /\ (\A q : EditPossible(q)' = EditPossible(q))
        /\ \A j : Configured(j)' = Configured(j)
    BY <2>1 DEF CaptchaEnforced, EditPossible, Configured, Secret
  <2>5. ~overlapped' => CheckedStillHolds'
    <3> SUFFICES ASSUME ~overlapped' PROVE CheckedStillHolds'
      OBVIOUS
    <3>1. \A y \in Savers \ {x} : saving[y] = NoSave
      BY <1>0, <2>1 DEF SettingsTypeOK
    <3>2. \A y \in Savers : saving'[y] = IF y = x THEN r ELSE NoSave
      BY <2>2, <3>1
    <3>3. p = "kimi" => Secret(<<o, "kimi">>)'
      BY <2>1 DEF Secret
    <3>4. QED
      BY <3>2, <3>3 DEF CheckedStillHolds, NoSave
  <2>6. QED
    BY <2>1, <2>2, <2>3, <2>4, <2>5 DEF SettingsInv
<1>3. ASSUME NEW x \in Savers, SaveWrites(x) PROVE SettingsInv'
  <2> DEFINE i == saving[x].of
             parts == saving[x].parts
  <2>1. /\ saving[x].op = "save"
        /\ settings' = [settings EXCEPT ![i] = @ \cup parts]
        /\ saving' = [saving EXCEPT ![x] = NoSave]
        /\ UNCHANGED <<provider, overlapped>>
    BY <1>3 DEF SaveWrites
  <2>2. i \in Integrations /\ parts \in Given(i) /\ parts \in SUBSET Parts
    BY <1>0, <2>1 DEF SettingsTypeOK, NoSave
  <2>3. Kind(i) \in {"recaptcha", "mailgun"} => "open" \in parts
    BY <2>2, GivenParts
  <2>4. ~overlapped => SecretKnown(i, parts)
    BY <2>1 DEF SettingsInv, CheckedStillHolds
  <2>5. saving[x] # NoSave
    BY <2>1 DEF NoSave
  <2> HIDE DEF i, parts
  <2>6. \A y \in Savers : saving'[y] = IF y = x THEN NoSave ELSE saving[y]
    BY <1>0, <2>1 DEF SettingsTypeOK
  <2>7. \A j \in Integrations : settings'[j] = IF j = i THEN settings[j] \cup parts ELSE settings[j]
    BY <1>0, <2>1 DEF SettingsTypeOK
  <2>8. SettingsTypeOK'
    <3>1. settings' \in [Integrations -> SUBSET Parts]
      BY <1>0, <2>1, <2>2 DEF SettingsTypeOK
    <3>2. \A y \in Savers : saving'[y].op = "save" => saving'[y].parts \in Given(saving'[y].of)
      BY <1>0, <2>6 DEF SettingsTypeOK, NoSave
    <3>3. saving' \in [Savers -> {NoSave}
            \cup [op : {"save"}, of : Integrations, parts : SUBSET Parts]
            \cup [op : {"select"}, of : Orgs \X {"codex", "kimi"}, parts : {{}}]]
      BY <1>0, <2>1 DEF SettingsTypeOK
    <3>4. QED
      BY <1>0, <2>1, <3>1, <3>2, <3>3 DEF SettingsTypeOK
  <2>9. \A o \in Orgs : CaptchaEnforced(o)' => "open" \in settings'[<<o, "recaptcha">>]
    <3> SUFFICES ASSUME NEW o \in Orgs, CaptchaEnforced(o)'
                 PROVE  "open" \in settings'[<<o, "recaptcha">>]
      OBVIOUS
    <3>0. Kind(<<o, "recaptcha">>) = "recaptcha"
      BY DEF Kind
    <3>1. PICK c : c = <<o, "recaptcha">> /\ Kind(c) = "recaptcha"
      BY <3>0
    <3>2. c \in Integrations /\ "secret" \in settings'[c]
      BY <3>1 DEF CaptchaEnforced, Secret
    <3>3. "secret" \in settings[c] => "open" \in settings[c]
      BY <3>1, <3>2 DEF SettingsInv, CaptchaEnforced, Secret
    <3>4. "open" \in settings'[c]
      BY <2>3, <2>7, <3>1, <3>2, <3>3
    <3>5. QED
      BY <3>1, <3>4
  <2>10. \A j \in Integrations : Secret(j) => Secret(j)'
    BY <2>7 DEF Secret
  <2>11. ~overlapped' => CheckedStillHolds'
    BY <2>1, <2>5, <2>6 DEF SettingsInv, CheckedStillHolds, NoSave
  <2>12. ~overlapped' => \A j \in Integrations : settings'[j] # {} => Configured(j)'
    <3> SUFFICES ASSUME ~overlapped, NEW j \in Integrations, settings'[j] # {}
                 PROVE  Configured(j)'
      BY <2>1
    <3>1. CASE j = i
      BY <2>2, <2>3, <2>4, <2>7, <3>1 DEF Configured, Secret, SecretKnown, SettingsInv, Parts
    <3>2. CASE j # i
      BY <2>7, <3>2 DEF SettingsInv, Configured, Secret
    <3>3. QED
      BY <3>1, <3>2
  <2>13. ~overlapped' => \A o \in Orgs : EditPossible(o)'
    BY <2>1, <2>10 DEF SettingsInv, EditPossible, Secret
  <2>14. QED
    BY <2>1, <2>6, <2>8, <2>9, <2>11, <2>12, <2>13 DEF SettingsInv
<1>4. ASSUME NEW x \in Savers, SelectWrites(x) PROVE SettingsInv'
  <2>1. /\ saving[x].op = "select"
        /\ provider' = [provider EXCEPT ![saving[x].of[1]] = saving[x].of[2]]
        /\ saving' = [saving EXCEPT ![x] = NoSave]
        /\ UNCHANGED <<settings, overlapped>>
    BY <1>4 DEF SelectWrites
  <2>2. saving[x].of \in Orgs \X {"codex", "kimi"} /\ saving[x] # NoSave
    BY <1>0, <2>1 DEF SettingsTypeOK, NoSave
  <2>3. \A o \in Orgs : provider'[o] = IF o = saving[x].of[1] THEN saving[x].of[2] ELSE provider[o]
    BY <1>0, <2>1 DEF SettingsTypeOK
  <2>4. \A y \in Savers : saving'[y] = IF y = x THEN NoSave ELSE saving[y]
    BY <1>0, <2>1 DEF SettingsTypeOK
  <2>5. SettingsTypeOK'
    <3>1. \A y \in Savers : saving'[y].op = "save" => saving'[y].parts \in Given(saving'[y].of)
      BY <1>0, <2>4 DEF SettingsTypeOK, NoSave
    <3>2. saving' \in [Savers -> {NoSave}
            \cup [op : {"save"}, of : Integrations, parts : SUBSET Parts]
            \cup [op : {"select"}, of : Orgs \X {"codex", "kimi"}, parts : {{}}]]
      BY <1>0, <2>1 DEF SettingsTypeOK
    <3>3. QED
      BY <1>0, <2>1, <2>2, <3>1, <3>2 DEF SettingsTypeOK
  <2>6. ~overlapped' => CheckedStillHolds' /\ \A o \in Orgs : EditPossible(o)'
    BY <2>1, <2>2, <2>3, <2>4 DEF SettingsInv, CheckedStillHolds, EditPossible, NoSave, Secret, SecretKnown
  <2>7. (\A o : CaptchaEnforced(o)' = CaptchaEnforced(o)) /\ \A j : Configured(j)' = Configured(j)
    BY <2>1 DEF CaptchaEnforced, Configured, Secret
  <2>8. QED
    BY <2>1, <2>4, <2>5, <2>6, <2>7 DEF SettingsInv
<1>5. ASSUME NEW i \in Integrations, NEW role, ClearSettings(role, i) PROVE SettingsInv'
  <2>1. /\ settings' = [settings EXCEPT ![i] = {}]
        /\ provider' = IF Kind(i) = "kimi" THEN [provider EXCEPT ![i[1]] = "codex"] ELSE provider
        /\ overlapped' = (overlapped \/ \E y \in Savers : saving[y] # NoSave)
        /\ UNCHANGED saving
    BY <1>5 DEF ClearSettings, ProviderAfterClear
  <2>2. \A j \in Integrations : settings'[j] = IF j = i THEN {} ELSE settings[j]
    BY <1>0, <2>1 DEF SettingsTypeOK
  <2>3. SettingsTypeOK'
    <3>1. settings' \in [Integrations -> SUBSET Parts]
      BY <1>0, <2>1 DEF SettingsTypeOK
    <3>2. overlapped' \in BOOLEAN
      BY <1>0, <2>1 DEF SettingsTypeOK
    <3>3. QED
      BY <1>0, <2>1, <3>1, <3>2 DEF SettingsTypeOK
  <2>4. \A o \in Orgs : CaptchaEnforced(o)' => "open" \in settings'[<<o, "recaptcha">>]
    BY <2>2 DEF SettingsInv, CaptchaEnforced, Secret
  <2>5. ~overlapped' => CheckedStillHolds'
    <3>1. ~overlapped' => \A y \in Savers : saving'[y] = NoSave
      BY <1>0, <2>1 DEF SettingsTypeOK
    <3>2. QED
      BY <3>1 DEF CheckedStillHolds, NoSave
  <2>6. ~overlapped' => \A o \in Orgs : EditPossible(o)'
    <3> SUFFICES ASSUME ~overlapped, NEW o \in Orgs, provider'[o] = "kimi"
                 PROVE  Secret(<<o, "kimi">>)'
      BY <2>1 DEF EditPossible
    <3>1. i = <<i[1], Kind(i)>> /\ i[1] \in Orgs
      BY SettingsAssumption DEF Kind
    <3>2. provider[o] = "kimi" /\ (Kind(i) = "kimi" => o # i[1])
      BY <1>0, <2>1, <3>1 DEF SettingsTypeOK
    <3>3. Secret(<<o, "kimi">>)
      BY <3>2 DEF SettingsInv, EditPossible
    <3>4. <<o, "kimi">> # i
      BY <3>2 DEF Kind
    <3>5. QED
      BY <2>2, <3>3, <3>4 DEF Secret
  <2>7. ~overlapped' => \A j \in Integrations : settings'[j] # {} => Configured(j)'
    BY <2>1, <2>2 DEF SettingsInv, Configured, Secret
  <2>8. QED
    BY <2>1, <2>3, <2>4, <2>5, <2>6, <2>7 DEF SettingsInv
<1>6. CASE UNCHANGED settingsVars
  BY <1>6 DEF settingsVars, SettingsInv, SettingsTypeOK, CheckedStillHolds, EditPossible, Configured,
     CaptchaEnforced, Secret, SecretKnown
<1>7. QED
  BY <1>1, <1>2, <1>3, <1>4, <1>5, <1>6 DEF SettingsNext, Parts

(* For any organisations and whatever their administrators save, select and *)
(* clear: a captcha that login enforces has its site key, for members of    *)
(* the oldest organisation on the login page; without overlapping requests  *)
(* an integration is whole and Kimi has its key (IntegrationsWhole).        *)
THEOREM IntegrationsStayWhole == SettingsSpec => []IntegrationsWhole
<1>1. SettingsInit => SettingsInv
  <2> SUFFICES ASSUME SettingsInit PROVE SettingsInv
    OBVIOUS
  <2>1. SettingsTypeOK /\ (\A o \in Orgs : ~CaptchaEnforced(o)) /\ CheckedStillHolds
    BY DEF SettingsInit, SettingsTypeOK, CaptchaEnforced, Secret, CheckedStillHolds, NoSave
  <2>2. QED
    BY <2>1 DEF SettingsInit, SettingsInv, EditPossible
<1>2. SettingsInv => IntegrationsWhole
  <2> SUFFICES ASSUME SettingsInv, NEW o \in Orgs, CaptchaEnforced(o)
               PROVE  Configured(<<o, "recaptcha">>) /\ (o = Oldest => CaptchaOffered)
    BY DEF SettingsInv, IntegrationsWhole
  <2>1. settings[<<o, "recaptcha">>] = {"open", "secret"}
    BY DEF SettingsInv, SettingsTypeOK, CaptchaEnforced, Secret, Parts
  <2>2. QED
    BY <2>1 DEF CaptchaEnforced, CaptchaOffered, Configured, Secret
<1>3. QED
  BY <1>1, <1>2, SettingsStep, PTL DEF SettingsSpec


-----------------------------------------------------------------------------
(* The players' portal                                                     *)

PlayerRow == [key : Uuids \cup {"name", "steam"}, named : BOOLEAN,
              pass : PortalPasswords \cup {NoPlayer}, steam : BOOLEAN]

PortalTypeOK ==
    /\ player \in [PlayerIds -> PlayerRow \cup {NoPlayer}]
    /\ visit \in [Visitors -> {Nobody} \cup [pw : PortalPasswords, row : PlayerIds]]
    /\ portalTokens \subseteq [sub : PlayerIds, auth : {"name", "steam"},
                               pw : PortalPasswords \cup {NoPlayer}]

\* A session that a password opened is for the password the row still has.
Owned ==
    \A t \in portalTokens : t.auth = "name" /\ t.sub \in PlayerRows \ contested =>
        t.pw = player[t.sub].pass /\ t.pw \in PortalPasswords

\* A row that a registration has picked has no password, and nobody else has picked it.
Picked(x) == visit[x] # Nobody
PickedFree ==
    \A x \in Visitors : Picked(x) /\ visit[x].row \in PlayerRows \ contested =>
        player[visit[x].row].pass = NoPlayer
PickedOnce ==
    \A x, y \in Visitors : Picked(x) /\ Picked(y) /\ visit[x].row = visit[y].row =>
        x = y \/ visit[x].row \in contested

PortalInv == PortalTypeOK /\ Owned /\ PickedFree /\ PickedOnce

(* The least of some numbers.                                               *)
LEMMA LeastOfNats ==
    ASSUME NEW S, S \subseteq Nat, S # {}
    PROVE  Min(S) \in S
<1> DEFINE R == {p \in Nat \X Nat : p[1] < p[2]}
<1>1. R = OpToRel(<, Nat)
  BY DEF OpToRel
<1>2. IsWellFoundedOn(R, Nat)
  BY <1>1, NatLessThanWellFounded
<1>3. \E x \in S : \A y \in S : ~ (<<y, x>> \in R)
  <2> HIDE DEF R
  <2> QED
    BY <1>2, WFMin
<1>4. \A x, y \in Nat : <<y, x>> \notin R => x =< y
  OBVIOUS
<1>5. \E x \in S : \A y \in S : x =< y
  <2> HIDE DEF R
  <2> QED
    BY <1>3, <1>4
<1>6. QED
  BY <1>5 DEF Min

(* Whatever rule decides, the row it leaves is one of the matches.          *)
LEMMA PickIsMatch ==
    ASSUME NEW rows, NEW i \in PickPortalPlayerMatch(rows)
    PROVE  i \in rows
<1> DEFINE rules == <<rows, {j \in rows : player[j].key \in Uuids},
                      {j \in rows : player[j].steam}, {j \in rows : player[j].pass # NoPlayer},
                      {j \in rows : player[j].key # "name"}>>
           decisive == {r \in DOMAIN rules : Cardinality(rules[r]) = 1}
<1>1. DOMAIN rules = 1..5 /\ \A r \in 1..5 : rules[r] \subseteq rows
  OBVIOUS
<1>2. decisive \subseteq 1..5 /\ decisive \subseteq Nat
  BY <1>1
<1>3. PickPortalPlayerMatch(rows) = IF decisive = {} THEN {} ELSE rules[Min(decisive)]
  BY DEF PickPortalPlayerMatch
<1> HIDE DEF rules, decisive
<1>4. decisive # {} => Min(decisive) \in decisive
  BY <1>2, LeastOfNats
<1>5. QED
  BY <1>1, <1>2, <1>3, <1>4

(* A new row takes an id that no session and no registration mentions.      *)
LEMMA NewIdIsNew ==
    ASSUME NewIds # {}
    PROVE  Min(NewIds) \in PlayerIds /\ Min(NewIds) \notin Mentioned
<1>1. NewIds \subseteq Nat
  BY PortalAssumption DEF NewIds
<1>2. Min(NewIds) \in NewIds
  BY <1>1, LeastOfNats
<1>3. QED
  BY <1>2 DEF NewIds

(* What presence does to rows keeps the password of every row that a        *)
(* session or a registration mentions.                                      *)
LEMMA PresenceKeeps ==
    ASSUME PortalInv, UNCHANGED <<visit, portalTokens, contested>>,
           player' \in [PlayerIds -> PlayerRow \cup {NoPlayer}],
           \A i \in PlayerIds \cap Mentioned :
               i \in PlayerRows' => i \in PlayerRows /\ player'[i].pass = player[i].pass
    PROVE  PortalInv'
<1>0. PortalTypeOK /\ Owned /\ PickedFree /\ PickedOnce
  BY DEF PortalInv
<1>1. PortalTypeOK'
  BY <1>0 DEF PortalTypeOK
<1>2. \A t \in portalTokens : t.sub \in PlayerIds \cap Mentioned
  BY <1>0 DEF PortalTypeOK, Mentioned
<1>3. \A x \in Visitors : Picked(x) => visit[x].row \in PlayerIds \cap Mentioned
  BY <1>0 DEF PortalTypeOK, Mentioned, Picked
<1>4. Owned'
  BY <1>0, <1>2 DEF Owned
<1>5. PickedFree'
  BY <1>0, <1>3 DEF PickedFree, Picked
<1>6. PickedOnce'
  BY <1>0 DEF PickedOnce, Picked
<1>7. QED
  BY <1>1, <1>4, <1>5, <1>6 DEF PortalInv

(* A session of the portal is issued.                                       *)
LEMMA SessionIssued ==
    ASSUME PortalInv, UNCHANGED <<player, visit, contested>>, NEW t, IssueSession(t),
           t \in [sub : PlayerIds, auth : {"name", "steam"}, pw : PortalPasswords \cup {NoPlayer}],
           t.auth = "name" => t.pw = player[t.sub].pass /\ t.pw \in PortalPasswords
    PROVE  PortalInv'
<1>0. PortalTypeOK /\ Owned /\ PickedFree /\ PickedOnce
  BY DEF PortalInv
<1>1. PlayerRows' = PlayerRows /\ \A x : Picked(x)' = Picked(x)
  BY DEF PlayerRows, Picked
<1>2. PortalTypeOK'
  BY <1>0 DEF PortalTypeOK, IssueSession
<1>3. Owned'
  BY <1>0, <1>1 DEF Owned, IssueSession
<1>4. QED
  BY <1>0, <1>1, <1>2, <1>3 DEF PortalInv, PickedFree, PickedOnce

(* Presence, registrations between their read and their write, and the two  *)
(* ways to sign in preserve the invariant.                                  *)
LEMMA PortalStep == PortalInv /\ [PortalNext]_portalVars => PortalInv'
<1> SUFFICES ASSUME PortalInv, [PortalNext]_portalVars PROVE PortalInv'
  OBVIOUS
<1>0. PortalTypeOK /\ Owned /\ PickedFree /\ PickedOnce
  BY DEF PortalInv
<1>1. CASE Rostered
  <2> DEFINE n == Min(NewIds)
  <2>1. /\ player' = [player EXCEPT ![n] = NewRow("name")]
        /\ UNCHANGED <<visit, portalTokens, contested>> /\ NewIds # {}
    BY <1>1 DEF Rostered
  <2>2. n \in PlayerIds /\ n \notin Mentioned
    BY <2>1, NewIdIsNew
  <2> HIDE DEF n
  <2>3. NewRow("name") \in PlayerRow
    BY DEF NewRow, PlayerRow
  <2>4. player' \in [PlayerIds -> PlayerRow \cup {NoPlayer}]
    BY <1>0, <2>1, <2>3 DEF PortalTypeOK
  <2>5. \A i \in PlayerIds \cap Mentioned : player'[i] = player[i]
    BY <1>0, <2>1, <2>2 DEF PortalTypeOK
  <2>6. QED
    BY <2>1, <2>4, <2>5, PresenceKeeps DEF PlayerRows
<1>2. ASSUME NEW u \in Uuids, SeenAs(u) PROVE PortalInv'
  <2> DEFINE rows == Reconciled(u)
             of == {i \in PlayerIds : rows[i] # NoPlayer /\ rows[i].key = u}
             n == Min(NewIds)
  <2>1. /\ of # {} \/ NewIds # {}
        /\ player' = [i \in PlayerIds |->
                        IF i \in of THEN [rows[i] EXCEPT !.named = TRUE]
                        ELSE IF of = {} /\ i = n THEN NewRow(u) ELSE rows[i]]
        /\ UNCHANGED <<visit, portalTokens, contested>>
    BY <1>2 DEF SeenAs
  <2>2. of = {} => n \in PlayerIds /\ n \notin Mentioned
    BY <2>1, NewIdIsNew
  <2>3. \A i \in PlayerIds :
           /\ rows[i] \in PlayerRow \cup {NoPlayer}
           /\ rows[i] # NoPlayer => i \in PlayerRows /\ rows[i] \in PlayerRow
                                    /\ rows[i].pass = player[i].pass
    <3> SUFFICES ASSUME NEW i \in PlayerIds
                 PROVE  /\ rows[i] \in PlayerRow \cup {NoPlayer}
                        /\ rows[i] # NoPlayer => i \in PlayerRows /\ rows[i] \in PlayerRow
                                                 /\ rows[i].pass = player[i].pass
      OBVIOUS
    <3>1. CASE i \notin Keyed("name")
      BY <1>0, <3>1 DEF Reconciled, PortalTypeOK, PlayerRows
    <3>2. CASE i \in Keyed("name")
      <4>1. i \in PlayerRows /\ player[i] \in PlayerRow
        BY <1>0, <3>2 DEF Keyed, PlayerRows, PortalTypeOK
      <4>2. rows[i] = IF Keyed(u) = {} THEN [player[i] EXCEPT !.key = u] ELSE NoPlayer
        BY <3>2 DEF Reconciled
      <4>3. [player[i] EXCEPT !.key = u] \in PlayerRow /\ [player[i] EXCEPT !.key = u].pass = player[i].pass
        BY <4>1 DEF PlayerRow
      <4> HIDE DEF rows
      <4>4. QED
        BY <4>1, <4>2, <4>3
    <3>3. QED
      BY <3>1, <3>2
  <2>4. NewRow(u) \in PlayerRow
    BY DEF NewRow, PlayerRow
  <2>5. \A i \in of : rows[i] \in PlayerRow /\ [rows[i] EXCEPT !.named = TRUE] \in PlayerRow
                      /\ [rows[i] EXCEPT !.named = TRUE].pass = rows[i].pass
    <3> HIDE DEF rows
    <3>1. \A i \in of : rows[i] \in PlayerRow
      BY <2>3
    <3>2. QED
      BY <3>1 DEF PlayerRow
  <2>6. of \subseteq PlayerIds /\ \A i \in of : rows[i] # NoPlayer
    OBVIOUS
  <2> HIDE DEF rows, of, n
  <2>7. player' \in [PlayerIds -> PlayerRow \cup {NoPlayer}]
    BY <2>1, <2>3, <2>4, <2>5
  <2>8. \A i \in PlayerIds \cap Mentioned :
            i \in PlayerRows' => i \in PlayerRows /\ player'[i].pass = player[i].pass
    BY <2>1, <2>2, <2>3, <2>5, <2>6 DEF PlayerRows
  <2>9. QED
    BY <2>1, <2>7, <2>8, PresenceKeeps
<1>3. ASSUME NEW u \in Uuids, SeenElsewhere(u) PROVE PortalInv'
  <2>1. PICK i \in Keyed(u) : player' = [player EXCEPT ![i].named = FALSE]
    BY <1>3 DEF SeenElsewhere
  <2>2. i \in PlayerRows /\ player[i] \in PlayerRow
    BY <1>0 DEF Keyed, PlayerRows, PortalTypeOK
  <2>3. [player[i] EXCEPT !.named = FALSE] \in PlayerRow
        /\ [player[i] EXCEPT !.named = FALSE].pass = player[i].pass
    BY <2>2 DEF PlayerRow
  <2>4. \A j \in PlayerIds : player'[j] = IF j = i THEN [player[i] EXCEPT !.named = FALSE] ELSE player[j]
    BY <1>0, <2>1 DEF PortalTypeOK
  <2>5. player' \in [PlayerIds -> PlayerRow \cup {NoPlayer}]
    BY <1>0, <2>1, <2>3 DEF PortalTypeOK
  <2>6. UNCHANGED <<visit, portalTokens, contested>>
    BY <1>3 DEF SeenElsewhere
  <2>7. \A j \in PlayerIds \cap Mentioned :
            j \in PlayerRows' => j \in PlayerRows /\ player'[j].pass = player[j].pass
    BY <2>2, <2>3, <2>4 DEF PlayerRows
  <2>8. QED
    BY <2>5, <2>6, <2>7, PresenceKeeps
<1>4. CASE SpareServer
  BY <1>0, <1>4, PresenceKeeps DEF SpareServer, PortalTypeOK, PlayerRows
<1>5. ASSUME NEW x \in Visitors, NEW pw \in PortalPasswords, RegisterReads(x, pw) PROVE PortalInv'
  <2>1. PICK i \in PickPortalPlayerMatch(Matches) :
           /\ Registrable(i)
           /\ visit' = [visit EXCEPT ![x] = [pw |-> pw, row |-> i]]
           /\ contested' = IF \E y \in Visitors : visit[y].row = i THEN contested \cup {i} ELSE contested
    BY <1>5 DEF RegisterReads
  <2>2. UNCHANGED <<player, portalTokens>> /\ visit[x] = Nobody
    BY <1>5 DEF RegisterReads
  <2>3. i \in PlayerRows /\ i \in PlayerIds /\ player[i].pass = NoPlayer
    BY <2>1, PickIsMatch DEF Matches, PlayerRows, Registrable
  <2>4. \A y \in Visitors : visit'[y] = IF y = x THEN [pw |-> pw, row |-> i] ELSE visit[y]
    BY <1>0, <2>1 DEF PortalTypeOK
  <2>5. contested \subseteq contested' /\ PlayerRows' = PlayerRows
    BY <2>1, <2>2 DEF PlayerRows
  <2>6. PortalTypeOK'
    BY <1>0, <2>1, <2>2, <2>3 DEF PortalTypeOK
  <2>7. Owned'
    BY <1>0, <2>2, <2>5 DEF Owned
  <2>8. PickedFree'
    BY <1>0, <2>2, <2>3, <2>4, <2>5 DEF PickedFree, Picked
  <2>9. PickedOnce'
    BY <1>0, <2>1, <2>2, <2>4, <2>5 DEF PickedOnce, Picked
  <2>10. QED
    BY <2>6, <2>7, <2>8, <2>9 DEF PortalInv
<1>6. ASSUME NEW x \in Visitors, RegisterWrites(x) PROVE PortalInv'
  <2> DEFINE i == visit[x].row
             pw == visit[x].pw
  <2>1. /\ Picked(x) /\ visit' = [visit EXCEPT ![x] = Nobody] /\ UNCHANGED contested
        /\ IF i \in PlayerRows
           THEN player' = [player EXCEPT ![i].pass = pw] /\ Issue(i, pw)
           ELSE UNCHANGED <<player, portalTokens>>
    BY <1>6 DEF RegisterWrites, Picked
  <2>2. i \in PlayerIds /\ pw \in PortalPasswords
    BY <1>0, <2>1 DEF PortalTypeOK, Picked
  <2>3. i \in PlayerRows \ contested => player[i].pass = NoPlayer
    BY <1>0, <2>1 DEF PickedFree
  <2>4. \A y \in Visitors : Picked(y) /\ visit[y].row = i => y = x \/ i \in contested
    BY <1>0, <2>1 DEF PickedOnce
  <2> HIDE DEF i, pw
  <2>5. \A y \in Visitors : visit'[y] = IF y = x THEN Nobody ELSE visit[y]
    BY <1>0, <2>1 DEF PortalTypeOK
  <2>6. visit' \in [Visitors -> {Nobody} \cup [pw : PortalPasswords, row : PlayerIds]]
    BY <1>0, <2>1 DEF PortalTypeOK
  <2>7. CASE i \notin PlayerRows
    <3>1. UNCHANGED <<player, portalTokens>> /\ PlayerRows' = PlayerRows
      BY <2>1, <2>7 DEF PlayerRows
    <3>2. PortalTypeOK' /\ Owned'
      BY <1>0, <2>1, <2>6, <3>1 DEF PortalTypeOK, Owned
    <3>3. PickedFree' /\ PickedOnce'
      BY <1>0, <2>1, <2>5, <3>1 DEF PickedFree, PickedOnce, Picked
    <3>4. QED
      BY <3>2, <3>3 DEF PortalInv
  <2>8. CASE i \in PlayerRows
    <3> DEFINE t == [sub |-> i, auth |-> "name", pw |-> pw]
    <3>1. player' = [player EXCEPT ![i].pass = pw] /\ portalTokens' = portalTokens \cup {t}
      BY <2>1, <2>8 DEF Issue, IssueSession
    <3>2. player[i] \in PlayerRow
      BY <1>0, <2>2, <2>8 DEF PortalTypeOK, PlayerRows
    <3>3. [player[i] EXCEPT !.pass = pw] \in PlayerRow /\ [player[i] EXCEPT !.pass = pw].pass = pw
      BY <2>2, <3>2 DEF PlayerRow
    <3>4. \A j \in PlayerIds : player'[j] = IF j = i THEN [player[i] EXCEPT !.pass = pw] ELSE player[j]
      BY <1>0, <3>1 DEF PortalTypeOK
    <3>5. PlayerRows' \subseteq PlayerRows
      BY <2>8, <3>4 DEF PlayerRows
    <3>6. t.sub = i /\ t.pw = pw /\ t \in [sub : PlayerIds, auth : {"name", "steam"}, pw : PortalPasswords \cup {NoPlayer}]
      BY <2>2
    <3> HIDE DEF t
    <3>7. PortalTypeOK'
      <4>1. player' \in [PlayerIds -> PlayerRow \cup {NoPlayer}]
        BY <1>0, <3>1, <3>3 DEF PortalTypeOK
      <4>2. QED
        BY <1>0, <2>6, <3>1, <3>6, <4>1 DEF PortalTypeOK
    <3>8. Owned'
      <4> SUFFICES ASSUME NEW o \in portalTokens', o.auth = "name", o.sub \in PlayerRows' \ contested'
                   PROVE  o.pw = player'[o.sub].pass /\ o.pw \in PortalPasswords
        BY DEF Owned
      <4>1. CASE o = t
        BY <2>2, <3>3, <3>4, <3>6, <4>1
      <4>2. CASE o \in portalTokens
        <5>1. o.pw = player[o.sub].pass /\ o.pw \in PortalPasswords /\ o.sub \in PlayerIds
          BY <1>0, <2>1, <3>5, <4>2 DEF Owned, PlayerRows
        <5>2. o.sub # i
          BY <2>1, <2>3, <2>8, <5>1, PortalAssumption
        <5>3. QED
          BY <3>4, <5>1, <5>2
      <4>3. QED
        BY <3>1, <4>1, <4>2
    <3>9. PickedFree'
      <4> SUFFICES ASSUME NEW y \in Visitors, Picked(y)', visit'[y].row \in PlayerRows' \ contested'
                   PROVE  player'[visit'[y].row].pass = NoPlayer
        BY DEF PickedFree
      <4>1. y # x /\ visit'[y] = visit[y] /\ Picked(y)
        BY <2>5 DEF Picked
      <4>2. visit[y].row # i /\ visit[y].row \in PlayerIds
        BY <2>1, <2>4, <4>1 DEF PlayerRows
      <4>3. player[visit[y].row].pass = NoPlayer
        BY <1>0, <2>1, <3>5, <4>1 DEF PickedFree
      <4>4. QED
        BY <3>4, <4>1, <4>2, <4>3
    <3>10. PickedOnce'
      BY <1>0, <2>1, <2>5 DEF PickedOnce, Picked
    <3>11. QED
      BY <3>7, <3>8, <3>9, <3>10 DEF PortalInv
  <2>9. QED
    BY <2>7, <2>8
<1>7. ASSUME NEW pw \in PortalPasswords, LoginName(pw) PROVE PortalInv'
  <2>1. PICK i \in PickPortalPlayerMatch(Matches) : player[i].pass = pw /\ Issue(i, pw)
    BY <1>7 DEF LoginName
  <2>2. i \in PlayerIds
    BY PickIsMatch DEF Matches, PlayerRows
  <2> DEFINE t == [sub |-> i, auth |-> "name", pw |-> pw]
  <2>3. t.pw = player[t.sub].pass /\ t.pw \in PortalPasswords /\ IssueSession(t)
        /\ t \in [sub : PlayerIds, auth : {"name", "steam"}, pw : PortalPasswords \cup {NoPlayer}]
    BY <2>1, <2>2 DEF Issue
  <2> HIDE DEF t
  <2>4. QED
    BY <1>7, <2>3, SessionIssued DEF LoginName
<1>8. CASE VerifySteam
  <2>1. PICK i \in PlayerRows : IssueSession([sub |-> i, auth |-> "steam", pw |-> NoPlayer])
    BY <1>8 DEF VerifySteam
  <2> DEFINE t == [sub |-> i, auth |-> "steam", pw |-> NoPlayer]
  <2>2. t.auth # "name" /\ IssueSession(t)
        /\ t \in [sub : PlayerIds, auth : {"name", "steam"}, pw : PortalPasswords \cup {NoPlayer}]
    BY <2>1 DEF PlayerRows
  <2> HIDE DEF t
  <2>3. QED
    BY <1>8, <2>2, SessionIssued DEF VerifySteam
<1>9. CASE UNCHANGED portalVars
  BY <1>0, <1>9 DEF portalVars, PortalInv, PortalTypeOK, Owned, PickedFree, PickedOnce, Picked, PlayerRows
<1>10. QED
  BY <1>1, <1>2, <1>3, <1>4, <1>5, <1>6, <1>7, <1>8, <1>9 DEF PortalNext

(* A portal session is accepted only for the row whose password it was      *)
(* opened with (OneOwner), however presence promotes, merges and removes    *)
(* rows while registrations are between their read and their write.         *)
THEOREM AccountsHaveOneOwner == PortalSpec => []OneOwner
<1>1. PortalInit => PortalInv
  <2> SUFFICES ASSUME PortalInit PROVE PortalInv
    OBVIOUS
  <2>1. PICK old \in {NoPlayer, [NewRow("steam") EXCEPT !.steam = TRUE]} :
           player = [i \in PlayerIds |-> IF i = Min(PlayerIds) THEN old ELSE NoPlayer]
    BY DEF PortalInit
  <2>2. [NewRow("steam") EXCEPT !.steam = TRUE] \in PlayerRow
    BY DEF NewRow, PlayerRow
  <2>3. player \in [PlayerIds -> PlayerRow \cup {NoPlayer}]
    BY <2>1, <2>2
  <2>4. visit = [x \in Visitors |-> Nobody] /\ portalTokens = {}
    BY DEF PortalInit
  <2>5. QED
    BY <2>3, <2>4 DEF PortalInv, PortalTypeOK, Owned, PickedFree, PickedOnce, Picked
<1>2. PortalInv => OneOwner
  BY DEF PortalInv, Owned, OneOwner, RequirePlayer
<1>3. QED
  BY <1>1, <1>2, PortalStep, PTL DEF PortalSpec


-----------------------------------------------------------------------------
(* Accounts                                                                *)

AccountRow == [registered : BOOLEAN, verified : BOOLEAN, approved : BOOLEAN,
               password : Passwords \cup {NoPassword}, version : Nat,
               role : {"none", "admin", "operator", "viewer"}, elsewhere : BOOLEAN]

Calls ==
    LET CallOf(op, values) ==
            [op : {op}, by : People, who : People, value : values, phase : {"admitted", "checked"}]
    IN  CallOf("changePassword", [current : Passwords, new : Passwords])
          \cup CallOf("setAccountApproval", BOOLEAN)
          \cup CallOf("resetAccountPassword", Passwords)
          \cup CallOf("deleteAccount", {TRUE})

Logins == [who : People, password : Passwords, row : AccountRow, era : Nat]
Sessions == [who : People, version : Nat, era : Nat]

AccountsTypeOK ==
    /\ account \in [People -> AccountRow]
    /\ era \in [People -> Nat]
    /\ logins \subseteq Logins /\ sessions \subseteq Sessions /\ calls \subseteq Calls
    /\ crossed \in BOOLEAN
    /\ \A p \in People : ~account[p].registered =>
           /\ account[p].version = 0 /\ account[p].role = "none"
           /\ account[p].password = NoPassword
    /\ \A c \in calls : c.phase = "checked" => account[c.who].registered

\* A version and an era that were read together: as long as the version is the account's,
\* the era is.
Stamped(p, v, e) == v <= account[p].version /\ (v = account[p].version => e = era[p])

StampsKept ==
    /\ \A s \in sessions : Stamped(s.who, s.version, s.era)
    /\ \A l \in logins : Stamped(l.who, l.row.version, l.era)

\* A removal that has been checked, of somebody who is still an administrator.
Removing(c) == c.op = "deleteAccount" /\ c.phase = "checked" /\ IsAdmin(c.who)

AdminsRemain ==
    ~crossed => /\ \E p \in People : IsAdmin(p)
                /\ \A c \in calls : Removing(c) => \E q \in People \ {c.who} : IsAdmin(q)

AccountsInv == AccountsTypeOK /\ StampsKept /\ AdminsRemain

(* An account's row is written: its version grows whenever its era does, so *)
(* that what was stamped before stays right.                                *)
LEMMA RowWritten ==
    ASSUME AccountsTypeOK, StampsKept, NEW p \in People, NEW row \in AccountRow,
           account' = [account EXCEPT ![p] = row], UNCHANGED <<logins, sessions>>,
           \/ row.version = account[p].version /\ UNCHANGED era
           \/ row.version = account[p].version + 1 /\ UNCHANGED era
           \/ row.version = account[p].version + 1 /\ era' = [era EXCEPT ![p] = @ + 1],
           row.registered, calls' \subseteq calls, crossed' \in BOOLEAN
    PROVE  AccountsTypeOK' /\ StampsKept'
<1>1. \A q \in People : account'[q] = IF q = p THEN row ELSE account[q]
  BY DEF AccountsTypeOK
<1>2. era' \in [People -> Nat] /\ \A q \in People \ {p} : era'[q] = era[q]
  BY DEF AccountsTypeOK
<1>3. account' \in [People -> AccountRow]
  BY DEF AccountsTypeOK
<1>4. AccountsTypeOK'
  <2>1. \A c \in calls : c.who \in People
    BY DEF AccountsTypeOK, Calls
  <2>2. QED
    BY <1>1, <1>2, <1>3, <2>1 DEF AccountsTypeOK
<1>5. account[p].version \in Nat
  BY DEF AccountsTypeOK, AccountRow
<1>6. account'[p].version = account[p].version => era'[p] = era[p]
  BY <1>1, <1>5
<1>7. account[p].version <= account'[p].version /\ account'[p].version \in Nat
  BY <1>1, <1>5
<1>8. \A q \in People, v, e \in Nat : Stamped(q, v, e) => Stamped(q, v, e)'
  <2> SUFFICES ASSUME NEW q \in People, NEW v \in Nat, NEW e \in Nat, Stamped(q, v, e)
               PROVE  Stamped(q, v, e)'
    OBVIOUS
  <2>1. CASE q = p
    BY <1>5, <1>6, <1>7, <2>1 DEF Stamped
  <2>2. CASE q # p
    BY <1>1, <1>2, <2>2 DEF Stamped
  <2>3. QED
    BY <2>1, <2>2
<1>9. \A s \in sessions : s.who \in People /\ s.version \in Nat /\ s.era \in Nat
  BY DEF AccountsTypeOK, Sessions
<1>10. \A l \in logins : l.who \in People /\ l.row.version \in Nat /\ l.era \in Nat
  BY DEF AccountsTypeOK, Logins, AccountRow
<1>11. QED
  BY <1>4, <1>8, <1>9, <1>10 DEF StampsKept

(* The organisation keeps its administrators when nobody's role changes     *)
(* and no removal becomes checked.                                          *)
LEMMA RolesKept ==
    ASSUME AdminsRemain, UNCHANGED crossed, \A p \in People : IsAdmin(p) <=> IsAdmin(p)',
           \A c \in calls' : c.who \in People /\ (c \in calls \/ c.phase # "checked" \/ c.op # "deleteAccount")
    PROVE  AdminsRemain'
  BY DEF AdminsRemain, Removing

(* Somebody who counts more than one administrator sees another one.        *)
LEMMA AnotherAdmin ==
    ASSUME NEW p \in People, IsAdmin(p), KeepsAnAdmin(p)
    PROVE  \E q \in People \ {p} : IsAdmin(q)
<1> SUFFICES ASSUME \A q \in People \ {p} : ~IsAdmin(q) PROVE FALSE
  OBVIOUS
<1>1. {q \in People : IsAdmin(q)} = {p}
  OBVIOUS
<1>2. Cardinality({p}) = 1
  BY FS_Singleton
<1>3. QED
  BY <1>1, <1>2 DEF KeepsAnAdmin, AdminCount

(* A new version of a row, with another password or approval.               *)
LEMMA NewVersion ==
    ASSUME NEW old \in AccountRow
    PROVE  LET Bumped(new) == new \in AccountRow /\ new.version = old.version + 1
                              /\ new.registered = old.registered
           IN  /\ \A pw \in Passwords :
                    LET new == [old EXCEPT !.password = pw, !.version = @ + 1]
                    IN  Bumped(new) /\ new.role = old.role
               /\ \A ok \in BOOLEAN :
                    LET new == [old EXCEPT !.approved = ok, !.version = @ + 1]
                    IN  Bumped(new) /\ new.role = old.role
<1> DEFINE v == old.version + 1
<1>1. v \in Nat /\ old.version \in Nat
  BY DEF AccountRow
<1> HIDE DEF v
<1>2. ASSUME NEW pw \in Passwords
      PROVE  LET new == [old EXCEPT !.password = pw, !.version = v]
             IN  new \in AccountRow /\ new.version = v /\ new.registered = old.registered
                 /\ new.role = old.role
  BY <1>1 DEF AccountRow
<1>3. ASSUME NEW ok \in BOOLEAN
      PROVE  LET new == [old EXCEPT !.approved = ok, !.version = v]
             IN  new \in AccountRow /\ new.version = v /\ new.registered = old.registered
                 /\ new.role = old.role
  BY <1>1 DEF AccountRow
<1>4. QED
  BY <1>2, <1>3 DEF v

(* The row of somebody removed: a membership elsewhere, or a new version.   *)
LEMMA RemovedRow ==
    ASSUME NEW old \in AccountRow, NEW row \in Removed(old)
    PROVE  /\ row \in AccountRow /\ row.role = "none" /\ row.registered = old.registered
           /\ \/ row.version = old.version /\ row.elsewhere
              \/ row.version = old.version + 1
<1> DEFINE v == old.version + 1
           stays == [old EXCEPT !.role = "none", !.elsewhere = TRUE]
           leaves == [old EXCEPT !.role = "none", !.password = NoPassword, !.approved = FALSE,
                                 !.version = v]
<1>1. v \in Nat
  BY DEF AccountRow
<1>2. row = stays \/ row = leaves
  BY DEF Removed
<1> HIDE DEF v
<1>3. /\ stays \in AccountRow /\ stays.role = "none" /\ stays.registered = old.registered
      /\ stays.version = old.version /\ stays.elsewhere
  BY DEF AccountRow
<1>4. /\ leaves \in AccountRow /\ leaves.role = "none" /\ leaves.registered = old.registered
      /\ leaves.version = v
  BY <1>1 DEF AccountRow
<1> HIDE DEF stays, leaves
<1>5. CASE row = stays
  BY <1>3, <1>5
<1>6. CASE row = leaves
  BY <1>4, <1>6 DEF v
<1>7. QED
  BY <1>2, <1>5, <1>6

(* A request that writes is a request about a person; it is then over.      *)
LEMMA CallWrites ==
    ASSUME AccountsTypeOK, NEW op, NEW c, Writing(c, op)
    PROVE  /\ c \in Calls /\ c.op = op /\ c.phase = "checked" /\ c.who \in People
           /\ account[c.who] \in AccountRow /\ account[c.who].registered
           /\ calls' \subseteq calls
<1>1. c \in calls /\ c \in Calls /\ c.op = op /\ c.phase = "checked" /\ calls' = calls \ {c}
  BY DEF Writing, AccountsTypeOK
<1>2. c.who \in People
  BY <1>1 DEF Calls
<1>3. QED
  BY <1>1, <1>2 DEF AccountsTypeOK

(* Registrations, sign-ins between their read and their answer, and         *)
(* requests between guards, check and write preserve the invariant.         *)
LEMMA AccountsStep == AccountsInv /\ [Next]_vars => AccountsInv'
<1> SUFFICES ASSUME AccountsInv, [Next]_vars PROVE AccountsInv'
  OBVIOUS
<1>0. AccountsTypeOK /\ StampsKept /\ AdminsRemain
  BY DEF AccountsInv
<1>1. ASSUME NEW p \in People, NEW pw \in Passwords, NEW mail \in BOOLEAN, Register(p, pw, mail)
      PROVE  AccountsInv'
  <2> DEFINE row == [Absent EXCEPT !.registered = TRUE, !.verified = ~mail, !.password = pw,
                                   !.role = "viewer"]
  <2>1. row \in AccountRow /\ row.version = 0 /\ row.role = "viewer" /\ row.registered
    BY DEF Absent, AccountRow
  <2>2. account' = [account EXCEPT ![p] = row] /\ ~account[p].registered
        /\ UNCHANGED <<logins, sessions, calls, era, crossed>>
    BY <1>1 DEF Register
  <2> HIDE DEF row
  <2>3. account[p].version = 0 /\ account[p].role = "none"
    BY <1>0, <2>2 DEF AccountsTypeOK
  <2>4. AccountsTypeOK' /\ StampsKept'
    <3>1. calls' \subseteq calls /\ crossed' \in BOOLEAN
      BY <1>0, <2>2 DEF AccountsTypeOK
    <3>2. QED
      BY <1>0, <2>1, <2>2, <2>3, <3>1, RowWritten
  <2>5. \A q \in People : IsAdmin(q) <=> IsAdmin(q)'
    BY <1>0, <2>1, <2>2, <2>3 DEF IsAdmin, AccountsTypeOK
  <2>6. \A c \in calls' : c.who \in People /\ c \in calls
    BY <1>0, <2>2 DEF AccountsTypeOK, Calls
  <2>7. QED
    BY <1>0, <2>2, <2>4, <2>5, <2>6, RolesKept DEF AccountsInv
<1>2. ASSUME NEW p \in People, NEW pw \in Passwords, LoginReads(p, pw) PROVE AccountsInv'
  <2> DEFINE l == [who |-> p, password |-> pw, row |-> account[p], era |-> era[p]]
  <2>1. logins' = logins \cup {l} /\ UNCHANGED <<account, sessions, calls, era, crossed>>
    BY <1>2 DEF LoginReads
  <2>2. account[p].version \in Nat /\ l \in Logins
    BY <1>0 DEF AccountsTypeOK, AccountRow, Logins
  <2>3. l.who = p /\ l.row = account[p] /\ l.era = era[p]
    OBVIOUS
  <2> HIDE DEF l
  <2>4. AccountsTypeOK'
    BY <1>0, <2>1, <2>2 DEF AccountsTypeOK
  <2>5. StampsKept'
    BY <1>0, <2>1, <2>2, <2>3 DEF StampsKept, Stamped
  <2>6. AdminsRemain'
    BY <1>0, <2>1 DEF AdminsRemain, Removing, IsAdmin
  <2>7. QED
    BY <2>4, <2>5, <2>6 DEF AccountsInv
<1>3. ASSUME NEW p \in People, NEW pw \in Passwords, NEW role \in {"operator", "viewer"},
             CreateAccount(p, pw, role)
      PROVE  AccountsInv'
  <2> DEFINE row == [registered |-> TRUE, verified |-> TRUE, approved |-> TRUE,
                     password |-> pw, version |-> 0, role |-> role, elsewhere |-> FALSE]
  <2>1. row \in AccountRow /\ row.version = 0 /\ row.role # "admin" /\ row.registered
    BY DEF AccountRow
  <2>2. account' = [account EXCEPT ![p] = row] /\ ~account[p].registered
        /\ UNCHANGED <<logins, sessions, calls, era, crossed>>
    BY <1>3 DEF CreateAccount
  <2> HIDE DEF row
  <2>3. account[p].version = 0 /\ account[p].role = "none"
    BY <1>0, <2>2 DEF AccountsTypeOK
  <2>4. AccountsTypeOK' /\ StampsKept'
    <3>1. calls' \subseteq calls /\ crossed' \in BOOLEAN
      BY <1>0, <2>2 DEF AccountsTypeOK
    <3>2. QED
      BY <1>0, <2>1, <2>2, <2>3, <3>1, RowWritten
  <2>5. \A q \in People : IsAdmin(q) <=> IsAdmin(q)'
    BY <1>0, <2>1, <2>2, <2>3 DEF IsAdmin, AccountsTypeOK
  <2>6. \A c \in calls' : c.who \in People /\ c \in calls
    BY <1>0, <2>2 DEF AccountsTypeOK, Calls
  <2>7. QED
    BY <1>0, <2>2, <2>4, <2>5, <2>6, RolesKept DEF AccountsInv
<1>4. ASSUME NEW p \in People, VerifyEmail(p) PROVE AccountsInv'
  <2> DEFINE row == [account[p] EXCEPT !.verified = TRUE]
  <2>1. account' = [account EXCEPT ![p] = row] /\ account[p].role # "none"
        /\ UNCHANGED <<logins, sessions, calls, era, crossed>>
    BY <1>0, <1>4 DEF VerifyEmail, AccountsTypeOK
  <2>2. account[p] \in AccountRow
    BY <1>0 DEF AccountsTypeOK
  <2>3. /\ row \in AccountRow /\ row.version = account[p].version /\ row.role = account[p].role
        /\ row.registered = account[p].registered
    BY <2>2 DEF AccountRow
  <2> HIDE DEF row
  <2>4. AccountsTypeOK' /\ StampsKept'
    <3>1. calls' \subseteq calls /\ crossed' \in BOOLEAN
      BY <1>0, <2>1 DEF AccountsTypeOK
    <3>2. row.registered
      BY <1>0, <2>1, <2>3 DEF AccountsTypeOK
    <3>3. QED
      BY <1>0, <2>1, <2>3, <3>1, <3>2, RowWritten
  <2>5. \A q \in People : IsAdmin(q) <=> IsAdmin(q)'
    BY <1>0, <2>1, <2>3 DEF IsAdmin, AccountsTypeOK
  <2>6. \A c \in calls' : c.who \in People /\ c \in calls
    BY <1>0, <2>1 DEF AccountsTypeOK, Calls
  <2>7. QED
    BY <1>0, <2>1, <2>4, <2>5, <2>6, RolesKept DEF AccountsInv
<1>5. ASSUME NEW op, NEW s \in sessions, NEW p \in People, NEW value, Admit(op, s, p, value),
             \/ op = "changePassword" /\ value \in [current : Passwords, new : Passwords]
             \/ op = "setAccountApproval" /\ value \in BOOLEAN
             \/ op = "resetAccountPassword" /\ value \in Passwords
             \/ op = "deleteAccount" /\ value = TRUE
      PROVE  AccountsInv'
  <2> DEFINE c == [op |-> op, by |-> s.who, who |-> p, value |-> value, phase |-> "admitted"]
  <2>1. calls' = calls \cup {c} /\ UNCHANGED <<account, logins, sessions, era, crossed>>
    BY <1>5 DEF Admit
  <2>2. s.who \in People
    BY <1>0 DEF AccountsTypeOK, Sessions
  <2>3. c \in Calls /\ c.phase = "admitted" /\ c.who = p
    BY <1>5, <2>2 DEF Calls
  <2> HIDE DEF c
  <2>4. AccountsTypeOK' /\ StampsKept'
    BY <1>0, <2>1, <2>3 DEF AccountsTypeOK, StampsKept, Stamped
  <2>5. \A q \in People : IsAdmin(q) <=> IsAdmin(q)'
    BY <2>1 DEF IsAdmin
  <2>6. \A d \in calls' : d.who \in People /\ (d \in calls \/ d.phase # "checked" \/ d.op # "deleteAccount")
    BY <1>0, <2>1, <2>3 DEF AccountsTypeOK, Calls
  <2>7. QED
    BY <1>0, <2>1, <2>4, <2>5, <2>6, RolesKept DEF AccountsInv
<1>6. ASSUME NEW l \in logins, FailLogin(l) \/ LoginRefused(l) PROVE AccountsInv'
  <2>1. logins' \subseteq logins /\ UNCHANGED <<account, sessions, calls, era, crossed>>
    BY <1>6 DEF FailLogin, LoginRefused
  <2>2. AccountsTypeOK' /\ StampsKept' /\ AdminsRemain'
    BY <1>0, <2>1 DEF AccountsTypeOK, StampsKept, Stamped, AdminsRemain, Removing, IsAdmin
  <2>3. QED
    BY <2>2 DEF AccountsInv
<1>7. ASSUME NEW l \in logins, LoginAnswers(l) PROVE AccountsInv'
  <2> DEFINE s == [who |-> l.who, version |-> l.row.version, era |-> l.era]
  <2>1. logins' \subseteq logins /\ sessions' = sessions \cup {s} /\ UNCHANGED <<account, calls, era, crossed>>
    BY <1>7 DEF LoginAnswers
  <2>2. s \in Sessions
    BY <1>0 DEF AccountsTypeOK, Logins, Sessions, AccountRow
  <2>3. Stamped(s.who, s.version, s.era)
    BY <1>0 DEF StampsKept
  <2> HIDE DEF s
  <2>4. AccountsTypeOK' /\ StampsKept' /\ AdminsRemain'
    BY <1>0, <2>1, <2>2, <2>3 DEF AccountsTypeOK, StampsKept, Stamped, AdminsRemain, Removing, IsAdmin
  <2>5. QED
    BY <2>4 DEF AccountsInv
<1>8. ASSUME NEW p \in People, LockEnds(p) PROVE AccountsInv'
  BY <1>0, <1>8 DEF LockEnds, AccountsInv, AccountsTypeOK, StampsKept, Stamped, AdminsRemain, Removing, IsAdmin
<1>9. ASSUME NEW c \in calls, Check(c) PROVE AccountsInv'
  <2> DEFINE d == [c EXCEPT !.phase = "checked"]
  <2>1. c \in Calls
    BY <1>0 DEF AccountsTypeOK
  <2>2. d \in Calls /\ d.op = c.op /\ d.who = c.who /\ c.who \in People
    BY <2>1 DEF Calls
  <2>3. UNCHANGED <<account, logins, sessions, era, crossed>>
    BY <1>9 DEF Check
  <2>4. \/ calls' \subseteq calls
        \/ /\ calls' = (calls \ {c}) \cup {d}
           /\ \/ c.op = "changePassword" /\ MayChangePassword(c)
              \/ c.op = "setAccountApproval" /\ MayApprove(c)
              \/ c.op = "resetAccountPassword" /\ MayResetPassword(c)
              \/ c.op = "deleteAccount" /\ MayDelete(c)
    BY <1>9, <2>1 DEF Check, Calls
  <2>9. calls' \subseteq calls \/ account[c.who].registered
    <3>1. account[c.who].role # "none" => account[c.who].registered
      BY <1>0, <2>2 DEF AccountsTypeOK
    <3>2. c.op = "changePassword" /\ MayChangePassword(c) => account[c.who].registered
      BY <1>0, <2>1, <2>2, AccountsAssumption DEF AccountsTypeOK, MayChangePassword, Calls
    <3>3. QED
      BY <2>4, <3>1, <3>2 DEF MayApprove, MayResetPassword, MayDelete
  <2> HIDE DEF d
  <2>5. AccountsTypeOK' /\ StampsKept'
    BY <1>0, <2>2, <2>3, <2>4, <2>9 DEF AccountsTypeOK, StampsKept, Stamped
  <2>6. Removing(d) /\ calls' = (calls \ {c}) \cup {d} /\ ~(calls' \subseteq calls) => \E q \in People \ {d.who} : IsAdmin(q)
    BY <2>2, <2>4, AnotherAdmin DEF Removing, MayDelete
  <2>7. AdminsRemain'
    BY <1>0, <2>3, <2>4, <2>6 DEF AdminsRemain, Removing, IsAdmin
  <2>8. QED
    BY <2>5, <2>7 DEF AccountsInv
<1>10. ASSUME NEW c \in calls, ChangePassword(c) \/ ResetAccountPassword(c) \/ SetAccountApproval(c)
       PROVE  AccountsInv'
  <2>1. PICK op \in {"changePassword", "resetAccountPassword", "setAccountApproval"} : Writing(c, op)
    BY <1>10 DEF ChangePassword, ResetAccountPassword, SetAccountApproval
  <2>2. /\ c \in Calls /\ c.op = op /\ c.phase = "checked" /\ c.who \in People
        /\ account[c.who] \in AccountRow /\ account[c.who].registered /\ calls' \subseteq calls
    BY <1>0, <2>1, CallWrites
  <2>3. UNCHANGED <<logins, sessions, crossed>>
    BY <1>10 DEF ChangePassword, ResetAccountPassword, SetAccountApproval
  <2> DEFINE p == c.who
             old == account[p]
  <2>4. PICK row \in AccountRow :
           /\ account' = [account EXCEPT ![p] = row]
           /\ row.version = old.version + 1 /\ row.role = old.role /\ row.registered = old.registered
    <3>1. CASE ChangePassword(c)
      <4> DEFINE row == [old EXCEPT !.password = c.value.new, !.version = @ + 1]
      <4>1. account' = [account EXCEPT ![p] = row]
        BY <1>0, <2>2, <3>1 DEF ChangePassword, AccountsTypeOK
      <4>2. c.value.new \in Passwords
        BY <2>2, <3>1 DEF ChangePassword, Writing, Calls
      <4> HIDE DEF p
      <4>3. row \in AccountRow /\ row.version = old.version + 1 /\ row.role = old.role /\ row.registered = old.registered
        <5>1. old \in AccountRow
          BY <2>2 DEF p
        <5> HIDE DEF old
        <5>2. QED
          BY <4>2, <5>1, NewVersion
      <4> HIDE DEF row
      <4>4. QED
        BY <4>1, <4>3
    <3>2. CASE ResetAccountPassword(c)
      <4> DEFINE row == [old EXCEPT !.password = c.value, !.version = @ + 1]
      <4>1. account' = [account EXCEPT ![p] = row]
        BY <1>0, <2>2, <3>2 DEF ResetAccountPassword, AccountsTypeOK
      <4>2. c.value \in Passwords
        BY <2>2, <3>2 DEF ResetAccountPassword, Writing, Calls
      <4> HIDE DEF p
      <4>3. row \in AccountRow /\ row.version = old.version + 1 /\ row.role = old.role /\ row.registered = old.registered
        <5>1. old \in AccountRow
          BY <2>2 DEF p
        <5> HIDE DEF old
        <5>2. QED
          BY <4>2, <5>1, NewVersion
      <4> HIDE DEF row
      <4>4. QED
        BY <4>1, <4>3
    <3>3. CASE SetAccountApproval(c)
      <4> DEFINE row == [old EXCEPT !.approved = c.value, !.version = @ + 1]
      <4>1. account' = [account EXCEPT ![p] = row]
        BY <1>0, <2>2, <3>3 DEF SetAccountApproval, AccountsTypeOK
      <4>2. c.value \in BOOLEAN
        BY <2>2, <3>3 DEF SetAccountApproval, Writing, Calls
      <4> HIDE DEF p
      <4>3. row \in AccountRow /\ row.version = old.version + 1 /\ row.role = old.role /\ row.registered = old.registered
        <5>1. old \in AccountRow
          BY <2>2 DEF p
        <5> HIDE DEF old
        <5>2. QED
          BY <4>2, <5>1, NewVersion
      <4> HIDE DEF row
      <4>4. QED
        BY <4>1, <4>3
    <3>4. QED
      BY <1>10, <3>1, <3>2, <3>3
  <2>5. UNCHANGED era \/ era' = [era EXCEPT ![p] = @ + 1]
    BY <1>10 DEF ChangePassword, ResetAccountPassword, SetAccountApproval, TakesAway
  <2>6. AccountsTypeOK' /\ StampsKept'
    <3>1. crossed' \in BOOLEAN
      BY <1>0, <2>3 DEF AccountsTypeOK
    <3>2. p \in People /\ row.registered
      BY <2>2, <2>4
    <3> HIDE DEF p
    <3>3. QED
      BY <1>0, <2>2, <2>3, <2>4, <2>5, <3>1, <3>2, RowWritten
  <2>7. \A q \in People : IsAdmin(q) <=> IsAdmin(q)'
    BY <1>0, <2>4 DEF IsAdmin, AccountsTypeOK
  <2>8. \A d \in calls' : d.who \in People /\ d \in calls
    BY <1>0, <2>2 DEF AccountsTypeOK, Calls
  <2>9. QED
    BY <1>0, <2>3, <2>6, <2>7, <2>8, RolesKept DEF AccountsInv
<1>11. ASSUME NEW c \in calls, DeleteAccount(c) PROVE AccountsInv'
  <2>1. /\ c \in Calls /\ c.op = "deleteAccount" /\ c.phase = "checked" /\ c.who \in People
        /\ account[c.who] \in AccountRow /\ account[c.who].registered /\ calls' \subseteq calls
    BY <1>0, <1>11, CallWrites DEF DeleteAccount
  <2>2. calls' = calls \ {c} /\ UNCHANGED <<logins, sessions>>
    BY <1>11 DEF DeleteAccount, Writing
  <2>3. \A d \in calls' : d.who \in People /\ d \in calls
    BY <1>0, <2>2 DEF AccountsTypeOK, Calls
  <2>4. CASE UNCHANGED <<account, era, crossed>>
    BY <1>0, <2>2, <2>3, <2>4 DEF AccountsInv, AccountsTypeOK, StampsKept, Stamped, AdminsRemain, Removing, IsAdmin
  <2>5. CASE account[c.who].role # "none" /\ ~UNCHANGED <<account, era, crossed>>
    <3> DEFINE p == c.who
               old == account[p]
    <3>1. PICK row \in Removed(old) :
          /\ account' = [account EXCEPT ![p] = row]
          /\ IF row.elsewhere THEN UNCHANGED era ELSE era' = [era EXCEPT ![p] = @ + 1]
          /\ crossed' = (crossed \/ \E d \in calls \ {c} :
                            d.op = "deleteAccount" /\ d.phase = "checked" /\ IsAdmin(d.who))
      BY <1>11, <2>5 DEF DeleteAccount, TakesAway
    <3>2. old \in AccountRow /\ old.registered /\ p \in People
      BY <2>1
    <3> HIDE DEF old, p
    <3>3. /\ row \in AccountRow /\ row.role = "none" /\ row.registered
          /\ \/ row.version = old.version /\ row.elsewhere
             \/ row.version = old.version + 1
      BY <3>2, RemovedRow
    <3>4. AccountsTypeOK' /\ StampsKept'
      <4>1. crossed' \in BOOLEAN
        BY <1>0, <3>1 DEF AccountsTypeOK
      <4>2. \/ row.version = account[p].version /\ UNCHANGED era
            \/ row.version = account[p].version + 1 /\ UNCHANGED era
            \/ row.version = account[p].version + 1 /\ era' = [era EXCEPT ![p] = @ + 1]
        BY <3>1, <3>3 DEF old
      <4>3. QED
        BY <1>0, <2>1, <2>2, <3>1, <3>2, <3>3, <4>1, <4>2, RowWritten
    <3>5. \A q \in People : IsAdmin(q)' <=> q # p /\ IsAdmin(q)
      BY <1>0, <3>1, <3>2, <3>3 DEF IsAdmin, AccountsTypeOK
    <3>6. ~crossed' => /\ ~crossed
                       /\ \A d \in calls' : d.op = "deleteAccount" /\ d.phase = "checked" => ~IsAdmin(d.who)
      BY <1>0, <2>2, <3>1 DEF AccountsTypeOK
    <3>7. ~crossed => \E q \in People : q # p /\ IsAdmin(q)
      BY <1>0, <2>1 DEF AdminsRemain, Removing, p
    <3>8. AdminsRemain'
      <4> SUFFICES ASSUME ~crossed' PROVE /\ \E q \in People : IsAdmin(q)'
                                          /\ \A d \in calls' : ~Removing(d)'
        BY DEF AdminsRemain
      <4>1. \E q \in People : IsAdmin(q)'
        BY <3>5, <3>6, <3>7
      <4>2. \A d \in calls' : ~Removing(d)'
        BY <2>3, <3>5, <3>6 DEF Removing
      <4>3. QED
        BY <4>1, <4>2
    <3>9. QED
      BY <3>4, <3>8 DEF AccountsInv
  <2>6. QED
    BY <1>11, <2>4, <2>5 DEF DeleteAccount
<1>12. CASE UNCHANGED accountVars
  BY <1>0, <1>12 DEF accountVars, AccountsInv, AccountsTypeOK, StampsKept, Stamped, AdminsRemain,
     Removing, IsAdmin
<1>13. CASE AccountRequest
  <2> SUFFICES ASSUME NEW p \in People,
                      \/ \E pw \in Passwords :
                           \/ \E mail \in BOOLEAN : Register(p, pw, mail)
                           \/ LoginReads(p, pw)
                           \/ \E role \in {"operator", "viewer"} : CreateAccount(p, pw, role)
                      \/ VerifyEmail(p)
                      \/ \E s \in sessions :
                           \/ \E old, new \in Passwords :
                                Admit("changePassword", s, p, [current |-> old, new |-> new])
                           \/ \E approved \in BOOLEAN : Admit("setAccountApproval", s, p, approved)
                           \/ \E pw \in Passwords : Admit("resetAccountPassword", s, p, pw)
                           \/ Admit("deleteAccount", s, p, TRUE)
               PROVE  AccountsInv'
    BY <1>13 DEF AccountRequest
  <2>1. ASSUME NEW s \in sessions, NEW old \in Passwords, NEW new \in Passwords,
               Admit("changePassword", s, p, [current |-> old, new |-> new])
        PROVE  AccountsInv'
    <3> DEFINE value == [current |-> old, new |-> new]
    <3>1. value \in [current : Passwords, new : Passwords] /\ Admit("changePassword", s, p, value)
      BY <2>1
    <3> HIDE DEF value
    <3>2. QED
      BY <1>5, <3>1
  <2>2. ASSUME NEW s \in sessions, NEW approved \in BOOLEAN, Admit("setAccountApproval", s, p, approved)
        PROVE  AccountsInv'
    BY <1>5, <2>2
  <2>3. ASSUME NEW s \in sessions, NEW pw \in Passwords, Admit("resetAccountPassword", s, p, pw)
        PROVE  AccountsInv'
    BY <1>5, <2>3
  <2>4. ASSUME NEW s \in sessions, Admit("deleteAccount", s, p, TRUE) PROVE AccountsInv'
    BY <1>5, <2>4
  <2>5. QED
    BY <1>1, <1>2, <1>3, <1>4, <2>1, <2>2, <2>3, <2>4
<1>14. CASE AccountStep
  BY <1>6, <1>7, <1>8, <1>9, <1>10, <1>11, <1>14 DEF AccountStep, ChangePassword, SetAccountApproval,
     ResetAccountPassword, DeleteAccount, Writing
<1>15. QED
  BY <1>12, <1>13, <1>14 DEF Next, HostRequest, HostStep, Start, vars

(* The accounts' invariant holds in every state.                            *)
LEMMA AccountsAreSound == Spec => []AccountsInv
<1>1. Init => AccountsInv
  <2> SUFFICES ASSUME Init PROVE AccountsInv
    OBVIOUS
  <2>1. PICK pw \in Passwords :
          /\ account = [p \in People |->
               IF p \in Admins
               THEN [registered |-> TRUE, verified |-> TRUE, approved |-> TRUE,
                     password |-> pw, version |-> 0, role |-> "admin", elsewhere |-> FALSE]
               ELSE Absent]
          /\ logins = {} /\ calls = {}
          /\ sessions = {[who |-> p, version |-> 0, era |-> 0] : p \in Admins}
          /\ era = [p \in People |-> 0] /\ crossed = FALSE
    BY DEF Init, AccountsInit
  <2>2. AccountsTypeOK
    <3>1. Absent \in AccountRow /\ Absent.version = 0 /\ Absent.role = "none" /\ Absent.password = NoPassword
      BY DEF Absent, AccountRow
    <3> DEFINE row == [registered |-> TRUE, verified |-> TRUE, approved |-> TRUE,
                       password |-> pw, version |-> 0, role |-> "admin", elsewhere |-> FALSE]
    <3>2. row \in AccountRow /\ row.registered
      BY DEF AccountRow
    <3>3. account = [p \in People |-> IF p \in Admins THEN row ELSE Absent]
      BY <2>1
    <3>4. sessions \subseteq Sessions
      BY <2>1, AccountsAssumption DEF Sessions
    <3> HIDE DEF row
    <3>5. QED
      BY <2>1, <3>1, <3>2, <3>3, <3>4 DEF AccountsTypeOK
  <2>3. StampsKept
    BY <2>1, AccountsAssumption DEF StampsKept, Stamped, Absent
  <2>4. AdminsRemain
    BY <2>1, AccountsAssumption DEF AdminsRemain, IsAdmin
  <2>5. QED
    BY <2>2, <2>3, <2>4 DEF AccountsInv
<1>2. QED
  BY <1>1, AccountsStep, PTL DEF Spec

(* A session that the guards let in was opened after the last change of the *)
(* password, withdrawal of the approval or removal of its account           *)
(* (SessionsCurrent): a sign-in under way meanwhile gets the old version.   *)
THEOREM OldSessionsAreRefused == Spec => []SessionsCurrent
<1>1. AccountsInv => SessionsCurrent
  BY DEF AccountsInv, StampsKept, Stamped, SessionsCurrent, JwtAuthGuard
<1>2. QED
  BY <1>1, AccountsAreSound, PTL

(* The organisation keeps an administrator (AdminKept) unless two checked   *)
(* removals of administrators overlapped.                                   *)
THEOREM AdminRemains == Spec => []AdminKept
<1>1. AccountsInv => AdminKept
  BY DEF AccountsInv, AdminsRemain, AdminKept
<1>2. QED
  BY <1>1, AccountsAreSound, PTL


-----------------------------------------------------------------------------
(* Enrolment                                                               *)

AgentKeys == [host : HostIds, version : Nat]
Exchanges == [id : Requests, token : Tokens, pc : {"read", "create", "mark", "answer"},
              host : HostIds \cup {None}]
Rotations == [host : HostIds, version : Nat, id : Requests]
AgentStates == [phase : {"off", "pairing", "paired", "stored", "running"},
                key : AgentKeys \cup {None}, host : HostIds \cup {None},
                exchange : Requests \cup {None}]
Files == [token : Tokens \cup {None}, key : AgentKeys \cup {None}, host : HostIds \cup {None}]

EnrolTypeOK ==
    /\ token \in [Tokens -> {"none", "fresh", "expired", "used"}]
    /\ host \in [HostIds -> [token : Tokens \cup {None}, version : Nat]]
    /\ exchanges \subseteq Exchanges /\ rotations \subseteq Rotations
    /\ \A x \in exchanges : x.pc \in {"read", "create"} <=> x.host = None
    /\ \A k \in handouts : k.host \in HostIds /\ k.version \in Nat
    /\ agent \in AgentStates /\ files \in Files

\* The token of a host that is there and whose token's exchanges did not overlap.
Clear(h) == host[h].token \in Tokens \ blurred

Creating(x) == x.pc \in {"create", "mark"}

\* At most one request of a token is between its check and its mark, and none once the
\* token is used.
OneExchange ==
    \A x \in exchanges : Creating(x) /\ x.token \notin blurred =>
        /\ token[x.token] # "used"
        /\ \A y \in exchanges : Creating(y) /\ y.token = x.token => x = y

\* A host comes from a token that is used or about to be marked, and is the only one.
HostFollowsToken ==
    \A h \in HostIds : Clear(h) =>
        /\ token[host[h].token] = "used" \/ \E x \in exchanges : x.pc = "mark" /\ x.token = host[h].token
        /\ \A g \in HostIds : host[g].token = host[h].token => g = h

\* Whatever speaks of a host speaks of one that was created.
HostExists ==
    /\ \A h \in HostIds : host[h].token # None => host[h].version >= 1
    /\ \A x \in exchanges : x.host # None => host[x.host].version >= 1
    /\ \A k \in handouts : host[k.host].version >= 1
    /\ \A r \in rotations : r.version >= 1 /\ host[r.host].version >= 1

\* The first key of a host has not been given while its exchange lasts.
FirstKeyPending ==
    \A x \in exchanges : x.host # None =>
        /\ \A y \in exchanges : y.host = x.host => x = y
        /\ \A k \in handouts : k.host = x.host => k.version # 1

\* One rotation at a time, of the version that the host has.
OneRotation ==
    \A r \in rotations : Clear(r.host) =>
        /\ r.version = host[r.host].version
        /\ \A q \in rotations : q.host = r.host => q = r

\* Of each version of a key one was given, and none of a version to come.
OneKeyPerVersion ==
    \A j \in handouts : Clear(j.host) =>
        /\ j.version <= host[j.host].version
        /\ \A k \in handouts : k.host = j.host /\ k.version = j.version => j = k

EnrolFacts ==
    /\ OneExchange /\ HostFollowsToken /\ HostExists /\ FirstKeyPending
    /\ OneRotation /\ OneKeyPerVersion

EnrolInv == EnrolTypeOK /\ EnrolFacts

(* Steps that end or keep exchanges before anything is created, and blur    *)
(* tokens, keep the facts.                                                  *)
LEMMA FactsKept ==
    ASSUME EnrolTypeOK, EnrolFacts, UNCHANGED <<token, host, rotations, handouts>>,
           exchanges' \subseteq exchanges, blurred \subseteq blurred',
           \A x \in exchanges \ exchanges' : x.pc = "mark" => x.token \in blurred'
    PROVE  EnrolFacts'
<1>0. OneExchange /\ HostFollowsToken /\ HostExists /\ FirstKeyPending /\ OneRotation /\ OneKeyPerVersion
  BY DEF EnrolFacts
<1>1. \A h \in HostIds : Clear(h)' => Clear(h)
  BY DEF Clear
<1>2. OneExchange'
  BY <1>0 DEF OneExchange, Creating
<1>3. HostFollowsToken'
  <2> SUFFICES ASSUME NEW h \in HostIds, Clear(h)'
               PROVE  /\ \/ token[host[h].token] = "used"
                         \/ \E x \in exchanges' : x.pc = "mark" /\ x.token = host[h].token
                      /\ \A g \in HostIds : host[g].token = host[h].token => g = h
    BY DEF HostFollowsToken
  <2>1. Clear(h) /\ host[h].token \notin blurred'
    BY <1>1 DEF Clear
  <2>2. QED
    BY <1>0, <2>1 DEF HostFollowsToken
<1>4. HostExists' /\ FirstKeyPending'
  BY <1>0 DEF HostExists, FirstKeyPending
<1>5. OneRotation' /\ OneKeyPerVersion'
  BY <1>0, <1>1 DEF OneRotation, OneKeyPerVersion, EnrolTypeOK, Rotations
<1>6. QED
  BY <1>2, <1>3, <1>4, <1>5 DEF EnrolFacts

(* An exchange goes on: what replaces it.                                   *)
LEMMA ExchangeGoesOn ==
    ASSUME NEW x \in Exchanges
    PROVE  /\ \A p \in {"create", "mark", "answer"} :
                LET y == [x EXCEPT !.pc = p]
                IN  y \in Exchanges /\ y.pc = p /\ y.token = x.token /\ y.host = x.host
           /\ \A h \in HostIds :
                LET y == [x EXCEPT !.pc = "mark", !.host = h]
                IN  y \in Exchanges /\ y.pc = "mark" /\ y.token = x.token /\ y.host = h
  BY DEF Exchanges

(* The pair requests: read, create the host, mark the token, answer.        *)
LEMMA PairStep ==
    ASSUME EnrolInv, NEW x \in exchanges,
           PairReads(x) \/ PairMarksToken(x) \/ PairAnswers(x) \/ PairFails(x)
             \/ \E h \in HostIds : PairCreatesHost(x, h)
    PROVE  EnrolInv'
<1>0. /\ EnrolTypeOK /\ EnrolFacts
      /\ OneExchange /\ HostFollowsToken /\ HostExists /\ FirstKeyPending /\ OneRotation /\ OneKeyPerVersion
  BY DEF EnrolInv, EnrolFacts
<1> DEFINE t == x.token
<1>1. /\ x \in Exchanges /\ t \in Tokens /\ t # None
  BY <1>0, EnrolmentAssumption DEF EnrolTypeOK, Exchanges
<1>2. Off \in AgentStates
  BY DEF Off, AgentStates
<1>3. ASSUME PairEnds(x), UNCHANGED <<token, host, rotations, handouts, files>>
      PROVE  EnrolTypeOK' /\ exchanges' \subseteq exchanges /\ \A z \in exchanges : z = x \/ z \in exchanges'
  BY <1>0, <1>2, <1>3 DEF PairEnds, EnrolTypeOK
<1>4. ASSUME PairReads(x) PROVE EnrolInv'
  <2>1. CASE token[t] # "fresh" /\ PairEnds(x) /\ UNCHANGED blurred
    <3>1. x.pc = "read" /\ UNCHANGED <<token, host, rotations, handouts, files>>
      BY <1>4 DEF PairReads
    <3>2. EnrolTypeOK' /\ exchanges' \subseteq exchanges /\ \A z \in exchanges : z = x \/ z \in exchanges'
      BY <1>3, <2>1, <3>1
    <3>3. QED
      BY <1>0, <2>1, <3>1, <3>2, FactsKept DEF EnrolInv
  <2>2. CASE ~(token[t] # "fresh" /\ PairEnds(x) /\ UNCHANGED blurred)
    <3> DEFINE y == [x EXCEPT !.pc = "create"]
    <3>1. /\ token[t] = "fresh" /\ x.pc = "read"
          /\ exchanges' = (exchanges \ {x}) \cup {y}
          /\ blurred' = blurred \cup {u \in {t} : Unmarked(u) # {}}
          /\ UNCHANGED <<token, host, rotations, handouts, agent, files>>
      BY <1>4, <2>2 DEF PairReads
    <3>2. y \in Exchanges /\ y.pc = "create" /\ y.token = t /\ y.host = x.host
      BY <1>1, ExchangeGoesOn
    <3>3. x.host = None
      BY <1>0, <3>1 DEF EnrolTypeOK
    <3>4. t \notin blurred' => \A z \in exchanges : ~(Creating(z) /\ z.token = t)
      BY <3>1 DEF Unmarked, Creating
    <3> HIDE DEF y, t
    <3>5. EnrolTypeOK'
      BY <1>0, <3>1, <3>2, <3>3 DEF EnrolTypeOK
    <3>6. OneExchange'
      BY <1>0, <3>1, <3>2, <3>4 DEF OneExchange, Creating
    <3>7. HostFollowsToken'
      BY <1>0, <3>1, <3>2 DEF HostFollowsToken, Clear
    <3>8. HostExists' /\ FirstKeyPending'
      BY <1>0, <3>1, <3>2, <3>3 DEF HostExists, FirstKeyPending
    <3>9. OneRotation' /\ OneKeyPerVersion'
      BY <1>0, <3>1 DEF OneRotation, OneKeyPerVersion, Clear
    <3>10. QED
      BY <3>5, <3>6, <3>7, <3>8, <3>9 DEF EnrolInv, EnrolFacts
  <2>3. QED
    BY <2>1, <2>2
<1>5. ASSUME NEW h \in HostIds, PairCreatesHost(x, h) PROVE EnrolInv'
  <2> DEFINE y == [x EXCEPT !.pc = "mark", !.host = h]
             new == [token |-> t, version |-> 1]
  <2>1. /\ x.pc = "create" /\ host[h] = NoHost
        /\ host' = [host EXCEPT ![h] = new]
        /\ exchanges' = (exchanges \ {x}) \cup {y}
        /\ UNCHANGED <<token, rotations, handouts, blurred, agent, files>>
    BY <1>5 DEF PairCreatesHost
  <2>2. /\ y \in Exchanges /\ y.pc = "mark" /\ y.token = t /\ y.host = h
        /\ new.token = t /\ new.version = 1 /\ new \in [token : Tokens \cup {None}, version : Nat]
        /\ h # None
    <3>1. y \in Exchanges /\ y.pc = "mark" /\ y.token = t /\ y.host = h
      BY <1>1, ExchangeGoesOn, ZenonT(40)
    <3>2. QED
      BY <1>1, <3>1, EnrolmentAssumption
  <2>3. host[h].token = None /\ host[h].version = 0
    BY <2>1 DEF NoHost
  <2> HIDE DEF y, new, t
  <2>4. \A g \in HostIds : host'[g] = IF g = h THEN new ELSE host[g]
    BY <1>0, <2>1 DEF EnrolTypeOK
  <2>5. EnrolTypeOK'
    <3>1. host' \in [HostIds -> [token : Tokens \cup {None}, version : Nat]]
      BY <1>0, <2>1, <2>2 DEF EnrolTypeOK
    <3>2. QED
      BY <1>0, <2>1, <2>2, <3>1 DEF EnrolTypeOK
  <2>6. OneExchange'
    BY <1>0, <2>1, <2>2 DEF OneExchange, Creating, t
  <2>7. t \notin blurred => \A g \in HostIds : host[g].token # t
    <3> SUFFICES ASSUME t \notin blurred, NEW g \in HostIds, host[g].token = t PROVE FALSE
      OBVIOUS
    <3>1. Clear(g) /\ Creating(x)
      BY <1>1, <2>1 DEF Clear, Creating
    <3>2. token[t] # "used" /\ \A z \in exchanges : Creating(z) /\ z.token = t => z = x
      BY <1>0, <3>1 DEF OneExchange, t
    <3>3. QED
      BY <1>0, <2>1, <3>1, <3>2 DEF HostFollowsToken, Creating
  <2>8. HostFollowsToken'
    <3> SUFFICES ASSUME NEW g \in HostIds, Clear(g)'
                 PROVE  /\ \/ token[host'[g].token] = "used"
                           \/ \E z \in exchanges' : z.pc = "mark" /\ z.token = host'[g].token
                        /\ \A f \in HostIds : host'[f].token = host'[g].token => f = g
      BY <2>1 DEF HostFollowsToken
    <3>1. CASE g = h
      BY <2>1, <2>2, <2>4, <2>7, <3>1 DEF Clear
    <3>2. CASE g # h
      <4>1. Clear(g) /\ host'[g] = host[g]
        BY <2>1, <2>4, <3>2 DEF Clear
      <4>2. host[g].token # t
        BY <2>7, <4>1 DEF Clear
      <4>3. QED
        BY <1>0, <2>1, <2>2, <2>4, <4>1, <4>2 DEF HostFollowsToken
    <3>3. QED
      BY <3>1, <3>2
  <2>9. HostExists'
    <3>1. \A g \in HostIds : host'[g].version >= 1 \/ host'[g] = host[g]
      BY <2>2, <2>4
    <3>2. \A g \in HostIds : host[g].version >= 1 => host'[g].version >= 1
      BY <3>1
    <3>3. \A z \in exchanges' : z.host # None => host'[z.host].version >= 1
      BY <1>0, <2>1, <2>2, <2>4, <3>2 DEF HostExists, EnrolTypeOK, Exchanges
    <3>4. \A g \in HostIds : host'[g].token # None => host'[g].version >= 1
      BY <1>0, <2>2, <2>4 DEF HostExists
    <3>5. QED
      BY <1>0, <2>1, <3>2, <3>3, <3>4 DEF HostExists, EnrolTypeOK, Rotations
  <2>10. FirstKeyPending'
    <3>1. \A z \in exchanges : z.host # h
      BY <1>0, <2>2, <2>3 DEF HostExists
    <3>2. \A k \in handouts : k.host # h
      BY <1>0, <2>3 DEF HostExists
    <3>3. QED
      BY <1>0, <2>1, <2>2, <3>1, <3>2 DEF FirstKeyPending
  <2>11. OneRotation' /\ OneKeyPerVersion'
    <3>1. \A r \in rotations : r.host # h /\ r.host \in HostIds
      BY <1>0, <2>3 DEF HostExists, EnrolTypeOK, Rotations
    <3>2. \A k \in handouts : k.host # h /\ k.host \in HostIds
      BY <1>0, <2>3 DEF HostExists, EnrolTypeOK
    <3>3. \A g \in HostIds \ {h} : Clear(g)' <=> Clear(g)
      BY <2>1, <2>4 DEF Clear
    <3>4. QED
      BY <1>0, <2>1, <2>4, <3>1, <3>2, <3>3 DEF OneRotation, OneKeyPerVersion
  <2>12. QED
    BY <2>5, <2>6, <2>8, <2>9, <2>10, <2>11 DEF EnrolInv, EnrolFacts
<1>6. ASSUME PairMarksToken(x) PROVE EnrolInv'
  <2> DEFINE y == [x EXCEPT !.pc = "answer"]
  <2>1. /\ x.pc = "mark" /\ token' = [token EXCEPT ![t] = "used"]
        /\ exchanges' = (exchanges \ {x}) \cup {y}
        /\ UNCHANGED <<host, rotations, handouts, blurred, agent, files>>
    BY <1>6 DEF PairMarksToken
  <2>2. y \in Exchanges /\ y.pc = "answer" /\ y.token = t /\ y.host = x.host
    BY <1>1, ExchangeGoesOn
  <2>3. x.host # None
    BY <1>0, <2>1 DEF EnrolTypeOK
  <2> HIDE DEF y
  <2>4. \A u \in Tokens : token'[u] = IF u = t THEN "used" ELSE token[u]
    BY <1>0, <2>1 DEF EnrolTypeOK
  <2>5. EnrolTypeOK'
    BY <1>0, <2>1, <2>2, <2>3 DEF EnrolTypeOK
  <2>6. OneExchange'
    <3> SUFFICES ASSUME NEW z \in exchanges', Creating(z), z.token \notin blurred
                 PROVE  /\ token'[z.token] # "used"
                        /\ \A w \in exchanges' : Creating(w) /\ w.token = z.token => z = w
      BY <2>1 DEF OneExchange
    <3>1. z \in exchanges /\ z # x /\ Creating(x)
      BY <2>1, <2>2 DEF Creating
    <3>2. z.token # t /\ z.token \in Tokens
      BY <1>0, <3>1 DEF OneExchange, EnrolTypeOK, Exchanges
    <3>3. \A w \in exchanges' : Creating(w) => w \in exchanges
      BY <2>1, <2>2 DEF Creating
    <3>4. QED
      BY <1>0, <2>4, <3>1, <3>2, <3>3 DEF OneExchange
  <2>7. HostFollowsToken'
    <3> SUFFICES ASSUME NEW g \in HostIds, Clear(g)'
                 PROVE  /\ \/ token'[host[g].token] = "used"
                           \/ \E z \in exchanges' : z.pc = "mark" /\ z.token = host[g].token
                        /\ \A f \in HostIds : host[f].token = host[g].token => f = g
      BY <2>1 DEF HostFollowsToken
    <3>1. Clear(g) /\ host[g].token \in Tokens
      BY <2>1 DEF Clear
    <3>2. QED
      BY <1>0, <2>1, <2>4, <3>1 DEF HostFollowsToken
  <2>8. HostExists' /\ FirstKeyPending'
    BY <1>0, <2>1, <2>2, <2>3 DEF HostExists, FirstKeyPending
  <2>9. OneRotation' /\ OneKeyPerVersion'
    BY <1>0, <2>1 DEF OneRotation, OneKeyPerVersion, Clear
  <2>10. QED
    BY <2>5, <2>6, <2>7, <2>8, <2>9 DEF EnrolInv, EnrolFacts
<1>7. ASSUME PairAnswers(x) PROVE EnrolInv'
  <2>1. /\ x.pc = "answer" /\ exchanges' = exchanges \ {x}
        /\ UNCHANGED <<token, host, rotations, blurred, files>>
    BY <1>7 DEF PairAnswers
  <2>2. CASE UNCHANGED <<handouts, agent>>
    <3>1. EnrolTypeOK'
      BY <1>0, <2>1, <2>2 DEF EnrolTypeOK
    <3>2. QED
      BY <1>0, <2>1, <2>2, <3>1, FactsKept DEF EnrolInv
  <2>3. CASE ~UNCHANGED <<handouts, agent>>
    <3> DEFINE h == x.host
               k == Handout(h, 1)
               a == [phase |-> "paired", exchange |-> None, host |-> h,
                     key |-> [host |-> h, version |-> 1]]
    <3>1. handouts' = handouts \cup {k} /\ agent' = a
      BY <1>7, <2>3 DEF PairAnswers
    <3>2. h \in HostIds /\ h # None
      BY <1>0, <1>1, <2>1 DEF EnrolTypeOK, Exchanges
    <3>3. a \in AgentStates
      BY <3>2 DEF AgentStates, AgentKeys
    <3>4. k.host = h /\ k.version = 1
      BY DEF Handout
    <3>5. host[h].version >= 1
      BY <1>0, <3>2 DEF HostExists
    <3>6. /\ \A j \in handouts : j.host = h => j.version # 1
          /\ \A z \in exchanges' : z.host # h
      BY <1>0, <2>1, <3>2 DEF FirstKeyPending
    <3> HIDE DEF h, k, a
    <3>7. EnrolTypeOK'
      BY <1>0, <2>1, <3>1, <3>2, <3>3, <3>4 DEF EnrolTypeOK
    <3>8. OneExchange' /\ HostFollowsToken' /\ OneRotation'
      BY <1>0, <2>1 DEF OneExchange, HostFollowsToken, OneRotation, Clear
    <3>9. HostExists' /\ FirstKeyPending'
      BY <1>0, <2>1, <3>1, <3>4, <3>5, <3>6 DEF HostExists, FirstKeyPending
    <3>10. OneKeyPerVersion'
      BY <1>0, <2>1, <3>1, <3>4, <3>5, <3>6 DEF OneKeyPerVersion, Clear
    <3>11. QED
      BY <3>7, <3>8, <3>9, <3>10 DEF EnrolInv, EnrolFacts
  <2>4. QED
    BY <2>2, <2>3
<1>8. ASSUME PairFails(x) PROVE EnrolInv'
  <2>1. /\ PairEnds(x) /\ UNCHANGED <<token, host, rotations, handouts, files>>
        /\ blurred' = blurred \cup {u \in {t} : x.pc = "mark"}
    BY <1>8 DEF PairFails
  <2>2. EnrolTypeOK' /\ exchanges' \subseteq exchanges /\ \A z \in exchanges : z = x \/ z \in exchanges'
    BY <1>3, <2>1
  <2>3. \A z \in exchanges \ exchanges' : z.pc = "mark" => z.token \in blurred'
    BY <2>1, <2>2
  <2>4. QED
    BY <1>0, <2>1, <2>2, <2>3, FactsKept DEF EnrolInv
<1>9. QED
  BY <1>4, <1>5, <1>6, <1>7, <1>8


(* Key rotations and the removal of a host.                                 *)
LEMMA HostChangeStep ==
    ASSUME EnrolInv,
           \/ \E h \in HostIds : RemoveHost(h) \/ \E id \in Requests : RotateReads(h, id)
           \/ \E r \in rotations : RotateWrites(r)
    PROVE  EnrolInv'
<1>0. /\ EnrolTypeOK /\ EnrolFacts
      /\ OneExchange /\ HostFollowsToken /\ HostExists /\ FirstKeyPending /\ OneRotation /\ OneKeyPerVersion
  BY DEF EnrolInv, EnrolFacts
<1>1. ASSUME NEW h \in HostIds, RemoveHost(h) PROVE EnrolInv'
  <2>1. /\ host' = [host EXCEPT ![h].token = None]
        /\ UNCHANGED <<token, exchanges, rotations, handouts, blurred, agent, files>>
    BY <1>1 DEF RemoveHost
  <2>2. /\ host' \in [HostIds -> [token : Tokens \cup {None}, version : Nat]]
        /\ \A g \in HostIds : host'[g].version = host[g].version
        /\ host'[h].token = None /\ \A g \in HostIds \ {h} : host'[g] = host[g]
    BY <1>0, <2>1 DEF EnrolTypeOK
  <2>3. \A g \in HostIds : Clear(g)' => g # h /\ Clear(g) /\ host'[g] = host[g]
    BY <2>1, <2>2, EnrolmentAssumption DEF Clear
  <2>4. EnrolTypeOK' /\ OneExchange'
    BY <1>0, <2>1, <2>2 DEF EnrolTypeOK, OneExchange, Creating
  <2>5. HostFollowsToken'
    <3>1. \A g \in HostIds : Clear(g)' => host'[g].token # None
      BY EnrolmentAssumption DEF Clear
    <3>2. QED
      BY <1>0, <2>1, <2>2, <2>3, <3>1 DEF HostFollowsToken
  <2>6. HostExists'
    BY <1>0, <2>1, <2>2 DEF HostExists, EnrolTypeOK, Exchanges, Rotations
  <2>7. FirstKeyPending'
    BY <1>0, <2>1 DEF FirstKeyPending
  <2>8. OneRotation' /\ OneKeyPerVersion'
    BY <1>0, <2>1, <2>3 DEF OneRotation, OneKeyPerVersion, EnrolTypeOK, Rotations
  <2>9. QED
    BY <2>4, <2>5, <2>6, <2>7, <2>8 DEF EnrolInv, EnrolFacts
<1>2. ASSUME NEW h \in HostIds, NEW id \in Requests, RotateReads(h, id) PROVE EnrolInv'
  <2> DEFINE r == [host |-> h, version |-> host[h].version, id |-> id]
  <2>1. /\ host[h].token # None /\ rotations' = rotations \cup {r}
        /\ blurred' = blurred \cup {host[g].token : g \in {q.host : q \in rotations} \cap {h}}
        /\ UNCHANGED <<token, host, exchanges, handouts, agent, files>>
    BY <1>2 DEF RotateReads
  <2>2. host[h].version >= 1 /\ r \in Rotations /\ r.host = h /\ r.version = host[h].version
    BY <1>0, <2>1 DEF HostExists, EnrolTypeOK, Rotations
  <2> HIDE DEF r
  <2>3. \A g \in HostIds : Clear(g)' => Clear(g)
    BY <2>1 DEF Clear
  <2>4. Clear(h)' => \A q \in rotations : q.host # h
    BY <2>1 DEF Clear
  <2>5. EnrolTypeOK' /\ OneExchange'
    BY <1>0, <2>1, <2>2 DEF EnrolTypeOK, OneExchange, Creating
  <2>6. HostFollowsToken'
    BY <1>0, <2>1, <2>3 DEF HostFollowsToken
  <2>7. HostExists' /\ FirstKeyPending'
    BY <1>0, <2>1, <2>2 DEF HostExists, FirstKeyPending
  <2>8. OneRotation'
    BY <1>0, <2>1, <2>2, <2>3, <2>4 DEF OneRotation, EnrolTypeOK, Rotations
  <2>9. OneKeyPerVersion'
    BY <1>0, <2>1, <2>3 DEF OneKeyPerVersion, EnrolTypeOK
  <2>10. QED
    BY <2>5, <2>6, <2>7, <2>8, <2>9 DEF EnrolInv, EnrolFacts
<1>3. ASSUME NEW r \in rotations, RotateWrites(r) PROVE EnrolInv'
  <2> DEFINE h == r.host
             v == r.version + 1
             k == Handout(h, v)
  <2>1. /\ rotations' = rotations \ {r} /\ UNCHANGED <<token, exchanges, blurred, agent, files>>
        /\ \/ /\ host' = [host EXCEPT ![h].version = v]
              /\ handouts' = handouts \/ handouts' = handouts \cup {k}
           \/ UNCHANGED <<host, handouts>>
    BY <1>3 DEF RotateWrites
  <2>2. h \in HostIds /\ v \in Nat /\ v >= 2 /\ r.version = v - 1
    BY <1>0 DEF HostExists, EnrolTypeOK, Rotations
  <2>3. k.host = h /\ k.version = v
    BY DEF Handout
  <2>4. Clear(h) => host[h].version = v - 1 /\ \A q \in rotations' : q.host # h
    BY <1>0, <2>1, <2>2 DEF OneRotation
  <2> HIDE DEF h, v, k
  <2>5. CASE UNCHANGED <<host, handouts>>
    <3>1. EnrolTypeOK' /\ OneExchange' /\ HostFollowsToken' /\ HostExists' /\ FirstKeyPending'
      BY <1>0, <2>1, <2>5 DEF EnrolTypeOK, OneExchange, HostFollowsToken, HostExists, FirstKeyPending, Clear
    <3>2. OneRotation' /\ OneKeyPerVersion'
      BY <1>0, <2>1, <2>5 DEF OneRotation, OneKeyPerVersion, Clear
    <3>3. QED
      BY <3>1, <3>2 DEF EnrolInv, EnrolFacts
  <2>6. CASE /\ host' = [host EXCEPT ![h].version = v]
             /\ handouts' = handouts \/ handouts' = handouts \cup {k}
    <3>1. /\ host' \in [HostIds -> [token : Tokens \cup {None}, version : Nat]]
          /\ \A g \in HostIds : host'[g].token = host[g].token
          /\ host'[h].version = v /\ \A g \in HostIds \ {h} : host'[g] = host[g]
      BY <1>0, <2>2, <2>6 DEF EnrolTypeOK
    <3>2. \A g \in HostIds : Clear(g)' <=> Clear(g)
      BY <2>1, <3>1 DEF Clear
    <3>3. EnrolTypeOK' /\ OneExchange'
      BY <1>0, <2>1, <2>2, <2>3, <2>6, <3>1 DEF EnrolTypeOK, OneExchange, Creating
    <3>4. HostFollowsToken'
      BY <1>0, <2>1, <3>1, <3>2 DEF HostFollowsToken
    <3>5. HostExists'
      <4>1. \A g \in HostIds : host[g].version >= 1 => host'[g].version >= 1
        BY <2>2, <3>1
      <4>2. host'[h].version >= 1
        BY <2>2, <3>1
      <4>3. QED
        BY <1>0, <2>1, <2>3, <2>6, <3>1, <4>1, <4>2 DEF HostExists, EnrolTypeOK, Exchanges, Rotations
    <3>6. FirstKeyPending'
      BY <1>0, <2>1, <2>2, <2>3, <2>6 DEF FirstKeyPending
    <3>7. OneRotation'
      BY <1>0, <2>1, <2>4, <3>1, <3>2 DEF OneRotation, EnrolTypeOK, Rotations
    <3>8. OneKeyPerVersion'
      <4> SUFFICES ASSUME NEW j \in handouts', Clear(j.host)'
                   PROVE  /\ j.version <= host'[j.host].version
                          /\ \A i \in handouts' : i.host = j.host /\ i.version = j.version => j = i
        BY DEF OneKeyPerVersion
      <4>1. j.host \in HostIds /\ j.version \in Nat
        BY <1>0, <2>2, <2>3, <2>6 DEF EnrolTypeOK
      <4>2. CASE j.host # h
        BY <1>0, <2>3, <2>6, <3>1, <3>2, <4>1, <4>2 DEF OneKeyPerVersion
      <4>3. CASE j.host = h
        <5>1. Clear(h) /\ host[h].version = v - 1
          BY <2>4, <3>2, <4>1, <4>3
        <5>2. \A i \in handouts : i.host = h => i.version <= v - 1 /\ i.version \in Nat
          BY <1>0, <5>1 DEF OneKeyPerVersion, EnrolTypeOK
        <5>3. \A i \in handouts : i.host = h => i.version < v
          BY <2>2, <5>2
        <5>4. j = k \/ j \in handouts
          BY <2>6
        <5>5. QED
          BY <1>0, <2>2, <2>3, <2>6, <3>1, <4>3, <5>1, <5>2, <5>3, <5>4 DEF OneKeyPerVersion
      <4>4. QED
        BY <4>2, <4>3
    <3>9. QED
      BY <3>3, <3>4, <3>5, <3>6, <3>7, <3>8 DEF EnrolInv, EnrolFacts
  <2>7. QED
    BY <2>1, <2>5, <2>6
<1>4. QED
  BY <1>1, <1>2, <1>3

(* What happens to tokens, to the agent and to the files of its machine.    *)
LEMMA MachineStep ==
    ASSUME EnrolInv,
           \/ \E t \in Tokens : CreateToken(t) \/ TokenExpires(t) \/ OperatorSetsToken(t)
           \/ AgentStoresKey \/ AgentStoresHost \/ AgentStops \/ OperatorRemovesKey
           \/ \E k \in handouts : OperatorInstallsKey(k)
           \/ \E x \in Requests : AgentStart(x)
    PROVE  EnrolInv'
<1>0. /\ EnrolTypeOK /\ EnrolFacts
      /\ OneExchange /\ HostFollowsToken /\ HostExists /\ FirstKeyPending /\ OneRotation /\ OneKeyPerVersion
  BY DEF EnrolInv, EnrolFacts
<1>1. ASSUME NEW t \in Tokens, CreateToken(t) \/ TokenExpires(t) PROVE EnrolInv'
  <2>1. /\ \E new \in {"fresh", "expired"} : token' = [token EXCEPT ![t] = new]
        /\ token[t] # "used" /\ UNCHANGED <<host, exchanges, rotations, handouts, blurred, agent, files>>
    BY <1>1 DEF CreateToken, TokenExpires
  <2>2. \A u \in Tokens : token'[u] = "used" <=> token[u] = "used"
    BY <1>0, <2>1 DEF EnrolTypeOK
  <2>3. EnrolTypeOK'
    BY <1>0, <2>1 DEF EnrolTypeOK
  <2>4. OneExchange'
    BY <1>0, <2>1, <2>2 DEF OneExchange, EnrolTypeOK, Exchanges
  <2>5. HostFollowsToken'
    BY <1>0, <2>1, <2>2 DEF HostFollowsToken, Clear
  <2>6. HostExists' /\ FirstKeyPending' /\ OneRotation' /\ OneKeyPerVersion'
    BY <1>0, <2>1 DEF HostExists, FirstKeyPending, OneRotation, OneKeyPerVersion, Clear
  <2>7. QED
    BY <2>3, <2>4, <2>5, <2>6 DEF EnrolInv, EnrolFacts
<1>2. ASSUME UNCHANGED <<token, host, exchanges, rotations, handouts, blurred>>,
             agent' \in AgentStates, files' \in Files
      PROVE  EnrolInv'
  <2>1. EnrolTypeOK'
    BY <1>0, <1>2 DEF EnrolTypeOK
  <2>2. QED
    BY <1>0, <1>2, <2>1, FactsKept DEF EnrolInv
<1>3. Off \in AgentStates /\ agent \in AgentStates /\ files \in Files
  BY <1>0 DEF Off, AgentStates, EnrolTypeOK
<1>4. ASSUME NEW t \in Tokens, OperatorSetsToken(t) PROVE EnrolInv'
  <2>1. files' \in Files
    BY <1>3, <1>4 DEF OperatorSetsToken, Files
  <2>2. QED
    BY <1>2, <1>3, <1>4, <2>1 DEF OperatorSetsToken
<1>5. CASE AgentStoresKey
  <2>1. files' \in Files
    BY <1>3, <1>5 DEF AgentStoresKey, Files, AgentStates
  <2>2. agent' \in AgentStates
    BY <1>3, <1>5 DEF AgentStoresKey, AgentStates
  <2>3. QED
    BY <1>2, <1>5, <2>1, <2>2 DEF AgentStoresKey
<1>6. CASE AgentStoresHost
  <2>1. files' \in Files
    BY <1>3, <1>6 DEF AgentStoresHost, Files, AgentStates
  <2>2. agent' \in AgentStates
    BY <1>3, <1>6 DEF AgentStoresHost, AgentStates
  <2>3. QED
    BY <1>2, <1>6, <2>1, <2>2 DEF AgentStoresHost
<1>7. CASE AgentStops
  BY <1>2, <1>3, <1>7 DEF AgentStops
<1>8. CASE OperatorRemovesKey
  <2>1. files' \in Files
    BY <1>3, <1>8 DEF OperatorRemovesKey, Files
  <2>2. QED
    BY <1>2, <1>3, <1>8, <2>1 DEF OperatorRemovesKey
<1>9. ASSUME NEW k \in handouts, OperatorInstallsKey(k) PROVE EnrolInv'
  <2> DEFINE old == files.key
             v == k.version
  <2>1. v \in Nat /\ old \in AgentKeys /\ files' = [files EXCEPT !.key.version = v]
    BY <1>0, <1>3, <1>9 DEF OperatorInstallsKey, EnrolTypeOK, Files
  <2>2. [old EXCEPT !.version = v] \in AgentKeys
    <3> HIDE DEF old, v
    <3>1. QED
      BY <2>1 DEF AgentKeys
  <2>3. files' = [files EXCEPT !.key = [old EXCEPT !.version = v]]
    BY <2>1
  <2> DEFINE new == [old EXCEPT !.version = v]
  <2> HIDE DEF new
  <2>4. files' \in Files
    BY <1>3, <2>2, <2>3 DEF Files, new
  <2>5. QED
    BY <1>2, <1>3, <1>9, <2>4 DEF OperatorInstallsKey
<1>10. ASSUME NEW x \in Requests, AgentStart(x) PROVE EnrolInv'
  <2>1. UNCHANGED <<token, host, rotations, handouts, blurred, files>>
    BY <1>10 DEF AgentStart
  <2>2. CASE UNCHANGED exchanges /\ agent' = [phase |-> "running", key |-> files.key,
                                              host |-> files.host, exchange |-> None]
    <3>1. agent' \in AgentStates
      BY <1>3, <2>2 DEF AgentStates, Files
    <3>2. QED
      BY <1>2, <1>3, <2>1, <2>2, <3>1
  <2>3. CASE /\ files.token # None /\ agent' = [Off EXCEPT !.phase = "pairing", !.exchange = x]
             /\ exchanges' = exchanges \cup {[id |-> x, token |-> files.token, pc |-> "read", host |-> None]}
    <3> DEFINE y == [id |-> x, token |-> files.token, pc |-> "read", host |-> None]
    <3>1. agent' \in AgentStates
      BY <1>3, <2>3 DEF AgentStates, Off
    <3>2. y \in Exchanges /\ y.pc = "read" /\ y.host = None
      BY <1>3, <2>3 DEF Files, Exchanges
    <3>3. exchanges' = exchanges \cup {y}
      BY <2>3
    <3> HIDE DEF y
    <3>4. EnrolTypeOK'
      BY <1>0, <2>1, <3>1, <3>2, <3>3 DEF EnrolTypeOK
    <3>5. OneExchange'
      BY <1>0, <2>1, <3>2, <3>3 DEF OneExchange, Creating
    <3>6. HostFollowsToken'
      BY <1>0, <2>1, <3>3 DEF HostFollowsToken, Clear
    <3>7. HostExists' /\ FirstKeyPending'
      BY <1>0, <2>1, <3>2, <3>3 DEF HostExists, FirstKeyPending
    <3>8. OneRotation' /\ OneKeyPerVersion'
      BY <1>0, <2>1 DEF OneRotation, OneKeyPerVersion, Clear
    <3>9. QED
      BY <3>4, <3>5, <3>6, <3>7, <3>8 DEF EnrolInv, EnrolFacts
  <2>4. QED
    BY <1>10, <2>2, <2>3 DEF AgentStart
<1>11. QED
  BY <1>1, <1>4, <1>5, <1>6, <1>7, <1>8, <1>9, <1>10

(* Of all the keys ever given to hosts made from one token the guard        *)
(* accepts at most one (OneKeyPerToken), unless exchanges of the token or   *)
(* rotations of its host overlapped or an exchange was cut off.             *)
THEOREM KeysAreNotShared == Spec => []OneKeyPerToken
<1>1. Init => EnrolInv
  <2> SUFFICES ASSUME Init PROVE EnrolInv
    OBVIOUS
  <2>1. /\ token = [t \in Tokens |-> "none"] /\ host = [h \in HostIds |-> NoHost]
        /\ exchanges = {} /\ rotations = {} /\ handouts = {} /\ blurred = {}
        /\ agent = Off /\ files = [token |-> None, key |-> None, host |-> None]
    BY DEF Init, EnrolmentInit
  <2>2. NoHost \in [token : Tokens \cup {None}, version : Nat] /\ NoHost.token = None
    BY DEF NoHost
  <2>3. Off \in AgentStates /\ files \in Files
    BY <2>1 DEF Off, AgentStates, Files
  <2> HIDE DEF NoHost, Off
  <2>4. EnrolTypeOK
    BY <2>1, <2>2, <2>3 DEF EnrolTypeOK
  <2>5. \A h \in HostIds : ~Clear(h) /\ host[h].token = None
    BY <2>1, <2>2, EnrolmentAssumption DEF Clear
  <2>6. EnrolFacts
    BY <2>1, <2>5 DEF EnrolFacts, OneExchange, HostFollowsToken, HostExists, FirstKeyPending,
       OneRotation, OneKeyPerVersion
  <2>7. QED
    BY <2>4, <2>6 DEF EnrolInv
<1>2. EnrolInv /\ [Next]_vars => EnrolInv'
  <2> SUFFICES ASSUME EnrolInv, [Next]_vars PROVE EnrolInv'
    OBVIOUS
  <2>1. CASE UNCHANGED enrolmentVars
    <3>1. EnrolTypeOK' /\ EnrolFacts'
      BY <2>1, FactsKept DEF enrolmentVars, EnrolInv, EnrolTypeOK
    <3>2. QED
      BY <3>1 DEF EnrolInv
  <2>2. CASE HostRequest
    BY <2>2, HostChangeStep, MachineStep DEF HostRequest
  <2>3. CASE HostStep
    BY <2>3, HostChangeStep, MachineStep, PairStep DEF HostStep
  <2>4. CASE Start
    BY <2>4, MachineStep DEF Start
  <2>5. QED
    BY <2>1, <2>2, <2>3, <2>4 DEF Next, AccountRequest, AccountStep, vars
<1>3. EnrolInv => OneKeyPerToken
  <2> SUFFICES ASSUME EnrolInv, NEW t \in Tokens \ blurred, NEW j \in handouts, NEW k \in handouts,
                      \A i \in {j, k} : host[i.host].token = t /\ VerifyAgentKey(i)
               PROVE  j = k
    BY DEF OneKeyPerToken
  <2>1. j.host \in HostIds /\ k.host \in HostIds /\ Clear(j.host) /\ Clear(k.host)
    BY DEF EnrolInv, EnrolTypeOK, Clear
  <2>2. j.host = k.host
    BY <2>1 DEF EnrolInv, EnrolFacts, HostFollowsToken
  <2>3. j.version = k.version
    BY <2>2 DEF VerifyAgentKey
  <2>4. QED
    BY <2>1, <2>2, <2>3 DEF EnrolInv, EnrolFacts, OneKeyPerVersion
<1>4. QED
  BY <1>1, <1>2, <1>3, PTL DEF Spec
=============================================================================
