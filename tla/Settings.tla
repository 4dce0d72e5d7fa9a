------------------------------ MODULE Settings ------------------------------
(***************************************************************************)
(* The integrations of each organisation: credentials stored in columns of *)
(* its row.  "open" is the part of an integration a browser may see (a site *)
(* key, a sending domain) or, for Stripe, the webhook's signing secret;     *)
(* "secret" is its encrypted key.  A save may leave the secret out when one *)
(* is stored: the check reads the row, and the write comes later.           *)
(***************************************************************************)
EXTENDS Naturals, FiniteSets

CONSTANTS
    Orgs,           \* organisations; any signed-in user may create one
    Oldest,         \* the one that was created first
    Integrations,   \* those that are configured in the model, as <<org, kind>>
    Savers          \* requests about settings, one at a time each

ASSUME SettingsAssumption ==
    /\ Oldest \in Orgs
    /\ Integrations \subseteq
           Orgs \X {"recaptcha", "mailgun", "stripe", "openai", "kimi", "cloudflare",
                    "digitalocean", "maintenance", "discord"}

VARIABLES
    settings,       \* the parts of each integration that are stored
    provider,       \* modAiProvider of each organisation
    saving,         \* requests that have been checked and not yet written
    overlapped      \* two such requests were in progress at once

settingsVars == <<settings, provider, saving, overlapped>>

NoSave == [op |-> "none"]
Kind(i) == i[2]
Secret(i) == i \in Integrations /\ "secret" \in settings[i]

SettingsInit ==
    /\ settings = [i \in Integrations |-> {}] /\ provider = [o \in Orgs |-> "codex"]
    /\ saving = [x \in Savers |-> NoSave] /\ overlapped = FALSE

\* What a save of each integration may contain; where it may leave the secret
\* out, SecretKnown compares it with the row.
SaveRecaptchaSettings == {{"open"}, {"open", "secret"}}
SaveMailgunSettings == {{"open"}, {"open", "secret"}}
SaveStripeSettings == {{"open"}, {"secret"}, {"open", "secret"}}
SaveModelSettings == {{}, {"secret"}}
SaveToken == {{"secret"}}
UpdateOrg == {{"secret"}}

Given(i) ==
    CASE Kind(i) = "recaptcha" -> SaveRecaptchaSettings
      [] Kind(i) = "mailgun" -> SaveMailgunSettings
      [] Kind(i) = "stripe" -> SaveStripeSettings
      [] Kind(i) \in {"openai", "kimi"} -> SaveModelSettings
      [] Kind(i) = "discord" -> UpdateOrg
      [] OTHER -> SaveToken

\* Mutant: a save without the secret is not compared with what is stored.
SecretKnown_Unchecked(i, given) == TRUE

\* The secret is in the request or in the row that was read.
SecretKnown(i, given) == "secret" \in given \/ Secret(i)

\* A request of an administrator of the organisation is admitted; everyone else is refused.
SettingsRequest(x, role, r) ==
    /\ role = "admin" /\ saving[x] = NoSave
    /\ saving' = [saving EXCEPT ![x] = r]
    /\ overlapped' = (overlapped \/ \E y \in Savers \ {x} : saving[y] # NoSave)
    /\ UNCHANGED <<settings, provider>>

\* save...Settings: the row is read and the request checked.
SaveReads(x, role, i, given) ==
    /\ given \in Given(i) /\ SecretKnown(i, given)
    /\ SettingsRequest(x, role, [op |-> "save", of |-> i, parts |-> given])

\* selectModAiProvider wants a key of the provider.
SelectReads(x, role, o, p) ==
    /\ Secret(<<o, IF p = "kimi" THEN "kimi" ELSE "openai">>)
    /\ SettingsRequest(x, role, [op |-> "select", of |-> <<o, p>>, parts |-> {}])

\* The write touches the columns that were given.
SaveWrites(x) ==
    /\ saving[x].op = "save"
    /\ settings' = [settings EXCEPT ![saving[x].of] = @ \cup saving[x].parts]
    /\ saving' = [saving EXCEPT ![x] = NoSave]
    /\ UNCHANGED <<provider, overlapped>>

SelectWrites(x) ==
    /\ saving[x].op = "select"
    /\ provider' = [provider EXCEPT ![saving[x].of[1]] = saving[x].of[2]]
    /\ saving' = [saving EXCEPT ![x] = NoSave]
    /\ UNCHANGED <<settings, overlapped>>

\* Removing the key of Kimi goes back to Codex.
ProviderAfterClear(i) ==
    IF Kind(i) = "kimi" THEN [provider EXCEPT ![i[1]] = "codex"] ELSE provider

\* clear...Settings: one write, with nothing to check.  The Discord address is
\* cleared by updateOrg with an empty one.
ClearSettings(role, i) ==
    /\ role = "admin"
    /\ settings' = [settings EXCEPT ![i] = {}]
    /\ provider' = ProviderAfterClear(i)
    /\ overlapped' = (overlapped \/ \E y \in Savers : saving[y] # NoSave)
    /\ UNCHANGED saving

SettingsNext ==
    \/ \E x \in Savers, role \in {"admin", "operator"} :
          \/ \E i \in Integrations, given \in SUBSET {"open", "secret"} : SaveReads(x, role, i, given)
          \/ \E o \in Orgs, p \in {"codex", "kimi"} : SelectReads(x, role, o, p)
    \/ \E x \in Savers : SaveWrites(x) \/ SelectWrites(x)
    \/ \E role \in {"admin", "operator"}, i \in Integrations : ClearSettings(role, i)

SettingsSpec == SettingsInit /\ [][SettingsNext]_settingsVars

-----------------------------------------------------------------------------
(* Who uses the settings                                                   *)

\* getOrg: what the settings page calls configured.
Configured(i) ==
    IF Kind(i) \in {"recaptcha", "mailgun"} THEN settings[i] = {"open", "secret"} ELSE Secret(i)

\* The login page asks before it knows who signs in: it shows the captcha of the oldest
\* organisation if that is configured.  Login asks for the captcha of an organisation of the
\* user, or of any one for an unknown address, when its secret alone is there.
CaptchaOffered == <<Oldest, "recaptcha">> \in Integrations /\ Configured(<<Oldest, "recaptcha">>)
CaptchaEnforced(o) == Secret(<<o, "recaptcha">>)

\* ModAiService.edit goes to the selected provider, which needs its key.  Codex is the
\* default and may lack one; Kimi has to be selected.
EditPossible(o) == provider[o] = "kimi" => Secret(<<o, "kimi">>)

\* Whatever requests overlap, an organisation whose captcha login enforces has the site key
\* to show it with, so that members of the oldest one are asked for no captcha that the
\* login page does not show (members of another may be: page and login read different rows).
\* As long as no two requests overlapped, an integration that has its open part has its
\* secret, so that what is stored is what the settings page calls configured, and Kimi is
\* selected only while it has a key.
IntegrationsWhole ==
    /\ \A o \in Orgs : CaptchaEnforced(o) =>
           Configured(<<o, "recaptcha">>) /\ (o = Oldest => CaptchaOffered)
    /\ ~overlapped => /\ \A o \in Orgs : EditPossible(o)
                      /\ \A i \in Integrations : settings[i] # {} => Configured(i)
=============================================================================
