------------------------------ MODULE MCAccess ------------------------------
(* Operators and agents (Access) with their interchangeable values, the     *)
(* players' portal (Portal), which has accounts and sessions of its own,    *)
(* and the organisations' integrations (Settings): a behaviour follows one  *)
(* of them.  Passwords and requests are the same values in all.             *)
EXTENDS Access, Portal, Settings, TLC

VARIABLE side       \* the part that a behaviour follows

Symmetry ==
    Permutations(Admins) \cup Permutations(Passwords) \cup Permutations(Tokens)
      \cup Permutations(HostIds) \cup Permutations(Requests)

\* The second organisation has a captcha of its own, which the login page never shows.
Columns ==
    {<<"main", k>> : k \in {"recaptcha", "stripe", "kimi", "openai"}} \cup {<<"other", "recaptcha">>}

SignInInit ==
    /\ Init /\ PortalInit /\ SettingsInit
    /\ side \in {"access", "portal", "settings"}
    /\ side # "portal" => ~portalSet /\ \A i \in PlayerIds : player[i] = NoPlayer

SignInNext ==
    /\ side' = side
    /\ \/ side = "access" /\ Next /\ UNCHANGED <<portalVars, settingsVars>>
       \/ side = "portal" /\ PortalNext /\ UNCHANGED <<vars, settingsVars>>
       \/ side = "settings" /\ SettingsNext /\ UNCHANGED <<vars, portalVars>>

SignInSpec == SignInInit /\ [][SignInNext]_<<vars, portalVars, settingsVars, side>>
=============================================================================
