SPECIFICATION SignInSpec
CONSTANTS
    People = {ann, bob, eve}
    Admins = {ann, bob}
    Passwords = {p1, p2}
    NoPassword = NoPassword
    Tokens = {t1, t2}
    HostIds = {h1, h2}
    None = None
    Requests = {x1, x2}
    MaxRequests = 3
    MaxStarts = 2
    PlayerIds = {1, 2, 3}
    PortalPasswords = {p1, p2}
    Visitors = {x1, x2}
    MaxSessions = 2
    NoPlayer = NoPlayer
    Orgs = {"main", "other"}
    Oldest = "main"
    Integrations <- Columns
    Savers = {x1, x2}
INVARIANTS SessionsCurrent AdminKept OneKeyPerToken OneOwner IntegrationsWhole
CHECK_DEADLOCK FALSE
SYMMETRY Symmetry
