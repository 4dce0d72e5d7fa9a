SPECIFICATION ShopSpec
INVARIANTS LedgerAddsUp GrantsCapped SettledWasGiven CatalogueKept 
SYMMETRY Symmetry
CONSTANTS
  h1 = h1  h2 = h2
  Amount = 3
  Items = {1, 2}
  Givable = {1}
  Handlers = {h1, h2}
  MaxAttempts = 2
  MaxFailures = 2
  Articles = {1, 2}
  Prices = {1, 2}
  Editors = {h1, h2}
  StripeAccounts = {"s1"}
  MaxItems = 2
  MaxEdits = 3
  NoRow = NoRow
  TriggerIds = {1}
  Movers = {h1, h2}
  Targets = {1, 2}
  MaxPlayed = 2
  MaxSwitches = 3
  Unset = Unset
  Gone = Gone
CHECK_DEADLOCK FALSE
