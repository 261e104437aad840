\* One user, two clicks or disturbances, with one call in flight before each at most.
SPECIFICATION FairSpec
CONSTANTS
  FirstPages <- StartPages
  ExpiringPages = {"dashboard", "ingestors"}
  Disturbance = {"others", "fault", "minute", "expire"}
  Patience = 1
  MaxRenewals = 2
  MaxEvents = 2
\* The run is over when the clicks are.
CHECK_DEADLOCK FALSE
INVARIANTS
  TypeOK
  OwnChangesShow
  
  StoredTokenLives
  SignedOutForAReason
  
PROPERTIES
  PagesLoad
