SPECIFICATION FairSpec
CONSTANTS
  Clients = {engine, admin}
  None = None
  RetryAfters = {1}
  NoHeader = NoHeader
  FallbackDelay = 2
  MaxTime = 3
  MaxRestarts = 1
  StoreMayFail = TRUE
INVARIANTS
  CooldownObeyed
PROPERTIES
  ImplementsCooldown
  CallsResume
