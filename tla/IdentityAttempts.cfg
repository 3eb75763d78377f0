SPECIFICATION IdentitySpec
CONSTANTS
  Phones = {phone}
  DialPrefixes = {"0"}
  Requests = {r1, r2}
  MaxAttempts = 2
  MaxChallenges = 1
  MaxTokens = 0
  MaxPassword = 1
  NoUser = none
INVARIANTS
  NoAttemptLost
CHECK_DEADLOCK FALSE
