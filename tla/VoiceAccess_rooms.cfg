SPECIFICATION AccessSpec
CONSTANTS
  Operators <- MCOperators
  Chars <- MCChars
  Dash = "-"
  Name <- MCName
  User <- MCUser
  SlugLength = 2
  Digest <- MCDigest
  DigestLength = 1
  Servers <- MCServers
  ClaimSets <- MCClaimSets
  MaxTokens = 2
  MaxSessions = 1
INVARIANT PrivateRooms
INVARIANT OnlyAuthorisedBeamline
INVARIANT ActionsNeedTheRole
