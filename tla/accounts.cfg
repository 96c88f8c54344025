CONSTANTS
  w1 = w1
  w2 = w2
  ada = ada
  ben = ben
  People = {ada, ben}
  Founder = ada
  Workers = {w1, w2}
  Keepers = {ben}
  Lesser = {"editor"}
  MaxInvites = 1
  MAX_TOTP_ATTEMPTS = 1
  RECOVERY_CODE_COUNT = 1
  MaxSecrets = 2
  MaxSets = 2
  MaxChallenges = 2
  MaxStep = 1
  Addresses = {"ada"}
  Chosen = {"old", "new"}
  MaxLinks = 2
  MaxCrashes = 1
SPECIFICATION SmallSpec
SYMMETRY Symmetry
INVARIANTS AlwaysAnOwner OwnersCarryAFactor MembersLeaveForGood SecondFactorHolds PasswordsHold
CHECK_DEADLOCK FALSE
