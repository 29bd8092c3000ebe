SPECIFICATION FairSpec

CONSTANTS
  u1 = u1
  u2 = u2
  own = own
  other = other
  User <- MCUser
  Case <- MCCase
  Lifetime = 3
  MaxFaults = 1

INVARIANTS
  SettledOnce
  ResultWhole
  OwnAccount

PROPERTIES
  LoginSettles
  LoginRecovers
  PromptsEnd

CHECK_DEADLOCK FALSE
