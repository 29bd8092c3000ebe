SPECIFICATION FairSpec

CONSTANT
  MaxGames = 2

INVARIANTS
  TypeOK
  InStep
  LoginIsComplete
  SecretsAgree

PROPERTIES
  ConnectSettles

CHECK_DEADLOCK FALSE
