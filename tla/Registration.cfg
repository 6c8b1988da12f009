CONSTANTS
  c1 = c1
  a1 = a1
  Configs = {c1}
  Accounts = {a1}
  AccountOf <- MCAccountOf
  RegisterOnlyWhenUp = TRUE
  MaxRetry = 2
  MaxOps = 2
  MaxEvents = 1
  MaxChanges = 2
  MaxEntries = 2
SPECIFICATION Spec
INVARIANTS
  RegistrationInv
  NoneIsForgotten
  OkIsCurrent
PROPERTIES
  RegistrationConcludes
CHECK_DEADLOCK FALSE
