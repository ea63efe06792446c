\* Three tasks fetch from the pools of two users, who upload twice in all.
SPECIFICATION Spec
CONSTANTS
  Users = {ada, bob}
  Accounts = {a1, a2}
  PrekeyIds = {1, 2}
  Tasks = {t1, t2, t3}
  NoTask = NoTask
  NoAccount = NoAccount
  NoKey = NoKey
  NoRequest = NoRequest
SYMMETRY Symmetry
INVARIANTS TypeOK NoKeyGivenTwice PoolIsOfBundle KeysConserved MixedOnlyByReplacement
PROPERTY ImplementsPool
CHECK_DEADLOCK FALSE
