\* A login that meets a ban.
SPECIFICATION Spec
CONSTANTS
  ada = ada
  bob = bob
  cy = cy
  Users = {ada, bob, cy}
  Admin = ada
  SessionIds = {s1, s2}
  LoginLife = 1
  RefreshLife = 2
  MaxTime = 2
  MaxChanges <- MCChanges
  MaxBans <- MCBans
  Tasks = {t1, t2}
  NoTask = NoTask
  NoId = NoId
  NoRequest = NoRequest
  NoOrigin = NoOrigin
SYMMETRY Symmetry
INVARIANT BannedCannotLogIn
CHECK_DEADLOCK FALSE
