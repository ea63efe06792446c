\* One start, two registrations at once.
SPECIFICATION Spec
CONSTANTS
  Users = {u1, u2}
  Names = {n1, n2}
  Tasks = {t1, t2}
  Keys = {k1, k2}
  EnvFiles <- NoLine
  Key = Key
  NewLine = NewLine
  NoUser = NoUser
  NoKey = NoKey
  Torn = Torn
  NoRequest = NoRequest
  MaxBoots = 1
SYMMETRY Symmetry
INVARIANT FirstUserIsAdmin
CHECK_DEADLOCK FALSE
