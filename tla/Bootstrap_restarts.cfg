\* Three starts, three registrations, all at once.
SPECIFICATION Spec
CONSTANTS
  Users = {u1, u2, u3}
  Names = {n1, n2, n3}
  Tasks = {t1, t2, t3}
  Keys = {k1, k2}
  EnvFiles <- AnyEnv
  Key = Key
  NewLine = NewLine
  NoUser = NoUser
  NoKey = NoKey
  Torn = Torn
  NoRequest = NoRequest
  MaxBoots = 3
SYMMETRY Symmetry
INVARIANTS TypeOK AdminHasAccount FirstStaysAdmin EnvStaysLoadable MessagesReadable
CHECK_DEADLOCK FALSE
