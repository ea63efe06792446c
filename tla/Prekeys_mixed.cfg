\* A fetch and an upload of the same user.
SPECIFICATION Spec
CONSTANTS
  Users = {ada}
  Accounts = {a1, a2}
  PrekeyIds = {1, 2}
  Tasks = {t1, t2}
  NoTask = NoTask
  NoAccount = NoAccount
  NoKey = NoKey
  NoRequest = NoRequest
SYMMETRY Symmetry
INVARIANT ReplyIsOfOneAccount
CHECK_DEADLOCK FALSE
