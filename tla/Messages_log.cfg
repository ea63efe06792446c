\* Two tasks send, sync, delete and drop in one text channel; pages of one or two.
SPECIFICATION Spec
CONSTANTS
  ada = ada
  bob = bob
  cy = cy
  town = town
  dm = dm
  Users = {ada}
  Admin = ada
  Channels = {town}
  DmChannels = {}
  Members <- MCMembers
  MsgIds = {m1, m2, m3, m4}
  Tasks = {t1, t2}
  Limits = {0, 3}
  MaxLimit = 2
  MaxSeq = 3
  NoTask = NoTask
  NoId = NoId
  NoRequest = NoRequest
  Newest = Newest
SYMMETRY Symmetry
INVARIANTS TypeOK ReservedSeqIsNext NoNumberSkipped NoOrphanRows HiddenOnlyByReuse NothingInvented
PROPERTY ImplementsLog
CHECK_DEADLOCK FALSE
