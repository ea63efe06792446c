\* Two tasks, fair, with faults and crashes.
SPECIFICATION FairSpec
CONSTANTS
  ada = ada
  bob = bob
  cy = cy
  town = town
  dm = dm
  Users = {ada, bob}
  Admin = ada
  Channels = {town}
  DmChannels = {}
  Members <- MCMembers
  MsgIds = {m1}
  Tasks = {t1, t2}
  Limits = {1}
  MaxLimit = 1
  MaxSeq = 1
  NoTask = NoTask
  NoId = NoId
  NoRequest = NoRequest
  Newest = Newest
PROPERTIES EveryRequestEnds LockIsReleased
CHECK_DEADLOCK FALSE
