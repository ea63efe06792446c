\* A text channel and a DM the admin is no part of.
SPECIFICATION Spec
CONSTANTS
  ada = ada
  bob = bob
  cy = cy
  town = town
  dm = dm
  Users = {ada, bob, cy}
  Admin = ada
  Channels = {town, dm}
  DmChannels = {dm}
  Members <- MCMembers
  MsgIds = {m1}
  Tasks = {t1, t2}
  Limits = {1}
  MaxLimit = 1
  MaxSeq = 1
  NoTask = NoTask
  NoId = NoId
  NoRequest = NoRequest
  Newest = Newest
SYMMETRY Symmetry
INVARIANTS DmStaysPrivate
PROPERTY DmRemovedByAuthorOnly
CHECK_DEADLOCK FALSE
