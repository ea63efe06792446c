\* One channel, and the client of a user who may be outside its DM.
SPECIFICATION Spec
CONSTANTS
  ada = ada
  bob = bob
  cy = cy
  Users = {ada, bob, cy}
  Admin = ada
  Watchers = {bob}
  ChannelIds = {i1}
  Names = {n1, n2}
  Tasks = {t1, t2}
  MinRole = "mod"
  MaxVersion = 3
  Absent = Absent
  NoId = NoId
  NoRequest = NoRequest
SYMMETRY Symmetry
INVARIANTS TypeOK FollowersTold DmUnseen
PROPERTIES StaffRename
CHECK_DEADLOCK FALSE
