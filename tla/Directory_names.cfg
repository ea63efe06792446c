\* Two rows and two names, so that labels collide.
SPECIFICATION Spec
CONSTANTS
  ada = ada
  bob = bob
  cy = cy
  Users = {ada, bob, cy}
  Admin = ada
  Watchers = {}
  ChannelIds = {i1, i2}
  Names = {n1, n2}
  Tasks = {t1, t2}
  MinRole = "user"
  MaxVersion = 2
  Absent = Absent
  NoId = NoId
  NoRequest = NoRequest
SYMMETRY UserSymmetry
INVARIANTS DmIsOne DmFound
PROPERTIES ImplementsNames
CHECK_DEADLOCK FALSE
