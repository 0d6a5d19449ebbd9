SPECIFICATION Spec
CONSTANTS
  Users = {u1, u2}
  Requests = {h1, h2}
  NoUser = noUser
  Admin = admin
  Dispatchers = {d1, d2}
  NumChunks = 2
  MaxRequests = 3
  MaxDisturbances = 1
  MaxDeletions = 1
SYMMETRY Symmetry
CHECK_DEADLOCK FALSE
INVARIANTS TypeOK UploadedIsStored CompletedIsWhole LeftoversHaveARecord CompletedIsPursued
