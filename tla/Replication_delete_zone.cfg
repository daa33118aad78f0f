SPECIFICATION LiveSpec
CONSTANTS
  z1 = z1
  z2 = z2
  v1 = v1
  v2 = v2
  u1 = u1
  Zones = {z1}
  Labels = {"@", "w"}
  RTypes = {"ns", "a"}
  Values = {v1, v2}
  Imports <- MCImports
  Apex = "@"
  NS = "ns"
  NSValue = v1
  NoId = NoId
  Users = {u1}
  Clients = {"c1"}
  MaxRevision = 2
  BatchSize = 1
  Requests <- DeletedZone
PROPERTIES EventuallyApplied
