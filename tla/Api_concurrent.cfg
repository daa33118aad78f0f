SPECIFICATION ApiSpec
CONSTANTS
  z1 = z1
  v1 = v1
  v2 = v2
  u1 = u1
  Zones = {z1}
  Labels = {"@", "w"}
  RTypes = {"ns", "a"}
  Values = {v1, v2}
  Imports <- MCImports
  Apex = "@"
  NS = "ns"
  NSValue = v1
  NoId = NoId
  Users = {u1, u2}
  Clients = {"c1", "c2"}
  MaxRevision = 4
  Requests <- AllRequests
  u2 = u2
INVARIANTS ReferentialIntegrity
PROPERTIES OnlyOwnZonesChange OnlyImportsOrphan EventsDescribeRows
CHECK_DEADLOCK FALSE
