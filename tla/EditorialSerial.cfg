SPECIFICATION Spec
CONSTANTS
  Files = {1, 2}
  Texts = {t}
  Zonings = {z1, z2}
  Users = {ed, eic}
  NoUser = NoUser
  MaxVersion = 2
  Senior = {eic}
  Admins = {eic}
  r1 = r1
  r2 = r2
  Requests = {r1}
  Nobody = Nobody
  NoFile = NoFile
  Absent = Absent
  NoHash = NoHash
  NoRecord = NoRecord
  Ops = {"zip", "assign", "submit", "reject", "publish", "unpublish"}
  ManualMax = 1
  MaxFaults = 0
  Slack = 1
PROPERTIES
  PublishedIsOnRecord
SYMMETRY ZoningSymmetry
