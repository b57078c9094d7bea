SPECIFICATION Spec
CONSTANTS
  Files = {1}
  Texts = {t}
  Zonings = {z1, z2}
  Users = {eic}
  NoUser = NoUser
  MaxVersion = 3
  Senior = {eic}
  Admins = {eic}
  r1 = r1
  r2 = r2
  Requests = {r1}
  Nobody = Nobody
  NoFile = NoFile
  Absent = Absent
  NoHash = NoHash
  NoRecord = NoRecord
  Ops = {"upload", "update", "assign", "submit", "reject", "publish"}
  ManualMax = 1
  MaxFaults = 0
  Slack = 1
INVARIANTS
  PublicSeesLastPublication
