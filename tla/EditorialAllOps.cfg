SPECIFICATION Spec
CONSTANTS
  Files = {1}
  Texts = {t}
  Zonings = {z1, z2}
  Users = {ed, eic}
  NoUser = NoUser
  MaxVersion = 3
  Senior = {eic}
  Admins = {eic}
  r1 = r1
  r2 = r2
  Requests = {r1}
  Nobody = Nobody
  NoFile = NoFile
  Absent = Absent
  NoHash = NoHash
  NoRecord = NoRecord
  Ops = {"upload", "update", "delete", "zones", "manual", "rollback", "delete_version", "assign", "submit", "reject", "publish", "direct_publish", "unpublish"}
  ManualMax = 1
  MaxFaults = 0
  Slack = 1
INVARIANTS
  TypeOK
  StampsAgree
  SnapshotMatchesHash
PROPERTIES
  ReviewFreeze
SYMMETRY ZoningSymmetry
