CONSTANTS
  u1 = u1  u2 = u2  c1 = c1  c2 = c2  m1 = m1  m2 = m2  p1 = p1  p2 = p2
  Users = {u1}
  Classes = {c1, c2}
  Meetings = {}
  Procs = {p1, p2}
  Requests <- OneUser
  Failing = {"change", "meet", "drop", "open"}
  None = None
SPECIFICATION Spec
SYMMETRY Symmetric
INVARIANTS EnrolledAreListed ListedAreEnrolled DeletedAreUnlisted CacheFollowsDatabase
