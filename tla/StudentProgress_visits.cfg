CONSTANTS
  s1 = s1  s2 = s2  g1 = g1  i1 = i1  i2 = i2  e1 = e1  e2 = e2  q1 = q1  q2 = q2  p1 = p1  p2 = p2
  Students = {s1}
  Guests = {g1}
  Items = {i1, i2}
  Exams = {e1}
  Questions = {q1}
  Seconds <- Times
  Procs = {p1, p2}
  Scenes <- Visits
  MaxAttendees = 3
  MayFail = TRUE
  None = None
SPECIFICATION Spec
SYMMETRY Symmetric
INVARIANTS AttendeesAreCounted CacheFollowsDatabase
PROPERTY ProgressIsKept
