CONSTANTS
  s1 = s1  s2 = s2  g1 = g1  i1 = i1  i2 = i2  e1 = e1  e2 = e2  q1 = q1  q2 = q2  p1 = p1  p2 = p2
  Students = {s1}
  Guests = {}
  Items = {i1}
  Exams = {e1, e2}
  Questions = {q1, q2}
  Seconds <- Beats
  Procs = {p1, p2}
  Scenes <- Exams2
  MaxAttendees = 3
  MayFail = FALSE
  None = None
SPECIFICATION Spec
SYMMETRY Symmetric
INVARIANT ExamsCountOnce
