CONSTANTS
  c1 = c1  c2 = c2  c3 = c3  k1 = k1  k2 = k2  p1 = p1  p2 = p2
  Classes = {c1, c2, c3}
  Courses = {k1, k2}
  Procs = {p1, p2}
  Scenes <- Catalogs
  None = None
SPECIFICATION Spec
SYMMETRY Symmetric
INVARIANTS SubClassesAgree ClassesAreFound CourseLeadsToClass
