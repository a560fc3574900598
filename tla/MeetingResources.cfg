CONSTANTS
  k1 = k1  k2 = k2  v1 = v1  v2 = v2  p1 = p1  p2 = p2
  Kinds = {"video", "replay", "exam", "courseware"}
  Keys = {k1, k2}
  Values = {v1, v2}
  Procs = {p1, p2}
  Scenes <- Lists3
  MayFail = TRUE
  None = None
SPECIFICATION Spec
SYMMETRY Symmetric
INVARIANTS ListedOnce AnswersHold CacheFollowsDatabase
