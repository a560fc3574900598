CONSTANTS
  m1 = m1  m2 = m2  p1 = p1  p2 = p2
  Meetings = {m1, m2}
  Times = {0, 1}
  Procs = {p1, p2}
  Scenes <- OneOrTwo
  MaxEnds = 3
  None = None
SPECIFICATION Spec
SYMMETRY Symmetric
INVARIANTS
  FinishedAreCounted ListedOrTrashed MeetingsAreReachable
  ScheduleIsCurrent CacheFollowsDatabase
