CONSTANTS
  u1 = u1  u2 = u2  c1 = c1  c2 = c2  m1 = m1  m2 = m2  p1 = p1  p2 = p2
  Users = {u1}
  Classes = {c1, c2}
  Meetings = {m1}
  Procs = {p1, p2}
  Requests <- Mixed
  Failing = {"meet"}
  None = None
SPECIFICATION FairSpec
INVARIANT TransactionsHoldTheirRows
PROPERTIES NewStudentHasProgress RostersChangeAtomically CallsReturn
