CONSTANTS
  n1 = n1  n2 = n2  me = me  you = you  video = video
  s1 = s1  s2 = s2  h1 = h1  h2 = h2
  Notes = {n1, n2}
  Lists = {me, you, video}
  mine <- Mine
  of <- Of
  Servers = {s1, s2}
  Handlers = {h1, h2}
  Scenes <- OneOrTwo
  Backlog = 1
  MaxId = 3
  None = None
SPECIFICATION FairSpec
INVARIANTS AnsweredAreSaved HashesAgree
PROPERTIES NotesGetSaved
CHECK_DEADLOCK FALSE
