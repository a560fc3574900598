SPECIFICATION IdSpec
CONSTANTS
  Hosts = {p1, p2}
  Threads = {t1, t2, t3}
  home <- Homes
  BatchSize = 2
  MaxSeed = 8
  Mishaps = TRUE
  Free = Free
  p1 = p1
  p2 = p2
  t1 = t1
  t2 = t2
  t3 = t3
INVARIANTS NeverTwice SpaceIsLoaded
