CONSTANTS
  d1 = d1  d2 = d2  p1 = p1  p2 = p2  n1 = n1  n2 = n2  s1 = s1  i1 = i1  i2 = i2  f1 = f1  f2 = f2  c1 = c1  c2 = c2  t1 = t1  g1 = g1  g2 = g2
  k1 = k1  k2 = k2  w1 = w1  w2 = w2
  Keepers = {k1, k2}
  Wards = {w1, w2}
  Charges <- FirstCharges
  Users = {1, 2, 3}
  First = 1
  Admin <- Root
  Clients = {d1, d2}
  AppOf <- DeviceOf
  Guests = {100, 101, 102}
  Names = {n1, n2}
  Passwords = {"w1", "w2", "w3"}
  Nicknames = {"k1", "k2"}
  Students = {s1}
  Invitations = {i1, i2}
  Coupons = {c1, c2}
  Teachers = {t1}
  Phones = {f1, f2}
  Entries = {1, 2, 3}
  Questions = {1, 2}
  MaxFinished = 3
  Exams = {1}
  GdExams = {g1, g2}
  Procs = {p1, p2}
  Scenes <- AllScenes
  None = None
SPECIFICATION Spec
SYMMETRY Symmetric
CHECK_DEADLOCK FALSE
INVARIANTS SessionsStay HashFollowsRow OneUserEach RegistrationsHold CataloguesAgree IssuesAreSettled PapersMatchAnswers KeepersAgree
