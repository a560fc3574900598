--------------------------- MODULE MCClassRoster ---------------------------
(* Small instances of ClassRoster: the calls the handlers may receive.      *)
EXTENDS ClassRoster, TLC

CONSTANTS u1, u2, c1, c2, m1, m2, p1, p2

Calls(ops, us, cs, roles, adds) ==
  [op: ops, user: us, class: cs, role: roles, add: adds]

\* A user joins and leaves a class in either role and joins another one, while
\* the first is deleted: every pair of calls on the same rows.
OneUser == Calls({"change"}, {u1}, {c1}, {"student", "teacher"}, BOOLEAN)
           \union Calls({"change"}, {u1}, {c2}, {"student"}, {TRUE})
           \union Calls({"drop"}, {u1}, {c1}, {"student"}, {TRUE})

\* A few calls of every kind, for the liveness run.
Mixed == Calls({"change"}, {u1}, {c1, c2}, {"student"}, {TRUE})
         \union Calls({"change"}, {u1}, {c1}, {"student"}, {FALSE})
         \union Calls({"meet", "drop", "open"}, {u1}, {c1}, {"student"}, {TRUE})

Symmetric == Permutations(Procs)
=============================================================================
