------------------------- MODULE MCStudentProgress -------------------------
(* Small instances of StudentProgress: the calls the handlers may receive.  *)
EXTENDS StudentProgress, TLC

CONSTANTS s1, s2, g1, i1, i2, e1, e2, q1, q2, p1, p2

Calls(ops, users, items, exams, questions, seconds) ==
  [op: ops, user: users, item: items, exam: exams, question: questions, seconds: seconds]

\* A student and a guest open coursewares; the guest's score is not kept, its
\* feedback is.
Reading == Calls({"courseware"}, {s1, g1}, Items, {e1}, {q1}, {0})
           \union Calls({"score"}, {g1}, {i1}, {e1}, {q1}, {0})

\* A student opens videos and the replay.
Watching == Calls({"video", "replay"}, {s1}, Items, {e1}, {q1}, {0})

\* A student and a guest send heartbeats and leave; the student may also cancel.
Attending1 == Calls({"beat"}, {s1}, {i1}, {e1}, {q1}, {1, 2})
              \union Calls({"beat"}, {g1}, {i1}, {e1}, {q1}, {1})
              \union Calls({"leave"}, {s1, g1}, {i1}, {e1}, {q1}, {-1})
              \union Calls({"leave"}, {s1}, {i1}, {e1}, {q1}, {0})

\* A student comes to an offline meeting, which is left at a negative time.
Offline == Calls({"beat"}, {s1}, {i1}, {e1}, {q1}, {-2, 1})
           \union Calls({"leave"}, {s1}, {i1}, {e1}, {q1}, {-1, 0})

\* Two students score the meeting, one of them sends heartbeats.
Scoring2 == Calls({"score"}, {s1, s2}, {i1}, {e1}, {q1}, {0})
            \union Calls({"beat"}, {s1}, {i1}, {e1}, {q1}, {1})

\* A student sits two exams, answering subjective questions beforehand.
Sitting2 == Calls({"exam"}, {s1}, {i1}, Exams, {q1}, {0})
            \union Calls({"question"}, {s1}, {i1}, {e1}, Questions, {0})

Scene(teaching, calls) == [teaching |-> teaching, calls |-> calls]

Visits  == [read |-> Scene(TRUE, Reading), watch |-> Scene(TRUE, Watching), attend |-> Scene(TRUE, Attending1),
            offline |-> Scene(FALSE, Offline)]
Answers == [score |-> Scene(TRUE, Scoring2), sit |-> Scene(TRUE, Sitting2)]
Exams2  == [sit |-> Scene(TRUE, Sitting2)]

Beats == {1, 2}
Times == {-2, 1, 2}

Symmetric == Permutations(Procs)
=============================================================================
