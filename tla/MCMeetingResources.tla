----------------------- MODULE MCMeetingResources -----------------------
(* A small instance of MeetingResources. *)
EXTENDS MeetingResources, TLC

CONSTANTS k1, k2, v1, v2, p1, p2

\* Orders that name a resource twice are for scenes of their own.
Orders(keys, most) == UNION {[1..n -> keys] : n \in 1..most}

CallsOn(kinds, keys, values, orders) ==
  {r \in [op : {"add", "delete", "arrange"}, kind : kinds, item : [key : keys, value : values],
          order : orders \union {<<>>}] : r \in Request}

Plain(keys) == {o \in Orders(keys, Cardinality(keys)) : Repeated(o) = {}}

\* Two videos, or two replays, that are added, deleted and arranged; an exam and
\* a courseware with two possible values each, on the same row and hash; two
\* exams of which arrangements name one twice.
Lists3 == [videos  |-> CallsOn({"video"}, {k1, k2}, {AnItem.value}, Plain({k1, k2})),
           replays |-> CallsOn({"replay"}, {k1, k2}, {AnItem.value}, {}),
           exams   |-> CallsOn({"exam", "courseware"}, {AnItem.key}, {v1, v2},
                               Plain({AnItem.key})),
           twice   |-> CallsOn({"exam"}, {k1, k2}, {AnItem.value}, {<<k1, k1>>, <<k2, k1, k2>>})]

Symmetric == Permutations(Procs)
=============================================================================
