------------------------- MODULE MCClassMeetings --------------------------
(* Small instances of ClassMeetings. *)
EXTENDS ClassMeetings, TLC

CONSTANTS m1, m2, p1, p2

Some(ops, ids, fails) ==
  [ops |-> ops, ids |-> ids, fails |-> fails, times |-> {0}, copied |-> {}, targets |-> {}]

Lifecycle == {"add", "end", "trash", "destroy"}

\* Every call of the life of one meeting, any of which may fail; the calls that
\* rewrite the lists, on two meetings; and the ends of two meetings.
Life  == Some(Lifecycle, {m1}, TRUE)
Lists == Some({"add", "trash", "destroy"}, {m1, m2}, FALSE)
Ends  == Some({"add", "end"}, {m1, m2}, FALSE)

\* A meeting is moved from one time to another; two are, and both made to start as
\* one of them; one is made to end as the other; each is made an ally; one is
\* copied and deleted; and one is copied, and the copy gets the lists once more.
Moves  == [Some({"add", "trash", "change"}, {m1}, TRUE) EXCEPT !.times = {0, 1}]
SyncStarts == [Some({"change", "sync"}, {m1, m2}, FALSE)
              EXCEPT !.times = {0, 1}, !.copied = {{"start"}}, !.targets = {<<m2, m1>>}]
SyncEnds  == [Some({"end", "sync"}, {m1, m2}, FALSE) EXCEPT !.copied = {{"ended"}}, !.targets = {<<m2>>}]
Allies == Some({"ally"}, {m1, m2}, FALSE)
Copies == Some({"copy", "trash"}, {m1, m2}, FALSE)
SyncCopies == [Some({"copy", "sync"}, {m1, m2}, TRUE) EXCEPT !.copied = {{"items"}}, !.targets = {<<m2>>}]

OneOrTwo == [life |-> Life, lists |-> Lists, ends |-> Ends, moves |-> Moves, syncStarts |-> SyncStarts,
             syncEnds |-> SyncEnds, allies |-> Allies, copies |-> Copies, syncCopies |-> SyncCopies]

Symmetric == Permutations(Procs)
=============================================================================
