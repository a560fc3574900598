-------------------------- MODULE StudentProgress --------------------------
(***************************************************************************)
(* What a student does in one meeting: MeetingService.SetCoursewareProgress,*)
(* SetVideoProgress, SetReplayProgress, SetMeetingProgress, LeaveMeeting,  *)
(* ScoreMeeting, AnswerExam and AnswerExamQuestion, with the GetMeeting and *)
(* GetUserProgress they begin with.                                        *)
(*                                                                         *)
(* A student has a row in TABLE_USER_MEETING and a hash in the cache.  An  *)
(* experience student (a guest) has the hash only, and it expires.  Some   *)
(* columns are written in a transaction that has locked the row, some by   *)
(* one UPDATE after an unlocked check, the cache in between or after: the  *)
(* properties say what that protects, and what it does not.                *)
(***************************************************************************)
EXTENDS Integers, FiniteSets

CONSTANTS
  Students, Guests,
  Items,        \* coursewares and videos of the meeting
  Exams,        \* exams of the meeting
  Questions,    \* their subjective questions
  Seconds,      \* what a heartbeat may report
  Procs,        \* request handlers
  Scenes,       \* named types of meeting with sets of calls that come together
  MaxAttendees, \* bound on the attendee counter
  MayFail,      \* whether a statement, a cache call or a handler may fail
  None

Users == Students \union Guests
Marks == {-1, 0} \union Seconds
Ops   == {"courseware", "video", "replay", "beat", "leave", "score", "exam", "question"}

\* item, exam, question and seconds matter to the calls that have them.
Request == [op: Ops, user: Users, item: Items, exam: Exams, question: Questions, seconds: Marks]

Progress == [seen: SUBSET Items, mark: Marks, replay: BOOLEAN, scored: BOOLEAN,
             exams: SUBSET Exams, total: Nat]

Counts == [attendees: Nat, scores: Nat]

ASSUME SecondsAreIntegers == Seconds \subseteq Int
ASSUME ScenesAreScenes    ==
  /\ DOMAIN Scenes # {}
  /\ \A s \in DOMAIN Scenes :
       /\ Scenes[s].teaching \in BOOLEAN /\ Scenes[s].calls \subseteq Request /\ Scenes[s].calls # {}
       /\ ~({"courseware", "video"} \subseteq {r.op : r \in Scenes[s].calls})
       /\ \A r \in Scenes[s].calls : r.op = "leave" => r.seconds \in {-1, 0}
ASSUME NoneIsNoHash       == None \notin Progress \union Counts \union Procs
ASSUME NoGuestIsStudent   == Students \intersect Guests = {}
ASSUME FinitelyMany       == IsFiniteSet(Exams) /\ IsFiniteSet(Users) /\ IsFiniteSet(Procs)
ASSUME FlagsAreFlags      == MayFail \in BOOLEAN /\ MaxAttendees \in Nat

VARIABLES
  scene,    \* the type of the meeting (TEACHING or OFFLINE) and the calls the
            \* clients make, by name: always the same
  row,      \* committed TABLE_USER_MEETING rows of the students
  meeting,  \* committed TABLE_MEETING row: attendees and number of scores
  hash,     \* progress hashes that NewUserMeetingProgressInfoFromMap accepts
  cMeeting, \* the meeting's hash
  temp,     \* hash of the subjective answers not yet submitted
  kept,     \* <<user, question>> in a TABLE_USER_EXAM row
  filed,    \* <<user, exam>> keys of TABLE_USER_EXAM
  heard,    \* users whose feedback is in the TABLE_MEETING_FEEDBACK row
  lockR, lockM, \* row locks: of a student's row, of the meeting
  pc, req,
  seen,     \* what the handler has read: GetMeeting's counts, GetUserProgress's
            \* progress, then ScoreMeeting's tally
  tx,       \* the row a transaction will commit
  answers,  \* the subjective answers saveExamAnswers has read
  resat,    \* history: <<user, exam>> answered again and counted again
  rescored, \* history: students whose score was counted again
  missed,   \* history: users who attend and whose count was lost
  unheard,  \* history: users whose feedback was lost
  unfiled,  \* history: <<user, exam>> graded, and never filed
  given,    \* history: <<user, question>> answered
  late,     \* history: those given while a submission was being saved
  taint     \* history: cache keys written out of order with the database

db      == <<scene, row, meeting, kept, filed, heard>>
cache   == <<hash, cMeeting, temp>>
locks   == <<lockR, lockM>>
local   == <<req, seen, tx, answers>>
history == <<resat, rescored, missed, unheard, unfiled, given, late, taint>>
vars    == <<db, cache, locks, pc, local, history>>

Blank      == [seen |-> {}, mark |-> 0, replay |-> FALSE, scored |-> FALSE,
               exams |-> {}, total |-> 0]
NoCounts   == [attendees |-> 0, scores |-> 0]
AnyRequest == CHOOSE r \in UNION {Scenes[s].calls : s \in DOMAIN Scenes} : TRUE
Teaching   == Scenes[scene].teaching

Goto(p, label) == pc' = [pc EXCEPT ![p] = label]

Return(p) ==
  /\ Goto(p, "idle")
  /\ req'     = [req EXCEPT ![p] = AnyRequest]
  /\ seen'    = [seen EXCEPT ![p] = Blank]
  /\ tx'      = [tx EXCEPT ![p] = Blank]
  /\ answers' = [answers EXCEPT ![p] = {}]

\* HMSET of some fields of a hash: a hash that is not complete stays so.
Update(h, field, v) == IF h = None THEN None ELSE [h EXCEPT ![field] = v]

SetField(u, field, v) == hash' = [hash EXCEPT ![u] = Update(hash[u], field, v)]

Init ==
  /\ scene \in DOMAIN Scenes
  /\ row = [u \in Students |-> Blank] /\ meeting = NoCounts
  /\ \E cached \in SUBSET (Students \intersect {r.user : r \in Scenes[scene].calls}) :
       hash = [u \in Users |-> IF u \in cached THEN Blank ELSE None]
  /\ cMeeting \in {None, NoCounts}
  /\ temp = [u \in Users |-> {}] /\ kept = {} /\ filed = {} /\ heard = {}
  /\ lockR = [u \in Students |-> None] /\ lockM = None
  /\ pc      = [p \in Procs |-> "idle"]
  /\ req     = [p \in Procs |-> AnyRequest]
  /\ seen    = [p \in Procs |-> Blank]
  /\ tx      = [p \in Procs |-> Blank]
  /\ answers = [p \in Procs |-> {}]
  /\ resat = {} /\ rescored = {} /\ missed = {} /\ unheard = {} /\ unfiled = {}
  /\ given = {} /\ late = {} /\ taint = {}

Holds(p, label, ops) == pc[p] = label /\ req[p].op \in ops

-----------------------------------------------------------------------------
(* GetMeeting, which every call but SetReplayProgress and                  *)
(* AnswerExamQuestion begins with, and GetUserProgress.                    *)

\* The bound on the attendees is a bound on the heartbeats that arrive.
Room == meeting.attendees + Cardinality(Procs) <= MaxAttendees

Call(p) ==
  /\ pc[p] = "idle"
  /\ \E r \in Scenes[scene].calls :
       /\ r.op = "beat" => Room
       /\ req' = [req EXCEPT ![p] = r]
       /\ Goto(p, CASE r.op = "replay" -> "look" [] r.op = "question" -> "do" [] OTHER -> "get")
  /\ UNCHANGED <<db, cache, locks, seen, tx, answers, history>>

AfterMeeting(p) == Goto(p, IF req[p].op = "leave" THEN "do" ELSE "look")

MeetingHit(p) ==
  /\ pc[p] = "get" /\ cMeeting # None /\ AfterMeeting(p)
  /\ UNCHANGED <<db, cache, locks, local, history>>

MeetingMiss(p) ==
  /\ pc[p] = "get" /\ cMeeting = None /\ Goto(p, "fillMeeting")
  /\ seen' = [seen EXCEPT ![p] = meeting]
  /\ UNCHANGED <<db, cache, locks, req, tx, answers, history>>

MeetingFill(p) ==
  /\ pc[p] = "fillMeeting" /\ AfterMeeting(p)
  /\ cMeeting' = seen[p] /\ seen' = [seen EXCEPT ![p] = Blank]
  /\ taint' = IF seen[p] = meeting /\ lockM = None THEN taint ELSE taint \union {"meeting"}
  /\ UNCHANGED <<db, hash, temp, locks, req, tx, answers,
                 resat, rescored, missed, unheard, unfiled, given, late>>

\* The call is refused: no authority, a closed meeting, an unknown resource.
Refuse(p) ==
  /\ pc[p] \in {"get", "look"} /\ Return(p)
  /\ UNCHANGED <<db, cache, locks, history>>

ProgressHit(p) ==
  LET u == req[p].user IN
  /\ pc[p] = "look" /\ hash[u] # None /\ Goto(p, "do")
  /\ seen' = [seen EXCEPT ![p] = hash[u]]
  /\ UNCHANGED <<db, cache, locks, req, tx, answers, history>>

\* A guest gets a blank hash, a student the row the database has.
ProgressGuest(p) ==
  LET u == req[p].user IN
  /\ pc[p] = "look" /\ hash[u] = None /\ u \in Guests /\ Goto(p, "do")
  /\ seen' = [seen EXCEPT ![p] = Blank]
  /\ hash' = [hash EXCEPT ![u] = Blank]
  /\ UNCHANGED <<db, cMeeting, temp, locks, req, tx, answers, history>>

ProgressMiss(p) ==
  LET u == req[p].user IN
  /\ pc[p] = "look" /\ hash[u] = None /\ u \in Students /\ Goto(p, "fill")
  /\ seen' = [seen EXCEPT ![p] = row[u]]
  /\ UNCHANGED <<db, cache, locks, req, tx, answers, history>>

ProgressFill(p) ==
  LET u == req[p].user IN
  /\ pc[p] = "fill" /\ Goto(p, "do")
  /\ hash' = [hash EXCEPT ![u] = seen[p]]
  /\ taint' = IF seen[p] = row[u] /\ lockR[u] = None THEN taint ELSE taint \union {u}
  /\ UNCHANGED <<db, cMeeting, temp, locks, local,
                 resat, rescored, missed, unheard, unfiled, given, late>>

\* The hash of a guest lives twelve hours.
Expire(u) ==
  /\ u \in Guests /\ hash[u] # None /\ hash' = [hash EXCEPT ![u] = None]
  /\ UNCHANGED <<db, cMeeting, temp, locks, pc, local, history>>

-----------------------------------------------------------------------------
(* SetCoursewareProgress and SetVideoProgress: nearly the same steps, on   *)
(* two maps.  The set of items is one of them: a scene has calls of one.   *)

Marking(p, label) == Holds(p, label, {"courseware", "video"})

MarkSkip(p) ==
  /\ Marking(p, "do") /\ req[p].item \in seen[p].seen /\ Return(p)
  /\ UNCHANGED <<db, cache, locks, history>>

\* The map a guest had when it was read, and the new item.
MarkGuest(p) ==
  LET r == req[p] IN
  /\ Marking(p, "do") /\ r.user \in Guests /\ r.item \notin seen[p].seen /\ Return(p)
  /\ SetField(r.user, "seen", seen[p].seen \union {r.item})
  /\ UNCHANGED <<db, cMeeting, temp, locks, history>>

\* Mutant: the SELECT has lost its FOR UPDATE.
MarkRowUnlocked(p) ==
  LET r   == req[p]
      new == row[r.user].seen \union {r.item}
  IN
  /\ Marking(p, "do") /\ r.user \in Students /\ r.item \notin seen[p].seen
  /\ SetField(r.user, "seen", new) /\ Goto(p, "commit")
  /\ tx' = [tx EXCEPT ![p] = [row[r.user] EXCEPT !.seen = new]]
  /\ UNCHANGED <<db, cMeeting, temp, locks, req, seen, answers, history>>

\* SELECT ... FOR UPDATE, UPDATE, SetFields.  An item that is there already, with
\* the time of the same second, is left alone: SetCoursewareProgress writes the
\* list it found to the cache, and rolls its transaction back.
MarkRow(p) ==
  LET r   == req[p]
      new == row[r.user].seen \union {r.item}
  IN
  /\ Marking(p, "do") /\ r.user \in Students /\ r.item \notin seen[p].seen
  /\ lockR[r.user] = None
  /\ SetField(r.user, "seen", new)
  /\ \/ r.op = "courseware" /\ r.item \in row[r.user].seen /\ Return(p) /\ UNCHANGED lockR
     \/ /\ lockR' = [lockR EXCEPT ![r.user] = p] /\ Goto(p, "commit")
        /\ tx'    = [tx EXCEPT ![p] = [row[r.user] EXCEPT !.seen = new]]
        /\ UNCHANGED <<req, seen, answers>>
  /\ UNCHANGED <<db, cMeeting, temp, lockM, history>>

\* SetVideoProgress rolls back first, and has only the list it found.
MarkFound(p) ==
  LET r == req[p] IN
  /\ Holds(p, "do", {"video"}) /\ r.user \in Students /\ r.item \notin seen[p].seen
  /\ lockR[r.user] = None /\ r.item \in row[r.user].seen /\ Goto(p, "cacheSeen")
  /\ seen' = [seen EXCEPT ![p].seen = row[r.user].seen]
  /\ UNCHANGED <<db, cache, locks, req, tx, answers, history>>

\* The row, as whoever has locked it will commit it.
Base(u) == IF lockR[u] = None THEN row[u] ELSE tx[lockR[u]]

\* SetFields without the lock: the list may be an older one by now.
MarkCache(p) ==
  LET u == req[p].user IN
  /\ Holds(p, "cacheSeen", {"video"}) /\ Return(p)
  /\ SetField(u, "seen", seen[p].seen)
  /\ taint' = IF seen[p].seen = Base(u).seen THEN taint ELSE taint \union {u}
  /\ UNCHANGED <<db, cMeeting, temp, locks,
                 resat, rescored, missed, unheard, unfiled, given, late>>

\* COMMIT of a transaction on one row.
CommitRow(p) ==
  LET u == req[p].user IN
  /\ row'   = [row EXCEPT ![u] = tx[p]]
  /\ lockR' = [lockR EXCEPT ![u] = None]

MarkCommit(p) ==
  /\ Marking(p, "commit") /\ CommitRow(p) /\ Return(p)
  /\ UNCHANGED <<scene, meeting, kept, filed, heard, cache, lockM, history>>

-----------------------------------------------------------------------------
(* SetReplayProgress: one UPDATE, then the cache.                          *)

ReplaySkip(p) ==
  /\ Holds(p, "do", {"replay"}) /\ seen[p].replay /\ Return(p)
  /\ UNCHANGED <<db, cache, locks, history>>

ReplayRow(p) ==
  LET u == req[p].user IN
  /\ Holds(p, "do", {"replay"}) /\ ~seen[p].replay /\ Goto(p, "cacheReplay")
  /\ IF u \in Students
     THEN lockR[u] = None /\ row' = [row EXCEPT ![u].replay = TRUE]
     ELSE UNCHANGED row
  /\ UNCHANGED <<scene, meeting, kept, filed, heard, cache, locks, local, history>>

ReplayCache(p) ==
  /\ Holds(p, "cacheReplay", {"replay"}) /\ Return(p)
  /\ SetField(req[p].user, "replay", TRUE)
  /\ UNCHANGED <<db, cMeeting, temp, locks, history>>

-----------------------------------------------------------------------------
(* SetMeetingProgress and LeaveMeeting: one UPDATE, then the cache, then,  *)
(* the first time, the attendee counter in the database and in the cache.  *)

Beating(p, label) == Holds(p, label, {"beat", "leave"})

\* A heartbeat of a teaching meeting that is not ahead of the last one.
BeatSkip(p) ==
  /\ Holds(p, "do", {"beat"}) /\ Teaching
  /\ req[p].seconds > 0 /\ seen[p].mark >= req[p].seconds
  /\ Return(p)
  /\ UNCHANGED <<db, cache, locks, history>>

\* Mutant: only a mark of 0 is taken for a first time.
FirstTimeZero(p) ==
  /\ req[p].op = "beat" /\ seen[p].mark = 0
  /\ IF Teaching THEN req[p].seconds > 0 ELSE req[p].seconds < -1 \/ req[p].seconds > 0

FirstTime(p) ==
  /\ req[p].op = "beat" /\ seen[p].mark <= 0
  /\ IF Teaching THEN req[p].seconds > 0 ELSE req[p].seconds < -1 \/ req[p].seconds > 0

BeatRow(p) ==
  LET r == req[p] IN
  /\ Beating(p, "do")
  /\ ~(r.op = "beat" /\ Teaching /\ r.seconds > 0 /\ seen[p].mark >= r.seconds)
  /\ Goto(p, "cacheMark")
  /\ IF r.user \in Students
     THEN lockR[r.user] = None /\ row' = [row EXCEPT ![r.user].mark = r.seconds]
     ELSE UNCHANGED row
  /\ UNCHANGED <<scene, meeting, kept, filed, heard, cache, locks, local, history>>

BeatCache(p) ==
  LET r == req[p] IN
  /\ Beating(p, "cacheMark")
  /\ SetField(r.user, "mark", r.seconds)
  /\ taint' = IF r.user \in Students /\ row[r.user].mark # r.seconds
              THEN taint \union {r.user} ELSE taint
  /\ IF FirstTime(p) THEN Goto(p, "count") /\ UNCHANGED local ELSE Return(p)
  /\ UNCHANGED <<db, cMeeting, temp, locks, resat, rescored, missed, unheard, unfiled, given, late>>

CountRow(p) ==
  /\ Beating(p, "count") /\ lockM = None /\ Goto(p, "countCache")
  /\ meeting' = [meeting EXCEPT !.attendees = @ + 1]
  /\ UNCHANGED <<scene, row, kept, filed, heard, cache, locks, local, history>>

\* Mutant: the counter of the hash is left as it was.
CountCacheForgets(p) ==
  /\ Beating(p, "countCache") /\ Return(p)
  /\ UNCHANGED <<db, cache, locks, history>>

CountCache(p) ==
  /\ Beating(p, "countCache") /\ Return(p)
  /\ cMeeting' = IF cMeeting = None THEN None ELSE [cMeeting EXCEPT !.attendees = @ + 1]
  /\ UNCHANGED <<db, hash, temp, locks, history>>

-----------------------------------------------------------------------------
(* ScoreMeeting: the student's row and the meeting's, in one transaction.  *)

Scoring(p, label) == Holds(p, label, {"score"})

\* ERR_DUPLICATED_SCORE, by what GetUserProgress returned.
ScoreSkip(p) ==
  /\ Scoring(p, "do") /\ seen[p].scored /\ Return(p)
  /\ UNCHANGED <<db, cache, locks, history>>

\* The score of a guest is not kept, its feedback is.
ScoreGuest(p) ==
  /\ Scoring(p, "do") /\ ~seen[p].scored /\ req[p].user \in Guests /\ Goto(p, "feedback")
  /\ UNCHANGED <<db, cache, locks, local, history>>

ScoreRow(p) ==
  LET u == req[p].user IN
  /\ Scoring(p, "do") /\ u \in Students /\ ~seen[p].scored /\ lockR[u] = None
  /\ lockR' = [lockR EXCEPT ![u] = p] /\ Goto(p, "tally")
  /\ tx'    = [tx EXCEPT ![p] = [row[u] EXCEPT !.scored = TRUE]]
  /\ SetField(u, "scored", TRUE)
  /\ UNCHANGED <<db, cMeeting, temp, lockM, req, seen, answers, history>>

\* Mutant: the tally is read without FOR UPDATE.
ScoreMeetingUnlocked(p) ==
  /\ Scoring(p, "tally") /\ Goto(p, "commit")
  /\ seen' = [seen EXCEPT ![p] = [meeting EXCEPT !.scores = @ + 1]]
  /\ cMeeting' = Update(cMeeting, "scores", meeting.scores + 1)
  /\ UNCHANGED <<db, hash, temp, locks, req, tx, answers, history>>

ScoreMeeting(p) ==
  /\ Scoring(p, "tally") /\ lockM = None /\ lockM' = p /\ Goto(p, "commit")
  /\ seen' = [seen EXCEPT ![p] = [meeting EXCEPT !.scores = @ + 1]]
  /\ cMeeting' = Update(cMeeting, "scores", meeting.scores + 1)
  /\ UNCHANGED <<db, hash, temp, lockR, req, tx, answers, history>>

ScoreCommit(p) ==
  LET u == req[p].user IN
  /\ Scoring(p, "commit") /\ CommitRow(p) /\ Goto(p, "feedback") /\ lockM' = None
  /\ meeting' = [meeting EXCEPT !.scores = seen[p].scores]
  /\ tx' = [tx EXCEPT ![p] = Blank]
  /\ rescored' = IF row[u].scored THEN rescored \union {u} ELSE rescored
  /\ UNCHANGED <<scene, kept, filed, heard, cache, req, seen, answers,
                 resat, missed, unheard, unfiled, given, late, taint>>

\* Mutant: the feedback is inserted, and not appended to the row that is there.
FeedbackFirst(p) ==
  /\ Scoring(p, "feedback") /\ Return(p)
  /\ heard' = IF heard = {} THEN {req[p].user} ELSE heard
  /\ UNCHANGED <<scene, row, meeting, kept, filed, cache, locks, history>>

\* INSERT of the meeting's feedback row or, if there is one, CONCAT to it.
Feedback(p) ==
  /\ Scoring(p, "feedback") /\ Return(p)
  /\ heard' = heard \union {req[p].user}
  /\ UNCHANGED <<scene, row, meeting, kept, filed, cache, locks, history>>

-----------------------------------------------------------------------------
(* AnswerExam grades the objective answers in a transaction on the row,    *)
(* then saveExamAnswers files them with the subjective ones, which         *)
(* AnswerExamQuestion has left in the cache.                               *)

Sitting(p, label) == Holds(p, label, {"exam"})

\* ERR_DUPLICATED_ANSWER, by what GetUserProgress returned; a guest has no row.
ExamSkip(p) ==
  LET r == req[p] IN
  /\ Sitting(p, "do") /\ (r.exam \in seen[p].exams \/ r.user \in Guests) /\ Return(p)
  /\ UNCHANGED <<db, cache, locks, history>>

\* Mutant: the total is added to the one GetUserProgress returned.
ExamRowCachedTotal(p) ==
  LET r   == req[p]
      new == [row[r.user] EXCEPT !.exams = @ \union {r.exam}, !.total = seen[p].total + 1]
  IN
  /\ Sitting(p, "do") /\ r.user \in Students /\ r.exam \notin seen[p].exams
  /\ lockR[r.user] = None /\ lockR' = [lockR EXCEPT ![r.user] = p] /\ Goto(p, "commit")
  /\ tx'    = [tx EXCEPT ![p] = new]
  /\ UNCHANGED <<db, cache, lockM, req, seen, answers, history>>

\* AddResourceToMap reports a change unless the exam is there with the same time
\* and the same result; then nothing is done, and the answers are filed again.
ExamRow(p) ==
  LET r   == req[p]
      new == [row[r.user] EXCEPT !.exams = @ \union {r.exam}, !.total = @ + 1]
  IN
  /\ Sitting(p, "do") /\ r.user \in Students /\ r.exam \notin seen[p].exams
  /\ lockR[r.user] = None
  /\ \/ /\ r.exam \in row[r.user].exams /\ Goto(p, "save") /\ UNCHANGED <<hash, lockR, tx>>
     \/ /\ lockR' = [lockR EXCEPT ![r.user] = p] /\ Goto(p, "commit")
        /\ tx'    = [tx EXCEPT ![p] = new]
        /\ hash'  = [hash EXCEPT ![r.user] =
                       IF @ = None THEN None
                       ELSE [@ EXCEPT !.exams = new.exams, !.total = new.total]]
  /\ UNCHANGED <<db, cMeeting, temp, lockM, req, seen, answers, history>>

ExamCommit(p) ==
  LET r == req[p] IN
  /\ Sitting(p, "commit") /\ CommitRow(p) /\ Goto(p, "save")
  /\ tx' = [tx EXCEPT ![p] = Blank]
  /\ resat' = IF r.exam \in row[r.user].exams THEN resat \union {<<r.user, r.exam>>} ELSE resat
  /\ UNCHANGED <<scene, meeting, kept, filed, heard, cache, lockM, req, seen, answers,
                 rescored, missed, unheard, unfiled, given, late, taint>>

\* Mutants: without subjective answers there is nothing to save; the answers are
\* deleted from the cache as soon as they are read.
SaveReadEmpty(p) ==
  /\ Sitting(p, "save")
  /\ IF temp[req[p].user] = {} THEN Return(p)
     ELSE /\ Goto(p, "store") /\ UNCHANGED <<req, seen, tx>>
          /\ answers' = [answers EXCEPT ![p] = temp[req[p].user]]
  /\ UNCHANGED <<db, cache, locks, history>>

SaveReadTakes(p) ==
  LET u == req[p].user IN
  /\ Sitting(p, "save") /\ Goto(p, "store")
  /\ answers' = [answers EXCEPT ![p] = temp[u]]
  /\ temp'    = [temp EXCEPT ![u] = {}]
  /\ UNCHANGED <<db, hash, cMeeting, locks, req, seen, tx, history>>

\* Every exam of the model has objective questions, so there is something to save.
SaveRead(p) ==
  /\ Sitting(p, "save") /\ Goto(p, "store")
  /\ answers' = [answers EXCEPT ![p] = temp[req[p].user]]
  /\ UNCHANGED <<db, cache, locks, req, seen, tx, history>>

\* INSERT: an exam that is filed already is a duplicate key, and the call fails.
SaveStore(p) ==
  LET r == req[p] IN
  /\ Sitting(p, "store")
  /\ IF <<r.user, r.exam>> \in filed
     THEN Return(p) /\ UNCHANGED <<kept, filed>>
     ELSE /\ Goto(p, "clear")
          /\ filed' = filed \union {<<r.user, r.exam>>}
          /\ kept'  = kept \union ({r.user} \X answers[p])
          /\ UNCHANGED local
  /\ UNCHANGED <<scene, row, meeting, heard, cache, locks, history>>

SaveClear(p) ==
  /\ Sitting(p, "clear") /\ Return(p)
  /\ temp' = [temp EXCEPT ![req[p].user] = {}]
  /\ UNCHANGED <<db, hash, cMeeting, locks, history>>

Submitting(u) == \E p \in Procs : req[p].user = u /\ pc[p] \in {"store", "clear"}

AnswerQuestion(p) ==
  LET u == req[p].user  answer == <<u, req[p].question>> IN
  /\ Holds(p, "do", {"question"}) /\ Return(p)
  /\ temp'  = [temp EXCEPT ![u] = @ \union {req[p].question}]
  /\ given' = given \union {answer}
  /\ late'  = IF Submitting(u) THEN late \union {answer} ELSE late
  /\ UNCHANGED <<db, hash, cMeeting, locks, resat, rescored, missed, unheard, unfiled, taint>>

-----------------------------------------------------------------------------
(* Failures.                                                               *)

\* A transaction that is rolled back leaves what it wrote in the cache.
Rollback(p) ==
  LET u == req[p].user IN
  /\ MayFail /\ pc[p] \in {"tally", "commit"} /\ Return(p)
  /\ lockR' = [lockR EXCEPT ![u] = None]
  /\ lockM' = IF lockM = p THEN None ELSE lockM
  /\ taint' = taint \union {u} \union (IF lockM = p THEN {"meeting"} ELSE {})
  /\ UNCHANGED <<db, cache, resat, rescored, missed, unheard, unfiled, given, late>>

\* A call that fails, or a handler that dies, after a write leaves the rest undone.
Abandon(p) ==
  LET r == req[p] IN
  /\ MayFail /\ Return(p)
  /\ pc[p] \in {"cacheSeen", "cacheReplay", "cacheMark", "count", "countCache",
                "feedback", "save", "store", "clear"}
  /\ missed'  = IF pc[p] \in {"cacheMark", "count"} /\ FirstTime(p) THEN missed \union {r.user} ELSE missed
  /\ unheard' = IF pc[p] = "feedback" THEN unheard \union {r.user} ELSE unheard
  /\ unfiled' = IF pc[p] \in {"save", "store"} THEN unfiled \union {<<r.user, r.exam>>} ELSE unfiled
  /\ taint'   = taint \union (IF pc[p] \in {"cacheReplay", "cacheMark"} THEN {r.user} ELSE {})
                      \union (IF pc[p] = "countCache" THEN {"meeting"} ELSE {})
  /\ UNCHANGED <<db, cache, locks, resat, rescored, given, late>>

-----------------------------------------------------------------------------

GetMeeting(p)      == MeetingHit(p) \/ MeetingMiss(p) \/ MeetingFill(p) \/ Refuse(p)
GetUserProgress(p) == ProgressHit(p) \/ ProgressGuest(p) \/ ProgressMiss(p) \/ ProgressFill(p)
Mark(p)   == MarkSkip(p) \/ MarkGuest(p) \/ MarkRow(p) \/ MarkFound(p) \/ MarkCache(p) \/ MarkCommit(p)
Replay(p) == ReplaySkip(p) \/ ReplayRow(p) \/ ReplayCache(p)
Beat(p)   == BeatSkip(p) \/ BeatRow(p) \/ BeatCache(p) \/ CountRow(p) \/ CountCache(p)
Score(p)  == ScoreSkip(p) \/ ScoreGuest(p) \/ ScoreRow(p) \/ ScoreMeeting(p) \/ ScoreCommit(p)
             \/ Feedback(p)
Exam(p)   == ExamSkip(p) \/ ExamRow(p) \/ ExamCommit(p) \/ SaveRead(p) \/ SaveStore(p)
             \/ SaveClear(p) \/ AnswerQuestion(p)

Serve(p) == GetMeeting(p) \/ GetUserProgress(p) \/ Mark(p) \/ Replay(p) \/ Beat(p) \/ Score(p) \/ Exam(p)

Next == \/ \E p \in Procs : Call(p) \/ Serve(p) \/ Rollback(p) \/ Abandon(p)
        \/ \E u \in Guests : Expire(u)

Spec == Init /\ [][Next]_vars

-----------------------------------------------------------------------------
(* Properties                                                              *)

\* What a student has seen, answered, scored or replayed is never taken back,
\* however its own calls overlap, fail and are retried.
ProgressIsKept ==
  [][\A u \in Students :
       /\ row[u].seen \subseteq row'[u].seen /\ row[u].exams \subseteq row'[u].exams
       /\ row[u].replay => row'[u].replay
       /\ row[u].scored => row'[u].scored]_vars

\* The number of questions a student was graded on is that of the exams it sat,
\* unless an exam was counted again.
TotalsCountExams ==
  \A u \in Students :
    /\ row[u].total >= Cardinality(row[u].exams)
    /\ (\A e \in Exams : <<u, e>> \notin resat) => row[u].total = Cardinality(row[u].exams)

\* AnswerExam, before and inside its transaction, checks "whether this exam had
\* been answered before": then every exam is counted once.
ExamsCountOnce == \A u \in Students : row[u].total = Cardinality(row[u].exams)

\* Every score is in the meeting's tally, once unless two calls of the student
\* overlapped.
ScoresAreTallied ==
  LET scorers == {u \in Students : row[u].scored} IN
  /\ meeting.scores >= Cardinality(scorers)
  /\ rescored = {} => meeting.scores = Cardinality(scorers)

\* Whoever has scored has its feedback in the meeting's row, or a handler is
\* about to put it there, or that failed: a retry is refused as a duplicate.
ScorersAreHeard ==
  \A u \in Students : row[u].scored =>
    u \in heard \union unheard \/ \E p \in Procs : pc[p] = "feedback" /\ req[p].user = u

Present(mark) == mark > 0 \/ (~Teaching /\ mark < -1)

Attending(u) == IF u \in Students THEN Present(row[u].mark)
                ELSE hash[u] # None /\ Present(hash[u].mark)

\* Whoever attends a meeting has been counted or is about to be, unless
\* the call failed on the way; the counter may count a user again, never less.
AttendeesAreCounted ==
  Cardinality({u \in Users \ missed : Attending(u)}) <=
    meeting.attendees + Cardinality({p \in Procs : pc[p] \in {"cacheMark", "count"} /\ FirstTime(p)})

\* An exam that was graded has its answers filed, or a handler is about to file
\* them, or the call failed on the way: a retry is refused as a duplicate.
GradedAreFiled ==
  \A u \in Students : \A e \in row[u].exams :
    \/ <<u, e>> \in filed \union unfiled
    \/ \E p \in Procs : pc[p] \in {"save", "store"} /\ req[p].user = u /\ req[p].exam = e

\* A subjective answer waits in the cache until it is in the database, whatever
\* fails, unless it was given while a submission was being saved.
AnswersAreKept ==
  \A a \in given \ late : a[2] \in temp[a[1]] \/ a \in kept

\* Outside transactions and between calls a student's hash equals its row, and
\* the meeting's hash the meeting, unless a rollback, a failure, a late fill or a
\* list SetVideoProgress had found before came between (the keys in taint).
CacheFollowsDatabase ==
  /\ \A u \in Students :
       hash[u] # None /\ lockR[u] = None /\ u \notin taint =>
         \/ hash[u] = row[u]
         \/ \E p \in Procs : req[p].user = u /\ pc[p] \in {"cacheMark", "cacheReplay"}
  /\ cMeeting # None /\ lockM = None /\ "meeting" \notin taint =>
       cMeeting = meeting \/ \E p \in Procs : pc[p] = "countCache"

=============================================================================
