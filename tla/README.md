# Specifications of protwo

TLA+ models of the programs in this repository, the TLC runs that check them on small instances, and theorems that
TLAPS proves for every instance.

The repository is a collection of Go programs. **gdun**, an online platform for classes, meetings, exams and notes,
holds two thirds of the code and nearly all of its state; **smrpc** is a micro-service gateway with utilities;
**chatroom**, **distributed-cloud** and **designModel** are small programs; **rpcx-examples** shows a third-party RPC
library. There are no tests, and no document besides the README of rpcx-examples: the code and its comments are the
reference.

## 1. The system

### gdun

`server/elementary/server.go` builds one `*Database` (MySQL, InnoDB), one `*Cache` (a Redis cluster) and one object per
service, and registers HTTP handlers. A request runs in a goroutine of its own: it checks the session, parses its
parameters, and calls services. Services keep no state in memory, with two exceptions (the workers of notes and of
transcoding), so everything that interacts is in the rows and the hashes. The same database and cache may be shared by
several server processes.

The services follow one pattern, and nearly every property below is about it.

1. *Read*: `GetX` reads a hash; if it is missing or incomplete it reads the row **and fills the hash**, without a lock.
2. *Check*: permissions, duplicates and states are checked on what was read.
3. *Write*: a transaction selects a row `FOR UPDATE`, computes a comma separated list, updates the row, **writes the
   hash, then commits**; or one `UPDATE` changes the row with no check, and the hash is written after it.
4. *More*: many calls repeat 3 for other rows and other tables, in commits of their own.

What makes this hard: handlers interleave between any two of these steps; what was read in 1 is used in 3; the hash can
be ahead of the row (before a commit that fails), behind it (a late fill), or partial (`HMSET` on a hash that has
expired); some state is in the cache alone (sessions, indices, visitors, the lists of a group's classes); a call that
fails, or a process that dies, leaves the first of several commits done.

| component | state | operations | what makes it correct |
|---|---|---|---|
| rosters (`class_user.go`, `class.go`) | class row: teachers, students, meetings; class list of each user; progress rows; two hashes | ChangeUser, AddMeeting, DeleteClass, GetClass, GetUserClassRelation | class and user agree about membership; new students have progress rows; deleted classes vanish |
| classes and packages (`class.go`, `class_sub.go`) | class rows and hashes; list of the group's classes; index of Gd courses; data of packages and parents | AddClass, CloneClass, import, ChangeClass, EndClass, DeleteClass, SetAlly, AddSubClass, DeleteSubClass, look-ups | package and class name each other; every class can be found; a course has one class |
| keepers (`class_user.go`) | a row and a field for each keeper; a text in the class's row and hash | ChangeKeeperStudentRelation, RefreshKeeperList, GetAssociatedStudentsForKeeper | rows, fields and text agree |
| meetings of a class (`class_meeting.go`, `meeting.go`) | lists, trash, counter of finished meetings and schedule of a class; meeting rows and hashes | AddMeeting, ChangeMeeting, EndMeeting, DeleteMeeting, DeleteMeetingPermanently, CopyMeetingTo, SyncMeeting, ChangeMeetingAlly, UpdateMeetingTime | the counter counts; a meeting is in one list; no row is out of reach; the schedule is current |
| resources (`meeting_{video,courseware,exam,replay}.go`) | four lists in the meeting's row and hash | Add*, Delete*, ArrangeResource | a resource is listed once; what was answered holds |
| progress (`meeting_student.go`, `meeting_exam.go`) | row and hash per student and meeting; counters of the meeting; feedback; filed answers | Set*Progress, SetMeetingProgress, LeaveMeeting, ScoreMeeting, AnswerExam, AnswerExamQuestion | nothing a student did is lost; totals, tallies and files match the rows |
| notes (`note.go`) | two hashes and two rows per note; a channel and a worker per server | AddNote, DeleteNote, GetMyNote, GetTypedNote | what was answered reaches the database; the hashes agree; deleted notes go |
| issues (`issue.go`) | a row and a hash per issue; the hash of the open ones and the text of the finished ones | Ask, Answer | an issue is open, or finished once with the answer of its row |
| exams (`exam.go`) | exam rows and hashes, papers in the object store, cached question ids | Import, import anew, Resync, GetExam, GetIssueResource | what is graded is what was given out |
| users and sessions (`user*.go`, `session*.go`) | user rows and hashes, indices of names and of Gd students, invitations; one hash of tokens per user | Register, Login, the session checks, ChangePassword, ChangeProfile, AddGdStudent, invitations | one user per name, student and invitation; a client stays logged in; hash and row agree |
| visitors (`class_user_experience*.go`) | invitations by token or by channel, ids of phone numbers, ends of visits, logs | register, login, offers | a registration holds |
| groups, subjects, tags (`group.go`, `subject.go`, `tag.go`) | rows, hashes, texts made of the hashes, subject lists of groups | Add, Change, Delete, Query | row, hash and text agree |
| videos (`video*.go`), adapter (`gd_*.go`) | tickets; a partner's database | authorize, query | none of their own |
| transcoding (`transcoding*.go`) | status keys, unbuffered channel, one worker | AddFile | a file is converted once |
| log (`log/log.go`) | map of loggers, bounded channel, one writer each | GetLogger, Info..., Close | one writer per file; messages are written |
| static files (`net/wss`) | a map of cached files | GET | - |

### The other programs

* **smrpc**: `idgenerator` (ids in batches from a row, shared by processes), `limit` (token bucket in Redis),
  `rabbitmq`, `mysql` and `redis` wrappers, a gateway that forwards HTTP to rpcx services, stateless utilities.
* **chatroom**: one goroutine per TCP connection, a map of online users, users in Redis, length-prefixed messages.
* **distributed-cloud**: uploads into a map, a directory and a table. **designModel**: producers and consumers.

`PROJECT.json` lists all components with their status, and under `hazards` the places where the code can go wrong in a
way a test would hardly reach, each with the properties that watch it. The list is of the modelled programs. Known
hazards of the others: `log.go:67` checks under the read lock and creates under the write lock without checking again;
the chat server's goroutines share `userMgr.go:12`'s map without a lock; `limit_rel.go:40` reads the tokens and writes
them back in separate commands; `rabbitmq.go:73` ignores the error of a publication and consumes with automatic
acknowledgement.

## 2. The modules

| module | models | instance |
|---|---|---|
| `Enrollment` | abstract: rosters that change atomically | refined by ClassRoster |
| `ClassRoster` | rosters | `MCClassRoster` |
| `ClassRoster_proofs` | theorems about ClassRoster | |
| `ClassCatalog` | classes, packages, their lists and the index of courses | `MCClassCatalog` |
| `ClassCatalog_proofs` | theorems about ClassCatalog | |
| `ClassMeetings` | meetings of a class | `MCClassMeetings` |
| `ClassMeetings_proofs` | theorems about ClassMeetings | |
| `MeetingResources` | resources of a meeting | `MCMeetingResources` |
| `StudentProgress` | progress of students in a meeting | `MCStudentProgress` |
| `StudentProgress_proofs` | theorems about StudentProgress | |
| `NoteService` | notes, their channel and worker | `MCNoteService` |
| `NoteService_proofs` | theorems about NoteService | |
| `Handlers` | request handlers of the back office: requests, steps, what was read | extended by the next six |
| `Accounts` | users, sessions, invitations | part of BackOffice |
| `Experience` | visitors (extends Accounts, whose sessions they get) | part of BackOffice |
| `Directory` | groups, tags, subjects | part of BackOffice |
| `Issues` | issues of a class | part of BackOffice |
| `Exams` | exams | part of BackOffice |
| `Keepers` | keepers of a class | part of BackOffice |
| `BackOffice` | the composition of these | `MCBackOffice` |
| `BackOffice_proofs` | theorems about Issues, Keepers, Exams and Directory, of BackOffice's specification | |
| `Accounts_proofs` | theorems about Accounts and Experience, of BackOffice's specification | |
| `IdGenerator` | smrpc's SQLIdGenerator | `MCIdGenerator` |
| `IdsAndLists_proofs` | theorems about IdGenerator and about MeetingResources | |

### How the code is represented

* **One action per step between two points where others may act**: a read of the cache, a statement, a commit, a cache
  write. `pc[p]` says where handler `p` is, `req[p]` which call it serves; the other per-handler variables are the local
  variables of the Go function that are used later (`view`/`seen`: what `GetX` returned; `list`, `tx`: what will be
  committed). `Return(p)` resets them.
* **Rows** are the committed values. What a transaction has written is in `tx[p]` until the commit action. `SELECT ...
  FOR UPDATE` is a guard that no other transaction holds the row, and a holder (`lockC`, `lockU`, `lockR`, `lock`,
  `holder`, or a `pc` inside the transaction). On a missing row it is a gap lock, which transactions share and which
  blocks inserts: `ChangeUserGap` in ClassRoster, `Gapped` in NoteService, `Gap` in Keepers; InnoDB then rolls one back
  (`ChangeDeadlock`, `Deadlock`, `DeadlockedKeeper`).
* **Hashes** are a record, or `None`. `None` stands for every hash the `New...InfoFromMap` functions reject: absent,
  or made by a partial `HMSET`. Setting some fields of such a hash leaves it `None`. Where the code reads single fields
  (users, keepers) a hash is a function of fields that may be `None` each.
* **Lists** (`"1,2,3"`, `"key:value,..."`) are sets, or sequences in MeetingResources where the order is the subject:
  what `AddToList`, `DeleteFromList`, `AddResourceToMap` and their relatives compute.
* **Failures**: with `MayFail` or a scene's `fails` (in ClassRoster for the calls in `Failing`, in NoteService within a
  bound) any statement or cache call may fail (`ChangeFail`, `Rollback`, `PutFails`, `StatementFails`, `KeeperFails`...)
  and a handler may stop anywhere (`Abandon`, `Restart`, `Panic`).
* **History variables** (`halved`, `taint`, `miscount`, `torn`, `mixed`...) record that a particular race or failure
  happened. They are read by properties only, never by a guard. A property such as `EnrolledAreListed` says: *this
  holds, except for exactly these recorded events*; the exceptions are defects or limits of the code, named and no
  larger than they are. TLC reaches the excepted states: without its exceptions each of these properties is violated.
* **Mutants** (`...Unlocked`, `...Forgets`, `...Not`) are variants of an action with a plausible bug, each violating one
  property.

### Module by module

**ClassRoster**. `ChangeClass`, `ChangeUserRow`/`ChangeUserGap`/`ChangeUserInsert`, `ChangeProgress`, `ChangeCommit` are
the statements of `ChangeUser` (class_user.go 15-362) in order. The deployed tables have the `teacher_list` and
`student_list` columns ChangeUser updates, although `Init` (class.go 42) has them commented out. `Meet*` is AddMeeting as
far as rosters are concerned, `Drop*` and `Purge*` are DeleteClass: one unlocked read, update and cache write per user.
GetClass and GetUserClassRelation are the read-through reads all of them begin with. Calls by staff skip the lookup of the
relation. Left out: other columns, the `DelField` of the group's list (in ClassCatalog), meetings that DeleteClass finds.

**ClassCatalog**. `row` and `hash` have the fields of a class that its operations read or write; `group` is the hash the
staff browses, `index` the map of Gd courses, both in the cache only. AddClass and ChangeClass ask
`GetClassIDViaGdCourseID` first; AddSubClass and DeleteSubClass are two transactions each, one on the package and one on
the class. As the code has it: an error of the look-up is taken for "no such course" (class.go 443, 695); AddClass tests
a stale `err` when it adds to the group's list (553); DeleteClass leaves the index; a class may be put below itself;
onHttpImportClass imports for course 0, and goes on after "Invalid group ID."; `unsub` puts the class back into the
group's list only after its second transaction; a change of the template alone is not written (695). AddClass, CloneClass
and ChangeClass store the classes that the request's platform data names as they come (454, 689): `Insert` and `Write` give
a package `req.data` as its `children`, no class of it learns of the package (`torn`), and it may be one that the package
is below (`Rings`, `stranded`). A request without a platform id leaves package and data alone (690); one with a course id
of 0 takes the course away and only removes its index entry (`clears`, `AfterUnindex`).

**ClassMeetings**. A meeting's row and hash have the fields that calls copy between them: whether it `ended`, its `start`,
its lists (`items`) and its `ally`. AddMeeting inserts the meeting, its progress rows and hash (`AddInsert`, `AddSeed`),
then changes the list in a transaction (`AddLink`, `AddCommit`), then rewrites the schedule. That is UpdateMeetingTime:
GetMeeting of every meeting of the class, one after the other (`TimeHit`; `TimeMiss` and `TimeFill` when the cache has it
not; `TimeGone` when nobody has it, which ends the call with the old schedule), then one write of what was read
(`Reschedule`). The model takes the meetings in any order; `read` has the starts so far, and `overtaken` the handlers
that have read one which is no longer the row's, or soon will not be. EndMeeting
ends the row, its hash, counts in the class row, counts in the hash (`EndRow`, `EndCache`, `CountRow`, `CountCache`).
DeleteMeeting and DeleteMeetingPermanently are `Trash*`, `Destroy*` and `Wipe*`; `Recache` is the branch where the lists
have not changed. ChangeMeeting, ChangeMeetingAlly and SyncMeeting are an `UPDATE` (`WriteRow`) and a cache write
(`PutField`) for each meeting; CopyMeetingTo is AddMeeting in the target class with the lists copied after it.
SyncMeeting copies an end time without counting the meeting (meeting.go 930) and a start without rescheduling;
ChangeMeeting decides by what GetMeeting returned whether to reschedule. GetMeeting neither reads nor writes the ally
(meeting.go 1494-1594), so once the cache has lost a meeting's hash its ally reads as none until the next
ChangeMeetingAlly (`Selected`, `FillHash`). `MaxEnds` bounds the counter.

**MeetingResources**. The four kinds differ in when they skip, what they answer, and which early return forgets the
rollback (`Leaky`): such a transaction keeps the row until the connection closes, and others time out
(`LockWaitTimeout`). `Arrange*` writes a whole list with one UPDATE. Orders are non-empty and may name a resource
twice, for which neither the handler nor ArrangeResource looks (meeting.go 1814): it is then listed twice (`doubled`),
and deleted in both places. Left out: the exam that Import creates and leaves behind if it cannot be
listed, and the number of its questions.

**StudentProgress**. `Mark*` is a courseware or video: SetCoursewareProgress writes the list it found to the cache before
it rolls back (`MarkRow`), SetVideoProgress afterwards and without the lock (`MarkFound`, `MarkCache`), when another
request may have committed a longer one (`taint`). `Replay*` is the replay, `Beat*` the heartbeat and leaving, `Score*`
and `Feedback` the score, `Exam*` and `Save*` the graded exam and its files. Guests have a hash only, which `Expire`s.
Left out: the separator of feedback texts, `next_time`, import of progress from BokeCC, exams without objective
questions.

**NoteService**. `PutMine`, `PutOf`, `SendAdd` are AddNote, `DropMine`, `DropOf`, `Renumber`, `SendDelete` are DeleteNote,
`Take`, `Select`, `Store`, `GiveUp`, `Erase` the worker. The channel is a sequence of at most `Backlog` tasks (1024 in the
server). The lock that InnoDB takes through the non-unique keys of TABLE_USER_NOTE is wider than the row: it makes others
wait longer and is modelled as a row lock. Users delete notes of their own, with keys that need no escaping; that
"/note/delete" is registered to the handler that adds notes (server.go 477) is left aside. Left out: Preload, which the
server never calls.

**Handlers** has what the six parts of the back office share: `Start` takes a request of the scene, `With` and `On` go
to the next step with or without something read, `Return` ends. Each part has its own rows and hashes.

**Accounts**. `users` are the rows, `userHash` the fields of the hashes, `nameIndex` and `studentIndex` the two maps of
the cache. A session is one hash for each user, with a token for each kind of client; every request after the login
replaces the token it was sent with (`UpdateHttpSession`), and the answer brings the client the next one, or is lost.
Tokens are random and are modelled as ones not in use. ChangePassword compares with the hash, writes the hash, and
updates the row where it has the old password; ChangeProfile and Remark write in the opposite orders of each other.

**Experience**. Invitations (`offers`) by token or by a teacher's channel, registration of a phone number (id, end of the
visits, log), login with the number. Everything is in the cache. Time advances by `Tick`, up to the scene's bound. An
expired invitation deletes a field of the wrong hash (class_user_experience_local.go 89), so nothing is deleted.

**Directory**. The three catalogues have rows, a hash, and (groups, tags) a text that `SetCachedQuery` makes of the hash
in two commands. Lists of subjects belong to groups; a change reads the row, writes it, and writes a text that names
each subject, which fails if one is unknown. Changing an entry that is not there writes the hash anyway.
Entries stand for ids above the reserved ones, which QueryGroup's SELECT leaves out (group.go 71, 322); the text made of
the hash does not.

**Issues**. `open` is the hash of the open issues, `finished` the text of the finished ones. An empty answer is reported
invalid and then taken, for lack of a `return`; the answerer's name, time and address go to fields of the wrong hash
(issue.go 516-525), which nothing reads.

**Exams**. The Gd server is the environment: `GdRevises` changes what an import fetches. An exam's answers are in the row
and in the hash, its paper in the object store. AddExam that imports an exam anew under another Gd id leaves the id in
the row; cached ids of questions are never refreshed.

**Keepers**. A keeper's students are in a row and in a field of a hash; all fields make a text, in the class's row and in
its hash. The row is locked, the field is written before the commit, the text after it and without a lock. A first row is
inserted even to take a student away, and the field then gets the empty list (class_user.go 528); that no transaction
can be started is no error (516); a hash without fields is none either, so a text may lose keepers the cache has lost.

**BackOffice** lets the handlers serve requests of any part; a busy one goes on with the request it has.

**IdGenerator**. `Instance` and `Create` are the two nil checks, `LoadSpaces` the first load, `Find` and `TakeBatch` the
compare-and-set `UPDATE`, `Give` and `GiveFirst` handing out, `AnswerLost` a commit whose answer does not arrive,
`Restart` a new process. A Find that fails in the first load is a load that is tried again. Reload's recursion when
the compare-and-set keeps failing is the loop `FindAgain`; that the recursion has no bound is not modelled.

## 3. The runs

Two handlers suffice for every race between two calls, since what a handler does depends on others only through rows
and hashes, and every exception found needs two. Sets of two or three meetings, classes, exams or resources are enough
for one to be changed while another must not be. To keep a run small without losing mixes of calls, a module has
*scenes*: named sets of calls (with the ids, the initial rows and the failures that go with them); a behaviour picks one
in `Init` and keeps it. A run checks all its scenes. Symmetry is used for handlers only, and never with liveness. Scenes
of the back office that allow failures have one handler where two with failures would be too many: a failure followed by
any call is in them, a failure during another call is in those with two.

| run | bounds | what it shows |
|---|---|---|
| `roster_users` | 1 user, 2 classes, both roles, deletion of one class, 2 handlers, failures | `EnrolledAreListed`, `ListedAreEnrolled`, `DeletedAreUnlisted`, `CacheFollowsDatabase`: class and user agree up to the removals, stale writes and missed users recorded |
| `roster_live` | 1 user, 2 classes, 1 meeting, every call, AddMeeting may fail, fair | transactions hold what they read; a new student has its progress rows; ClassRoster implements Enrollment; every call returns in spite of gap locks |
| `catalog` | 3 classes, 2 courses; scenes: a class moved between packages, a package that loses its classes, packages below each other, look-ups, courses given, taken and swapped, copies and imports, packages made or changed with classes in their data (`named`), also with each other (`ringed`); failures | `SubClassesAgree`, `ClassesAreFound`, `CourseLeadsToClass` |
| `meetings` | scenes: every call on 1 meeting with failures; lists and ends of 2 meetings (at most 3 ends); a meeting moved between 2 times; starts, ends and lists synchronised; allies; copies | the counter, the two lists, reachability, the schedule, the hashes |
| `resources` | scenes: 2 videos; 2 replays; an exam and a courseware with 2 values; 2 exams with orders that name one twice | each listed once, answers hold, the hash follows, also behind leaked transactions |
| `progress_visits` | 1 student, 1 guest, 2 items; scenes watch, attend, offline; failures | progress is never taken back; attendees are counted once up to the failures recorded; hashes follow |
| `progress_answers` | 2 students score; 1 student sits 2 exams with 2 questions; failures | totals, tallies, feedback, filed exams and answers match |
| `progress_exam_once` | 1 student, 2 exams | **violated**: see Findings |
| `notes` | 2 students' notes on one video; 2 handlers of one server and a failure; 2 servers without and with earlier rows; channel of 1 | answered notes are saved or on their way; the hashes agree; nobody waits for ever on the channel |
| `notes_erased` | the same | **violated**: see Findings |
| `ids` | 2 processes, 3 goroutines, batches of 2, seeds up to 8 | no id twice; the space is loaded |
| `back_office` | 31 scenes of 2 or 3 users, 2 clients, 3 guests, 2 keepers, 3 entries, 2 issues, 1 exam | `SessionsStay`, `HashFollowsRow`, `OneUserEach`, `RegistrationsHold`, `CataloguesAgree`, `IssuesAreSettled`, `PapersMatchAnswers`, `KeepersAgree` |

Deadlock is checked except in the two runs of notes, where the students run out of notes to write, and in `back_office`,
where ids, issues and exams run out.

### Fairness

Safety needs none. `roster_live` uses strong fairness of each handler's steps: InnoDB queues the waiters of a row lock in
order, so a handler that waits gets the lock however often others take it. `notes` uses weak fairness of the worker (its
goroutine runs and MySQL answers or fails) and strong fairness of `SendAdd` (a Go channel serves its waiting senders in
order). Clients are never assumed to call, nothing is assumed to fail or to recover. The other modules have nothing that
waits for another handler but row locks, which each call takes one at a time.

### Findings

* `progress_exam_once`: AnswerExam means to refuse an exam that "had been answered before" (meeting_exam.go 367, 445).
  Inside its transaction `AddResourceToMap` reports an unchanged list only if the very same result is there: two
  overlapping submissions are both graded and both added to the student's totals.
* `notes_erased`: "Delete it from user-class notes" (note.go 717) splits the text of the SELECT instead of the row's list
  (note.go 754), finds nothing and returns nil; the second query names a column that the table has not. Notes are
  deleted from the cache only.

The exceptions in the properties are further things a maintainer may want to change. In rosters a user in two roles is
unlisted by the removal of one (`halved`), a removal can insert the class it removes (`stray`), DeleteClass writes lists
from unlocked reads (`clobbered`), hashes written before a rollback stay (`taint`). A meeting's end can be counted twice
or not at all, a synchronised end is not counted (`miscount`). A score or an exam can be counted twice (`rescored`,
`resat`). A package and its class can disagree after a failure between two transactions (`torn`), a class can vanish
from every list (`stranded`), two classes can have one course (`misfiled`). Platform data can list classes that do not
name the package, and close a ring of packages. The schedule can keep a start that was changed while it was being read
(`skipped`), an order that repeats a resource lists it twice (`doubled`), and a video that is seen again can take a newer
one out of the cache (`taint`). A client that sends a second request before
the answer to the first, or loses an answer, is logged out (`displaced`); two registrations can get one name or one
invitation (`contested`); a password in the cache can differ from the row's, and so can the nickname of an id that a
teacher names while its user is being inserted, since members of a class are not looked up (`mixed`). Other
observations, which no property is about: `issue.go` 50 makes no table for a group that is added later; DeleteExam leaks
its transaction when SetFields fails (meeting_exam.go 298-301); several handlers send a second answer for lack of a
`return` after the first; the handlers that change a meeting's name, subjects, time, type and section alone are not
registered.

## 4. The proofs

All theorems hold for any sets of users, classes, meetings, handlers and so on, for any mix of calls, and with failures at
every step. They have one shape: an inductive invariant, which TLC checked first, the lemmas that every action keeps it,
and the property as its consequence. What the invariants say beyond the properties is, in nearly all of them, what a
handler in the middle of a call knows: *its* transaction's copy is the row as it is, *its* next write makes two places
agree, *its* check still holds unless the history says that somebody came between.

**ClassRoster_proofs**. `TypeCorrect`; `LocksHold` (what a transaction read `FOR UPDATE` is still there when it commits);
`MembersAreListed`; `ListsNameMembers`; `EnrolmentBringsProgress`; and `Refinement` (`Spec => Abstract!Spec`, by the
initial state and one step simulation per action). Membership is not inductive, since between the write of the class row
and of the list the two differ inside a transaction; the strengthening is the lock invariant `TransactionsHoldTheirRows`,
by which the committed step changes both sides of the *current* rows at once, whatever others did since the reads.
`DeletedClassesAreUnlisted` and `CachesFollow` need `RosterInv`: the users DeleteClass has yet to visit, and for every
class and user what the hash may be during a transaction. Its proof brought up a behaviour that needs two users: a fill
that read a list before DeleteClass changed the row is written between the row and the hash, which is read to be written
in turn. `DeletedAreUnlisted` has a disjunct for it, `clobbered`.

**ClassCatalog_proofs**. `HandlersKeepOrder` is the base (`ReachInv`: a handler is where its request leads, with what the
label needs in hand, and an open transaction holds the one row it will write, of which it changes one list). On it,
- `SubClassesStayTogether`, with `LinkInv`: a handler past its first commit finds the package as it left it, two handlers
  with opposite requests for a pair (`Crossing`) are known to tear it, `Behind` is the one that will make it whole, and
  what a class that does not exist yet will be named in is torn already (`Foreseen`);
- `ClassesStayFound`, with `FoundInv`. "In the group's list, or below a package that can be found" is a least fixed
  point; its invariant says that every non-empty set of classes that are found only below each other contains one which
  is known to be lost (`Grounded`). A step that moves a class below another, or gives a package a list, can close such a
  ring and then records it: `GroundedEdges` says that new edges which close none keep the rest;
- `CoursesStayFiled`, with `FiledInv`: between the check that a course is free and the write that takes it, a handler is
  the only one to have asked, or the course is `misfiled`.

**ClassMeetings_proofs**. `ListsAreApart`, `MeetingsAreFound`, `NewMeetingsAreFresh`, `HashesFollowRows`,
`SchedulesAreCurrent`, `EndsAreCounted`. AddMeeting adds to one list without a look at the other, so that disjointness
alone is not inductive. The strengthening is `Fresh`, that a meeting which is being added is not `Known`: it is in neither
list, in no copy of one (in the cache, in what GetClass returned, in what a transaction will commit), and in no handler
that removes it; and `Exact`, that one transaction at a time will commit lists made of the row as it is. For
reachability, `Empties` says that a handler which deletes a meeting for good looks up that meeting and no other. For the
hashes, whoever is about to write a field writes what the row has by then (`Agreeing`). For the schedule, somebody is on
the way to write it, and every start that an UpdateMeetingTime has read so far is the row's unless that handler is
`overtaken` (`Readings`): a change of the row overtakes those that have read it, and what was read of a hash is the row's
unless the hash is stale or about to be written. The counter is the number of ended meetings less the ends on their way.

**IdsAndLists_proofs**, for MeetingResources: `HashFollowsRow`, `OneHolder`, `ResourcesListedOnce`, `AnswersStand`. The hash
is ahead of the row exactly while a transaction is open, so the strengthening (`Follows`) says what it has then: the list
of the holder. That only the holder is about to commit (`HolderCommits`) makes it the list that reaches the row, and
whatever a fill, an arrangement or a rollback writes meanwhile is recorded in `taint`. What a list says is `Told(s, k)`,
the values it has for a key; `AddTells`, `DeleteTells` and `ArrangedTells` say what the three operations do to it, on the
lemma `PickedItems` about the items that stay, numbered by their rank (`Numbered`, by the library's facts about
injections of finite sets). Then `ListedOnce` is `PlainInv`, the same of the lists that handlers hold. `AnswersHold` needs
more: a call takes back the answers on what it may change, of two calls that conflict neither is alone (`Rivalry`), and
one that is alone has read of *its* resource what the row has, though the rest of the list it read may be stale
(`Part`). The answer of a call that writes nothing is given from the hash: that it agrees with the row there
(`HashAgrees`) rests on `Follows`.

**StudentProgress_proofs**. `CallsHoldTheirRows` is the base (`CallInv`: whoever is in a transaction holds its locks alone,
and will commit the locked row and its own change). On it, `StudentsKeepProgress` (an action property),
`TotalsAreCounts`, `TalliesAreKept`, `FeedbackIsHeard`, `ExamsAreFiled`, `SubjectiveAnswersAreKept`; `HashesFollowProgress`,
by what each hash is in the middle of each call (`FollowInv`, `MeetingInv`); and `AttendeesGetCounted`, by
`Cardinality(Counted) <= meeting.attendees`, where a heartbeat that found the student absent has yet to count it.

**NoteService_proofs**. `AnsweredGetSaved` (`SaveInv`: a worker's copy is the content of the row it locked, one that
inserts holds the gap alone, and a note between the two rows is in the hands of its worker) and `HashesGetToAgree`
(`HashInv`: ids in the hashes are those given out, and a note's two entries differ only while its handler is between
them).

**BackOffice_proofs**. The parts share the handlers, so the lemmas of `Frame` and its relatives say once that a step of one
part leaves the others' state and handlers alone. `IssuesStaySettled` (`IssueInv`); `KeepersGetToAgree` (`KeeperInv`: rows
are locked, the field follows the row that will be committed, the text follows the fields); `PapersStayTrue` (`ExamInv`:
what an importer carries is of one paper, and each exam has one importer or is `crossed`); `CataloguesStayTrue`
(`DirectoryInv`, for groups, tags and subjects and the lists of groups together).

**Accounts_proofs** begins with what a handler carries at each of its steps (`FrontTypes`, with `Briefed`: whose user or
guest it found, that he has a row, a session, a token), since every check of the code compares something read with
something read earlier. On it,
- `ClientsStayLoggedIn`, with `TokenInv`. `SessionsStay` alone is not inductive, because a check replaces the token before
  the client has the new one: while a handler has `Rotated` it, the session has *its* token, and no second handler has
  rotated for that client;
- `UsersAreSole`, with `SoleInv`: a handler that found a name, a student or an invitation free is the only one that did,
  and there is no row with it yet; a row whose name the index has not has its handler on the way there;
- `HashIsOfTheRow`, with `HashInv`: a user's hash and row differ only in the hands of the one handler that wrote one and
  is about to write the other, and by its values. ChangePassword's `UPDATE ... WHERE` the old password finds the row
  because the hash it compared with was the row's;
- `RegistrationsStand`, with `VisitInv`: `PhonesInv` (a number without a guest has one handler which makes it one; ids are
  handed out in order, and are one number's but for the lowest, which a counter that fails gives to all), `CouponsInv` (a
  token that is looked at is one handler's until the log has who came with it) and `LogsInv` (the first entry of a log
  has one writer).

**IdsAndLists_proofs**, for IdGenerator: `IdsAreTyped`, `IdsAreUnique`, `BatchesAreSafe`, `SpaceIsFound`. `NeverTwice` needs `UniqueInv`:
every batch in memory lies at or below the seed, batches of two processes are apart, and no issued id is left in one. A
batch starts right above the seed the compare-and-set saw (`FirstIsNext`), so it is above everything reserved before; a
lost answer or a restart only drops a batch. `SpaceIsLoaded` needs `MutexInv`: whoever is inside holds the mutex of its
process, and a map is empty only while its load runs.

### Assumptions

They are the named ones of the modules, and TLC evaluates each on the instances of the runs:

- the types of the constants; `None` is none of the values it stands next to (`NoneIsNone`, `NoneIsNoHash`, `NoneIsNoLog`,
  `FreeIsNoThread`, ...), and `"gone"` is no value of a resource (`GoneIsNoValue`); sets that are counted are finite
  (`FinitelyMany`); `SomeNotes`, `SomeMeetings`: there is something to work on;
- the first user's row is one (`AdminIsUser`), clients are of one of three kinds (`ClientsHaveApps`), and ids of guests are
  no users' (`NoGuestIsUser`): the database counts the users', the cache the guests', from a minimum far above
  (class_user_experience_local.go 164);
- `LeakedIsNoProc`: a transaction that nobody will end belongs to no handler;
- requests are of the shape that the handlers parse: `RepliesAreAnswers`, `ChargesAreOfKeepers`, `RequestsOfExams`,
  `RequestsOfEntries`, `RequestsOfUsers`, `RequestsOfVisitors`; a call that leaves a meeting reports -1 or 0 seconds
  (StudentProgress);
- `ScenesAgree` (ClassCatalog): the rows a behaviour begins with agree, as they do when nothing has gone wrong yet: a class
  lists its packages and they list it, only packages have classes, no class is below itself, a course has one class.

The Go code enforces none of the first kind: they say how the model is written. The requests are those of the handlers'
own parameter checks.

### What is not proved

`TypeCorrect`, `HandlersKeepOrder`, `CallsHoldTheirRows`, `IdsAreTyped`, `BatchesAreSafe`, `OneHolder` and
`NewMeetingsAreFresh` state no property of a run: they are type invariants and strengthenings worth knowing by
themselves. Every safety property of the passing runs is stated by a theorem. Only model-checked is liveness: `CallsReturn`
(`roster_live`) and `NotesGetSaved` (`notes`) under fairness, since TLAPS has no ENABLED. The two violated properties of
section 3 are false.

## 5. Not modelled

* Playback authorization (`video*.go`, `gd_*.go`): queries of a partner's server, parsing, and tickets that are handed
  on; its answers are choices of the actions that ask. Handlers that only read and render (exports, searches, queries of
  progress), parsing of parameters, encoders, the clients of OSS, WeChat and push services: no state of their own.
* Institutes and `ExamQuestionService`: never constructed or served. Preload is modelled by the states it leaves.
* Transcoding, the log, the static file server, the chat room, the limiter, the message queue and the uploads: small
  programs with state of their own, next in the plan. rpcx-examples and designModel are demonstrations.
* The queues of Weixin form ids, the import of progress from BokeCC, the live configuration in the meetings' hashes.

## 6. Plan

Done: rosters and their abstract specification, progress, meetings, resources, notes, ids, then classes and packages,
the back office, copies and synchronisation of meetings, keepers. Next:

1. Log and transcoding (a channel and one goroutine each), the limiter, the chat room, the message queue, uploads.
2. The import of progress from BokeCC in StudentProgress.

Abstract specifications worth stating besides Enrollment: a set of notes with atomic add (NoteService, hashes), a set of
unissued ids (IdGenerator), a resource list with atomic add and remove (MeetingResources, without stale reads), a
package and its classes that change at once (ClassCatalog, without failures).

Theorems worth proving next: the refinements of these abstract specifications, each by one step simulation per action as
for Enrollment.
