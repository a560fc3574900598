---------------------------- MODULE ClassRoster ----------------------------
(***************************************************************************)
(* Who belongs to which class, in ClassService: ChangeUser, AddMeeting,    *)
(* DeleteClass, GetClass and GetUserClassRelation, run by HTTP handlers    *)
(* that share one MySQL database and one Redis cache.                      *)
(*                                                                         *)
(* The module is the projection of the service on three tables             *)
(* (TABLE_CLASS, TABLE_USER_CLASS, TABLE_USER_MEETING) and two cache       *)
(* hashes (the class, and the class list of the user).  The comma          *)
(* separated lists are sets here: AddToList and DeleteFromList of          *)
(* common/string.go act on them as union and difference.                   *)
(*                                                                         *)
(* A row that a transaction has written is not visible before Commit, so   *)
(* it lives in tx[p]; `SELECT ... FOR UPDATE` takes a lock that lives in   *)
(* lockC / lockU; on a row that does not exist InnoDB gives a gap lock,    *)
(* which several transactions may share and which blocks an INSERT.  A     *)
(* cache write is visible at once.                                         *)
(***************************************************************************)
EXTENDS FiniteSets

CONSTANTS
  Users, Classes, Meetings,
  Procs,      \* request handlers
  Requests,   \* the calls a handler may receive
  Failing,    \* the calls in which a statement, a cache call or the handler may fail
  None        \* no row, no cache entry, nobody

Roles == {"teacher", "student"}
Ops   == {"change", "meet", "drop", "open"}

Request == [op: Ops, user: Users, class: Classes, role: Roles, add: BOOLEAN]

ClassRow == [teacher: SUBSET Users, student: SUBSET Users, meetings: SUBSET Meetings]

ASSUME RequestsAreCalls == Requests \subseteq Request /\ Requests # {}
ASSUME FailingAreOps    == Failing \subseteq Ops
ASSUME NoneIsNoRow      == /\ \A row \in ClassRow : None # row
                           /\ \A cl \in SUBSET Classes : None # cl
                           /\ None \notin Procs

VARIABLES
  class,       \* committed TABLE_CLASS rows
  userClass,   \* committed TABLE_USER_CLASS rows
  progress,    \* committed TABLE_USER_MEETING rows, <<user, meeting>>
  meetingRows, \* TABLE_MEETING rows ever inserted
  cClass,      \* class hashes that NewClassInfoFromMap accepts
  cUser,       \* class_list field of the user hashes
  lockC,       \* holder of the row lock of a class
  lockU,       \* holder of the row lock of a user's class list
  gap,         \* holders of the gap lock of a user without a row
  pc, req,     \* where a handler is, and the call it serves
  view,        \* the ClassInfo its GetClass returned
  list,        \* the class list it has read or computed
  tx,          \* what it has written, uncommitted, and the meeting it has made
  todo,        \* users DeleteClass still has to visit
  stray,       \* history: <<user, class>> inserted while serving a removal
  halved,      \* history: <<user, class>> unlisted while another role remained
  clobbered,   \* history: users whose list DeleteClass wrote from a stale read
  orphaned,    \* history: <<user, class>> DeleteClass did not get to unlist
  taint        \* history: cache keys written out of order with the database

db      == <<class, userClass, progress, meetingRows>>
cache   == <<cClass, cUser>>
locks   == <<lockC, lockU, gap>>
local   == <<req, view, list, tx, todo>>
history == <<stray, halved, clobbered, orphaned, taint>>
vars    == <<db, cache, locks, pc, local, history>>

Roster(row)  == row.teacher \union row.student
Rostered(c)  == IF class[c] = None THEN {} ELSE Roster(class[c])
Listed(u)    == IF userClass[u] = None THEN {} ELSE userClass[u]
EmptyRow     == [teacher |-> {}, student |-> {}, meetings |-> {}]

Goto(p, label) == pc' = [pc EXCEPT ![p] = label]

\* The handler returns, and its local variables are gone.
AnyRequest == CHOOSE r \in Requests : TRUE
NoTx       == [row |-> EmptyRow, rows |-> {}, made |-> {}]

Return(p) ==
  /\ Goto(p, "idle")
  /\ req'  = [req EXCEPT ![p] = AnyRequest]
  /\ view' = [view EXCEPT ![p] = EmptyRow]
  /\ list' = [list EXCEPT ![p] = {}]
  /\ tx'   = [tx EXCEPT ![p] = NoTx]
  /\ todo' = [todo EXCEPT ![p] = {}]

\* UPDATE of one column (a row that is gone stays gone), and HMSET of one field
\* of a hash (a hash that is not complete stays so).
Update(row, field, v) == IF row = None THEN None ELSE [row EXCEPT ![field] = v]

SetField(c, field, v) == cClass' = [cClass EXCEPT ![c] = Update(cClass[c], field, v)]

Init ==
  /\ class       = [c \in Classes |-> EmptyRow]
  /\ userClass   \in [Users -> {None, {}}]
  /\ progress    = {} /\ meetingRows = {}
  /\ cClass     \in [Classes -> {None, EmptyRow}]
  /\ \E cached \in SUBSET Users :
       cUser = [u \in Users |-> IF u \in cached THEN userClass[u] ELSE None]
  /\ lockC       = [c \in Classes |-> None]
  /\ lockU       = [u \in Users |-> None]
  /\ gap         = [u \in Users |-> {}]
  /\ pc          = [p \in Procs |-> "idle"]
  /\ req         = [p \in Procs |-> AnyRequest]
  /\ view        = [p \in Procs |-> EmptyRow]
  /\ list        = [p \in Procs |-> {}]
  /\ tx          = [p \in Procs |-> NoTx]
  /\ todo        = [p \in Procs |-> {}]
  /\ stray = {} /\ halved = {} /\ clobbered = {} /\ orphaned = {} /\ taint = {}

-----------------------------------------------------------------------------
(* A call arrives; every operation starts with GetClass.                   *)

Call(p) ==
  /\ pc[p] = "idle" /\ Goto(p, "get")
  /\ \E r \in Requests : req' = [req EXCEPT ![p] = r]
  /\ UNCHANGED <<db, cache, locks, view, list, tx, todo, history>>

GetClassHit(p) ==
  LET c == req[p].class IN
  /\ pc[p] = "get" /\ cClass[c] # None
  /\ view' = [view EXCEPT ![p] = cClass[c]]
  /\ Goto(p, "got")
  /\ UNCHANGED <<db, cache, locks, req, list, tx, todo, history>>

GetClassMiss(p) ==
  LET c == req[p].class IN
  /\ pc[p] = "get" /\ cClass[c] = None
  /\ IF class[c] = None
     THEN Return(p)                                  \* ERR_NO_CLASS
     ELSE /\ Goto(p, "fill") /\ view' = [view EXCEPT ![p] = class[c]]
          /\ UNCHANGED <<req, list, tx, todo>>
  /\ UNCHANGED <<db, cache, locks, history>>

\* The row read by GetClassMiss goes into the cache whatever happened since.
GetClassFill(p) ==
  LET c == req[p].class IN
  /\ pc[p] = "fill" /\ Goto(p, "got")
  /\ cClass' = [cClass EXCEPT ![c] = view[p]]
  /\ taint'  = IF view[p] = class[c] /\ lockC[c] = None THEN taint
               ELSE taint \union {<<"class", c>>}
  /\ UNCHANGED <<db, cUser, locks, local, stray, halved, clobbered, orphaned>>

-----------------------------------------------------------------------------
(* A user opens the class: GetClass then looks the user up in its list.    *)

RelationHit(p) ==
  /\ pc[p] = "got" /\ req[p].op = "open" /\ cUser[req[p].user] # None
  /\ Return(p)
  /\ UNCHANGED <<db, cache, locks, history>>

RelationMiss(p) ==
  LET u == req[p].user IN
  /\ pc[p] = "got" /\ req[p].op = "open" /\ cUser[u] = None
  /\ IF userClass[u] = None
     THEN Return(p)                                  \* ERR_NO_USER
     ELSE /\ Goto(p, "relation") /\ list' = [list EXCEPT ![p] = userClass[u]]
          /\ UNCHANGED <<req, view, tx, todo>>
  /\ UNCHANGED <<db, cache, locks, history>>

RelationFill(p) ==
  LET u == req[p].user IN
  /\ pc[p] = "relation" /\ Return(p)
  /\ cUser' = [cUser EXCEPT ![u] = list[p]]
  /\ taint' = IF list[p] = userClass[u] /\ lockU[u] = None THEN taint
              ELSE taint \union {<<"user", u>>}
  /\ UNCHANGED <<db, cClass, locks, stray, halved, clobbered, orphaned>>

-----------------------------------------------------------------------------
(* ChangeUser: add a user to a class, or remove one, in one transaction.   *)

Changing(p, label) == pc[p] = label /\ req[p].op = "change"

ClassKey(p) == {<<"class", req[p].class>>}
UserKey(p)  == {<<"user", req[p].user>>}

\* The end of a transaction, committed or not, releases every lock it holds.
Release(p) ==
  /\ lockC' = [c \in Classes |-> IF lockC[c] = p THEN None ELSE lockC[c]]
  /\ lockU' = [u \in Users |-> IF lockU[u] = p THEN None ELSE lockU[u]]
  /\ gap'   = [u \in Users |-> gap[u] \ {p}]

\* The early return: the view already says what is asked for.
ChangeSkip(p) ==
  LET r == req[p] IN
  /\ Changing(p, "got") /\ r.add = (r.user \in view[p][r.role])
  /\ Return(p)
  /\ UNCHANGED <<db, cache, locks, history>>

\* 1. Lock the class, compute its list, UPDATE it and the cache.
ChangeClass(p) ==
  LET r   == req[p]
      new == IF r.add THEN class[r.class][r.role] \union {r.user}
                      ELSE class[r.class][r.role] \ {r.user}
  IN
  /\ Changing(p, "got") /\ r.add # (r.user \in view[p][r.role])
  /\ lockC[r.class] = None
  /\ IF class[r.class] = None
     THEN Return(p) /\ UNCHANGED <<cClass, lockC>>
     ELSE /\ Goto(p, "user")
          /\ view' = [view EXCEPT ![p] = EmptyRow]
          /\ lockC' = [lockC EXCEPT ![r.class] = p]
          /\ tx' = [tx EXCEPT ![p] = [row |-> [class[r.class] EXCEPT ![r.role] = new],
                                      rows |-> {}, made |-> {}]]
          /\ IF new = class[r.class][r.role] THEN UNCHANGED cClass
             ELSE SetField(r.class, r.role, new)
          /\ UNCHANGED <<req, list, todo>>
  /\ UNCHANGED <<db, cUser, lockU, gap, history>>

AfterUser(p) ==
  Goto(p, IF req[p].add /\ req[p].role = "student" THEN "progress" ELSE "commit")

\* Mutants: the list is always added to; the SELECT has lost its FOR UPDATE.
ChangeUserRowAdds(p) ==
  LET u == req[p].user  new == userClass[u] \union {req[p].class} IN
  /\ Changing(p, "user") /\ userClass[u] # None /\ lockU[u] = None /\ AfterUser(p)
  /\ lockU' = [lockU EXCEPT ![u] = p] /\ list' = [list EXCEPT ![p] = new]
  /\ cUser' = [cUser EXCEPT ![u] = new]
  /\ UNCHANGED <<db, cClass, lockC, gap, req, view, tx, todo, history>>

NewList(r) == IF r.add THEN userClass[r.user] \union {r.class}
                       ELSE userClass[r.user] \ {r.class}

ChangeUserRowUnlocked(p) ==
  LET u == req[p].user IN
  /\ Changing(p, "user") /\ userClass[u] # None /\ AfterUser(p)
  /\ list' = [list EXCEPT ![p] = NewList(req[p])]
  /\ cUser' = [cUser EXCEPT ![u] = NewList(req[p])]
  /\ UNCHANGED <<db, cClass, locks, req, view, tx, todo, history>>

\* 3. The user has a row: lock it, compute the list, UPDATE it and the cache.
ChangeUserRow(p) ==
  LET r == req[p]  new == NewList(r) IN
  /\ Changing(p, "user") /\ userClass[r.user] # None /\ lockU[r.user] = None
  /\ lockU' = [lockU EXCEPT ![r.user] = p]
  /\ list'  = [list EXCEPT ![p] = new]
  /\ cUser' = IF new = userClass[r.user] THEN cUser ELSE [cUser EXCEPT ![r.user] = new]
  /\ AfterUser(p)
  /\ UNCHANGED <<db, cClass, lockC, gap, req, view, tx, todo, history>>

\* sql.ErrNoRows: the SELECT ... FOR UPDATE leaves a gap lock.
ChangeUserGap(p) ==
  LET u == req[p].user IN
  /\ Changing(p, "user") /\ userClass[u] = None /\ lockU[u] = None
  /\ gap' = [gap EXCEPT ![u] = @ \union {p}]
  /\ Goto(p, "insert")
  /\ UNCHANGED <<db, cache, lockC, lockU, local, history>>

\* The INSERT names this class whether the call adds or removes the user.
ChangeUserInsert(p) ==
  LET u == req[p].user IN
  /\ Changing(p, "insert") /\ gap[u] = {p} /\ lockU[u] = None
  /\ lockU' = [lockU EXCEPT ![u] = p]
  /\ list'  = [list EXCEPT ![p] = {req[p].class}]
  /\ cUser' = [cUser EXCEPT ![u] = {req[p].class}]
  /\ AfterUser(p)
  /\ UNCHANGED <<db, cClass, lockC, gap, req, view, tx, todo, history>>

\* Mutant: the meetings come from the cached class, not from the locked row.
ChangeProgressCached(p) ==
  LET hash == cClass[req[p].class]
      seen == IF hash = None THEN {} ELSE hash.meetings
  IN
  /\ Changing(p, "progress") /\ Goto(p, "commit")
  /\ tx' = [tx EXCEPT ![p].rows = ({req[p].user} \X seen) \ progress]
  /\ UNCHANGED <<db, cache, locks, req, view, list, todo, history>>

\* 4. A new student gets a progress row for each meeting of the class.
ChangeProgress(p) ==
  /\ Changing(p, "progress") /\ Goto(p, "commit")
  /\ tx' = [tx EXCEPT ![p] = [row |-> tx[p].row, made |-> {},
                              rows |-> ({req[p].user} \X tx[p].row.meetings) \ progress]]
  /\ UNCHANGED <<db, cache, locks, req, view, list, todo, history>>

\* Mutant: the UPDATE has lost its WHERE, and writes the list to every class.
ChangeCommitEverywhere(p) ==
  LET r == req[p] IN
  /\ Changing(p, "commit") /\ Return(p) /\ Release(p)
  /\ class' = [c \in Classes |-> Update(class[c], r.role, tx[p].row[r.role])]
  /\ userClass' = [userClass EXCEPT ![r.user] = list[p]]
  /\ progress'  = progress \union tx[p].rows
  /\ UNCHANGED <<meetingRows, cache, history>>

ChangeCommit(p) ==
  LET r == req[p]  pair == <<r.user, r.class>> IN
  /\ Changing(p, "commit") /\ Return(p)
  /\ class'     = [class EXCEPT ![r.class] = Update(class[r.class], r.role, tx[p].row[r.role])]
  /\ userClass' = [userClass EXCEPT ![r.user] = list[p]]
  /\ progress'  = progress \union tx[p].rows
  /\ Release(p)
  /\ stray'  = IF ~r.add /\ userClass[r.user] = None THEN stray \union {pair} ELSE stray
  /\ halved' = IF ~r.add /\ r.user \in Roster(tx[p].row) THEN halved \union {pair} ELSE halved
  /\ UNCHANGED <<meetingRows, cache, clobbered, orphaned, taint>>

\* The transaction is rolled back; what it wrote into the cache stays there.
Rollback(p) ==
  LET r == req[p]
      wroteClass == tx[p].row # class[r.class]
      wroteUser  == pc[p] \in {"progress", "commit"} /\ list[p] # userClass[r.user]
  IN
  /\ Return(p) /\ Release(p)
  /\ taint' = taint \union (IF wroteClass THEN ClassKey(p) ELSE {})
                    \union (IF wroteUser THEN UserKey(p) ELSE {})
  /\ UNCHANGED <<db, cache, stray, halved, clobbered, orphaned>>

\* Two first-time inserts wait for each other's gap lock: InnoDB picks a victim.
ChangeDeadlock(p) ==
  /\ Changing(p, "insert")
  /\ \E q \in gap[req[p].user] \ {p} : pc[q] = "insert"
  /\ Rollback(p)

ChangeFail(p) ==
  /\ "change" \in Failing /\ req[p].op = "change"
  /\ pc[p] \in {"user", "insert", "progress", "commit"}
  /\ Rollback(p)

-----------------------------------------------------------------------------
(* AddMeeting: MeetingService.AddMeeting inserts the meeting and a         *)
(* progress row for each student of the view, then a transaction links the *)
(* meeting to the class.  (UpdateMeetingTime, called last, is one more     *)
(* GetClass; the times it computes are not modelled here.)                 *)

Meeting(p, label) == pc[p] = label /\ req[p].op = "meet"

MeetInsert(p) ==
  /\ Meeting(p, "got") /\ Goto(p, "seed")
  /\ \E m \in Meetings \ meetingRows :
       /\ meetingRows' = meetingRows \union {m}
       /\ tx' = [tx EXCEPT ![p] = [NoTx EXCEPT !.made = {m}]]
  /\ UNCHANGED <<class, userClass, progress, cache, locks, req, view, list, todo, history>>

\* Meetings is the bound on the AUTO_INCREMENT key.
MeetExhausted(p) ==
  /\ Meeting(p, "got") /\ meetingRows = Meetings /\ Return(p)
  /\ UNCHANGED <<db, cache, locks, history>>

MeetSeed(p) ==
  /\ Meeting(p, "seed") /\ Goto(p, "link")
  /\ progress' = progress \union (view[p].student \X tx[p].made)
  /\ view' = [view EXCEPT ![p] = EmptyRow]
  /\ UNCHANGED <<class, userClass, meetingRows, cache, locks, req, list, tx, todo, history>>

\* Mutant: the meeting list is read without FOR UPDATE.
MeetLinkUnlocked(p) ==
  LET c   == req[p].class
      new == class[c].meetings \union tx[p].made
  IN
  /\ Meeting(p, "link") /\ class[c] # None /\ Goto(p, "linked")
  /\ tx' = [tx EXCEPT ![p].row = [class[c] EXCEPT !.meetings = new]]
  /\ SetField(c, "meetings", new)
  /\ UNCHANGED <<db, cUser, locks, req, view, list, todo, history>>

MeetLink(p) ==
  LET c   == req[p].class
      new == class[c].meetings \union tx[p].made
  IN
  /\ Meeting(p, "link") /\ lockC[c] = None
  /\ IF class[c] = None
     THEN Return(p) /\ UNCHANGED <<cClass, lockC>>
     ELSE /\ Goto(p, "linked")
          /\ lockC' = [lockC EXCEPT ![c] = p]
          /\ tx' = [tx EXCEPT ![p] = [row |-> [class[c] EXCEPT !.meetings = new],
                                      rows |-> {}, made |-> tx[p].made]]
          /\ SetField(c, "meetings", new)
          /\ UNCHANGED <<req, view, list, todo>>
  /\ UNCHANGED <<db, cUser, lockU, gap, history>>

MeetCommit(p) ==
  LET c == req[p].class IN
  /\ Meeting(p, "linked") /\ Return(p)
  /\ class' = [class EXCEPT ![c] = Update(class[c], "meetings", tx[p].row.meetings)]
  /\ Release(p)
  /\ UNCHANGED <<userClass, progress, meetingRows, cache, history>>

MeetFail(p) == "meet" \in Failing /\ Meeting(p, "linked") /\ Rollback(p)

-----------------------------------------------------------------------------
(* DeleteClass: no transaction.  The class row goes first, then its cache  *)
(* hash, then the class is taken out of the list of each user of the view, *)
(* by an unlocked SELECT, an UPDATE and a cache write.                     *)

Dropping(p, label) == pc[p] = label /\ req[p].op = "drop"

DropRefuse(p) ==
  /\ Dropping(p, "got") /\ view[p].meetings # {} /\ Return(p)
  /\ UNCHANGED <<db, cache, locks, history>>

\* Mutant: the students are left out of the users to visit.
DropRowTeachers(p) ==
  LET c == req[p].class IN
  /\ Dropping(p, "got") /\ view[p].meetings = {} /\ lockC[c] = None
  /\ Goto(p, "uncache")
  /\ class' = [class EXCEPT ![c] = None]
  /\ todo'  = [todo EXCEPT ![p] = view[p].teacher]
  /\ orphaned' = orphaned \union ((Rostered(c) \ Roster(view[p])) \X {c})
  /\ UNCHANGED <<userClass, progress, meetingRows, cache, locks, req, view, list, tx,
                 stray, halved, clobbered, taint>>

DropRow(p) ==
  LET c == req[p].class  seen == Roster(view[p]) IN
  /\ Dropping(p, "got") /\ view[p].meetings = {} /\ lockC[c] = None
  /\ Goto(p, "uncache")
  /\ class' = [class EXCEPT ![c] = None]
  /\ todo'  = [todo EXCEPT ![p] = seen]
  /\ view'  = [view EXCEPT ![p] = EmptyRow]
  /\ orphaned' = orphaned \union ((Rostered(c) \ seen) \X {c})
  /\ UNCHANGED <<userClass, progress, meetingRows, cache, locks, req, list, tx,
                 stray, halved, clobbered, taint>>

\* Mutant: the hash of the deleted class stays in the cache.
DropUncacheForgets(p) ==
  /\ Dropping(p, "uncache") /\ Goto(p, "purge")
  /\ UNCHANGED <<db, cache, locks, local, history>>

DropUncache(p) ==
  /\ Dropping(p, "uncache") /\ Goto(p, "purge")
  /\ cClass' = [cClass EXCEPT ![req[p].class] = None]
  /\ UNCHANGED <<db, cUser, locks, local, history>>

\* Mutant: `continue` comes before the step to the next user.
PurgeReadStays(p) ==
  LET c == req[p].class IN
  /\ Dropping(p, "purge")
  /\ \E u \in todo[p] :
       IF c \in Listed(u)
       THEN /\ req'  = [req EXCEPT ![p].user = u]
            /\ list' = [list EXCEPT ![p] = userClass[u] \ {c}]
            /\ Goto(p, "purgeWrite")
       ELSE UNCHANGED <<pc, req, list>>
  /\ UNCHANGED <<db, cache, locks, view, tx, todo, history>>

PurgeRead(p) ==
  LET c == req[p].class IN
  /\ Dropping(p, "purge")
  /\ \E u \in todo[p] :
       IF c \in Listed(u)
       THEN /\ req'  = [req EXCEPT ![p].user = u]
            /\ list' = [list EXCEPT ![p] = userClass[u] \ {c}]
            /\ Goto(p, "purgeWrite") /\ UNCHANGED todo
       ELSE /\ todo' = [todo EXCEPT ![p] = @ \ {u}]
            /\ UNCHANGED <<pc, req, list>>
  /\ UNCHANGED <<db, cache, locks, view, tx, history>>

PurgeWrite(p) ==
  LET u == req[p].user  c == req[p].class IN
  /\ Dropping(p, "purgeWrite") /\ lockU[u] = None
  /\ Goto(p, "purgeCache")
  /\ userClass' = [userClass EXCEPT ![u] = list[p]]
  /\ todo' = [todo EXCEPT ![p] = @ \ {u}]
  /\ clobbered' = IF list[p] = userClass[u] \ {c} THEN clobbered ELSE clobbered \union {u}
  /\ UNCHANGED <<class, progress, meetingRows, cache, locks, req, view, list, tx,
                 stray, halved, orphaned, taint>>

PurgeCache(p) ==
  LET u == req[p].user IN
  /\ Dropping(p, "purgeCache") /\ Goto(p, "purge")
  /\ cUser' = [cUser EXCEPT ![u] = list[p]]
  /\ taint' = IF list[p] = userClass[u] /\ lockU[u] = None THEN taint
              ELSE taint \union UserKey(p)
  /\ UNCHANGED <<db, cClass, locks, local, stray, halved, clobbered, orphaned>>

DropDone(p) ==
  /\ Dropping(p, "purge") /\ todo[p] = {} /\ Return(p)
  /\ UNCHANGED <<db, cache, locks, history>>

\* A user whose UPDATE or cache call fails is skipped (`continue`).
PurgeSkip(p) ==
  LET u == req[p].user  c == req[p].class IN
  /\ "drop" \in Failing /\ req[p].op = "drop" /\ pc[p] \in {"purgeWrite", "purgeCache"}
  /\ Goto(p, "purge")
  /\ todo' = [todo EXCEPT ![p] = @ \ {u}]
  /\ IF pc[p] = "purgeWrite"
     THEN orphaned' = orphaned \union {<<u, c>>} /\ UNCHANGED taint
     ELSE taint' = taint \union UserKey(p) /\ UNCHANGED orphaned
  /\ UNCHANGED <<db, cache, locks, req, view, list, tx, stray, halved, clobbered>>

\* An error of cache.Del, or a crash, ends the call with users still to visit.
DropFail(p) ==
  /\ "drop" \in Failing /\ req[p].op = "drop"
  /\ pc[p] \in {"uncache", "purge", "purgeWrite", "purgeCache"}
  /\ Return(p)
  /\ orphaned' = orphaned \union (todo[p] \X {req[p].class})
  /\ taint' = taint \union (CASE pc[p] = "uncache"    -> ClassKey(p)
                              [] pc[p] = "purgeCache" -> UserKey(p)
                              [] OTHER                -> {})
  /\ UNCHANGED <<db, cache, locks, stray, halved, clobbered>>

\* Before it has written anything, a call that fails just returns.
Abandon(p) ==
  /\ req[p].op \in Failing /\ pc[p] \in {"get", "fill", "got", "relation", "seed", "link"}
  /\ Return(p)
  /\ UNCHANGED <<db, cache, locks, history>>

-----------------------------------------------------------------------------

GetClass(p)   == GetClassHit(p) \/ GetClassMiss(p) \/ GetClassFill(p)
Relation(p)   == RelationHit(p) \/ RelationMiss(p) \/ RelationFill(p)
ChangeUser(p) == \/ ChangeSkip(p) \/ ChangeClass(p) \/ ChangeUserRow(p) \/ ChangeUserGap(p)
                 \/ ChangeUserInsert(p) \/ ChangeProgress(p) \/ ChangeCommit(p)
                 \/ ChangeDeadlock(p)
AddMeeting(p) == MeetInsert(p) \/ MeetExhausted(p) \/ MeetSeed(p) \/ MeetLink(p) \/ MeetCommit(p)
DeleteClass(p) == \/ DropRefuse(p) \/ DropRow(p) \/ DropUncache(p) \/ PurgeRead(p)
                  \/ PurgeWrite(p) \/ PurgeCache(p) \/ DropDone(p)
Fail(p)       == ChangeFail(p) \/ MeetFail(p) \/ PurgeSkip(p) \/ DropFail(p) \/ Abandon(p)

\* What a handler does once it has been called.
Serve(p) == GetClass(p) \/ Relation(p) \/ ChangeUser(p) \/ AddMeeting(p) \/ DeleteClass(p)

Next == \E p \in Procs : Call(p) \/ Serve(p) \/ Fail(p)

Spec == Init /\ [][Next]_vars

\* InnoDB grants row locks in the order they were asked for, so a handler that
\* waits for one gets its turn however often others take the lock.
FairSpec == Spec /\ \A p \in Procs : SF_vars(Serve(p))

-----------------------------------------------------------------------------
(* Properties                                                              *)

Keys == ({"class"} \X Classes) \union ({"user"} \X Users)

Labels == {"idle", "get", "fill", "got", "relation", "user", "insert", "progress", "commit",
           "seed", "link", "linked", "uncache", "purge", "purgeWrite", "purgeCache"}

\* Shape of the rows, the cache, the locks and the handlers' variables.
TypeOK ==
  /\ class       \in [Classes -> ClassRow \union {None}]
  /\ userClass   \in [Users -> (SUBSET Classes) \union {None}]
  /\ progress    \in SUBSET (Users \X Meetings)
  /\ meetingRows \in SUBSET Meetings
  /\ cClass      \in [Classes -> ClassRow \union {None}]
  /\ cUser       \in [Users -> (SUBSET Classes) \union {None}]
  /\ lockC       \in [Classes -> Procs \union {None}]
  /\ lockU       \in [Users -> Procs \union {None}]
  /\ gap         \in [Users -> SUBSET Procs]
  /\ pc          \in [Procs -> Labels]
  /\ req         \in [Procs -> Request]
  /\ view        \in [Procs -> ClassRow]
  /\ list        \in [Procs -> SUBSET Classes]
  /\ tx          \in [Procs -> [row: ClassRow, rows: SUBSET (Users \X Meetings),
                                made: SUBSET Meetings]]
  /\ todo        \in [Procs -> SUBSET Users]
  /\ stray       \in SUBSET (Users \X Classes)
  /\ halved      \in SUBSET (Users \X Classes)
  /\ clobbered   \in SUBSET Users
  /\ orphaned    \in SUBSET (Users \X Classes)
  /\ taint       \in SUBSET Keys

\* What p has read FOR UPDATE is still in the database when it commits.
ClassHeld(p) ==
  LET r == req[p]  row == class[r.class] IN
  /\ lockC[r.class] = p /\ row # None
  /\ tx[p].row = IF r.op = "meet"
                 THEN [row EXCEPT !.meetings = row.meetings \union tx[p].made]
                 ELSE [row EXCEPT ![r.role] = IF r.add THEN row[r.role] \union {r.user}
                                                       ELSE row[r.role] \ {r.user}]

ListHeld(p) ==
  LET r == req[p]  u == r.user IN
  /\ lockU[u] = p
  /\ userClass[u] = None => gap[u] = {p}
  /\ list[p] = CASE userClass[u] = None -> {r.class}
               [] userClass[u] # None /\ r.add -> userClass[u] \union {r.class}
               [] userClass[u] # None /\ ~r.add -> userClass[u] \ {r.class}

HoldsRows(p) ==
  LET r == req[p] IN
  /\ r.op = "change" =>
       /\ pc[p] \in {"user", "insert", "progress", "commit"} => ClassHeld(p)
       /\ pc[p] = "insert" => p \in gap[r.user] /\ userClass[r.user] = None
       /\ pc[p] \in {"progress", "commit"} => ListHeld(p)
       /\ pc[p] = "commit" /\ r.add /\ r.role = "student" =>
            {r.user} \X tx[p].row.meetings \subseteq progress \union tx[p].rows
  /\ r.op = "meet" /\ pc[p] = "linked" => ClassHeld(p)
  /\ r.op = "drop" /\ pc[p] \in {"uncache", "purge", "purgeWrite", "purgeCache"} =>
       /\ class[r.class] = None
       /\ pc[p] = "purgeWrite" => userClass[r.user] # None

\* No lost update inside a transaction: from its first SELECT ... FOR UPDATE to
\* its Commit, what a handler will write is what it was asked to change applied
\* to the rows as they are now; a user without a row does not get one meanwhile,
\* and a class that DeleteClass is purging stays deleted.
TransactionsHoldTheirRows == \A p \in Procs : HoldsRows(p)

\* A member of a class finds the class in the list TABLE_USER_CLASS keeps for
\* it, which is what GetClass lets a user in by.  Two things alone break this:
\* a removal in one role while the other role remains, and a DeleteClass that
\* wrote the list from a stale read.
EnrolledAreListed ==
  \A c \in Classes : \A u \in Rostered(c) :
    c \in Listed(u) \/ <<u, c>> \in halved \/ u \in clobbered

\* A user is not let into a class it is not a member of.  Two things alone
\* break this: a removal that inserted the class for a user without a row, and
\* a DeleteClass of another class that wrote the list from a stale read.
ListedAreEnrolled ==
  \A u \in Users : \A c \in Listed(u) :
    class[c] # None =>
      u \in Rostered(c) \/ <<u, c>> \in stray \/ u \in clobbered

\* A deleted class disappears from the users' lists, once DeleteClass has
\* visited them, except for the users it missed: those that joined after its
\* GetClass, those whose update failed, and those a stale write gave it back.
DeletedAreUnlisted ==
  \A u \in Users : \A c \in Listed(u) :
    class[c] = None =>
      \/ \E p \in Procs : req[p].op = "drop" /\ req[p].class = c /\ u \in todo[p]
                          /\ pc[p] \in {"uncache", "purge", "purgeWrite", "purgeCache"}
      \/ <<u, c>> \in stray \union orphaned
      \/ u \in clobbered

\* When a student joins a class, it has a progress row for every meeting the
\* class has at that moment, however meetings are added meanwhile.
NewStudentHasProgress ==
  [][\A c \in Classes :
       class[c] # None /\ class'[c] # None =>
         \A u \in class'[c].student \ class[c].student :
           {u} \X class'[c].meetings \subseteq progress']_vars

\* Outside transactions, a complete class hash equals the row and the cached
\* class list of a user equals its row, unless a rollback left its writes
\* behind or a fill wrote an old row (the keys in taint).
CacheFollowsDatabase ==
  /\ \A c \in Classes :
       cClass[c] # None /\ lockC[c] = None /\ <<"class", c>> \notin taint =>
         \/ cClass[c] = class[c]
         \/ \E p \in Procs : Dropping(p, "uncache") /\ req[p].class = c
  /\ \A u \in Users :
       cUser[u] # None /\ lockU[u] = None /\ <<"user", u>> \notin taint =>
         \/ cUser[u] = userClass[u]
         \/ \E p \in Procs : Dropping(p, "purgeCache") /\ req[p].user = u

Abstract == INSTANCE Enrollment WITH roster <- class

\* The rosters change as Enrollment says: a transaction that rolls back
\* changes none, and one that commits changes one field by one element.
RostersChangeAtomically == Abstract!Spec

\* Every call ends: row locks and gap locks never block a handler for ever.
CallsReturn == \A p \in Procs : pc[p] # "idle" ~> pc[p] = "idle"

=============================================================================
