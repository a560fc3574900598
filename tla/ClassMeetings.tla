--------------------------- MODULE ClassMeetings ---------------------------
(***************************************************************************)
(* The meetings of one class: ClassService.AddMeeting, CopyMeetingTo,      *)
(* EndMeeting, DeleteMeeting, DeleteMeetingPermanently, UpdateMeetingTime, *)
(* with the MeetingService calls they make, and those that change meetings *)
(* alone: ChangeMeeting, ChangeMeetingAlly, SyncMeeting.                   *)
(*                                                                         *)
(* A class row lists its meetings and its deleted meetings (the trash) and *)
(* counts the finished ones; a meeting has a row of its own.  Lists are    *)
(* changed in a transaction on the class row, the counter by relative      *)
(* UPDATEs, a meeting's row by statements of their own: every call is a    *)
(* sequence of commits with cache writes between them.                     *)
(***************************************************************************)
EXTENDS Integers, FiniteSets, Sequences

CONSTANTS
  Meetings, \* the ids AUTO_INCREMENT will give out
  Times,    \* when meetings start; the schedule also has their names, types and durations
  Procs,    \* request handlers
  Scenes,   \* mixes of calls, see ScenesAreScenes
  MaxEnds,  \* bound on the counter of finished meetings
  None

Calls  == {"add", "end", "trash", "destroy", "change", "ally", "sync", "copy"}
Class  == [listed: SUBSET Meetings, trash: SUBSET Meetings, finished: Int]

\* Fields of a meeting; items stands for its lists of coursewares, exams and videos.
Fields == {"ended", "start", "items", "ally"}
Meeting(ended, start, items, ally) ==
  [f \in Fields |-> CASE f = "ended" -> ended [] f = "start" -> start
                       [] f = "items" -> items [] f = "ally"  -> ally]
MeetingInfo == {Meeting(e, t, i, a) : e \in BOOLEAN, t \in Times, i \in BOOLEAN,
                                      a \in Meetings \union {None}}

\* The calls, the ids there are, the times they may have, what a SyncMeeting may be
\* asked to copy and to which meetings, and whether anything may fail.
ASSUME ScenesAreScenes ==
  /\ DOMAIN Scenes # {}
  /\ \A s \in DOMAIN Scenes : /\ Scenes[s].ops \subseteq Calls
                             /\ Scenes[s].ids \subseteq Meetings
                             /\ Scenes[s].times \subseteq Times /\ Scenes[s].times # {}
                             /\ Scenes[s].copied \subseteq SUBSET (Fields \ {"ally"})
                             /\ Scenes[s].targets \subseteq Seq(Meetings) \ {<<>>}
                             /\ Scenes[s].fails \in BOOLEAN
ASSUME SomeMeetings   == Meetings # {}
ASSUME NoneIsNoHash   == None \notin Class \union MeetingInfo /\ \A ms \in SUBSET Meetings : None \notin [ms -> Times]
ASSUME BoundIsNatural == MaxEnds \in Nat
ASSUME FinitelyMany  == IsFiniteSet(Meetings) /\ IsFiniteSet(Procs)

VARIABLES
  scene,    \* the mix of calls this behaviour makes
  class,    \* the committed TABLE_CLASS row
  row,      \* TABLE_MEETING: None for an id that has no row
  used,     \* ids given out
  cClass,   \* the class's hash, if NewClassInfoFromMap accepts it
  cMeeting, \* the meetings' hashes, if NewMeetingInfoFromMap accepts them
  schedule, \* the schedule field of the class's hash: when each meeting starts
  pc, req,
  seen,     \* ClassInfo that GetClass returned
  info,     \* MeetingInfos that GetMeeting returned
  step,     \* which of its meetings a handler is about to write to the cache
  tx,       \* the lists a transaction will commit
  read,     \* the starts that UpdateMeetingTime has read so far
  missed,   \* <<meeting, MeetingInfo>> that it found in the database only, or <<>>
  miscount, \* history: meetings whose end was not counted exactly once
  orphaned, \* history: meetings whose AddMeeting or deletion stopped midway
  skipped,  \* history: whether the last handler, if any, left the schedule unwritten or stale
  overtaken, \* history: handlers whose UpdateMeetingTime has read a start that is out of date
  stale,    \* history: <<meeting, field>> whose hash was written out of order with the row
  taint     \* history: whether the lists in the hash were

db      == <<scene, class, row, used>>
cache   == <<cClass, cMeeting, schedule>>
reading == <<read, missed>>
local   == <<req, seen, info, step, tx, reading>>
history == <<miscount, orphaned, skipped, overtaken, stale, taint>>
vars    == <<db, cache, pc, local, history>>

Empty == [listed |-> {}, trash |-> {}, finished |-> 0]

Ids     == Scenes[scene].ids
Starts  == Scenes[scene].times
MayFail == Scenes[scene].fails
Start   == CHOOSE t \in Starts : TRUE

rows  == {m \in Meetings : row[m] # None}
ended == {m \in rows : row[m]["ended"]}

\* A request: the meeting, others that it names, what to copy, when to start.
Request(op, m, to, fields, t) == [op |-> op, meeting |-> m, to |-> to, fields |-> fields, start |-> t]
NoStarts == [m \in {} |-> CHOOSE t \in Times : TRUE]
AnyOp == Request("add", CHOOSE m \in Meetings : TRUE, <<>>, {}, CHOOSE t \in Times : TRUE)

Goto(p, label) == pc' = [pc EXCEPT ![p] = label]

Forget(p) == read' = [read EXCEPT ![p] = NoStarts] /\ missed' = [missed EXCEPT ![p] = <<>>]

Return(p) ==
  /\ Goto(p, "idle")
  /\ req'  = [req EXCEPT ![p] = AnyOp] /\ seen' = [seen EXCEPT ![p] = Empty]
  /\ info' = [info EXCEPT ![p] = <<>>] /\ step' = [step EXCEPT ![p] = 1]
  /\ tx'   = [tx EXCEPT ![p] = Empty]    /\ Forget(p)

At(p, label, op) == pc[p] = label /\ req[p].op = op

\* SELECT ... FOR UPDATE and UPDATE wait for the transaction that holds the row.
ClassFree      == \A p \in Procs : pc[p] # "commit"
MeetingFree(m) == \A p \in Procs : pc[p] = "wiped" => req[p].meeting # m

\* What GetMeeting returned of the meeting a handler works on, or copies from.
Over(p) == info[p] # <<>> /\ info[p][1]["ended"]

\* The meetings a handler writes to, the fields, and what it writes there.
Targets(p) == IF req[p].op = "sync" THEN req[p].to ELSE <<req[p].meeting>>
Sets(p) ==
  CASE req[p].op = "end"    -> {"ended"}
    [] req[p].op = "change" -> {"start"}
    [] req[p].op = "ally"   -> {"ally"}
    [] req[p].op = "copy"   -> {"items"}
    [] OTHER                -> req[p].fields
New(p) ==
  CASE req[p].op = "end"    -> [info[p][1] EXCEPT !["ended"] = TRUE]
    [] req[p].op = "change" -> [info[p][1] EXCEPT !["start"] = req[p].start]
    [] req[p].op = "ally"   -> [info[p][1] EXCEPT !["ally"] = req[p].to[1]]
    [] OTHER                -> info[p][1]
Written(r, p) ==
  IF r = None THEN None ELSE [f \in Fields |-> IF f \in Sets(p) THEN New(p)[f] ELSE r[f]]

\* p has written field f of m to the row and is about to write it to the hash.
Writes(p, m, f) ==
  /\ pc[p] \in {"endCache", "put"} /\ f \in Sets(p)
  /\ \E i \in step[p]..Len(Targets(p)) : Targets(p)[i] = m

\* Fields of the meetings ms that p writes while others write other values to them.
Crossed(p, ms) ==
  {x \in ms \X Sets(p) : \E q \in Procs \ {p} : Writes(q, x[1], x[2]) /\ New(q)[x[2]] # New(p)[x[2]]}
Whole(m) == {m} \X Fields

\* The allies that meetings have had from the start, where calls set them.
Allied == IF "ally" \in Scenes[scene].ops THEN Ids \union {None} ELSE {None}

\* A class with some meetings, none of them over, that the cache may not have.
Init ==
  /\ scene \in DOMAIN Scenes
  /\ used \in SUBSET Ids
  /\ \E ally \in Allied :
       row = [m \in Meetings |-> IF m \in used THEN Meeting(FALSE, Start, TRUE, ally) ELSE None]
  /\ class = [Empty EXCEPT !.listed = used]
  /\ cClass \in {None, class} /\ schedule = None
  /\ cMeeting = [m \in Meetings |-> None]
  /\ pc   = [p \in Procs |-> "idle"] /\ req  = [p \in Procs |-> AnyOp]
  /\ seen = [p \in Procs |-> Empty]  /\ info = [p \in Procs |-> <<>>]
  /\ step = [p \in Procs |-> 1]      /\ tx   = [p \in Procs |-> Empty]
  /\ read = [p \in Procs |-> NoStarts] /\ missed = [p \in Procs |-> <<>>]
  /\ miscount = {} /\ orphaned = {} /\ skipped = (used # {}) /\ overtaken = {} /\ stale = {} /\ taint = FALSE

-----------------------------------------------------------------------------
(* GetClass, which most calls begin with and UpdateMeetingTime repeats, and *)
(* GetMeeting, of the meeting and of the others that the request names.    *)

\* What a handler may be asked to do.
Asked(op) ==
  CASE op = "add"    -> {Request(op, m, <<>>, {}, t) : m \in {AnyOp.meeting}, t \in Starts}
    [] op = "change" -> {Request(op, m, <<>>, {}, t) : m \in Ids, t \in Starts}
    [] op = "ally"   -> {Request(op, m, <<a>>, {}, AnyOp.start) : m \in Ids, a \in Ids}
    [] op = "sync"   -> {Request(op, m, to, fields, AnyOp.start) :
                           m \in Ids, to \in Scenes[scene].targets, fields \in Scenes[scene].copied}
    [] OTHER         -> {Request(op, m, <<>>, {}, AnyOp.start) : m \in Ids}

\* onHttpSetMeetingAlly, onHttpSyncMeeting and onHttpCopyMeeting do not look at the class.
OfMeetings == {"ally", "sync", "copy"}

Call(p) ==
  /\ pc[p] = "idle"
  /\ \E op \in Scenes[scene].ops : \E r \in Asked(op) :
       /\ op = "end" => class.finished + Cardinality(Procs) <= MaxEnds
       /\ req' = [req EXCEPT ![p] = r]
       /\ Goto(p, IF op \in OfMeetings THEN "meet" ELSE "get")
  /\ UNCHANGED <<db, cache, seen, info, step, tx, reading, history>>

GetClassHit(p) ==
  /\ pc[p] \in {"get", "time"} /\ cClass # None
  /\ Goto(p, IF pc[p] = "get" THEN "do" ELSE "times")
  /\ seen' = [seen EXCEPT ![p] = cClass]
  /\ UNCHANGED <<db, cache, req, info, step, tx, reading, history>>

GetClassMiss(p) ==
  /\ pc[p] \in {"get", "time"} /\ cClass = None
  /\ Goto(p, IF pc[p] = "get" THEN "fill" ELSE "timeFill")
  /\ seen' = [seen EXCEPT ![p] = class]
  /\ UNCHANGED <<db, cache, req, info, step, tx, reading, history>>

GetClassFill(p) ==
  /\ pc[p] \in {"fill", "timeFill"}
  /\ Goto(p, IF pc[p] = "fill" THEN "do" ELSE "times")
  /\ cClass' = seen[p]
  /\ taint'  = (taint \/ seen[p] # class \/ ~ClassFree)
  /\ UNCHANGED <<db, cMeeting, schedule, local, miscount, orphaned, skipped, overtaken, stale>>

\* No authority, a closed class, a meeting that has not started, an invalid name.
Refuse(p) ==
  /\ \/ pc[p] = "do" \/ At(p, "end", "end")
     \/ pc[p] = "write" /\ req[p].op # "copy"
     \/ pc[p] = "meet" /\ req[p].op \in OfMeetings
  /\ Return(p)
  /\ UNCHANGED <<db, cache, history>>

\* The meeting that GetMeeting looks for, or has found.
Meant(p, i) == IF i = 1 THEN req[p].meeting ELSE req[p].to[i - 1]
Wanted(p)   == Meant(p, Len(info[p]) + 1)
Got(p)      == Meant(p, Len(info[p]))

\* What follows when a handler has got n MeetingInfos.
AfterMeeting(p, n) ==
  Goto(p, IF n <= Len(req[p].to) THEN "meet"
          ELSE CASE req[p].op = "end"     -> "end"
                 [] req[p].op = "trash"   -> "move"
                 [] req[p].op = "destroy" -> "wipe"
                 [] req[p].op = "copy"    -> "get"
                 [] OTHER                 -> "write")

\* Handlers of the class look the meeting up in its list first.
OfClass(p) == pc[p] = "do" /\ req[p].op \notin {"add", "copy"}

\* ERR_NO_MEETING of the class, or of the database.
NoMeeting(p) ==
  /\ \/ OfClass(p) /\ req[p].meeting \notin seen[p].listed
     \/ pc[p] = "meet" /\ cMeeting[Wanted(p)] = None /\ Wanted(p) \notin rows
  /\ Return(p)
  /\ UNCHANGED <<db, cache, history>>

FindMeeting(p) ==
  /\ OfClass(p) /\ req[p].meeting \in seen[p].listed
  /\ Goto(p, IF req[p].op = "destroy" THEN "move" ELSE "meet")
  /\ UNCHANGED <<db, cache, local, history>>

MeetingHit(p) ==
  LET m == Wanted(p) IN
  /\ pc[p] = "meet" /\ cMeeting[m] # None /\ AfterMeeting(p, Len(info[p]) + 1)
  /\ info' = [info EXCEPT ![p] = Append(@, cMeeting[m])]
  /\ UNCHANGED <<db, cache, req, seen, step, tx, reading, history>>

\* What GetMeeting's SELECT reads of a row: not its ally.
Selected(m) == [row[m] EXCEPT !["ally"] = None]

\* GetMeeting writes to the hash what it has read; a hash that it creates has no
\* ally.  Recorded are the fields that it changes to what is not in the row.
FillHash(m, r) ==
  LET new == [r EXCEPT !["ally"] = IF cMeeting[m] = None THEN None ELSE cMeeting[m]["ally"]]
      off == {f \in Fields : (cMeeting[m] = None \/ cMeeting[m][f] # new[f])
                            /\ (m \notin rows \/ row[m][f] # new[f])}
  IN  cMeeting' = [cMeeting EXCEPT ![m] = new] /\ stale' = stale \union ({m} \X off)

MeetingMiss(p) ==
  LET m == Wanted(p) IN
  /\ pc[p] = "meet" /\ cMeeting[m] = None /\ m \in rows /\ Goto(p, "meetFill")
  /\ info' = [info EXCEPT ![p] = Append(@, Selected(m))]
  /\ UNCHANGED <<db, cache, req, seen, step, tx, reading, history>>

MeetingFill(p) ==
  /\ pc[p] = "meetFill" /\ AfterMeeting(p, Len(info[p]))
  /\ FillHash(Got(p), info[p][Len(info[p])])
  /\ UNCHANGED <<db, cClass, schedule, local, miscount, orphaned, skipped, overtaken, taint>>

-----------------------------------------------------------------------------
(* AddMeeting: the meeting, its progress rows and hash, then the list.     *)
(* CopyMeetingTo calls it when it has got the meeting and the class, and   *)
(* then, see WriteRow, copies the lists of the meeting.                    *)

Adds == {"add", "copy"}

NewMeeting(p) ==
  Meeting(FALSE, IF req[p].op = "copy" THEN info[p][1]["start"] ELSE req[p].start, FALSE, None)

AddInsert(p) ==
  /\ pc[p] = "do" /\ req[p].op \in Adds /\ Goto(p, "seed")
  /\ \E m \in Ids \ used :
       /\ used' = used \union {m} /\ row' = [row EXCEPT ![m] = NewMeeting(p)]
       /\ req'  = [req EXCEPT ![p].meeting = m]
  /\ UNCHANGED <<scene, class, cache, seen, info, step, tx, reading, history>>

\* No id is left: the bound on AUTO_INCREMENT.
AddExhausted(p) ==
  /\ pc[p] = "do" /\ req[p].op \in Adds /\ used = Ids /\ Return(p)
  /\ UNCHANGED <<db, cache, history>>

AddSeed(p) ==
  LET m == req[p].meeting IN
  /\ pc[p] = "seed" /\ Goto(p, "move")
  /\ cMeeting' = [cMeeting EXCEPT ![m] = NewMeeting(p)]
  /\ stale'    = IF row[m] = NewMeeting(p) THEN stale ELSE stale \union Whole(m)
  /\ UNCHANGED <<db, cClass, schedule, local, miscount, orphaned, skipped, overtaken, taint>>

SetLists(listed, trash) ==
  cClass' = IF cClass = None THEN None ELSE [cClass EXCEPT !.listed = listed, !.trash = trash]

\* Mutant: the SELECT has lost its FOR UPDATE.
AddLinkUnlocked(p) ==
  LET listed == class.listed \union {req[p].meeting} IN
  /\ pc[p] = "move" /\ req[p].op \in Adds /\ Goto(p, "commit")
  /\ tx' = [tx EXCEPT ![p].listed = listed]
  /\ cClass' = IF cClass = None THEN None ELSE [cClass EXCEPT !.listed = listed]
  /\ UNCHANGED <<db, cMeeting, schedule, req, seen, info, step, reading, history>>

\* The transaction of AddMeeting: lock the row, add to the list, write the hash.
AddLink(p) ==
  LET listed == class.listed \union {req[p].meeting} IN
  /\ pc[p] = "move" /\ req[p].op \in Adds /\ ClassFree /\ Goto(p, "commit")
  /\ tx' = [tx EXCEPT ![p].listed = listed]
  /\ cClass' = IF cClass = None THEN None ELSE [cClass EXCEPT !.listed = listed]
  /\ UNCHANGED <<db, cMeeting, schedule, req, seen, info, step, reading, history>>

\* Mutant: AddMeeting does not call UpdateMeetingTime.
AddCommitLast(p) ==
  /\ pc[p] = "commit" /\ req[p].op \in Adds /\ Return(p)
  /\ class' = [class EXCEPT !.listed = tx[p].listed]
  /\ UNCHANGED <<scene, row, used, cache, history>>

AddCommit(p) ==
  /\ pc[p] = "commit" /\ req[p].op \in Adds /\ Goto(p, "time")
  /\ class' = [class EXCEPT !.listed = tx[p].listed]
  /\ UNCHANGED <<scene, row, used, cache, local, history>>

-----------------------------------------------------------------------------
(* EndMeeting: the meeting's row and hash, then the counter of the class   *)
(* and its copy in the cache, which is what GetClass returned plus one.    *)

EndClosed(p) ==
  /\ At(p, "end", "end") /\ Over(p) /\ Return(p)
  /\ UNCHANGED <<db, cache, history>>

EndRow(p) ==
  LET m == req[p].meeting IN
  /\ At(p, "end", "end") /\ ~Over(p) /\ MeetingFree(m) /\ Goto(p, "endCache")
  /\ row'      = [row EXCEPT ![m] = Written(@, p)]
  /\ stale'    = stale \union Crossed(p, {m})
  /\ miscount' = IF m \in (rows \intersect class.listed) \ ended
                 THEN miscount ELSE miscount \union {m}
  /\ UNCHANGED <<scene, class, used, cache, local, orphaned, skipped, overtaken, taint>>

\* Mutant: the meeting's hash is left as it was.
EndCacheForgets(p) ==
  /\ At(p, "endCache", "end") /\ Goto(p, "count")
  /\ UNCHANGED <<db, cache, local, history>>

EndCache(p) ==
  LET m == req[p].meeting IN
  /\ At(p, "endCache", "end") /\ Goto(p, "count")
  /\ cMeeting' = [cMeeting EXCEPT ![m] = Written(@, p)]
  /\ UNCHANGED <<db, cClass, schedule, local, history>>

CountRow(p) ==
  /\ At(p, "count", "end") /\ ClassFree /\ Goto(p, "countCache")
  /\ class' = [class EXCEPT !.finished = @ + 1]
  /\ UNCHANGED <<scene, row, used, cache, local, history>>

CountCache(p) ==
  /\ At(p, "countCache", "end") /\ Goto(p, "time")
  /\ cClass' = IF cClass = None THEN None
               ELSE [cClass EXCEPT !.finished = seen[p].finished + 1]
  /\ UNCHANGED <<db, cMeeting, schedule, local, history>>

-----------------------------------------------------------------------------
(* DeleteMeeting moves a meeting from one list to the other.               *)

\* DECR, and back to 0 below it.
Decreased(n) == IF n > 0 THEN n - 1 ELSE 0

TrashRow(p) ==
  LET m      == req[p].meeting
      listed == class.listed \ {m}
      trash  == class.trash \union {m}
  IN
  /\ At(p, "move", "trash") /\ ClassFree
  /\ tx' = [tx EXCEPT ![p].listed = listed, ![p].trash = trash]
  /\ IF listed = class.listed /\ trash = class.trash
     THEN Goto(p, "recache") /\ UNCHANGED cClass
     ELSE /\ Goto(p, "commit")
          /\ cClass' = IF cClass = None THEN None
                       ELSE [listed |-> listed, trash |-> trash,
                             finished |-> IF Over(p) THEN Decreased(cClass.finished)
                                          ELSE cClass.finished]
  /\ UNCHANGED <<db, cMeeting, schedule, req, seen, info, step, reading, history>>

\* Mutant: a finished meeting stays counted.
TrashCommitCounts(p) ==
  LET m == req[p].meeting IN
  /\ At(p, "commit", "trash") /\ Goto(p, "time")
  /\ class' = [class EXCEPT !.listed = tx[p].listed, !.trash = tx[p].trash]
  /\ miscount' = IF Over(p) = (m \in ended /\ m \in class.listed)
                 THEN miscount ELSE miscount \union {m}
  /\ UNCHANGED <<scene, row, used, cache, local, orphaned, skipped, overtaken, stale, taint>>

TrashCommit(p) ==
  LET m == req[p].meeting IN
  /\ At(p, "commit", "trash") /\ Goto(p, "time")
  /\ class' = [listed |-> tx[p].listed, trash |-> tx[p].trash,
               finished |-> IF Over(p) THEN class.finished - 1 ELSE class.finished]
  /\ miscount' = IF Over(p) = (m \in ended /\ m \in class.listed)
                 THEN miscount ELSE miscount \union {m}
  /\ UNCHANGED <<scene, row, used, cache, local, orphaned, skipped, overtaken, stale, taint>>

-----------------------------------------------------------------------------
(* DeleteMeetingPermanently takes the meeting out of the trash, then       *)
(* deletes it.                                                             *)

DestroyRow(p) ==
  LET m     == req[p].meeting
      trash == class.trash \ {m}
  IN
  /\ At(p, "move", "destroy") /\ ClassFree
  /\ tx' = [tx EXCEPT ![p].trash = trash]
  /\ IF m \in class.trash
     THEN /\ Goto(p, "commit")
          /\ cClass' = IF cClass = None THEN None ELSE [cClass EXCEPT !.trash = trash]
     ELSE Goto(p, "recache") /\ UNCHANGED cClass
  /\ UNCHANGED <<db, cMeeting, schedule, req, seen, info, step, reading, history>>

\* Mutant: the meeting is not deleted.
DestroyCommitLast(p) ==
  /\ At(p, "commit", "destroy") /\ Return(p)
  /\ class' = [class EXCEPT !.trash = tx[p].trash]
  /\ UNCHANGED <<scene, row, used, cache, history>>

DestroyCommit(p) ==
  /\ At(p, "commit", "destroy") /\ Goto(p, "meet")
  /\ class' = [class EXCEPT !.trash = tx[p].trash]
  /\ UNCHANGED <<scene, row, used, cache, local, history>>

\* The lists have not changed: after the rollback they are written to the cache.
Recache(p) ==
  /\ pc[p] = "recache"
  /\ IF req[p].op = "trash" THEN Goto(p, "time") /\ SetLists(tx[p].listed, tx[p].trash)
     ELSE /\ Goto(p, "meet")
          /\ cClass' = IF cClass = None THEN None ELSE [cClass EXCEPT !.trash = tx[p].trash]
  /\ taint' = (taint \/ ~ClassFree \/ tx[p].trash # class.trash
                     \/ (req[p].op = "trash" /\ tx[p].listed # class.listed))
  /\ UNCHANGED <<db, cMeeting, schedule, local, miscount, orphaned, skipped, overtaken, stale>>

\* MeetingService.DeleteMeeting: DELETE, DEL, COMMIT.
WipeRow(p) ==
  LET m == req[p].meeting IN
  /\ pc[p] = "wipe" /\ MeetingFree(m) /\ Goto(p, "wiped")
  /\ cMeeting' = [cMeeting EXCEPT ![m] = None]
  /\ UNCHANGED <<db, cClass, schedule, local, history>>

WipeCommit(p) ==
  LET m == req[p].meeting IN
  /\ pc[p] = "wiped" /\ Return(p)
  /\ row' = [row EXCEPT ![m] = None]
  /\ miscount' = IF m \in ended \intersect class.listed THEN miscount \union {m} ELSE miscount
  /\ stale'   = IF cMeeting[m] # None THEN stale \union Whole(m) ELSE stale
  /\ UNCHANGED <<scene, class, used, cache, orphaned, skipped, overtaken, taint>>

-----------------------------------------------------------------------------
(* UpdateMeetingTime: GetMeeting of each meeting of the class, then the    *)
(* schedule, which nothing keeps from having been overtaken meanwhile.     *)

Timing == {"time", "timeFill", "times", "timesFill"}

\* CopyMeetingTo goes on when the meeting is added, whatever became of the schedule.
AfterTimes(p) ==
  IF req[p].op = "copy" THEN Goto(p, "write") /\ Forget(p) /\ UNCHANGED <<req, seen, info, step, tx>>
  ELSE Return(p)

\* The start of m in the cache may not be that of its row.
Doubtful(m) ==
  cMeeting[m] # None /\ (<<m, "start">> \in stale \/ \E q \in Procs : Writes(q, m, "start"))

\* The meetings of the class that are still to be read: the model takes them in any order.
Unread(p) == seen[p].listed \ DOMAIN read[p]

Noted(p, m, t) == read' = [read EXCEPT ![p] = [x \in DOMAIN @ \union {m} |-> IF x = m THEN t ELSE @[x]]]

TimeHit(p) ==
  /\ pc[p] = "times" /\ Goto(p, "times")
  /\ \E m \in Unread(p) :
       /\ cMeeting[m] # None /\ Noted(p, m, cMeeting[m]["start"])
       /\ overtaken' = IF Doubtful(m) THEN overtaken \union {p} ELSE overtaken
  /\ UNCHANGED <<db, cache, req, seen, info, step, tx, missed, miscount, orphaned, skipped,
                 stale, taint>>

TimeMiss(p) ==
  /\ pc[p] = "times" /\ Goto(p, "timesFill")
  /\ \E m \in Unread(p) :
       /\ cMeeting[m] = None /\ m \in rows /\ Noted(p, m, row[m]["start"])
       /\ missed' = [missed EXCEPT ![p] = <<m, Selected(m)>>]
  /\ UNCHANGED <<db, cache, req, seen, info, step, tx, history>>

TimeFill(p) ==
  /\ pc[p] = "timesFill" /\ Goto(p, "times")
  /\ FillHash(missed[p][1], missed[p][2])
  /\ missed' = [missed EXCEPT ![p] = <<>>]
  /\ UNCHANGED <<db, cClass, schedule, req, seen, info, step, tx, read, miscount, orphaned, skipped,
                 overtaken, taint>>

\* ERR_NO_MEETING: the schedule stays as it was.
TimeGone(p) ==
  /\ pc[p] = "times" /\ AfterTimes(p)
  /\ \E m \in Unread(p) : cMeeting[m] = None /\ m \notin rows
  /\ skipped' = TRUE /\ overtaken' = overtaken \ {p}
  /\ UNCHANGED <<db, cache, miscount, orphaned, stale, taint>>

\* The schedule is written, of the meetings that GetClass has listed.
Reschedule(p) ==
  /\ pc[p] = "times" /\ Unread(p) = {} /\ AfterTimes(p)
  /\ schedule' = read[p]
  /\ skipped'  = (seen[p].listed # class.listed \/ p \in overtaken)
  /\ overtaken' = overtaken \ {p}
  /\ UNCHANGED <<db, cClass, cMeeting, miscount, orphaned, stale, taint>>

-----------------------------------------------------------------------------
(* ChangeMeeting, ChangeMeetingAlly, SyncMeeting and the end of            *)
(* CopyMeetingTo: one UPDATE of what is decided by what GetMeeting         *)
(* returned, then the fields of each hash.                                 *)

\* Whether onHttpChangeMeeting calls UpdateMeetingTime.
Changes(p) == req[p].op = "change" /\ req[p].start # info[p][1]["start"]

\* SyncMeeting copies the end of a meeting without counting it, and its start
\* without UpdateMeetingTime.
WriteRow(p) ==
  LET ms == {Targets(p)[i] : i \in DOMAIN Targets(p)}
      Differs(m, f) == f \in Sets(p) /\ m \in rows /\ row[m][f] # New(p)[f]
  IN
  /\ pc[p] = "write" /\ (\A m \in ms : MeetingFree(m)) /\ Goto(p, "put")
  /\ row'      = [m \in Meetings |-> IF m \in ms THEN Written(row[m], p) ELSE row[m]]
  /\ stale'    = stale \union Crossed(p, ms)
  /\ miscount' = miscount \union {m \in ms : Differs(m, "ended")}
  /\ skipped'  = (skipped \/ \E m \in ms \intersect class.listed : Differs(m, "start") /\ ~Changes(p))
  /\ overtaken' = overtaken \union {q \in Procs : \E m \in ms \intersect DOMAIN read[q] : Differs(m, "start")}
  /\ UNCHANGED <<scene, class, used, cache, local, orphaned, taint>>

PutField(p) ==
  LET m == Targets(p)[step[p]] IN
  /\ pc[p] = "put"
  /\ cMeeting' = [cMeeting EXCEPT ![m] = Written(@, p)]
  /\ IF step[p] < Len(Targets(p)) THEN step' = [step EXCEPT ![p] = @ + 1] /\ UNCHANGED <<pc, req, seen, info, tx, reading>>
     ELSE IF Changes(p) THEN Goto(p, "time") /\ UNCHANGED local
     ELSE Return(p)
  /\ UNCHANGED <<db, cClass, schedule, history>>

-----------------------------------------------------------------------------
(* Failures.                                                               *)

Rollback(p) ==
  LET m == req[p].meeting IN
  /\ MayFail /\ pc[p] = "commit" /\ Return(p) /\ taint' = TRUE
  /\ orphaned' = IF req[p].op \in Adds THEN orphaned \union {m} ELSE orphaned
  /\ UNCHANGED <<db, cache, miscount, skipped, overtaken, stale>>

\* A call that fails, or a handler that dies, leaves the rest of its steps undone.
Abandon(p) ==
  LET m == req[p].meeting IN
  /\ MayFail /\ Return(p)
  /\ pc[p] \in {"seed", "move", "endCache", "count", "countCache", "recache", "meet", "meetFill",
                "wipe", "time", "timeFill", "times", "timesFill", "write", "put"}
  /\ orphaned' = IF \/ req[p].op \in Adds /\ pc[p] \in {"seed", "move"}
                    \/ req[p].op = "destroy" /\ m \notin class.listed \union class.trash
                 THEN orphaned \union {m} ELSE orphaned
  /\ miscount' = IF pc[p] \in {"endCache", "count"} THEN miscount \union {m} ELSE miscount
  /\ skipped'  = (skipped \/ pc[p] \in Timing \/ (pc[p] = "put" /\ Changes(p)))
  /\ overtaken' = overtaken \ {p}
  /\ stale'    = stale \union {x \in Meetings \X Fields : Writes(p, x[1], x[2])}
  /\ UNCHANGED <<db, cache, taint>>

\* UpdateMeetingTime of CopyMeetingTo fails, and the copy goes on.
CopyUntimed(p) ==
  /\ MayFail /\ req[p].op = "copy" /\ pc[p] \in Timing /\ AfterTimes(p)
  /\ skipped' = TRUE /\ overtaken' = overtaken \ {p}
  /\ UNCHANGED <<db, cache, miscount, orphaned, stale, taint>>

-----------------------------------------------------------------------------

GetClass(p)   == GetClassHit(p) \/ GetClassMiss(p) \/ GetClassFill(p) \/ Refuse(p)
GetMeeting(p) == NoMeeting(p) \/ FindMeeting(p) \/ MeetingHit(p) \/ MeetingMiss(p) \/ MeetingFill(p)
AddMeeting(p) == AddInsert(p) \/ AddExhausted(p) \/ AddSeed(p) \/ AddLink(p) \/ AddCommit(p)
EndMeeting(p) == EndClosed(p) \/ EndRow(p) \/ EndCache(p) \/ CountRow(p) \/ CountCache(p)
DeleteMeeting(p) == TrashRow(p) \/ TrashCommit(p) \/ Recache(p)
DeleteMeetingPermanently(p) == DestroyRow(p) \/ DestroyCommit(p) \/ WipeRow(p) \/ WipeCommit(p)
UpdateMeetingTime(p) == TimeHit(p) \/ TimeMiss(p) \/ TimeFill(p) \/ TimeGone(p) \/ Reschedule(p)

Next == \E p \in Procs :
  \/ Call(p) \/ GetClass(p) \/ GetMeeting(p) \/ AddMeeting(p) \/ EndMeeting(p)
  \/ DeleteMeeting(p) \/ DeleteMeetingPermanently(p) \/ UpdateMeetingTime(p)
  \/ WriteRow(p) \/ PutField(p) \/ Rollback(p) \/ Abandon(p) \/ CopyUntimed(p)

Spec == Init /\ [][Next]_vars

-----------------------------------------------------------------------------
(* Properties                                                              *)

\* The class's counter of finished meetings is the number of its meetings that
\* have ended, or are about to be counted, unless an EndMeeting and another
\* call on the same meeting overlapped, one failed between its two commits, or
\* SyncMeeting copied the end of another meeting.
FinishedAreCounted ==
  miscount = {} =>
    class.finished + Cardinality({p \in Procs : pc[p] \in {"endCache", "count"}}) =
      Cardinality(class.listed \intersect ended)

\* A meeting is never both in the class and in its trash, although AddMeeting
\* and DeleteMeetingPermanently rewrite one list each and DeleteMeeting both.
ListedOrTrashed == class.listed \intersect class.trash = {}

\* A meeting with a row can be found from its class, or a handler is at it, or
\* its AddMeeting, also that of CopyMeetingTo, or its deletion stopped midway.
MeetingsAreReachable ==
  rows \subseteq class.listed \union class.trash \union orphaned \union
    {req[p].meeting : p \in {q \in Procs :
       \/ req[q].op \in Adds /\ pc[q] \in {"seed", "move", "commit"}
       \/ req[q].op = "destroy" /\ pc[q] \in {"recache", "meet", "meetFill", "wipe", "wiped"}}}

\* The schedule names the meetings of the class with the times of their rows,
\* or a handler is about to write it, unless the last one was overtaken or
\* stopped, or read a time that was out of date.
ScheduleIsCurrent ==
  \/ skipped
  \/ schedule = None /\ class.listed = {}
  \/ /\ schedule # None /\ DOMAIN schedule = class.listed
     /\ \A m \in class.listed \intersect rows : schedule[m] = row[m]["start"]
  \/ \E p \in Procs : pc[p] \in Timing \/ (pc[p] = "put" /\ Changes(p))

\* Outside transactions the lists in the cache are those of the row, and each
\* field of a meeting's hash is that of its row, or is about to be, unless it
\* was written out of order.
CacheFollowsDatabase ==
  /\ cClass # None /\ ClassFree /\ ~taint =>
       cClass.listed = class.listed /\ cClass.trash = class.trash
  /\ \A m \in Meetings, f \in Fields :
       cMeeting[m] # None /\ <<m, f>> \notin stale =>
         \/ m \in rows /\ cMeeting[m][f] = row[m][f]
         \/ \E p \in Procs : Writes(p, m, f)

=============================================================================
