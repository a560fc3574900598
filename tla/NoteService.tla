---------------------------- MODULE NoteService ----------------------------
(***************************************************************************)
(* NoteService: notes that students take on a resource of a meeting.  A    *)
(* note is a field, named by its id, of two Redis hashes: one of its user  *)
(* in the class and one of the resource.  AddNote and DeleteNote answer    *)
(* from the hashes alone; the rows of the database follow, one task at a   *)
(* time, by the worker that takes tasks from the bounded channel of the    *)
(* server.                                                                 *)
(*                                                                         *)
(* Escaped bodies hold neither comma nor underscore, so that a row, which  *)
(* joins notes with commas, is a set of notes.                             *)
(***************************************************************************)
EXTENDS Integers, Sequences, FiniteSets

CONSTANTS
  Notes,    \* what students write, each once
  Lists,    \* a user in a class, or a resource
  mine, of, \* the two lists of a note
  Servers,
  Handlers, \* goroutines that serve one request at a time
  Scenes,   \* the server of each handler, the lists with a row, how often something may fail
  Backlog,  \* capacity of the channel
  MaxId,    \* bound on the counter of Redis
  None

ASSUME SomeNotes    == Notes # {}
ASSUME ListsOfNotes ==
  /\ mine \in [Notes -> Lists] /\ of \in [Notes -> Lists]
  /\ \A n, o \in Notes : mine[n] # of[o]
ASSUME ScenesAreScenes ==
  /\ DOMAIN Scenes # {}
  /\ \A s \in DOMAIN Scenes : /\ Scenes[s].home \in [Handlers -> Servers]
                             /\ Scenes[s].kept \subseteq Lists
                             /\ Scenes[s].faults \in Nat
ASSUME BoundsAreBounds == Backlog \in Nat \ {0} /\ MaxId \in Nat
ASSUME NoneIsNone      ==
  None \notin Notes /\ None \notin 0..MaxId /\ \A S \in SUBSET Notes : None # S

Ids  == 0..MaxId
Task == [isAdd: BOOLEAN, n: Notes]

VARIABLES
  scene,    \* the homes and the bound on failures of this behaviour
  faults,   \* failures so far
  counter,  \* COUNTER_NOTE of Redis
  cnt,      \* the counter of a server, for want of that one
  hash,     \* the hashes: the note at each field
  rows,     \* the committed rows of the database: their notes, if there is one
  tasks,    \* the channel of a server
  work,     \* the task of its worker
  step,     \* what the worker does: no task, the first transaction, the second
  read,     \* the notes its transaction read FOR UPDATE, if it is open
  pc, req,  \* of a handler: its step, and the note it adds or deletes
  id,       \* the id of a note
  answered, \* history: notes AddNote has answered
  deleted,  \* history: notes someone began to delete
  torn,     \* history: notes whose two hash fields were not written or deleted together
  offline,  \* history: notes whose id is the server's
  lost,     \* history: notes a failure kept out of the database
  erased    \* history: notes the worker found in user-class notes and deleted

redis   == <<counter, hash>>
worker  == <<work, step, read>>
handler == <<pc, req>>
history == <<answered, deleted, torn, offline, lost, erased>>
vars    == <<scene, faults, redis, cnt, rows, tasks, worker, handler, id, history>>

Home(h) == Scenes[scene].home[h]
Goto(h, label) == pc' = [pc EXCEPT ![h] = label]

\* The notes that handlers are adding or deleting.
Busy == {req[h] : h \in {g \in Handlers : pc[g] # "idle"}}

SomeNote == CHOOSE n \in Notes : TRUE
NoTask   == [isAdd |-> TRUE, n |-> SomeNote]

MayFail == faults < Scenes[scene].faults /\ faults' = faults + 1

Return(h)  == Goto(h, "idle") /\ req' = [req EXCEPT ![h] = SomeNote]
Another(s) == step' = [step EXCEPT ![s] = "take"] /\ work' = [work EXCEPT ![s] = NoTask]

Init ==
  /\ scene \in DOMAIN Scenes /\ faults = 0
  /\ counter = 0 /\ hash = [l \in Lists |-> [i \in Ids |-> None]]
  /\ cnt  = [s \in Servers |-> 0] /\ tasks = [s \in Servers |-> <<>>]
  /\ work = [s \in Servers |-> NoTask]
  /\ step = [s \in Servers |-> "take"] /\ read = [s \in Servers |-> None]
  /\ rows = [l \in Lists |-> IF l \in Scenes[scene].kept THEN {} ELSE None]
  /\ pc   = [h \in Handlers |-> "idle"] /\ req = [h \in Handlers |-> SomeNote]
  /\ id   = [n \in Notes |-> None]
  /\ answered = {} /\ deleted = {} /\ torn = {} /\ offline = {} /\ lost = {} /\ erased = {}

-----------------------------------------------------------------------------
(* AddNote                                                                 *)

\* assignNoteID: INCR or, if that fails, the counter of the server.
AssignFromRedis ==
  /\ counter < MaxId /\ counter' = counter + 1 /\ UNCHANGED <<cnt, faults>>

AssignFromServer(s) ==
  /\ MayFail /\ cnt[s] < MaxId
  /\ cnt' = [cnt EXCEPT ![s] = @ + 1] /\ UNCHANGED counter

Fresh(n) == id[n] = None

Add(h) ==
  /\ pc[h] = "idle" /\ Goto(h, "putMine")
  /\ \E n \in {m \in Notes : Fresh(m)} :
       /\ req' = [req EXCEPT ![h] = n]
       /\ \/ /\ AssignFromRedis
             /\ id' = [id EXCEPT ![n] = counter + 1] /\ UNCHANGED offline
          \/ /\ AssignFromServer(Home(h))
             /\ id' = [id EXCEPT ![n] = cnt[Home(h)]] /\ offline' = offline \union {n}
  /\ UNCHANGED <<scene, hash, rows, tasks, worker, answered, deleted, torn, lost, erased>>

Put(l, n) == hash' = [hash EXCEPT ![l][id[n]] = n]

PutMine(h) ==
  /\ pc[h] = "putMine" /\ Put(mine[req[h]], req[h]) /\ Goto(h, "putOf")
  /\ UNCHANGED <<scene, faults, counter, cnt, rows, tasks, worker, req, id, history>>

PutOf(h) ==
  /\ pc[h] = "putOf" /\ Put(of[req[h]], req[h]) /\ Goto(h, "sendAdd")
  /\ UNCHANGED <<scene, faults, counter, cnt, rows, tasks, worker, req, id, history>>

\* SetField fails, with or without effect: AddNote returns the error.
PutFails(h) ==
  /\ MayFail /\ pc[h] \in {"putMine", "putOf"} /\ Return(h)
  /\ \/ Put(IF pc[h] = "putMine" THEN mine[req[h]] ELSE of[req[h]], req[h])
     \/ UNCHANGED hash
  /\ torn' = torn \union {req[h]}
  /\ UNCHANGED <<scene, counter, cnt, rows, tasks, worker, id,
                 answered, deleted, offline, lost, erased>>

\* The channel takes the task once there is room.
Send(h, isAdd) ==
  LET s == Home(h) IN
  /\ Len(tasks[s]) < Backlog /\ Return(h)
  /\ tasks' = [tasks EXCEPT ![s] = Append(@, [isAdd |-> isAdd, n |-> req[h]])]

SendAdd(h) ==
  /\ pc[h] = "sendAdd" /\ Send(h, TRUE)
  /\ answered' = answered \union {req[h]}
  /\ UNCHANGED <<scene, faults, redis, cnt, rows, worker, id, deleted, torn, offline, lost, erased>>

-----------------------------------------------------------------------------
(* DeleteNote, of a note GetMyNote showed its user.                        *)

Delete(h) ==
  /\ pc[h] = "idle" /\ Goto(h, "dropMine")
  /\ \E n \in Notes :
       /\ id[n] # None /\ hash[mine[n]][id[n]] = n
       /\ req'     = [req EXCEPT ![h] = n]
       /\ deleted' = deleted \union {n}
       /\ torn'    = IF n \in Busy THEN torn \union {n} ELSE torn
  /\ UNCHANGED <<scene, faults, redis, cnt, rows, tasks, worker, id, answered, offline, lost, erased>>

Drop(l, n) == hash' = [hash EXCEPT ![l][id[n]] = None]

\* An error of DelField is ignored, whether it had its effect or not.
DropFails(h) == MayFail /\ UNCHANGED hash /\ torn' = torn \union {req[h]}

DropMine(h) ==
  /\ pc[h] = "dropMine" /\ Goto(h, "dropOf")
  /\ \/ Drop(mine[req[h]], req[h]) /\ UNCHANGED <<torn, faults>>
     \/ DropFails(h)
  /\ UNCHANGED <<scene, counter, cnt, rows, tasks, worker, req, id,
                 answered, deleted, offline, lost, erased>>

\* Mutant: the resource keeps its field.
DropOfForgets(h) ==
  /\ pc[h] = "dropOf" /\ Goto(h, "sendDelete")
  /\ UNCHANGED <<scene, faults, redis, cnt, rows, tasks, worker, req, id, history>>

DropOf(h) ==
  /\ pc[h] = "dropOf" /\ Goto(h, "sendDelete")
  /\ \/ Drop(of[req[h]], req[h]) /\ UNCHANGED <<torn, faults>>
     \/ DropFails(h)
  /\ UNCHANGED <<scene, counter, cnt, rows, tasks, worker, req, id,
                 answered, deleted, offline, lost, erased>>

\* newNote takes another id for a note whose id is 0.
Renumber(h) ==
  /\ pc[h] = "sendDelete"
  /\ IF id[req[h]] = 0 THEN AssignFromRedis \/ AssignFromServer(Home(h))
                       ELSE UNCHANGED <<counter, cnt, faults>>
  /\ Goto(h, "sendTask")
  /\ UNCHANGED <<scene, hash, rows, tasks, worker, req, id, history>>

SendDelete(h) ==
  /\ pc[h] = "sendTask" /\ Send(h, FALSE)
  /\ UNCHANGED <<scene, faults, redis, cnt, rows, worker, id, history>>

-----------------------------------------------------------------------------
(* The worker of a server: addNoteToDatabase appends the note to the row   *)
(* of its user and then to that of the resource, a transaction each.       *)

List(s) == IF step[s] = "mine" THEN mine[work[s].n] ELSE of[work[s].n]

Holds(s, l) == read[s] # None /\ List(s) = l

\* Row locks exclude each other; two transactions that find no row both hold
\* the gap, where neither may then insert.
Locked(s, l) == \E t \in Servers \ {s} : Holds(t, l) /\ rows[l] # None
Gapped(s, l) == \E t \in Servers \ {s} : Holds(t, l)

Take(s) ==
  /\ step[s] = "take" /\ tasks[s] # <<>>
  /\ work'  = [work EXCEPT ![s] = Head(tasks[s])]
  /\ tasks' = [tasks EXCEPT ![s] = Tail(@)]
  /\ step'  = [step EXCEPT ![s] = IF Head(tasks[s]).isAdd THEN "mine" ELSE "erase"]
  /\ UNCHANGED <<scene, faults, redis, cnt, rows, read, handler, id, history>>

Contents(l) == IF rows[l] = None THEN {} ELSE rows[l]

\* Mutant: the SELECT has lost its FOR UPDATE.
SelectUnlocked(s) ==
  /\ step[s] \in {"mine", "of"} /\ read[s] = None
  /\ read' = [read EXCEPT ![s] = Contents(List(s))]
  /\ UNCHANGED <<scene, faults, redis, cnt, rows, tasks, work, step, handler, id, history>>

Select(s) ==
  /\ step[s] \in {"mine", "of"} /\ read[s] = None /\ ~Locked(s, List(s))
  /\ read' = [read EXCEPT ![s] = Contents(List(s))]
  /\ UNCHANGED <<scene, faults, redis, cnt, rows, tasks, work, step, handler, id, history>>

\* UPDATE or, if there was no row, INSERT; COMMIT.
Store(s) ==
  LET l == List(s) IN
  /\ read[s] # None /\ (rows[l] = None => ~Gapped(s, l))
  /\ rows' = [rows EXCEPT ![l] = read[s] \union {work[s].n}]
  /\ read' = [read EXCEPT ![s] = None]
  /\ IF step[s] = "mine" THEN step' = [step EXCEPT ![s] = "of"] /\ UNCHANGED work
                         ELSE Another(s)
  /\ UNCHANGED <<scene, faults, redis, cnt, tasks, handler, id, history>>

\* Mutant: an error ends the worker.
GiveUpStops(s) ==
  /\ step[s] \in {"mine", "of"} /\ read' = [read EXCEPT ![s] = None]
  /\ step' = [step EXCEPT ![s] = "stopped"]
  /\ lost' = lost \union {work[s].n}
  /\ UNCHANGED <<scene, redis, cnt, rows, tasks, work, handler, id,
                 answered, deleted, torn, offline, erased>>

\* The worker prints the error and the note is in the database in part or not at all.
GiveUp(s) ==
  /\ step[s] \in {"mine", "of"} /\ read' = [read EXCEPT ![s] = None]
  /\ Another(s)
  /\ lost' = lost \union {work[s].n}
  /\ UNCHANGED <<scene, redis, cnt, rows, tasks, handler, id,
                 answered, deleted, torn, offline, erased>>

\* Two inserts into one gap: InnoDB rolls one transaction back.
Deadlock(s) ==
  /\ read[s] # None /\ rows[List(s)] = None /\ Gapped(s, List(s)) /\ GiveUp(s) /\ UNCHANGED faults

StatementFails(s) == MayFail /\ GiveUp(s)

\* deleteNoteFromDatabase: the row of the user is read FOR UPDATE, but it is the
\* text of the query that is split at commas, where no part is the note's: it
\* rolls back and returns nil.  The other query names a column, key, that the
\* table has not: an error, printed.
Erase(s) ==
  /\ step[s] = "erase" /\ ~Locked(s, mine[work[s].n])
  /\ Another(s)
  /\ erased' = erased \union ({work[s].n} \intersect Contents(mine[work[s].n]))
  /\ UNCHANGED <<scene, faults, redis, cnt, rows, tasks, read, handler, id,
                 answered, deleted, torn, offline, lost>>

EraseFails(s) ==
  /\ MayFail /\ step[s] = "erase" /\ Another(s)
  /\ UNCHANGED <<scene, redis, cnt, rows, tasks, read, handler, id, history>>

-----------------------------------------------------------------------------

Pending(s) ==
  {tasks[s][i].n : i \in {j \in DOMAIN tasks[s] : tasks[s][j].isAdd}}
    \union (IF step[s] \in {"mine", "of"} THEN {work[s].n} ELSE {})

\* A server stops and starts again: its memory is gone.
Restart(s) ==
  LET dead == {h \in Handlers : Home(h) = s /\ pc[h] # "idle"} IN
  /\ MayFail
  /\ tasks' = [tasks EXCEPT ![s] = <<>>] /\ cnt'  = [cnt EXCEPT ![s] = 0]
  /\ Another(s) /\ read' = [read EXCEPT ![s] = None]
  /\ req'   = [h \in Handlers |-> IF h \in dead THEN SomeNote ELSE req[h]]
  /\ pc'    = [h \in Handlers |-> IF h \in dead THEN "idle" ELSE pc[h]]
  /\ torn'  = torn \union {req[h] : h \in {g \in dead : pc[g] # "sendTask"}}
  /\ lost'  = lost \union Pending(s) \union {req[h] : h \in {g \in dead : pc[g] = "sendAdd"}}
  /\ UNCHANGED <<scene, redis, rows, id, answered, deleted, offline, erased>>

AddNote(h)    == Add(h) \/ PutMine(h) \/ PutOf(h) \/ PutFails(h) \/ SendAdd(h)
DeleteNote(h) == Delete(h) \/ DropMine(h) \/ DropOf(h) \/ Renumber(h) \/ SendDelete(h)
Worker(s)     == Take(s) \/ Select(s) \/ Store(s) \/ Deadlock(s) \/ Erase(s)

Next ==
  \/ \E h \in Handlers : AddNote(h) \/ DeleteNote(h)
  \/ \E s \in Servers  : Worker(s) \/ StatementFails(s) \/ EraseFails(s) \/ Restart(s)

Spec == Init /\ [][Next]_vars

\* Statements return, the worker's goroutine runs, and a channel with room
\* takes from the senders that wait for it in their order.
Fairness ==
  /\ \A s \in Servers  : WF_vars(Worker(s))
  /\ \A h \in Handlers : SF_vars(SendAdd(h))

FairSpec == Spec /\ Fairness

-----------------------------------------------------------------------------
(* Properties                                                              *)

Saved(n) == n \in Contents(mine[n]) /\ n \in Contents(of[n])

\* A note AddNote has answered is in both rows of the database, or in the
\* channel or the hands of the worker that will put it there, unless a
\* transaction or the server failed under it: the appends of two servers to
\* one row never drop each other's.
AnsweredAreSaved ==
  \A n \in answered \ lost : Saved(n) \/ \E s \in Servers : n \in Pending(s)

\* The ids of two servers that count for themselves, or of one that does
\* and Redis, may be the same.
Overwritten(n) ==
  \E o \in Notes \ {n} : id[o] = id[n] /\ {o, n} \intersect offline # {}

Shown(l, n) == hash[l][id[n]] = n

\* Once nobody is at a note, its user and its resource both show it, if it was
\* answered and not deleted, or neither does: unless a step failed, a deletion
\* overlapped, or a server gave out an id of its own that was taken.
HashesAgree ==
  \A n \in Notes \ (Busy \union torn) :
    id[n] # None /\ ~Overwritten(n) =>
      /\ Shown(mine[n], n) = (n \in answered \ deleted)
      /\ Shown(of[n], n)   = (n \in answered \ deleted)

\* A handler that has written the hashes is answered, however full the
\* channel, and its note gets into the database, unless a failure loses it.
NotesGetSaved ==
  \A n \in Notes :
    (n \in answered \/ \E h \in Handlers : (pc[h] = "sendAdd" /\ req[h] = n))
      ~> ((n \in answered /\ Saved(n)) \/ n \in lost)

\* "Delete it from user-class notes": a note that was in its user's row when the
\* worker deleted it, without an error from that transaction, is there no longer.
ErasedAreGone == \A n \in erased : n \notin Contents(mine[n])

=============================================================================
