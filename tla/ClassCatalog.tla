---------------------------- MODULE ClassCatalog ----------------------------
(***************************************************************************)
(* The classes themselves: ClassService.AddClass, CloneClass, ChangeClass, *)
(* EndClass, DeleteClass, SetAlly, AddSubClass, DeleteSubClass, the two    *)
(* look-ups GetClassIDViaGdCourseID and GetClassIDViaUserID, and the HTTP  *)
(* handlers that call them.                                                *)
(*                                                                         *)
(* A class has a row and a hash.  Two more indices live in the cache only: *)
(* the list of a group's classes, which the staff browses, and the map of  *)
(* Gd courses to classes.  A package is a class whose platform data lists  *)
(* other classes; each of those lists its packages in its parent column.   *)
(* No operation changes all of these at once, so the properties say which  *)
(* of them still agree when several handlers are done, and after what not. *)
(***************************************************************************)
EXTENDS Integers, FiniteSets

CONSTANTS
  Classes,  \* ids that TABLE_CLASS hands out
  Courses,  \* Gd course ids
  Procs,    \* request handlers
  Scenes,   \* by name: the classes there are, the calls that come, and whether
            \* a statement, a cache command or a handler may fail
  None

Roles == {"system", "assistant", "teacher", "user"}

\* Columns of TABLE_CLASS, and fields of the hash, that these operations read
\* or write.  full: the list of meetings is not empty.
ClassInfo ==
  [package: BOOLEAN, children: SUBSET Classes, parents: SUBSET Classes,
   course: Courses \union {None}, full: BOOLEAN, ended: BOOLEAN, ally: Classes \union {None}]

Ops == {"add", "clone", "import", "change", "end", "delete", "sub", "unsub", "ally",
        "find", "locate", "list", "children", "publish"}

\* What does not matter to a call is its first class, or None.  A change with clears
\* takes the course away; one with a package of None names no platform, and its data
\* does not count.  data: the classes named in the platform data, which nobody checks:
\* there may be none with that id, or not yet.
Request ==
  {r \in [op: Ops, by: Roles, class: Classes, other: Classes, course: Courses \union {None},
          clears: BOOLEAN, package: BOOLEAN \union {None}, data: SUBSET Classes] :
     /\ r.op \in {"add", "clone"} => r.package # None
     /\ r.op = "import" => r.package = FALSE /\ r.data = {}
     /\ r.clears => r.course = None}

Scene == [rows: [Classes -> ClassInfo \union {None}], calls: SUBSET Request, fails: BOOLEAN]

ASSUME ScenesAreScenes ==
  DOMAIN Scenes # {} /\ \A s \in DOMAIN Scenes : Scenes[s] \in Scene /\ Scenes[s].calls # {}
ASSUME NoneIsNone == None \notin Classes \union Courses \union Procs \union ClassInfo

\* The rows of a scene agree: a class lists its packages and they list it, no class
\* is below itself, and no two have the same course.
ASSUME ScenesAgree ==
  \A n \in DOMAIN Scenes :
    LET rows == Scenes[n].rows
        live == {c \in Classes : rows[c] # None}
    IN
    /\ \A c \in live : rows[c].children \union rows[c].parents \subseteq live
    /\ \A c, s \in live : s \in rows[c].children <=> c \in rows[s].parents
    /\ \A c \in live : rows[c].children # {} => rows[c].package
    /\ \A U \in SUBSET live : (\A s \in U : \E c \in U : s \in rows[c].children) => U = {}
    /\ \A c, d \in live : rows[c].course # None /\ rows[c].course = rows[d].course => c = d

VARIABLES
  scene,
  row,      \* committed rows, None for an id that is not or no longer in use
  born,     \* ids handed out so far: AUTO_INCREMENT does not go back
  hash,     \* class hashes that NewClassInfoFromMap accepts
  group,    \* hash of the group's classes
  index,    \* hash of classes by Gd course
  lock,     \* row locks of open transactions
  pc, req,
  view,     \* what GetClass returned, first for one class, then for another
  view2,
  found,    \* the class GetClassIDViaGdCourseID found, or the class inserted
  tx,       \* the row that a transaction will commit
  torn,     \* history: <<package, class>> one side of which was left behind
  stranded, \* history: classes whose place in the lists was left behind
  misfiled  \* history: courses whose check or index was overtaken

db      == <<scene, row, born>>
cache   == <<hash, group, index>>
local   == <<req, view, view2, found, tx>>
history == <<torn, stranded, misfiled>>
vars    == <<db, cache, lock, pc, local, history>>

AnyRequest == CHOOSE r \in UNION {Scenes[s].calls : s \in DOMAIN Scenes} : TRUE
Live       == {c \in Classes : row[c] # None}

Goto(p, label) == pc' = [pc EXCEPT ![p] = label]

Return(p) ==
  /\ Goto(p, "idle")
  /\ req'   = [req EXCEPT ![p] = AnyRequest]
  /\ view'  = [view EXCEPT ![p] = None]
  /\ view2' = [view2 EXCEPT ![p] = None]
  /\ found' = [found EXCEPT ![p] = None]
  /\ tx'    = [tx EXCEPT ![p] = None]

At(p, label, ops) == pc[p] = label /\ req[p].op \in ops

\* What the server puts in the cache when it starts: every class in the list of its
\* group, except those that a package names, the hashes, and the index of courses.
\* Hashes and index are filled again when the cache has lost them, and only `cached'
\* are left; nothing rebuilds the list while the server runs.
preloadClasses(cached) ==
  /\ group = Live \ UNION {row[k].children : k \in {c \in Live : row[c].package}}
  /\ hash  = [c \in Classes |-> IF c \in cached THEN row[c] ELSE None]
  /\ index = [k \in Courses |-> IF \E c \in cached : row[c].course = k
                                THEN CHOOSE c \in cached : row[c].course = k ELSE None]

Init ==
  /\ scene \in DOMAIN Scenes
  /\ row = Scenes[scene].rows /\ born = Live
  /\ \E cached \in {{}, Live} : preloadClasses(cached)
  /\ lock  = [c \in Classes |-> None]
  /\ pc    = [p \in Procs |-> "idle"]
  /\ req   = [p \in Procs |-> AnyRequest]
  /\ view  = [p \in Procs |-> None] /\ view2 = [p \in Procs |-> None]
  /\ found = [p \in Procs |-> None] /\ tx    = [p \in Procs |-> None]
  /\ torn = {} /\ stranded = {} /\ misfiled = {}

-----------------------------------------------------------------------------
(* The HTTP handlers: each checks the session for a role, parses the form, *)
(* and calls one operation.                                                *)

Assistants == {"system", "assistant"}
Teachers   == Assistants \union {"teacher"}
Makes      == {"add", "clone", "import"}

\* The bound on the ids is a bound on the classes that are created.
Room == Cardinality(born) + Cardinality({p \in Procs : /\ pc[p] # "idle" /\ found[p] = None
                                                      /\ req[p].op \in Makes})
          < Cardinality(Classes)

\* What the operation begins with: a course that is given is looked up first.
Entry(r) ==
  IF r.op \in {"add", "locate", "find"} /\ r.course # None THEN "find"
  ELSE CASE r.op \in {"add", "import"}  -> "insert"
         [] r.op \in {"list", "locate"} -> r.op
         [] OTHER -> "get"

Receive(p, op, roles) ==
  /\ pc[p] = "idle" /\ (op \in Makes => Room)
  /\ \E r \in Scenes[scene].calls :
       r.op = op /\ r.by \in roles /\ req' = [req EXCEPT ![p] = r] /\ Goto(p, Entry(r))
  /\ UNCHANGED <<db, cache, lock, view, view2, found, tx, history>>

onHttpAddClass(p)       == Receive(p, "add", Assistants)
\* The class it makes has no course, whatever the course it imports.
onHttpImportClass(p)    == Receive(p, "import", Assistants)
onHttpCloneClass(p)     == Receive(p, "clone", Assistants)
onHttpChangeClass(p)    == Receive(p, "change", Teachers)
onHttpEndClass(p)       == Receive(p, "end", Assistants)
onHttpDeleteClass(p)    == Receive(p, "delete", Assistants)
onHttpPublishClass(p)   == Receive(p, "publish", Assistants)
onHttpSetClassAlly(p)   == Receive(p, "ally", Assistants)
onHttpAddSubClass(p)    == Receive(p, "sub", Assistants)
onHttpDeleteSubClass(p) == Receive(p, "unsub", Assistants)
onHttpQuerySubClass(p)  == Receive(p, "children", Assistants)

\* For a user of the site GetClasses; for the Gd servers, which name a class or a
\* course and a student, the look-ups and GetClass.
onHttpQueryClass(p) == Receive(p, "list", Roles) \/ Receive(p, "locate", {"user"})

\* The class of a course, then the class itself, for the ally it may name; the
\* student is enrolled by ChangeUser, of module ClassRoster.
onHttpAddGdStudentToGdCourse(p) == Receive(p, "find", {"system"})

-----------------------------------------------------------------------------
(* GetClass, of req.class and then of req.other.                           *)

Target(p) == IF pc[p] \in {"get", "fill"} THEN req[p].class ELSE req[p].other

\* The hash, unless a field of it is missing.
NewClassInfoFromMap(c) == hash[c]

See(p, ci) ==
  IF pc[p] \in {"get", "fill"} THEN view' = [view EXCEPT ![p] = ci] /\ UNCHANGED view2
                               ELSE view2' = [view2 EXCEPT ![p] = ci] /\ UNCHANGED view

GetHit(p) ==
  /\ pc[p] \in {"get", "get2"} /\ NewClassInfoFromMap(Target(p)) # None
  /\ See(p, NewClassInfoFromMap(Target(p))) /\ Goto(p, IF pc[p] = "get" THEN "have" ELSE "have2")
  /\ UNCHANGED <<db, cache, lock, req, found, tx, history>>

GetMiss(p) ==
  /\ pc[p] \in {"get", "get2"} /\ NewClassInfoFromMap(Target(p)) = None
  /\ IF row[Target(p)] = None
     THEN Return(p)
     ELSE /\ See(p, row[Target(p)]) /\ Goto(p, IF pc[p] = "get" THEN "fill" ELSE "fill2")
          /\ UNCHANGED <<req, found, tx>>
  /\ UNCHANGED <<db, cache, lock, history>>

GetFill(p) ==
  /\ pc[p] \in {"fill", "fill2"} /\ Goto(p, IF pc[p] = "fill" THEN "have" ELSE "have2")
  /\ hash' = [hash EXCEPT ![Target(p)] = IF pc[p] = "fill" THEN view[p] ELSE view2[p]]
  /\ UNCHANGED <<db, group, index, lock, local, history>>

\* No authority: another group's assistant, a user who is not of the class.
Refuse(p) ==
  /\ pc[p] \in {"have", "have2"} /\ req[p].by # "system" /\ Return(p)
  /\ UNCHANGED <<db, cache, lock, history>>

\* PublishClass, PackageClass, GetClasses, QuerySubClasses and the look-ups: what
\* they do with the class changes nothing here.
ReadDone(p) ==
  /\ \/ At(p, "have", {"publish", "list", "find", "locate"})
     \/ At(p, "have", {"children"}) /\ ~view[p].package
     \/ At(p, "have2", {"children"})
  /\ Return(p)
  /\ UNCHANGED <<db, cache, lock, history>>

\* GetClasses: staff see the classes of the group's hash, and GetClass of each.
List(p) ==
  /\ pc[p] = "list"
  /\ \/ Return(p)
     \/ /\ Goto(p, "get")
        /\ \E c \in group : req' = [req EXCEPT ![p].class = c]
        /\ UNCHANGED <<view, view2, found, tx>>
  /\ UNCHANGED <<db, cache, lock, history>>

\* QuerySubClasses: GetClass of each child.
ListChildren(p) ==
  /\ At(p, "have", {"children"}) /\ view[p].package
  /\ \/ Return(p)
     \/ /\ Goto(p, "get2")
        /\ \E s \in view[p].children : req' = [req EXCEPT ![p].other = s]
        /\ UNCHANGED <<view, view2, found, tx>>
  /\ UNCHANGED <<db, cache, lock, history>>

-----------------------------------------------------------------------------
(* GetClassIDViaGdCourseID, for AddClass, for ChangeClass and for students.*)

Checking == {"add", "change"}

\* What the caller does with the class found.  AddClass takes an error for "there
\* is none".
Answer(p, c) ==
  LET r == req[p] IN
  CASE r.op \in {"find", "locate"} /\ c # None ->
         Goto(p, IF r.op = "find" THEN "get" ELSE "locate")
         /\ req' = [req EXCEPT ![p].class = c] /\ UNCHANGED <<view, view2, found, tx>>
    [] r.op = "add" /\ c = None ->
         Goto(p, "insert") /\ UNCHANGED local
    [] r.op = "change" /\ c \in {None, r.class} ->
         Goto(p, "write") /\ UNCHANGED local
    [] OTHER -> Return(p)

FindHit(p) ==
  /\ pc[p] = "find" /\ index[req[p].course] # None /\ Answer(p, index[req[p].course])
  /\ UNCHANGED <<db, cache, lock, history>>

FindNone(p) ==
  /\ pc[p] = "find" /\ index[req[p].course] = None
  /\ ~\E c \in Live : row[c].course = req[p].course
  /\ Answer(p, None)
  /\ UNCHANGED <<db, cache, lock, history>>

FindRow(p) ==
  /\ pc[p] = "find" /\ index[req[p].course] = None /\ Goto(p, "findFill")
  /\ \E c \in Live : row[c].course = req[p].course /\ found' = [found EXCEPT ![p] = c]
  /\ UNCHANGED <<db, cache, lock, req, view, view2, tx, history>>

FindFill(p) ==
  LET k == req[p].course
      c == found[p]
  IN
  /\ pc[p] = "findFill" /\ Answer(p, c)
  /\ index'    = [index EXCEPT ![k] = c]
  /\ misfiled' = IF c \in Live /\ row[c].course = k THEN misfiled ELSE misfiled \union {k}
  /\ UNCHANGED <<db, hash, group, lock, torn, stranded>>

\* A failure to ask is taken for an answer by the two checks.
FindFails(p) ==
  /\ Scenes[scene].fails /\ pc[p] = "find" /\ req[p].op \in Checking /\ Answer(p, None)
  /\ misfiled' = misfiled \union {req[p].course}
  /\ UNCHANGED <<db, cache, lock, torn, stranded>>

\* GetClassIDViaUserID: from the cache, or from the row, two fields of which it
\* then writes to the hash; the class it answers is the package or a child of it.
LocateHit(p) ==
  /\ pc[p] = "locate" /\ hash[req[p].class] # None
  /\ \E c \in IF hash[req[p].class].package THEN hash[req[p].class].children ELSE {req[p].class} :
       req' = [req EXCEPT ![p].class = c]
  /\ Goto(p, "get")
  /\ UNCHANGED <<db, cache, lock, view, view2, found, tx, history>>

LocateRow(p) ==
  /\ pc[p] = "locate" /\ row[req[p].class] # None /\ Goto(p, "locateFill")
  /\ view' = [view EXCEPT ![p] = row[req[p].class]]
  /\ UNCHANGED <<db, cache, lock, req, view2, found, tx, history>>

LocateNone(p) ==
  /\ pc[p] = "locate" /\ Return(p)
  /\ UNCHANGED <<db, cache, lock, history>>

LocateFill(p) ==
  LET c == req[p].class IN
  /\ pc[p] = "locateFill"
  /\ hash' = IF hash[c] = None THEN hash
             ELSE [hash EXCEPT ![c].package = view[p].package, ![c].children = view[p].children]
  /\ \/ Return(p)
     \/ /\ Goto(p, "get") /\ view' = [view EXCEPT ![p] = None]
        /\ \E s \in IF view[p].package THEN view[p].children ELSE {c} :
             req' = [req EXCEPT ![p].class = s]
        /\ UNCHANGED <<view2, found, tx>>
  /\ UNCHANGED <<db, group, index, lock, history>>

-----------------------------------------------------------------------------
(* AddClass, which CloneClass and the import begin with.                   *)

\* Handlers past the check of a course that they have not written yet.
Overtaken(p, k) ==
  \E q \in Procs \ {p} : req[q].op \in Checking /\ req[q].course = k /\ k # None
                           /\ pc[q] \in {"insert", "write"}

CourseOf(p) == IF req[p].op = "add" THEN req[p].course ELSE None

NewClass(p) ==
  [package |-> req[p].package, children |-> req[p].data, parents |-> {}, course |-> CourseOf(p),
   full |-> FALSE, ended |-> FALSE, ally |-> None]

\* Classes below those of S: what QuerySubClasses shows, again and again.
Below(S) ==
  LET Closed2(T) == S \subseteq T
                      /\ \A c \in T : row[c] # None /\ row[c].package => row[c].children \subseteq T
  IN {c \in Classes : \A T \in SUBSET Classes : Closed2(T) => c \in T}

\* Classes of platform data under which the package is already.
Rings(p, c) == {s \in req[p].data : c \in Below({s})}

\* No class that the data names learns of its package.
Insert(p) ==
  LET c == CHOOSE c \in Classes : c \notin born IN
  /\ pc[p] = "insert" \/ At(p, "have", {"clone"})
  /\ born # Classes /\ Goto(p, "cacheNew")
  /\ row'   = [row EXCEPT ![c] = NewClass(p)] /\ born' = born \union {c}
  /\ found' = [found EXCEPT ![p] = c]
  /\ torn'     = torn \union ({c} \X req[p].data)
  /\ stranded' = stranded \union Rings(p, c)
  /\ misfiled' = IF Overtaken(p, CourseOf(p)) THEN misfiled \union {CourseOf(p)} ELSE misfiled
  /\ UNCHANGED <<scene, cache, lock, req, view, view2, tx>>

CacheNew(p) ==
  /\ pc[p] = "cacheNew" /\ Goto(p, IF CourseOf(p) = None THEN "listNew" ELSE "index")
  /\ hash' = [hash EXCEPT ![found[p]] = NewClass(p)]
  /\ UNCHANGED <<db, group, index, lock, local, history>>

ListNew(p) ==
  /\ pc[p] = "listNew" /\ group' = group \union {found[p]}
  /\ CASE req[p].op = "add"    -> Return(p)
       [] req[p].op = "clone"  -> Goto(p, "copy") /\ UNCHANGED local
       [] req[p].op = "import" -> Goto(p, "import") /\ UNCHANGED local
  /\ UNCHANGED <<db, hash, index, lock, history>>

\* CloneMeeting of each meeting seen, which may fail; then one UPDATE of the list.
CloneList(p) ==
  /\ pc[p] = "copy" /\ Goto(p, "copied") /\ lock[found[p]] = None
  /\ row' = IF found[p] \in Live THEN [row EXCEPT ![found[p]].full = view[p].full] ELSE row
  /\ UNCHANGED <<scene, born, cache, lock, local, history>>

CloneCache(p) ==
  /\ pc[p] = "copied" /\ Return(p)
  /\ hash' = IF hash[found[p]] = None THEN hash ELSE [hash EXCEPT ![found[p]].full = view[p].full]
  /\ UNCHANGED <<db, group, index, lock, history>>

\* AddMeeting of each courseware of the course: the first makes the list not empty.
ImportMeeting(p) ==
  /\ pc[p] = "import" /\ Goto(p, "imported") /\ found[p] \in Live /\ lock[found[p]] = None
  /\ row'  = [row EXCEPT ![found[p]].full = TRUE]
  /\ hash' = IF hash[found[p]] = None THEN hash ELSE [hash EXCEPT ![found[p]].full = TRUE]
  /\ UNCHANGED <<scene, born, group, index, lock, local, history>>

\* The course has no coursewares, or no more of them, or an operation failed.
ImportDone(p) ==
  /\ pc[p] \in {"import", "imported"} /\ Return(p)
  /\ UNCHANGED <<db, cache, lock, history>>

-----------------------------------------------------------------------------
(* ChangeClass, EndClass and SetAlly: one UPDATE, decided by what GetClass *)
(* returned, then the fields of the hash.                                  *)

\* A course of None: the request leaves the course alone, or clears it.
ChangesCourse(p)   == /\ req[p].op = "change" /\ req[p].course # view[p].course
                      /\ req[p].course # None \/ req[p].clears
ChecksCourse(p)    == ChangesCourse(p) /\ req[p].course # None
ChangesPlatform(p) == /\ req[p].op = "change" /\ req[p].package # None
                      /\ view[p].package # req[p].package \/ view[p].children # req[p].data

Applied(p, ci) ==
  CASE req[p].op = "end"    -> [ci EXCEPT !.ended = TRUE]
    [] req[p].op = "ally"   -> [ci EXCEPT !.ally = req[p].other]
    [] req[p].op = "change" ->
         [ci EXCEPT !.course   = IF ChangesCourse(p) THEN req[p].course ELSE @,
                    !.package  = IF ChangesPlatform(p) THEN req[p].package ELSE @,
                    !.children = IF ChangesPlatform(p) THEN req[p].data ELSE @]

Closed(p) ==
  /\ At(p, "have", {"change", "end"}) /\ view[p].ended /\ Return(p)
  /\ UNCHANGED <<db, cache, lock, history>>

ChangeFind(p) ==
  /\ At(p, "have", {"change"}) /\ ~view[p].ended /\ ChecksCourse(p) /\ Goto(p, "find")
  /\ UNCHANGED <<db, cache, lock, local, history>>

\* The ally must be a class, too.
AllyFind(p) ==
  /\ At(p, "have", {"ally"}) /\ Goto(p, "get2")
  /\ UNCHANGED <<db, cache, lock, local, history>>

AllySame(p) ==
  /\ At(p, "have2", {"ally"}) /\ view[p].ally = req[p].other /\ Return(p)
  /\ UNCHANGED <<db, cache, lock, history>>

\* Mutant: a class may be given any course.
MayWriteUnchecked(p) ==
  \/ pc[p] = "write"
  \/ At(p, "have", {"change", "end"}) /\ ~view[p].ended
  \/ At(p, "have2", {"ally"}) /\ view[p].ally # req[p].other

\* What the operation tests before its UPDATE, after the look-up of a course.
MayWrite(p) ==
  \/ pc[p] = "write"
  \/ At(p, "have", {"change", "end"}) /\ ~view[p].ended /\ ~ChecksCourse(p)
  \/ At(p, "have2", {"ally"}) /\ view[p].ally # req[p].other

\* The platform data replaces whatever list the row has by now.
Write(p) ==
  LET c   == req[p].class
      old == IF c \in Live THEN row[c].children ELSE {}
      new == req[p].data
  IN
  /\ MayWrite(p) /\ lock[c] = None /\ Goto(p, "cacheWrite")
  /\ row' = IF c \in Live THEN [row EXCEPT ![c] = Applied(p, @)] ELSE row
  /\ IF ChangesPlatform(p)
     THEN /\ torn'     = torn \union ({c} \X ((old \ new) \union (new \ old)))
          /\ stranded' = stranded \union IF req[p].package THEN (old \ new) \union Rings(p, c) ELSE old
     ELSE UNCHANGED <<torn, stranded>>
  /\ misfiled' = IF ChecksCourse(p) /\ Overtaken(p, req[p].course)
                 THEN misfiled \union {req[p].course} ELSE misfiled
  /\ UNCHANGED <<scene, born, cache, lock, local>>

CacheWrite(p) ==
  LET c == req[p].class IN
  /\ pc[p] = "cacheWrite"
  /\ hash' = IF hash[c] = None THEN hash ELSE [hash EXCEPT ![c] = Applied(p, @)]
  /\ IF ChangesCourse(p)
     THEN Goto(p, IF view[p].course # None THEN "unindex" ELSE "index") /\ UNCHANGED local
     ELSE Return(p)
  /\ UNCHANGED <<db, group, index, lock, history>>

AfterUnindex(p) ==
  IF req[p].course = None THEN Return(p) ELSE Goto(p, "index") /\ UNCHANGED local

Unindex(p) ==
  /\ pc[p] = "unindex" /\ AfterUnindex(p)
  /\ index' = [index EXCEPT ![view[p].course] = None]
  /\ UNCHANGED <<db, hash, group, lock, history>>

\* The last step of a change of course, and of AddClass the last but one.
Index(p) ==
  LET k == req[p].course
      c == IF req[p].op = "add" THEN found[p] ELSE req[p].class
  IN
  /\ pc[p] = "index"
  /\ index'    = [index EXCEPT ![k] = c]
  /\ misfiled' = IF c \in Live /\ row[c].course = k THEN misfiled ELSE misfiled \union {k}
  /\ IF req[p].op = "add" THEN Goto(p, "listNew") /\ UNCHANGED local ELSE Return(p)
  /\ UNCHANGED <<db, hash, group, lock, torn, stranded>>

-----------------------------------------------------------------------------
(* DeleteClass.  The lists of its users are rewritten in ClassRoster, its  *)
(* deleted meetings end in ClassMeetings.                                  *)

NotEmpty(p) ==
  /\ At(p, "have", {"delete"}) /\ Return(p)
  /\ IF view[p].package THEN view[p].children # {} ELSE view[p].full
  /\ UNCHANGED <<db, cache, lock, history>>

\* DELETE, whatever the row has become since.
DeleteRow(p) ==
  LET c == req[p].class IN
  /\ At(p, "have", {"delete"}) /\ lock[c] = None /\ Goto(p, "uncache")
  /\ IF view[p].package THEN view[p].children = {} ELSE ~view[p].full
  /\ row'      = [row EXCEPT ![c] = None]
  /\ stranded' = IF c \in Live THEN stranded \union row[c].children ELSE stranded
  /\ UNCHANGED <<scene, born, cache, lock, local, torn, misfiled>>

DeleteHash(p) ==
  /\ pc[p] = "uncache" /\ Goto(p, "unlist")
  /\ hash' = [hash EXCEPT ![req[p].class] = None]
  /\ UNCHANGED <<db, group, index, lock, local, history>>

\* The entry of the class in the index of courses stays.
DeleteFromGroup(p) ==
  /\ pc[p] = "unlist" /\ Return(p)
  /\ group' = group \ {req[p].class}
  /\ UNCHANGED <<db, hash, index, lock, history>>

-----------------------------------------------------------------------------
(* AddSubClass and DeleteSubClass: two transactions, one on the package,   *)
(* one on the class, each with its hash written before it commits.         *)

Linking(p, label) == At(p, label, {"sub", "unsub"})
Pair(p)           == <<req[p].class, req[p].other>>

\* The package's list, and then the class's, as the request wants it.
Edited(p, set, c) == IF req[p].op = "sub" THEN set \union {c} ELSE set \ {c}

LinkSkip(p) ==
  LET r == req[p] IN
  /\ Linking(p, "have") /\ Return(p)
  /\ view[p].package => (r.other \in view[p].children) = (r.op = "sub")
  /\ UNCHANGED <<db, cache, lock, history>>

LinkStart(p) ==
  LET r == req[p] IN
  /\ Linking(p, "have") /\ view[p].package /\ Goto(p, "get2")
  /\ (r.other \in view[p].children) # (r.op = "sub")
  /\ UNCHANGED <<db, cache, lock, local, history>>

Holds(p, c) == lock[c] = p

\* Another handler is past the first transaction of the opposite request.
Crossed(p) ==
  \E q \in Procs \ {p} :
    /\ \/ pc[q] \in {"tx2", "hash2", "list2", "commit2"}
       \/ pc[q] \in {"hash1", "list1"} /\ ~Holds(q, req[q].class)
    /\ Pair(q) = Pair(p) /\ req[q].op # req[p].op

\* SELECT ... FOR UPDATE of the package.  A list that is so already is written to
\* the hash all the same, and the transaction rolled back.
LinkPackage(p) ==
  LET c   == req[p].class
      s   == req[p].other
      new == Edited(p, row[c].children, s)
  IN
  /\ Linking(p, "have2") /\ lock[c] = None
  /\ IF c \notin Live
     THEN Return(p) /\ UNCHANGED <<lock, torn, stranded>>
     ELSE /\ Goto(p, "hash1")
          /\ lock' = IF new = row[c].children THEN lock ELSE [lock EXCEPT ![c] = p]
          /\ tx' = [tx EXCEPT ![p] = [row[c] EXCEPT !.children = new]]
          /\ torn'     = IF Crossed(p) THEN torn \union {Pair(p)} ELSE torn
          /\ stranded' = IF Crossed(p) \/ ~row[c].package THEN stranded \union {s} ELSE stranded
          /\ UNCHANGED <<req, view, view2, found>>
  /\ UNCHANGED <<db, cache, misfiled>>

\* Only a request that changed nothing lists the class again here.
PackageCache(p) ==
  LET c == req[p].class IN
  /\ Linking(p, "hash1")
  /\ hash' = IF hash[c] = None THEN hash ELSE [hash EXCEPT ![c].children = tx[p].children]
  /\ Goto(p, IF req[p].op = "sub" \/ ~Holds(p, c) THEN "list1" ELSE "commit1")
  /\ UNCHANGED <<db, group, index, lock, local, history>>

PackageList(p) ==
  LET c == req[p].class
      s == req[p].other
  IN
  /\ Linking(p, "list1") /\ Goto(p, IF Holds(p, c) THEN "commit1" ELSE "tx2")
  /\ group' = IF req[p].op = "sub" THEN group \ {s} ELSE group \union {s}
  /\ UNCHANGED <<db, hash, index, lock, local, history>>

PackageCommit(p) ==
  LET c == req[p].class
      s == req[p].other
  IN
  /\ Linking(p, "commit1") /\ Goto(p, "tx2")
  /\ row'  = [row EXCEPT ![c] = tx[p]]
  /\ lock' = [lock EXCEPT ![c] = None]
  /\ stranded' = IF req[p].op = "sub" /\ c \in Below({s}) THEN stranded \union {s} ELSE stranded
  /\ UNCHANGED <<scene, born, cache, local, torn, misfiled>>

\* SELECT ... FOR UPDATE of the class.
LinkClass(p) ==
  LET c   == req[p].class
      s   == req[p].other
      new == Edited(p, row[s].parents, c)
  IN
  /\ Linking(p, "tx2") /\ lock[s] = None
  /\ IF s \notin Live
     THEN Return(p) /\ UNCHANGED lock
     ELSE /\ Goto(p, "hash2")
          /\ lock' = IF new = row[s].parents THEN lock ELSE [lock EXCEPT ![s] = p]
          /\ tx'   = [tx EXCEPT ![p] = [row[s] EXCEPT !.parents = new]]
          /\ UNCHANGED <<req, view, view2, found>>
  /\ UNCHANGED <<db, cache, history>>

\* Mutant: a class that still has a package is listed again, one that has not is not.
ClassCacheSwapped(p) ==
  LET s == req[p].other IN
  /\ Linking(p, "hash2")
  /\ hash' = IF hash[s] = None THEN hash ELSE [hash EXCEPT ![s].parents = tx[p].parents]
  /\ IF req[p].op = "unsub" /\ tx[p].parents # {} THEN Goto(p, "list2") /\ UNCHANGED local
     ELSE IF Holds(p, s) THEN Goto(p, "commit2") /\ UNCHANGED local ELSE Return(p)
  /\ UNCHANGED <<db, group, index, lock, history>>

ClassCache(p) ==
  LET s == req[p].other IN
  /\ Linking(p, "hash2")
  /\ hash' = IF hash[s] = None THEN hash ELSE [hash EXCEPT ![s].parents = tx[p].parents]
  /\ IF req[p].op = "unsub" /\ tx[p].parents = {} THEN Goto(p, "list2") /\ UNCHANGED local
     ELSE IF Holds(p, s) THEN Goto(p, "commit2") /\ UNCHANGED local ELSE Return(p)
  /\ UNCHANGED <<db, group, index, lock, history>>

ClassList(p) ==
  LET s == req[p].other IN
  /\ Linking(p, "list2") /\ group' = group \union {s}
  /\ IF Holds(p, s) THEN Goto(p, "commit2") /\ UNCHANGED local ELSE Return(p)
  /\ UNCHANGED <<db, hash, index, lock, history>>

\* Mutant: the class forgets that it was taken into a package, too.
ClassCommitForgets(p) ==
  LET s == req[p].other IN
  /\ Linking(p, "commit2") /\ Return(p)
  /\ row'  = IF req[p].op = "sub" THEN row ELSE [row EXCEPT ![s] = tx[p]]
  /\ lock' = [lock EXCEPT ![s] = None]
  /\ UNCHANGED <<scene, born, cache, history>>

ClassCommit(p) ==
  LET s == req[p].other IN
  /\ Linking(p, "commit2") /\ Return(p)
  /\ row'  = [row EXCEPT ![s] = tx[p]]
  /\ lock' = [lock EXCEPT ![s] = None]
  /\ UNCHANGED <<scene, born, cache, history>>

-----------------------------------------------------------------------------
(* Failures.                                                               *)

FirstHalf  == {"hash1", "list1", "commit1"}
SecondHalf == {"tx2", "hash2", "list2", "commit2"}

\* A statement or a cache command fails and its error is returned, or the handler
\* ends: an open transaction is rolled back, what the cache got stays.
Fail(p) ==
  /\ Scenes[scene].fails /\ pc[p] # "idle" /\ Return(p)
  /\ lock'     = [c \in Classes |-> IF lock[c] = p THEN None ELSE lock[c]]
  /\ torn'     = IF pc[p] \in SecondHalf THEN torn \union {Pair(p)} ELSE torn
  /\ stranded' = CASE pc[p] \in FirstHalf \union SecondHalf -> stranded \union {req[p].other}
                   [] pc[p] \in {"cacheNew", "index", "listNew"} /\ req[p].op \in Makes ->
                        stranded \union {found[p]}
                   [] OTHER -> stranded
  /\ misfiled' = IF pc[p] \in {"cacheNew", "cacheWrite", "unindex", "index"}
                 THEN misfiled \union ({req[p].course, IF view[p] = None THEN None ELSE view[p].course} \ {None})
                 ELSE misfiled
  /\ UNCHANGED <<db, cache>>

\* A cache command fails and its error is ignored.
Ignored(p) ==
  /\ Scenes[scene].fails
  /\ \/ pc[p] = "unindex" /\ AfterUnindex(p)
        /\ misfiled' = misfiled \union {view[p].course} /\ UNCHANGED stranded
     \/ pc[p] = "index" /\ misfiled' = misfiled \union {req[p].course} /\ UNCHANGED stranded
        /\ IF req[p].op = "add" THEN Goto(p, "listNew") /\ UNCHANGED local ELSE Return(p)
     \/ Linking(p, "list1") /\ stranded' = stranded \union {req[p].other}
        /\ Goto(p, IF Holds(p, req[p].class) THEN "commit1" ELSE "tx2") /\ UNCHANGED local
        /\ UNCHANGED misfiled
     \/ Linking(p, "list2") /\ stranded' = stranded \union {req[p].other}
        /\ (IF Holds(p, req[p].other) THEN Goto(p, "commit2") /\ UNCHANGED local ELSE Return(p))
        /\ UNCHANGED misfiled
  /\ UNCHANGED <<db, cache, lock, torn>>

Step(p) ==
  \/ onHttpAddClass(p) \/ onHttpImportClass(p) \/ onHttpCloneClass(p) \/ onHttpChangeClass(p)
  \/ onHttpEndClass(p) \/ onHttpDeleteClass(p) \/ onHttpPublishClass(p) \/ onHttpSetClassAlly(p)
  \/ onHttpAddSubClass(p) \/ onHttpDeleteSubClass(p) \/ onHttpQuerySubClass(p)
  \/ onHttpQueryClass(p) \/ onHttpAddGdStudentToGdCourse(p)
  \/ GetHit(p) \/ GetMiss(p) \/ GetFill(p) \/ Refuse(p) \/ ReadDone(p) \/ List(p) \/ ListChildren(p)
  \/ FindHit(p) \/ FindNone(p) \/ FindRow(p) \/ FindFill(p) \/ FindFails(p)
  \/ LocateHit(p) \/ LocateRow(p) \/ LocateNone(p) \/ LocateFill(p)
  \/ Insert(p) \/ CacheNew(p) \/ ListNew(p) \/ CloneList(p) \/ CloneCache(p)
  \/ ImportMeeting(p) \/ ImportDone(p)
  \/ Closed(p) \/ ChangeFind(p) \/ AllyFind(p) \/ AllySame(p) \/ Write(p) \/ CacheWrite(p) \/ Unindex(p) \/ Index(p)
  \/ NotEmpty(p) \/ DeleteRow(p) \/ DeleteHash(p) \/ DeleteFromGroup(p)
  \/ LinkSkip(p) \/ LinkStart(p) \/ LinkPackage(p) \/ PackageCache(p) \/ PackageList(p)
  \/ PackageCommit(p) \/ LinkClass(p) \/ ClassCache(p) \/ ClassList(p) \/ ClassCommit(p)
  \/ Fail(p) \/ Ignored(p)

Next == \E p \in Procs : Step(p)
Spec == Init /\ [][Next]_vars

-----------------------------------------------------------------------------
(* Properties.                                                             *)

\* Classes that a request is about.
Busy == UNION {{req[p].class, req[p].other, found[p]} : p \in {q \in Procs : pc[q] # "idle"}}

\* A class lists a package among its parents exactly when the package lists it, once
\* nobody is working on either: AddSubClass and DeleteSubClass commit the two sides
\* one after the other.  They disagree only after a failure between the two, where an
\* opposite request began between the two, and over a class that the platform data of
\* AddClass, CloneClass or ChangeClass put into the list or left out of it: these
\* write the package alone.
SubClassesAgree ==
  \A c, s \in Live :
    <<c, s>> \notin torn /\ {c, s} \intersect Busy = {} =>
      ((s \in row[c].children) <=> (c \in row[s].parents))

\* The staff finds every class: by the list of the group, or below a package that is
\* found.  AddSubClass takes a class off the list before the package has it, and
\* DeleteSubClass puts it back long after; a class gets lost only by a failure
\* between the steps, by a package that is deleted, is one no more or is given other
\* data, by opposite requests at once, or when it is put below itself.
ClassesAreFound == Live \subseteq Below(group \union stranded \union Busy)

\* A Gd course leads to its class: no two classes have it, and the index knows no
\* other class than the one that has it.  AddClass and ChangeClass check first and
\* write later; it is wrong only for a course that two of them checked at once,
\* whose look-up failed, which they take for "there is none", or whose entry was
\* written late or not at all.
CourseLeadsToClass ==
  \A c \in Live :
    LET k == row[c].course IN
    (k # None /\ k \notin misfiled /\ c \notin Busy) =>
      /\ \A d \in Live \ {c} : row[d].course # k
      /\ index[k] \in {None, c}
=============================================================================
