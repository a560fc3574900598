------------------------ MODULE ClassMeetings_proofs ------------------------
(* Theorems about ClassMeetings, for any meetings, handlers and mixes of calls. *)
EXTENDS ClassMeetings, FiniteSetTheorems, TLAPS

(***************************************************************************)
(* Why a meeting is in one list and can be reached: a transaction computes *)
(* its lists of a class row that nobody else changes before it commits,    *)
(* and a meeting that is being added is in no list, and in no copy of one, *)
(* so that nobody can have put it into the trash.                          *)
(***************************************************************************)

RequestType == [op : Calls, meeting : Meetings, to : Seq(Meetings), fields : SUBSET Fields, start : Times]

\* What the steps need of the variables' types.
Shape ==
  /\ scene \in DOMAIN Scenes
  /\ class \in Class /\ cClass \in Class \union {None} /\ used \subseteq Meetings
  /\ DOMAIN row = Meetings /\ DOMAIN pc = Procs /\ DOMAIN info = Procs
  /\ req  \in [Procs -> RequestType]
  /\ seen \in [Procs -> Class] /\ tx \in [Procs -> Class]

Committing(p) == pc[p] = "commit"

\* One transaction at a time, and what it will commit is made of the row as it is.
Exact ==
  /\ \A p, q \in Procs : Committing(p) /\ Committing(q) => p = q
  /\ \A p \in Procs : Committing(p) =>
       LET m == req[p].meeting IN
       \/ req[p].op \in Adds    /\ tx[p].listed = class.listed \union {m} /\ m \notin class.trash
       \/ req[p].op = "trash"   /\ tx[p].listed = class.listed \ {m} /\ tx[p].trash = class.trash \union {m}
       \/ req[p].op = "destroy" /\ tx[p].trash = class.trash \ {m}

\* p has inserted its meeting and not listed it yet.
Adding(p) == req[p].op \in Adds /\ pc[p] \in {"seed", "move"}

\* p removes a meeting that it found in a list.
Removing(p) == req[p].op \in {"trash", "destroy"} /\ pc[p] \notin {"idle", "get", "fill", "do"}

\* m is in a list, in a copy of one, or in the hands of a handler that found it there.
Known(m) ==
  \/ m \in class.listed \union class.trash
  \/ cClass # None /\ m \in cClass.listed \union cClass.trash
  \/ \E p \in Procs : \/ m \in seen[p].listed \union seen[p].trash \union tx[p].listed \union tx[p].trash
                      \/ Removing(p) /\ req[p].meeting = m

\* Ids are used once: a meeting that is being added is not known, and is nobody else's.
Fresh ==
  /\ \A m \in Meetings : Known(m) => m \in used
  /\ \A p \in Procs : Adding(p) => req[p].meeting \in used /\ ~Known(req[p].meeting)
  /\ \A p, q \in Procs : Adding(p) /\ Adding(q) /\ p # q => req[p].meeting # req[q].meeting

ListInv == Shape /\ Exact /\ Fresh /\ ListedOrTrashed

\* A handler that destroys a meeting has not looked it up before "meet".
Empties ==
  /\ \A p \in Procs : pc[p] = "idle" => info[p] = <<>>
  /\ \A p \in Procs : req[p].op = "destroy" /\ pc[p] \notin {"idle", "meetFill", "wipe", "wiped"} =>
       info[p] = <<>>
  /\ \A p \in Procs : req[p].op = "destroy" /\ pc[p] = "meetFill" => Len(info[p]) = 1
  /\ \A p \in Procs : req[p].op = "destroy" => req[p].to = <<>>

ReachInv == ListInv /\ Empties /\ MeetingsAreReachable

LEMMA AnyOpIsRequest == AnyOp \in RequestType /\ AnyOp.to = <<>> /\ AnyOp.op = "add"
<1>1. PICK s \in DOMAIN Scenes : TRUE BY ScenesAreScenes
<1>2. Times # {} BY <1>1, ScenesAreScenes
<1>3. (CHOOSE t \in Times : TRUE) \in Times BY <1>2
<1>4. (CHOOSE m \in Meetings : TRUE) \in Meetings BY SomeMeetings
<1> QED BY <1>3, <1>4 DEF AnyOp, Request, RequestType, Calls, Fields

LEMMA EmptyIsClass == Empty \in Class /\ Empty.listed = {} /\ Empty.trash = {}
  BY DEF Empty, Class

LEMMA ListInit == Init => ListInv
<1> SUFFICES ASSUME Init PROVE ListInv OBVIOUS
<1> USE DEF Init
<1>1. used \subseteq Meetings BY ScenesAreScenes DEF Ids
<1>2. class \in Class /\ class.listed = used /\ class.trash = {} BY <1>1 DEF Empty, Class
<1>3. Shape BY <1>1, <1>2, AnyOpIsRequest, EmptyIsClass DEF Shape
<1>4. Exact BY DEF Exact, Committing
<1>5. Fresh BY <1>2, EmptyIsClass DEF Fresh, Known, Adding, Removing
<1> QED BY <1>2, <1>3, <1>4, <1>5 DEF ListInv, ListedOrTrashed

\* A step that changes no list of the row, opens no transaction and makes no meeting known.
LEMMA QuietStep ==
  ASSUME ListInv, NEW p \in Procs, Shape', pc'[p] # "commit",
         \A q \in Procs \ {p} : pc'[q] = pc[q] /\ req'[q] = req[q] /\ tx'[q] = tx[q],
         class'.listed = class.listed, class'.trash = class.trash, used' = used,
         \A m \in Meetings : Known(m)' => Known(m),
         Adding(p)' => Adding(p) /\ req'[p].meeting = req[p].meeting
  PROVE  ListInv'
<1>1. Exact' BY DEF ListInv, Exact, Committing
<1>2. \A q \in Procs \ {p} : Adding(q)' <=> Adding(q) BY DEF Adding
<1>3. \A q \in Procs : Adding(q)' => Adding(q) /\ req'[q].meeting = req[q].meeting BY <1>2
<1>4. \A q \in Procs : req[q].meeting \in Meetings BY DEF ListInv, Shape, RequestType
<1>5. Fresh' BY <1>3, <1>4 DEF ListInv, Fresh
<1>6. ListedOrTrashed' BY DEF ListInv, ListedOrTrashed
<1> QED BY <1>1, <1>5, <1>6 DEF ListInv

\* Whoever returns.
LEMMA ReturnLists ==
  ASSUME ListInv, NEW p \in Procs, Return(p), UNCHANGED <<scene, class, cClass, used>>,
         DOMAIN row' = Meetings
  PROVE  ListInv'
<1> USE DEF Return, Goto
<1>1. Shape' BY AnyOpIsRequest, EmptyIsClass DEF ListInv, Shape
<1>2. \A q \in Procs \ {p} : pc'[q] = pc[q] /\ req'[q] = req[q] /\ tx'[q] = tx[q] /\ seen'[q] = seen[q]
  BY DEF ListInv, Shape
<1>3. pc'[p] = "idle" /\ tx'[p] = Empty /\ seen'[p] = Empty BY DEF ListInv, Shape
<1>4. \A m \in Meetings : Known(m)' => Known(m) BY <1>2, <1>3, EmptyIsClass DEF Known, Removing
<1>5. ~Adding(p)' BY <1>3 DEF Adding
<1> QED BY <1>1, <1>2, <1>3, <1>4, <1>5, QuietStep

\* Whoever goes on, with lists, request and copies as they were.
LEMMA GoOnLists ==
  ASSUME ListInv, NEW p \in Procs, NEW l, Goto(p, l), l # "commit",
         UNCHANGED <<scene, class, cClass, used, req, seen, tx>>,
         DOMAIN row' = Meetings, DOMAIN info' = Procs,
         req[p].op \in Adds /\ l \in {"seed", "move"} => Adding(p),
         Removing(p) \/ req[p].op \notin {"trash", "destroy"} \/ Known(req[p].meeting)
           \/ l \in {"idle", "get", "fill", "do"}
  PROVE  ListInv'
<1> USE DEF Goto
<1>1. Shape' BY DEF ListInv, Shape
<1>2. \A q \in Procs \ {p} : pc'[q] = pc[q] /\ req'[q] = req[q] /\ tx'[q] = tx[q]
  BY DEF ListInv, Shape
<1>3. pc'[p] = l BY DEF ListInv, Shape
<1>4. Removing(p)' => Known(req[p].meeting) BY <1>3 DEF Known, Removing
<1>5. \A q \in Procs \ {p} : Removing(q)' => Removing(q) BY <1>2 DEF Removing
<1>6. \A m \in Meetings : Known(m)' => Known(m) BY <1>4, <1>5 DEF Known
<1>7. Adding(p)' => Adding(p) BY <1>3 DEF Adding
<1> QED BY <1>1, <1>2, <1>3, <1>6, <1>7, QuietStep

\* What follows GetMeeting opens no transaction.
LEMMA AfterMeetingGoes ==
  ASSUME NEW p \in Procs, NEW n, AfterMeeting(p, n)
  PROVE  \E l : /\ Goto(p, l) /\ l \notin {"idle", "seed", "commit", "meetFill"}
                /\ l = "move" => req[p].op = "trash"
                /\ req[p].op = "destroy" => l = IF n <= Len(req[p].to) THEN "meet" ELSE "wipe"
                /\ req[p].op \in Adds => l \in {"meet", "get", "write"}
<1> DEFINE l == IF n <= Len(req[p].to) THEN "meet"
                ELSE CASE req[p].op = "end"     -> "end"
                       [] req[p].op = "trash"   -> "move"
                       [] req[p].op = "destroy" -> "wipe"
                       [] req[p].op = "copy"    -> "get"
                       [] OTHER                 -> "write"
<1>1. Goto(p, l) BY DEF AfterMeeting
<1>2. l \in {"meet", "end", "move", "wipe", "get", "write"} OBVIOUS
<1>3. l = "move" => req[p].op = "trash" OBVIOUS
<1>4. req[p].op = "destroy" => l = IF n <= Len(req[p].to) THEN "meet" ELSE "wipe" OBVIOUS
<1>5. req[p].op \in Adds => l \in {"meet", "get", "write"} BY DEF Adds
<1> HIDE DEF l
<1> QED BY <1>1, <1>2, <1>3, <1>4, <1>5

\* GetMeeting changes neither lists nor copies of them; AddMeeting does not call it.
LEMMA GetMeetingLists ==
  ASSUME ListInv, NEW p \in Procs, GetMeeting(p)
  PROVE  ListInv'
<1> USE DEF db, cache, local, history
<1>0. DOMAIN row = Meetings /\ DOMAIN info = Procs /\ req[p].meeting \in Meetings
  BY DEF ListInv, Shape, RequestType
<1>1. CASE NoMeeting(p) BY <1>0, <1>1, ReturnLists DEF NoMeeting
<1>2. CASE FindMeeting(p)
  <2> DEFINE l == IF req[p].op = "destroy" THEN "move" ELSE "meet"
  <2>1. Goto(p, l) /\ l # "commit" BY <1>2 DEF FindMeeting
  <2>2. Known(req[p].meeting) BY <1>2 DEF FindMeeting, Known
  <2>3. ~(req[p].op \in Adds /\ l \in {"seed", "move"})
    BY <1>2 DEF FindMeeting, OfClass, Adds
  <2> HIDE DEF l
  <2> QED BY <1>0, <1>2, <2>1, <2>2, <2>3, GoOnLists DEF FindMeeting
<1>3. ASSUME NEW n, AfterMeeting(p, n), pc[p] \in {"meet", "meetFill"}, DOMAIN info' = Procs,
             UNCHANGED <<scene, class, row, used, cClass, req, seen, tx>>
      PROVE  ListInv'
  <2>1. PICK l : /\ Goto(p, l) /\ l \notin {"commit", "seed"}
                 /\ l = "move" => req[p].op = "trash"
    BY <1>3, AfterMeetingGoes
  <2>2. ~(req[p].op \in Adds /\ l \in {"seed", "move"}) BY <2>1 DEF Adds
  <2>3. Removing(p) \/ req[p].op \notin {"trash", "destroy"} BY <1>3 DEF Removing
  <2> QED BY <1>0, <1>3, <2>1, <2>2, <2>3, GoOnLists
<1>4. CASE MeetingHit(p) BY <1>0, <1>3, <1>4 DEF MeetingHit
<1>5. CASE MeetingMiss(p)
  <2>1. Removing(p) \/ req[p].op \notin {"trash", "destroy"} BY <1>5 DEF MeetingMiss, Removing
  <2> QED BY <1>0, <1>5, <2>1, GoOnLists DEF MeetingMiss
<1>6. CASE MeetingFill(p) BY <1>0, <1>3, <1>6 DEF MeetingFill
<1> QED BY <1>1, <1>2, <1>4, <1>5, <1>6 DEF GetMeeting

\* GetClass copies lists that are in the row or in the cache already.
LEMMA GetClassLists ==
  ASSUME ListInv, NEW p \in Procs, GetClass(p)
  PROVE  ListInv'
<1> USE DEF db, cache, local, history, Goto
<1> DEFINE Copied(c) == c \in Class /\ \A m \in c.listed \union c.trash : Known(m)
<1>1. ASSUME NEW c, Copied(c), NEW l \in {"do", "times", "fill", "timeFill"}, Goto(p, l),
             pc[p] \in {"get", "time", "fill", "timeFill"}, seen' = [seen EXCEPT ![p] = c],
             UNCHANGED <<db, req, info, tx>>, cClass' \in {cClass, c},
             l \in {"times", "timeFill"} => pc[p] \in {"time", "timeFill"}
      PROVE  ListInv'
  <2>1. Shape' BY <1>1 DEF ListInv, Shape
  <2>2. \A q \in Procs \ {p} : pc'[q] = pc[q] /\ seen'[q] = seen[q] BY <1>1 DEF ListInv, Shape
  <2>3. pc'[p] = l /\ seen'[p] = c BY <1>1 DEF ListInv, Shape
  <2>4. \A q \in Procs : Removing(q)' => Removing(q) BY <1>1, <2>2, <2>3 DEF Removing
  <2>5. c # None BY <1>1, NoneIsNoHash
  <2>6. \A m \in Meetings : Known(m)' => Known(m)
    <3> SUFFICES ASSUME NEW m \in Meetings, Known(m)' PROVE Known(m) OBVIOUS
    <3>1. CASE m \in c.listed \union c.trash BY <1>1, <3>1
    <3>2. CASE m \notin c.listed \union c.trash BY <1>1, <2>2, <2>3, <2>4, <3>2 DEF Known
    <3> QED BY <3>1, <3>2
  <2>7. ~Adding(p)' BY <1>1, <2>3 DEF Adding
  <2> QED BY <1>1, <2>1, <2>2, <2>3, <2>6, <2>7, QuietStep
<1>2. CASE GetClassHit(p)
  <2>1. Copied(cClass) BY <1>2 DEF GetClassHit, ListInv, Shape, Known
  <2> QED BY <1>1, <1>2, <2>1 DEF GetClassHit
<1>3. CASE GetClassMiss(p)
  <2>1. Copied(class) BY DEF ListInv, Shape, Known
  <2> QED BY <1>1, <1>3, <2>1 DEF GetClassMiss
<1>4. CASE GetClassFill(p)
  <2>1. Copied(seen[p]) BY DEF ListInv, Shape, Known
  <2>2. seen' = [seen EXCEPT ![p] = seen[p]] BY <1>4 DEF GetClassFill, ListInv, Shape
  <2> QED BY <1>1, <1>4, <2>1, <2>2 DEF GetClassFill
<1>5. CASE Refuse(p) BY <1>5, ReturnLists DEF Refuse, ListInv, Shape
<1> QED BY <1>2, <1>3, <1>4, <1>5 DEF GetClass

\* A new id is in no list, so that no other handler can have it.
LEMMA AddInsertLists ==
  ASSUME ListInv, NEW p \in Procs, AddInsert(p)
  PROVE  ListInv'
<1> USE DEF AddInsert, Goto, cache, Ids
<1>1. PICK m \in Ids \ used : /\ used' = used \union {m} /\ row' = [row EXCEPT ![m] = NewMeeting(p)]
                              /\ req'  = [req EXCEPT ![p].meeting = m]
  OBVIOUS
<1>2. m \in Meetings /\ m \notin used BY ScenesAreScenes DEF ListInv, Shape
<1>3. Shape'
  <2>1. \A r \in RequestType : [r EXCEPT !.meeting = m] \in RequestType BY <1>2 DEF RequestType
  <2>2. req' \in [Procs -> RequestType] BY <1>1, <2>1 DEF ListInv, Shape
  <2>3. DOMAIN row' = Meetings /\ used' \subseteq Meetings BY <1>1, <1>2 DEF ListInv, Shape
  <2> QED BY <2>2, <2>3 DEF ListInv, Shape
<1>4. /\ \A q \in Procs \ {p} : pc'[q] = pc[q] /\ req'[q] = req[q]
      /\ pc'[p] = "seed" /\ req'[p].meeting = m /\ req'[p].op = req[p].op
  BY <1>1 DEF ListInv, Shape, RequestType
<1>5. Exact' BY <1>4 DEF ListInv, Exact, Committing
<1>6. ~Removing(p)' BY <1>4 DEF Removing, Adds
<1>7. \A n \in Meetings : Known(n)' => Known(n) BY <1>4, <1>6 DEF Known, Removing
<1>8. Adding(p)' /\ \A q \in Procs \ {p} : Adding(q)' <=> Adding(q) BY <1>4 DEF Adding
<1>9. ~Known(m) BY <1>2 DEF ListInv, Fresh
<1>10. \A q \in Procs : req[q].meeting \in Meetings BY DEF ListInv, Shape, RequestType
<1>11. Fresh'
  <2>1. \A n \in Meetings : Known(n)' => n \in used' BY <1>1, <1>7 DEF ListInv, Fresh
  <2>2. \A q \in Procs : (Adding(q) => req[q].meeting \in used /\ ~Known(req[q].meeting))'
    <3> SUFFICES ASSUME NEW q \in Procs, Adding(q)'
                 PROVE  (req[q].meeting \in used /\ ~Known(req[q].meeting))'
      OBVIOUS
    <3>1. PICK n \in Meetings : n = req'[q].meeting BY <1>2, <1>4, <1>10
    <3>2. n \in used' /\ ~Known(n)
      <4>1. CASE q = p BY <1>1, <1>4, <1>9, <3>1, <4>1
      <4>2. CASE q # p
        <5>1. n = req[q].meeting /\ Adding(q) BY <1>4, <1>8, <3>1, <4>2
        <5> QED BY <1>1, <5>1 DEF ListInv, Fresh
      <4> QED BY <4>1, <4>2
    <3>3. ~Known(n)' BY <1>7, <3>2
    <3> QED BY <3>1, <3>2, <3>3 DEF Known
  <2>3. \A q \in Procs \ {p} : Adding(q) => req[q].meeting # m BY <1>2 DEF ListInv, Fresh
  <2>4. \A q, r \in Procs : Adding(q)' /\ Adding(r)' /\ q # r => req'[q].meeting # req'[r].meeting
    BY <1>4, <1>8, <2>3 DEF ListInv, Fresh
  <2> QED BY <2>1, <2>2, <2>4 DEF Fresh
<1>12. ListedOrTrashed' BY DEF ListInv, ListedOrTrashed
<1> QED BY <1>3, <1>5, <1>11, <1>12 DEF ListInv

\* A transaction opens with what it will commit made of the row as it is.
LEMMA LockLists ==
  ASSUME ListInv, NEW p \in Procs, ClassFree, Goto(p, "commit"),
         UNCHANGED <<db, req, seen, info>>, Shape',
         \A q \in Procs \ {p} : tx'[q] = tx[q],
         LET m == req[p].meeting IN
         \/ /\ req[p].op \in Adds /\ Adding(p) /\ tx'[p].listed = class.listed \union {m}
            /\ tx'[p].trash = tx[p].trash
         \/ /\ req[p].op = "trash" /\ Removing(p)
            /\ tx'[p].listed = class.listed \ {m} /\ tx'[p].trash = class.trash \union {m}
         \/ /\ req[p].op = "destroy" /\ Removing(p)
            /\ tx'[p].trash = class.trash \ {m} /\ tx'[p].listed = tx[p].listed,
         cClass' # None => /\ cClass # None
                           /\ cClass'.listed \subseteq cClass.listed \union tx'[p].listed
                           /\ cClass'.trash \subseteq cClass.trash \union tx'[p].trash
  PROVE  ListInv'
<1> USE DEF db, Goto
<1> DEFINE m == req[p].meeting
<1>0. m \in Meetings /\ \A q \in Procs : req[q].meeting \in Meetings BY DEF ListInv, Shape, RequestType
<1>1. /\ \A q \in Procs \ {p} : pc'[q] = pc[q] /\ pc'[q] # "commit"
      /\ pc'[p] = "commit"
  BY DEF ListInv, Shape, ClassFree
<1>2. req[p].op \in Adds => m \notin class.trash
  BY DEF ListInv, Fresh, Known, Adding, Removing, Adds
<1>3. Exact' BY <1>1, <1>2 DEF Exact, Committing
<1>4. \A q \in Procs : Removing(q)' => Removing(q) BY <1>1 DEF Removing, Adds, Adding
<1>5. \A n \in Meetings : Known(n)' => Known(n) \/ (n = m /\ Adding(p))
  <2> SUFFICES ASSUME NEW n \in Meetings, Known(n)', ~Known(n) PROVE n = m /\ Adding(p) OBVIOUS
  <2>1. /\ n \notin class.listed \union class.trash
        /\ cClass # None => n \notin cClass.listed \union cClass.trash
        /\ \A q \in Procs : n \notin seen[q].listed \union seen[q].trash \union tx[q].listed \union tx[q].trash
        /\ \A q \in Procs : Removing(q) => n # req[q].meeting
    BY DEF Known
  <2>2. \/ n \in tx'[p].listed \union tx'[p].trash
        \/ cClass' # None /\ n \in cClass'.listed \union cClass'.trash
    BY <1>4, <2>1 DEF Known
  <2>3. n \in tx'[p].listed \union tx'[p].trash BY <2>1, <2>2
  <2> QED BY <2>1, <2>3
<1>6. ~Adding(p)' /\ \A q \in Procs \ {p} : Adding(q)' <=> Adding(q) BY <1>1 DEF Adding
<1>7. Fresh'
  <2>1. Adding(p) => m \in used BY DEF ListInv, Fresh
  <2>2. \A n \in Meetings : Known(n)' => n \in used' BY <1>5, <2>1 DEF ListInv, Fresh
  <2>3. \A q \in Procs : (Adding(q) => req[q].meeting \in used /\ ~Known(req[q].meeting))'
    <3> SUFFICES ASSUME NEW q \in Procs, Adding(q)'
                 PROVE  (req[q].meeting \in used /\ ~Known(req[q].meeting))'
      OBVIOUS
    <3>1. q # p /\ Adding(q) BY <1>6
    <3>2. PICK n \in Meetings : n = req[q].meeting BY <1>0
    <3>3. n \in used /\ ~Known(n) BY <3>1, <3>2 DEF ListInv, Fresh
    <3>4. Adding(p) => n # m BY <3>1, <3>2 DEF ListInv, Fresh
    <3>5. ~Known(n)' BY <1>5, <3>3, <3>4
    <3> QED BY <3>2, <3>3, <3>5 DEF Known
  <2>4. \A q, r \in Procs : Adding(q)' /\ Adding(r)' /\ q # r => req'[q].meeting # req'[r].meeting
    BY <1>6 DEF ListInv, Fresh
  <2> QED BY <2>2, <2>3, <2>4 DEF Fresh
<1>8. ListedOrTrashed' BY DEF ListInv, ListedOrTrashed
<1> QED BY <1>3, <1>7, <1>8 DEF ListInv

\* AddMeeting, whose transaction adds the meeting to the list.
LEMMA AddMeetingLists ==
  ASSUME ListInv, NEW p \in Procs, AddMeeting(p)
  PROVE  ListInv'
<1> USE DEF db, cache, local, history
<1> DEFINE m == req[p].meeting
<1>0. DOMAIN row = Meetings /\ DOMAIN info = Procs /\ m \in Meetings
  BY DEF ListInv, Shape, RequestType
<1>1. CASE AddInsert(p) BY <1>1, AddInsertLists
<1>2. CASE AddExhausted(p) BY <1>0, <1>2, ReturnLists DEF AddExhausted
<1>3. CASE AddSeed(p)
  <2>1. req[p].op \in Adds => Adding(p) BY <1>3 DEF AddSeed, Adding
  <2>2. req[p].op \notin {"trash", "destroy"} \/ Removing(p) BY <1>3 DEF AddSeed, Removing
  <2> QED BY <1>0, <1>3, <2>1, <2>2, GoOnLists DEF AddSeed
<1>4. CASE AddLink(p)
  <2>1. Shape'
    <3>1. \A c \in Class : [c EXCEPT !.listed = class.listed \union {m}] \in Class
      BY <1>0 DEF ListInv, Shape, Class
    <3>2. tx' \in [Procs -> Class] BY <1>4, <3>1 DEF AddLink, ListInv, Shape
    <3>3. cClass' \in Class \union {None} BY <1>4, <3>1 DEF AddLink, ListInv, Shape
    <3> QED BY <1>4, <3>2, <3>3 DEF AddLink, ListInv, Shape, Goto
  <2>2. tx'[p].listed = class.listed \union {m} /\ tx'[p].trash = tx[p].trash
    BY <1>4 DEF AddLink, ListInv, Shape, Class
  <2>3. cClass' # None => /\ cClass # None
                          /\ cClass'.listed = tx'[p].listed /\ cClass'.trash = cClass.trash
    BY <1>4, <2>2 DEF AddLink, ListInv, Shape, Class
  <2>4. \A q \in Procs \ {p} : tx'[q] = tx[q] BY <1>4 DEF AddLink, ListInv, Shape
  <2>5. req[p].op \in Adds /\ Adding(p) BY <1>4 DEF AddLink, Adding
  <2> QED BY <1>4, <2>1, <2>2, <2>3, <2>4, <2>5, LockLists DEF AddLink
<1>5. CASE AddCommit(p)
  <2>1. class'.listed = class.listed \union {m} /\ class'.trash = class.trash /\ m \notin class.trash
        /\ class' \in Class
    BY <1>5 DEF AddCommit, ListInv, Shape, Class, Exact, Committing, Adds
  <2>2. Shape' BY <1>5, <2>1 DEF AddCommit, ListInv, Shape, Goto
  <2>3. \A q \in Procs \ {p} : pc'[q] = pc[q] /\ pc'[q] # "commit"
    BY <1>5 DEF AddCommit, ListInv, Shape, Goto, Exact, Committing
  <2>4. pc'[p] = "time" BY <1>5 DEF AddCommit, ListInv, Shape, Goto
  <2>5. Exact' BY <2>3, <2>4 DEF Exact, Committing
  <2>6. \A n \in Meetings : Known(n)' => Known(n)
    <3>1. m \in tx[p].listed BY <1>5 DEF AddCommit, ListInv, Exact, Committing, Adds
    <3>2. \A q \in Procs : Removing(q)' => Removing(q) BY <1>5, <2>3, <2>4 DEF AddCommit, Removing, Adds
    <3> QED BY <1>5, <2>1, <3>1, <3>2 DEF AddCommit, Known
  <2>7. \A q \in Procs : Adding(q)' => Adding(q) BY <1>5, <2>3, <2>4 DEF AddCommit, Adding
  <2>8. \A q \in Procs : req[q].meeting \in Meetings BY DEF ListInv, Shape, RequestType
  <2>9. Fresh' BY <1>5, <2>6, <2>7, <2>8 DEF AddCommit, ListInv, Fresh
  <2>10. ListedOrTrashed' BY <2>1 DEF ListInv, ListedOrTrashed
  <2> QED BY <2>2, <2>5, <2>9, <2>10 DEF ListInv
<1> QED BY <1>1, <1>2, <1>3, <1>4, <1>5 DEF AddMeeting

\* EndMeeting, which counts and leaves the lists.
LEMMA EndMeetingLists ==
  ASSUME ListInv, NEW p \in Procs, EndMeeting(p)
  PROVE  ListInv'
<1> USE DEF db, cache, local, history
<1>0. DOMAIN row = Meetings /\ DOMAIN info = Procs BY DEF ListInv, Shape
<1>1. CASE EndClosed(p) BY <1>0, <1>1, ReturnLists DEF EndClosed
<1>2. CASE EndRow(p)
  <2>1. req[p].op = "end" BY <1>2 DEF EndRow, At
  <2> QED BY <1>0, <1>2, <2>1, GoOnLists DEF EndRow, Adds
<1>3. CASE EndCache(p)
  <2>1. req[p].op = "end" BY <1>3 DEF EndCache, At
  <2> QED BY <1>0, <1>3, <2>1, GoOnLists DEF EndCache, Adds
<1>4. ASSUME CountRow(p) \/ CountCache(p) PROVE ListInv'
  <2>1. req[p].op = "end" /\ UNCHANGED <<scene, row, used, req, seen, info, tx>>
    BY <1>4 DEF CountRow, CountCache, At
  <2>2. /\ class' \in Class /\ class'.listed = class.listed /\ class'.trash = class.trash
        /\ cClass' \in Class \union {None}
        /\ cClass' # None => /\ cClass # None
                             /\ cClass'.listed = cClass.listed /\ cClass'.trash = cClass.trash
    BY <1>4 DEF CountRow, CountCache, ListInv, Shape, Class
  <2>3. /\ pc'[p] \in {"countCache", "time"} /\ DOMAIN pc' = Procs
        /\ \A q \in Procs \ {p} : pc'[q] = pc[q]
    BY <1>4 DEF CountRow, CountCache, Goto, ListInv, Shape
  <2>4. Shape' BY <2>1, <2>2, <2>3 DEF ListInv, Shape
  <2>5. \A q \in Procs : Removing(q)' => Removing(q) BY <2>1, <2>3 DEF Removing
  <2>6. \A m \in Meetings : Known(m)' => Known(m) BY <2>1, <2>2, <2>5 DEF Known
  <2>7. ~Adding(p)' BY <2>3 DEF Adding
  <2> QED BY <2>1, <2>2, <2>3, <2>4, <2>6, <2>7, QuietStep
<1> QED BY <1>1, <1>2, <1>3, <1>4 DEF EndMeeting

\* Without a transaction of its own, what a rollback writes to the cache is known.
LEMMA RecacheLists ==
  ASSUME ListInv, NEW p \in Procs, Recache(p)
  PROVE  ListInv'
<1> USE DEF Recache, SetLists, db, local
<1>1. /\ cClass' \in Class \union {None}
      /\ cClass' # None => /\ cClass # None
                           /\ cClass'.listed \subseteq cClass.listed \union tx[p].listed
                           /\ cClass'.trash \subseteq cClass.trash \union tx[p].trash
  BY DEF ListInv, Shape, Class
<1>2. /\ pc'[p] \in {"time", "meet"} /\ DOMAIN pc' = Procs
      /\ \A q \in Procs \ {p} : pc'[q] = pc[q]
  BY DEF Goto, ListInv, Shape
<1>3. Shape' BY <1>1, <1>2 DEF ListInv, Shape
<1>4. \A q \in Procs : Removing(q)' => Removing(q) BY <1>2 DEF Removing
<1>5. \A m \in Meetings : Known(m)' => Known(m) BY <1>1, <1>4 DEF Known
<1>6. ~Adding(p)' BY <1>2 DEF Adding
<1> QED BY <1>2, <1>3, <1>5, <1>6, QuietStep

\* The transactions that take a meeting out of a list, and what they do if it is not there.
LEMMA UnlistRowLists ==
  ASSUME ListInv, NEW p \in Procs, TrashRow(p) \/ DestroyRow(p)
  PROVE  ListInv'
<1> USE DEF db, history
<1> DEFINE m == req[p].meeting  l == IF pc'[p] = "commit" THEN "commit" ELSE "recache"
<1>0. m \in Meetings /\ ClassFree /\ Removing(p) /\ req[p].op \notin Adds
  BY DEF ListInv, Shape, RequestType, TrashRow, DestroyRow, At, Removing, Adds
<1>1. /\ \/ /\ req[p].op = "trash"
            /\ tx'[p].listed = class.listed \ {m} /\ tx'[p].trash = class.trash \union {m}
         \/ /\ req[p].op = "destroy"
            /\ tx'[p].trash = class.trash \ {m} /\ tx'[p].listed = tx[p].listed
      /\ tx' \in [Procs -> Class] /\ \A q \in Procs \ {p} : tx'[q] = tx[q]
  <2>1. \A c \in Class : /\ [c EXCEPT !.trash = class.trash \ {m}] \in Class
                         /\ [c EXCEPT !.listed = class.listed \ {m}, !.trash = class.trash \union {m}] \in Class
    BY <1>0 DEF ListInv, Shape, Class
  <2>2. CASE TrashRow(p)
    <3> DEFINE c == [tx[p] EXCEPT !.listed = class.listed \ {m}, !.trash = class.trash \union {m}]
    <3>1. tx' = [tx EXCEPT ![p] = c] BY <2>2 DEF TrashRow, ListInv, Shape, Class
    <3>2. tx[p] \in Class BY DEF ListInv, Shape
    <3>3. c \in Class BY <2>1, <3>2
    <3>4. c.listed = class.listed \ {m} /\ c.trash = class.trash \union {m} BY <3>2 DEF Class
    <3>5. req[p].op = "trash" BY <2>2 DEF TrashRow, At
    <3> HIDE DEF c
    <3> QED BY <3>1, <3>3, <3>4, <3>5 DEF ListInv, Shape
  <2>3. CASE DestroyRow(p) BY <2>1, <2>3 DEF DestroyRow, At, ListInv, Shape, Class
  <2> QED BY <2>2, <2>3
<1>2. /\ cClass' \in Class \union {None}
      /\ cClass' # None => /\ cClass # None
                           /\ cClass'.listed \subseteq cClass.listed \union tx'[p].listed
                           /\ cClass'.trash \subseteq cClass.trash \union tx'[p].trash
  <2>1. CASE TrashRow(p)
    <3>1. \A c \in Class : Decreased(c.finished) \in Int BY DEF Decreased, Class
    <3>2. cClass' \in {cClass, None, [listed |-> class.listed \ {m}, trash |-> class.trash \union {m},
                                     finished |-> IF Over(p) THEN Decreased(cClass.finished) ELSE cClass.finished]}
      BY <2>1 DEF TrashRow
    <3>3. cClass' # None => cClass # None BY <2>1 DEF TrashRow
    <3>4. tx'[p].listed = class.listed \ {m} /\ tx'[p].trash = class.trash \union {m}
      BY <1>1, <2>1 DEF TrashRow, At
    <3>5. cClass # None => cClass.finished \in Int BY DEF ListInv, Shape, Class
    <3> QED BY <1>0, <3>1, <3>2, <3>3, <3>4, <3>5 DEF ListInv, Shape, Class
  <2>2. CASE DestroyRow(p) BY <1>0, <1>1, <2>2 DEF DestroyRow, At, ListInv, Shape, Class
  <2> QED BY <2>1, <2>2
<1>3. Goto(p, l) /\ UNCHANGED <<db, req, seen, info>>
  BY DEF TrashRow, DestroyRow, Goto, ListInv, Shape
<1>4. Shape' BY <1>1, <1>2, <1>3 DEF ListInv, Shape, Goto
<1>5. CASE l = "commit" BY <1>0, <1>1, <1>2, <1>3, <1>4, <1>5, LockLists
<1>6. CASE l # "commit"
  <2>1. pc'[p] = "recache" /\ \A q \in Procs \ {p} : pc'[q] = pc[q] BY <1>3, <1>6 DEF ListInv, Shape, Goto
  <2>2. \A q \in Procs : Removing(q)' => Removing(q) BY <1>0, <1>3, <2>1 DEF Removing
  <2>3. \A n \in Meetings : Known(n)' => Known(n)
    <3> SUFFICES ASSUME NEW n \in Meetings, Known(n)', ~Known(n) PROVE FALSE OBVIOUS
    <3>1. n \notin tx'[p].listed \union tx'[p].trash BY <1>0, <1>1 DEF Known
    <3>2. cClass' # None => n \notin cClass'.listed \union cClass'.trash BY <1>2, <3>1 DEF Known
    <3> QED BY <1>1, <1>3, <2>2, <3>1, <3>2 DEF Known
  <2>4. ~Adding(p)' BY <2>1 DEF Adding
  <2> QED BY <1>1, <1>3, <1>4, <2>1, <2>3, <2>4, QuietStep
<1> QED BY <1>5, <1>6

\* Their commits.
LEMMA UnlistCommitLists ==
  ASSUME ListInv, NEW p \in Procs, TrashCommit(p) \/ DestroyCommit(p)
  PROVE  ListInv'
<1> USE DEF local
<1> DEFINE m == req[p].meeting
<1>0. m \in Meetings /\ Removing(p)
  BY DEF ListInv, Shape, RequestType, TrashCommit, DestroyCommit, At, Removing
<1>1. /\ class' \in Class
      /\ \/ class'.listed = class.listed \ {m} /\ class'.trash = class.trash \union {m}
         \/ class'.listed = class.listed /\ class'.trash = class.trash \ {m}
  <2>1. CASE TrashCommit(p)
    <3>1. tx[p].listed = class.listed \ {m} /\ tx[p].trash = class.trash \union {m}
      BY <2>1 DEF TrashCommit, At, ListInv, Exact, Committing, Adds
    <3>2. class.finished - 1 \in Int BY DEF ListInv, Shape, Class
    <3>3. class' = [listed |-> tx[p].listed, trash |-> tx[p].trash,
                    finished |-> IF Over(p) THEN class.finished - 1 ELSE class.finished]
      BY <2>1 DEF TrashCommit
    <3> QED BY <1>0, <3>1, <3>2, <3>3 DEF ListInv, Shape, Class
  <2>2. CASE DestroyCommit(p)
    <3>1. tx[p].trash = class.trash \ {m}
      BY <2>2 DEF DestroyCommit, At, ListInv, Exact, Committing, Adds
    <3> QED BY <1>0, <2>2, <3>1 DEF DestroyCommit, ListInv, Shape, Class
  <2> QED BY <2>1, <2>2
<1>2. /\ pc'[p] \in {"time", "meet"} /\ DOMAIN pc' = Procs /\ \A q \in Procs \ {p} : pc'[q] = pc[q]
      /\ pc[p] = "commit" /\ UNCHANGED <<scene, row, used, cClass, req, seen, info, tx>>
  BY DEF TrashCommit, DestroyCommit, At, Goto, ListInv, Shape, cache
<1>3. Shape' BY <1>1, <1>2 DEF ListInv, Shape
<1>4. Exact' BY <1>2 DEF ListInv, Exact, Committing
<1>5. \A q \in Procs : Removing(q)' => Removing(q) BY <1>0, <1>2 DEF Removing
<1>6. \A n \in Meetings : Known(n)' => Known(n) BY <1>0, <1>1, <1>2, <1>5 DEF Known
<1>7. \A q \in Procs : Adding(q)' => Adding(q) BY <1>2 DEF Adding
<1>8. \A q \in Procs : req[q].meeting \in Meetings BY DEF ListInv, Shape, RequestType
<1>9. Fresh' BY <1>2, <1>6, <1>7, <1>8 DEF ListInv, Fresh
<1>10. ListedOrTrashed' BY <1>1 DEF ListInv, ListedOrTrashed
<1> QED BY <1>3, <1>4, <1>9, <1>10 DEF ListInv

\* A request of AddMeeting or of a deletion begins with GetClass.
LEMMA CallLists ==
  ASSUME ListInv, NEW p \in Procs, Call(p)
  PROVE  ListInv' /\ pc'[p] \in {"meet", "get"} /\ req'[p] \in RequestType
         /\ (req'[p].op = "destroy" => pc'[p] = "get" /\ req'[p].to = <<>>)
         /\ (req'[p].op = "add" => pc'[p] = "get")
         /\ (req'[p].op \notin {"ally", "sync"} => req'[p].to = <<>>)
         /\ (req'[p].op = "ally" => Len(req'[p].to) = 1) /\ (req'[p].op = "sync" => req'[p].to # <<>>)
<1> USE DEF db, cache
<1>1. PICK op \in Scenes[scene].ops : \E r \in Asked(op) :
        req' = [req EXCEPT ![p] = r] /\ Goto(p, IF op \in OfMeetings THEN "meet" ELSE "get")
  BY DEF Call
<1>2. PICK r \in Asked(op) :
        req' = [req EXCEPT ![p] = r] /\ Goto(p, IF op \in OfMeetings THEN "meet" ELSE "get")
  BY <1>1
<1>3. /\ op \in Calls /\ Ids \subseteq Meetings /\ Starts \subseteq Times
      /\ Scenes[scene].targets \subseteq Seq(Meetings) \ {<<>>} /\ Scenes[scene].copied \subseteq SUBSET Fields
  BY ScenesAreScenes DEF ListInv, Shape, Ids, Starts
<1>4. /\ r \in RequestType /\ r.op = op /\ (op \notin {"ally", "sync"} => r.to = <<>>)
      /\ (op = "ally" => Len(r.to) = 1) /\ (op = "sync" => r.to # <<>>)
  <2> USE AnyOpIsRequest DEF Asked, Request, RequestType
  <2>1. CASE op = "add" BY <1>3, <2>1
  <2>2. CASE op = "change" BY <1>3, <2>2
  <2>3. CASE op = "ally"
    <3>1. \A a \in Meetings : <<a>> \in Seq(Meetings) OBVIOUS
    <3>2. PICK m \in Ids, a \in Ids : r = Request(op, m, <<a>>, {}, AnyOp.start) BY <2>3
    <3> QED BY <1>3, <2>3, <3>1, <3>2
  <2>4. CASE op = "sync" BY <1>3, <2>4
  <2>5. CASE op \in {"end", "trash", "destroy", "copy"} BY <1>3, <2>5
  <2> QED BY <1>3, <2>1, <2>2, <2>3, <2>4, <2>5 DEF Calls
<1>5. req' \in [Procs -> RequestType] /\ req'[p] = r /\ \A q \in Procs \ {p} : req'[q] = req[q]
  BY <1>2, <1>4 DEF ListInv, Shape
<1>6. /\ pc'[p] = (IF op \in OfMeetings THEN "meet" ELSE "get") /\ DOMAIN pc' = Procs
      /\ \A q \in Procs \ {p} : pc'[q] = pc[q]
  BY <1>2 DEF Goto, ListInv, Shape
<1>7. Shape' BY <1>5, <1>6 DEF Call, ListInv, Shape
<1>8. ~Removing(p)' /\ ~Adding(p)' BY <1>4, <1>5, <1>6 DEF Removing, Adding, OfMeetings
<1>9. \A q \in Procs : Removing(q)' => Removing(q) /\ req'[q].meeting = req[q].meeting
  BY <1>5, <1>6, <1>8 DEF Removing
<1>10. \A m \in Meetings : Known(m)' => Known(m) BY <1>9 DEF Call, Known
<1>11. ListInv' BY <1>5, <1>6, <1>7, <1>8, <1>10, QuietStep DEF Call
<1> QED BY <1>4, <1>5, <1>6, <1>11 DEF OfMeetings

\* What a step of UpdateMeetingTime leaves as it was, and where it leads: to the next
\* meeting, or to what follows the schedule.
LEMMA TimesGo ==
  ASSUME NEW p \in Procs, UpdateMeetingTime(p) \/ CopyUntimed(p)
  PROVE  /\ pc[p] \in Timing /\ UNCHANGED <<scene, class, row, used, cClass, miscount, orphaned, taint>>
         /\ \/ \E l \in {"times", "timesFill"} : Goto(p, l) /\ UNCHANGED <<req, seen, info, step, tx>>
            \/ req[p].op = "copy" /\ Goto(p, "write") /\ UNCHANGED <<req, seen, info, step, tx>>
            \/ Return(p)
<1> USE DEF db, cache, history, Timing
<1>1. CASE TimeHit(p) BY <1>1 DEF TimeHit
<1>2. CASE TimeMiss(p) BY <1>2 DEF TimeMiss
<1>3. CASE TimeFill(p) BY <1>3 DEF TimeFill
<1>4. CASE TimeGone(p) BY <1>4 DEF TimeGone, AfterTimes
<1>5. CASE Reschedule(p) BY <1>5 DEF Reschedule, AfterTimes
<1>6. CASE CopyUntimed(p) BY <1>6 DEF CopyUntimed, AfterTimes
<1> QED BY <1>1, <1>2, <1>3, <1>4, <1>5, <1>6 DEF UpdateMeetingTime

\* Steps that change rows of meetings, hashes of meetings and the schedule, or fail.
LEMMA OtherLists ==
  ASSUME ListInv, NEW p \in Procs,
         \/ WipeRow(p) \/ WipeCommit(p) \/ UpdateMeetingTime(p) \/ WriteRow(p) \/ PutField(p)
         \/ Rollback(p) \/ Abandon(p) \/ CopyUntimed(p)
  PROVE  ListInv'
<1> USE DEF db, cache, local, history
<1>0. DOMAIN row = Meetings /\ DOMAIN info = Procs BY DEF ListInv, Shape
<1>1. ASSUME NEW l, Goto(p, l), l \in {"wiped", "write", "put", "time", "times", "timesFill"},
             pc[p] \notin {"idle", "get", "fill", "do"},
             UNCHANGED <<scene, class, cClass, used, req, seen, info, tx>>, DOMAIN row' = Meetings
      PROVE  ListInv'
  <2>1. Removing(p) \/ req[p].op \notin {"trash", "destroy"} BY <1>1 DEF Removing
  <2> QED BY <1>0, <1>1, <2>1, GoOnLists
<1>2. CASE WipeRow(p) BY <1>0, <1>1, <1>2 DEF WipeRow
<1>3. CASE WipeCommit(p) BY <1>0, <1>3, ReturnLists DEF WipeCommit
<1>4. CASE UpdateMeetingTime(p) \/ CopyUntimed(p)
  <2>1. UNCHANGED <<scene, class, row, used, cClass>> /\ pc[p] \notin {"idle", "get", "fill", "do"}
    BY <1>4, TimesGo DEF Timing
  <2>2. CASE Return(p) BY <1>0, <2>1, <2>2, ReturnLists
  <2>3. ASSUME NEW l \in {"write", "times", "timesFill"}, Goto(p, l), UNCHANGED <<req, seen, info, step, tx>>
        PROVE  ListInv'
    BY <1>0, <1>1, <2>1, <2>3
  <2> QED BY <1>4, <2>2, <2>3, TimesGo
<1>5. CASE WriteRow(p) BY <1>0, <1>1, <1>5 DEF WriteRow
<1>6. CASE PutField(p)
  <2>1. UNCHANGED <<scene, class, row, used, cClass>> BY <1>6 DEF PutField
  <2>2. CASE Return(p) BY <1>0, <2>1, <2>2, ReturnLists
  <2>3. CASE Goto(p, "time") /\ UNCHANGED local BY <1>0, <1>1, <1>6, <2>1, <2>3 DEF PutField
  <2>4. CASE UNCHANGED <<pc, req, seen, info, tx>>
    <3>1. Shape' BY <2>1, <2>4 DEF ListInv, Shape
    <3>2. pc'[p] # "commit" BY <1>6, <2>4 DEF PutField
    <3>3. \A m \in Meetings : Known(m)' => Known(m) BY <2>1, <2>4 DEF Known, Removing
    <3>4. Adding(p)' => Adding(p) BY <2>4 DEF Adding
    <3> QED BY <2>1, <2>4, <3>1, <3>2, <3>3, <3>4, QuietStep
  <2> QED BY <1>6, <2>2, <2>3, <2>4 DEF PutField
<1>7. CASE Rollback(p) BY <1>0, <1>7, ReturnLists DEF Rollback
<1>8. CASE Abandon(p) BY <1>0, <1>8, ReturnLists DEF Abandon
<1> QED BY <1>2, <1>3, <1>4, <1>5, <1>6, <1>7, <1>8

LEMMA ListStep == ListInv /\ [Next]_vars => ListInv'
<1> SUFFICES ASSUME ListInv, [Next]_vars PROVE ListInv' OBVIOUS
<1>1. CASE UNCHANGED vars
  <2> USE <1>1 DEF vars, db, cache, local, history
  <2>1. Shape' BY DEF ListInv, Shape
  <2>2. Exact' BY DEF ListInv, Exact, Committing
  <2>3. Fresh' BY DEF ListInv, Fresh, Known, Adding, Removing
  <2> QED BY <2>1, <2>2, <2>3 DEF ListInv, ListedOrTrashed
<1>2. ASSUME NEW p \in Procs, DeleteMeeting(p) \/ DeleteMeetingPermanently(p) PROVE ListInv'
  BY <1>2, RecacheLists, UnlistRowLists, UnlistCommitLists, OtherLists
  DEF DeleteMeeting, DeleteMeetingPermanently
<1>3. CASE Next
  BY <1>2, <1>3, CallLists, GetClassLists, GetMeetingLists, AddMeetingLists, EndMeetingLists, OtherLists
  DEF Next
<1> QED BY <1>1, <1>3

\* A meeting is never both in the class and in its trash: each of AddMeeting and
\* the two deletions locks the row before it computes the lists that it commits.
THEOREM ListsAreApart == Spec => []ListedOrTrashed
<1>1. ListInv => ListedOrTrashed BY DEF ListInv
<1> QED BY ListInit, ListStep, <1>1, PTL DEF Spec

\* At most one handler is in a transaction of the class, and ids are never reused.
THEOREM NewMeetingsAreFresh == Spec => [](Exact /\ Fresh)
<1>1. ListInv => Exact /\ Fresh BY DEF ListInv
<1> QED BY ListInit, ListStep, <1>1, PTL DEF Spec

-----------------------------------------------------------------------------

\* The meetings of handlers that are adding or deleting them.
Handled(p) ==
  \/ req[p].op \in Adds /\ pc[p] \in {"seed", "move", "commit"}
  \/ req[p].op = "destroy" /\ pc[p] \in {"recache", "meet", "meetFill", "wipe", "wiped"}
Reached == class.listed \union class.trash \union orphaned \union
             {req[p].meeting : p \in {q \in Procs : Handled(q)}}

\* A step that makes no row, and after which p's meeting is reached as it was.
LEMMA QuietReach ==
  ASSUME MeetingsAreReachable, NEW p \in Procs,
         \A q \in Procs \ {p} : pc'[q] = pc[q] /\ req'[q] = req[q],
         \A m \in Meetings : row'[m] # None => row[m] # None \/ m \in Reached',
         class.listed \union class.trash \subseteq class'.listed \union class'.trash \union {req[p].meeting},
         orphaned \subseteq orphaned',
         \/ ~Handled(p) /\ class.listed \union class.trash \subseteq class'.listed \union class'.trash
         \/ Handled(p)' /\ req'[p].meeting = req[p].meeting
         \/ row'[req[p].meeting] = None
         \/ req[p].meeting \in class'.listed \union class'.trash \union orphaned'
  PROVE  MeetingsAreReachable'
<1> SUFFICES ASSUME NEW m \in Meetings, row'[m] # None, row[m] # None PROVE m \in Reached'
  BY DEF MeetingsAreReachable, rows, Reached, Handled
<1>1. m \in Reached BY DEF MeetingsAreReachable, rows, Reached, Handled
<1>2. CASE m \in class.listed \union class.trash \union orphaned /\ m # req[p].meeting BY <1>2 DEF Reached
<1>3. CASE m = req[p].meeting
  <2>1. CASE Handled(p)' /\ req'[p].meeting = req[p].meeting BY <1>3, <2>1 DEF Reached
  <2>2. CASE m \in class'.listed \union class'.trash \union orphaned' BY <2>2 DEF Reached
  <2>3. CASE ~Handled(p) /\ class.listed \union class.trash \subseteq class'.listed \union class'.trash
    <3>1. CASE m \in class.listed \union class.trash \union orphaned BY <2>3, <3>1 DEF Reached
    <3>2. CASE m \notin class.listed \union class.trash \union orphaned
      <4>1. PICK q \in Procs : Handled(q) /\ m = req[q].meeting BY <1>1, <3>2 DEF Reached
      <4>2. q # p BY <2>3, <4>1
      <4>3. Handled(q)' /\ m = req'[q].meeting BY <4>1, <4>2 DEF Handled
      <4> QED BY <4>3 DEF Reached
    <3> QED BY <3>1, <3>2
  <2> QED BY <1>3, <2>1, <2>2, <2>3
<1>4. CASE m \notin class.listed \union class.trash \union orphaned /\ m # req[p].meeting
  <2>1. PICK q \in Procs : Handled(q) /\ m = req[q].meeting BY <1>1, <1>4 DEF Reached
  <2>2. q # p BY <1>4, <2>1
  <2>3. Handled(q)' /\ m = req'[q].meeting BY <2>1, <2>2 DEF Handled
  <2> QED BY <2>3 DEF Reached
<1> QED BY <1>2, <1>3, <1>4

LEMMA ReachInit == Init => ReachInv
<1> SUFFICES ASSUME Init PROVE ReachInv OBVIOUS
<1>1. ListInv BY ListInit
<1>2. Empties BY AnyOpIsRequest DEF Init, Empties
<1>3. MeetingsAreReachable BY DEF Init, MeetingsAreReachable, rows, Empty
<1> QED BY <1>1, <1>2, <1>3 DEF ReachInv

\* A handler that destroys a meeting looks up no other.
LEMMA EmptiesStep == ReachInv /\ [Next]_vars => Empties'
<1> SUFFICES ASSUME ReachInv, [Next]_vars PROVE Empties' OBVIOUS
<1> USE DEF db, cache, local, history
<1>0. Shape /\ Empties BY DEF ReachInv, ListInv
<1>1. CASE UNCHANGED vars BY <1>0, <1>1 DEF vars, Empties
\* Steps of p that leave the others, and p's request or all that it has.
<1>2. ASSUME NEW p \in Procs, \A q \in Procs \ {p} : pc'[q] = pc[q] /\ req'[q] = req[q] /\ info'[q] = info[q],
             pc'[p] = "idle" => info'[p] = <<>>, req'[p].op = "destroy" => req'[p].to = <<>>,
             req'[p].op = "destroy" /\ pc'[p] \notin {"idle", "meetFill", "wipe", "wiped"} => info'[p] = <<>>,
             req'[p].op = "destroy" /\ pc'[p] = "meetFill" => Len(info'[p]) = 1
      PROVE  Empties'
  BY <1>0, <1>2 DEF Empties
<1>3. ASSUME NEW p \in Procs, Return(p) PROVE Empties'
  <2>1. /\ \A q \in Procs \ {p} : pc'[q] = pc[q] /\ req'[q] = req[q] /\ info'[q] = info[q]
        /\ pc'[p] = "idle" /\ info'[p] = <<>> /\ req'[p] = AnyOp
    BY <1>0, <1>3 DEF Return, Goto, Shape
  <2> QED BY <1>2, <2>1, AnyOpIsRequest
<1>4. ASSUME NEW p \in Procs, NEW l, Goto(p, l), l \notin {"idle", "meetFill"}, UNCHANGED <<req, info>>,
             \/ req[p].op # "destroy" \/ l \in {"wipe", "wiped"}
             \/ pc[p] \notin {"idle", "meetFill", "wipe", "wiped"}
      PROVE  Empties'
  <2>1. /\ \A q \in Procs \ {p} : pc'[q] = pc[q] /\ req'[q] = req[q] /\ info'[q] = info[q]
        /\ pc'[p] = l /\ info'[p] = info[p] /\ req'[p] = req[p]
    BY <1>0, <1>4 DEF Goto, Shape
  <2> QED BY <1>0, <1>2, <1>4, <2>1 DEF Empties
<1>5. ASSUME NEW p \in Procs, Call(p) PROVE Empties'
  <2>1. /\ \A q \in Procs \ {p} : pc'[q] = pc[q] /\ req'[q] = req[q] /\ info'[q] = info[q]
        /\ info'[p] = <<>>
    BY <1>0, <1>5 DEF Call, Goto, Shape, Empties
  <2> QED BY <1>0, <1>2, <1>5, <2>1, CallLists DEF ReachInv
<1>6. ASSUME NEW p \in Procs, GetClass(p) PROVE Empties'
  <2>1. CASE Refuse(p) BY <1>3, <2>1 DEF Refuse
  <2>2. CASE GetClassHit(p) BY <1>4, <2>2 DEF GetClassHit
  <2>3. CASE GetClassMiss(p) BY <1>4, <2>3 DEF GetClassMiss
  <2>4. CASE GetClassFill(p) BY <1>4, <2>4 DEF GetClassFill
  <2> QED BY <1>6, <2>1, <2>2, <2>3, <2>4 DEF GetClass
<1>7. ASSUME NEW p \in Procs, GetMeeting(p) PROVE Empties'
  <2>1. CASE NoMeeting(p) BY <1>3, <2>1 DEF NoMeeting
  <2>2. CASE FindMeeting(p) BY <1>4, <2>2 DEF FindMeeting, OfClass
  \* The steps of GetMeeting proper.
  <2>3. ASSUME pc[p] = "meet", req[p].op = "destroy" PROVE info[p] = <<>> /\ req[p].to = <<>>
    BY <1>0, <2>3 DEF Empties
  <2>4. CASE MeetingHit(p)
    <3>1. PICK l : /\ Goto(p, l) /\ l \notin {"idle", "meetFill"}
                   /\ req[p].op = "destroy" => l = IF Len(info[p]) + 1 <= Len(req[p].to) THEN "meet" ELSE "wipe"
      BY <2>4, AfterMeetingGoes DEF MeetingHit
    <3>2. req[p].op = "destroy" => l = "wipe" BY <2>3, <2>4, <3>1 DEF MeetingHit
    <3>3. /\ \A q \in Procs \ {p} : pc'[q] = pc[q] /\ req'[q] = req[q] /\ info'[q] = info[q]
          /\ pc'[p] = l /\ req'[p] = req[p]
      BY <1>0, <2>4, <3>1 DEF MeetingHit, Goto, Shape
    <3> QED BY <1>0, <1>2, <3>1, <3>2, <3>3 DEF Empties
  <2>5. CASE MeetingMiss(p)
    <3>1. /\ \A q \in Procs \ {p} : pc'[q] = pc[q] /\ req'[q] = req[q] /\ info'[q] = info[q]
          /\ pc'[p] = "meetFill" /\ req'[p] = req[p] /\ info'[p] = Append(info[p], Selected(Wanted(p)))
      BY <1>0, <2>5 DEF MeetingMiss, Goto, Shape
    <3>2. req[p].op = "destroy" => Len(info'[p]) = 1
      <4>1. \A r : Append(<<>>, r) = <<r>> OBVIOUS
      <4> QED BY <2>3, <2>5, <3>1, <4>1 DEF MeetingMiss
    <3> QED BY <1>0, <1>2, <3>1, <3>2 DEF Empties
  <2>6. CASE MeetingFill(p)
    <3>1. PICK l : /\ Goto(p, l) /\ l \notin {"idle", "meetFill"}
                   /\ req[p].op = "destroy" => l = IF Len(info[p]) <= Len(req[p].to) THEN "meet" ELSE "wipe"
      BY <2>6, AfterMeetingGoes DEF MeetingFill
    <3>2. req[p].op = "destroy" => l = "wipe" BY <1>0, <2>6, <3>1 DEF MeetingFill, Empties
    <3> QED BY <1>4, <2>6, <3>1, <3>2 DEF MeetingFill
  <2> QED BY <1>7, <2>1, <2>2, <2>4, <2>5, <2>6 DEF GetMeeting
<1>8. ASSUME NEW p \in Procs, AddMeeting(p) PROVE Empties'
  <2>1. CASE AddInsert(p)
    <3>1. PICK m \in Ids \ used : req' = [req EXCEPT ![p].meeting = m] BY <2>1 DEF AddInsert
    <3>2. /\ \A q \in Procs \ {p} : pc'[q] = pc[q] /\ req'[q] = req[q] /\ info'[q] = info[q]
          /\ pc'[p] = "seed" /\ req'[p].op = req[p].op
      BY <1>0, <2>1, <3>1 DEF AddInsert, Goto, Shape, RequestType
    <3> QED BY <1>2, <2>1, <3>2 DEF AddInsert, Adds
  <2>2. CASE AddExhausted(p) BY <1>3, <2>2 DEF AddExhausted
  <2>3. CASE AddSeed(p) BY <1>4, <2>3 DEF AddSeed
  <2>4. CASE AddLink(p) BY <1>4, <2>4 DEF AddLink
  <2>5. CASE AddCommit(p) BY <1>4, <2>5 DEF AddCommit
  <2> QED BY <1>8, <2>1, <2>2, <2>3, <2>4, <2>5 DEF AddMeeting
<1>9. ASSUME NEW p \in Procs, EndMeeting(p) PROVE Empties'
  <2>1. CASE EndClosed(p) BY <1>3, <2>1 DEF EndClosed
  <2>2. CASE EndRow(p) BY <1>4, <2>2 DEF EndRow, At
  <2>3. CASE EndCache(p) BY <1>4, <2>3 DEF EndCache, At
  <2>4. CASE CountRow(p) BY <1>4, <2>4 DEF CountRow, At
  <2>5. CASE CountCache(p) BY <1>4, <2>5 DEF CountCache, At
  <2> QED BY <1>9, <2>1, <2>2, <2>3, <2>4, <2>5 DEF EndMeeting
<1>10. ASSUME NEW p \in Procs, DeleteMeeting(p) \/ DeleteMeetingPermanently(p) PROVE Empties'
  <2>1. CASE TrashRow(p) BY <1>4, <2>1 DEF TrashRow, At
  <2>2. CASE TrashCommit(p) BY <1>4, <2>2 DEF TrashCommit, At
  <2>3. CASE Recache(p) BY <1>4, <2>3 DEF Recache
  <2>4. CASE DestroyRow(p) BY <1>4, <2>4 DEF DestroyRow, At
  <2>5. CASE DestroyCommit(p) BY <1>4, <2>5 DEF DestroyCommit, At
  <2>6. CASE WipeRow(p) BY <1>4, <2>6 DEF WipeRow
  <2>7. CASE WipeCommit(p) BY <1>3, <2>7 DEF WipeCommit
  <2> QED BY <1>10, <2>1, <2>2, <2>3, <2>4, <2>5, <2>6, <2>7 DEF DeleteMeeting, DeleteMeetingPermanently
<1>11. ASSUME NEW p \in Procs,
              \/ UpdateMeetingTime(p) \/ WriteRow(p) \/ PutField(p)
              \/ Rollback(p) \/ Abandon(p) \/ CopyUntimed(p)
       PROVE  Empties'
  <2>1. CASE UpdateMeetingTime(p) \/ CopyUntimed(p) BY <1>3, <1>4, <2>1, TimesGo DEF Timing
  <2>2. CASE WriteRow(p) BY <1>4, <2>2 DEF WriteRow
  <2>3. CASE PutField(p)
    <3>1. CASE UNCHANGED <<pc, req, info>> BY <1>0, <3>1 DEF Empties
    <3> QED BY <1>3, <1>4, <2>3, <3>1 DEF PutField
  <2>4. CASE Rollback(p) \/ Abandon(p) BY <1>3, <2>4 DEF Rollback, Abandon
  <2> QED BY <1>11, <2>1, <2>2, <2>3, <2>4
<1> QED BY <1>1, <1>5, <1>6, <1>7, <1>8, <1>9, <1>10, <1>11 DEF Next

LEMMA ReturnReach ==
  ASSUME ReachInv, NEW p \in Procs, Return(p), UNCHANGED class, orphaned \subseteq orphaned',
         \A m \in Meetings : row[m] = None => row'[m] = None,
         LET m == req[p].meeting IN
         ~Handled(p) \/ row'[m] = None \/ m \in class.listed \union class.trash \union orphaned'
  PROVE  MeetingsAreReachable'
<1>1. \A q \in Procs \ {p} : pc'[q] = pc[q] /\ req'[q] = req[q]
  BY DEF ReachInv, ListInv, Shape, Return, Goto
<1> QED BY <1>1, QuietReach DEF ReachInv

LEMMA GoOnReach ==
  ASSUME ReachInv, NEW p \in Procs, NEW l, Goto(p, l), UNCHANGED req, orphaned \subseteq orphaned',
         class.listed \union class.trash \subseteq class'.listed \union class'.trash,
         \A m \in Meetings : row[m] = None => row'[m] = None,
         \/ ~Handled(p)
         \/ req[p].op \in Adds /\ l \in {"seed", "move", "commit"}
         \/ req[p].op = "destroy" /\ l \in {"recache", "meet", "meetFill", "wipe", "wiped"}
  PROVE  MeetingsAreReachable'
<1>1. (\A q \in Procs \ {p} : pc'[q] = pc[q]) /\ pc'[p] = l
  BY DEF ReachInv, ListInv, Shape, Goto
<1>2. ~Handled(p) \/ Handled(p)' BY <1>1 DEF Handled
<1> QED BY <1>1, <1>2, QuietReach DEF ReachInv

\* A meeting that a handler is adding or deleting is reached through it, and is in
\* a list or has no row when the handler is done, unless that stops midway.
LEMMA ReachStep == ReachInv /\ [Next]_vars => MeetingsAreReachable'
<1> SUFFICES ASSUME ReachInv, [Next]_vars PROVE MeetingsAreReachable' OBVIOUS
<1> USE DEF db, cache, local, history
<1>0. Shape /\ Exact /\ Empties /\ MeetingsAreReachable BY DEF ReachInv, ListInv
<1>1. CASE UNCHANGED vars BY <1>0, <1>1 DEF vars, MeetingsAreReachable, rows
<1>2. ASSUME NEW p \in Procs, Call(p) PROVE MeetingsAreReachable'
  <2>1. \A q \in Procs \ {p} : pc'[q] = pc[q] /\ req'[q] = req[q] BY <1>0, <1>2 DEF Call, Goto, Shape
  <2>2. ~Handled(p) BY <1>2 DEF Call, Handled
  <2> QED BY <1>0, <1>2, <2>1, <2>2, QuietReach DEF Call
<1>3. ASSUME NEW p \in Procs, GetClass(p) PROVE MeetingsAreReachable'
  <2>1. CASE Refuse(p)
    <3>1. ~Handled(p) BY <2>1 DEF Refuse, At, Handled, OfMeetings, Adds
    <3> QED BY <2>1, <3>1, ReturnReach DEF Refuse
  <2>2. CASE GetClassHit(p) BY <2>2, GoOnReach DEF GetClassHit, Handled
  <2>3. CASE GetClassMiss(p) BY <2>3, GoOnReach DEF GetClassMiss, Handled
  <2>4. CASE GetClassFill(p) BY <2>4, GoOnReach DEF GetClassFill, Handled
  <2> QED BY <1>3, <2>1, <2>2, <2>3, <2>4 DEF GetClass
<1>4. ASSUME NEW p \in Procs, GetMeeting(p) PROVE MeetingsAreReachable'
  <2>1. CASE NoMeeting(p)
    <3>1. Handled(p) => /\ pc[p] = "meet" /\ req[p].op = "destroy" /\ Wanted(p) \notin rows
      BY <2>1 DEF NoMeeting, OfClass, Handled, Adds
    <3>2. Handled(p) => Wanted(p) = req[p].meeting
      <4>1. Handled(p) => info[p] = <<>> BY <1>0, <3>1 DEF Empties
      <4> QED BY <4>1 DEF Wanted, Meant
    <3>3. Handled(p) => row[req[p].meeting] = None
      BY <1>0, <3>1, <3>2 DEF rows, Shape, RequestType
    <3> QED BY <2>1, <3>3, ReturnReach DEF NoMeeting
  <2>2. CASE FindMeeting(p) BY <2>2, GoOnReach DEF FindMeeting, OfClass, Handled
  <2>3. ASSUME NEW n, AfterMeeting(p, n), pc[p] \in {"meet", "meetFill"}, UNCHANGED <<req, class, row, orphaned>>
        PROVE  MeetingsAreReachable'
    <3>1. PICK l : Goto(p, l) /\ (req[p].op = "destroy" => l = IF n <= Len(req[p].to) THEN "meet" ELSE "wipe")
      BY <2>3, AfterMeetingGoes
    <3>2. ~Handled(p) \/ req[p].op = "destroy" BY <2>3 DEF Handled
    <3>3. req[p].op = "destroy" => l \in {"meet", "wipe"} BY <3>1
    <3> QED BY <2>3, <3>1, <3>2, <3>3, GoOnReach
  <2>4. CASE MeetingHit(p) BY <2>3, <2>4 DEF MeetingHit
  <2>5. CASE MeetingMiss(p) BY <2>5, GoOnReach DEF MeetingMiss, Handled
  <2>6. CASE MeetingFill(p) BY <2>3, <2>6 DEF MeetingFill
  <2> QED BY <1>4, <2>1, <2>2, <2>4, <2>5, <2>6 DEF GetMeeting
<1>5. ASSUME NEW p \in Procs, AddMeeting(p) PROVE MeetingsAreReachable'
  <2>1. CASE AddInsert(p)
    <3>1. PICK m \in Ids \ used : /\ req' = [req EXCEPT ![p].meeting = m]
                                  /\ row' = [row EXCEPT ![m] = NewMeeting(p)]
      BY <2>1 DEF AddInsert
    <3>2. /\ \A q \in Procs \ {p} : pc'[q] = pc[q] /\ req'[q] = req[q]
          /\ pc'[p] = "seed" /\ req'[p].op = req[p].op /\ req'[p].meeting = m
      BY <1>0, <2>1, <3>1 DEF AddInsert, Goto, Shape, RequestType
    <3>3. m \in Reached' BY <2>1, <3>2 DEF AddInsert, Reached, Handled
    <3>4. \A n \in Meetings : row'[n] # None => row[n] # None \/ n \in Reached'
      BY <1>0, <3>1, <3>3 DEF Shape
    <3>5. ~Handled(p) BY <2>1 DEF AddInsert, Handled
    <3> QED BY <1>0, <2>1, <3>2, <3>4, <3>5, QuietReach DEF AddInsert
  <2>2. CASE AddExhausted(p)
    <3>1. ~Handled(p) BY <2>2 DEF AddExhausted, Handled
    <3> QED BY <2>2, <3>1, ReturnReach DEF AddExhausted
  <2>3. CASE AddSeed(p)
    <3>1. ~Handled(p) \/ req[p].op \in Adds BY <2>3 DEF AddSeed, Handled
    <3> QED BY <2>3, <3>1, GoOnReach DEF AddSeed
  <2>4. CASE AddLink(p) BY <2>4, GoOnReach DEF AddLink
  <2>5. CASE AddCommit(p)
    <3>1. class'.listed = class.listed \union {req[p].meeting} /\ class'.trash = class.trash
      BY <1>0, <2>5 DEF AddCommit, Shape, Class, Exact, Committing, Adds
    <3>2. \A q \in Procs \ {p} : pc'[q] = pc[q] /\ req'[q] = req[q] BY <1>0, <2>5 DEF AddCommit, Goto, Shape
    <3> QED BY <1>0, <2>5, <3>1, <3>2, QuietReach DEF AddCommit
  <2> QED BY <1>5, <2>1, <2>2, <2>3, <2>4, <2>5 DEF AddMeeting
\* An UPDATE makes no row.
<1>6. \A p \in Procs : Written(None, p) = None BY DEF Written
<1>7. ASSUME NEW p \in Procs, EndMeeting(p) PROVE MeetingsAreReachable'
  <2>0. req[p].op = "end" /\ ~Handled(p)
    BY <1>7 DEF EndMeeting, EndClosed, EndRow, EndCache, CountRow, CountCache, At, Handled, Adds
  <2>1. CASE EndClosed(p) BY <2>0, <2>1, ReturnReach DEF EndClosed
  <2>2. CASE EndRow(p)
    <3>1. \A m \in Meetings : row[m] = None => row'[m] = None BY <1>0, <1>6, <2>2 DEF EndRow, Shape
    <3> QED BY <2>0, <2>2, <3>1, GoOnReach DEF EndRow
  <2>3. CASE EndCache(p) BY <2>0, <2>3, GoOnReach DEF EndCache
  <2>4. CASE CountRow(p)
    <3>1. class'.listed = class.listed /\ class'.trash = class.trash BY <1>0, <2>4 DEF CountRow, Shape, Class
    <3> QED BY <2>0, <2>4, <3>1, GoOnReach DEF CountRow
  <2>5. CASE CountCache(p) BY <2>0, <2>5, GoOnReach DEF CountCache
  <2> QED BY <1>7, <2>1, <2>2, <2>3, <2>4, <2>5 DEF EndMeeting
<1>8. ASSUME NEW p \in Procs, DeleteMeeting(p) PROVE MeetingsAreReachable'
  <2>1. CASE TrashRow(p)
    <3>1. ~Handled(p) BY <2>1 DEF TrashRow, At, Handled, Adds
    <3> QED BY <2>1, <3>1, GoOnReach DEF TrashRow
  <2>2. CASE TrashCommit(p)
    <3>1. tx[p].listed = class.listed \ {req[p].meeting} /\ tx[p].trash = class.trash \union {req[p].meeting}
      BY <1>0, <2>2 DEF TrashCommit, At, Exact, Committing, Adds
    <3>2. class'.listed = tx[p].listed /\ class'.trash = tx[p].trash BY <2>2 DEF TrashCommit
    <3>3. ~Handled(p) BY <2>2 DEF TrashCommit, At, Handled, Adds
    <3> QED BY <2>2, <3>1, <3>2, <3>3, GoOnReach DEF TrashCommit
  <2>3. CASE Recache(p)
    <3>1. CASE req[p].op = "trash"
      <4>1. ~Handled(p) BY <3>1 DEF Handled, Adds
      <4> QED BY <2>3, <3>1, <4>1, GoOnReach DEF Recache
    <3>2. CASE req[p].op # "trash"
      <4>1. ~Handled(p) \/ req[p].op = "destroy" BY <2>3 DEF Recache, Handled
      <4> QED BY <2>3, <3>2, <4>1, GoOnReach DEF Recache
    <3> QED BY <3>1, <3>2
  <2> QED BY <1>8, <2>1, <2>2, <2>3 DEF DeleteMeeting
<1>9. ASSUME NEW p \in Procs, DeleteMeetingPermanently(p) PROVE MeetingsAreReachable'
  <2>1. CASE DestroyRow(p)
    <3>1. ~Handled(p) BY <2>1 DEF DestroyRow, At, Handled, Adds
    <3> QED BY <2>1, <3>1, GoOnReach DEF DestroyRow
  <2>2. CASE DestroyCommit(p)
    <3>1. class'.listed = class.listed /\ class'.trash = class.trash \ {req[p].meeting}
      BY <1>0, <2>2 DEF DestroyCommit, At, Shape, Class, Exact, Committing, Adds
    <3>2. /\ \A q \in Procs \ {p} : pc'[q] = pc[q] /\ req'[q] = req[q]
          /\ pc'[p] = "meet" /\ req'[p] = req[p]
      BY <1>0, <2>2 DEF DestroyCommit, Goto, Shape
    <3>3. Handled(p)' BY <2>2, <3>2 DEF DestroyCommit, At, Handled
    <3> QED BY <1>0, <2>2, <3>1, <3>2, <3>3, QuietReach DEF DestroyCommit
  <2>3. CASE WipeRow(p)
    <3>1. ~Handled(p) \/ req[p].op = "destroy" BY <2>3 DEF WipeRow, Handled
    <3> QED BY <2>3, <3>1, GoOnReach DEF WipeRow
  <2>4. CASE WipeCommit(p)
    <3>1. row'[req[p].meeting] = None /\ \A m \in Meetings : row[m] = None => row'[m] = None
      BY <1>0, <2>4 DEF WipeCommit, Shape, RequestType
    <3> QED BY <2>4, <3>1, ReturnReach DEF WipeCommit
  <2> QED BY <1>9, <2>1, <2>2, <2>3, <2>4 DEF DeleteMeetingPermanently
<1>10. ASSUME NEW p \in Procs, UpdateMeetingTime(p) \/ WriteRow(p) \/ PutField(p) \/ CopyUntimed(p)
       PROVE  MeetingsAreReachable'
  <2>0. ~Handled(p) BY <1>10, TimesGo DEF WriteRow, PutField, Timing, Handled
  <2>1. CASE UpdateMeetingTime(p) \/ CopyUntimed(p)
    <3>1. UNCHANGED <<class, row, orphaned>> BY <2>1, TimesGo
    <3>2. CASE Return(p) BY <2>0, <3>1, <3>2, ReturnReach
    <3>3. ASSUME NEW l \in {"write", "times", "timesFill"}, Goto(p, l), UNCHANGED req
          PROVE  MeetingsAreReachable'
      BY <2>0, <3>1, <3>3, GoOnReach
    <3> QED BY <2>1, <3>2, <3>3, TimesGo
  <2>2. CASE WriteRow(p)
    <3>1. \A m \in Meetings : row[m] = None => row'[m] = None BY <1>6, <2>2 DEF WriteRow
    <3> QED BY <2>0, <2>2, <3>1, GoOnReach DEF WriteRow
  <2>3. CASE PutField(p)
    <3>1. CASE UNCHANGED <<pc, req>> BY <1>0, <2>3, <3>1 DEF PutField, MeetingsAreReachable, rows
    <3>2. CASE Return(p) BY <2>0, <2>3, <3>2, ReturnReach DEF PutField
    <3>3. CASE Goto(p, "time") /\ UNCHANGED req BY <2>0, <2>3, <3>3, GoOnReach DEF PutField
    <3> QED BY <2>3, <3>1, <3>2, <3>3 DEF PutField
  <2> QED BY <1>10, <2>1, <2>2, <2>3
<1>11. ASSUME NEW p \in Procs, Rollback(p) PROVE MeetingsAreReachable'
  <2>1. Handled(p) => req[p].op \in Adds BY <1>11 DEF Rollback, Handled
  <2>2. orphaned' = IF req[p].op \in Adds THEN orphaned \union {req[p].meeting} ELSE orphaned
    BY <1>11 DEF Rollback
  <2> QED BY <1>11, <2>1, <2>2, ReturnReach DEF Rollback
<1>12. ASSUME NEW p \in Procs, Abandon(p) PROVE MeetingsAreReachable'
  <2>1. Handled(p) => \/ req[p].op \in Adds /\ pc[p] \in {"seed", "move"}
                     \/ req[p].op = "destroy"
    BY <1>12 DEF Abandon, Handled
  <2>2. orphaned' = IF \/ req[p].op \in Adds /\ pc[p] \in {"seed", "move"}
                       \/ req[p].op = "destroy" /\ req[p].meeting \notin class.listed \union class.trash
                    THEN orphaned \union {req[p].meeting} ELSE orphaned
    BY <1>12 DEF Abandon
  <2> QED BY <1>12, <2>1, <2>2, ReturnReach DEF Abandon
<1> QED BY <1>1, <1>2, <1>3, <1>4, <1>5, <1>7, <1>8, <1>9, <1>10, <1>11, <1>12 DEF Next

\* A meeting with a row is in a list of its class, in the hands of a handler, or
\* recorded: a handler lists its meeting, deletes its row, or stops midway.
THEOREM MeetingsAreFound == Spec => []MeetingsAreReachable
<1>1. ReachInv /\ [Next]_vars => ReachInv' BY ListStep, EmptiesStep, ReachStep DEF ReachInv
<1>2. ReachInv => MeetingsAreReachable BY DEF ReachInv
<1> QED BY ReachInit, <1>1, <1>2, PTL DEF Spec

-----------------------------------------------------------------------------
(***************************************************************************)
(* Why the cache follows the database: a transaction writes to the hash    *)
(* what it will commit, and whoever is about to write a field of a hash    *)
(* writes what the row has by then, or the field has been recorded.        *)
(***************************************************************************)

\* The lists that p's transaction will leave.
NextListed(p) == IF req[p].op = "destroy" THEN class.listed ELSE tx[p].listed
NextTrash(p)  == IF req[p].op \in Adds THEN class.trash ELSE tx[p].trash

\* The hash has the lists of the row, and those of the transaction that is open.
ListsFollow ==
  cClass # None /\ ~taint =>
    /\ ClassFree => cClass.listed = class.listed /\ cClass.trash = class.trash
    /\ \A p \in Procs : Committing(p) => cClass.listed = NextListed(p) /\ cClass.trash = NextTrash(p)

LEMMA ListsFollowInit == Init => ListsFollow
  BY DEF Init, ListsFollow, Committing

\* Steps that open and end no transaction and keep the lists in row and hash.
LEMMA QuietFollow ==
  ASSUME ListInv, ListsFollow, NEW p \in Procs, pc[p] # "commit", pc'[p] # "commit",
         \A q \in Procs \ {p} : pc'[q] = pc[q] /\ req'[q] = req[q] /\ tx'[q] = tx[q],
         class'.listed = class.listed, class'.trash = class.trash, taint' = taint,
         cClass' # None => cClass # None /\ cClass'.listed = cClass.listed /\ cClass'.trash = cClass.trash
  PROVE  ListsFollow'
<1>1. ClassFree' <=> ClassFree BY DEF ClassFree
<1>2. \A q \in Procs : Committing(q)' => Committing(q) /\ q # p BY DEF Committing
<1>3. \A q \in Procs \ {p} : NextListed(q)' = NextListed(q) /\ NextTrash(q)' = NextTrash(q)
  BY DEF NextListed, NextTrash
<1> QED BY <1>1, <1>2, <1>3 DEF ListsFollow

LEMMA ListsFollowStep == ListInv /\ ListsFollow /\ [Next]_vars => ListsFollow'
<1> SUFFICES ASSUME ListInv, ListsFollow, [Next]_vars PROVE ListsFollow' OBVIOUS
<1> USE DEF db, cache, local, history
<1>0. Shape /\ Exact BY DEF ListInv
<1>1. CASE UNCHANGED vars
  BY <1>1 DEF vars, ListsFollow, ClassFree, Committing, NextListed, NextTrash
\* p returns or goes on, and the class is as it was.
<1>2. ASSUME NEW p \in Procs, NEW l, Return(p) \/ (Goto(p, l) /\ UNCHANGED tx), l # "commit", pc[p] # "commit",
             \A q \in Procs \ {p} : req'[q] = req[q],
             UNCHANGED <<class, cClass, taint>>
      PROVE  ListsFollow'
  <2>1. /\ \A q \in Procs \ {p} : pc'[q] = pc[q] /\ tx'[q] = tx[q]
        /\ pc'[p] # "commit"
    BY <1>0, <1>2 DEF Return, Goto, Shape
  <2> QED BY <1>2, <2>1, QuietFollow
<1>3. ASSUME NEW p \in Procs, Return(p), pc[p] # "commit", UNCHANGED <<class, cClass, taint>>
      PROVE  ListsFollow'
  <2>1. \A q \in Procs \ {p} : req'[q] = req[q] BY <1>0, <1>3 DEF Return, Shape
  <2> QED BY <1>2, <1>3, <2>1
<1>4. ASSUME NEW p \in Procs, Call(p) PROVE ListsFollow'
  <2>1. \A q \in Procs \ {p} : req'[q] = req[q] BY <1>0, <1>4 DEF Call, Shape
  <2>2. PICK op \in Scenes[scene].ops : Goto(p, IF op \in OfMeetings THEN "meet" ELSE "get") BY <1>4 DEF Call
  <2> QED BY <1>2, <1>4, <2>1, <2>2 DEF Call
<1>5. ASSUME NEW p \in Procs, GetClass(p) PROVE ListsFollow'
  <2>1. CASE GetClassHit(p) BY <1>2, <2>1 DEF GetClassHit
  <2>2. CASE GetClassMiss(p) BY <1>2, <2>2 DEF GetClassMiss
  <2>3. CASE GetClassFill(p)
    <3> SUFFICES ASSUME cClass' # None, ~taint' PROVE ListsFollow' BY DEF ListsFollow
    <3>1. cClass' = class /\ ClassFree /\ UNCHANGED class BY <2>3 DEF GetClassFill
    <3>2. \A q \in Procs : ~Committing(q)' BY <1>0, <2>3, <3>1 DEF GetClassFill, ClassFree, Goto, Shape, Committing
    <3> QED BY <3>1, <3>2 DEF ListsFollow
  <2>4. CASE Refuse(p)
    <3>1. pc[p] # "commit" BY <2>4 DEF Refuse, At
    <3> QED BY <1>3, <2>4, <3>1 DEF Refuse
  <2> QED BY <1>5, <2>1, <2>2, <2>3, <2>4 DEF GetClass
<1>6. ASSUME NEW p \in Procs, GetMeeting(p) PROVE ListsFollow'
  <2>1. CASE NoMeeting(p) BY <1>3, <2>1 DEF NoMeeting, OfClass
  <2>2. CASE FindMeeting(p) BY <1>2, <2>2 DEF FindMeeting, OfClass
  <2>3. ASSUME NEW n, AfterMeeting(p, n), pc[p] # "commit", UNCHANGED <<class, cClass, taint, req, tx>>
        PROVE  ListsFollow'
    <3>1. PICK l : Goto(p, l) /\ l \notin {"idle", "seed", "commit", "meetFill"} BY <2>3, AfterMeetingGoes
    <3> QED BY <1>2, <2>3, <3>1
  <2>4. CASE MeetingHit(p) BY <2>3, <2>4 DEF MeetingHit
  <2>5. CASE MeetingMiss(p) BY <1>2, <2>5 DEF MeetingMiss
  <2>6. CASE MeetingFill(p) BY <2>3, <2>6 DEF MeetingFill
  <2> QED BY <1>6, <2>1, <2>2, <2>4, <2>5, <2>6 DEF GetMeeting
<1>7. ASSUME NEW p \in Procs, AddMeeting(p) PROVE ListsFollow'
  <2>1. CASE AddInsert(p)
    <3>1. \A q \in Procs \ {p} : req'[q] = req[q] BY <1>0, <2>1 DEF AddInsert, Shape
    <3> QED BY <1>2, <2>1, <3>1 DEF AddInsert
  <2>2. CASE AddExhausted(p) BY <1>3, <2>2 DEF AddExhausted
  <2>3. CASE AddSeed(p) BY <1>2, <2>3 DEF AddSeed
  <2>4. CASE AddLink(p)
    <3> SUFFICES ASSUME cClass' # None, ~taint' PROVE ListsFollow' BY DEF ListsFollow
    <3>1. tx'[p].listed = class.listed \union {req[p].meeting} BY <1>0, <2>4 DEF AddLink, Shape, Class
    <3>2. cClass # None /\ cClass' = [cClass EXCEPT !.listed = tx'[p].listed] BY <2>4, <3>1 DEF AddLink
    <3>3. ClassFree /\ cClass.trash = class.trash BY <2>4, <3>2 DEF AddLink, ListsFollow
    <3>4. cClass'.listed = tx'[p].listed /\ cClass'.trash = class.trash
      BY <1>0, <3>2, <3>3, NoneIsNoHash DEF Shape, Class
    <3>5. \A q \in Procs : Committing(q)' <=> q = p
      BY <1>0, <2>4, <3>3 DEF AddLink, ClassFree, Committing, Goto, Shape
    <3>6. req[p].op \in Adds /\ UNCHANGED <<class, req>> BY <2>4 DEF AddLink
    <3> QED BY <3>4, <3>5, <3>6 DEF ListsFollow, NextListed, NextTrash, ClassFree, Committing, Adds
  <2>5. CASE AddCommit(p)
    <3> SUFFICES ASSUME cClass' # None, ~taint' PROVE ListsFollow' BY DEF ListsFollow
    <3>1. cClass.listed = tx[p].listed /\ cClass.trash = class.trash /\ cClass' = cClass
      BY <2>5 DEF AddCommit, ListsFollow, Committing, NextListed, NextTrash, Adds
    <3>2. class'.listed = tx[p].listed /\ class'.trash = class.trash BY <1>0, <2>5 DEF AddCommit, Shape, Class
    <3>3. \A q \in Procs : ~Committing(q)' BY <1>0, <2>5 DEF AddCommit, Exact, Committing, Goto, Shape
    <3> QED BY <3>1, <3>2, <3>3 DEF ListsFollow
  <2> QED BY <1>7, <2>1, <2>2, <2>3, <2>4, <2>5 DEF AddMeeting
<1>8. ASSUME NEW p \in Procs, EndMeeting(p) PROVE ListsFollow'
  <2>1. CASE EndClosed(p) BY <1>3, <2>1 DEF EndClosed, At
  <2>2. CASE EndRow(p) BY <1>2, <2>2 DEF EndRow, At
  <2>3. CASE EndCache(p) BY <1>2, <2>3 DEF EndCache, At
  <2>4. ASSUME CountRow(p) \/ CountCache(p) PROVE ListsFollow'
    <3>1. /\ class'.listed = class.listed /\ class'.trash = class.trash
          /\ cClass' # None => /\ cClass # None
                               /\ cClass'.listed = cClass.listed /\ cClass'.trash = cClass.trash
      BY <1>0, <2>4 DEF CountRow, CountCache, Shape, Class
    <3>2. /\ pc[p] # "commit" /\ pc'[p] # "commit" /\ UNCHANGED <<req, tx, taint>>
          /\ \A q \in Procs \ {p} : pc'[q] = pc[q]
      BY <1>0, <2>4 DEF CountRow, CountCache, At, Goto, Shape
    <3> QED BY <3>1, <3>2, QuietFollow
  <2> QED BY <1>8, <2>1, <2>2, <2>3, <2>4 DEF EndMeeting
<1>9. ASSUME NEW p \in Procs, TrashRow(p) \/ DestroyRow(p) PROVE ListsFollow'
  <2>0. /\ UNCHANGED <<class, req, taint>> /\ ClassFree /\ pc[p] # "commit"
        /\ \A q \in Procs \ {p} : pc'[q] = pc[q] /\ tx'[q] = tx[q]
    BY <1>0, <1>9 DEF TrashRow, DestroyRow, At, Goto, Shape
  <2>1. CASE pc'[p] # "commit"
    <3>1. cClass' = cClass BY <1>0, <1>9, <2>1 DEF TrashRow, DestroyRow, Goto, Shape
    <3> QED BY <2>0, <2>1, <3>1, QuietFollow
  <2>2. CASE pc'[p] = "commit"
    <3> SUFFICES ASSUME cClass' # None, ~taint' PROVE ListsFollow' BY DEF ListsFollow
    <3>1. \A q \in Procs : Committing(q)' <=> q = p BY <2>0, <2>2 DEF ClassFree, Committing
    <3>2. cClass'.listed = NextListed(p)' /\ cClass'.trash = NextTrash(p)'
      <4>1. CASE TrashRow(p)
        <5>1. tx'[p].listed = class.listed \ {req[p].meeting} /\ tx'[p].trash = class.trash \union {req[p].meeting}
          BY <1>0, <4>1 DEF TrashRow, Shape, Class
        <5>2. cClass'.listed = tx'[p].listed /\ cClass'.trash = tx'[p].trash
          BY <1>0, <2>2, <4>1, <5>1 DEF TrashRow, Goto, Shape
        <5> QED BY <2>0, <4>1, <5>2 DEF TrashRow, At, NextListed, NextTrash, Adds
      <4>2. CASE DestroyRow(p)
        <5>1. tx'[p].trash = class.trash \ {req[p].meeting} BY <1>0, <4>2 DEF DestroyRow, Shape, Class
        <5>2. cClass # None /\ cClass' = [cClass EXCEPT !.trash = tx'[p].trash]
          BY <1>0, <2>2, <4>2, <5>1 DEF DestroyRow, Goto, Shape
        <5>3. cClass.listed = class.listed BY <2>0, <5>2 DEF ListsFollow
        <5>4. cClass'.listed = class.listed /\ cClass'.trash = tx'[p].trash BY <1>0, <5>2, <5>3 DEF Shape, Class
        <5> QED BY <2>0, <4>2, <5>4 DEF DestroyRow, At, NextListed, NextTrash, Adds
      <4> QED BY <1>9, <4>1, <4>2
    <3> QED BY <3>1, <3>2 DEF ListsFollow, ClassFree, Committing
  <2> QED BY <2>1, <2>2
<1>10. ASSUME NEW p \in Procs, TrashCommit(p) \/ DestroyCommit(p) PROVE ListsFollow'
  <2> SUFFICES ASSUME cClass' # None, ~taint' PROVE ListsFollow' BY DEF ListsFollow
  <2>1. /\ cClass' = cClass /\ taint' = taint /\ Committing(p) /\ req[p].op \in {"trash", "destroy"}
        /\ \A q \in Procs : ~Committing(q)'
    BY <1>0, <1>10 DEF TrashCommit, DestroyCommit, At, Exact, Committing, Goto, Shape
  <2>2. cClass.listed = NextListed(p) /\ cClass.trash = NextTrash(p) BY <2>1 DEF ListsFollow
  <2>3. class'.listed = NextListed(p) /\ class'.trash = NextTrash(p)
    BY <1>0, <1>10 DEF TrashCommit, DestroyCommit, At, NextListed, NextTrash, Adds, Shape, Class
  <2> QED BY <2>1, <2>2, <2>3 DEF ListsFollow
<1>11. ASSUME NEW p \in Procs, Recache(p) PROVE ListsFollow'
  <2> SUFFICES ASSUME cClass' # None, ~taint' PROVE ListsFollow' BY DEF ListsFollow
  <2>1. /\ UNCHANGED class /\ ClassFree /\ ~taint /\ tx[p].trash = class.trash
        /\ req[p].op = "trash" => tx[p].listed = class.listed
    BY <1>11 DEF Recache
  <2>2. cClass # None BY <1>11 DEF Recache, SetLists
  <2>3. cClass.listed = class.listed BY <2>1, <2>2 DEF ListsFollow
  <2>4. cClass'.listed = class.listed /\ cClass'.trash = class.trash
    BY <1>0, <1>11, <2>1, <2>2, <2>3 DEF Recache, SetLists, Shape, Class
  <2>5. \A q \in Procs : ~Committing(q)' BY <1>0, <1>11, <2>1 DEF Recache, ClassFree, Committing, Goto, Shape
  <2> QED BY <2>1, <2>4, <2>5 DEF ListsFollow
<1>12. ASSUME NEW p \in Procs,
              \/ WipeRow(p) \/ WipeCommit(p) \/ UpdateMeetingTime(p) \/ WriteRow(p) \/ PutField(p)
              \/ Rollback(p) \/ Abandon(p) \/ CopyUntimed(p)
       PROVE  ListsFollow'
  <2>1. CASE WipeRow(p) BY <1>2, <2>1 DEF WipeRow
  <2>2. CASE WipeCommit(p) BY <1>3, <2>2 DEF WipeCommit
  <2>3. CASE UpdateMeetingTime(p) \/ CopyUntimed(p) BY <1>2, <1>3, <2>3, TimesGo DEF Timing
  <2>4. CASE WriteRow(p) BY <1>2, <2>4 DEF WriteRow
  <2>5. CASE PutField(p)
    <3>1. UNCHANGED <<class, cClass, taint>> /\ pc[p] # "commit" BY <2>5 DEF PutField
    <3>2. CASE UNCHANGED <<pc, req, tx>> BY <3>1, <3>2, QuietFollow
    <3> QED BY <1>2, <1>3, <2>5, <3>1, <3>2 DEF PutField
  <2>6. CASE Rollback(p) BY <2>6 DEF Rollback, ListsFollow
  <2>7. CASE Abandon(p) BY <1>3, <2>7 DEF Abandon
  <2> QED BY <1>12, <2>1, <2>2, <2>3, <2>4, <2>5, <2>6, <2>7
<1> QED BY <1>1, <1>4, <1>5, <1>6, <1>7, <1>8, <1>9, <1>10, <1>11, <1>12
        DEF Next, DeleteMeeting, DeleteMeetingPermanently

-----------------------------------------------------------------------------

\* What a handler that stands at l has asked for and got: the meetings that its
\* request names, one after the other, and all of them when it writes.
LooksAt(p, l) ==
  LET r == req[p]
      n == Len(info[p])
  IN
  /\ r.op \notin {"ally", "sync"} => r.to = <<>>
  /\ r.op = "ally" => Len(r.to) = 1
  /\ r.op = "sync" => r.to # <<>>
  /\ \A i \in 1..n : i <= Len(r.to) + 1 => Meant(p, i) \in used
  /\ r.op # "copy" /\ l \in {"get", "fill", "do"} => n = 0
  /\ l = "recache" => r.op \in {"trash", "destroy"}
  /\ l = "seed" => r.op \in Adds
  /\ l = "meet" => n <= Len(r.to) /\ r.op # "add"
  /\ l = "meetFill" => n \in 1..(Len(r.to) + 1) /\ r.op # "add"
  /\ r.op \in {"change", "ally", "sync", "end"} /\ l \in {"end", "endCache", "write", "put"} =>
       n = Len(r.to) + 1
  /\ r.op = "copy" /\ l \notin {"idle", "meet", "meetFill"} => n = 1
  /\ l \in {"end", "endCache"} => r.op = "end"
  /\ l \in {"write", "put"} => r.op \in {"change", "ally", "sync", "copy"}
  /\ l \in {"write", "put"} /\ r.op = "copy" => r.meeting \in used
  /\ l = "put" => step[p] \in 1..Len(Targets(p))
  /\ l # "put" => step[p] = 1

\* Rows and hashes are of meetings that were made.
Stored ==
  /\ row      \in [Meetings -> MeetingInfo \union {None}]
  /\ cMeeting \in [Meetings -> MeetingInfo \union {None}]
  /\ \A m \in Meetings : row[m] # None \/ cMeeting[m] # None => m \in used

Lookups ==
  /\ Stored /\ info \in [Procs -> Seq(MeetingInfo)] /\ DOMAIN step = Procs
  /\ \A p \in Procs : LooksAt(p, pc[p])

\* UpdateMeetingTime reads the starts of meetings of the list it has got, and what it
\* has read is what the rows have unless it is recorded as overtaken.
ReadsAt(p) ==
  /\ read[p] \in [DOMAIN read[p] -> Times] /\ DOMAIN read[p] \subseteq seen[p].listed
  /\ pc[p] \notin {"times", "timesFill"} => DOMAIN read[p] = {}
  /\ pc[p] = "timesFill" => missed[p][1] \in used /\ missed[p][2] \in MeetingInfo

Readings ==
  /\ DOMAIN read = Procs /\ DOMAIN missed = Procs
  /\ \A p \in Procs : ReadsAt(p)
  /\ \A p \in Procs \ overtaken : \A m \in DOMAIN read[p] : row[m] # None => read[p][m] = row[m]["start"]

LEMMA InfoFields ==
  ASSUME NEW r
  PROVE  r \in MeetingInfo <=> /\ r = [f \in Fields |-> r[f]]
                               /\ r["ended"] \in BOOLEAN /\ r["start"] \in Times
                               /\ r["items"] \in BOOLEAN /\ r["ally"] \in Meetings \union {None}
<1>1. \A e, t, i, a : /\ Meeting(e, t, i, a) = [f \in Fields |-> Meeting(e, t, i, a)[f]]
                      /\ Meeting(e, t, i, a)["ended"] = e /\ Meeting(e, t, i, a)["start"] = t
                      /\ Meeting(e, t, i, a)["items"] = i /\ Meeting(e, t, i, a)["ally"] = a
  BY DEF Meeting, Fields
<1>2. ASSUME r = [f \in Fields |-> r[f]]
      PROVE  r = Meeting(r["ended"], r["start"], r["items"], r["ally"])
  BY <1>2 DEF Meeting, Fields
<1> QED BY <1>1, <1>2 DEF MeetingInfo

\* What is written is of a meeting.
LEMMA NewIsInfo ==
  ASSUME ListInv, Lookups, NEW p \in Procs, NEW l \in {"end", "endCache", "write", "put"}, LooksAt(p, l)
  PROVE  New(p) \in MeetingInfo /\ (req[p].op = "end" => New(p)["ended"])
<1>1. Len(info[p]) \in Nat /\ Len(info[p]) >= 1
  <2>1. req[p].to \in Seq(Meetings) /\ info[p] \in Seq(MeetingInfo) BY DEF Lookups, ListInv, Shape, RequestType
  <2>2. Len(req[p].to) \in Nat /\ Len(info[p]) \in Nat BY <2>1
  <2>3. Len(info[p]) = Len(req[p].to) + 1 \/ Len(info[p]) = 1 BY DEF LooksAt
  <2> QED BY <2>2, <2>3
<1>2. info[p][1] \in MeetingInfo BY <1>1 DEF Lookups
<1>3. req[p].start \in Times BY DEF ListInv, Shape, RequestType
<1>4. req[p].op = "ally" => req[p].to[1] \in Meetings
  <2>1. req[p].to \in Seq(Meetings) BY DEF ListInv, Shape, RequestType
  <2> QED BY <2>1 DEF LooksAt
<1> DEFINE r == info[p][1]
<1>5. /\ r = [f \in Fields |-> r[f]] /\ r["ended"] \in BOOLEAN /\ r["start"] \in Times
      /\ r["items"] \in BOOLEAN /\ r["ally"] \in Meetings \union {None}
  BY <1>2, InfoFields
<1> HIDE DEF r
<1>6. [r EXCEPT !["ended"] = TRUE] \in MeetingInfo /\ [r EXCEPT !["ended"] = TRUE]["ended"]
  <2> DEFINE e == [r EXCEPT !["ended"] = TRUE]
  <2>1. e = [f \in Fields |-> e[f]] /\ e["ended"] = TRUE BY <1>5 DEF Fields
  <2>2. e["start"] = r["start"] /\ e["items"] = r["items"] /\ e["ally"] = r["ally"] BY <1>5 DEF Fields
  <2> HIDE DEF e
  <2>3. e \in MeetingInfo BY <1>5, <2>1, <2>2, InfoFields
  <2> QED BY <2>1, <2>3 DEF e
<1>7. [r EXCEPT !["start"] = req[p].start] \in MeetingInfo BY <1>3, <1>5, InfoFields DEF Fields
<1>8. req[p].op = "ally" => [r EXCEPT !["ally"] = req[p].to[1]] \in MeetingInfo
  BY <1>4, <1>5, InfoFields DEF Fields
<1>9. New(p) = CASE req[p].op = "end"    -> [r EXCEPT !["ended"] = TRUE]
                 [] req[p].op = "change" -> [r EXCEPT !["start"] = req[p].start]
                 [] req[p].op = "ally"   -> [r EXCEPT !["ally"] = req[p].to[1]]
                 [] OTHER                -> r
  BY DEF New, r
<1> QED BY <1>2, <1>6, <1>7, <1>8, <1>9 DEF r

LEMMA SetsFields == ASSUME ListInv, NEW p \in Procs PROVE Sets(p) \subseteq Fields
  BY DEF Sets, Fields, ListInv, Shape, RequestType

LEMMA WrittenIsInfo ==
  ASSUME NEW p \in Procs, New(p) \in MeetingInfo, NEW r \in MeetingInfo \union {None}
  PROVE  /\ Written(r, p) \in MeetingInfo \union {None}
         /\ Written(r, p) = None <=> r = None
         /\ r # None => \A f \in Fields : Written(r, p)[f] = IF f \in Sets(p) THEN New(p)[f] ELSE r[f]
<1>1. CASE r = None BY <1>1 DEF Written
<1>2. CASE r # None
  <2>1. r \in MeetingInfo BY <1>2
  <2>2. Written(r, p) = [f \in Fields |-> IF f \in Sets(p) THEN New(p)[f] ELSE r[f]] BY <1>2 DEF Written
  <2>3. Written(r, p) \in MeetingInfo BY <2>1, <2>2, InfoFields DEF Fields
  <2> QED BY <1>2, <2>2, <2>3, NoneIsNoHash
<1> QED BY <1>1, <1>2

LEMMA StayLooked ==
  ASSUME Lookups, NEW p \in Procs,
         \A q \in Procs \ {p} : pc'[q] = pc[q] /\ req'[q] = req[q] /\ info'[q] = info[q] /\ step'[q] = step[q],
         used \subseteq used', Stored', info' \in [Procs -> Seq(MeetingInfo)], DOMAIN step' = Procs,
         LooksAt(p, pc[p])'
  PROVE  Lookups'
<1>1. ASSUME NEW q \in Procs \ {p} PROVE LooksAt(q, pc[q])'
  <2>1. LooksAt(q, pc[q]) BY DEF Lookups
  <2>2. \A i : Meant(q, i)' = Meant(q, i) BY DEF Meant
  <2>3. Targets(q)' = Targets(q) BY DEF Targets
  <2> QED BY <2>1, <2>2, <2>3, SMTT(30) DEF LooksAt
<1> QED BY <1>1 DEF Lookups

LEMMA ReturnLooks ==
  ASSUME ListInv, Lookups, NEW p \in Procs, Return(p), used \subseteq used', Stored'
  PROVE  Lookups'
<1>1. /\ \A q \in Procs \ {p} : pc'[q] = pc[q] /\ req'[q] = req[q] /\ info'[q] = info[q] /\ step'[q] = step[q]
      /\ pc'[p] = "idle" /\ req'[p] = AnyOp /\ info'[p] = <<>> /\ step'[p] = 1
      /\ info' \in [Procs -> Seq(MeetingInfo)] /\ DOMAIN step' = Procs
  BY DEF Return, Goto, ListInv, Shape, Lookups
<1>2. LooksAt(p, pc[p])' BY <1>1, AnyOpIsRequest DEF LooksAt
<1> QED BY <1>1, <1>2, StayLooked

LEMMA GoOnLooks ==
  ASSUME ListInv, Lookups, NEW p \in Procs, NEW l, Goto(p, l), UNCHANGED <<req, info, step>>,
         used \subseteq used', Stored', LooksAt(p, l)
  PROVE  Lookups'
<1>1. /\ \A q \in Procs \ {p} : pc'[q] = pc[q]
      /\ pc'[p] = l
  BY DEF Goto, ListInv, Shape
<1>2. LooksAt(p, pc[p])' BY <1>1 DEF LooksAt, Meant, Targets
<1> QED BY <1>1, <1>2, StayLooked DEF Lookups

LEMMA LookupsInit == Init => Lookups
<1> SUFFICES ASSUME Init PROVE Lookups OBVIOUS
<1>1. \A s \in DOMAIN Scenes : Scenes[s].times \subseteq Times /\ Scenes[s].times # {} BY ScenesAreScenes
<1>2. Start \in Times BY <1>1 DEF Init, Start, Starts
<1>3. PICK ally \in Allied :
        row = [m \in Meetings |-> IF m \in used THEN Meeting(FALSE, Start, TRUE, ally) ELSE None]
  BY DEF Init
<1>4. Stored
  <2> DEFINE r == Meeting(FALSE, Start, TRUE, ally)
  <2>1. /\ r = [f \in Fields |-> r[f]] /\ r["ended"] = FALSE /\ r["start"] = Start
        /\ r["items"] = TRUE /\ r["ally"] = ally
    BY DEF Meeting, Fields
  <2>2. ally \in Meetings \union {None} BY ScenesAreScenes DEF Init, Allied, Ids
  <2> HIDE DEF r
  <2>3. r \in MeetingInfo BY <1>2, <2>1, <2>2, InfoFields
  <2> QED BY <1>3, <2>3 DEF Init, Stored, r
<1>5. \A p \in Procs : LooksAt(p, pc[p]) BY AnyOpIsRequest DEF Init, LooksAt
<1> QED BY <1>4, <1>5 DEF Lookups, Init

\* Whoever goes on to where nothing is asked of what it looked up.
LEMMA GoFreeLooks ==
  ASSUME ListInv, Lookups, NEW p \in Procs, NEW l, Goto(p, l), UNCHANGED <<req, info, step>>,
         used \subseteq used', Stored',
         l \notin {"get", "fill", "do", "seed", "meet", "meetFill", "end", "endCache", "write", "put"},
         l = "recache" => req[p].op \in {"trash", "destroy"},
         pc[p] # "put", req[p].op = "copy" => pc[p] \notin {"idle", "meet", "meetFill"}
  PROVE  Lookups'
<1>1. LooksAt(p, pc[p]) BY DEF Lookups
<1>2. LooksAt(p, l) BY <1>1 DEF LooksAt
<1> QED BY <1>2, GoOnLooks

\* A step that stores what a meeting has, at one that was made.
LEMMA StoreOne ==
  ASSUME Stored, NEW m \in Meetings, NEW r \in MeetingInfo \union {None}, used \subseteq used',
         r # None => m \in used',
         \/ row' = [row EXCEPT ![m] = r] /\ UNCHANGED cMeeting
         \/ cMeeting' = [cMeeting EXCEPT ![m] = r] /\ UNCHANGED row
  PROVE  Stored'
  BY DEF Stored

LEMMA StoreNone ==
  ASSUME Stored, used \subseteq used', UNCHANGED <<row, cMeeting>>
  PROVE  Stored'
  BY DEF Stored

\* The meeting that a new one is like, and what it is made of.
LEMMA NewMeetingIsInfo ==
  ASSUME ListInv, Lookups, NEW p \in Procs, pc[p] \in {"do", "seed"}
  PROVE  NewMeeting(p) \in MeetingInfo
<1>1. req[p].op = "copy" => info[p][1]["start"] \in Times
  <2>1. req[p].op = "copy" => Len(info[p]) = 1 BY DEF Lookups, LooksAt
  <2>2. info[p] \in Seq(MeetingInfo) BY DEF Lookups
  <2>3. req[p].op = "copy" => info[p][1] \in MeetingInfo BY <2>1, <2>2
  <2> QED BY <2>3, InfoFields
<1>2. req[p].start \in Times BY DEF ListInv, Shape, RequestType
<1> DEFINE t == IF req[p].op = "copy" THEN info[p][1]["start"] ELSE req[p].start
<1>3. t \in Times BY <1>1, <1>2
<1> HIDE DEF t
<1>4. Meeting(FALSE, t, FALSE, None) \in MeetingInfo
  <2> DEFINE r == Meeting(FALSE, t, FALSE, None)
  <2>1. /\ r = [f \in Fields |-> r[f]] /\ r["ended"] = FALSE /\ r["start"] = t
        /\ r["items"] = FALSE /\ r["ally"] = None
    BY DEF Meeting, Fields
  <2> HIDE DEF r
  <2>2. r \in MeetingInfo BY <1>3, <2>1, InfoFields
  <2> QED BY <2>2 DEF r
<1> QED BY <1>4 DEF NewMeeting, t

\* What GetMeeting reads of a row, and what it then does to the hash: each field
\* stays as it was, or is that of the row, or is recorded.
LEMMA SelectedIsInfo ==
  ASSUME NEW m, row[m] \in MeetingInfo
  PROVE  Selected(m) \in MeetingInfo /\ Selected(m)["start"] = row[m]["start"]
  BY InfoFields DEF Selected, Fields

Refilled(m) ==
  /\ row'[m] = row[m] /\ cMeeting'[m] # None
  /\ \A f \in Fields : \/ <<m, f>> \in stale'
                       \/ cMeeting[m] # None /\ cMeeting'[m][f] = cMeeting[m][f]
                       \/ row[m] # None /\ cMeeting'[m][f] = row[m][f]

LEMMA HashIsFilled ==
  ASSUME Stored, NEW m \in Meetings, NEW r \in MeetingInfo, FillHash(m, r), UNCHANGED row
  PROVE  /\ \E new \in MeetingInfo : cMeeting' = [cMeeting EXCEPT ![m] = new]
         /\ stale \subseteq stale' /\ Refilled(m)
<1> DEFINE a   == IF cMeeting[m] = None THEN None ELSE cMeeting[m]["ally"]
           new == [r EXCEPT !["ally"] = a]
           off == {f \in Fields : (cMeeting[m] = None \/ cMeeting[m][f] # new[f])
                                  /\ (m \notin rows \/ row[m][f] # new[f])}
<1>1. cMeeting' = [cMeeting EXCEPT ![m] = new] /\ stale' = stale \union ({m} \X off) BY DEF FillHash
<1>2. new \in MeetingInfo
  <2>1. a \in Meetings \union {None} BY InfoFields DEF Stored
  <2> HIDE DEF a
  <2>2. /\ new = [f \in Fields |-> new[f]] /\ new["ally"] = a
        /\ new["ended"] = r["ended"] /\ new["start"] = r["start"] /\ new["items"] = r["items"]
    BY InfoFields DEF Fields
  <2> HIDE DEF new
  <2> QED BY <2>1, <2>2, InfoFields
<1>3. cMeeting'[m] = new /\ new # None BY <1>1, <1>2, NoneIsNoHash DEF Stored
<1>4. \A f \in Fields : \/ f \in off
                        \/ cMeeting[m] # None /\ cMeeting[m][f] = new[f]
                        \/ row[m] # None /\ row[m][f] = new[f]
  BY DEF rows
<1> HIDE DEF new, off
<1>5. \A f \in off : <<m, f>> \in stale' BY <1>1
<1>6. Refilled(m) BY <1>3, <1>4, <1>5 DEF Refilled
<1> QED BY <1>1, <1>2, <1>6

LEMMA GetMeetingLooks ==
  ASSUME ListInv, Lookups, NEW p \in Procs, GetMeeting(p)
  PROVE  Lookups'
<1> USE DEF db, cache, local, history
<1> DEFINE n == Len(info[p])
<1>0. /\ LooksAt(p, pc[p]) /\ Stored /\ Shape /\ req[p] \in RequestType
      /\ info[p] \in Seq(MeetingInfo) /\ n \in Nat /\ Len(req[p].to) \in Nat
  <2>1. req[p] \in RequestType /\ info[p] \in Seq(MeetingInfo) BY DEF ListInv, Shape, Lookups
  <2>2. req[p].to \in Seq(Meetings) BY <2>1 DEF RequestType
  <2> QED BY <2>1, <2>2 DEF ListInv, Lookups
<1>1. CASE NoMeeting(p) BY <1>0, <1>1, StoreNone, ReturnLooks DEF NoMeeting
<1>2. CASE FindMeeting(p)
  <2>1. pc[p] = "do" /\ req[p].op \notin {"add", "copy"} BY <1>2 DEF FindMeeting, OfClass
  <2>2. LooksAt(p, "meet") /\ LooksAt(p, "move") BY <1>0, <2>1 DEF LooksAt
  <2> QED BY <1>0, <1>2, <2>2, StoreNone, GoOnLooks DEF FindMeeting
\* A handler that has looked up as many as it wanted, or one more.
<1>3. ASSUME pc[p] \in {"meet", "meetFill"}, NEW k \in Nat, AfterMeeting(p, k), k <= Len(req[p].to) + 1
      PROVE  \E l : /\ Goto(p, l) /\ l \in {"meet", "end", "move", "wipe", "get", "write"}
                    /\ l = "meet" => k <= Len(req[p].to)
                    /\ l # "meet" => k = Len(req[p].to) + 1
                    /\ l = "end" <=> l # "meet" /\ req[p].op = "end"
                    /\ l = "get" => req[p].op = "copy"
                    /\ l = "write" => req[p].op \in {"change", "ally", "sync"}
  <2> DEFINE l == IF k <= Len(req[p].to) THEN "meet"
                  ELSE CASE req[p].op = "end"     -> "end"
                         [] req[p].op = "trash"   -> "move"
                         [] req[p].op = "destroy" -> "wipe"
                         [] req[p].op = "copy"    -> "get"
                         [] OTHER                 -> "write"
  <2>1. Goto(p, l) BY <1>3 DEF AfterMeeting
  <2>2. req[p].op # "add" BY <1>0, <1>3 DEF LooksAt
  <2>3. req[p].op \in Calls BY <1>0 DEF RequestType
  <2>4. l \in {"meet", "end", "move", "wipe", "get", "write"} OBVIOUS
  <2>5. l = "meet" => k <= Len(req[p].to) OBVIOUS
  <2>6. l # "meet" => k = Len(req[p].to) + 1 BY <1>0, <1>3
  <2>7. l = "end" <=> l # "meet" /\ req[p].op = "end" OBVIOUS
  <2>8. l = "get" => req[p].op = "copy" OBVIOUS
  <2>9. l = "write" => req[p].op \in {"change", "ally", "sync"} BY <2>2, <2>3 DEF Calls
  <2> HIDE DEF l
  <2> QED BY <2>1, <2>4, <2>5, <2>6, <2>7, <2>8, <2>9
<1>4. ASSUME pc[p] = "meet", NEW r \in MeetingInfo, Wanted(p) \in used, NEW l,
             info' = [info EXCEPT ![p] = Append(@, r)], UNCHANGED <<db, cMeeting, req, step>>, Goto(p, l),
             \/ l = "meetFill"
             \/ /\ l \in {"meet", "end", "move", "wipe", "get", "write"}
                /\ l = "meet" => n + 1 <= Len(req[p].to)
                /\ l # "meet" => n = Len(req[p].to)
                /\ l = "end" <=> l # "meet" /\ req[p].op = "end"
                /\ l = "get" => req[p].op = "copy"
                /\ l = "write" => req[p].op \in {"change", "ally", "sync"}
      PROVE  Lookups'
  <2>1. info' \in [Procs -> Seq(MeetingInfo)] /\ info'[p] = Append(info[p], r)
        /\ \A q \in Procs \ {p} : info'[q] = info[q]
    BY <1>4 DEF Lookups
  <2>2. Len(info'[p]) = n + 1 BY <1>0, <2>1
  <2>3. pc'[p] = l /\ \A q \in Procs \ {p} : pc'[q] = pc[q] BY <1>0, <1>4 DEF Goto, Shape
  <2>4. Meant(p, n + 1) \in used BY <1>4 DEF Wanted
  <2>5. \A i \in 1..(n + 1) : i <= Len(req[p].to) + 1 => Meant(p, i) \in used BY <1>0, <2>4 DEF LooksAt
  <2>6. n <= Len(req[p].to) /\ req[p].op # "add" BY <1>0, <1>4 DEF LooksAt
  <2>7. req[p].op \notin {"ally", "sync"} => Len(req[p].to) = 0 BY <1>0 DEF LooksAt
  <2>8. LooksAt(p, pc[p])'
    <3>1. \A i : Meant(p, i)' = Meant(p, i) BY <1>4 DEF Meant
    <3>2. Len(info'[p]) = n + 1 /\ req' = req /\ used' = used /\ step' = step BY <1>4, <2>2
    <3> HIDE DEF n
    <3> QED BY <1>0, <1>4, <2>3, <2>5, <2>6, <2>7, <3>1, <3>2 DEF LooksAt
  <2> QED BY <1>0, <1>4, <2>1, <2>3, <2>8, StoreNone, StayLooked DEF Lookups
<1>5. ASSUME pc[p] = "meet" PROVE Wanted(p) \in Meetings /\ n + 1 <= Len(req[p].to) + 1
  <2>1. n <= Len(req[p].to) BY <1>0, <1>5 DEF LooksAt
  <2>2. req[p].meeting \in Meetings /\ req[p].to \in Seq(Meetings) BY <1>0 DEF RequestType
  <2> QED BY <1>0, <2>1, <2>2 DEF Wanted, Meant
<1>6. CASE MeetingHit(p)
  <2>1. cMeeting[Wanted(p)] \in MeetingInfo /\ Wanted(p) \in used BY <1>0, <1>5, <1>6 DEF MeetingHit, Stored
  <2>2. n + 1 \in Nat BY <1>0
  <2>3. AfterMeeting(p, n + 1) /\ pc[p] = "meet" BY <1>6 DEF MeetingHit
  <2> DEFINE k == n + 1
  <2>4. k \in Nat /\ AfterMeeting(p, k) /\ k <= Len(req[p].to) + 1 BY <1>5, <2>2, <2>3
  <2>5. PICK l : /\ Goto(p, l) /\ l \in {"meet", "end", "move", "wipe", "get", "write"}
                 /\ l = "meet" => k <= Len(req[p].to)
                 /\ l # "meet" => k = Len(req[p].to) + 1
                 /\ l = "end" <=> l # "meet" /\ req[p].op = "end"
                 /\ l = "get" => req[p].op = "copy"
                 /\ l = "write" => req[p].op \in {"change", "ally", "sync"}
    <3> HIDE DEF k
    <3> QED BY <1>3, <2>3, <2>4
  <2>6. l # "meet" => n = Len(req[p].to) BY <1>0, <2>5
  <2> QED BY <1>4, <1>6, <2>1, <2>5, <2>6 DEF MeetingHit
<1>7. CASE MeetingMiss(p)
  <2>1. row[Wanted(p)] \in MeetingInfo /\ Wanted(p) \in used BY <1>0, <1>5, <1>7 DEF MeetingMiss, Stored, rows
  <2>2. Selected(Wanted(p)) \in MeetingInfo BY <2>1, SelectedIsInfo
  <2> QED BY <1>4, <1>7, <2>1, <2>2 DEF MeetingMiss
<1>8. CASE MeetingFill(p)
  <2>1. pc[p] = "meetFill" /\ n \in 1..(Len(req[p].to) + 1) BY <1>0, <1>8 DEF MeetingFill, LooksAt
  <2>2. PICK l : /\ Goto(p, l) /\ l \in {"meet", "end", "move", "wipe", "get", "write"}
                 /\ l = "meet" => n <= Len(req[p].to)
                 /\ l # "meet" => n = Len(req[p].to) + 1
                 /\ l = "end" <=> l # "meet" /\ req[p].op = "end"
                 /\ l = "get" => req[p].op = "copy"
                 /\ l = "write" => req[p].op \in {"change", "ally", "sync"}
    BY <1>0, <1>3, <1>8, <2>1 DEF MeetingFill
  <2>3. req[p].op \notin {"ally", "sync"} => Len(req[p].to) = 0 BY <1>0 DEF LooksAt
  <2>4. LooksAt(p, l)
    <3>1. step[p] = 1 /\ Len(info[p]) = n BY <1>0, <2>1 DEF LooksAt
    <3>2. req[p].op = "copy" /\ l # "meet" => n = 1
      <4> SUFFICES ASSUME req[p].op = "copy", l # "meet" PROVE n = 1 OBVIOUS
      <4>1. n = Len(req[p].to) + 1 /\ Len(req[p].to) = 0 BY <2>2, <2>3
      <4> QED BY <4>1
    <3> HIDE DEF n
    <3> QED BY <1>0, <2>1, <2>2, <3>1, <3>2 DEF LooksAt
  <2>5. info[p][n] \in MeetingInfo BY <1>0, <2>1
  <2>6. Got(p) \in Meetings /\ Got(p) \in used
    <3>1. Got(p) \in used BY <1>0, <2>1 DEF Got, LooksAt
    <3> QED BY <1>0, <3>1 DEF Shape
  <2>7. Stored'
    <3>1. FillHash(Got(p), info[p][n]) /\ UNCHANGED <<row, used>> BY <1>8 DEF MeetingFill
    <3>2. PICK new \in MeetingInfo : cMeeting' = [cMeeting EXCEPT ![Got(p)] = new]
      BY <1>0, <2>5, <2>6, <3>1, HashIsFilled
    <3> QED BY <1>0, <2>6, <3>1, <3>2, StoreOne
  <2> QED BY <1>8, <2>2, <2>4, <2>7, GoOnLooks DEF MeetingFill
<1> QED BY <1>1, <1>2, <1>6, <1>7, <1>8 DEF GetMeeting

LEMMA AddMeetingLooks ==
  ASSUME ListInv, Lookups, NEW p \in Procs, AddMeeting(p)
  PROVE  Lookups'
<1> USE DEF db, cache, local, history
<1>0. /\ LooksAt(p, pc[p]) /\ Stored /\ Shape /\ Fresh /\ req[p] \in RequestType BY DEF ListInv, Shape, Lookups
<1>1. CASE AddInsert(p)
  <2>1. PICK m \in Ids \ used : /\ used' = used \union {m} /\ row' = [row EXCEPT ![m] = NewMeeting(p)]
                                /\ req'  = [req EXCEPT ![p].meeting = m]
    BY <1>1 DEF AddInsert
  <2>2. m \in Meetings BY <1>0, ScenesAreScenes DEF Shape, Ids
  <2>3. NewMeeting(p) \in MeetingInfo BY <1>1, NewMeetingIsInfo DEF AddInsert
  <2>4. Stored' BY <1>0, <1>1, <2>1, <2>2, <2>3, StoreOne DEF AddInsert
  <2>5. /\ \A q \in Procs \ {p} : pc'[q] = pc[q] /\ req'[q] = req[q]
        /\ pc'[p] = "seed" /\ req'[p] = [req[p] EXCEPT !.meeting = m]
        /\ UNCHANGED <<info, step>>
    BY <1>0, <1>1, <2>1 DEF AddInsert, Goto, Shape
  <2>6. req'[p].op = req[p].op /\ req'[p].to = req[p].to /\ req'[p].meeting = m
    BY <1>0, <2>5 DEF RequestType
  <2>7. req[p].to = <<>> BY <1>0, <1>1 DEF AddInsert, Adds, LooksAt
  <2>8. \A i \in 1..Len(info[p]) : i <= Len(req[p].to) + 1 => Meant(p, i)' \in used'
    BY <2>1, <2>6, <2>7 DEF Meant
  <2>9. LooksAt(p, pc[p])' BY <1>0, <1>1, <2>5, <2>6, <2>8 DEF AddInsert, Adds, LooksAt
  <2> QED BY <2>1, <2>4, <2>5, <2>9, StayLooked DEF Lookups
<1>2. CASE AddExhausted(p) BY <1>0, <1>2, StoreNone, ReturnLooks DEF AddExhausted
<1>3. CASE AddSeed(p)
  <2>1. NewMeeting(p) \in MeetingInfo BY <1>3, NewMeetingIsInfo DEF AddSeed
  <2>2. req[p].op \in Adds => req[p].meeting \in used BY <1>0, <1>3 DEF AddSeed, Fresh, Adding
  <2>3. Stored' BY <1>0, <1>3, <2>1, <2>2, StoreOne DEF AddSeed, LooksAt, RequestType, Adds
  <2> QED BY <1>3, <2>3, GoFreeLooks DEF AddSeed
<1>4. CASE AddLink(p) BY <1>0, <1>4, StoreNone, GoFreeLooks DEF AddLink
<1>5. CASE AddCommit(p) BY <1>0, <1>5, StoreNone, GoFreeLooks DEF AddCommit
<1> QED BY <1>1, <1>2, <1>3, <1>4, <1>5 DEF AddMeeting

\* What is written to a row or a hash that there is.
LEMMA WrittenStored ==
  ASSUME ListInv, Lookups, NEW p \in Procs, pc[p] \in {"end", "endCache", "write", "put"},
         NEW m \in Meetings
  PROVE  /\ Written(row[m], p) \in MeetingInfo \union {None}
         /\ Written(cMeeting[m], p) \in MeetingInfo \union {None}
         /\ Written(row[m], p) # None \/ Written(cMeeting[m], p) # None => m \in used
<1>1. Stored /\ LooksAt(p, pc[p]) BY DEF Lookups
<1>2. New(p) \in MeetingInfo BY <1>1, NewIsInfo
<1> QED BY <1>1, <1>2, WrittenIsInfo DEF Stored

LEMMA EndMeetingLooks ==
  ASSUME ListInv, Lookups, NEW p \in Procs, EndMeeting(p)
  PROVE  Lookups'
<1> USE DEF db, cache, local, history
<1>0. LooksAt(p, pc[p]) /\ Stored /\ req[p].meeting \in Meetings BY DEF ListInv, Shape, RequestType, Lookups
<1>1. CASE EndClosed(p) BY <1>0, <1>1, StoreNone, ReturnLooks DEF EndClosed
<1>2. CASE EndRow(p)
  <2>1. Stored' BY <1>0, <1>2, WrittenStored, StoreOne DEF EndRow, At
  <2>2. LooksAt(p, "endCache") BY <1>0, <1>2 DEF EndRow, At, LooksAt
  <2> QED BY <1>2, <2>1, <2>2, GoOnLooks DEF EndRow
<1>3. CASE EndCache(p)
  <2>1. Stored' BY <1>0, <1>3, WrittenStored, StoreOne DEF EndCache, At
  <2> QED BY <1>3, <2>1, GoFreeLooks DEF EndCache, At
<1>4. CASE CountRow(p) BY <1>0, <1>4, StoreNone, GoFreeLooks DEF CountRow, At
<1>5. CASE CountCache(p) BY <1>0, <1>5, StoreNone, GoFreeLooks DEF CountCache, At
<1> QED BY <1>1, <1>2, <1>3, <1>4, <1>5 DEF EndMeeting

LEMMA DeleteLooks ==
  ASSUME ReachInv, Lookups, NEW p \in Procs, DeleteMeeting(p) \/ DeleteMeetingPermanently(p)
  PROVE  Lookups'
<1> USE DEF db, cache, local, history
<1>0. LooksAt(p, pc[p]) /\ Stored /\ ListInv /\ Empties /\ req[p].meeting \in Meetings
  BY DEF ReachInv, ListInv, Shape, RequestType, Lookups
<1>1. CASE TrashRow(p)
  <2>1. PICK l \in {"recache", "commit"} : Goto(p, l) BY <1>1 DEF TrashRow
  <2> QED BY <1>0, <1>1, <2>1, StoreNone, GoFreeLooks DEF TrashRow, At
<1>2. CASE TrashCommit(p) BY <1>0, <1>2, StoreNone, GoFreeLooks DEF TrashCommit, At
\* Whoever destroys a meeting has looked up none before.
<1>3. req[p].op = "destroy" /\ pc[p] \in {"recache", "commit"} => LooksAt(p, "meet")
  BY <1>0 DEF LooksAt, Empties
<1>4. CASE Recache(p)
  <2>1. CASE req[p].op = "trash" BY <1>0, <1>4, <2>1, StoreNone, GoFreeLooks DEF Recache
  <2>2. CASE req[p].op # "trash"
    <3>1. LooksAt(p, "meet") BY <1>0, <1>3, <1>4, <2>2 DEF Recache, LooksAt
    <3> QED BY <1>0, <1>4, <2>2, <3>1, StoreNone, GoOnLooks DEF Recache
  <2> QED BY <2>1, <2>2
<1>5. CASE DestroyRow(p)
  <2>1. PICK l \in {"recache", "commit"} : Goto(p, l) BY <1>5 DEF DestroyRow
  <2> QED BY <1>0, <1>5, <2>1, StoreNone, GoFreeLooks DEF DestroyRow, At
<1>6. CASE DestroyCommit(p) BY <1>0, <1>3, <1>6, StoreNone, GoOnLooks DEF DestroyCommit, At
<1>7. CASE WipeRow(p)
  <2>1. Stored' BY <1>0, <1>7, StoreOne DEF WipeRow
  <2> QED BY <1>0, <1>7, <2>1, GoFreeLooks DEF WipeRow
<1>8. CASE WipeCommit(p)
  <2>1. Stored' BY <1>0, <1>8, StoreOne DEF WipeCommit
  <2> QED BY <1>0, <1>8, <2>1, ReturnLooks DEF WipeCommit
<1> QED BY <1>1, <1>2, <1>4, <1>5, <1>6, <1>7, <1>8 DEF DeleteMeeting, DeleteMeetingPermanently

LEMMA CallLooks ==
  ASSUME ReachInv, Lookups, NEW p \in Procs, Call(p)
  PROVE  Lookups'
<1> USE DEF db, cache
<1>1. Stored /\ info[p] = <<>> /\ step[p] = 1 /\ Shape /\ ListInv
  BY DEF ReachInv, Empties, Call, Lookups, LooksAt, ListInv
<1>2. /\ pc'[p] \in {"meet", "get"} /\ req'[p] \in RequestType /\ (req'[p].op = "add" => pc'[p] = "get")
      /\ (req'[p].op \notin {"ally", "sync"} => req'[p].to = <<>>)
      /\ (req'[p].op = "ally" => Len(req'[p].to) = 1) /\ (req'[p].op = "sync" => req'[p].to # <<>>)
      /\ req'[p].op = "copy" => pc'[p] = "meet"
  <2>1. req'[p].op = "copy" => pc'[p] = "meet"
    <3>1. PICK op \in Scenes[scene].ops : \E r \in Asked(op) :
            req' = [req EXCEPT ![p] = r] /\ Goto(p, IF op \in OfMeetings THEN "meet" ELSE "get")
      BY DEF Call
    <3>2. PICK r \in Asked(op) :
            req' = [req EXCEPT ![p] = r] /\ Goto(p, IF op \in OfMeetings THEN "meet" ELSE "get")
      BY <3>1
    <3>3. op \in Calls BY <1>1, ScenesAreScenes DEF Shape
    <3>4. r.op = op BY <3>3 DEF Asked, Request, Calls
    <3> QED BY <1>1, <3>2, <3>4 DEF Goto, Shape, OfMeetings
  <2> QED BY <1>1, <2>1, CallLists
<1>3. /\ \A q \in Procs \ {p} : pc'[q] = pc[q] /\ req'[q] = req[q]
      /\ UNCHANGED <<info, step, used, row, cMeeting>>
  BY <1>1 DEF Call, Goto, Shape
<1>4. Len(req'[p].to) \in Nat
  <2>1. req'[p].to \in Seq(Meetings) BY <1>2 DEF RequestType
  <2> QED BY <2>1
<1>5. LooksAt(p, pc[p])' BY <1>1, <1>2, <1>3, <1>4 DEF LooksAt
<1> QED BY <1>1, <1>3, <1>5, StoreNone, StayLooked DEF Lookups

LEMMA OtherLooks ==
  ASSUME ListInv, Lookups, Readings, NEW p \in Procs,
         \/ UpdateMeetingTime(p) \/ WriteRow(p) \/ PutField(p) \/ Rollback(p) \/ Abandon(p) \/ CopyUntimed(p)
  PROVE  Lookups'
<1> USE DEF db, cache, local, history
<1>0. LooksAt(p, pc[p]) /\ Stored /\ Shape /\ req[p] \in RequestType BY DEF ListInv, Shape, Lookups
<1>1. pc[p] \in Timing /\ req[p].op = "copy" => LooksAt(p, "write")
  <2> USE DEF Timing
  <2>1. ASSUME pc[p] \in Timing, req[p].op = "copy" PROVE req[p].meeting \in used
    <3>1. req[p].to = <<>> /\ Len(info[p]) = 1 BY <1>0, <2>1 DEF LooksAt
    <3>2. Meant(p, 1) \in used BY <1>0, <3>1 DEF LooksAt
    <3> QED BY <3>2 DEF Meant
  <2> QED BY <1>0, <2>1 DEF LooksAt
<1>2. CASE UpdateMeetingTime(p) \/ CopyUntimed(p)
  <2>1. ASSUME TimeFill(p) PROVE Stored'
    <3>1. /\ FillHash(missed[p][1], missed[p][2]) /\ UNCHANGED <<row, used>>
          /\ missed[p][1] \in used /\ missed[p][2] \in MeetingInfo
      BY <2>1 DEF TimeFill, Readings, ReadsAt
    <3>2. missed[p][1] \in Meetings BY <1>0, <3>1 DEF Shape
    <3>3. PICK new \in MeetingInfo : cMeeting' = [cMeeting EXCEPT ![missed[p][1]] = new]
      BY <1>0, <3>1, <3>2, HashIsFilled
    <3> QED BY <1>0, <3>1, <3>2, <3>3, StoreOne
  <2>2. UNCHANGED cMeeting \/ TimeFill(p)
    BY <1>2 DEF UpdateMeetingTime, TimeHit, TimeMiss, TimeGone, Reschedule, CopyUntimed
  <2>3. Stored'
    <3>1. UNCHANGED <<row, used>> BY <1>2, TimesGo
    <3> QED BY <1>0, <2>1, <2>2, <3>1, StoreNone
  <2>4. UNCHANGED used BY <1>2, TimesGo
  <2>5. CASE Return(p) BY <2>3, <2>4, <2>5, ReturnLooks
  <2>6. ASSUME NEW l \in {"times", "timesFill"}, Goto(p, l), UNCHANGED <<req, info, step>> PROVE Lookups'
    <3>1. LooksAt(p, l) BY <1>0, <1>2, <2>6, TimesGo DEF LooksAt, Timing
    <3> QED BY <2>3, <2>4, <2>6, <3>1, GoOnLooks
  <2>7. CASE req[p].op = "copy" /\ Goto(p, "write") /\ UNCHANGED <<req, info, step>>
    BY <1>1, <1>2, <2>3, <2>4, <2>7, GoOnLooks, TimesGo
  <2> QED BY <1>2, <2>5, <2>6, <2>7, TimesGo
\* The meetings that are written to.
<1>3. /\ Targets(p) \in Seq(Meetings) /\ Len(Targets(p)) \in Nat /\ Len(Targets(p)) >= 1
      /\ req[p].op # "sync" => Len(Targets(p)) = 1
  <2>1. req[p].to \in Seq(Meetings) /\ <<req[p].meeting>> \in Seq(Meetings) BY <1>0 DEF RequestType
  <2>2. Targets(p) \in Seq(Meetings) BY <2>1 DEF Targets
  <2>3. req[p].op # "sync" => Len(Targets(p)) = 1 BY DEF Targets
  <2>4. req[p].op = "sync" => Targets(p) # <<>> BY <1>0 DEF Targets, LooksAt
  <2> QED BY <2>2, <2>3, <2>4
<1>4. CASE WriteRow(p)
  <2> DEFINE ms == {Targets(p)[i] : i \in DOMAIN Targets(p)}
  <2>1. row' = [m \in Meetings |-> IF m \in ms THEN Written(row[m], p) ELSE row[m]] BY <1>4 DEF WriteRow
  <2>2. pc[p] = "write" BY <1>4 DEF WriteRow
  <2> HIDE DEF ms
  <2>3. \A m \in Meetings : row'[m] \in MeetingInfo \union {None} /\ (row'[m] # None => m \in used)
    BY <1>0, <2>1, <2>2, WrittenStored DEF Stored
  <2>4. Stored' BY <1>0, <1>4, <2>1, <2>3 DEF Stored, WriteRow
  <2>5. LooksAt(p, "put") BY <1>0, <1>3, <2>2 DEF LooksAt
  <2> QED BY <1>4, <2>4, <2>5, GoOnLooks DEF WriteRow
<1>5. CASE PutField(p)
  <2>0. pc[p] = "put" /\ step[p] \in 1..Len(Targets(p)) BY <1>0, <1>5 DEF PutField, LooksAt
  <2> DEFINE m == Targets(p)[step[p]]
  <2>1. m \in Meetings BY <1>3, <2>0
  <2>2. Stored' BY <1>0, <1>5, <2>0, <2>1, WrittenStored, StoreOne DEF PutField
  <2>3. CASE step[p] < Len(Targets(p))
    <3>1. step' = [step EXCEPT ![p] = @ + 1] /\ UNCHANGED <<pc, req, seen, info, tx, used>> BY <1>5, <2>3 DEF PutField
    <3>2. step'[p] = step[p] + 1 /\ \A q \in Procs \ {p} : step'[q] = step[q] BY <3>1 DEF Lookups
    <3>3. step'[p] \in 1..Len(Targets(p)) BY <1>3, <2>0, <2>3, <3>2
    <3>4. LooksAt(p, pc[p])' BY <1>0, <2>0, <3>1, <3>3 DEF LooksAt, Meant, Targets
    <3> QED BY <2>2, <3>1, <3>2, <3>4, StayLooked DEF Lookups
  <2>4. CASE ~(step[p] < Len(Targets(p))) /\ Changes(p)
    <3>1. Len(Targets(p)) = 1 BY <1>3, <2>4 DEF Changes
    <3>2. step[p] = 1 BY <2>0, <3>1
    <3>3. LooksAt(p, "time") BY <1>0, <2>0, <2>4, <3>2 DEF LooksAt, Changes
    <3> QED BY <1>5, <2>2, <2>4, <3>3, GoOnLooks DEF PutField
  <2>5. CASE ~(step[p] < Len(Targets(p))) /\ ~Changes(p) BY <1>5, <2>2, <2>5, ReturnLooks DEF PutField
  <2> QED BY <2>3, <2>4, <2>5
<1>6. CASE Rollback(p) BY <1>0, <1>6, StoreNone, ReturnLooks DEF Rollback
<1>7. CASE Abandon(p) BY <1>0, <1>7, StoreNone, ReturnLooks DEF Abandon
<1> QED BY <1>2, <1>4, <1>5, <1>6, <1>7

LEMMA LookupsStep == ReachInv /\ Lookups /\ Readings /\ [Next]_vars => Lookups'
<1> SUFFICES ASSUME ReachInv, Lookups, Readings, [Next]_vars PROVE Lookups' OBVIOUS
<1> USE DEF db, cache, local, history
<1>0. Stored /\ ListInv /\ Shape BY DEF ReachInv, ListInv, Lookups
<1>1. CASE UNCHANGED vars
  BY <1>1 DEF vars, Lookups, LooksAt, Stored, Meant, Targets
<1>2. ASSUME NEW p \in Procs, GetClass(p) PROVE Lookups'
  <2>0. LooksAt(p, pc[p]) BY DEF Lookups
  <2>1. CASE Refuse(p) BY <1>0, <2>1, StoreNone, ReturnLooks DEF Refuse
  <2>2. ASSUME NEW l \in {"do", "times", "fill", "timeFill"}, Goto(p, l), UNCHANGED <<req, info, step, db, cMeeting>>,
               pc[p] \in {"get", "time", "fill", "timeFill"},
               l \in {"do", "fill"} => pc[p] \in {"get", "fill"}
        PROVE  Lookups'
    <3>1. LooksAt(p, l) BY <2>0, <2>2 DEF LooksAt
    <3> QED BY <1>0, <2>2, <3>1, StoreNone, GoOnLooks
  <2>3. CASE GetClassHit(p) BY <2>2, <2>3 DEF GetClassHit
  <2>4. CASE GetClassMiss(p) BY <2>2, <2>4 DEF GetClassMiss
  <2>5. CASE GetClassFill(p) BY <2>2, <2>5 DEF GetClassFill
  <2> QED BY <1>2, <2>1, <2>3, <2>4, <2>5 DEF GetClass
<1> QED BY <1>0, <1>1, <1>2, CallLooks, GetMeetingLooks, AddMeetingLooks, EndMeetingLooks, DeleteLooks, OtherLooks DEF Next

-----------------------------------------------------------------------------

\* A hash that has outlived its row is recorded.
HashedRows == \A m \in Meetings : cMeeting[m] # None /\ row[m] = None => Whole(m) \subseteq stale

\* Whoever is about to write a field of a hash writes what the row has, unless recorded.
Agreeing ==
  \A p \in Procs, m \in Meetings, f \in Fields :
    Writes(p, m, f) /\ <<m, f>> \notin stale /\ m \in rows => New(p)[f] = row[m][f]

HashesFollow ==
  \A m \in Meetings, f \in Fields :
    cMeeting[m] # None /\ <<m, f>> \notin stale =>
      \/ m \in rows /\ cMeeting[m][f] = row[m][f]
      \/ \E p \in Procs : Writes(p, m, f)

HashInv == HashedRows /\ Agreeing /\ HashesFollow

LEMMA TargetsAreUsed ==
  ASSUME ListInv, Lookups, NEW p \in Procs
  PROVE  /\ Targets(p) \in Seq(Meetings) /\ Len(Targets(p)) \in Nat
         /\ req[p].op # "sync" => Targets(p) = <<req[p].meeting>>
         /\ \A m \in Meetings, f \in Fields : Writes(p, m, f) => m \in used
<1>0. LooksAt(p, pc[p]) /\ req[p].to \in Seq(Meetings) /\ req[p].meeting \in Meetings
  BY DEF ListInv, Shape, RequestType, Lookups
<1>1. Targets(p) \in Seq(Meetings) BY <1>0 DEF Targets
<1>2. Len(Targets(p)) \in Nat BY <1>1
<1>3. req[p].op # "sync" => Targets(p) = <<req[p].meeting>> BY DEF Targets
<1>4. ASSUME NEW m \in Meetings, NEW f \in Fields, Writes(p, m, f) PROVE m \in used
  <2>0. Len(req[p].to) \in Nat BY <1>0
  <2>1. /\ pc[p] \in {"endCache", "put"} /\ step[p] \in Nat /\ step[p] >= 1
        /\ Len(info[p]) = Len(req[p].to) + 1 \/ (req[p].op = "copy" /\ Len(info[p]) = 1)
        /\ req[p].op # "sync" => Len(Targets(p)) = 1
    <3>1. pc[p] \in {"endCache", "put"} BY <1>4 DEF Writes
    <3>2. step[p] \in Nat /\ step[p] >= 1 BY <1>0, <1>2, <3>1 DEF LooksAt
    <3>3. Len(info[p]) = Len(req[p].to) + 1 \/ (req[p].op = "copy" /\ Len(info[p]) = 1)
      <4>1. req[p].op \in {"end", "change", "ally", "sync", "copy"} BY <1>0, <3>1 DEF LooksAt
      <4>2. CASE req[p].op = "copy" BY <1>0, <3>1, <4>2 DEF LooksAt
      <4>3. CASE req[p].op # "copy" BY <1>0, <3>1, <4>1, <4>3 DEF LooksAt
      <4> QED BY <4>2, <4>3
    <3>4. req[p].op # "sync" => Len(Targets(p)) = 1 BY <1>3
    <3> QED BY <3>1, <3>2, <3>3, <3>4
  <2>2. PICK i \in step[p]..Len(Targets(p)) : Targets(p)[i] = m BY <1>4 DEF Writes
  <2>3. i \in Nat /\ i >= 1 /\ i <= Len(Targets(p)) BY <1>2, <2>1, <2>2
  <2>4. CASE req[p].op = "sync"
    <3>1. Targets(p) = req[p].to BY <2>4 DEF Targets
    <3>2. i + 1 \in 1..Len(info[p]) /\ i + 1 <= Len(req[p].to) + 1 BY <2>0, <2>1, <2>3, <2>4, <3>1
    <3>3. Meant(p, i + 1) \in used BY <1>0, <3>2 DEF LooksAt
    <3>4. Meant(p, i + 1) = req[p].to[i]
      <4>1. i + 1 # 1 /\ (i + 1) - 1 = i BY <2>3
      <4> QED BY <4>1 DEF Meant
    <3> QED BY <2>2, <3>1, <3>3, <3>4
  <2>5. CASE req[p].op # "sync"
    <3>1. i = 1 /\ m = req[p].meeting BY <1>3, <2>1, <2>2, <2>3, <2>5
    <3>2. 1 \in 1..Len(info[p]) /\ 1 <= Len(req[p].to) + 1 BY <2>0, <2>1
    <3>3. Meant(p, 1) \in used BY <1>0, <3>2 DEF LooksAt
    <3> QED BY <3>1, <3>3 DEF Meant
  <2> QED BY <2>4, <2>5
<1> QED BY <1>1, <1>2, <1>3, <1>4

LEMMA HashInit == Init => HashInv
  BY DEF Init, HashInv, HashedRows, Agreeing, HashesFollow, Writes

\* What others are about to write is the same when their state is.
LEMMA SameWrites ==
  ASSUME NEW q, pc'[q] = pc[q], req'[q] = req[q], info'[q] = info[q], step'[q] = step[q]
  PROVE  New(q)' = New(q) /\ Sets(q)' = Sets(q) /\ \A m, f : Writes(q, m, f)' <=> Writes(q, m, f)
<1>1. Targets(q)' = Targets(q) BY DEF Targets
<1>2. Sets(q)' = Sets(q) BY DEF Sets
<1>3. New(q)' = New(q) BY DEF New
<1> QED BY <1>1, <1>2, <1>3 DEF Writes

\* Steps that neither write a field to a row nor one to a hash.
LEMMA QuietHash ==
  ASSUME ListInv, Lookups, HashInv, NEW p \in Procs, stale \subseteq stale',
         \A q \in Procs \ {p} : pc'[q] = pc[q] /\ req'[q] = req[q] /\ info'[q] = info[q] /\ step'[q] = step[q],
         pc'[p] \notin {"endCache", "put"},
         \A m \in Meetings, f \in Fields : Writes(p, m, f) => <<m, f>> \in stale',
         \A m \in Meetings :
           \/ Whole(m) \subseteq stale'
           \/ row'[m] = row[m] /\ cMeeting'[m] \in {cMeeting[m], row[m], None}
           \/ Refilled(m)
           \/ m \notin used /\ cMeeting'[m] = None
           \/ row'[m] = None /\ cMeeting'[m] = None
  PROVE  HashInv'
<1>1. \A q \in Procs \ {p} : New(q)' = New(q) /\ \A m, f : Writes(q, m, f)' <=> Writes(q, m, f)
  BY SameWrites
<1>2. \A m, f : ~Writes(p, m, f)' BY DEF Writes
<1>3. \A m \in Meetings, f \in Fields : <<m, f>> \in Whole(m) BY DEF Whole
<1>4. HashedRows'
  <2> SUFFICES ASSUME NEW m \in Meetings, cMeeting'[m] # None, row'[m] = None PROVE Whole(m) \subseteq stale'
    BY DEF HashedRows, Whole
  <2>1. CASE Refilled(m)
    <3>1. \A f \in Fields : <<m, f>> \in stale' \/ cMeeting[m] # None BY <2>1 DEF Refilled
    <3>2. cMeeting[m] # None => Whole(m) \subseteq stale BY <2>1 DEF Refilled, HashInv, HashedRows
    <3> QED BY <3>1, <3>2 DEF Whole
  <2> QED BY <2>1 DEF HashInv, HashedRows
<1>5. Agreeing'
  <2> SUFFICES ASSUME NEW q \in Procs \ {p}, NEW m \in Meetings, NEW f \in Fields,
                      Writes(q, m, f), <<m, f>> \notin stale', row'[m] # None
               PROVE  New(q)[f] = row'[m][f]
    BY <1>1, <1>2 DEF Agreeing, rows
  <2>1. m \in used BY TargetsAreUsed
  <2>2. row'[m] = row[m] BY <1>3, <2>1 DEF Refilled
  <2> QED BY <2>2 DEF HashInv, Agreeing, rows
<1>6. HashesFollow'
  <2> SUFFICES ASSUME NEW m \in Meetings, NEW f \in Fields, cMeeting'[m] # None, <<m, f>> \notin stale'
               PROVE  \/ row'[m] # None /\ cMeeting'[m][f] = row'[m][f]
                      \/ \E q \in Procs : Writes(q, m, f)'
    BY DEF HashesFollow, rows
  <2>1. /\ row'[m] = row[m]
        /\ \/ row[m] # None /\ cMeeting'[m][f] = row[m][f]
           \/ cMeeting[m] # None /\ cMeeting'[m][f] = cMeeting[m][f]
    BY <1>3 DEF Refilled
  <2>2. CASE row[m] # None /\ cMeeting'[m][f] = row[m][f] BY <2>1, <2>2
  <2>3. CASE cMeeting[m] # None /\ cMeeting'[m][f] = cMeeting[m][f]
    <3>1. ASSUME NEW q \in Procs, Writes(q, m, f) PROVE Writes(q, m, f)' BY <1>1, <3>1
    <3> QED BY <2>1, <2>3, <3>1 DEF HashInv, HashesFollow, rows
  <2> QED BY <2>1, <2>2, <2>3
<1> QED BY <1>4, <1>5, <1>6 DEF HashInv

\* p writes the fields of its meetings to their rows, and records where others cross it.
LEMMA RowHash ==
  ASSUME ListInv, Lookups, HashInv, NEW p \in Procs, NEW ms, ms = {Targets(p)[i] : i \in DOMAIN Targets(p)},
         pc[p] \in {"end", "write"}, NEW l \in {"endCache", "put"}, Goto(p, l),
         UNCHANGED <<req, info, step, cMeeting>>, stale' = stale \union Crossed(p, ms),
         \A m \in Meetings : row'[m] = IF m \in ms THEN Written(row[m], p) ELSE row[m]
  PROVE  HashInv'
<1>0. LooksAt(p, pc[p]) /\ Stored BY DEF Lookups
<1>1. /\ \A q \in Procs \ {p} : pc'[q] = pc[q]
      /\ pc'[p] = l
  BY DEF Goto, ListInv, Shape
<1>2. \A q \in Procs \ {p} : New(q)' = New(q) /\ \A m, f : Writes(q, m, f)' <=> Writes(q, m, f)
  BY <1>1, SameWrites
<1>3. New(p)' = New(p) /\ Sets(p)' = Sets(p) /\ Targets(p)' = Targets(p) BY DEF New, Sets, Targets
<1>4. New(p) \in MeetingInfo BY <1>0, NewIsInfo
<1>5. step[p] = 1 BY <1>0 DEF LooksAt
<1>6. DOMAIN Targets(p) = 1..Len(Targets(p)) BY TargetsAreUsed
<1>7. \A m, f : Writes(p, m, f)' <=> m \in ms /\ f \in Sets(p)
  BY <1>1, <1>3, <1>5, <1>6 DEF Writes
<1>8. \A m, f : ~Writes(p, m, f) BY DEF Writes
<1>9. \A m \in Meetings : /\ row'[m] = None <=> row[m] = None
                          /\ row[m] # None => \A f \in Fields :
                               row'[m][f] = IF m \in ms /\ f \in Sets(p) THEN New(p)[f] ELSE row[m][f]
  BY <1>0, <1>4, WrittenIsInfo DEF Stored
<1>10. HashedRows' BY <1>9 DEF HashInv, HashedRows, Whole
<1>11. Agreeing'
  <2> SUFFICES ASSUME NEW q \in Procs, NEW m \in Meetings, NEW f \in Fields,
                      Writes(q, m, f)', <<m, f>> \notin stale', row'[m] # None
               PROVE  New(q)'[f] = row'[m][f]
    BY DEF Agreeing, rows
  <2>1. CASE q = p BY <1>3, <1>7, <1>9, <2>1
  <2>2. CASE q # p
    <3>1. Writes(q, m, f) /\ New(q)' = New(q) BY <1>2, <2>2
    <3>2. CASE m \in ms /\ f \in Sets(p)
      <4>1. <<m, f>> \in ms \X Sets(p) /\ <<m, f>>[1] = m /\ <<m, f>>[2] = f BY <3>2
      <4>2. <<m, f>> \notin Crossed(p, ms) OBVIOUS
      <4>3. New(q)[f] = New(p)[f] BY <2>2, <3>1, <4>1, <4>2 DEF Crossed
      <4> QED BY <1>9, <3>1, <3>2, <4>3
    <3>3. CASE ~(m \in ms /\ f \in Sets(p))
      <4>1. row'[m][f] = row[m][f] /\ row[m] # None BY <1>9, <3>3
      <4> QED BY <3>1, <4>1 DEF HashInv, Agreeing, rows
    <3> QED BY <3>2, <3>3
  <2> QED BY <2>1, <2>2
<1>12. HashesFollow'
  <2> SUFFICES ASSUME NEW m \in Meetings, NEW f \in Fields, cMeeting[m] # None, <<m, f>> \notin stale'
               PROVE  \/ row'[m] # None /\ cMeeting[m][f] = row'[m][f]
                      \/ \E q \in Procs : Writes(q, m, f)'
    BY DEF HashesFollow, rows
  <2>1. CASE m \in ms /\ f \in Sets(p) BY <1>7, <2>1
  <2>2. CASE ~(m \in ms /\ f \in Sets(p))
    <3>1. \A q \in Procs : Writes(q, m, f) => Writes(q, m, f)' BY <1>2, <1>8
    <3>2. row[m] # None => row'[m] # None /\ row'[m][f] = row[m][f] BY <1>9, <2>2
    <3> QED BY <3>1, <3>2 DEF HashInv, HashesFollow, rows
  <2> QED BY <2>1, <2>2
<1> QED BY <1>10, <1>11, <1>12 DEF HashInv

\* p writes the fields of the next of its meetings to its hash.
LEMMA PutHash ==
  ASSUME ListInv, Lookups, HashInv, NEW p \in Procs, pc[p] \in {"endCache", "put"},
         NEW m \in Meetings, step[p] \in 1..Len(Targets(p)), m = Targets(p)[step[p]],
         cMeeting' = [cMeeting EXCEPT ![m] = Written(@, p)], UNCHANGED <<row, stale>>,
         \A q \in Procs \ {p} : pc'[q] = pc[q] /\ req'[q] = req[q] /\ info'[q] = info[q] /\ step'[q] = step[q],
         \/ step[p] = Len(Targets(p)) /\ pc'[p] \notin {"endCache", "put"}
         \/ pc'[p] = pc[p] /\ req'[p] = req[p] /\ info'[p] = info[p] /\ step'[p] = step[p] + 1
  PROVE  HashInv'
<1>0. LooksAt(p, pc[p]) /\ Stored BY DEF Lookups
<1>1. \A q \in Procs \ {p} : New(q)' = New(q) /\ \A n, f : Writes(q, n, f)' <=> Writes(q, n, f)
  BY SameWrites
<1>2. New(p) \in MeetingInfo BY <1>0, NewIsInfo
<1>3. Len(Targets(p)) \in Nat BY TargetsAreUsed
<1>4. \A n, f : Writes(p, n, f)' => Writes(p, n, f) /\ New(p)' = New(p)
  <2>1. CASE pc'[p] \notin {"endCache", "put"} BY <2>1 DEF Writes
  <2>2. CASE pc'[p] = pc[p] /\ req'[p] = req[p] /\ info'[p] = info[p] /\ step'[p] = step[p] + 1
    <3>1. New(p)' = New(p) /\ Sets(p)' = Sets(p) /\ Targets(p)' = Targets(p) BY <2>2 DEF New, Sets, Targets
    <3>2. \A i : i \in (step[p] + 1)..Len(Targets(p)) => i \in step[p]..Len(Targets(p)) BY <1>3
    <3> QED BY <2>2, <3>1, <3>2 DEF Writes
  <2> QED BY <2>1, <2>2
<1>5. \A n, f : Writes(p, n, f) => Writes(p, n, f)' \/ n = m
  <2> SUFFICES ASSUME NEW n, NEW f, Writes(p, n, f), n # m PROVE Writes(p, n, f)' OBVIOUS
  <2>1. PICK i \in step[p]..Len(Targets(p)) : Targets(p)[i] = n BY DEF Writes
  <2>2. i # step[p] BY <2>1
  <2>3. i \in (step[p] + 1)..Len(Targets(p)) BY <1>3, <2>1, <2>2
  <2>4. pc'[p] = pc[p] /\ req'[p] = req[p] /\ info'[p] = info[p] /\ step'[p] = step[p] + 1 BY <1>3, <2>3
  <2>5. Sets(p)' = Sets(p) /\ Targets(p)' = Targets(p) BY <2>4 DEF Sets, Targets
  <2> QED BY <2>1, <2>3, <2>4, <2>5 DEF Writes
<1>6. \A f \in Sets(p) : Writes(p, m, f)
  <2>1. step[p] \in step[p]..Len(Targets(p)) BY <1>3
  <2> QED BY <2>1 DEF Writes
<1>7. \A n \in Meetings : /\ cMeeting'[n] = None <=> cMeeting[n] = None
                          /\ cMeeting[n] # None => \A f \in Fields :
                               cMeeting'[n][f] = IF n = m /\ f \in Sets(p) THEN New(p)[f] ELSE cMeeting[n][f]
  BY <1>0, <1>2, WrittenIsInfo DEF Stored
<1>8. HashedRows' BY <1>7 DEF HashInv, HashedRows, Whole
<1>9. Agreeing'
  <2> SUFFICES ASSUME NEW q \in Procs, NEW n \in Meetings, NEW f \in Fields,
                      Writes(q, n, f)', <<n, f>> \notin stale, row[n] # None
               PROVE  New(q)'[f] = row[n][f]
    BY DEF Agreeing, rows
  <2>1. Writes(q, n, f) /\ New(q)' = New(q) BY <1>1, <1>4
  <2> QED BY <2>1 DEF HashInv, Agreeing, rows
<1>10. HashesFollow'
  <2> SUFFICES ASSUME NEW n \in Meetings, NEW f \in Fields, cMeeting'[n] # None, <<n, f>> \notin stale
               PROVE  \/ row[n] # None /\ cMeeting'[n][f] = row[n][f]
                      \/ \E q \in Procs : Writes(q, n, f)'
    BY DEF HashesFollow, rows
  <2>1. cMeeting[n] # None /\ row[n] # None
    <3>1. <<n, f>> \in Whole(n) BY DEF Whole
    <3> QED BY <1>7, <3>1 DEF HashInv, HashedRows
  <2>2. CASE n = m /\ f \in Sets(p)
    <3>1. New(p)[f] = row[n][f] BY <1>6, <2>1, <2>2 DEF HashInv, Agreeing, rows
    <3> QED BY <1>7, <2>1, <2>2, <3>1
  <2>3. CASE ~(n = m /\ f \in Sets(p))
    <3>1. cMeeting'[n][f] = cMeeting[n][f] BY <1>7, <2>1, <2>3
    <3>2. Writes(p, n, f) => Writes(p, n, f)' BY <1>5, <2>3 DEF Writes
    <3>3. \A q \in Procs : Writes(q, n, f) => Writes(q, n, f)' BY <1>1, <3>2
    <3> QED BY <2>1, <3>1, <3>3 DEF HashInv, HashesFollow, rows
  <2> QED BY <2>2, <2>3
<1> QED BY <1>8, <1>9, <1>10 DEF HashInv

LEMMA HashStep == ReachInv /\ Lookups /\ Readings /\ HashInv /\ [Next]_vars => HashInv'
<1> SUFFICES ASSUME ReachInv, Lookups, Readings, HashInv, [Next]_vars PROVE HashInv' OBVIOUS
<1> USE DEF db, cache, local, history
<1>0. Stored /\ ListInv /\ Shape /\ Fresh BY DEF ReachInv, ListInv, Lookups
<1>1. CASE UNCHANGED vars
  <2>1. \A q : New(q)' = New(q) /\ \A m, f : Writes(q, m, f)' <=> Writes(q, m, f)
    BY <1>1, SameWrites DEF vars
  <2> QED BY <1>1, <2>1 DEF vars, HashInv, HashedRows, Agreeing, HashesFollow, rows, Whole
\* Where every other handler is when p returns or goes on.
<1>2. ASSUME NEW p \in Procs, NEW l, Return(p) \/ (Goto(p, l) /\ UNCHANGED <<req, info, step>>)
      PROVE  /\ \A q \in Procs \ {p} : pc'[q] = pc[q] /\ req'[q] = req[q] /\ info'[q] = info[q] /\ step'[q] = step[q]
             /\ pc'[p] \in {"idle", l}
  BY <1>0, <1>2 DEF Return, Goto, Shape, Lookups
\* p returns or goes on, and no row and no hash changes.
<1>3. ASSUME NEW p \in Procs, NEW l, Return(p) \/ (Goto(p, l) /\ UNCHANGED <<req, info, step>>),
             l \notin {"endCache", "put"}, pc[p] \notin {"endCache", "put"},
             UNCHANGED <<row, cMeeting>>, stale \subseteq stale'
      PROVE  HashInv'
  <2>1. \A m, f : ~Writes(p, m, f) BY <1>3 DEF Writes
  <2> QED BY <1>0, <1>2, <1>3, <2>1, QuietHash
<1>4. ASSUME NEW p \in Procs, Return(p), pc[p] \notin {"endCache", "put"}, UNCHANGED <<row, cMeeting>>, stale \subseteq stale'
      PROVE  HashInv'
  BY <1>3, <1>4
\* p goes on, or returns, and changes at most a row and a hash as QuietHash allows.
<1>5. ASSUME NEW p \in Procs, NEW l, Return(p) \/ (Goto(p, l) /\ UNCHANGED <<req, info, step>>),
             l \notin {"endCache", "put"}, pc[p] \notin {"endCache", "put"}, stale \subseteq stale',
             NEW m \in Meetings,
             \A n \in Meetings \ {m} : row'[n] = row[n] /\ cMeeting'[n] = cMeeting[n],
             \/ Whole(m) \subseteq stale'
             \/ row'[m] = row[m] /\ cMeeting'[m] \in {cMeeting[m], row[m], None}
             \/ Refilled(m)
             \/ row'[m] = None /\ cMeeting'[m] = None
      PROVE  HashInv'
  <2>1. \A n, f : ~Writes(p, n, f) BY <1>5 DEF Writes
  <2> QED BY <1>0, <1>2, <1>5, <2>1, QuietHash
\* p goes on when it has filled the hash of a meeting.
<1>17. ASSUME NEW p \in Procs, NEW l, Goto(p, l), UNCHANGED <<req, info, step, row>>,
              l \notin {"endCache", "put"}, pc[p] \notin {"endCache", "put"},
              NEW m \in Meetings, NEW r \in MeetingInfo, FillHash(m, r)
       PROVE  HashInv'
  <2>1. stale \subseteq stale' /\ Refilled(m) BY <1>0, <1>17, HashIsFilled
  <2>2. \A n \in Meetings \ {m} : cMeeting'[n] = cMeeting[n] BY <1>0, <1>17 DEF FillHash, Stored
  <2> QED BY <1>5, <1>17, <2>1, <2>2
<1>6. ASSUME NEW p \in Procs, Call(p) PROVE HashInv'
  <2>1. /\ \A q \in Procs \ {p} : pc'[q] = pc[q] /\ req'[q] = req[q] /\ info'[q] = info[q] /\ step'[q] = step[q]
        /\ UNCHANGED <<row, cMeeting, stale>> /\ pc[p] = "idle"
    BY <1>0, <1>6 DEF Call, Goto, Shape
  <2>2. pc'[p] \in {"meet", "get"} BY <1>0, <1>6, CallLists
  <2>3. \A m, f : ~Writes(p, m, f) BY <2>1 DEF Writes
  <2> QED BY <1>0, <2>1, <2>2, <2>3, QuietHash
<1>7. ASSUME NEW p \in Procs, GetClass(p) PROVE HashInv'
  <2>1. CASE GetClassHit(p) BY <1>3, <2>1 DEF GetClassHit
  <2>2. CASE GetClassMiss(p) BY <1>3, <2>2 DEF GetClassMiss
  <2>3. CASE GetClassFill(p) BY <1>3, <2>3 DEF GetClassFill
  <2>4. CASE Refuse(p)
    <3>1. pc[p] \notin {"endCache", "put"} BY <2>4 DEF Refuse, At
    <3> QED BY <1>4, <2>4, <3>1 DEF Refuse
  <2> QED BY <1>7, <2>1, <2>2, <2>3, <2>4 DEF GetClass
<1>8. ASSUME NEW p \in Procs, GetMeeting(p) PROVE HashInv'
  <2>1. CASE NoMeeting(p)
    <3>1. pc[p] \notin {"endCache", "put"} BY <2>1 DEF NoMeeting, OfClass
    <3> QED BY <1>4, <2>1, <3>1 DEF NoMeeting
  <2>2. CASE FindMeeting(p) BY <1>3, <2>2 DEF FindMeeting, OfClass
  <2>3. CASE MeetingHit(p) \/ MeetingMiss(p)
    <3>1. PICK l : Goto(p, l) /\ l \notin {"endCache", "put"}
      <4>1. CASE MeetingMiss(p) BY <4>1 DEF MeetingMiss
      <4>2. CASE MeetingHit(p)
        <5>1. PICK n : AfterMeeting(p, n) BY <4>2 DEF MeetingHit
        <5> QED BY <5>1 DEF AfterMeeting
      <4> QED BY <2>3, <4>1, <4>2
    <3>2. /\ \A q \in Procs \ {p} : pc'[q] = pc[q] /\ req'[q] = req[q] /\ info'[q] = info[q] /\ step'[q] = step[q]
          /\ pc'[p] = l /\ pc[p] = "meet" /\ UNCHANGED <<row, cMeeting, stale>>
      BY <1>0, <2>3, <3>1 DEF MeetingHit, MeetingMiss, Goto, Shape
    <3>3. \A m, f : ~Writes(p, m, f) BY <3>2 DEF Writes
    <3> QED BY <1>0, <3>1, <3>2, <3>3, QuietHash
  <2>4. CASE MeetingFill(p)
    <3>1. PICK l : Goto(p, l) /\ l \notin {"endCache", "put"} BY <2>4 DEF MeetingFill, AfterMeeting
    <3> DEFINE m == Got(p)
    <3>2. m \in Meetings /\ info[p][Len(info[p])] \in MeetingInfo
      <4>1. LooksAt(p, "meetFill") BY <2>4 DEF MeetingFill, Lookups
      <4>2. Got(p) \in used /\ info[p][Len(info[p])] \in MeetingInfo
        <5>1. info[p] \in Seq(MeetingInfo) BY DEF Lookups
        <5>2. Len(info[p]) \in Nat BY <5>1
        <5>3. Len(info[p]) \in 1..(Len(req[p].to) + 1) /\ req[p].to \in Seq(Meetings)
          BY <1>0, <4>1 DEF LooksAt, Shape, RequestType
        <5>4. Len(req[p].to) \in Nat BY <5>3
        <5>5. Len(info[p]) \in 1..Len(info[p]) /\ Len(info[p]) <= Len(req[p].to) + 1 BY <5>2, <5>3, <5>4
        <5> QED BY <4>1, <5>1, <5>5 DEF LooksAt, Got
      <4> QED BY <1>0, <4>2 DEF Shape
    <3>3. FillHash(m, info[p][Len(info[p])]) /\ UNCHANGED row BY <2>4 DEF MeetingFill
    <3> HIDE DEF m
    <3> QED BY <1>17, <2>4, <3>1, <3>2, <3>3 DEF MeetingFill
  <2> QED BY <1>8, <2>1, <2>2, <2>3, <2>4 DEF GetMeeting
<1>9. ASSUME NEW p \in Procs, AddMeeting(p) PROVE HashInv'
  <2>1. CASE AddInsert(p)
    <3>1. PICK m \in Ids \ used : row' = [row EXCEPT ![m] = NewMeeting(p)] /\ req' = [req EXCEPT ![p].meeting = m]
      BY <2>1 DEF AddInsert
    <3>2. /\ \A q \in Procs \ {p} : pc'[q] = pc[q] /\ req'[q] = req[q] /\ info'[q] = info[q] /\ step'[q] = step[q]
          /\ pc'[p] = "seed" /\ pc[p] = "do" /\ UNCHANGED <<cMeeting, stale>>
      BY <1>0, <2>1, <3>1 DEF AddInsert, Goto, Shape
    <3>3. \A n, f : ~Writes(p, n, f) BY <3>2 DEF Writes
    <3>4. m \in Meetings => cMeeting[m] = None BY <1>0, <3>1 DEF Stored
    <3>5. \A n \in Meetings \ {m} : row'[n] = row[n] BY <1>0, <3>1 DEF Stored
    <3> QED BY <1>0, <3>1, <3>2, <3>3, <3>4, <3>5, QuietHash
  <2>2. CASE AddExhausted(p) BY <1>4, <2>2 DEF AddExhausted
  <2>3. CASE AddSeed(p)
    <3> DEFINE m == req[p].meeting
    <3>1. m \in Meetings BY <1>0 DEF Shape, RequestType
    <3>2. Whole(m) \subseteq stale' \/ cMeeting'[m] = row[m] BY <1>0, <2>3, <3>1 DEF AddSeed, Stored
    <3>3. \A n \in Meetings \ {m} : cMeeting'[n] = cMeeting[n] BY <1>0, <2>3 DEF AddSeed, Stored
    <3> HIDE DEF m
    <3> QED BY <1>5, <2>3, <3>1, <3>2, <3>3 DEF AddSeed
  <2>4. CASE AddLink(p) BY <1>3, <2>4 DEF AddLink
  <2>5. CASE AddCommit(p) BY <1>3, <2>5 DEF AddCommit
  <2> QED BY <1>9, <2>1, <2>2, <2>3, <2>4, <2>5 DEF AddMeeting
<1>10. ASSUME NEW p \in Procs, EndMeeting(p) PROVE HashInv'
  <2>0. req[p].meeting \in Meetings /\ LooksAt(p, pc[p]) BY <1>0 DEF Shape, RequestType, Lookups
  <2>1. CASE EndClosed(p) BY <1>4, <2>1 DEF EndClosed, At
  <2>2. CASE EndRow(p)
    <3>1. Targets(p) = <<req[p].meeting>> BY <2>2 DEF EndRow, At, Targets
    <3>2. {req[p].meeting} = {Targets(p)[i] : i \in DOMAIN Targets(p)} BY <3>1
    <3>3. \A m \in Meetings : row'[m] = IF m \in {req[p].meeting} THEN Written(row[m], p) ELSE row[m]
      BY <1>0, <2>2 DEF EndRow, Shape
    <3> QED BY <1>0, <2>2, <3>2, <3>3, RowHash DEF EndRow, At
  <2>3. CASE EndCache(p)
    <3>1. Targets(p) = <<req[p].meeting>> /\ step[p] = 1 BY <2>0, <2>3 DEF EndCache, At, Targets, LooksAt
    <3>2. step[p] = Len(Targets(p)) /\ step[p] \in 1..Len(Targets(p)) /\ req[p].meeting = Targets(p)[step[p]]
      BY <3>1
    <3> DEFINE m == req[p].meeting
    <3>3. /\ pc[p] \in {"endCache", "put"} /\ cMeeting' = [cMeeting EXCEPT ![m] = Written(@, p)]
          /\ UNCHANGED <<row, stale, req, info, step>> /\ Goto(p, "count")
      BY <2>3 DEF EndCache, At
    <3>4. /\ pc'[p] \notin {"endCache", "put"}
          /\ \A q \in Procs \ {p} : pc'[q] = pc[q] /\ req'[q] = req[q] /\ info'[q] = info[q] /\ step'[q] = step[q]
      BY <1>0, <3>3 DEF Goto, Shape
    <3>5. m \in Meetings BY <2>0
    <3> HIDE DEF m
    <3> QED BY <1>0, <3>2, <3>3, <3>4, <3>5, PutHash DEF m
  <2>4. CASE CountRow(p) BY <1>3, <2>4 DEF CountRow, At
  <2>5. CASE CountCache(p) BY <1>3, <2>5 DEF CountCache, At
  <2> QED BY <1>10, <2>1, <2>2, <2>3, <2>4, <2>5 DEF EndMeeting
<1>11. ASSUME NEW p \in Procs, DeleteMeeting(p) \/ DeleteMeetingPermanently(p) PROVE HashInv'
  <2>0. req[p].meeting \in Meetings BY <1>0 DEF Shape, RequestType
  <2>1. CASE TrashRow(p) BY <1>3, <2>1 DEF TrashRow, At
  <2>2. CASE TrashCommit(p) BY <1>3, <2>2 DEF TrashCommit, At
  <2>3. CASE Recache(p) BY <1>3, <2>3 DEF Recache
  <2>4. CASE DestroyRow(p) BY <1>3, <2>4 DEF DestroyRow, At
  <2>5. CASE DestroyCommit(p) BY <1>3, <2>5 DEF DestroyCommit, At
  <2>6. CASE WipeRow(p)
    <3> DEFINE m == req[p].meeting
    <3>1. cMeeting'[m] = None /\ \A n \in Meetings \ {m} : cMeeting'[n] = cMeeting[n]
      BY <1>0, <2>0, <2>6 DEF WipeRow, Stored
    <3> QED BY <1>5, <2>0, <2>6, <3>1 DEF WipeRow
  <2>7. CASE WipeCommit(p)
    <3> DEFINE m == req[p].meeting
    <3>1. row'[m] = None /\ \A n \in Meetings \ {m} : row'[n] = row[n] BY <1>0, <2>0, <2>7 DEF WipeCommit, Shape
    <3>2. Whole(m) \subseteq stale' \/ cMeeting'[m] = None BY <2>7 DEF WipeCommit
    <3> QED BY <1>5, <2>0, <2>7, <3>1, <3>2 DEF WipeCommit
  <2> QED BY <1>11, <2>1, <2>2, <2>3, <2>4, <2>5, <2>6, <2>7 DEF DeleteMeeting, DeleteMeetingPermanently
<1>12. ASSUME NEW p \in Procs, UpdateMeetingTime(p) \/ CopyUntimed(p) PROVE HashInv'
  <2>1. pc[p] \notin {"endCache", "put"} /\ row' = row BY <1>12, TimesGo DEF Timing
  <2>2. CASE TimeFill(p)
    <3>1. /\ Goto(p, "times") /\ FillHash(missed[p][1], missed[p][2]) /\ UNCHANGED <<req, info, step>>
          /\ missed[p][1] \in used /\ missed[p][2] \in MeetingInfo
      BY <2>2 DEF TimeFill, Readings, ReadsAt
    <3>2. missed[p][1] \in Meetings BY <1>0, <3>1 DEF Shape
    <3> QED BY <1>17, <2>1, <3>1, <3>2
  <2>3. CASE ~TimeFill(p)
    <3>1. UNCHANGED <<cMeeting, stale>>
      BY <1>12, <2>3 DEF UpdateMeetingTime, TimeHit, TimeMiss, TimeGone, Reschedule, CopyUntimed
    <3>2. PICK l : Return(p) \/ (Goto(p, l) /\ UNCHANGED <<req, info, step>> /\ l \in {"times", "timesFill", "write"})
      BY <1>12, TimesGo
    <3>3. CASE Return(p) BY <1>4, <2>1, <3>1, <3>3
    <3>4. CASE ~Return(p) BY <1>3, <2>1, <3>1, <3>2, <3>4
    <3> QED BY <3>3, <3>4
  <2> QED BY <2>2, <2>3
<1>13. ASSUME NEW p \in Procs, WriteRow(p) PROVE HashInv'
  <2>1. \A m \in Meetings :
          row'[m] = IF m \in {Targets(p)[i] : i \in DOMAIN Targets(p)} THEN Written(row[m], p) ELSE row[m]
    BY <1>13 DEF WriteRow
  <2> QED BY <1>0, <1>13, <2>1, RowHash DEF WriteRow
<1>14. ASSUME NEW p \in Procs, PutField(p) PROVE HashInv'
  <2>0. pc[p] = "put" /\ LooksAt(p, pc[p]) BY <1>14 DEF PutField, Lookups
  <2>1. /\ step[p] \in 1..Len(Targets(p)) /\ Targets(p) \in Seq(Meetings) /\ Len(Targets(p)) \in Nat
    BY <1>0, <2>0, TargetsAreUsed DEF LooksAt
  <2>2. Targets(p)[step[p]] \in Meetings BY <2>1
  <2>3. cMeeting' = [cMeeting EXCEPT ![Targets(p)[step[p]]] = Written(@, p)] /\ UNCHANGED <<row, stale>>
    BY <1>14 DEF PutField
  <2>4. CASE step[p] < Len(Targets(p))
    <3>1. step' = [step EXCEPT ![p] = @ + 1] /\ UNCHANGED <<pc, req, info>> BY <1>14, <2>4 DEF PutField
    <3>2. step'[p] = step[p] + 1 /\ \A q \in Procs \ {p} : step'[q] = step[q] BY <3>1 DEF Lookups
    <3> QED BY <1>0, <2>0, <2>1, <2>2, <2>3, <3>1, <3>2, PutHash
  <2>5. CASE ~(step[p] < Len(Targets(p)))
    <3>1. Return(p) \/ (Goto(p, "time") /\ UNCHANGED <<req, info, step>>) BY <1>14, <2>5 DEF PutField
    <3>2. step[p] = Len(Targets(p)) BY <2>1, <2>5
    <3>3. pc'[p] \in {"idle", "time"} BY <1>2, <3>1
    <3> QED BY <1>0, <1>2, <2>0, <2>1, <2>2, <2>3, <3>1, <3>2, <3>3, PutHash
  <2> QED BY <2>4, <2>5
<1>15. ASSUME NEW p \in Procs, Rollback(p) PROVE HashInv' BY <1>4, <1>15 DEF Rollback
<1>16. ASSUME NEW p \in Procs, Abandon(p) PROVE HashInv'
  <2>1. \A m \in Meetings, f \in Fields : Writes(p, m, f) => <<m, f>> \in stale'
    <3> SUFFICES ASSUME NEW m \in Meetings, NEW f \in Fields, Writes(p, m, f) PROVE <<m, f>> \in stale'
      OBVIOUS
    <3>1. <<m, f>> \in Meetings \X Fields /\ <<m, f>>[1] = m /\ <<m, f>>[2] = f OBVIOUS
    <3> QED BY <1>16, <3>1 DEF Abandon
  <2>2. Return(p) /\ UNCHANGED <<row, cMeeting>> /\ stale \subseteq stale' BY <1>16 DEF Abandon
  <2>3. pc'[p] = "idle" BY <1>2, <2>2
  <2> QED BY <1>0, <1>2, <2>1, <2>2, <2>3, QuietHash
<1> QED BY <1>1, <1>6, <1>7, <1>8, <1>9, <1>10, <1>11, <1>12, <1>13, <1>14, <1>15, <1>16 DEF Next

\* Readings of a step of p that leaves the starts of rows alone.
LEMMA QuietReadings ==
  ASSUME ReachInv, Readings, NEW p \in Procs, used \subseteq used', DOMAIN read' = Procs, DOMAIN missed' = Procs,
         \A q \in Procs \ {p} : /\ pc'[q] = pc[q] /\ seen'[q] = seen[q] /\ read'[q] = read[q]
                               /\ missed'[q] = missed[q] /\ (q \in overtaken => q \in overtaken'),
         \A m \in used : row'[m] # None => row[m] # None /\ row'[m]["start"] = row[m]["start"],
         ReadsAt(p)', \/ DOMAIN read'[p] = {}
                      \/ read'[p] = read[p] /\ (p \in overtaken => p \in overtaken')
  PROVE  Readings'
<1>1. \A q \in Procs : DOMAIN read[q] \subseteq used
  <2> SUFFICES ASSUME NEW q \in Procs, NEW m \in DOMAIN read[q] PROVE m \in used OBVIOUS
  <2>1. m \in seen[q].listed /\ seen[q].listed \subseteq Meetings
    BY DEF Readings, ReadsAt, ReachInv, ListInv, Shape, Class
  <2> QED BY <2>1 DEF ReachInv, ListInv, Fresh, Known
<1>2. \A q \in Procs \ {p} : ReadsAt(q)' BY DEF Readings, ReadsAt
<1>3. ASSUME NEW q \in Procs \ overtaken', NEW m \in DOMAIN read'[q], row'[m] # None
      PROVE  read'[q][m] = row'[m]["start"]
  <2>1. q \notin overtaken /\ read'[q] = read[q] BY <1>3
  <2>2. m \in used BY <1>1, <1>3, <2>1
  <2>3. row[m] # None /\ row'[m]["start"] = row[m]["start"] BY <1>3, <2>2
  <2> QED BY <1>3, <2>1, <2>3 DEF Readings
<1> QED BY <1>2, <1>3 DEF Readings

LEMMA ReadingsInit == Init => Readings
<1> SUFFICES ASSUME Init PROVE Readings OBVIOUS
<1>1. NoStarts \in [{} -> Times] /\ DOMAIN NoStarts = {} BY DEF NoStarts
<1> QED BY <1>1 DEF Init, Readings, ReadsAt

LEMMA ReadingsStep == ReachInv /\ Lookups /\ HashInv /\ Readings /\ [Next]_vars => Readings'
<1> SUFFICES ASSUME ReachInv, Lookups, HashInv, Readings, [Next]_vars PROVE Readings' OBVIOUS
<1> USE DEF db, cache, local, reading, history
<1>0. Stored /\ ListInv /\ Shape /\ Fresh /\ DOMAIN read = Procs /\ DOMAIN missed = Procs /\ used \subseteq Meetings
  BY DEF ReachInv, ListInv, Lookups, Shape, Readings
<1>1. CASE UNCHANGED vars
  BY <1>1 DEF vars, Readings, ReadsAt
\* p returns, or goes on to or from where it reads nothing.
<1>2. ASSUME NEW p \in Procs, Return(p), used \subseteq used', overtaken \ {p} \subseteq overtaken',
             \A m \in used : row'[m] # None => row[m] # None /\ row'[m]["start"] = row[m]["start"]
      PROVE  Readings'
  <2>1. NoStarts \in [{} -> Times] /\ DOMAIN NoStarts = {} BY DEF NoStarts
  <2>2. /\ \A q \in Procs \ {p} : pc'[q] = pc[q] /\ seen'[q] = seen[q] /\ read'[q] = read[q] /\ missed'[q] = missed[q]
        /\ DOMAIN read' = Procs /\ DOMAIN missed' = Procs /\ read'[p] = NoStarts /\ pc'[p] = "idle"
    BY <1>0, <1>2 DEF Return, Forget, Goto, Shape
  <2>3. ReadsAt(p)' BY <2>1, <2>2 DEF ReadsAt
  <2> QED BY <1>2, <2>1, <2>2, <2>3, QuietReadings
<1>3. ASSUME NEW p \in Procs, NEW l, Goto(p, l), l # "timesFill", pc[p] \notin {"times", "timesFill"},
             UNCHANGED <<read, missed>>, overtaken \subseteq overtaken', used \subseteq used',
             \A q \in Procs \ {p} : seen'[q] = seen[q],
             \A m \in used : row'[m] # None => row[m] # None /\ row'[m]["start"] = row[m]["start"]
      PROVE  Readings'
  <2>1. pc'[p] = l /\ \A q \in Procs \ {p} : pc'[q] = pc[q] BY <1>0, <1>3 DEF Goto, Shape
  <2>2. ReadsAt(p)' BY <1>3, <2>1 DEF Readings, ReadsAt
  <2> QED BY <1>0, <1>3, <2>1, <2>2, QuietReadings
<1>4. ASSUME NEW p \in Procs, Call(p) PROVE Readings' BY <1>3, <1>4 DEF Call
<1>5. ASSUME NEW p \in Procs, GetClass(p) PROVE Readings'
  <2>1. CASE Refuse(p) BY <1>2, <2>1 DEF Refuse
  <2>2. CASE GetClassHit(p) \/ GetClassMiss(p)
    <3>1. \A q \in Procs \ {p} : seen'[q] = seen[q] BY <1>0, <2>2 DEF GetClassHit, GetClassMiss, Shape
    <3>2. PICK l : Goto(p, l) /\ l # "timesFill" BY <2>2 DEF GetClassHit, GetClassMiss
    <3> QED BY <1>3, <2>2, <3>1, <3>2 DEF GetClassHit, GetClassMiss
  <2>3. CASE GetClassFill(p) BY <1>3, <2>3 DEF GetClassFill
  <2> QED BY <1>5, <2>1, <2>2, <2>3 DEF GetClass
<1>6. ASSUME NEW p \in Procs, GetMeeting(p) PROVE Readings'
  <2>1. CASE NoMeeting(p) BY <1>2, <2>1 DEF NoMeeting
  <2>2. CASE FindMeeting(p) BY <1>3, <2>2 DEF FindMeeting, OfClass
  <2>3. ASSUME NEW n, AfterMeeting(p, n), pc[p] \in {"meet", "meetFill"},
               UNCHANGED <<row, used, seen, read, missed, overtaken>>
        PROVE  Readings'
    <3>1. PICK l : Goto(p, l) /\ l # "timesFill" BY <2>3 DEF AfterMeeting
    <3> QED BY <1>3, <2>3, <3>1
  <2>4. CASE MeetingHit(p) BY <2>3, <2>4 DEF MeetingHit
  <2>5. CASE MeetingMiss(p) BY <1>3, <2>5 DEF MeetingMiss
  <2>6. CASE MeetingFill(p) BY <2>3, <2>6 DEF MeetingFill
  <2> QED BY <1>6, <2>1, <2>2, <2>4, <2>5, <2>6 DEF GetMeeting
<1>7. ASSUME NEW p \in Procs, AddMeeting(p) PROVE Readings'
  <2>1. CASE AddInsert(p)
    <3>1. \A m \in used : row'[m] = row[m] BY <1>0, <2>1 DEF AddInsert, Shape
    <3> QED BY <1>3, <2>1, <3>1 DEF AddInsert
  <2>2. CASE AddExhausted(p) BY <1>2, <2>2 DEF AddExhausted
  <2>3. CASE AddSeed(p) BY <1>3, <2>3 DEF AddSeed
  <2>4. CASE AddLink(p) BY <1>3, <2>4 DEF AddLink
  <2>5. CASE AddCommit(p) BY <1>3, <2>5 DEF AddCommit
  <2> QED BY <1>7, <2>1, <2>2, <2>3, <2>4, <2>5 DEF AddMeeting
<1>8. ASSUME NEW p \in Procs, EndMeeting(p) PROVE Readings'
  <2>1. CASE EndClosed(p) BY <1>2, <2>1 DEF EndClosed
  <2>2. CASE EndRow(p)
    <3> DEFINE m == req[p].meeting
    <3>1. New(p) \in MeetingInfo /\ Sets(p) = {"ended"}
      BY <1>0, <2>2, NewIsInfo DEF EndRow, At, Lookups, Sets
    <3>2. \A n \in Meetings : row'[n] # None => row[n] # None /\ row'[n]["start"] = row[n]["start"]
      <4>1. \A n \in Meetings : row'[n] = IF n = m THEN Written(row[n], p) ELSE row[n]
        BY <1>0, <2>2 DEF EndRow, Shape
      <4> HIDE DEF m
      <4> QED BY <1>0, <3>1, <4>1, WrittenIsInfo DEF Stored, Fields
    <3>3. /\ Goto(p, "endCache") /\ pc[p] = "end" /\ UNCHANGED <<read, missed, overtaken, used, seen>>
      BY <2>2 DEF EndRow, At
    <3> QED BY <1>0, <1>3, <3>2, <3>3
  <2>3. CASE EndCache(p) BY <1>3, <2>3 DEF EndCache, At
  <2>4. CASE CountRow(p) BY <1>3, <2>4 DEF CountRow, At
  <2>5. CASE CountCache(p) BY <1>3, <2>5 DEF CountCache, At
  <2> QED BY <1>8, <2>1, <2>2, <2>3, <2>4, <2>5 DEF EndMeeting
<1>9. ASSUME NEW p \in Procs, DeleteMeeting(p) \/ DeleteMeetingPermanently(p) PROVE Readings'
  <2>1. CASE TrashRow(p)
    <3>1. PICK l \in {"recache", "commit"} : Goto(p, l) BY <2>1 DEF TrashRow
    <3> QED BY <1>3, <2>1, <3>1 DEF TrashRow, At
  <2>2. CASE TrashCommit(p) BY <1>3, <2>2 DEF TrashCommit, At
  <2>3. CASE Recache(p)
    <3>1. PICK l \in {"time", "meet"} : Goto(p, l) BY <2>3 DEF Recache
    <3> QED BY <1>3, <2>3, <3>1 DEF Recache
  <2>4. CASE DestroyRow(p)
    <3>1. PICK l \in {"recache", "commit"} : Goto(p, l) BY <2>4 DEF DestroyRow
    <3> QED BY <1>3, <2>4, <3>1 DEF DestroyRow, At
  <2>5. CASE DestroyCommit(p) BY <1>3, <2>5 DEF DestroyCommit, At
  <2>6. CASE WipeRow(p) BY <1>3, <2>6 DEF WipeRow
  <2>7. CASE WipeCommit(p)
    <3>1. \A n \in Meetings : row'[n] # None => row'[n] = row[n] BY <1>0, <2>7 DEF WipeCommit, Shape
    <3> QED BY <1>0, <1>2, <2>7, <3>1 DEF WipeCommit
  <2> QED BY <1>9, <2>1, <2>2, <2>3, <2>4, <2>5, <2>6, <2>7 DEF DeleteMeeting, DeleteMeetingPermanently
<1>10. ASSUME NEW p \in Procs, UpdateMeetingTime(p) \/ CopyUntimed(p) PROVE Readings'
  <2>0. UNCHANGED <<row, used>> /\ pc[p] \in Timing BY <1>10, TimesGo
  \* Another start is read, which is that of the row or recorded.
  <2>1. ASSUME NEW l \in {"times", "timesFill"}, Goto(p, l), pc[p] = "times", UNCHANGED seen,
               NEW m \in seen[p].listed, NEW t \in Times, Noted(p, m, t),
               overtaken \subseteq overtaken', DOMAIN missed' = Procs,
               \A q \in Procs \ {p} : missed'[q] = missed[q],
               p \in overtaken' \/ (row[m] # None => t = row[m]["start"]),
               l = "timesFill" => missed'[p][1] \in used /\ missed'[p][2] \in MeetingInfo
        PROVE  Readings'
    <3> DEFINE now == [x \in DOMAIN read[p] \union {m} |-> IF x = m THEN t ELSE read[p][x]]
    <3>1. read'[p] = now /\ DOMAIN read' = Procs /\ \A q \in Procs \ {p} : read'[q] = read[q]
      BY <1>0, <2>1 DEF Noted
    <3>2. pc'[p] = l /\ \A q \in Procs \ {p} : pc'[q] = pc[q] BY <1>0, <2>1 DEF Goto, Shape
    <3>3. ReadsAt(p) BY DEF Readings
    <3>4. /\ DOMAIN now = DOMAIN read[p] \union {m} /\ now \in [DOMAIN now -> Times]
          /\ now[m] = t /\ \A x \in DOMAIN read[p] \ {m} : now[x] = read[p][x]
      BY <2>1, <3>3 DEF ReadsAt
    <3> HIDE DEF now
    <3>5. ReadsAt(p)' BY <2>0, <2>1, <3>1, <3>2, <3>3, <3>4 DEF ReadsAt
    <3>6. \A q \in Procs \ {p} : ReadsAt(q)' BY <2>0, <2>1, <3>1, <3>2 DEF Readings, ReadsAt
    <3>7. ASSUME NEW q \in Procs \ overtaken', NEW x \in DOMAIN read'[q], row[x] # None
          PROVE  read'[q][x] = row[x]["start"]
      <4>1. q \notin overtaken BY <2>1, <3>7
      <4>2. CASE q # p BY <3>1, <3>7, <4>1, <4>2 DEF Readings
      <4>3. CASE q = p /\ x = m BY <2>1, <3>1, <3>4, <3>7, <4>3
      <4>4. CASE q = p /\ x # m BY <3>1, <3>4, <3>7, <4>1, <4>4 DEF Readings
      <4> QED BY <4>2, <4>3, <4>4
    <3> QED BY <2>0, <2>1, <3>1, <3>5, <3>6, <3>7 DEF Readings
  <2>2. \A m \in seen[p].listed : m \in Meetings /\ m \in used
    <3>1. seen[p].listed \subseteq Meetings BY <1>0 DEF Shape, Class
    <3> QED BY <1>0, <3>1 DEF Fresh, Known
  <2>3. CASE TimeHit(p)
    <3>1. PICK m \in Unread(p) : /\ cMeeting[m] # None /\ Noted(p, m, cMeeting[m]["start"])
                                 /\ overtaken' = IF Doubtful(m) THEN overtaken \union {p} ELSE overtaken
      BY <2>3 DEF TimeHit
    <3>2. m \in seen[p].listed /\ m \in Meetings BY <2>2, <3>1 DEF Unread
    <3>3. cMeeting[m]["start"] \in Times BY <1>0, <3>1, <3>2, InfoFields DEF Stored
    <3>4. p \in overtaken' \/ (row[m] # None => cMeeting[m]["start"] = row[m]["start"])
      <4>1. CASE Doubtful(m) BY <3>1, <4>1
      <4>2. CASE ~Doubtful(m)
        <5>1. <<m, "start">> \notin stale /\ ~\E q \in Procs : Writes(q, m, "start")
          BY <3>1, <4>2 DEF Doubtful
        <5>2. "start" \in Fields BY DEF Fields
        <5> QED BY <3>1, <3>2, <5>1, <5>2 DEF HashInv, HashesFollow
      <4> QED BY <4>1, <4>2
    <3>5. /\ pc[p] = "times" /\ Goto(p, "times") /\ UNCHANGED <<seen, missed>> /\ overtaken \subseteq overtaken'
      BY <2>3, <3>1 DEF TimeHit
    <3> DEFINE t == cMeeting[m]["start"]
    <3>6. t \in Times /\ Noted(p, m, t) /\ (p \in overtaken' \/ (row[m] # None => t = row[m]["start"]))
      BY <3>1, <3>3, <3>4
    <3> HIDE DEF t
    <3> QED BY <1>0, <2>1, <3>2, <3>5, <3>6
  <2>4. CASE TimeMiss(p)
    <3>1. PICK m \in Unread(p) : /\ m \in rows /\ Noted(p, m, row[m]["start"])
                                 /\ missed' = [missed EXCEPT ![p] = <<m, Selected(m)>>]
      BY <2>4 DEF TimeMiss
    <3>2. m \in seen[p].listed /\ m \in Meetings /\ m \in used BY <2>2, <3>1 DEF Unread
    <3>3. row[m] \in MeetingInfo BY <1>0, <3>1, <3>2 DEF Stored, rows
    <3>4. row[m]["start"] \in Times /\ Selected(m) \in MeetingInfo BY <3>3, InfoFields, SelectedIsInfo
    <3>5. /\ DOMAIN missed' = Procs /\ missed'[p] = <<m, Selected(m)>>
          /\ \A q \in Procs \ {p} : missed'[q] = missed[q]
      BY <1>0, <3>1
    <3>6. pc[p] = "times" /\ Goto(p, "timesFill") /\ UNCHANGED <<seen, overtaken>> BY <2>4 DEF TimeMiss
    <3>7. missed'[p][1] \in used /\ missed'[p][2] \in MeetingInfo BY <3>2, <3>4, <3>5
    <3> DEFINE t == row[m]["start"]
    <3>8. t \in Times /\ Noted(p, m, t) /\ t = row[m]["start"] BY <3>1, <3>4
    <3> HIDE DEF t
    <3> QED BY <2>1, <3>2, <3>5, <3>6, <3>7, <3>8
  <2>5. CASE TimeFill(p)
    <3>1. /\ pc'[p] = "times" /\ \A q \in Procs \ {p} : pc'[q] = pc[q] /\ missed'[q] = missed[q]
          /\ DOMAIN missed' = Procs /\ UNCHANGED <<seen, read, overtaken>> /\ pc[p] = "timesFill"
      BY <1>0, <2>5 DEF TimeFill, Goto, Shape
    <3>2. ReadsAt(p)' BY <3>1 DEF Readings, ReadsAt
    <3> QED BY <1>0, <2>0, <3>1, <3>2, QuietReadings
  <2>6. CASE TimeGone(p) \/ Reschedule(p) \/ CopyUntimed(p)
    <3>1. AfterTimes(p) /\ overtaken \ {p} \subseteq overtaken' BY <2>6 DEF TimeGone, Reschedule, CopyUntimed
    <3>2. CASE Return(p) BY <1>2, <2>0, <3>1, <3>2
    <3>3. CASE Goto(p, "write") /\ Forget(p) /\ UNCHANGED seen
      <4>1. NoStarts \in [{} -> Times] /\ DOMAIN NoStarts = {} BY DEF NoStarts
      <4>2. /\ \A q \in Procs \ {p} : pc'[q] = pc[q] /\ read'[q] = read[q] /\ missed'[q] = missed[q]
            /\ DOMAIN read' = Procs /\ DOMAIN missed' = Procs /\ read'[p] = NoStarts /\ pc'[p] = "write"
        BY <1>0, <3>3 DEF Forget, Goto, Shape
      <4>3. ReadsAt(p)' BY <4>1, <4>2 DEF ReadsAt
      <4> QED BY <2>0, <3>1, <3>3, <4>1, <4>2, <4>3, QuietReadings
    <3> QED BY <3>1, <3>2, <3>3 DEF AfterTimes
  <2> QED BY <1>10, <2>3, <2>4, <2>5, <2>6 DEF UpdateMeetingTime
<1>11. ASSUME NEW p \in Procs, WriteRow(p) PROVE Readings'
  <2> DEFINE ms == {Targets(p)[i] : i \in DOMAIN Targets(p)}
             Differs(m) == "start" \in Sets(p) /\ m \in rows /\ row[m]["start"] # New(p)["start"]
  <2>0. pc[p] = "write" /\ New(p) \in MeetingInfo BY <1>0, <1>11, NewIsInfo DEF WriteRow, Lookups
  <2>1. \A m \in Meetings : row'[m] = IF m \in ms THEN Written(row[m], p) ELSE row[m] BY <1>11 DEF WriteRow
  <2>2. overtaken' = overtaken \union {q \in Procs : \E m \in ms \intersect DOMAIN read[q] : Differs(m)}
    BY <1>11 DEF WriteRow
  <2>3. UNCHANGED <<used, seen, read, missed>> /\ Goto(p, "put") BY <1>11 DEF WriteRow
  <2> HIDE DEF ms
  <2>4. \A m \in Meetings : row'[m] # None => row[m] # None /\ (row'[m]["start"] = row[m]["start"] \/ (m \in ms /\ Differs(m)))
    BY <1>0, <2>0, <2>1, WrittenIsInfo DEF Stored, Fields, rows
  <2> HIDE DEF Differs
  <2>5. pc'[p] = "put" /\ \A q \in Procs \ {p} : pc'[q] = pc[q] BY <1>0, <2>3 DEF Goto, Shape
  <2>6. \A q \in Procs : ReadsAt(q)' BY <2>0, <2>3, <2>5 DEF Readings, ReadsAt
  <2>7. ASSUME NEW q \in Procs \ overtaken', NEW m \in DOMAIN read[q], row'[m] # None
        PROVE  read[q][m] = row'[m]["start"]
    <3>1. q \notin overtaken /\ ~(m \in ms /\ Differs(m)) BY <2>2, <2>7
    <3>2. m \in Meetings BY <1>0 DEF Readings, ReadsAt, Shape, Class
    <3>3. row[m] # None /\ row'[m]["start"] = row[m]["start"] BY <2>4, <2>7, <3>1, <3>2
    <3> QED BY <3>1, <3>3 DEF Readings
  <2> QED BY <1>0, <2>3, <2>6, <2>7 DEF Readings
<1>12. ASSUME NEW p \in Procs, PutField(p) PROVE Readings'
  <2>0. pc[p] = "put" /\ UNCHANGED <<row, used, overtaken>> BY <1>12 DEF PutField
  <2>1. CASE Return(p) BY <1>2, <2>0, <2>1
  <2>2. CASE Goto(p, "time") /\ UNCHANGED local BY <1>3, <2>0, <2>2
  <2>3. CASE UNCHANGED <<pc, seen, reading>> BY <2>0, <2>3 DEF Readings, ReadsAt
  <2> QED BY <1>12, <2>1, <2>2, <2>3 DEF PutField
<1>13. ASSUME NEW p \in Procs, Rollback(p) PROVE Readings' BY <1>2, <1>13 DEF Rollback
<1>14. ASSUME NEW p \in Procs, Abandon(p) PROVE Readings' BY <1>2, <1>14 DEF Abandon
<1> QED BY <1>1, <1>4, <1>5, <1>6, <1>7, <1>8, <1>9, <1>10, <1>11, <1>12, <1>13, <1>14 DEF Next

FollowInv == ReachInv /\ ListsFollow /\ Lookups /\ HashInv /\ Readings

LEMMA FollowInit == Init => FollowInv
  BY ReachInit, ListsFollowInit, LookupsInit, HashInit, ReadingsInit DEF FollowInv

LEMMA FollowStep == FollowInv /\ [Next]_vars => FollowInv'
  BY ListStep, EmptiesStep, ReachStep, ListsFollowStep, LookupsStep, HashStep, ReadingsStep
  DEF FollowInv, ReachInv

\* Outside transactions the cached lists are those of the row, and each field of a
\* meeting's hash is that of its row, is about to be, or was recorded when it was
\* written out of order.
THEOREM HashesFollowRows == Spec => []CacheFollowsDatabase
<1>1. FollowInv => CacheFollowsDatabase
  BY DEF FollowInv, HashInv, HashesFollow, ListsFollow, CacheFollowsDatabase
<1> QED BY FollowInit, FollowStep, <1>1, PTL DEF Spec

-----------------------------------------------------------------------------
(***************************************************************************)
(* Why the schedule is that of the rows: whoever changes the list of the   *)
(* class, or the start of a meeting in it, goes on to write the schedule,  *)
(* and what it has read by then is what the rows have, or is recorded as   *)
(* overtaken (Readings).                                                   *)
(***************************************************************************)

Pending(p) == pc[p] \in Timing \/ (pc[p] = "put" /\ Changes(p))

Scheduled ==
  \/ schedule = None /\ class.listed = {}
  \/ /\ schedule # None /\ DOMAIN schedule = class.listed
     /\ \A m \in class.listed \intersect rows : schedule[m] = row[m]["start"]

LEMMA StayScheduled ==
  ASSUME ListInv, ScheduleIsCurrent, NEW p \in Procs, class'.listed = class.listed,
         UNCHANGED schedule, skipped => skipped',
         \A m \in class.listed : row'[m] # None => row[m] # None /\ row'[m]["start"] = row[m]["start"],
         \A q \in Procs \ {p} : pc'[q] = pc[q] /\ req'[q] = req[q] /\ info'[q] = info[q],
         Pending(p) => Pending(p)' \/ skipped'
  PROVE  ScheduleIsCurrent'
<1>1. skipped \/ Scheduled \/ \E q \in Procs : Pending(q)
  BY DEF ScheduleIsCurrent, Scheduled, Pending
<1>2. Scheduled => Scheduled'
  BY DEF Scheduled, rows, ListInv, Shape, Class
<1>3. \A q \in Procs \ {p} : Pending(q)' <=> Pending(q) BY DEF Pending, Changes
<1>4. skipped' \/ Scheduled' \/ \E q \in Procs : Pending(q)' BY <1>1, <1>2, <1>3
<1> QED BY <1>4 DEF ScheduleIsCurrent, Scheduled, Pending

LEMMA ScheduleInit == Init => ScheduleIsCurrent
  BY DEF Init, ScheduleIsCurrent, Empty

LEMMA ScheduleStep == FollowInv /\ ScheduleIsCurrent /\ [Next]_vars => ScheduleIsCurrent'
<1> SUFFICES ASSUME FollowInv, ScheduleIsCurrent, [Next]_vars PROVE ScheduleIsCurrent' OBVIOUS
<1> USE DEF db, cache, local, history, Timing
<1>0. /\ ListInv /\ Shape /\ Exact /\ Fresh /\ Stored /\ Lookups /\ HashInv /\ Readings
      /\ class.listed \subseteq Meetings
  BY DEF FollowInv, ReachInv, ListInv, Lookups, Shape, Class
<1>1. CASE UNCHANGED vars
  BY <1>1 DEF vars, ScheduleIsCurrent, Changes, rows
\* p returns or goes on, with no row, list or schedule changed.
<1>2. ASSUME NEW p \in Procs, NEW l, Return(p) \/ (Goto(p, l) /\ UNCHANGED <<req, info>>),
             UNCHANGED <<row, schedule>>, class'.listed = class.listed, skipped => skipped',
             Pending(p) => (Goto(p, l) /\ l \in Timing) \/ skipped'
      PROVE  ScheduleIsCurrent'
  <2>1. \A q \in Procs \ {p} : pc'[q] = pc[q] /\ req'[q] = req[q] /\ info'[q] = info[q]
    BY <1>0, <1>2 DEF Return, Goto, Shape, Lookups
  <2>2. Goto(p, l) => pc'[p] = l BY <1>0 DEF Goto, Shape
  <2>3. Pending(p) => Pending(p)' \/ skipped' BY <1>2, <2>2 DEF Pending
  <2> QED BY <1>0, <1>2, <2>1, <2>3, StayScheduled
<1>3. ASSUME NEW p \in Procs, Call(p) PROVE ScheduleIsCurrent'
  <2>1. /\ \A q \in Procs \ {p} : pc'[q] = pc[q] /\ req'[q] = req[q] /\ info'[q] = info[q]
        /\ UNCHANGED <<row, class, schedule, skipped>> /\ ~Pending(p)
    BY <1>0, <1>3 DEF Call, Goto, Shape, Pending
  <2> QED BY <1>0, <2>1, StayScheduled
<1>4. ASSUME NEW p \in Procs, GetClass(p) PROVE ScheduleIsCurrent'
  <2>1. CASE GetClassHit(p) BY <1>2, <2>1 DEF GetClassHit, Pending
  <2>2. CASE GetClassMiss(p) BY <1>2, <2>2 DEF GetClassMiss, Pending
  <2>3. CASE GetClassFill(p) BY <1>2, <2>3 DEF GetClassFill, Pending
  <2>4. CASE Refuse(p)
    <3>1. ~Pending(p) BY <2>4 DEF Refuse, At, Pending
    <3> QED BY <1>2, <2>4, <3>1 DEF Refuse
  <2> QED BY <1>4, <2>1, <2>2, <2>3, <2>4 DEF GetClass
<1>5. ASSUME NEW p \in Procs, GetMeeting(p) PROVE ScheduleIsCurrent'
  <2>0. ~Pending(p) /\ UNCHANGED <<row, class, schedule, skipped>>
    BY <1>5 DEF GetMeeting, NoMeeting, FindMeeting, MeetingHit, MeetingMiss, MeetingFill, OfClass, Pending
  <2>1. \A q \in Procs \ {p} : pc'[q] = pc[q] /\ req'[q] = req[q] /\ info'[q] = info[q]
    <3>1. CASE NoMeeting(p) BY <1>0, <3>1 DEF NoMeeting, Return, Goto, Shape, Lookups
    <3>2. CASE FindMeeting(p) BY <1>0, <3>2 DEF FindMeeting, Goto, Shape
    <3>3. CASE MeetingHit(p) BY <1>0, <3>3 DEF MeetingHit, AfterMeeting, Goto, Shape
    <3>4. CASE MeetingMiss(p) BY <1>0, <3>4 DEF MeetingMiss, Goto, Shape
    <3>5. CASE MeetingFill(p) BY <1>0, <3>5 DEF MeetingFill, AfterMeeting, Goto, Shape
    <3> QED BY <1>5, <3>1, <3>2, <3>3, <3>4, <3>5 DEF GetMeeting
  <2> QED BY <1>0, <2>0, <2>1, StayScheduled
<1>6. ASSUME NEW p \in Procs, AddMeeting(p) PROVE ScheduleIsCurrent'
  <2>1. CASE AddInsert(p)
    <3>1. PICK m \in Ids \ used : row' = [row EXCEPT ![m] = NewMeeting(p)] /\ req' = [req EXCEPT ![p].meeting = m]
      BY <2>1 DEF AddInsert
    <3>2. \A q \in Procs \ {p} : pc'[q] = pc[q] /\ req'[q] = req[q] /\ info'[q] = info[q]
      BY <1>0, <2>1, <3>1 DEF AddInsert, Goto, Shape
    <3>3. \A n \in class.listed : n \in used BY <1>0 DEF Fresh, Known
    <3>4. \A n \in class.listed : row'[n] = row[n] BY <1>0, <3>1, <3>3 DEF Shape
    <3>5. ~Pending(p) BY <2>1 DEF AddInsert, Pending
    <3> QED BY <1>0, <2>1, <3>2, <3>4, <3>5, StayScheduled DEF AddInsert
  <2>2. CASE AddExhausted(p) BY <1>2, <2>2 DEF AddExhausted, Pending
  <2>3. CASE AddSeed(p) BY <1>2, <2>3 DEF AddSeed, Pending
  <2>4. CASE AddLink(p) BY <1>2, <2>4 DEF AddLink, Pending
  <2>5. CASE AddCommit(p)
    <3>1. pc'[p] = "time" BY <1>0, <2>5 DEF AddCommit, Goto, Shape
    <3> QED BY <3>1 DEF ScheduleIsCurrent
  <2> QED BY <1>6, <2>1, <2>2, <2>3, <2>4, <2>5 DEF AddMeeting
<1>7. ASSUME NEW p \in Procs, EndMeeting(p) PROVE ScheduleIsCurrent'
  <2>1. CASE EndClosed(p) BY <1>2, <2>1 DEF EndClosed, At, Pending
  <2>2. CASE EndRow(p)
    <3> DEFINE m == req[p].meeting
    <3>1. /\ \A q \in Procs \ {p} : pc'[q] = pc[q] /\ req'[q] = req[q] /\ info'[q] = info[q]
          /\ UNCHANGED <<class, schedule, skipped>> /\ ~Pending(p)
      BY <1>0, <2>2 DEF EndRow, At, Goto, Shape, Pending
    <3>2. New(p) \in MeetingInfo /\ Sets(p) = {"ended"}
      BY <1>0, <2>2, NewIsInfo DEF EndRow, At, Lookups, Sets
    <3>3. \A n \in Meetings : row'[n] # None => row[n] # None /\ row'[n]["start"] = row[n]["start"]
      <4>1. \A n \in Meetings : row'[n] = IF n = m THEN Written(row[n], p) ELSE row[n]
        BY <1>0, <2>2 DEF EndRow, Shape
      <4> HIDE DEF m
      <4> QED BY <1>0, <3>2, <4>1, WrittenIsInfo DEF Stored, Fields
    <3> QED BY <1>0, <3>1, <3>3, StayScheduled
  <2>3. CASE EndCache(p) BY <1>2, <2>3 DEF EndCache, At, Pending
  <2>4. CASE CountRow(p)
    <3>1. class'.listed = class.listed BY <1>0, <2>4 DEF CountRow, Shape, Class
    <3> QED BY <1>2, <2>4, <3>1 DEF CountRow, At, Pending
  <2>5. CASE CountCache(p) BY <1>2, <2>5 DEF CountCache, At, Pending
  <2> QED BY <1>7, <2>1, <2>2, <2>3, <2>4, <2>5 DEF EndMeeting
<1>8. ASSUME NEW p \in Procs, DeleteMeeting(p) \/ DeleteMeetingPermanently(p) PROVE ScheduleIsCurrent'
  <2>1. CASE TrashRow(p)
    <3>1. PICK l : Goto(p, l) BY <2>1 DEF TrashRow
    <3> QED BY <1>2, <2>1, <3>1 DEF TrashRow, At, Pending
  <2>2. CASE TrashCommit(p)
    <3>1. pc'[p] = "time" BY <1>0, <2>2 DEF TrashCommit, Goto, Shape
    <3> QED BY <3>1 DEF ScheduleIsCurrent
  <2>3. CASE Recache(p)
    <3>1. PICK l : Goto(p, l) BY <2>3 DEF Recache
    <3> QED BY <1>2, <2>3, <3>1 DEF Recache, Pending
  <2>4. CASE DestroyRow(p)
    <3>1. PICK l : Goto(p, l) BY <2>4 DEF DestroyRow
    <3> QED BY <1>2, <2>4, <3>1 DEF DestroyRow, At, Pending
  <2>5. CASE DestroyCommit(p)
    <3>1. class'.listed = class.listed BY <1>0, <2>5 DEF DestroyCommit, Shape, Class
    <3> QED BY <1>2, <2>5, <3>1 DEF DestroyCommit, At, Pending
  <2>6. CASE WipeRow(p) BY <1>2, <2>6 DEF WipeRow, Pending
  <2>7. CASE WipeCommit(p)
    <3>1. \A q \in Procs \ {p} : pc'[q] = pc[q] /\ req'[q] = req[q] /\ info'[q] = info[q]
      BY <1>0, <2>7 DEF WipeCommit, Return, Goto, Shape, Lookups
    <3>2. \A n \in Meetings : row'[n] # None => row'[n] = row[n] BY <1>0, <2>7 DEF WipeCommit, Shape
    <3> QED BY <1>0, <2>7, <3>1, <3>2, StayScheduled DEF WipeCommit, Pending
  <2> QED BY <1>8, <2>1, <2>2, <2>3, <2>4, <2>5, <2>6, <2>7 DEF DeleteMeeting, DeleteMeetingPermanently
<1>9. ASSUME NEW p \in Procs, UpdateMeetingTime(p) \/ CopyUntimed(p) PROVE ScheduleIsCurrent'
  <2>1. CASE TimeHit(p) BY <1>2, <2>1 DEF TimeHit
  <2>2. CASE TimeMiss(p) BY <1>2, <2>2 DEF TimeMiss
  <2>3. CASE TimeFill(p) BY <1>2, <2>3 DEF TimeFill
  <2>4. CASE TimeGone(p) \/ CopyUntimed(p) BY <2>4 DEF TimeGone, CopyUntimed, ScheduleIsCurrent
  <2>5. CASE Reschedule(p)
    <3> SUFFICES ASSUME ~skipped' PROVE Scheduled' BY DEF ScheduleIsCurrent, Scheduled
    <3>1. /\ seen[p].listed \subseteq DOMAIN read[p] /\ schedule' = read[p]
          /\ seen[p].listed = class.listed /\ p \notin overtaken /\ UNCHANGED <<class, row>>
      BY <2>5 DEF Reschedule, Unread
    <3>2. ReadsAt(p) /\ \A m \in DOMAIN read[p] : row[m] # None => read[p][m] = row[m]["start"]
      BY <1>0, <3>1 DEF Readings
    <3>3. DOMAIN read[p] = class.listed /\ read[p] \in [class.listed -> Times] BY <3>1, <3>2 DEF ReadsAt
    <3>4. schedule' # None BY <1>0, <3>1, <3>3, NoneIsNoHash
    <3> QED BY <3>1, <3>2, <3>3, <3>4 DEF Scheduled, rows
  <2> QED BY <1>9, <2>1, <2>2, <2>3, <2>4, <2>5 DEF UpdateMeetingTime
<1>10. ASSUME NEW p \in Procs, WriteRow(p) PROVE ScheduleIsCurrent'
  <2> DEFINE ms == {Targets(p)[i] : i \in DOMAIN Targets(p)}
  <2>0. pc[p] = "write" /\ LooksAt(p, pc[p])
    <3>1. LooksAt(p, pc[p]) BY <1>0 DEF Lookups
    <3> QED BY <1>10, <3>1 DEF WriteRow
  <2>1. /\ \A q \in Procs \ {p} : pc'[q] = pc[q] /\ req'[q] = req[q] /\ info'[q] = info[q]
        /\ pc'[p] = "put" /\ req' = req /\ info' = info /\ UNCHANGED <<class, schedule>>
        /\ skipped => skipped'
    BY <1>0, <1>10 DEF WriteRow, Goto, Shape
  <2>2. CASE Changes(p) BY <2>1, <2>2 DEF ScheduleIsCurrent, Changes
  <2>3. CASE ~Changes(p) /\ ~skipped'
    <3>1. New(p) \in MeetingInfo BY <1>0, <2>0, NewIsInfo
    <3>2. \A m \in Meetings : row'[m] = IF m \in ms THEN Written(row[m], p) ELSE row[m] BY <1>10 DEF WriteRow
    <3>3. \A m \in ms \intersect class.listed : ~("start" \in Sets(p) /\ m \in rows /\ row[m]["start"] # New(p)["start"])
      BY <1>10, <2>3 DEF WriteRow
    <3> HIDE DEF ms
    <3>4. \A m \in Meetings : /\ row'[m] # None => row[m] # None
                              /\ row[m] # None => row'[m]["start"] =
                                   IF m \in ms /\ "start" \in Sets(p) THEN New(p)["start"] ELSE row[m]["start"]
      BY <1>0, <3>1, <3>2, WrittenIsInfo DEF Stored, Fields
    <3>5. \A m \in class.listed : row'[m] # None => row[m] # None /\ row'[m]["start"] = row[m]["start"]
      BY <1>0, <3>3, <3>4 DEF rows
    <3> QED BY <1>0, <2>0, <2>1, <3>5, StayScheduled DEF Pending
  <2>4. CASE skipped' BY <2>4 DEF ScheduleIsCurrent
  <2> QED BY <2>2, <2>3, <2>4
<1>11. ASSUME NEW p \in Procs, PutField(p) PROVE ScheduleIsCurrent'
  <2>0. pc[p] = "put" /\ UNCHANGED <<row, class, schedule, skipped>> BY <1>11 DEF PutField
  <2>1. CASE step[p] < Len(Targets(p))
    <3>1. UNCHANGED <<pc, req, info>> BY <1>11, <2>1 DEF PutField
    <3> QED BY <1>0, <2>0, <3>1, StayScheduled DEF Pending, Changes
  <2>2. CASE ~(step[p] < Len(Targets(p))) /\ Changes(p) BY <1>2, <1>11, <2>0, <2>2 DEF PutField
  <2>3. CASE ~(step[p] < Len(Targets(p))) /\ ~Changes(p)
    <3>1. ~Pending(p) BY <2>0, <2>3 DEF Pending
    <3> QED BY <1>2, <1>11, <2>0, <2>3, <3>1 DEF PutField
  <2> QED BY <2>1, <2>2, <2>3
<1>12. ASSUME NEW p \in Procs, Rollback(p) PROVE ScheduleIsCurrent' BY <1>2, <1>12 DEF Rollback, Pending
<1>13. ASSUME NEW p \in Procs, Abandon(p) PROVE ScheduleIsCurrent' BY <1>2, <1>13 DEF Abandon, Pending
<1> QED BY <1>1, <1>3, <1>4, <1>5, <1>6, <1>7, <1>8, <1>9, <1>10, <1>11, <1>12, <1>13 DEF Next

\* The schedule has the class's meetings and the starts of their rows, or a handler is
\* about to write it, unless the last one was overtaken, stopped or read a stale time.
THEOREM SchedulesAreCurrent == Spec => []ScheduleIsCurrent
<1>1. FollowInv /\ ScheduleIsCurrent /\ [Next]_vars => (FollowInv /\ ScheduleIsCurrent)'
  BY FollowStep, ScheduleStep
<1> QED BY FollowInit, ScheduleInit, <1>1, PTL DEF Spec

-----------------------------------------------------------------------------
(***************************************************************************)
(* Why the counter is the number of meetings that have ended: a meeting    *)
(* ends in its row and is counted in the class by one handler, a meeting   *)
(* that ended is uncounted by the commit that takes it out of the list,    *)
(* and one that comes into the list has not ended.                         *)
(***************************************************************************)

\* A transaction that adds a meeting adds one that is not in the list.
NewAreUnlisted ==
  \A p \in Procs : Committing(p) /\ req[p].op \in Adds => req[p].meeting \notin class.listed

NewUp(p) == req[p].op \in Adds /\ pc[p] \in {"seed", "move", "commit"}

\* A meeting that is being added has not ended, unless that went uncounted.
NewAreOpen == miscount = {} => \A p \in Procs : NewUp(p) => req[p].meeting \notin ended

Counting == {p \in Procs : pc[p] \in {"endCache", "count"}}
Counted  == class.listed \intersect ended

CountInv == NewAreUnlisted /\ NewAreOpen /\ FinishedAreCounted

LEMMA EndedRows == \A m : m \in ended <=> m \in Meetings /\ row[m] # None /\ row[m]["ended"]
  BY DEF ended, rows

LEMMA CountInit == Init => CountInv
<1> SUFFICES ASSUME Init PROVE CountInv OBVIOUS
<1>1. NewAreUnlisted BY DEF Init, NewAreUnlisted, Committing
<1>2. ended = {} BY DEF Init, ended, rows, Meeting, Fields
<1>3. NewAreOpen BY <1>2 DEF NewAreOpen
<1>4. {p \in Procs : pc[p] \in {"endCache", "count"}} = {} /\ class.finished = 0
  BY DEF Init, Empty
<1>5. FinishedAreCounted BY <1>2, <1>4, FS_EmptySet DEF FinishedAreCounted
<1> QED BY <1>1, <1>3, <1>5 DEF CountInv

Acts(p) ==
  \/ Call(p) \/ GetClass(p) \/ GetMeeting(p) \/ AddMeeting(p) \/ EndMeeting(p)
  \/ DeleteMeeting(p) \/ DeleteMeetingPermanently(p) \/ UpdateMeetingTime(p)
  \/ WriteRow(p) \/ PutField(p) \/ Rollback(p) \/ Abandon(p) \/ CopyUntimed(p)

\* What a step does to the meetings that have ended: EndMeeting ends one of the list.
LEMMA EndedStep ==
  ASSUME FollowInv, NEW p \in Procs, Acts(p), miscount' = {}
  PROVE  /\ miscount = {}
         /\ \/ /\ EndRow(p) /\ req[p].meeting \in class.listed \ ended
               /\ ended' = ended \union {req[p].meeting}
            \/ /\ ~EndRow(p) /\ ended' \subseteq ended
               /\ class.listed \intersect ended' = Counted
<1> USE DEF db, cache, local, history
<1>0. ListInv /\ Shape /\ Fresh /\ Stored /\ Lookups /\ req[p].meeting \in Meetings /\ class.listed \subseteq Meetings
  BY DEF FollowInv, ReachInv, ListInv, Lookups, Shape, Class, RequestType
<1>1. (\A m : m \in ended <=> m \in Meetings /\ row[m] # None /\ row[m]["ended"])
      /\ (\A m : m \in ended' <=> m \in Meetings /\ row'[m] # None /\ row'[m]["ended"])
  BY EndedRows DEF ended, rows
<1>2. ASSUME miscount = {}, ~EndRow(p), UNCHANGED row
      PROVE  miscount = {} /\ ~EndRow(p) /\ ended' \subseteq ended /\ class.listed \intersect ended' = Counted
  BY <1>1, <1>2 DEF Counted
<1>3. CASE AddInsert(p)
  <2>1. PICK m \in Ids \ used : row' = [row EXCEPT ![m] = NewMeeting(p)] BY <1>3 DEF AddInsert
  <2>2. m \in Meetings => row[m] = None BY <1>0, <2>1 DEF Stored
  <2>3. ~NewMeeting(p)["ended"] BY DEF NewMeeting, Meeting, Fields
  <2>4. \A n : n \in ended' <=> n \in ended
    <3>1. \A n \in Meetings : row'[n] = IF n = m THEN NewMeeting(p) ELSE row[n] BY <1>0, <2>1 DEF Shape
    <3> QED BY <1>1, <2>2, <2>3, <3>1
  <2>5. ~EndRow(p) /\ miscount = {} BY <1>3 DEF AddInsert, EndRow, At
  <2> QED BY <2>4, <2>5 DEF Counted
<1>4. CASE EndRow(p)
  <2> DEFINE m == req[p].meeting
  <2>1. miscount = {} /\ m \in class.listed \ ended /\ m \in rows BY <1>4 DEF EndRow
  <2>2. New(p) \in MeetingInfo /\ New(p)["ended"] /\ Sets(p) = {"ended"}
    BY <1>0, <1>4, NewIsInfo DEF EndRow, At, Lookups, Sets
  <2>3. \A n \in Meetings : row'[n] = IF n = m THEN Written(row[n], p) ELSE row[n] BY <1>0, <1>4 DEF EndRow, Shape
  <2>4. row'[m] # None /\ row'[m]["ended"]
    BY <1>0, <2>1, <2>2, <2>3, WrittenIsInfo DEF Stored, Fields, rows
  <2>5. \A n : n \in ended' <=> n \in ended \union {m} BY <1>0, <1>1, <2>3, <2>4
  <2> QED BY <1>4, <2>1, <2>5
<1>5. CASE WipeCommit(p)
  <2>1. miscount = {} /\ req[p].meeting \notin ended \intersect class.listed BY <1>5 DEF WipeCommit
  <2>2. ~EndRow(p) BY <1>5 DEF WipeCommit, EndRow, At
  <2>3. \A n \in Meetings : row'[n] = IF n = req[p].meeting THEN None ELSE row[n] BY <1>0, <1>5 DEF WipeCommit, Shape
  <2>4. \A n : n \in ended' <=> n \in ended /\ n # req[p].meeting BY <1>1, <2>3
  <2> QED BY <2>1, <2>2, <2>4 DEF Counted
<1>6. CASE WriteRow(p)
  <2> DEFINE ms == {Targets(p)[i] : i \in DOMAIN Targets(p)}
  <2>1. miscount = {} /\ \A m \in ms : ~("ended" \in Sets(p) /\ m \in rows /\ row[m]["ended"] # New(p)["ended"])
    BY <1>6 DEF WriteRow
  <2>2. ~EndRow(p) /\ pc[p] = "write" BY <1>6 DEF WriteRow, EndRow, At
  <2>3. \A m \in Meetings : row'[m] = IF m \in ms THEN Written(row[m], p) ELSE row[m] BY <1>6 DEF WriteRow
  <2> HIDE DEF ms
  <2>4. New(p) \in MeetingInfo BY <1>0, <2>2, NewIsInfo DEF Lookups
  <2>5. \A m \in Meetings : /\ row'[m] # None <=> row[m] # None
                            /\ row[m] # None => row'[m]["ended"] =
                                 IF m \in ms /\ "ended" \in Sets(p) THEN New(p)["ended"] ELSE row[m]["ended"]
    BY <1>0, <2>3, <2>4, WrittenIsInfo DEF Stored, Fields
  <2>6. \A n : n \in ended' <=> n \in ended BY <1>1, <2>1, <2>5 DEF rows
  <2> QED BY <2>1, <2>2, <2>6 DEF Counted
\* All others leave the rows as they are.
<1>7. CASE Call(p) BY <1>2, <1>7 DEF Call, EndRow, At
<1>8. CASE GetClass(p)
  <2>1. UNCHANGED <<row, miscount>> BY <1>8 DEF GetClass, GetClassHit, GetClassMiss, GetClassFill, Refuse
  <2>2. ~EndRow(p)
    <3>1. pc'[p] # "endCache"
      BY <1>0, <1>8 DEF GetClass, GetClassHit, GetClassMiss, GetClassFill, Refuse, Return, Goto, Shape
    <3> QED BY <1>0, <3>1 DEF EndRow, Goto, Shape
  <2> QED BY <1>2, <2>1, <2>2
<1>9. CASE GetMeeting(p)
  <2>1. UNCHANGED <<row, miscount>> /\ pc[p] # "end"
    BY <1>9 DEF GetMeeting, NoMeeting, FindMeeting, MeetingHit, MeetingMiss, MeetingFill, OfClass
  <2> QED BY <1>2, <2>1 DEF EndRow, At
<1>10. CASE AddExhausted(p) \/ AddSeed(p) \/ AddLink(p) \/ AddCommit(p)
  <2>1. UNCHANGED <<row, miscount>> /\ pc[p] # "end" BY <1>10 DEF AddExhausted, AddSeed, AddLink, AddCommit
  <2> QED BY <1>2, <2>1 DEF EndRow, At
<1>11. CASE EndClosed(p) BY <1>2, <1>11 DEF EndClosed, EndRow
<1>12. CASE EndCache(p) \/ CountRow(p) \/ CountCache(p)
  <2>1. UNCHANGED <<row, miscount>> /\ pc[p] # "end" BY <1>12 DEF EndCache, CountRow, CountCache, At
  <2> QED BY <1>2, <2>1 DEF EndRow, At
<1>13. CASE TrashRow(p) \/ TrashCommit(p) \/ Recache(p) \/ DestroyRow(p) \/ DestroyCommit(p) \/ WipeRow(p)
  <2>1. UNCHANGED row /\ miscount = {} /\ pc[p] # "end"
    BY <1>13 DEF TrashRow, TrashCommit, Recache, DestroyRow, DestroyCommit, WipeRow, At
  <2> QED BY <1>2, <2>1 DEF EndRow, At
<1>14. CASE UpdateMeetingTime(p) \/ PutField(p) \/ Rollback(p) \/ Abandon(p) \/ CopyUntimed(p)
  <2>1. UNCHANGED row /\ miscount = {} /\ pc[p] # "end"
    BY <1>14, TimesGo DEF PutField, Rollback, Abandon, Timing
  <2> QED BY <1>2, <2>1 DEF EndRow, At
<1>15. Acts(p) => \/ AddInsert(p) \/ EndRow(p) \/ WipeCommit(p) \/ WriteRow(p) \/ Call(p) \/ GetClass(p)
                  \/ GetMeeting(p) \/ AddExhausted(p) \/ AddSeed(p) \/ AddLink(p) \/ AddCommit(p)
                  \/ EndClosed(p) \/ EndCache(p) \/ CountRow(p) \/ CountCache(p)
                  \/ TrashRow(p) \/ TrashCommit(p) \/ Recache(p) \/ DestroyRow(p) \/ DestroyCommit(p) \/ WipeRow(p)
                  \/ UpdateMeetingTime(p) \/ PutField(p) \/ Rollback(p) \/ Abandon(p) \/ CopyUntimed(p)
  BY DEF Acts, AddMeeting, EndMeeting, DeleteMeeting, DeleteMeetingPermanently
<1> QED BY <1>3, <1>4, <1>5, <1>6, <1>7, <1>8, <1>9, <1>10, <1>11, <1>12, <1>13, <1>14, <1>15

\* Which steps change the list and the counter, count an end, or take up a new meeting.
Moves(p) ==
  /\ \A q \in Procs \ {p} : pc'[q] = pc[q] /\ req'[q] = req[q]
  /\ class'.listed = class.listed \/ AddCommit(p) \/ TrashCommit(p)
  /\ class'.finished = class.finished \/ CountRow(p) \/ TrashCommit(p)
  /\ NewUp(p)' => AddInsert(p) \/ (NewUp(p) /\ req'[p].meeting = req[p].meeting)
  /\ pc'[p] = "commit" /\ req'[p].op \in Adds => AddLink(p)
  /\ miscount' = {} => \/ EndRow(p) \/ CountRow(p)
                       \/ pc[p] \in {"endCache", "count"} <=> pc'[p] \in {"endCache", "count"}

LEMMA MovesStep ==
  ASSUME FollowInv, NEW p \in Procs, Acts(p)
  PROVE  Moves(p)
<1> USE DEF db, cache, local, history
<1>0. ListInv /\ Shape /\ Lookups /\ LooksAt(p, pc[p]) BY DEF FollowInv, ReachInv, ListInv, Lookups
<1>1. ASSUME Return(p), class'.listed = class.listed, class'.finished = class.finished,
             pc[p] \notin {"endCache", "count"} \/ miscount' # {}
      PROVE  Moves(p)
  <2>1. pc'[p] = "idle" /\ \A q \in Procs \ {p} : pc'[q] = pc[q] /\ req'[q] = req[q]
    BY <1>0, <1>1 DEF Return, Goto, Shape
  <2> QED BY <1>1, <2>1 DEF Moves, NewUp
<1>2. ASSUME NEW l, Goto(p, l), UNCHANGED req,
             class'.listed = class.listed \/ AddCommit(p) \/ TrashCommit(p),
             class'.finished = class.finished \/ CountRow(p) \/ TrashCommit(p),
             \/ pc[p] \in {"endCache", "count"} <=> l \in {"endCache", "count"}
             \/ EndRow(p) \/ CountRow(p),
             \/ l \notin {"seed", "move", "commit"} \/ req[p].op \notin Adds
             \/ NewUp(p) /\ l # "commit"
             \/ AddLink(p)
      PROVE  Moves(p)
  <2>1. pc'[p] = l /\ req'[p] = req[p] /\ \A q \in Procs \ {p} : pc'[q] = pc[q] /\ req'[q] = req[q]
    BY <1>0, <1>2 DEF Goto, Shape
  <2>2. AddLink(p) => NewUp(p) BY DEF AddLink, NewUp
  <2> QED BY <1>2, <2>1, <2>2 DEF Moves, NewUp
<1>3. CASE Call(p)
  <2>1. pc'[p] \in {"meet", "get"} BY <1>0, <1>3, CallLists
  <2>2. (\A q \in Procs \ {p} : pc'[q] = pc[q] /\ req'[q] = req[q]) /\ class' = class /\ pc[p] = "idle"
    BY <1>0, <1>3 DEF Call, Goto, Shape
  <2> QED BY <2>1, <2>2 DEF Moves, NewUp
<1>4. CASE GetClass(p)
  <2>1. CASE GetClassHit(p) BY <1>2, <2>1 DEF GetClassHit
  <2>2. CASE GetClassMiss(p) BY <1>2, <2>2 DEF GetClassMiss
  <2>3. CASE GetClassFill(p) BY <1>2, <2>3 DEF GetClassFill
  <2>4. CASE Refuse(p)
    <3>1. pc[p] \notin {"endCache", "count"} BY <2>4 DEF Refuse, At
    <3> QED BY <1>1, <2>4, <3>1 DEF Refuse
  <2> QED BY <1>4, <2>1, <2>2, <2>3, <2>4 DEF GetClass
<1>5. CASE GetMeeting(p)
  <2>1. CASE NoMeeting(p)
    <3>1. pc[p] \notin {"endCache", "count"} BY <2>1 DEF NoMeeting, OfClass
    <3> QED BY <1>1, <2>1, <3>1 DEF NoMeeting
  <2>2. CASE FindMeeting(p)
    <3>1. PICK l \in {"move", "meet"} : Goto(p, l) /\ (l = "move" => req[p].op = "destroy")
      BY <2>2 DEF FindMeeting
    <3> QED BY <1>2, <2>2, <3>1 DEF FindMeeting, OfClass, Adds
  <2>3. ASSUME pc[p] \in {"meet", "meetFill"}, UNCHANGED <<req, class>>, NEW n, AfterMeeting(p, n)
        PROVE  Moves(p)
    <3>1. PICK l : /\ Goto(p, l) /\ l \notin {"idle", "seed", "commit", "meetFill"}
                   /\ l = "move" => req[p].op = "trash"
      BY <2>3, AfterMeetingGoes
    <3>2. l \notin {"endCache", "count"}
      <4>1. pc'[p] = l BY <1>0, <3>1 DEF Goto, Shape
      <4>2. pc'[p] \in {"meet", "end", "move", "wipe", "get", "write"} BY <1>0, <2>3 DEF AfterMeeting, Goto, Shape
      <4> QED BY <4>1, <4>2
    <3> QED BY <1>2, <2>3, <3>1, <3>2 DEF Adds
  <2>4. CASE MeetingHit(p) BY <2>3, <2>4 DEF MeetingHit
  <2>5. CASE MeetingMiss(p) BY <1>2, <2>5 DEF MeetingMiss
  <2>6. CASE MeetingFill(p) BY <2>3, <2>6 DEF MeetingFill
  <2> QED BY <1>5, <2>1, <2>2, <2>4, <2>5, <2>6 DEF GetMeeting
<1>6. CASE AddMeeting(p)
  <2>1. CASE AddInsert(p)
    <3>1. pc'[p] = "seed" /\ (\A q \in Procs \ {p} : pc'[q] = pc[q] /\ req'[q] = req[q]) /\ class' = class
      BY <1>0, <2>1 DEF AddInsert, Goto, Shape
    <3> QED BY <2>1, <3>1 DEF Moves, AddInsert
  <2>2. CASE AddExhausted(p) BY <1>1, <2>2 DEF AddExhausted
  <2>3. CASE AddSeed(p)
    <3>1. NewUp(p) \/ req[p].op \notin Adds BY <2>3 DEF AddSeed, NewUp
    <3> QED BY <1>2, <2>3, <3>1 DEF AddSeed
  <2>4. CASE AddLink(p) BY <1>2, <2>4 DEF AddLink
  <2>5. CASE AddCommit(p)
    <3>1. class'.finished = class.finished BY <1>0, <2>5 DEF AddCommit, Shape, Class
    <3> QED BY <1>2, <2>5, <3>1 DEF AddCommit
  <2> QED BY <1>6, <2>1, <2>2, <2>3, <2>4, <2>5 DEF AddMeeting
<1>7. CASE EndMeeting(p)
  <2>1. CASE EndClosed(p) BY <1>1, <2>1 DEF EndClosed, At
  <2>2. CASE EndRow(p) BY <1>2, <2>2 DEF EndRow
  <2>3. CASE EndCache(p) BY <1>2, <2>3 DEF EndCache, At
  <2>4. CASE CountRow(p)
    <3>1. class'.listed = class.listed BY <1>0, <2>4 DEF CountRow, Shape, Class
    <3> QED BY <1>2, <2>4, <3>1 DEF CountRow
  <2>5. CASE CountCache(p) BY <1>2, <2>5 DEF CountCache, At
  <2> QED BY <1>7, <2>1, <2>2, <2>3, <2>4, <2>5 DEF EndMeeting
<1>8. CASE DeleteMeeting(p) \/ DeleteMeetingPermanently(p)
  <2>1. CASE TrashRow(p)
    <3>1. PICK l \in {"recache", "commit"} : Goto(p, l) BY <2>1 DEF TrashRow
    <3> QED BY <1>2, <2>1, <3>1 DEF TrashRow, At, Adds
  <2>2. CASE TrashCommit(p) BY <1>2, <2>2 DEF TrashCommit, At
  <2>3. CASE Recache(p)
    <3>1. PICK l \in {"time", "meet"} : Goto(p, l) BY <2>3 DEF Recache
    <3> QED BY <1>2, <2>3, <3>1 DEF Recache
  <2>4. CASE DestroyRow(p)
    <3>1. PICK l \in {"recache", "commit"} : Goto(p, l) BY <2>4 DEF DestroyRow
    <3> QED BY <1>2, <2>4, <3>1 DEF DestroyRow, At, Adds
  <2>5. CASE DestroyCommit(p)
    <3>1. class'.listed = class.listed /\ class'.finished = class.finished BY <1>0, <2>5 DEF DestroyCommit, Shape, Class
    <3> QED BY <1>2, <2>5, <3>1 DEF DestroyCommit, At
  <2>6. CASE WipeRow(p) BY <1>2, <2>6 DEF WipeRow
  <2>7. CASE WipeCommit(p) BY <1>1, <2>7 DEF WipeCommit
  <2> QED BY <1>8, <2>1, <2>2, <2>3, <2>4, <2>5, <2>6, <2>7 DEF DeleteMeeting, DeleteMeetingPermanently
<1>9. CASE UpdateMeetingTime(p) \/ CopyUntimed(p) BY <1>1, <1>2, <1>9, TimesGo DEF Timing
<1>10. CASE WriteRow(p) BY <1>2, <1>10 DEF WriteRow
<1>11. CASE PutField(p)
  <2>1. CASE UNCHANGED <<pc, req>>
    <3>1. class' = class /\ pc[p] = "put" BY <1>11 DEF PutField
    <3> QED BY <2>1, <3>1 DEF Moves, NewUp
  <2>2. CASE Return(p) BY <1>1, <1>11, <2>2 DEF PutField
  <2>3. CASE Goto(p, "time") /\ UNCHANGED local BY <1>2, <1>11, <2>3 DEF PutField
  <2> QED BY <1>11, <2>1, <2>2, <2>3 DEF PutField
<1>12. CASE Rollback(p) BY <1>1, <1>12 DEF Rollback
<1>13. CASE Abandon(p)
  <2>1. pc[p] \notin {"endCache", "count"} \/ miscount' # {} BY <1>13 DEF Abandon
  <2> QED BY <1>1, <1>13, <2>1 DEF Abandon
<1> QED BY <1>3, <1>4, <1>5, <1>6, <1>7, <1>8, <1>9, <1>10, <1>11, <1>12, <1>13 DEF Acts

LEMMA NewStep ==
  ASSUME FollowInv, NewAreUnlisted, NewAreOpen, NEW p \in Procs, Acts(p)
  PROVE  NewAreUnlisted' /\ NewAreOpen'
<1> USE DEF db, cache, local, history
<1>0. ListInv /\ Shape /\ Exact /\ Fresh /\ Stored BY DEF FollowInv, ReachInv, ListInv, Lookups
<1>1. Moves(p) BY MovesStep
<1>2. NewAreUnlisted'
  <2> SUFFICES ASSUME NEW q \in Procs, Committing(q)', req'[q].op \in Adds
               PROVE  req'[q].meeting \notin class'.listed
    BY DEF NewAreUnlisted
  <2>1. CASE q = p
    <3>1. AddLink(p) BY <1>1, <2>1 DEF Moves, Committing
    <3>2. req[p].meeting \notin class.listed BY <1>0, <3>1 DEF AddLink, Fresh, Adding, Known
    <3> QED BY <2>1, <3>1, <3>2 DEF AddLink
  <2>2. CASE q # p
    <3>1. Committing(q) /\ req'[q] = req[q] BY <1>1, <2>2 DEF Moves, Committing
    <3>2. ~Committing(p) BY <1>0, <2>2, <3>1 DEF Exact
    <3>3. class'.listed = class.listed BY <1>1, <3>2 DEF Moves, AddCommit, TrashCommit, At, Committing
    <3> QED BY <3>1, <3>3 DEF NewAreUnlisted
  <2> QED BY <2>1, <2>2
<1>3. NewAreOpen'
  <2> SUFFICES ASSUME miscount' = {}, NEW q \in Procs, NewUp(q)' PROVE req'[q].meeting \notin ended'
    BY DEF NewAreOpen
  <2>1. /\ miscount = {}
        /\ \/ EndRow(p) /\ req[p].meeting \in class.listed \ ended /\ ended' = ended \union {req[p].meeting}
           \/ ~EndRow(p) /\ ended' \subseteq ended
    BY EndedStep
  <2>2. CASE AddInsert(p) /\ q = p
    <3>1. req'[q].meeting \notin used BY <1>0, <2>2 DEF AddInsert, Shape, RequestType
    <3>2. req'[q].meeting \notin ended BY <1>0, <3>1 DEF Stored, ended, rows
    <3> QED BY <2>1, <2>2, <3>2 DEF AddInsert, EndRow, At
  <2>3. CASE ~(AddInsert(p) /\ q = p)
    <3>1. NewUp(q) /\ req'[q].meeting = req[q].meeting
      <4>1. CASE q = p BY <1>1, <2>3, <4>1 DEF Moves
      <4>2. CASE q # p BY <1>1, <4>2 DEF Moves, NewUp
      <4> QED BY <4>1, <4>2
    <3>2. req[q].meeting \notin ended BY <2>1, <3>1 DEF NewAreOpen
    <3>3. req[q].meeting \notin class.listed
      <4>1. CASE Adding(q) BY <1>0, <4>1 DEF Fresh, Known
      <4>2. CASE Committing(q) BY <3>1, <4>2 DEF NewAreUnlisted, NewUp
      <4> QED BY <3>1, <4>1, <4>2 DEF NewUp, Adding, Committing
    <3> QED BY <2>1, <3>1, <3>2, <3>3
  <2> QED BY <2>2, <2>3
<1> QED BY <1>2, <1>3

LEMMA FinishedStep ==
  ASSUME FollowInv, CountInv, NEW p \in Procs, Acts(p)
  PROVE  FinishedAreCounted'
<1> USE DEF db, cache, local, history
<1>0. ListInv /\ Shape /\ Exact BY DEF FollowInv, ReachInv, ListInv
<1> SUFFICES ASSUME miscount' = {}
             PROVE  class'.finished + Cardinality(Counting') = Cardinality(Counted')
  BY DEF FinishedAreCounted, Counting, Counted
<1>1. Moves(p) BY MovesStep
<1>2. /\ miscount = {}
      /\ \/ EndRow(p) /\ req[p].meeting \in class.listed \ ended /\ ended' = ended \union {req[p].meeting}
         \/ ~EndRow(p) /\ ended' \subseteq ended /\ class.listed \intersect ended' = Counted
  BY EndedStep
<1>3. class.finished + Cardinality(Counting) = Cardinality(Counted) /\ class.finished \in Int
  BY <1>0, <1>2 DEF CountInv, FinishedAreCounted, Counting, Counted, Shape, Class
<1>4. IsFiniteSet(Counting) /\ IsFiniteSet(Counted)
  <2>1. Counting \in SUBSET Procs /\ Counted \in SUBSET Meetings BY DEF Counting, Counted, ended, rows
  <2> QED BY <2>1, FinitelyMany, FS_Subset
<1>5. Cardinality(Counting) \in Nat /\ Cardinality(Counted) \in Nat BY <1>4, FS_CardinalityType
<1>6. \A q \in Procs \ {p} : q \in Counting' <=> q \in Counting BY <1>1 DEF Moves, Counting
<1>7. CASE EndRow(p)
  <2> DEFINE m == req[p].meeting
  <2>1. pc[p] = "end" /\ pc'[p] = "endCache" /\ class' = class BY <1>0, <1>7 DEF EndRow, At, Goto, Shape
  <2>2. p \in Counting' /\ p \notin Counting BY <2>1 DEF Counting
  <2>3. Counting' = Counting \union {p} BY <1>6, <2>2 DEF Counting
  <2>4. Cardinality(Counting') = Cardinality(Counting) + 1 BY <1>4, <2>2, <2>3, FS_AddElement
  <2>5. Counted' = Counted \union {m} /\ m \notin Counted BY <1>2, <1>7, <2>1 DEF Counted
  <2>6. Cardinality(Counted') = Cardinality(Counted) + 1 BY <1>4, <2>5, FS_AddElement
  <2> QED BY <1>3, <1>5, <2>1, <2>4, <2>6
<1>8. CASE CountRow(p)
  <2>1. /\ pc[p] = "count" /\ pc'[p] = "countCache"
        /\ class'.listed = class.listed /\ class'.finished = class.finished + 1
    BY <1>0, <1>8 DEF CountRow, At, Goto, Shape, Class
  <2>2. p \notin Counting' /\ p \in Counting BY <2>1 DEF Counting
  <2>3. Counting' = Counting \ {p} BY <1>6, <2>2 DEF Counting
  <2>4. Cardinality(Counting') = Cardinality(Counting) - 1 BY <1>4, <2>2, <2>3, FS_RemoveElement
  <2>5. ~EndRow(p) BY <2>1 DEF EndRow, At
  <2>6. Counted' = Counted BY <1>2, <2>1, <2>5 DEF Counted
  <2> QED BY <1>3, <1>5, <2>1, <2>4, <2>6
<1>9. CASE ~EndRow(p) /\ ~CountRow(p)
  <2>1. p \in Counting' <=> p \in Counting BY <1>1, <1>9 DEF Moves, Counting
  <2>2. Counting' = Counting BY <1>6, <2>1 DEF Counting
  <2>3. CASE AddCommit(p)
    <3>1. /\ class'.listed = class.listed \union {req[p].meeting} /\ class'.finished = class.finished
          /\ NewUp(p)
      BY <1>0, <2>3 DEF AddCommit, Exact, Committing, Adds, Shape, Class, NewUp
    <3>2. req[p].meeting \notin ended BY <1>2, <3>1 DEF CountInv, NewAreOpen
    <3>3. Counted' = Counted BY <1>2, <1>9, <3>1, <3>2 DEF Counted
    <3> QED BY <1>3, <2>2, <3>1, <3>3
  <2>4. CASE TrashCommit(p)
    <3> DEFINE m == req[p].meeting
    <3>1. /\ class'.listed = class.listed \ {m}
          /\ class'.finished = IF Over(p) THEN class.finished - 1 ELSE class.finished
      BY <1>0, <2>4 DEF TrashCommit, At, Exact, Committing, Adds
    <3>2. Over(p) <=> m \in Counted BY <1>2, <2>4 DEF TrashCommit, Counted, Over
    <3>3. Counted' = Counted \ {m} BY <1>2, <1>9, <3>1 DEF Counted
    <3>4. Cardinality(Counted') = IF m \in Counted THEN Cardinality(Counted) - 1 ELSE Cardinality(Counted)
      BY <1>4, <3>3, FS_RemoveElement
    <3>5. CASE m \in Counted BY <1>3, <1>5, <2>2, <3>1, <3>2, <3>4, <3>5
    <3>6. CASE m \notin Counted BY <1>3, <1>5, <2>2, <3>1, <3>2, <3>4, <3>6
    <3> QED BY <3>5, <3>6
  <2>5. CASE ~AddCommit(p) /\ ~TrashCommit(p)
    <3>1. class'.listed = class.listed /\ class'.finished = class.finished BY <1>1, <1>9, <2>5 DEF Moves
    <3>2. Counted' = Counted BY <1>2, <1>9, <3>1 DEF Counted
    <3> QED BY <1>3, <2>2, <3>1, <3>2
  <2> QED BY <2>3, <2>4, <2>5
<1> QED BY <1>7, <1>8, <1>9

\* The counter of finished meetings is the number of the class's meetings that have
\* ended, less the ends that are about to be counted, unless one went uncounted.
THEOREM EndsAreCounted == Spec => []FinishedAreCounted
<1>1. FollowInv /\ CountInv /\ [Next]_vars => (FollowInv /\ CountInv)'
  <2> SUFFICES ASSUME FollowInv, CountInv, [Next]_vars PROVE FollowInv' /\ CountInv' OBVIOUS
  <2>1. FollowInv' BY FollowStep
  <2>2. CASE UNCHANGED vars
    <3>1. UNCHANGED <<class, row, pc, req, miscount>> BY <2>2 DEF vars, db, history, local
    <3>2. ended' = ended BY <3>1 DEF ended, rows
    <3>3. NewAreUnlisted' BY <3>1 DEF CountInv, NewAreUnlisted, Committing
    <3>4. NewAreOpen' BY <3>1, <3>2 DEF CountInv, NewAreOpen, NewUp
    <3>5. FinishedAreCounted' BY <3>1, <3>2 DEF CountInv, FinishedAreCounted
    <3> QED BY <2>1, <3>3, <3>4, <3>5 DEF CountInv
  <2>3. CASE Next
    <3>1. PICK p \in Procs : Acts(p) BY <2>3 DEF Next, Acts
    <3> QED BY <2>1, <3>1, NewStep, FinishedStep DEF CountInv
  <2> QED BY <2>1, <2>2, <2>3
<1>2. CountInv => FinishedAreCounted BY DEF CountInv
<1> QED BY FollowInit, CountInit, <1>1, <1>2, PTL DEF Spec
=============================================================================
