------------------------ MODULE ClassCatalog_proofs ------------------------
(***************************************************************************)
(* The three properties of module ClassCatalog, for any classes, courses,  *)
(* handlers and scenes.  All rest on ReachInv: which label a handler may   *)
(* be at with what in hand, and that a lock is held by a handler whose     *)
(* transaction will write that row and nothing but one list of it.  Then   *)
(* each property has an invariant of its own: LinkInv, FoundInv, FiledInv. *)
(* Most steps do no more than Plain says; the steps of AddSubClass and     *)
(* DeleteSubClass are taken one by one.                                    *)
(***************************************************************************)
EXTENDS ClassCatalog, TLAPS

(***************************************************************************)
(* The inductive invariant.                                                *)
(***************************************************************************)

Labels == {"idle", "find", "findFill", "insert", "list", "locate", "locateFill", "get", "fill", "have",
           "get2", "fill2", "have2", "cacheNew", "index", "listNew", "copy", "copied", "import",
           "imported", "write", "cacheWrite", "unindex", "uncache", "unlist", "hash1", "list1",
           "commit1", "tx2", "hash2", "list2", "commit2"}

Typed ==
  /\ scene \in DOMAIN Scenes
  /\ row \in [Classes -> ClassInfo \union {None}] /\ born \in SUBSET Classes
  /\ hash \in [Classes -> ClassInfo \union {None}] /\ group \in SUBSET Classes
  /\ index \in [Courses -> Classes \union {None}]
  /\ lock \in [Classes -> Procs \union {None}]
  /\ pc \in [Procs -> Labels] /\ req \in [Procs -> Request]
  /\ view \in [Procs -> ClassInfo \union {None}] /\ view2 \in [Procs -> ClassInfo \union {None}]
  /\ found \in [Procs -> Classes \union {None}] /\ tx \in [Procs -> ClassInfo \union {None}]

\* A class that has a row or a hash was created, and so were its packages.
Born ==
  /\ \A c \in Classes : row[c] # None \/ hash[c] # None => c \in born
  /\ \A c \in Classes : row[c] # None => row[c].parents \subseteq born

\* What a handler has done when it is at a label.
Linkers == {"hash1", "list1", "commit1", "tx2", "hash2", "list2", "commit2"}
Links   == {"sub", "unsub"}

Placed(p) ==
  /\ pc[p] \in {"fill", "have", "get2", "fill2", "have2"} => view[p] # None /\ req[p].class \in born
  /\ pc[p] \in {"fill2", "have2"} => req[p].other \in born
  /\ pc[p] = "fill2" => view2[p] # None
  /\ pc[p] \in {"get2", "fill2", "have2"} => req[p].op \in {"children", "ally"} \union Links
  /\ pc[p] \in {"find", "findFill"} => /\ req[p].op \in {"add", "find", "locate", "change"}
                                       /\ req[p].course # None
                                       /\ req[p].op = "change" => view[p] # None /\ ChecksCourse(p)
  /\ pc[p] = "findFill" => found[p] # None
  /\ pc[p] = "insert" => req[p].op \in {"add", "import"}
  /\ pc[p] \in {"locate", "locateFill"} => req[p].op = "locate"
  /\ pc[p] = "locateFill" => view[p] # None
  /\ pc[p] \in {"cacheNew", "listNew"} => req[p].op \in Makes /\ found[p] \in born
  /\ pc[p] \in {"copy", "copied", "import", "imported"} => found[p] \in born
  /\ pc[p] \in {"cacheNew", "listNew"} /\ req[p].op = "clone" => view[p] # None
  /\ pc[p] \in {"copy", "copied"} => view[p] # None
  /\ pc[p] = "index" => /\ req[p].course # None
                        /\ \/ req[p].op = "add" /\ found[p] \in born
                           \/ req[p].op = "change" /\ view[p] # None
  /\ pc[p] = "write" => req[p].op = "change" /\ view[p] # None /\ ChecksCourse(p)
  /\ pc[p] \in {"cacheWrite", "unindex"} => req[p].op \in {"change", "end", "ally"} /\ view[p] # None
  /\ pc[p] = "unindex" => req[p].op = "change"
  /\ pc[p] \in {"uncache", "unlist"} => row[req[p].class] = None /\ req[p].class \in born
  /\ pc[p] \in Linkers => req[p].op \in Links /\ {req[p].class, req[p].other} \subseteq born
  /\ pc[p] \in Linkers \ {"tx2"} => tx[p] # None
  /\ pc[p] = "commit1" => Holds(p, req[p].class)
  /\ pc[p] = "commit2" => Holds(p, req[p].other)

\* A transaction that is open holds the row that it will write.
Locked(c) ==
  lock[c] # None =>
    LET p == lock[c] IN
    /\ row[c] # None
    /\ \/ /\ pc[p] \in FirstHalf /\ c = req[p].class
          /\ tx[p] = [row[c] EXCEPT !.children = Edited(p, row[c].children, req[p].other)]
       \/ /\ pc[p] \in {"hash2", "list2", "commit2"} /\ c = req[p].other
          /\ tx[p] = [row[c] EXCEPT !.parents = Edited(p, row[c].parents, req[p].class)]

ReachInv == Typed /\ Born /\ (\A p \in Procs : Placed(p)) /\ (\A c \in Classes : Locked(c))

\* The request has put the package as it wants it; it has yet to look at the class.
Past(p) ==
  \/ pc[p] \in SecondHalf
  \/ pc[p] \in {"hash1", "list1"} /\ ~Holds(p, req[p].class)
Behind(p, c, s) ==
  /\ Pair(p) = <<c, s>>
  /\ \/ pc[p] = "tx2"
     \/ pc[p] \in {"hash2", "list2", "commit2"} /\ Holds(p, s)

\* The first transaction of p is open while q is past its own.
Crossing(p, q) == /\ pc[p] \in FirstHalf /\ Holds(p, req[p].class) /\ Past(q)
                  /\ Pair(p) = Pair(q) /\ req[p].op # req[q].op

\* A class that a package names before it is created was named by platform data.
Foreseen ==
  \A c, s \in Classes : row[c] # None /\ s \in row[c].children => s \in born \/ <<c, s>> \in torn

LinkInv ==
  /\ Foreseen
  /\ \A p \in Procs : Past(p) /\ Pair(p) \notin torn /\ row[req[p].class] # None =>
       (req[p].other \in row[req[p].class].children <=> req[p].op = "sub")
  /\ \A p, q \in Procs : Crossing(p, q) => Pair(p) \in torn
  /\ \A c, s \in Live :
       \/ <<c, s>> \in torn
       \/ s \in row[c].children <=> c \in row[s].parents
       \/ \E p \in Procs : Behind(p, c, s)

Shows(c, s) == row[c] # None /\ row[c].package /\ s \in row[c].children

\* A handler has the class in hand: the lists do not have it yet, or not any more.
Moves(p, s) ==
  \/ pc[p] = "commit1" /\ req[p].op = "sub" /\ req[p].other = s
  \/ /\ req[p].op = "unsub" /\ req[p].other = s
     /\ \/ pc[p] = "tx2"
        \/ pc[p] \in {"hash2", "list2"} /\ tx[p].parents = {}
  \/ pc[p] \in {"cacheNew", "index", "listNew"} /\ req[p].op \in Makes /\ found[p] = s

Placeable(s) ==
  s \in group \union stranded \/ (\E p \in Procs : Moves(p, s)) \/ (\E c \in Classes : Shows(c, s))

\* Every set of classes that are only below each other has one that is known to be lost.
Grounded ==
  \A U \in SUBSET Classes :
    U \intersect stranded = {} /\ (\A s \in U : \E c \in U : Shows(c, s)) => U = {}

FoundInv ==
  /\ Grounded
  /\ \A s \in Classes : row[s] # None => Placeable(s)
  /\ \A p \in Procs : Past(p) /\ req[p].op = "sub" =>
       Shows(req[p].class, req[p].other) \/ req[p].other \in stranded
  /\ \A p, q \in Procs : Crossing(p, q) => req[p].other \in stranded
  /\ \A p \in Procs : pc[p] \in FirstHalf /\ Holds(p, req[p].class) =>
       row[req[p].class].package \/ req[p].other \in stranded
  /\ \A c, s \in Classes : row[s] # None /\ c \in row[s].parents =>
       \/ Shows(c, s) \/ s \in stranded
       \/ \E p \in Procs : Behind(p, c, s) /\ req[p].op = "unsub"

\* A handler that has checked a course and not written it yet.
Checked(p, k) ==
  /\ req[p].course = k /\ k # None
  /\ \/ pc[p] = "insert" /\ req[p].op = "add"
     \/ pc[p] = "write"

HasCourse(c, k) == row[c] # None /\ row[c].course = k

FiledInv ==
  \A k \in Courses \ misfiled :
    /\ \A c, d \in Classes : HasCourse(c, k) /\ HasCourse(d, k) => c = d
    /\ \A c \in Classes : HasCourse(c, k) => index[k] \in {None, c}
    /\ \A p \in Procs : Checked(p, k) =>
         /\ \A c \in Classes : HasCourse(c, k) => req[p].op = "change" /\ c = req[p].class
         /\ index[k] = None \/ (req[p].op = "change" /\ index[k] = req[p].class)

(***************************************************************************)
(* Requests and types.                                                     *)
(***************************************************************************)

LEMMA CallsAreRequests ==
  /\ AnyRequest \in Request
  /\ \A n \in DOMAIN Scenes : Scenes[n].calls \subseteq Request
                              /\ Scenes[n].rows \in [Classes -> ClassInfo \union {None}]
<1>1. \A n \in DOMAIN Scenes : Scenes[n].calls \subseteq Request /\ Scenes[n].calls # {}
                               /\ Scenes[n].rows \in [Classes -> ClassInfo \union {None}]
  BY ScenesAreScenes DEF Scene
<1>2. PICK n \in DOMAIN Scenes : TRUE BY ScenesAreScenes
<1>3. \E r : r \in UNION {Scenes[s].calls : s \in DOMAIN Scenes} BY <1>1, <1>2
<1>4. AnyRequest \in UNION {Scenes[s].calls : s \in DOMAIN Scenes} BY <1>3 DEF AnyRequest
<1> QED BY <1>1, <1>4

LEMMA ReqFields ==
  ASSUME Typed, NEW p \in Procs
  PROVE  /\ req[p].op \in Ops /\ req[p].by \in Roles /\ req[p].class \in Classes
         /\ req[p].other \in Classes /\ req[p].course \in Courses \union {None}
         /\ req[p].package \in BOOLEAN \union {None} /\ req[p].data \in SUBSET Classes
         /\ req[p].op \in Makes => req[p].package \in BOOLEAN
<1>1. req[p] \in Request BY DEF Typed
<1> QED BY <1>1, NoneIsNone DEF Request, Makes

LEMMA RowFields ==
  ASSUME NEW r \in ClassInfo
  PROVE  /\ r.package \in BOOLEAN /\ r.children \in SUBSET Classes /\ r.parents \in SUBSET Classes
         /\ r.course \in Courses \union {None} /\ r.full \in BOOLEAN /\ r.ended \in BOOLEAN
         /\ r.ally \in Classes \union {None} /\ r # None
  BY NoneIsNone DEF ClassInfo

\* What a change of one column makes of a row.
LEMMA RowEdits ==
  ASSUME NEW r \in ClassInfo, NEW S \in SUBSET Classes, NEW b \in BOOLEAN
  PROVE  /\ [r EXCEPT !.children = S] \in ClassInfo /\ [r EXCEPT !.parents = S] \in ClassInfo
         /\ [r EXCEPT !.full = b] \in ClassInfo
         /\ [r EXCEPT !.package = b, !.children = S] \in ClassInfo
  BY DEF ClassInfo

LEMMA AppliedType ==
  ASSUME Typed, NEW p \in Procs, req[p].op \in {"change", "end", "ally"}, NEW r \in ClassInfo
  PROVE  Applied(p, r) \in ClassInfo
<1>1. /\ req[p].package \in BOOLEAN \union {None} /\ req[p].other \in Classes
      /\ req[p].course \in Courses \union {None} /\ req[p].data \in SUBSET Classes
  BY ReqFields
<1>2. CASE req[p].op = "end" BY <1>2 DEF Applied, ClassInfo
<1>3. CASE req[p].op = "ally" BY <1>1, <1>3 DEF Applied, ClassInfo
<1>4. CASE req[p].op = "change"
  <2>1. ChangesPlatform(p) => req[p].package \in BOOLEAN BY <1>1 DEF ChangesPlatform
  <2> QED BY <1>1, <1>4, <2>1 DEF Applied, ClassInfo
<1> QED BY <1>2, <1>3, <1>4

\* p returns.
LEMMA TypeReturn ==
  ASSUME Typed, NEW p \in Procs, Return(p)
  PROVE  /\ pc' \in [Procs -> Labels] /\ req' \in [Procs -> Request]
         /\ view' \in [Procs -> ClassInfo \union {None}] /\ view2' \in [Procs -> ClassInfo \union {None}]
         /\ found' \in [Procs -> Classes \union {None}] /\ tx' \in [Procs -> ClassInfo \union {None}]
         /\ pc'[p] = "idle"
         /\ \A q \in Procs \ {p} :
              /\ pc'[q] = pc[q] /\ req'[q] = req[q] /\ view'[q] = view[q] /\ view2'[q] = view2[q]
              /\ found'[q] = found[q] /\ tx'[q] = tx[q]
  BY CallsAreRequests DEF Typed, Return, Goto, Labels

LEMMA NewClassType == ASSUME Typed, NEW p \in Procs, req[p].op \in Makes PROVE NewClass(p) \in ClassInfo
  BY ReqFields DEF NewClass, CourseOf, ClassInfo

(***************************************************************************)
(* What a step of one handler leaves alone.                                *)
(***************************************************************************)

Frame(p) ==
  \A q \in Procs \ {p} :
    /\ pc'[q] = pc[q] /\ req'[q] = req[q] /\ view'[q] = view[q] /\ view2'[q] = view2[q]
    /\ found'[q] = found[q] /\ tx'[q] = tx[q]

\* No class comes back, and a row that another handler holds stays as it is.
World(p) ==
  /\ born \subseteq born' /\ \A c \in born : row[c] = None => row'[c] = None
  /\ \A c \in Classes, q \in Procs \ {p} : lock'[c] = q <=> lock[c] = q
  /\ \A c \in Classes : lock[c] \notin {None, p} => row'[c] = row[c]

LEMMA Unlocked ==
  ASSUME ReachInv, NEW p \in Procs, NEW c \in Classes,
         pc[p] \notin {"hash1", "list1", "commit1", "hash2", "list2", "commit2"}
  PROVE  lock[c] # p
<1>1. Locked(c) /\ p # None BY NoneIsNone DEF ReachInv
<1> QED BY <1>1 DEF Locked, FirstHalf

LEMMA ReachFrame ==
  ASSUME ReachInv, NEW p \in Procs, Typed', Born', Frame(p), World(p), Placed(p)',
         \A c \in Classes : lock'[c] = p => Locked(c)'
  PROVE  ReachInv'
<1>1. ASSUME NEW q \in Procs \ {p} PROVE Placed(q)'
  <2>1. Placed(q) BY DEF ReachInv
  <2>2. req[q].class \in Classes /\ req[q].other \in Classes BY ReqFields DEF ReachInv
  <2>3. ChecksCourse(q)' <=> ChecksCourse(q) BY DEF Frame, ChecksCourse, ChangesCourse
  <2>4. /\ Holds(q, req[q].class) => Holds(q, req[q].class)'
        /\ Holds(q, req[q].other) => Holds(q, req[q].other)'
    BY <2>2 DEF Frame, World, Holds
  <2>5. req[q].class \in born /\ row[req[q].class] = None => row'[req[q].class] = None BY DEF World
  <2>6. born \subseteq born' BY DEF World
  <2> QED BY <2>1, <2>3, <2>4, <2>5, <2>6 DEF Frame, Placed
<1>2. ASSUME NEW c \in Classes PROVE Locked(c)'
  <2>1. CASE lock'[c] = p BY <2>1
  <2>2. CASE lock'[c] = None BY <2>2 DEF Locked
  <2>3. CASE lock'[c] \in Procs \ {p}
    <3> PICK q \in Procs \ {p} : lock'[c] = q BY <2>3
    <3>1. lock[c] = q /\ row'[c] = row[c] /\ q # None BY NoneIsNone DEF World
    <3>2. Locked(c) BY DEF ReachInv
    <3>3. /\ row[c] # None
          /\ \/ /\ pc[q] \in FirstHalf /\ c = req[q].class
                /\ tx[q] = [row[c] EXCEPT !.children = Edited(q, row[c].children, req[q].other)]
             \/ /\ pc[q] \in {"hash2", "list2", "commit2"} /\ c = req[q].other
                /\ tx[q] = [row[c] EXCEPT !.parents = Edited(q, row[c].parents, req[q].class)]
      BY <3>1, <3>2 DEF Locked
    <3>4. pc'[q] = pc[q] /\ req'[q] = req[q] /\ tx'[q] = tx[q] BY DEF Frame
    <3>5. /\ row'[c] # None
          /\ \/ /\ pc'[q] \in FirstHalf /\ c = req'[q].class
                /\ tx'[q] = [row'[c] EXCEPT !.children = Edited(q, row[c].children, req[q].other)']
             \/ /\ pc'[q] \in {"hash2", "list2", "commit2"} /\ c = req'[q].other
                /\ tx'[q] = [row'[c] EXCEPT !.parents = Edited(q, row[c].parents, req[q].class)']
      BY <3>1, <3>3, <3>4 DEF Edited
    <3> QED BY <3>1, <3>5 DEF Locked
  <2> QED BY <2>1, <2>2, <2>3 DEF Typed
<1> QED BY <1>1, <1>2 DEF ReachInv

\* A step that changes no row, no lock, and is not of a transaction.
LEMMA ReachAside ==
  ASSUME ReachInv, NEW p \in Procs, Typed', Frame(p), Placed(p)', UNCHANGED <<row, born, lock>>,
         \A c \in Classes : hash'[c] # None => c \in born,
         pc[p] \notin {"hash1", "list1", "commit1", "hash2", "list2", "commit2"}
  PROVE  ReachInv'
<1>1. World(p) BY DEF World
<1>2. Born' BY DEF ReachInv, Born
<1>3. \A c \in Classes : lock'[c] # p BY Unlocked
<1> QED BY <1>1, <1>2, <1>3, ReachFrame

\* p returns, and the rest stays.
LEMMA ReachReturn ==
  ASSUME ReachInv, NEW p \in Procs, Return(p), UNCHANGED <<db, cache, lock>>,
         pc[p] \notin {"hash1", "list1", "commit1", "hash2", "list2", "commit2"}
  PROVE  ReachInv'
<1>1. Typed' /\ Frame(p) /\ pc'[p] = "idle" BY TypeReturn DEF ReachInv, Typed, Frame, db, cache
<1>2. Placed(p)' BY <1>1 DEF Placed, Linkers
<1> QED BY <1>1, <1>2, ReachAside DEF db, cache, ReachInv, Born

\* p goes on, and the rest stays.
LEMMA ReachGoto ==
  ASSUME ReachInv, NEW p \in Procs, NEW l \in Labels, Goto(p, l), UNCHANGED <<db, cache, lock, local>>,
         pc[p] \notin {"hash1", "list1", "commit1", "hash2", "list2", "commit2"}
  PROVE  /\ pc'[p] = l /\ Frame(p) /\ Typed'
         /\ Placed(p)' => ReachInv'
<1>1. Typed' /\ Frame(p) /\ pc'[p] = l BY DEF ReachInv, Typed, Frame, Goto, db, cache, local
<1> QED BY <1>1, ReachAside DEF db, cache, ReachInv, Born

(***************************************************************************)
(* The reach of every operation.                                           *)
(***************************************************************************)

LEMMA ReachReceive ==
  ASSUME ReachInv, NEW p \in Procs, NEW op \in Ops, NEW roles, Receive(p, op, roles)
  PROVE  ReachInv'
<1>1. PICK r \in Scenes[scene].calls :
        r.op = op /\ req' = [req EXCEPT ![p] = r] /\ Goto(p, Entry(r))
  BY DEF Receive
<1>2. r \in Request BY CallsAreRequests DEF ReachInv, Typed
<1>3. Entry(r) \in {"find", "insert", "list", "locate", "get"} BY DEF Entry
<1>4. Typed' /\ Frame(p) /\ pc'[p] = Entry(r) /\ req'[p] = r
  BY <1>1, <1>2, <1>3 DEF ReachInv, Typed, Frame, Receive, Goto, Labels, db, cache
<1>5. /\ Entry(r) = "find" => r.op \in {"add", "find", "locate"} /\ r.course # None
      /\ Entry(r) = "insert" => r.op \in {"add", "import"}
      /\ Entry(r) = "locate" => r.op = "locate"
  BY DEF Entry
<1>6. Placed(p)' BY <1>3, <1>4, <1>5 DEF Placed, Linkers
<1> QED BY <1>1, <1>4, <1>6, ReachAside DEF Receive, db, cache, ReachInv, Born

LEMMA ReachGet ==
  ASSUME ReachInv, NEW p \in Procs, GetHit(p) \/ GetMiss(p) \/ GetFill(p) \/ Refuse(p) \/ ReadDone(p)
  PROVE  ReachInv'
<1> USE DEF db, cache, local, history
<1>0. Typed /\ Placed(p) /\ Born /\ req[p].class \in Classes /\ req[p].other \in Classes /\ Target(p) \in Classes
  BY ReqFields DEF ReachInv, Target
<1>1. CASE GetHit(p)
  <2> DEFINE l == IF pc[p] = "get" THEN "have" ELSE "have2"
  <2>1. hash[Target(p)] \in ClassInfo BY <1>0, <1>1 DEF GetHit, NewClassInfoFromMap, Typed
  <2>2. /\ pc[p] = "get" => view' = [view EXCEPT ![p] = hash[Target(p)]] /\ view2' = view2
        /\ pc[p] = "get2" => view2' = [view2 EXCEPT ![p] = hash[Target(p)]] /\ view' = view
    BY <1>1 DEF GetHit, See, NewClassInfoFromMap
  <2>3. Typed' /\ Frame(p) /\ pc'[p] = l
    BY <1>0, <1>1, <2>1, <2>2 DEF GetHit, Typed, Frame, Goto, Labels
  <2>4. Target(p) \in born BY <1>0, <2>1, NoneIsNone DEF Born
  <2>5. Placed(p)'
    <3>1. CASE pc[p] = "get"
      <4>1. view'[p] # None /\ req'[p].class \in born'
        BY <1>0, <1>1, <2>1, <2>2, <2>4, <3>1, NoneIsNone DEF GetHit, Typed, Target
      <4> QED BY <2>3, <3>1, <4>1 DEF Placed, Linkers
    <3>2. CASE pc[p] = "get2"
      <4>1. req'[p].other \in born' BY <1>1, <2>4, <3>2 DEF GetHit, Target
      <4>2. UNCHANGED <<born, req, view, found, lock>> BY <1>1, <2>2, <3>2 DEF GetHit
      <4> QED BY <1>0, <2>3, <3>2, <4>1, <4>2 DEF Placed, Linkers
    <3> QED BY <1>1, <3>1, <3>2 DEF GetHit
  <2> QED BY <1>0, <1>1, <2>3, <2>5, ReachAside DEF GetHit, Born
<1>2. CASE GetMiss(p)
  <2>1. CASE row[Target(p)] = None BY <1>2, <2>1, ReachReturn DEF GetMiss
  <2>2. CASE row[Target(p)] # None
    <3> DEFINE l == IF pc[p] = "get" THEN "fill" ELSE "fill2"
    <3>1. row[Target(p)] \in ClassInfo /\ Target(p) \in born BY <1>0, <2>2 DEF Typed, Born
    <3>2. /\ pc[p] = "get" => view' = [view EXCEPT ![p] = row[Target(p)]] /\ view2' = view2
          /\ pc[p] = "get2" => view2' = [view2 EXCEPT ![p] = row[Target(p)]] /\ view' = view
      BY <1>2, <2>2 DEF GetMiss, See
    <3>3. Typed' /\ Frame(p) /\ pc'[p] = l
      BY <1>0, <1>2, <2>2, <3>1, <3>2 DEF GetMiss, Typed, Frame, Goto, Labels
    <3>4. Placed(p)'
      <4>1. CASE pc[p] = "get"
        <5>1. view'[p] # None /\ req'[p].class \in born'
          BY <1>0, <1>2, <2>2, <3>1, <3>2, <4>1, NoneIsNone DEF GetMiss, Typed, Target
        <5> QED BY <3>3, <4>1, <5>1 DEF Placed, Linkers
      <4>2. CASE pc[p] = "get2"
        <5>1. req'[p].other \in born' /\ view2'[p] # None
          BY <1>0, <1>2, <2>2, <3>1, <3>2, <4>2, NoneIsNone DEF GetMiss, Target, Typed
        <5>2. UNCHANGED <<born, req, view, found, lock>> BY <1>2, <2>2, <3>2, <4>2 DEF GetMiss
        <5> QED BY <1>0, <3>3, <4>2, <5>1, <5>2 DEF Placed, Linkers
      <4> QED BY <1>2, <4>1, <4>2 DEF GetMiss
    <3> QED BY <1>0, <1>2, <2>2, <3>3, <3>4, ReachAside DEF GetMiss, Born
  <2> QED BY <2>1, <2>2
<1>3. CASE GetFill(p)
  <2> DEFINE new == IF pc[p] = "fill" THEN view[p] ELSE view2[p]
  <2>1. new \in ClassInfo \union {None} /\ Target(p) \in born BY <1>0, <1>3 DEF Typed, Placed, Target, GetFill
  <2>2. hash' = [hash EXCEPT ![Target(p)] = new] BY <1>3 DEF GetFill
  <2>3. Typed' /\ Frame(p) /\ pc'[p] = (IF pc[p] = "fill" THEN "have" ELSE "have2")
    BY <1>0, <1>3, <2>1, <2>2 DEF GetFill, Typed, Frame, Goto, Labels
  <2>4. UNCHANGED <<born, req, view, view2, found, lock>> BY <1>3 DEF GetFill
  <2>5. Placed(p)'
    <3>1. CASE pc[p] = "fill" BY <1>0, <2>3, <2>4, <3>1 DEF Placed, Linkers
    <3>2. CASE pc[p] = "fill2" BY <1>0, <2>3, <2>4, <3>2 DEF Placed, Linkers
    <3> QED BY <1>3, <3>1, <3>2 DEF GetFill
  <2>6. \A c \in Classes : hash'[c] # None => c \in born BY <1>0, <2>1, <2>2 DEF Born, Typed
  <2> QED BY <1>3, <2>3, <2>5, <2>6, ReachAside DEF GetFill
<1>4. CASE Refuse(p) BY <1>4, ReachReturn DEF Refuse
<1>5. CASE ReadDone(p) BY <1>5, ReachReturn DEF ReadDone, At
<1> QED BY <1>1, <1>2, <1>3, <1>4, <1>5

\* One class of the request is named anew.
LEMMA Renamed ==
  ASSUME Typed, NEW p \in Procs, NEW c \in Classes
  PROVE  /\ [req EXCEPT ![p].class = c] \in [Procs -> Request]
         /\ [req EXCEPT ![p].other = c] \in [Procs -> Request]
<1>1. req[p] \in Request BY DEF Typed
<1>2. [req[p] EXCEPT !.class = c] \in Request /\ [req[p] EXCEPT !.other = c] \in Request BY <1>1 DEF Request
<1> QED BY <1>2 DEF Typed

LEMMA ReachList ==
  ASSUME ReachInv, NEW p \in Procs, List(p) \/ ListChildren(p)
  PROVE  ReachInv'
<1> USE DEF db, cache, local, history
<1>0. Typed /\ Placed(p) /\ Born BY DEF ReachInv
<1>1. CASE List(p)
  <2>1. CASE Return(p) BY <1>1, <2>1, ReachReturn DEF List
  <2>2. CASE Goto(p, "get") /\ \E c \in group : req' = [req EXCEPT ![p].class = c]
             /\ UNCHANGED <<view, view2, found, tx>>
    <3> PICK c \in group : req' = [req EXCEPT ![p].class = c] BY <2>2
    <3>1. c \in Classes BY <1>0 DEF Typed
    <3>2. req' \in [Procs -> Request] /\ \A q \in Procs \ {p} : req'[q] = req[q] BY <1>0, <3>1, Renamed DEF Typed
    <3>3. Typed' /\ Frame(p) /\ pc'[p] = "get" BY <1>0, <1>1, <2>2, <3>2 DEF Typed, Frame, Goto, List, Labels
    <3>4. Placed(p)' BY <3>3 DEF Placed, Linkers
    <3> QED BY <1>0, <1>1, <2>2, <3>3, <3>4, ReachAside DEF List, Born
  <2> QED BY <1>1, <2>1, <2>2 DEF List
<1>2. CASE ListChildren(p)
  <2>1. CASE Return(p) BY <1>2, <2>1, ReachReturn DEF ListChildren, At
  <2>2. CASE Goto(p, "get2") /\ \E s \in view[p].children : req' = [req EXCEPT ![p].other = s]
             /\ UNCHANGED <<view, view2, found, tx>>
    <3> PICK s \in view[p].children : req' = [req EXCEPT ![p].other = s] BY <2>2
    <3>1. pc[p] = "have" /\ req[p].op = "children" /\ view[p] \in ClassInfo
      BY <1>0, <1>2 DEF ListChildren, At, Placed, Typed
    <3>2. s \in Classes BY <3>1, RowFields
    <3>3. req' \in [Procs -> Request] /\ \A q \in Procs \ {p} : req'[q] = req[q] BY <1>0, <3>2, Renamed DEF Typed
    <3>4. req'[p].op = req[p].op /\ req'[p].class = req[p].class
      <4>1. req[p] \in Request BY <1>0 DEF Typed
      <4>2. req'[p] = [req[p] EXCEPT !.other = s] BY <1>0 DEF Typed
      <4> QED BY <4>1, <4>2 DEF Request
    <3>5. Typed' /\ Frame(p) /\ pc'[p] = "get2"
      BY <1>0, <1>2, <2>2, <3>3 DEF Typed, Frame, Goto, ListChildren, Labels
    <3>6. UNCHANGED <<born, view>> BY <1>2, <2>2 DEF ListChildren
    <3>7. Placed(p)' BY <1>0, <3>1, <3>4, <3>5, <3>6 DEF Placed, Linkers
    <3> QED BY <1>0, <1>2, <2>2, <3>1, <3>5, <3>7, ReachAside DEF ListChildren, Born
  <2> QED BY <1>2, <2>1, <2>2 DEF ListChildren
<1> QED BY <1>1, <1>2

\* What the caller does with the class that a course leads to.
LEMMA ReachAnswer ==
  ASSUME ReachInv, NEW p \in Procs, NEW c \in Classes \union {None}, Answer(p, c),
         pc[p] \in {"find", "findFill"}, UNCHANGED <<row, born, hash, group, lock, scene>>,
         index' \in [Courses -> Classes \union {None}]
  PROVE  ReachInv'
<1> USE DEF local
<1>0. Typed /\ Placed(p) /\ Born BY DEF ReachInv
<1>9. req[p].op \in {"add", "find", "locate", "change"} BY <1>0 DEF Placed
<1>8. ASSUME Typed', Frame(p), Placed(p)' PROVE ReachInv'
  BY <1>0, <1>8, ReachAside DEF Born
<1>1. CASE Return(p)
  <2>1. Typed' /\ Frame(p) /\ pc'[p] = "idle" BY <1>0, <1>1, TypeReturn DEF Typed, Frame
  <2>2. Placed(p)' BY <2>1 DEF Placed, Linkers
  <2> QED BY <1>8, <2>1, <2>2
<1>2. CASE req[p].op \in {"find", "locate"} /\ c # None /\ ~Return(p)
  <2>1. /\ Goto(p, IF req[p].op = "find" THEN "get" ELSE "locate")
        /\ req' = [req EXCEPT ![p].class = c] /\ UNCHANGED <<view, view2, found, tx>>
    BY <1>2 DEF Answer
  <2>2. req' \in [Procs -> Request] /\ \A q \in Procs \ {p} : req'[q] = req[q]
    BY <1>0, <1>2, <2>1, Renamed DEF Typed
  <2>3. req'[p].op = req[p].op
    <3>1. req[p] \in Request /\ req'[p] = [req[p] EXCEPT !.class = c] BY <1>0, <2>1 DEF Typed
    <3> QED BY <3>1 DEF Request
  <2>4. /\ Typed' /\ Frame(p) /\ pc'[p] \in {"get", "locate"}
        /\ pc'[p] = "locate" => req[p].op = "locate"
    BY <1>0, <1>2, <2>1, <2>2 DEF Typed, Frame, Goto, Labels
  <2>5. Placed(p)' BY <2>3, <2>4 DEF Placed, Linkers
  <2> QED BY <1>8, <2>4, <2>5
<1>3. CASE req[p].op \in {"add", "change"} /\ ~Return(p)
  <2> DEFINE l == IF req[p].op = "add" THEN "insert" ELSE "write"
  <2>1. Goto(p, l) /\ UNCHANGED local BY <1>3 DEF Answer
  <2>2. Typed' /\ Frame(p) /\ pc'[p] = l BY <1>0, <2>1 DEF Typed, Frame, Goto, Labels
  <2>3. req'[p] = req[p] /\ view'[p] = view[p] BY <2>1
  <2>4. l = "write" => req[p].op = "change" /\ view[p] # None /\ ChecksCourse(p) BY <1>0, <1>3 DEF Placed
  <2>5. Placed(p)'
    <3>1. CASE l = "insert" BY <1>3, <2>2, <2>3, <3>1 DEF Placed, Linkers
    <3>2. CASE l = "write" BY <2>2, <2>3, <2>4, <3>2 DEF Placed, Linkers, ChecksCourse, ChangesCourse
    <3> QED BY <3>1, <3>2
  <2> QED BY <1>8, <2>2, <2>5
<1>4. CASE req[p].op \in {"find", "locate"} /\ c = None BY <1>1, <1>4 DEF Answer
<1> QED BY <1>1, <1>2, <1>3, <1>4, <1>9

LEMMA ReachFind ==
  ASSUME ReachInv, NEW p \in Procs,
         FindHit(p) \/ FindNone(p) \/ FindRow(p) \/ FindFill(p) \/ FindFails(p)
  PROVE  ReachInv'
<1> USE DEF db, cache, local, history
<1>0. Typed /\ Placed(p) /\ Born /\ req[p].course \in Courses \union {None} BY ReqFields DEF ReachInv
<1>1. CASE FindHit(p)
  <2>1. index[req[p].course] \in Classes \union {None} BY <1>0, <1>1 DEF FindHit, Typed, Placed
  <2> QED BY <1>0, <1>1, <2>1, ReachAnswer DEF FindHit, Typed
<1>2. CASE FindNone(p) BY <1>0, <1>2, ReachAnswer DEF FindNone, Typed
<1>3. CASE FindRow(p)
  <2>1. PICK c \in Live : found' = [found EXCEPT ![p] = c] BY <1>3 DEF FindRow
  <2>2. c \in Classes /\ c # None BY NoneIsNone DEF Live
  <2>3. Typed' /\ Frame(p) /\ pc'[p] = "findFill" /\ found'[p] = c
    BY <1>0, <1>3, <2>1, <2>2 DEF FindRow, Typed, Frame, Goto, Labels
  <2>4. req' = req /\ view' = view BY <1>3 DEF FindRow
  <2>5. Placed(p)' BY <1>0, <1>3, <2>2, <2>3, <2>4 DEF Placed, Linkers, FindRow, ChecksCourse, ChangesCourse
  <2> QED BY <1>0, <1>3, <2>3, <2>5, ReachAside DEF FindRow, Born
<1>4. CASE FindFill(p)
  <2>1. found[p] \in Classes /\ req[p].course \in Courses BY <1>0, <1>4 DEF FindFill, Placed, Typed
  <2>2. index' \in [Courses -> Classes \union {None}] BY <1>0, <1>4, <2>1 DEF FindFill, Typed
  <2> QED BY <1>4, <2>1, <2>2, ReachAnswer DEF FindFill
<1>5. CASE FindFails(p) BY <1>0, <1>5, ReachAnswer DEF FindFails, Typed
<1> QED BY <1>1, <1>2, <1>3, <1>4, <1>5

LEMMA ReachLocate ==
  ASSUME ReachInv, NEW p \in Procs, LocateHit(p) \/ LocateRow(p) \/ LocateNone(p) \/ LocateFill(p)
  PROVE  ReachInv'
<1> USE DEF db, cache, local, history
<1>0. Typed /\ Placed(p) /\ Born /\ req[p].class \in Classes BY ReqFields DEF ReachInv
<1>1. CASE LocateHit(p)
  <2>1. hash[req[p].class] \in ClassInfo BY <1>0, <1>1 DEF LocateHit, Typed
  <2>2. PICK c \in IF hash[req[p].class].package THEN hash[req[p].class].children ELSE {req[p].class} :
          req' = [req EXCEPT ![p].class = c]
    BY <1>1 DEF LocateHit
  <2>3. c \in Classes BY <1>0, <2>1, <2>2, RowFields
  <2>4. req' \in [Procs -> Request] /\ \A q \in Procs \ {p} : req'[q] = req[q] BY <1>0, <2>2, <2>3, Renamed DEF Typed
  <2>5. Typed' /\ Frame(p) /\ pc'[p] = "get" BY <1>0, <1>1, <2>4 DEF LocateHit, Typed, Frame, Goto, Labels
  <2>6. Placed(p)' BY <2>5 DEF Placed, Linkers
  <2> QED BY <1>0, <1>1, <2>5, <2>6, ReachAside DEF LocateHit, Born
<1>2. CASE LocateRow(p)
  <2>1. row[req[p].class] \in ClassInfo BY <1>0, <1>2 DEF LocateRow, Typed
  <2>2. Typed' /\ Frame(p) /\ pc'[p] = "locateFill" /\ view'[p] = row[req[p].class] /\ req' = req
    BY <1>0, <1>2, <2>1 DEF LocateRow, Typed, Frame, Goto, Labels
  <2>3. Placed(p)' BY <1>0, <1>2, <2>2 DEF Placed, Linkers, LocateRow
  <2> QED BY <1>0, <1>2, <2>2, <2>3, ReachAside DEF LocateRow, Born
<1>3. CASE LocateNone(p) BY <1>3, ReachReturn DEF LocateNone
<1>4. CASE LocateFill(p)
  <2> DEFINE c == req[p].class
  <2>1. view[p] \in ClassInfo /\ view[p].package \in BOOLEAN /\ view[p].children \in SUBSET Classes
    BY <1>0, <1>4, RowFields DEF LocateFill, Placed, Typed
  <2>2. /\ hash' \in [Classes -> ClassInfo \union {None}]
        /\ \A d \in Classes : hash'[d] # None => hash[d] # None
    <3>1. CASE hash[c] = None BY <1>0, <1>4, <3>1 DEF LocateFill, Typed
    <3>2. CASE hash[c] # None
      <4>1. hash[c] \in ClassInfo BY <1>0, <3>2 DEF Typed
      <4>2. [hash[c] EXCEPT !.package = view[p].package, !.children = view[p].children] \in ClassInfo
        BY <2>1, <4>1, RowEdits
      <4>3. hash' = [hash EXCEPT ![c] = [hash[c] EXCEPT !.package = view[p].package, !.children = view[p].children]]
        BY <1>0, <1>4, <3>2 DEF LocateFill, Typed
      <4> QED BY <1>0, <3>2, <4>2, <4>3 DEF Typed
    <3> QED BY <3>1, <3>2
  <2>3. UNCHANGED <<scene, row, born, group, index, lock>> BY <1>4 DEF LocateFill
  <2>4. ASSUME Typed', Frame(p), Placed(p)' PROVE ReachInv'
    BY <1>0, <1>4, <2>2, <2>3, <2>4, ReachAside DEF LocateFill, Born
  <2>5. CASE Return(p)
    <3>1. Typed' /\ Frame(p) /\ pc'[p] = "idle" BY <1>0, <2>2, <2>3, <2>5, TypeReturn DEF Typed, Frame
    <3>2. Placed(p)' BY <3>1 DEF Placed, Linkers
    <3> QED BY <2>4, <3>1, <3>2
  <2>6. CASE /\ Goto(p, "get") /\ view' = [view EXCEPT ![p] = None]
             /\ \E s \in IF view[p].package THEN view[p].children ELSE {c} :
                  req' = [req EXCEPT ![p].class = s]
             /\ UNCHANGED <<view2, found, tx>>
    <3> PICK s \in IF view[p].package THEN view[p].children ELSE {c} : req' = [req EXCEPT ![p].class = s]
      BY <2>6
    <3>1. s \in Classes BY <1>0, <2>1
    <3>2. req' \in [Procs -> Request] /\ \A q \in Procs \ {p} : req'[q] = req[q] BY <1>0, <3>1, Renamed DEF Typed
    <3>3. Typed' /\ Frame(p) /\ pc'[p] = "get" BY <1>0, <2>2, <2>3, <2>6, <3>2 DEF Typed, Frame, Goto, Labels
    <3>4. Placed(p)' BY <3>3 DEF Placed, Linkers
    <3> QED BY <2>4, <3>3, <3>4
  <2> QED BY <1>4, <2>5, <2>6 DEF LocateFill
<1> QED BY <1>1, <1>2, <1>3, <1>4

\* One row changes but for the classes it names, and no other handler holds it.
LEMMA ReachRow ==
  ASSUME ReachInv, NEW p \in Procs, Typed', Frame(p), Placed(p)', UNCHANGED <<born, lock>>,
         NEW c \in Classes, NEW r, row' = [row EXCEPT ![c] = r], row[c] # None, lock[c] = None,
         r # None => r.parents \subseteq row[c].parents,
         \A d \in Classes : hash'[d] # None => d \in born,
         pc[p] \notin {"hash1", "list1", "commit1", "hash2", "list2", "commit2"}
  PROVE  ReachInv'
<1>0. Typed /\ Born BY DEF ReachInv
<1>1. row'[c] = r /\ \A d \in Classes \ {c} : row'[d] = row[d] BY <1>0 DEF Typed
<1>2. Born'
  <2>1. row[c].parents \subseteq born /\ c \in born BY <1>0 DEF Born
  <2> QED BY <1>0, <1>1, <2>1 DEF Born
<1>3. World(p)
  <2>1. \A d \in born : row[d] = None => row'[d] = None BY <1>0, <1>1 DEF Typed
  <2>2. \A d \in Classes : lock[d] \notin {None, p} => row'[d] = row[d] BY <1>1
  <2> QED BY <2>1, <2>2 DEF World
<1>4. \A d \in Classes : lock'[d] # p BY Unlocked
<1> QED BY <1>2, <1>3, <1>4, ReachFrame

\* Nothing moves but p.
LEMMA ReachQuiet ==
  ASSUME ReachInv, NEW p \in Procs, Typed', Frame(p), Placed(p)', UNCHANGED <<row, born, lock, hash>>,
         pc[p] \notin {"hash1", "list1", "commit1", "hash2", "list2", "commit2"}
  PROVE  ReachInv'
BY ReachAside DEF ReachInv, Born

LEMMA ReachAdd ==
  ASSUME ReachInv, NEW p \in Procs, Insert(p) \/ CacheNew(p) \/ ListNew(p)
  PROVE  ReachInv'
<1> USE DEF db, cache, local, history
<1>0. Typed /\ Placed(p) /\ Born BY DEF ReachInv
<1>1. CASE Insert(p)
  <2> DEFINE c == CHOOSE c \in Classes : c \notin born
  <2>1. c \in Classes /\ c \notin born BY <1>0, <1>1 DEF Insert, Typed
  <2>2. /\ row' = [row EXCEPT ![c] = NewClass(p)] /\ born' = born \union {c}
        /\ found' = [found EXCEPT ![p] = c]
        /\ UNCHANGED <<scene, hash, group, index, lock, req, view, view2, tx>>
    BY <1>1 DEF Insert
  <2> HIDE DEF c
  <2>3. NewClass(p) \in ClassInfo BY <1>0, <1>1, NewClassType DEF Insert, At, Placed, Makes
  <2>4. Typed' /\ Frame(p) /\ pc'[p] = "cacheNew" /\ found'[p] = c
    BY <1>0, <1>1, <2>1, <2>2, <2>3 DEF Insert, Typed, Frame, Goto, Labels
  <2>5. req[p].op \in Makes /\ (req[p].op = "clone" => view[p] # None)
    BY <1>0, <1>1 DEF Insert, At, Placed, Makes
  <2>6. Placed(p)' BY <2>2, <2>4, <2>5 DEF Placed, Linkers
  <2>7. row[c] = None BY <1>0, <2>1 DEF Born
  <2>8. \A d \in Classes \ {c} : row'[d] = row[d] BY <1>0, <2>2 DEF Typed
  <2>9. row'[c] = NewClass(p) /\ NewClass(p).parents = {}
    BY <1>0, <2>1, <2>2 DEF Typed, NewClass
  <2>10. Born' BY <1>0, <2>2, <2>8, <2>9 DEF Born
  <2>11. Locked(c) /\ lock[c] = None BY <2>1, <2>7 DEF ReachInv, Locked
  <2>12. World(p)
    <3>1. \A d \in born : row[d] = None => row'[d] = None BY <1>0, <2>1, <2>8 DEF Typed
    <3>2. \A d \in Classes : lock[d] \notin {None, p} => row'[d] = row[d] BY <2>8, <2>11
    <3> QED BY <2>2, <3>1, <3>2 DEF World
  <2>13. \A d \in Classes : lock'[d] # p BY <1>1, <2>2, Unlocked DEF Insert, At
  <2> QED BY <2>4, <2>6, <2>10, <2>12, <2>13, ReachFrame
<1>2. CASE CacheNew(p)
  <2>1. found[p] \in Classes /\ found[p] \in born /\ req[p].op \in Makes BY <1>0, <1>2 DEF CacheNew, Placed, Typed
  <2>2. NewClass(p) \in ClassInfo BY <1>0, <2>1, NewClassType
  <2>3. /\ Typed' /\ Frame(p) /\ UNCHANGED <<row, born, lock, req, view, found>>
        /\ pc'[p] = IF CourseOf(p) = None THEN "listNew" ELSE "index"
    BY <1>0, <1>2, <2>1, <2>2 DEF CacheNew, Typed, Frame, Goto, Labels
  <2>4. \A d \in Classes : hash'[d] # None => d \in born BY <1>0, <1>2, <2>1 DEF CacheNew, Born, Typed
  <2>5. Placed(p)'
    <3>1. CASE CourseOf(p) = None BY <1>0, <1>2, <2>1, <2>3, <3>1 DEF Placed, Linkers, CacheNew
    <3>2. CASE CourseOf(p) # None
      <4>1. req[p].op = "add" /\ req[p].course # None BY <3>2 DEF CourseOf
      <4> QED BY <2>1, <2>3, <3>2, <4>1 DEF Placed, Linkers
    <3> QED BY <3>1, <3>2
  <2> QED BY <1>2, <2>3, <2>4, <2>5, ReachAside DEF CacheNew
<1>3. CASE ListNew(p)
  <2>1. found[p] \in born /\ found[p] \in Classes /\ req[p].op \in Makes
        /\ (req[p].op = "clone" => view[p] # None)
    BY <1>0, <1>3 DEF ListNew, Placed, Typed
  <2>2. group' \in SUBSET Classes /\ UNCHANGED <<scene, row, born, lock, hash, index>>
    BY <1>0, <1>3, <2>1 DEF ListNew, Typed
  <2>3. CASE req[p].op = "add"
    <3>1. Return(p) BY <1>3, <2>3 DEF ListNew
    <3>2. Typed' /\ Frame(p) /\ pc'[p] = "idle" BY <1>0, <2>2, <3>1, TypeReturn DEF Typed, Frame
    <3>3. Placed(p)' BY <3>2 DEF Placed, Linkers
    <3> QED BY <1>3, <2>2, <3>2, <3>3, ReachQuiet DEF ListNew
  <2>4. CASE req[p].op # "add"
    <3> DEFINE l == IF req[p].op = "clone" THEN "copy" ELSE "import"
    <3>1. Goto(p, l) /\ UNCHANGED local BY <1>3, <2>1, <2>4 DEF ListNew, Makes
    <3>2. Typed' /\ Frame(p) /\ pc'[p] = l BY <1>0, <2>2, <3>1 DEF Typed, Frame, Goto, Labels
    <3>3. Placed(p)' BY <2>1, <2>2, <2>4, <3>1, <3>2 DEF Placed, Linkers
    <3> QED BY <1>3, <2>2, <3>2, <3>3, ReachQuiet DEF ListNew
  <2> QED BY <2>3, <2>4
<1> QED BY <1>1, <1>2, <1>3

LEMMA ReachCopy ==
  ASSUME ReachInv, NEW p \in Procs, CloneList(p) \/ CloneCache(p) \/ ImportMeeting(p) \/ ImportDone(p)
  PROVE  ReachInv'
<1> USE DEF db, cache, local, history
<1>0. Typed /\ Placed(p) /\ Born BY DEF ReachInv
<1>1. CASE CloneList(p)
  <2>1. /\ view[p] \in ClassInfo /\ view[p].full \in BOOLEAN /\ found[p] \in born /\ found[p] \in Classes
    BY <1>0, <1>1, RowFields DEF CloneList, Placed, Typed
  <2>2. UNCHANGED <<scene, born, hash, group, index, lock, req, view, view2, found, tx>> /\ pc[p] = "copy"
        /\ Goto(p, "copied")
    BY <1>1 DEF CloneList
  <2>3. CASE found[p] \notin Live
    <3>1. row' = row BY <1>1, <2>3 DEF CloneList
    <3>2. Typed' /\ Frame(p) /\ pc'[p] = "copied" BY <1>0, <2>2, <3>1 DEF Typed, Frame, Goto, Labels
    <3>3. Placed(p)' BY <1>0, <2>2, <3>2 DEF Placed, Linkers
    <3> QED BY <2>2, <3>1, <3>2, <3>3, ReachQuiet
  <2>4. CASE found[p] \in Live
    <3> DEFINE r == [row[found[p]] EXCEPT !.full = view[p].full]
    <3>1. row[found[p]] \in ClassInfo /\ row[found[p]] # None BY <1>0, <2>1, <2>4 DEF Live, Typed
    <3>2. row' = [row EXCEPT ![found[p]] = r] BY <1>0, <1>1, <2>1, <2>4 DEF CloneList, Typed
    <3>3. r \in ClassInfo /\ r.children = row[found[p]].children /\ r.parents = row[found[p]].parents
      BY <2>1, <3>1 DEF ClassInfo
    <3>4. Typed' /\ Frame(p) /\ pc'[p] = "copied" BY <1>0, <2>1, <2>2, <3>2, <3>3 DEF Typed, Frame, Goto, Labels
    <3>5. Placed(p)' BY <1>0, <2>2, <3>4 DEF Placed, Linkers
    <3>6. lock[found[p]] = None BY <1>1 DEF CloneList
    <3> HIDE DEF r
    <3> QED BY <1>0, <2>1, <2>2, <3>1, <3>2, <3>3, <3>4, <3>5, <3>6, ReachRow DEF Born
  <2> QED BY <2>3, <2>4
<1>2. CASE CloneCache(p)
  <2>1. view[p] \in ClassInfo /\ view[p].full \in BOOLEAN /\ found[p] \in Classes
    BY <1>0, <1>2, RowFields DEF CloneCache, Placed, Typed
  <2>2. hash' \in [Classes -> ClassInfo \union {None}] /\ \A d \in Classes : hash'[d] # None => hash[d] # None
    <3>1. CASE hash[found[p]] = None BY <1>0, <1>2, <3>1 DEF CloneCache, Typed
    <3>2. CASE hash[found[p]] # None
      <4>1. hash[found[p]] \in ClassInfo BY <1>0, <2>1, <3>2 DEF Typed
      <4>2. [hash[found[p]] EXCEPT !.full = view[p].full] \in ClassInfo BY <2>1, <4>1, RowEdits
      <4>3. hash' = [hash EXCEPT ![found[p]] = [hash[found[p]] EXCEPT !.full = view[p].full]]
        BY <1>0, <1>2, <2>1, <3>2 DEF CloneCache, Typed
      <4> QED BY <1>0, <3>2, <4>2, <4>3 DEF Typed
    <3> QED BY <3>1, <3>2
  <2>3. Typed' /\ Frame(p) /\ pc'[p] = "idle"
    BY <1>0, <1>2, <2>2, TypeReturn DEF CloneCache, Typed, Frame
  <2>4. Placed(p)' BY <2>3 DEF Placed, Linkers
  <2> QED BY <1>0, <1>2, <2>2, <2>3, <2>4, ReachAside DEF CloneCache, Born
<1>3. CASE ImportMeeting(p)
  <2> DEFINE c == found[p]
             r == [row[c] EXCEPT !.full = TRUE]
  <2>1. c \in Classes /\ c \in born /\ row[c] # None /\ row[c] \in ClassInfo
    BY <1>0, <1>3 DEF ImportMeeting, Live, Typed, Placed
  <2>2. row' = [row EXCEPT ![c] = r] BY <1>0, <1>3, <2>1 DEF ImportMeeting, Typed
  <2>3. r \in ClassInfo /\ r.children = row[c].children /\ r.parents = row[c].parents BY <2>1 DEF ClassInfo
  <2>4. hash' \in [Classes -> ClassInfo \union {None}] /\ \A d \in Classes : hash'[d] # None => hash[d] # None
    <3>1. CASE hash[c] = None BY <1>0, <1>3, <3>1 DEF ImportMeeting, Typed
    <3>2. CASE hash[c] # None
      <4>1. hash[c] \in ClassInfo BY <1>0, <2>1, <3>2 DEF Typed
      <4>2. [hash[c] EXCEPT !.full = TRUE] \in ClassInfo BY <4>1, RowEdits
      <4>3. hash' = [hash EXCEPT ![c] = [hash[c] EXCEPT !.full = TRUE]]
        BY <1>0, <1>3, <2>1, <3>2 DEF ImportMeeting, Typed
      <4> QED BY <1>0, <3>2, <4>2, <4>3 DEF Typed
    <3> QED BY <3>1, <3>2
  <2>5. UNCHANGED <<scene, born, group, index, lock, req, view, view2, found, tx>> /\ pc[p] = "import"
        /\ Goto(p, "imported") /\ lock[c] = None
    BY <1>3 DEF ImportMeeting
  <2>6. row' \in [Classes -> ClassInfo \union {None}] BY <1>0, <2>2, <2>3 DEF Typed
  <2> HIDE DEF r
  <2>7. Typed' /\ Frame(p) /\ pc'[p] = "imported"
    BY <1>0, <2>4, <2>5, <2>6 DEF Typed, Frame, Goto, Labels
  <2>8. Placed(p)' BY <1>0, <2>5, <2>7 DEF Placed, Linkers
  <2> QED BY <1>0, <2>1, <2>2, <2>3, <2>4, <2>5, <2>7, <2>8, ReachRow DEF Born
<1>4. CASE ImportDone(p) BY <1>4, ReachReturn DEF ImportDone
<1> QED BY <1>1, <1>2, <1>3, <1>4

\* What ChangeClass, EndClass and SetAlly know before their UPDATE.
LEMMA MayWriteKnows ==
  ASSUME ReachInv, NEW p \in Procs, MayWrite(p)
  PROVE  /\ req[p].op \in {"change", "end", "ally"} /\ view[p] # None
         /\ ChecksCourse(p) => pc[p] = "write" /\ req[p].op = "change" /\ req[p].course # None
         /\ pc[p] \in {"write", "have", "have2"}
<1>1. Placed(p) BY DEF ReachInv
<1> QED BY <1>1 DEF MayWrite, At, Placed, ChecksCourse, ChangesCourse

LEMMA ReachWrite ==
  ASSUME ReachInv, NEW p \in Procs, Write(p)
  PROVE  ReachInv'
<1> USE DEF db, cache, local, history
<1>0. Typed /\ Placed(p) /\ Born /\ req[p].class \in Classes BY ReqFields DEF ReachInv
<1> DEFINE c == req[p].class
<1>1. /\ req[p].op \in {"change", "end", "ally"} /\ view[p] # None /\ lock[c] = None
      /\ pc[p] \in {"write", "have", "have2"} /\ Goto(p, "cacheWrite")
      /\ UNCHANGED <<scene, born, hash, group, index, lock, req, view, view2, found, tx>>
  BY MayWriteKnows DEF Write
<1>2. Typed' => Frame(p) /\ pc'[p] = "cacheWrite" /\ Placed(p)'
  <2>1. Frame(p) /\ pc'[p] = "cacheWrite" BY <1>0, <1>1 DEF Frame, Goto, Typed
  <2> QED BY <1>0, <1>1, <2>1 DEF Placed, Linkers
<1>3. CASE c \notin Live
  <2>1. row' = row BY <1>3 DEF Write
  <2>2. Typed' BY <1>0, <1>1, <2>1 DEF Typed, Goto, Labels
  <2> QED BY <1>1, <1>2, <2>1, <2>2, ReachQuiet
<1>4. CASE c \in Live
  <2>1. row[c] # None /\ row[c] \in ClassInfo BY <1>0, <1>4 DEF Live, Typed
  <2> DEFINE r == Applied(p, row[c])
  <2>2. row' = [row EXCEPT ![c] = r] BY <1>0, <1>4 DEF Write, Typed
  <2>3. r \in ClassInfo BY <1>0, <1>1, <2>1, AppliedType
  <2>4. r.parents \subseteq row[c].parents BY <1>1, <2>1 DEF Applied, ClassInfo
  <2> HIDE DEF r
  <2>5. row' \in [Classes -> ClassInfo \union {None}] BY <1>0, <2>2, <2>3 DEF Typed
  <2>6. Typed' BY <1>0, <1>1, <2>5 DEF Typed, Goto, Labels
  <2> QED BY <1>0, <1>1, <1>2, <2>1, <2>2, <2>4, <2>6, ReachRow DEF Born
<1> QED BY <1>3, <1>4

LEMMA ReachChange ==
  ASSUME ReachInv, NEW p \in Procs,
         \/ Closed(p) \/ ChangeFind(p) \/ AllyFind(p) \/ AllySame(p) \/ Write(p) \/ CacheWrite(p)
         \/ Unindex(p) \/ Index(p)
  PROVE  ReachInv'
<1> USE DEF db, cache, local, history
<1>0. Typed /\ Placed(p) /\ Born /\ req[p].class \in Classes /\ req[p].course \in Courses \union {None}
  BY ReqFields DEF ReachInv
<1>1. CASE Closed(p) BY <1>1, ReachReturn DEF Closed, At
<1>2. CASE ChangeFind(p)
  <2>1. /\ Typed' /\ Frame(p) /\ pc'[p] = "find" /\ Placed(p)' => ReachInv'
    BY <1>2, ReachGoto DEF ChangeFind, At, Labels
  <2>2. pc[p] = "have" /\ req[p].op = "change" /\ ChecksCourse(p) /\ req' = req /\ view' = view /\ born' = born
        /\ Goto(p, "find")
    BY <1>2 DEF ChangeFind, At
  <2>3. pc'[p] = "find" BY <1>0, <2>2 DEF Typed, Goto
  <2>4. view[p] # None /\ req[p].course # None BY <1>0, <2>2 DEF Placed, ChecksCourse
  <2>5. ChecksCourse(p)' BY <2>2 DEF ChecksCourse, ChangesCourse
  <2>6. Placed(p)' BY <2>2, <2>3, <2>4, <2>5 DEF Placed, Linkers
  <2>7. Typed' /\ Frame(p) BY <1>0, <1>2 DEF ChangeFind, At, Typed, Frame, Goto, Labels
  <2> QED BY <1>2, <2>2, <2>6, <2>7, ReachQuiet DEF ChangeFind
<1>3. CASE AllyFind(p)
  <2>1. Typed' /\ Frame(p) /\ pc'[p] = "get2" BY <1>0, <1>3 DEF AllyFind, Typed, Frame, Goto, Labels
  <2>2. Placed(p)' BY <1>0, <1>3, <2>1 DEF Placed, Linkers, AllyFind, At
  <2> QED BY <1>3, <2>1, <2>2, ReachQuiet DEF AllyFind, At
<1>4. CASE AllySame(p) BY <1>4, ReachReturn DEF AllySame, At
<1>5. CASE Write(p) BY <1>5, ReachWrite
<1>6. CASE CacheWrite(p)
  <2> DEFINE c == req[p].class
  <2>1. req[p].op \in {"change", "end", "ally"} /\ view[p] # None BY <1>0, <1>6 DEF CacheWrite, Placed
  <2>2. hash' \in [Classes -> ClassInfo \union {None}] /\ \A d \in Classes : hash'[d] # None => hash[d] # None
    <3>1. CASE hash[c] = None BY <1>0, <1>6, <3>1 DEF CacheWrite, Typed
    <3>2. CASE hash[c] # None
      <4>1. hash[c] \in ClassInfo BY <1>0, <3>2 DEF Typed
      <4>2. Applied(p, hash[c]) \in ClassInfo BY <1>0, <2>1, <4>1, AppliedType
      <4>3. hash' = [hash EXCEPT ![c] = Applied(p, hash[c])] BY <1>0, <1>6, <3>2 DEF CacheWrite, Typed
      <4> QED BY <1>0, <3>2, <4>2, <4>3 DEF Typed
    <3> QED BY <3>1, <3>2
  <2>3. UNCHANGED <<scene, row, born, group, index, lock>> /\ pc[p] = "cacheWrite" BY <1>6 DEF CacheWrite
  <2>4. CASE ~ChangesCourse(p)
    <3>1. Return(p) BY <1>6, <2>4 DEF CacheWrite
    <3>2. Typed' /\ Frame(p) /\ pc'[p] = "idle" BY <1>0, <2>2, <2>3, <3>1, TypeReturn DEF Typed, Frame
    <3>3. Placed(p)' BY <3>2 DEF Placed, Linkers
    <3> QED BY <1>0, <2>2, <2>3, <3>2, <3>3, ReachAside DEF Born
  <2>5. CASE ChangesCourse(p)
    <3> DEFINE l == IF view[p].course # None THEN "unindex" ELSE "index"
    <3>1. Goto(p, l) /\ UNCHANGED local BY <1>6, <2>5 DEF CacheWrite
    <3>2. req[p].op = "change" /\ (l = "index" => req[p].course # None) BY <2>5 DEF ChangesCourse
    <3>3. Typed' /\ Frame(p) /\ pc'[p] = l BY <1>0, <2>2, <2>3, <3>1 DEF Typed, Frame, Goto, Labels
    <3>4. Placed(p)' BY <2>1, <3>1, <3>2, <3>3 DEF Placed, Linkers
    <3> QED BY <1>0, <2>2, <2>3, <3>3, <3>4, ReachAside DEF Born
  <2> QED BY <2>4, <2>5
<1>7. CASE Unindex(p)
  <2>1. index' \in [Courses -> Classes \union {None}] BY <1>0, <1>7 DEF Unindex, Typed
  <2>2. UNCHANGED <<scene, row, born, hash, group, lock>> /\ pc[p] = "unindex" BY <1>7 DEF Unindex
  <2>3. CASE req[p].course = None
    <3>1. Return(p) BY <1>7, <2>3 DEF Unindex, AfterUnindex
    <3>2. Typed' /\ Frame(p) /\ pc'[p] = "idle" BY <1>0, <2>1, <2>2, <3>1, TypeReturn DEF Typed, Frame
    <3>3. Placed(p)' BY <3>2 DEF Placed, Linkers
    <3> QED BY <2>2, <3>2, <3>3, ReachQuiet
  <2>4. CASE req[p].course # None
    <3>1. Goto(p, "index") /\ UNCHANGED local BY <1>7, <2>4 DEF Unindex, AfterUnindex
    <3>2. Typed' /\ Frame(p) /\ pc'[p] = "index" BY <1>0, <2>1, <2>2, <3>1 DEF Typed, Frame, Goto, Labels
    <3>3. Placed(p)' BY <1>0, <2>2, <2>4, <3>1, <3>2 DEF Placed, Linkers
    <3> QED BY <2>2, <3>2, <3>3, ReachQuiet
  <2> QED BY <2>3, <2>4
<1>8. CASE Index(p)
  <2> DEFINE c == IF req[p].op = "add" THEN found[p] ELSE req[p].class
  <2>1. pc[p] = "index" /\ UNCHANGED <<scene, row, born, hash, group, lock>>
        /\ index' = [index EXCEPT ![req[p].course] = c]
    BY <1>8 DEF Index
  <2>2. c \in Classes BY <1>0, <2>1 DEF Placed, Typed
  <2>3. index' \in [Courses -> Classes \union {None}] BY <1>0, <2>1, <2>2 DEF Typed
  <2>4. CASE req[p].op = "add"
    <3>1. Goto(p, "listNew") /\ UNCHANGED local BY <1>8, <2>4 DEF Index
    <3>2. Typed' /\ Frame(p) /\ pc'[p] = "listNew" BY <1>0, <2>1, <2>3, <3>1 DEF Typed, Frame, Goto, Labels
    <3>3. Placed(p)' BY <1>0, <2>1, <2>4, <3>1, <3>2 DEF Placed, Linkers, Makes
    <3> QED BY <2>1, <3>2, <3>3, ReachQuiet
  <2>5. CASE req[p].op # "add"
    <3>1. Return(p) BY <1>8, <2>5 DEF Index
    <3>2. Typed' /\ Frame(p) /\ pc'[p] = "idle" BY <1>0, <2>1, <2>3, <3>1, TypeReturn DEF Typed, Frame
    <3>3. Placed(p)' BY <3>2 DEF Placed, Linkers
    <3> QED BY <2>1, <3>2, <3>3, ReachQuiet
  <2> QED BY <2>4, <2>5
<1> QED BY <1>1, <1>2, <1>3, <1>4, <1>5, <1>6, <1>7, <1>8

LEMMA ReachDelete ==
  ASSUME ReachInv, NEW p \in Procs, NotEmpty(p) \/ DeleteRow(p) \/ DeleteHash(p) \/ DeleteFromGroup(p)
  PROVE  ReachInv'
<1> USE DEF db, cache, local, history
<1>0. Typed /\ Placed(p) /\ Born /\ req[p].class \in Classes BY ReqFields DEF ReachInv
<1> DEFINE c == req[p].class
<1>1. CASE NotEmpty(p) BY <1>1, ReachReturn DEF NotEmpty, At
<1>2. CASE DeleteRow(p)
  <2>1. /\ pc[p] = "have" /\ c \in born /\ lock[c] = None /\ row' = [row EXCEPT ![c] = None]
        /\ UNCHANGED <<scene, born, hash, group, index, lock, req, view, view2, found, tx>>
    BY <1>0, <1>2 DEF DeleteRow, At, Placed
  <2>2. Typed' /\ Frame(p) /\ pc'[p] = "uncache"
    BY <1>0, <1>2, <2>1 DEF DeleteRow, Typed, Frame, Goto, Labels
  <2>3. row'[c] = None BY <1>0, <2>1 DEF Typed
  <2>4. Placed(p)' BY <2>1, <2>2, <2>3 DEF Placed, Linkers
  <2>5. CASE row[c] # None BY <1>0, <2>1, <2>2, <2>4, <2>5, ReachRow DEF Born
  <2>6. CASE row[c] = None
    <3>1. row' = row BY <1>0, <2>1, <2>6 DEF Typed
    <3> QED BY <2>1, <2>2, <2>4, <3>1, ReachQuiet
  <2> QED BY <2>5, <2>6
<1>3. CASE DeleteHash(p)
  <2>1. Typed' /\ Frame(p) /\ pc'[p] = "unlist" BY <1>0, <1>3 DEF DeleteHash, Typed, Frame, Goto, Labels
  <2>2. Placed(p)' BY <1>0, <1>3, <2>1 DEF Placed, Linkers, DeleteHash
  <2>3. \A d \in Classes : hash'[d] # None => d \in born BY <1>0, <1>3 DEF DeleteHash, Born, Typed
  <2> QED BY <1>3, <2>1, <2>2, <2>3, ReachAside DEF DeleteHash
<1>4. CASE DeleteFromGroup(p)
  <2>1. Typed' /\ Frame(p) /\ pc'[p] = "idle"
    BY <1>0, <1>4, TypeReturn DEF DeleteFromGroup, Typed, Frame
  <2>2. Placed(p)' BY <2>1 DEF Placed, Linkers
  <2> QED BY <1>4, <2>1, <2>2, ReachQuiet DEF DeleteFromGroup
<1> QED BY <1>1, <1>2, <1>3, <1>4

LEMMA ReachLinkAside ==
  ASSUME ReachInv, NEW p \in Procs, LinkSkip(p) \/ LinkStart(p) \/ PackageList(p) \/ ClassList(p)
  PROVE  ReachInv'
<1> USE DEF db, cache, local, history, Linking, At
<1>0. Typed /\ Placed(p) /\ Born /\ req[p].class \in Classes /\ req[p].other \in Classes
  BY ReqFields DEF ReachInv
<1>1. CASE LinkSkip(p) BY <1>1, ReachReturn DEF LinkSkip
<1>2. CASE LinkStart(p)
  <2>1. Typed' /\ Frame(p) /\ pc'[p] = "get2" BY <1>0, <1>2 DEF LinkStart, Typed, Frame, Goto, Labels
  <2>2. Placed(p)' BY <1>0, <1>2, <2>1 DEF Placed, Linkers, LinkStart, Links
  <2> QED BY <1>2, <2>1, <2>2, ReachQuiet DEF LinkStart
<1>3. ASSUME UNCHANGED <<row, born, lock, hash>>, Typed', Frame(p), Placed(p)',
             \A c \in Classes : lock[c] = p => Locked(c)'
      PROVE  ReachInv'
  <2>1. World(p) /\ Born' BY <1>0, <1>3 DEF World, Born
  <2> QED BY <1>3, <2>1, ReachFrame
<1>4. CASE PackageList(p)
  <2> DEFINE l == IF Holds(p, req[p].class) THEN "commit1" ELSE "tx2"
  <2>1. pc[p] = "list1" /\ req[p].op \in Links /\ Goto(p, l) /\ UNCHANGED <<scene, row, born, lock, hash, index, local>>
    BY <1>4 DEF PackageList, Links
  <2>2. group' \in SUBSET Classes BY <1>0, <1>4 DEF PackageList, Typed
  <2>3. Typed' /\ Frame(p) /\ pc'[p] = l BY <1>0, <2>1, <2>2 DEF Typed, Frame, Goto, Labels
  <2>4. Placed(p)' BY <1>0, <2>1, <2>3 DEF Placed, Linkers, Holds
  <2>5. ASSUME NEW c \in Classes, lock[c] = p PROVE Locked(c)'
    <3>1. Locked(c) /\ p # None BY NoneIsNone DEF ReachInv
    <3>2. /\ row[c] # None /\ c = req[p].class
          /\ tx[p] = [row[c] EXCEPT !.children = Edited(p, row[c].children, req[p].other)]
      BY <2>1, <2>5, <3>1 DEF Locked
    <3>3. l = "commit1" BY <2>5, <3>2 DEF Holds
    <3> QED BY <2>1, <2>3, <2>5, <3>2, <3>3 DEF Locked, FirstHalf, Edited
  <2> QED BY <1>3, <2>1, <2>3, <2>4, <2>5
<1>5. CASE ClassList(p)
  <2>1. pc[p] = "list2" /\ req[p].op \in Links /\ UNCHANGED <<scene, row, born, lock, hash, index>>
    BY <1>5 DEF ClassList, Links
  <2>2. group' \in SUBSET Classes BY <1>0, <1>5 DEF ClassList, Typed
  <2>3. ASSUME NEW c \in Classes, lock[c] = p
        PROVE  /\ row[c] # None /\ c = req[p].other
               /\ tx[p] = [row[c] EXCEPT !.parents = Edited(p, row[c].parents, req[p].class)]
    <3>1. Locked(c) /\ p # None BY NoneIsNone DEF ReachInv
    <3> QED BY <2>1, <2>3, <3>1 DEF Locked, FirstHalf
  <2>4. CASE Holds(p, req[p].other)
    <3>1. Goto(p, "commit2") /\ UNCHANGED local BY <1>5, <2>4 DEF ClassList
    <3>2. Typed' /\ Frame(p) /\ pc'[p] = "commit2" BY <1>0, <2>1, <2>2, <3>1 DEF Typed, Frame, Goto, Labels
    <3>3. Placed(p)' BY <1>0, <2>1, <2>4, <3>1, <3>2 DEF Placed, Linkers, Holds
    <3>4. ASSUME NEW c \in Classes, lock[c] = p PROVE Locked(c)'
      BY <2>1, <2>3, <3>1, <3>2, <3>4 DEF Locked, FirstHalf, Edited
    <3> QED BY <1>3, <2>1, <3>2, <3>3, <3>4
  <2>5. CASE ~Holds(p, req[p].other)
    <3>1. Return(p) BY <1>5, <2>5 DEF ClassList
    <3>2. Typed' /\ Frame(p) /\ pc'[p] = "idle" BY <1>0, <2>1, <2>2, <3>1, TypeReturn DEF Typed, Frame
    <3>3. Placed(p)' BY <3>2 DEF Placed, Linkers
    <3>4. \A c \in Classes : lock[c] # p BY <2>3, <2>5 DEF Holds
    <3> QED BY <1>3, <2>1, <3>2, <3>3, <3>4
  <2> QED BY <2>4, <2>5
<1> QED BY <1>1, <1>2, <1>4, <1>5

\* A transaction takes a row, or finds that it has nothing to change.
LEMMA ReachTake ==
  ASSUME ReachInv, NEW p \in Procs, NEW c \in Classes, NEW t \in ClassInfo, NEW l \in Labels, row[c] # None, lock[c] = None,
         Goto(p, l), tx' = [tx EXCEPT ![p] = t], lock' = lock \/ lock' = [lock EXCEPT ![c] = p],
         UNCHANGED <<db, cache, req, view, view2, found>>, req[p].op \in Links,
         pc[p] \notin {"hash1", "list1", "commit1", "hash2", "list2", "commit2"},
         {req[p].class, req[p].other} \subseteq born,
         \/ /\ l = "hash1" /\ c = req[p].class
            /\ t = [row[c] EXCEPT !.children = Edited(p, row[c].children, req[p].other)]
         \/ /\ l = "hash2" /\ c = req[p].other
            /\ t = [row[c] EXCEPT !.parents = Edited(p, row[c].parents, req[p].class)]
  PROVE  ReachInv'
<1> USE DEF db, cache
<1>0. Typed /\ Born BY DEF ReachInv
<1>1. Typed' /\ Frame(p) /\ pc'[p] = l /\ tx'[p] = t BY <1>0 DEF Typed, Frame, Goto
<1>2. t # None BY NoneIsNone
<1>3. Placed(p)' BY <1>1, <1>2 DEF Placed, Linkers
<1>4. \A d \in Classes : lock[d] # p BY Unlocked
<1>5. \A d \in Classes : lock'[d] = p => d = c BY <1>0, <1>4 DEF Typed
<1>6. ASSUME lock'[c] = p PROVE Locked(c)' BY <1>1, <1>6 DEF Locked, FirstHalf, Edited
<1>7. World(p) BY <1>0, NoneIsNone DEF World, Typed
<1>8. Born' BY <1>0 DEF Born
<1> QED BY <1>1, <1>3, <1>5, <1>6, <1>7, <1>8, ReachFrame

LEMMA ReachSelect ==
  ASSUME ReachInv, NEW p \in Procs, LinkPackage(p) \/ LinkClass(p)
  PROVE  ReachInv'
<1> USE DEF Linking, At
<1>0. /\ Typed /\ Placed(p) /\ Born /\ req[p].class \in Classes /\ req[p].other \in Classes
      /\ req[p].op \in Links
  BY ReqFields DEF ReachInv, LinkPackage, LinkClass, Links
<1>1. CASE LinkPackage(p)
  <2> DEFINE c == req[p].class
             new == Edited(p, row[c].children, req[p].other)
  <2>1. CASE c \notin Live BY <1>1, <2>1, ReachReturn DEF LinkPackage
  <2>2. CASE c \in Live
    <3>1. row[c] # None /\ row[c] \in ClassInfo BY <1>0, <2>2 DEF Live, Typed
    <3>2. new \in SUBSET Classes BY <1>0, <3>1, RowFields DEF Edited
    <3>3. [row[c] EXCEPT !.children = new] \in ClassInfo BY <3>1, <3>2, RowEdits
    <3>4. /\ Goto(p, "hash1") /\ tx' = [tx EXCEPT ![p] = [row[c] EXCEPT !.children = new]]
          /\ lock' = lock \/ lock' = [lock EXCEPT ![c] = p]
          /\ UNCHANGED <<db, cache, req, view, view2, found>> /\ lock[c] = None /\ pc[p] = "have2"
      BY <1>1, <2>2 DEF LinkPackage, local
    <3>5. {req[p].class, req[p].other} \subseteq born /\ "hash1" \in Labels BY <1>0, <3>4 DEF Placed, Labels
    <3> QED BY <1>0, <3>1, <3>3, <3>4, <3>5, ReachTake
  <2> QED BY <2>1, <2>2
<1>2. CASE LinkClass(p)
  <2> DEFINE c == req[p].other
             new == Edited(p, row[c].parents, req[p].class)
  <2>1. CASE c \notin Live BY <1>2, <2>1, ReachReturn DEF LinkClass
  <2>2. CASE c \in Live
    <3>1. row[c] # None /\ row[c] \in ClassInfo BY <1>0, <2>2 DEF Live, Typed
    <3>2. new \in SUBSET Classes BY <1>0, <3>1, RowFields DEF Edited
    <3>3. [row[c] EXCEPT !.parents = new] \in ClassInfo BY <3>1, <3>2, RowEdits
    <3>4. /\ Goto(p, "hash2") /\ tx' = [tx EXCEPT ![p] = [row[c] EXCEPT !.parents = new]]
          /\ lock' = lock \/ lock' = [lock EXCEPT ![c] = p]
          /\ UNCHANGED <<db, cache, req, view, view2, found>> /\ lock[c] = None /\ pc[p] = "tx2"
      BY <1>2, <2>2 DEF LinkClass, local
    <3>5. {req[p].class, req[p].other} \subseteq born /\ "hash2" \in Labels BY <1>0, <3>4 DEF Placed, Labels, Linkers
    <3> QED BY <1>0, <3>1, <3>3, <3>4, <3>5, ReachTake
  <2> QED BY <2>1, <2>2
<1> QED BY <1>1, <1>2

\* What p holds, when it holds a row.
LEMMA Holding ==
  ASSUME ReachInv, NEW p \in Procs, NEW c \in Classes, lock[c] = p
  PROVE  /\ row[c] # None /\ row[c] \in ClassInfo
         /\ \/ /\ pc[p] \in FirstHalf /\ c = req[p].class
               /\ tx[p] = [row[c] EXCEPT !.children = Edited(p, row[c].children, req[p].other)]
            \/ /\ pc[p] \in {"hash2", "list2", "commit2"} /\ c = req[p].other
               /\ tx[p] = [row[c] EXCEPT !.parents = Edited(p, row[c].parents, req[p].class)]
<1>1. Locked(c) /\ p # None BY NoneIsNone DEF ReachInv
<1>2. row[c] # None BY <1>1 DEF Locked
<1>3. row[c] \in ClassInfo BY <1>2 DEF ReachInv, Typed
<1> QED BY <1>1, <1>3 DEF Locked

\* The hash of a class, if there is one, gets a list.
LEMMA HashEdits ==
  ASSUME Typed, NEW c \in Classes, NEW S \in SUBSET Classes,
         \/ hash' = IF hash[c] = None THEN hash ELSE [hash EXCEPT ![c].children = S]
         \/ hash' = IF hash[c] = None THEN hash ELSE [hash EXCEPT ![c].parents = S]
  PROVE  /\ hash' \in [Classes -> ClassInfo \union {None}]
         /\ \A d \in Classes : hash'[d] # None => hash[d] # None
<1>1. CASE hash[c] = None BY <1>1 DEF Typed
<1>2. CASE hash[c] # None
  <2>1. hash[c] \in ClassInfo BY <1>2 DEF Typed
  <2>2. [hash[c] EXCEPT !.children = S] \in ClassInfo /\ [hash[c] EXCEPT !.parents = S] \in ClassInfo BY <2>1, RowEdits
  <2>3. \/ hash' = [hash EXCEPT ![c] = [hash[c] EXCEPT !.children = S]]
        \/ hash' = [hash EXCEPT ![c] = [hash[c] EXCEPT !.parents = S]]
    BY <1>2 DEF Typed
  <2> QED BY <1>2, <2>2, <2>3 DEF Typed
<1> QED BY <1>1, <1>2

LEMMA ReachCaches ==
  ASSUME ReachInv, NEW p \in Procs, PackageCache(p) \/ ClassCache(p)
  PROVE  ReachInv'
<1> USE DEF db, cache, local, history, Linking, At
<1>0. /\ Typed /\ Placed(p) /\ Born /\ req[p].class \in Classes /\ req[p].other \in Classes
      /\ req[p].op \in Links
  BY ReqFields DEF ReachInv, PackageCache, ClassCache, Links
<1>1. /\ tx[p] \in ClassInfo /\ tx[p].children \in SUBSET Classes /\ tx[p].parents \in SUBSET Classes
  BY <1>0, RowFields DEF PackageCache, ClassCache, Placed, Linkers, Typed
<1>2. ASSUME UNCHANGED <<row, born, lock>>, \A d \in Classes : hash'[d] # None => hash[d] # None,
             Typed', Frame(p), Placed(p)', \A c \in Classes : lock[c] = p => Locked(c)'
      PROVE  ReachInv'
  <2>1. World(p) /\ Born' BY <1>0, <1>2 DEF World, Born
  <2> QED BY <1>2, <2>1, ReachFrame
<1>3. CASE PackageCache(p)
  <2> DEFINE l == IF req[p].op = "sub" \/ ~Holds(p, req[p].class) THEN "list1" ELSE "commit1"
  <2>1. /\ pc[p] = "hash1" /\ Goto(p, l) /\ UNCHANGED <<scene, row, born, lock, group, index, req, view, view2, found, tx>>
        /\ hash' \in [Classes -> ClassInfo \union {None}] /\ \A d \in Classes : hash'[d] # None => hash[d] # None
    BY <1>0, <1>1, <1>3, HashEdits DEF PackageCache
  <2>2. Typed' /\ Frame(p) /\ pc'[p] = l BY <1>0, <2>1 DEF Typed, Frame, Goto, Labels
  <2>3. Placed(p)' BY <1>0, <2>1, <2>2 DEF Placed, Linkers, Holds
  <2>4. ASSUME NEW c \in Classes, lock[c] = p PROVE Locked(c)'
    <3>1. /\ row[c] # None /\ c = req[p].class
          /\ tx[p] = [row[c] EXCEPT !.children = Edited(p, row[c].children, req[p].other)]
      BY <2>1, <2>4, Holding DEF FirstHalf
    <3> QED BY <2>1, <2>2, <2>4, <3>1 DEF Locked, FirstHalf, Edited
  <2> QED BY <1>2, <2>1, <2>2, <2>3, <2>4
<1>4. CASE ClassCache(p)
  <2>1. /\ pc[p] = "hash2" /\ UNCHANGED <<scene, row, born, lock, group, index>>
        /\ hash' \in [Classes -> ClassInfo \union {None}] /\ \A d \in Classes : hash'[d] # None => hash[d] # None
    BY <1>0, <1>1, <1>4, HashEdits DEF ClassCache
  <2>2. ASSUME NEW c \in Classes, lock[c] = p
        PROVE  /\ row[c] # None /\ c = req[p].other
               /\ tx[p] = [row[c] EXCEPT !.parents = Edited(p, row[c].parents, req[p].class)]
    BY <2>1, <2>2, Holding DEF FirstHalf
  <2>3. ASSUME NEW l \in {"list2", "commit2"}, Goto(p, l), UNCHANGED local, l = "commit2" => Holds(p, req[p].other)
        PROVE  ReachInv'
    <3>1. Typed' /\ Frame(p) /\ pc'[p] = l BY <1>0, <2>1, <2>3 DEF Typed, Frame, Goto, Labels
    <3>2. Placed(p)' BY <1>0, <2>1, <2>3, <3>1 DEF Placed, Linkers, Holds
    <3>3. ASSUME NEW c \in Classes, lock[c] = p PROVE Locked(c)'
      BY <2>1, <2>2, <2>3, <3>1, <3>3 DEF Locked, FirstHalf, Edited
    <3> QED BY <1>2, <2>1, <3>1, <3>2, <3>3
  <2>4. CASE Return(p) /\ ~Holds(p, req[p].other)
    <3>1. Typed' /\ Frame(p) /\ pc'[p] = "idle" BY <1>0, <2>1, <2>4, TypeReturn DEF Typed, Frame
    <3>2. Placed(p)' BY <3>1 DEF Placed, Linkers
    <3>3. \A c \in Classes : lock[c] # p BY <2>2, <2>4 DEF Holds
    <3> QED BY <1>2, <2>1, <3>1, <3>2, <3>3
  <2> QED BY <1>4, <2>3, <2>4 DEF ClassCache
<1> QED BY <1>3, <1>4

LEMMA ReachCommit ==
  ASSUME ReachInv, NEW p \in Procs, PackageCommit(p) \/ ClassCommit(p)
  PROVE  ReachInv'
<1> USE DEF db, cache, local, history, Linking, At
<1>0. /\ Typed /\ Placed(p) /\ Born /\ req[p].class \in Classes /\ req[p].other \in Classes
      /\ req[p].op \in Links /\ p # None
  BY ReqFields, NoneIsNone DEF ReachInv, PackageCommit, ClassCommit, Links
<1> DEFINE c == IF pc[p] = "commit1" THEN req[p].class ELSE req[p].other
<1>1. /\ row' = [row EXCEPT ![c] = tx[p]] /\ lock' = [lock EXCEPT ![c] = None] /\ lock[c] = p
      /\ UNCHANGED <<scene, born, hash, group, index>> /\ pc[p] \in {"commit1", "commit2"}
  BY <1>0 DEF PackageCommit, ClassCommit, Placed, Holds
<1>2. c \in Classes BY <1>0
<1>3. {req[p].class, req[p].other} \subseteq born BY <1>0, <1>1 DEF Placed, Linkers
<1>4. /\ row[c] # None /\ row[c] \in ClassInfo
      /\ \/ tx[p] = [row[c] EXCEPT !.children = Edited(p, row[c].children, req[p].other)]
         \/ tx[p] = [row[c] EXCEPT !.parents = Edited(p, row[c].parents, req[p].class)]
  BY <1>1, <1>2, Holding
<1>5. tx[p] \in ClassInfo BY <1>0, <1>1, NoneIsNone DEF Placed, Linkers, Typed
<1>6. tx[p].parents \subseteq row[c].parents \union {req[p].class} BY <1>4 DEF Edited, ClassInfo
<1>7. row[c].parents \subseteq born /\ c \in born BY <1>0, <1>2, <1>4 DEF Born
<1> HIDE DEF c
<1>8. /\ row' \in [Classes -> ClassInfo \union {None}] /\ lock' \in [Classes -> Procs \union {None}]
      /\ row'[c] = tx[p] /\ \A d \in Classes \ {c} : row'[d] = row[d]
  BY <1>0, <1>1, <1>2, <1>5 DEF Typed
<1>9. Born'
  <2>1. ASSUME NEW d \in Classes, row'[d] # None
        PROVE  d \in born /\ row'[d].parents \subseteq born
    BY <1>0, <1>3, <1>6, <1>7, <1>8, <2>1 DEF Born
  <2> QED BY <1>0, <1>1, <2>1 DEF Born
<1>10. World(p)
  <2>1. \A d \in born : row[d] = None => row'[d] = None BY <1>0, <1>4, <1>8 DEF Typed
  <2>2. \A d \in Classes : lock[d] \notin {None, p} => row'[d] = row[d] BY <1>1, <1>8
  <2>3. \A d \in Classes, q \in Procs \ {p} : lock'[d] = q <=> lock[d] = q BY <1>0, <1>1, <1>2, NoneIsNone DEF Typed
  <2> QED BY <1>1, <2>1, <2>2, <2>3 DEF World
<1>11. \A d \in Classes : lock'[d] # p
  <2>1. \A d \in Classes : lock[d] = p => d = c BY <1>1, Holding DEF FirstHalf, c
  <2> QED BY <1>0, <1>1, <1>2, <2>1 DEF Typed
<1>12. CASE PackageCommit(p)
  <2>1. Goto(p, "tx2") /\ UNCHANGED local BY <1>12 DEF PackageCommit
  <2>2. Typed' /\ Frame(p) /\ pc'[p] = "tx2" BY <1>0, <1>1, <1>8, <2>1 DEF Typed, Frame, Goto, Labels
  <2>3. Placed(p)' BY <1>0, <1>1, <1>3, <2>1, <2>2 DEF Placed, Linkers
  <2> QED BY <1>9, <1>10, <1>11, <2>2, <2>3, ReachFrame
<1>13. CASE ClassCommit(p)
  <2>1. Return(p) BY <1>13 DEF ClassCommit
  <2>2. Typed' /\ Frame(p) /\ pc'[p] = "idle" BY <1>0, <1>1, <1>8, <2>1, TypeReturn DEF Typed, Frame
  <2>3. Placed(p)' BY <2>2 DEF Placed, Linkers
  <2> QED BY <1>9, <1>10, <1>11, <2>2, <2>3, ReachFrame
<1> QED BY <1>12, <1>13

LEMMA ReachFail ==
  ASSUME ReachInv, NEW p \in Procs, Fail(p)
  PROVE  ReachInv'
<1> USE DEF db, cache
<1>0. Typed /\ Born /\ p # None BY NoneIsNone DEF ReachInv
<1>1. Return(p) /\ UNCHANGED <<db, cache>> /\ lock' = [c \in Classes |-> IF lock[c] = p THEN None ELSE lock[c]]
  BY DEF Fail
<1>2. Typed' /\ Frame(p) /\ pc'[p] = "idle" BY <1>0, <1>1, TypeReturn DEF Typed, Frame
<1>3. Placed(p)' BY <1>2 DEF Placed, Linkers
<1>4. World(p) BY <1>0, <1>1, NoneIsNone DEF World, Typed
<1>5. Born' /\ \A c \in Classes : lock'[c] # p BY <1>0, <1>1 DEF Born
<1> QED BY <1>2, <1>3, <1>4, <1>5, ReachFrame

LEMMA ReachIgnored ==
  ASSUME ReachInv, NEW p \in Procs, Ignored(p)
  PROVE  ReachInv'
<1> USE DEF db, cache, local, Linking, At
<1>0. Typed /\ Placed(p) /\ Born BY DEF ReachInv
<1>1. UNCHANGED <<db, cache, lock>> /\ pc[p] \in {"unindex", "index", "list1", "list2"} BY DEF Ignored
<1>2. ASSUME Typed', Frame(p), Placed(p)', \A c \in Classes : lock[c] = p => Locked(c)'
      PROVE  ReachInv'
  <2>1. World(p) /\ Born' BY <1>0, <1>1 DEF World, Born
  <2> QED BY <1>1, <1>2, <2>1, ReachFrame
<1>3. ASSUME NEW l \in {"index", "listNew", "commit1", "tx2", "commit2"}, Goto(p, l), UNCHANGED local
      PROVE  Typed' /\ Frame(p) /\ pc'[p] = l
  BY <1>0, <1>1, <1>3 DEF Typed, Frame, Goto, Labels
<1>4. CASE Return(p) /\ ~(pc[p] = "list2" /\ Holds(p, req[p].other)) /\ pc[p] # "list1"
  <2>1. Typed' /\ Frame(p) /\ pc'[p] = "idle" BY <1>0, <1>1, <1>4, TypeReturn DEF Typed, Frame
  <2>2. Placed(p)' BY <2>1 DEF Placed, Linkers
  <2>3. \A c \in Classes : lock[c] # p BY <1>1, <1>4, Holding DEF FirstHalf, Holds
  <2> QED BY <1>2, <2>1, <2>2, <2>3
<1>5. CASE pc[p] = "unindex"
  <2>1. CASE req[p].course # None
    <3>1. Goto(p, "index") /\ UNCHANGED local BY <1>5, <2>1 DEF Ignored, AfterUnindex
    <3>2. Placed(p)' BY <1>0, <1>1, <1>3, <1>5, <2>1, <3>1 DEF Placed, Linkers
    <3>3. \A c \in Classes : lock[c] # p BY <1>5, Unlocked
    <3> QED BY <1>2, <1>3, <3>1, <3>2, <3>3
  <2>2. CASE req[p].course = None BY <1>4, <1>5, <2>2 DEF Ignored, AfterUnindex
  <2> QED BY <2>1, <2>2
<1>6. CASE pc[p] = "index"
  <2>1. CASE req[p].op = "add"
    <3>1. Goto(p, "listNew") /\ UNCHANGED local BY <1>6, <2>1 DEF Ignored
    <3>2. Placed(p)' BY <1>0, <1>1, <1>3, <1>6, <2>1, <3>1 DEF Placed, Linkers, Makes
    <3>3. \A c \in Classes : lock[c] # p BY <1>6, Unlocked
    <3> QED BY <1>2, <1>3, <3>1, <3>2, <3>3
  <2>2. CASE req[p].op # "add" BY <1>4, <1>6, <2>2 DEF Ignored
  <2> QED BY <2>1, <2>2
<1>7. CASE pc[p] = "list1"
  <2> DEFINE l == IF Holds(p, req[p].class) THEN "commit1" ELSE "tx2"
  <2>1. Goto(p, l) /\ UNCHANGED local BY <1>7 DEF Ignored
  <2>2. Typed' /\ Frame(p) /\ pc'[p] = l BY <1>3, <2>1
  <2>3. Placed(p)' BY <1>0, <1>1, <1>7, <2>1, <2>2 DEF Placed, Linkers, Holds
  <2>4. ASSUME NEW c \in Classes, lock[c] = p PROVE Locked(c)'
    <3>1. /\ row[c] # None /\ c = req[p].class
          /\ tx[p] = [row[c] EXCEPT !.children = Edited(p, row[c].children, req[p].other)]
      BY <1>7, <2>4, Holding DEF FirstHalf
    <3>2. l = "commit1" BY <2>4, <3>1 DEF Holds
    <3> QED BY <1>1, <2>1, <2>2, <2>4, <3>1, <3>2 DEF Locked, FirstHalf, Edited
  <2> QED BY <1>2, <2>2, <2>3, <2>4
<1>8. CASE pc[p] = "list2" /\ Holds(p, req[p].other)
  <2>1. Goto(p, "commit2") /\ UNCHANGED local BY <1>8 DEF Ignored
  <2>2. Typed' /\ Frame(p) /\ pc'[p] = "commit2" BY <1>3, <2>1
  <2>3. Placed(p)' BY <1>0, <1>1, <1>8, <2>1, <2>2 DEF Placed, Linkers, Holds
  <2>4. ASSUME NEW c \in Classes, lock[c] = p PROVE Locked(c)'
    <3>1. /\ row[c] # None /\ c = req[p].other
          /\ tx[p] = [row[c] EXCEPT !.parents = Edited(p, row[c].parents, req[p].class)]
      BY <1>8, <2>4, Holding DEF FirstHalf
    <3> QED BY <1>1, <2>1, <2>2, <2>4, <3>1 DEF Locked, FirstHalf, Edited
  <2> QED BY <1>2, <2>2, <2>3, <2>4
<1>9. CASE pc[p] = "list2" /\ ~Holds(p, req[p].other) BY <1>4, <1>9 DEF Ignored
<1> QED BY <1>1, <1>5, <1>6, <1>7, <1>8, <1>9

LEMMA ReachInit == Init => ReachInv
<1> SUFFICES ASSUME Init PROVE ReachInv OBVIOUS
<1>1. scene \in DOMAIN Scenes /\ row = Scenes[scene].rows /\ born = Live BY DEF Init
<1>2. PICK cached \in {{}, Live} : preloadClasses(cached) BY DEF Init
<1>3. row \in [Classes -> ClassInfo \union {None}] BY <1>1, CallsAreRequests
<1>4. cached \in SUBSET Live /\ Live \in SUBSET Classes BY DEF Live
<1>5. hash \in [Classes -> ClassInfo \union {None}] /\ \A c \in Classes : hash[c] # None => c \in Live
  BY <1>2, <1>3, <1>4 DEF preloadClasses
<1>6. index \in [Courses -> Classes \union {None}]
  <2>1. ASSUME NEW k \in Courses PROVE index[k] \in Classes \union {None}
    <3>1. CASE \E c \in cached : row[c].course = k
      <4>1. (CHOOSE c \in cached : row[c].course = k) \in cached BY <3>1
      <4> QED BY <1>2, <1>4, <3>1, <4>1 DEF preloadClasses
    <3>2. CASE ~\E c \in cached : row[c].course = k BY <1>2, <3>2 DEF preloadClasses
    <3> QED BY <3>1, <3>2
  <2>2. index = [k \in Courses |-> index[k]] BY <1>2 DEF preloadClasses
  <2> QED BY <2>1, <2>2
<1>7. group \in SUBSET Classes BY <1>2, <1>4 DEF preloadClasses
<1>8. Typed BY <1>1, <1>3, <1>4, <1>5, <1>6, <1>7, CallsAreRequests DEF Init, Typed, Labels
<1>9. Born
  <2>1. ASSUME NEW c \in Classes, row[c] # None
        PROVE  row[c].parents \subseteq Live
    BY <1>1, <2>1, ScenesAgree DEF Live
  <2> QED BY <1>1, <1>5, <2>1 DEF Born, Live
<1>10. \A p \in Procs : Placed(p) BY DEF Init, Placed, Linkers
<1>11. \A c \in Classes : Locked(c) BY DEF Init, Locked
<1> QED BY <1>8, <1>9, <1>10, <1>11 DEF ReachInv

LEMMA ReachStep == ReachInv /\ [Next]_vars => ReachInv'
<1> SUFFICES ASSUME ReachInv, [Next]_vars PROVE ReachInv' OBVIOUS
<1>1. CASE UNCHANGED vars
  <2>1. UNCHANGED <<scene, row, born, hash, group, index, lock, pc, req, view, view2, found, tx>>
    BY <1>1 DEF vars, db, cache, local
  <2>2. Typed' /\ Born' BY <2>1 DEF ReachInv, Typed, Born
  <2>3. \A p \in Procs : Placed(p)' BY <2>1 DEF ReachInv, Placed, ChecksCourse, ChangesCourse, Holds
  <2>4. ASSUME NEW c \in Classes PROVE Locked(c)'
    <3>1. Locked(c) BY DEF ReachInv
    <3> QED BY <2>1, <3>1 DEF Locked, Edited
  <2> QED BY <2>2, <2>3, <2>4 DEF ReachInv
<1>2. ASSUME NEW p \in Procs, Step(p) PROVE ReachInv'
  <2>1. CASE \/ onHttpAddClass(p) \/ onHttpImportClass(p) \/ onHttpCloneClass(p) \/ onHttpChangeClass(p)
             \/ onHttpEndClass(p) \/ onHttpDeleteClass(p) \/ onHttpPublishClass(p) \/ onHttpSetClassAlly(p)
             \/ onHttpAddSubClass(p) \/ onHttpDeleteSubClass(p) \/ onHttpQuerySubClass(p)
             \/ onHttpQueryClass(p) \/ onHttpAddGdStudentToGdCourse(p)
    <3>1. \E op \in Ops, roles \in SUBSET Roles : Receive(p, op, roles)
      BY <2>1 DEF onHttpAddClass, onHttpImportClass, onHttpCloneClass, onHttpChangeClass, onHttpEndClass,
                  onHttpDeleteClass, onHttpPublishClass, onHttpSetClassAlly, onHttpAddSubClass,
                  onHttpDeleteSubClass, onHttpQuerySubClass, onHttpQueryClass,
                  onHttpAddGdStudentToGdCourse, Ops, Roles, Assistants, Teachers
    <3> QED BY <3>1, ReachReceive
  <2>2. CASE GetHit(p) \/ GetMiss(p) \/ GetFill(p) \/ Refuse(p) \/ ReadDone(p) BY <2>2, ReachGet
  <2>3. CASE List(p) \/ ListChildren(p) BY <2>3, ReachList
  <2>4. CASE FindHit(p) \/ FindNone(p) \/ FindRow(p) \/ FindFill(p) \/ FindFails(p) BY <2>4, ReachFind
  <2>5. CASE LocateHit(p) \/ LocateRow(p) \/ LocateNone(p) \/ LocateFill(p) BY <2>5, ReachLocate
  <2>6. CASE Insert(p) \/ CacheNew(p) \/ ListNew(p) BY <2>6, ReachAdd
  <2>7. CASE CloneList(p) \/ CloneCache(p) \/ ImportMeeting(p) \/ ImportDone(p) BY <2>7, ReachCopy
  <2>8. CASE \/ Closed(p) \/ ChangeFind(p) \/ AllyFind(p) \/ AllySame(p) \/ Write(p) \/ CacheWrite(p)
             \/ Unindex(p) \/ Index(p)
    BY <2>8, ReachChange
  <2>9. CASE NotEmpty(p) \/ DeleteRow(p) \/ DeleteHash(p) \/ DeleteFromGroup(p) BY <2>9, ReachDelete
  <2>10. CASE LinkSkip(p) \/ LinkStart(p) \/ PackageList(p) \/ ClassList(p) BY <2>10, ReachLinkAside
  <2>11. CASE LinkPackage(p) \/ LinkClass(p) BY <2>11, ReachSelect
  <2>12. CASE PackageCache(p) \/ ClassCache(p) BY <2>12, ReachCaches
  <2>13. CASE PackageCommit(p) \/ ClassCommit(p) BY <2>13, ReachCommit
  <2>14. CASE Fail(p) BY <2>14, ReachFail
  <2>15. CASE Ignored(p) BY <2>15, ReachIgnored
  <2> QED
    BY <1>2, <2>1, <2>2, <2>3, <2>4, <2>5, <2>6, <2>7, <2>8, <2>9, <2>10, <2>11, <2>12, <2>13, <2>14, <2>15
    DEF Step
<1> QED BY <1>1, <1>2 DEF Next

\* Whatever handlers run at once, each is at a label its request leads to, with the
\* class in hand that the label needs, a class that was created, and an open
\* transaction holds the row it will write.
THEOREM HandlersKeepOrder == Spec => []ReachInv
<1> QED BY ReachInit, ReachStep, PTL DEF Spec

(***************************************************************************)
(* What is below what.                                                     *)
(***************************************************************************)

LEMMA BelowSeed == ASSUME NEW S, NEW s \in S, s \in Classes PROVE s \in Below(S)
  BY DEF Below

LEMMA BelowShows ==
  ASSUME NEW S, NEW c \in Classes, NEW s \in Classes, c \in Below(S), Shows(c, s)
  PROVE  s \in Below(S)
<1> SUFFICES ASSUME NEW T \in SUBSET Classes, S \subseteq T,
                    \A d \in T : row[d] # None /\ row[d].package => row[d].children \subseteq T
             PROVE  s \in T
  BY DEF Below
<1>1. c \in T BY DEF Below
<1> QED BY <1>1 DEF Shows

\* A package that is put under a class makes no ring, unless it was below it already.
\* A package that other classes are put under makes no ring with any of them, unless
\* it was below it already.
LEMMA GroundedEdges ==
  ASSUME Grounded, NEW c \in Classes,
         \A x, y \in Classes : Shows(x, y)' => Shows(x, y) \/ (x = c /\ (c \in Below({y}) => y \in stranded')),
         stranded \subseteq stranded'
  PROVE  Grounded'
<1> SUFFICES ASSUME NEW U \in SUBSET Classes, U \intersect stranded' = {},
                    \A x \in U : \E y \in U : Shows(y, x)'
             PROVE  U = {}
  BY DEF Grounded
<1> DEFINE Shut(T)  == \A d \in T : row[d] # None /\ row[d].package => row[d].children \subseteq T
           Apart(T) == T \in SUBSET Classes /\ c \notin T /\ Shut(T)
           V == {x \in U : ~\E T \in SUBSET Classes : x \in T /\ Apart(T)}
<1>1. ASSUME NEW x \in U, NEW y \in U, Shows(y, x)', ~Shows(y, x)
      PROVE  y = c /\ \E T \in SUBSET Classes : x \in T /\ Apart(T)
  <2>1. y = c /\ c \notin Below({x}) BY <1>1
  <2> QED BY <2>1 DEF Below
<1>2. ASSUME NEW x \in V PROVE \E y \in V : Shows(y, x)
  <2>1. PICK y \in U : Shows(y, x)' BY <1>2
  <2>2. Shows(y, x) BY <1>1, <1>2, <2>1
  <2>3. ASSUME NEW T \in SUBSET Classes, y \in T, Apart(T) PROVE x \in T
    BY <2>2, <2>3 DEF Shows
  <2>4. y \in V BY <1>2, <2>3
  <2> QED BY <2>2, <2>4
<1>3. V \in SUBSET Classes /\ V \intersect stranded = {} OBVIOUS
<1>4. V = {}
  <2> HIDE DEF V
  <2> QED BY <1>2, <1>3 DEF Grounded
<1>5. c \notin U BY <1>4
<1>6. \A x \in U : \E y \in U : Shows(y, x) BY <1>1, <1>5
<1>7. U \in SUBSET Classes /\ U \intersect stranded = {} OBVIOUS
<1> HIDE DEF V
<1> QED BY <1>6, <1>7 DEF Grounded

(***************************************************************************)
(* Steps outside the two transactions: what they do to rows and to lists.  *)
(***************************************************************************)

\* A class keeps its packages; what a list gains or loses is written down, and so is
\* a class that is shown no more.
OldList(c) == IF row[c] = None THEN {} ELSE row[c].children

Rowwise ==
  /\ \A c \in Classes : row'[c] # None =>
       /\ \/ row[c] = None /\ c \notin born /\ row'[c].parents = {}
          \/ row[c] # None /\ row'[c].parents = row[c].parents
       /\ \A s \in Classes : (s \in row'[c].children) # (s \in OldList(c)) => <<c, s>> \in torn'
  /\ \A c, s \in Classes : Shows(c, s) => Shows(c, s)' \/ s \in stranded'
  /\ Grounded => Grounded'

\* A class that p had in hand stays in hand or gets into the list.
Kept(p) ==
  \A s \in Classes : row'[s] # None =>
    /\ s \in group \/ Moves(p, s) => s \in group' \union stranded' \/ Moves(p, s)'
    /\ row[s] = None => Moves(p, s)'

Plain(p) ==
  /\ pc[p] \notin Linkers /\ pc'[p] \notin Linkers /\ lock' = lock
  /\ torn \subseteq torn' /\ stranded \subseteq stranded'
  /\ Rowwise /\ Kept(p)

LEMMA NoNewShows ==
  ASSUME \A x, y \in Classes : Shows(x, y)' => Shows(x, y), stranded \subseteq stranded'
  PROVE  Grounded => Grounded'
<1> SUFFICES ASSUME Grounded, NEW U \in SUBSET Classes, U \intersect stranded' = {},
                    \A x \in U : \E y \in U : Shows(y, x)'
             PROVE  U = {}
  BY DEF Grounded
<1>1. U \intersect stranded = {} OBVIOUS
<1>2. \A x \in U : \E y \in U : Shows(y, x) OBVIOUS
<1> QED BY <1>1, <1>2 DEF Grounded

LEMMA SameRows == ASSUME UNCHANGED row, stranded \subseteq stranded' PROVE Rowwise
<1>1. \A x, y \in Classes : Shows(x, y)' <=> Shows(x, y) BY DEF Shows
<1>2. Grounded => Grounded' BY <1>1, NoNewShows
<1> QED BY <1>1, <1>2 DEF Rowwise, OldList

\* One class changes, its list and its column of packages do not.
LEMMA SameLists ==
  ASSUME NEW c \in Classes, row[c] # None, row'[c] # None, stranded \subseteq stranded',
         \A d \in Classes \ {c} : row'[d] = row[d],
         row'[c].parents = row[c].parents, row'[c].children = row[c].children,
         row'[c].package = row[c].package
  PROVE  Rowwise
<1>1. \A x, y \in Classes : Shows(x, y)' <=> Shows(x, y) BY DEF Shows
<1>2. Grounded => Grounded' BY <1>1, NoNewShows
<1> QED BY <1>1, <1>2 DEF Rowwise, OldList

LEMMA FrameStep == ASSUME ReachInv, NEW p \in Procs, Step(p) PROVE Frame(p)
<1> USE DEF db, cache, local, history, Frame, Goto
<1>0. Typed BY DEF ReachInv
<1>r. ASSUME Return(p) PROVE Frame(p) BY <1>0, <1>r, TypeReturn
<1>g. ASSUME NEW l, Goto(p, l), UNCHANGED local PROVE Frame(p) BY <1>0, <1>g DEF Typed
<1>1. ASSUME NEW op, NEW roles, Receive(p, op, roles) PROVE Frame(p) BY <1>0, <1>1 DEF Receive, Typed
<1>2. CASE \/ onHttpAddClass(p) \/ onHttpImportClass(p) \/ onHttpCloneClass(p) \/ onHttpChangeClass(p)
           \/ onHttpEndClass(p) \/ onHttpDeleteClass(p) \/ onHttpPublishClass(p) \/ onHttpSetClassAlly(p)
           \/ onHttpAddSubClass(p) \/ onHttpDeleteSubClass(p) \/ onHttpQuerySubClass(p)
           \/ onHttpQueryClass(p) \/ onHttpAddGdStudentToGdCourse(p)
  <2> HIDE DEF Frame
  <2> QED
    BY <1>1, <1>2 DEF onHttpAddClass, onHttpImportClass, onHttpCloneClass, onHttpChangeClass, onHttpEndClass,
                onHttpDeleteClass, onHttpPublishClass, onHttpSetClassAlly, onHttpAddSubClass,
                onHttpDeleteSubClass, onHttpQuerySubClass, onHttpQueryClass, onHttpAddGdStudentToGdCourse
<1>3. CASE GetHit(p) \/ GetMiss(p) \/ GetFill(p) \/ Refuse(p) \/ ReadDone(p)
  <2>1. CASE GetHit(p) BY <1>0, <2>1 DEF GetHit, See, Typed
  <2>2. CASE GetMiss(p)
    <3>1. CASE row[Target(p)] = None BY <1>r, <2>2, <3>1 DEF GetMiss
    <3>2. CASE row[Target(p)] # None BY <1>0, <2>2, <3>2 DEF GetMiss, See, Typed
    <3> QED BY <3>1, <3>2
  <2>3. CASE GetFill(p) BY <1>0, <2>3 DEF GetFill, Typed
  <2>4. CASE Refuse(p) \/ ReadDone(p) BY <1>r, <2>4 DEF Refuse, ReadDone
  <2> QED BY <1>3, <2>1, <2>2, <2>3, <2>4
<1>4. CASE List(p) \/ ListChildren(p)
  <2>1. CASE List(p)
    <3>1. CASE ~Return(p) BY <1>0, <2>1, <3>1 DEF List, Typed
    <3> QED BY <1>r, <3>1
  <2>2. CASE ListChildren(p)
    <3>1. CASE ~Return(p) BY <1>0, <2>2, <3>1 DEF ListChildren, Typed
    <3> QED BY <1>r, <3>1
  <2> QED BY <1>4, <2>1, <2>2
<1>a. ASSUME NEW c, Answer(p, c), req[p].op \in {"add", "find", "locate", "change"} PROVE Frame(p)
  <2>1. CASE ~Return(p) BY <1>0, <1>a, <2>1 DEF Answer, Typed
  <2> QED BY <1>r, <2>1
<1>5. CASE FindHit(p) \/ FindNone(p) \/ FindRow(p) \/ FindFill(p) \/ FindFails(p)
  <2>0. pc[p] \in {"find", "findFill"} /\ req[p].op \in {"add", "find", "locate", "change"}
    BY <1>5 DEF FindHit, FindNone, FindRow, FindFill, FindFails, ReachInv, Placed
  <2>1. CASE FindRow(p) BY <1>0, <2>1 DEF FindRow, Typed
  <2>2. CASE ~FindRow(p)
    <3>1. \E c : Answer(p, c) BY <1>5, <2>2 DEF FindHit, FindNone, FindFill, FindFails
    <3> QED BY <1>a, <2>0, <3>1
  <2> QED BY <2>1, <2>2
<1>6. CASE LocateHit(p) \/ LocateRow(p) \/ LocateNone(p) \/ LocateFill(p)
  <2>1. CASE LocateHit(p) BY <1>0, <2>1 DEF LocateHit, Typed
  <2>2. CASE LocateRow(p) BY <1>0, <2>2 DEF LocateRow, Typed
  <2>3. CASE LocateNone(p) BY <1>r, <2>3 DEF LocateNone
  <2>4. CASE LocateFill(p)
    <3>1. CASE ~Return(p) BY <1>0, <2>4, <3>1 DEF LocateFill, Typed
    <3> QED BY <1>r, <3>1
  <2> QED BY <1>6, <2>1, <2>2, <2>3, <2>4
<1>7. CASE Insert(p) \/ CacheNew(p) \/ ListNew(p)
  <2>1. CASE Insert(p) BY <1>0, <2>1 DEF Insert, Typed
  <2>2. CASE CacheNew(p) BY <1>0, <2>2 DEF CacheNew, Typed
  <2>3. CASE ListNew(p)
    <3>1. req[p].op \in {"add", "clone", "import"} BY <2>3 DEF ListNew, ReachInv, Placed, Makes
    <3>2. CASE req[p].op = "add" BY <1>r, <2>3, <3>2 DEF ListNew
    <3>3. CASE req[p].op # "add" BY <1>0, <2>3, <3>1, <3>3 DEF ListNew, Typed
    <3> QED BY <3>2, <3>3
  <2> QED BY <1>7, <2>1, <2>2, <2>3
<1>8. CASE CloneList(p) \/ CloneCache(p) \/ ImportMeeting(p) \/ ImportDone(p)
  <2>1. CASE CloneList(p) BY <1>0, <2>1 DEF CloneList, Typed
  <2>2. CASE CloneCache(p) \/ ImportDone(p) BY <1>r, <2>2 DEF CloneCache, ImportDone
  <2>3. CASE ImportMeeting(p) BY <1>0, <2>3 DEF ImportMeeting, Typed
  <2> QED BY <1>8, <2>1, <2>2, <2>3
<1>9. CASE \/ Closed(p) \/ ChangeFind(p) \/ AllyFind(p) \/ AllySame(p) \/ Write(p) \/ CacheWrite(p)
           \/ Unindex(p) \/ Index(p)
  <2>1. CASE Closed(p) \/ AllySame(p) BY <1>r, <2>1 DEF Closed, AllySame
  <2>2. CASE ChangeFind(p) \/ AllyFind(p) BY <1>0, <2>2 DEF ChangeFind, AllyFind, Typed
  <2>3. CASE Write(p) BY <1>0, <2>3 DEF Write, Typed
  <2>4. CASE CacheWrite(p)
    <3>1. CASE ~ChangesCourse(p) BY <1>r, <2>4, <3>1 DEF CacheWrite
    <3>2. CASE ChangesCourse(p) BY <1>0, <2>4, <3>2 DEF CacheWrite, Typed
    <3> QED BY <3>1, <3>2
  <2>5. CASE Unindex(p)
    <3>1. CASE ~Return(p) BY <1>0, <2>5, <3>1 DEF Unindex, AfterUnindex, Typed
    <3> QED BY <1>r, <3>1
  <2>6. CASE Index(p)
    <3>1. CASE req[p].op = "add" BY <1>0, <2>6, <3>1 DEF Index, Typed
    <3>2. CASE req[p].op # "add" BY <1>r, <2>6, <3>2 DEF Index
    <3> QED BY <3>1, <3>2
  <2> QED BY <1>9, <2>1, <2>2, <2>3, <2>4, <2>5, <2>6
<1>10. CASE NotEmpty(p) \/ DeleteRow(p) \/ DeleteHash(p) \/ DeleteFromGroup(p)
  <2>1. CASE NotEmpty(p) \/ DeleteFromGroup(p) BY <1>r, <2>1 DEF NotEmpty, DeleteFromGroup
  <2>2. CASE DeleteRow(p) BY <1>0, <2>2 DEF DeleteRow, Typed
  <2>3. CASE DeleteHash(p) BY <1>0, <2>3 DEF DeleteHash, Typed
  <2> QED BY <1>10, <2>1, <2>2, <2>3
<1>11. CASE LinkSkip(p) \/ LinkStart(p) \/ LinkPackage(p) \/ PackageCache(p) \/ PackageList(p) \/ PackageCommit(p)
  <2>1. CASE LinkSkip(p) BY <1>r, <2>1 DEF LinkSkip
  <2>2. CASE LinkStart(p) \/ PackageCache(p) \/ PackageList(p) BY <1>0, <2>2 DEF LinkStart, PackageCache, PackageList, Typed
  <2>3. CASE LinkPackage(p)
    <3>1. CASE ~Return(p) BY <1>0, <2>3, <3>1 DEF LinkPackage, Typed
    <3> QED BY <1>r, <3>1
  <2>4. CASE PackageCommit(p) BY <1>0, <2>4 DEF PackageCommit, Typed
  <2> QED BY <1>11, <2>1, <2>2, <2>3, <2>4
<1>12. CASE LinkClass(p) \/ ClassCache(p) \/ ClassList(p) \/ ClassCommit(p)
  <2>1. CASE LinkClass(p)
    <3>1. CASE ~Return(p) BY <1>0, <2>1, <3>1 DEF LinkClass, Typed
    <3> QED BY <1>r, <3>1
  <2>2. CASE ClassCache(p)
    <3>1. CASE ~Return(p) BY <1>0, <2>2, <3>1 DEF ClassCache, Typed
    <3> QED BY <1>r, <3>1
  <2>3. CASE ClassList(p)
    <3>1. CASE ~Return(p) BY <1>0, <2>3, <3>1 DEF ClassList, Typed
    <3> QED BY <1>r, <3>1
  <2>4. CASE ClassCommit(p) BY <1>r, <2>4 DEF ClassCommit
  <2> QED BY <1>12, <2>1, <2>2, <2>3, <2>4
<1>13. CASE Fail(p) \/ Ignored(p)
  <2>1. CASE Fail(p) BY <1>r, <2>1 DEF Fail
  <2>2. CASE Ignored(p)
    <3>1. CASE ~Return(p) BY <1>0, <2>2, <3>1 DEF Ignored, AfterUnindex, Typed
    <3> QED BY <1>r, <3>1
  <2> QED BY <1>13, <2>1, <2>2
<1> HIDE DEF Frame
<1> QED BY <1>2, <1>3, <1>4, <1>5, <1>6, <1>7, <1>8, <1>9, <1>10, <1>11, <1>12, <1>13 DEF Step

\* No row and no list changes, p has nothing in hand and takes nothing up.
LEMMA PlainQuiet ==
  ASSUME ReachInv, NEW p \in Procs, UNCHANGED <<row, group, lock, torn, stranded>>,
         pc[p] \notin Linkers \union {"cacheNew", "listNew"}, pc'[p] \notin Linkers,
         pc[p] = "index" => req[p].op \notin Makes
  PROVE  Plain(p)
<1>1. Rowwise BY SameRows
<1>2. \A s : ~Moves(p, s) BY DEF Moves, Linkers
<1>3. Kept(p) BY <1>2 DEF Kept
<1> QED BY <1>1, <1>3 DEF Plain

LEMMA PlainReturn ==
  ASSUME ReachInv, NEW p \in Procs, Return(p), UNCHANGED <<row, group, lock, torn, stranded>>,
         pc[p] \notin Linkers \union {"cacheNew", "listNew"},
         pc[p] = "index" => req[p].op \notin Makes
  PROVE  Plain(p)
<1>1. pc'[p] = "idle" BY TypeReturn DEF ReachInv
<1> QED BY <1>1, PlainQuiet DEF Linkers

LEMMA PlainGoto ==
  ASSUME ReachInv, NEW p \in Procs, NEW l, Goto(p, l), l \notin Linkers,
         UNCHANGED <<row, group, lock, torn, stranded>>,
         pc[p] \notin Linkers \union {"cacheNew", "listNew"},
         pc[p] = "index" => req[p].op \notin Makes
  PROVE  Plain(p)
<1>1. pc'[p] = l BY DEF ReachInv, Typed, Goto
<1> QED BY <1>1, PlainQuiet

Look(p) ==
  \/ onHttpAddClass(p) \/ onHttpImportClass(p) \/ onHttpCloneClass(p) \/ onHttpChangeClass(p)
  \/ onHttpEndClass(p) \/ onHttpDeleteClass(p) \/ onHttpPublishClass(p) \/ onHttpSetClassAlly(p)
  \/ onHttpAddSubClass(p) \/ onHttpDeleteSubClass(p) \/ onHttpQuerySubClass(p)
  \/ onHttpQueryClass(p) \/ onHttpAddGdStudentToGdCourse(p)
  \/ GetHit(p) \/ GetMiss(p) \/ GetFill(p) \/ Refuse(p) \/ ReadDone(p) \/ List(p) \/ ListChildren(p)
  \/ FindHit(p) \/ FindNone(p) \/ FindRow(p) \/ FindFill(p) \/ FindFails(p)
  \/ LocateHit(p) \/ LocateRow(p) \/ LocateNone(p) \/ LocateFill(p)
  \/ CloneCache(p) \/ ImportDone(p)
  \/ Closed(p) \/ ChangeFind(p) \/ AllyFind(p) \/ AllySame(p) \/ CacheWrite(p) \/ Unindex(p)
  \/ NotEmpty(p) \/ DeleteHash(p) \/ LinkSkip(p) \/ LinkStart(p)

LEMMA PlainLook == ASSUME ReachInv, NEW p \in Procs, Look(p) PROVE Plain(p)
<1> USE DEF db, cache, history
<1>0. Typed /\ Placed(p) BY DEF ReachInv
<1>1. ASSUME NEW op, NEW roles, Receive(p, op, roles) PROVE Plain(p)
  <2>1. \E r : Goto(p, Entry(r)) BY <1>1 DEF Receive
  <2>2. \A r : Entry(r) \notin Linkers
    <3>1. ASSUME NEW r PROVE Entry(r) \in {"find", "insert", "list", "locate", "get"} BY DEF Entry
    <3> QED BY <3>1 DEF Linkers
  <2> QED BY <1>1, <2>1, <2>2, PlainGoto DEF Receive, Linkers
<1>2. CASE \/ onHttpAddClass(p) \/ onHttpImportClass(p) \/ onHttpCloneClass(p) \/ onHttpChangeClass(p)
           \/ onHttpEndClass(p) \/ onHttpDeleteClass(p) \/ onHttpPublishClass(p) \/ onHttpSetClassAlly(p)
           \/ onHttpAddSubClass(p) \/ onHttpDeleteSubClass(p) \/ onHttpQuerySubClass(p)
           \/ onHttpQueryClass(p) \/ onHttpAddGdStudentToGdCourse(p)
  BY <1>1, <1>2 DEF onHttpAddClass, onHttpImportClass, onHttpCloneClass, onHttpChangeClass, onHttpEndClass,
              onHttpDeleteClass, onHttpPublishClass, onHttpSetClassAlly, onHttpAddSubClass,
              onHttpDeleteSubClass, onHttpQuerySubClass, onHttpQueryClass, onHttpAddGdStudentToGdCourse
<1>3. CASE GetHit(p) \/ GetMiss(p) \/ GetFill(p) \/ List(p) \/ ListChildren(p)
  <2>1. /\ \/ Return(p)
           \/ \E l \in {"have", "have2", "fill", "fill2", "get", "get2"} : Goto(p, l)
        /\ UNCHANGED <<row, group, lock, torn, stranded>>
        /\ pc[p] \in {"get", "get2", "fill", "fill2", "list", "have"}
    BY <1>3 DEF GetHit, GetMiss, GetFill, List, ListChildren, At
  <2> QED BY <2>1, PlainReturn, PlainGoto DEF Linkers
<1>4. CASE Refuse(p) \/ ReadDone(p) \/ ImportDone(p) \/ Closed(p) \/ AllySame(p) \/ NotEmpty(p) \/ LinkSkip(p)
  <2>1. /\ Return(p) /\ UNCHANGED <<row, group, lock, torn, stranded>>
        /\ pc[p] \in {"have", "have2", "import", "imported"}
    BY <1>4 DEF Refuse, ReadDone, ImportDone, Closed, AllySame, NotEmpty, LinkSkip, Linking, At
  <2> QED BY <2>1, PlainReturn DEF Linkers
<1>5. CASE FindHit(p) \/ FindNone(p) \/ FindFill(p) \/ FindFails(p)
  <2>1. /\ \E c : Answer(p, c)
        /\ UNCHANGED <<row, group, lock, torn, stranded>> /\ pc[p] \in {"find", "findFill"}
    BY <1>5 DEF FindHit, FindNone, FindFill, FindFails
  <2>2. \/ Return(p)
        \/ \E l \in {"get", "locate", "insert", "write"} : Goto(p, l)
    BY <2>1, <1>0 DEF Answer, Placed
  <2> QED BY <2>1, <2>2, PlainReturn, PlainGoto DEF Linkers
<1>6. CASE FindRow(p) BY <1>6, PlainGoto DEF FindRow, Linkers
<1>7. CASE LocateHit(p) \/ LocateRow(p) \/ LocateNone(p) \/ LocateFill(p)
  <2>1. /\ \/ Return(p)
           \/ \E l \in {"get", "locateFill"} : Goto(p, l)
        /\ UNCHANGED <<row, group, lock, torn, stranded>> /\ pc[p] \in {"locate", "locateFill"}
    BY <1>7 DEF LocateHit, LocateRow, LocateNone, LocateFill
  <2> QED BY <2>1, PlainReturn, PlainGoto DEF Linkers
<1>8. CASE CloneCache(p) BY <1>8, PlainReturn DEF CloneCache, Linkers
<1>9. CASE ChangeFind(p) \/ AllyFind(p) \/ Unindex(p) \/ DeleteHash(p) \/ LinkStart(p)
  <2>1. /\ \/ Return(p)
           \/ \E l \in {"find", "get2", "index", "unlist"} : Goto(p, l)
        /\ UNCHANGED <<row, group, lock, torn, stranded>> /\ pc[p] \in {"have", "unindex", "uncache"}
    BY <1>9 DEF ChangeFind, AllyFind, Unindex, AfterUnindex, DeleteHash, LinkStart, Linking, At
  <2> QED BY <2>1, PlainReturn, PlainGoto DEF Linkers
<1>10. CASE CacheWrite(p)
  <2>1. /\ \/ Return(p)
           \/ \E l \in {"index", "unindex"} : Goto(p, l)
        /\ UNCHANGED <<row, group, lock, torn, stranded>> /\ pc[p] = "cacheWrite"
    BY <1>10 DEF CacheWrite
  <2> QED BY <2>1, PlainReturn, PlainGoto DEF Linkers
<1> QED BY <1>2, <1>3, <1>4, <1>5, <1>6, <1>7, <1>8, <1>9, <1>10 DEF Look

Edit(p) ==
  \/ Insert(p) \/ CacheNew(p) \/ ListNew(p) \/ CloneList(p) \/ ImportMeeting(p) \/ Write(p) \/ Index(p)
  \/ DeleteRow(p) \/ DeleteFromGroup(p)

LEMMA PlainEdit == ASSUME ReachInv, NEW p \in Procs, Edit(p) PROVE Plain(p)
<1> USE DEF db, cache, history
<1>0. Typed /\ Placed(p) /\ Born /\ req[p].class \in Classes BY ReqFields DEF ReachInv
<1>1. CASE Insert(p)
  <2>1. PICK c \in Classes : c = (CHOOSE d \in Classes : d \notin born) /\ c \notin born
    <3>1. (CHOOSE d \in Classes : d \notin born) \in Classes \ born BY <1>0, <1>1 DEF Insert, Typed
    <3> QED BY <3>1
  <2>2. /\ row' = [row EXCEPT ![c] = NewClass(p)] /\ found' = [found EXCEPT ![p] = c]
        /\ torn' = torn \union ({c} \X req[p].data) /\ stranded' = stranded \union Rings(p, c)
        /\ UNCHANGED <<group, lock, req>> /\ Goto(p, "cacheNew")
    BY <1>1, <2>1 DEF Insert
  <2>3. row[c] = None BY <1>0, <2>1 DEF Born
  <2>4. /\ row'[c].children = req[p].data /\ row'[c].parents = {} /\ \A d \in Classes \ {c} : row'[d] = row[d]
        /\ row'[c] = NewClass(p) /\ NewClass(p) \in ClassInfo /\ req[p].data \in SUBSET Classes
    BY <1>0, <1>1, <2>1, <2>2, NewClassType, ReqFields DEF NewClass, Typed, Insert, At, Placed, Makes
  <2>5. Rowwise
    <3>1. \A x, y \in Classes : Shows(x, y) => Shows(x, y)' BY <2>3, <2>4 DEF Shows
    <3>2. ASSUME Grounded PROVE Grounded'
      <4>1. ASSUME NEW x \in Classes, NEW y \in Classes, Shows(x, y)', ~Shows(x, y)
            PROVE  x = c /\ (c \in Below({y}) => y \in stranded')
        <5>1. x = c BY <2>4, <4>1 DEF Shows
        <5>2. y \in req[p].data BY <2>4, <4>1, <5>1 DEF Shows
        <5> QED BY <2>2, <5>1, <5>2 DEF Rings
      <4>2. stranded \subseteq stranded' BY <2>2
      <4> QED BY <3>2, <4>1, <4>2, GroundedEdges
    <3>3. ASSUME NEW d \in Classes, NEW s \in Classes, row'[d] # None, (s \in row'[d].children) # (s \in OldList(d))
          PROVE  <<d, s>> \in torn'
      BY <2>2, <2>3, <2>4, <3>3 DEF OldList
    <3> QED BY <2>1, <2>3, <2>4, <3>1, <3>2, <3>3 DEF Rowwise
  <2>6. pc'[p] = "cacheNew" /\ found'[p] = c BY <1>0, <2>2 DEF Goto, Typed
  <2>7. pc[p] \in {"insert", "have"} /\ req[p].op \in Makes BY <1>0, <1>1 DEF Insert, At, Placed, Makes
  <2>8. Moves(p, c)' BY <2>2, <2>6, <2>7 DEF Moves
  <2>9. \A s : ~Moves(p, s) BY <2>7 DEF Moves
  <2>10. Kept(p) BY <2>2, <2>4, <2>8, <2>9 DEF Kept
  <2> QED BY <2>2, <2>5, <2>6, <2>7, <2>10 DEF Plain, Linkers
<1>2. CASE CacheNew(p)
  <2>1. /\ pc[p] = "cacheNew" /\ pc'[p] \in {"listNew", "index"} /\ req[p].op \in Makes
        /\ UNCHANGED <<row, group, lock, torn, stranded, req, found>>
    BY <1>0, <1>2 DEF CacheNew, Goto, local, Placed, Typed
  <2>2. \A s : Moves(p, s) => Moves(p, s)' BY <2>1 DEF Moves
  <2> QED BY <2>1, <2>2, SameRows DEF Plain, Kept, Linkers
<1>3. CASE ListNew(p)
  <2>1. /\ pc[p] = "listNew" /\ UNCHANGED <<row, lock, torn, stranded>> /\ group' = group \union {found[p]}
        /\ req[p].op \in {"add", "clone", "import"}
    BY <1>0, <1>3 DEF ListNew, Placed, Makes
  <2>2. pc'[p] \in {"idle", "copy", "import"} BY <1>0, <1>3, <2>1 DEF ListNew, Return, Goto, Typed
  <2>3. \A s : Moves(p, s) => s = found[p] BY <2>1 DEF Moves
  <2> QED BY <2>1, <2>2, <2>3, SameRows DEF Plain, Kept, Linkers
<1>4. CASE CloneList(p) \/ ImportMeeting(p)
  <2> DEFINE c == found[p]
  <2>1. /\ pc[p] \in {"copy", "import"} /\ UNCHANGED <<group, lock, torn, stranded>>
        /\ pc'[p] \in {"copied", "imported"}
    BY <1>0, <1>4 DEF CloneList, ImportMeeting, Goto, Typed
  <2>2. c \in Classes BY <1>0, <2>1 DEF Placed, Typed
  <2>3. \A s : ~Moves(p, s) BY <2>1 DEF Moves
  <2>4. CASE row' = row BY <2>1, <2>3, <2>4, SameRows DEF Plain, Kept, Linkers
  <2>5. CASE row' # row
    <3>1. /\ row[c] # None
          /\ row' = [row EXCEPT ![c].full = view[p].full] \/ row' = [row EXCEPT ![c].full = TRUE]
      BY <1>4, <2>5 DEF CloneList, ImportMeeting, Live
    <3>2. \A d \in Classes \ {c} : row'[d] = row[d] BY <1>0, <3>1 DEF Typed
    <3>3. /\ row'[c] = [row[c] EXCEPT !.full = view[p].full] \/ row'[c] = [row[c] EXCEPT !.full = TRUE]
          /\ row[c] \in ClassInfo
      BY <1>0, <2>2, <3>1 DEF Typed
    <3>4. row'[c].parents = row[c].parents /\ row'[c].children = row[c].children /\ row'[c].package = row[c].package
      BY <3>3 DEF ClassInfo
    <3>5. row'[c] # None
      <4>1. row[c].full \in BOOLEAN /\ (CloneList(p) => view[p] # None /\ view[p] \in ClassInfo)
        BY <1>0, <3>3 DEF CloneList, Placed, Typed, ClassInfo
      <4>2. row'[c] \in ClassInfo
        <5>1. \E b \in BOOLEAN : row'[c] = [row[c] EXCEPT !.full = b]
          <6>1. CASE CloneList(p)
            <7>1. row'[c] = [row[c] EXCEPT !.full = view[p].full] BY <1>0, <2>2, <2>5, <6>1 DEF CloneList, Typed
            <7> QED BY <4>1, <6>1, <7>1 DEF ClassInfo
          <6>2. CASE ImportMeeting(p)
            <7>1. row'[c] = [row[c] EXCEPT !.full = TRUE] BY <1>0, <2>2, <6>2 DEF ImportMeeting, Typed
            <7> QED BY <7>1
          <6> QED BY <1>4, <6>1, <6>2
        <5> QED BY <3>3, <5>1 DEF ClassInfo
      <4> QED BY <4>2, NoneIsNone
    <3>6. Rowwise BY <2>1, <2>2, <3>1, <3>2, <3>4, <3>5, SameLists
    <3>7. \A s \in Classes : row[s] = None => row'[s] = None BY <3>1, <3>2
    <3>8. Kept(p) BY <2>1, <2>3, <3>7 DEF Kept
    <3> QED BY <2>1, <3>6, <3>8 DEF Plain, Linkers
  <2> QED BY <2>4, <2>5
<1>5. CASE Write(p)
  <2> DEFINE c   == req[p].class
             old == IF c \in Live THEN row[c].children ELSE {}
             new == req[p].data
  <2>1. /\ req[p].op \in {"change", "end", "ally"} /\ pc[p] \in {"write", "have", "have2"}
        /\ UNCHANGED <<group, lock>> /\ pc'[p] = "cacheWrite" /\ new \in SUBSET Classes
        /\ torn \subseteq torn' /\ stranded \subseteq stranded'
        /\ ChangesPlatform(p) => /\ torn' = torn \union ({c} \X ((old \ new) \union (new \ old)))
                                 /\ req[p].package => (old \ new) \union Rings(p, c) \subseteq stranded'
                                 /\ ~req[p].package => old \subseteq stranded'
    BY <1>0, <1>5, MayWriteKnows, ReqFields DEF Write, Goto, Typed
  <2>2. \A s : ~Moves(p, s) BY <2>1 DEF Moves
  <2>3. CASE c \notin Live
    <3>1. row' = row BY <1>5, <2>3 DEF Write
    <3> QED BY <2>1, <2>2, <3>1, SameRows DEF Plain, Kept, Linkers
  <2>4. CASE c \in Live
    <3>1. row[c] # None /\ row[c] \in ClassInfo /\ old = row[c].children BY <1>0, <2>4 DEF Live, Typed
    <3>2. row'[c] = Applied(p, row[c]) /\ \A d \in Classes \ {c} : row'[d] = row[d]
      BY <1>0, <1>5, <2>4 DEF Write, Typed
    <3>3. row'[c] # None BY <1>0, <2>1, <3>1, <3>2, AppliedType, NoneIsNone
    <3>4. row'[c].parents = row[c].parents BY <2>1, <3>1, <3>2 DEF Applied, ClassInfo
    <3>5. Kept(p) BY <2>1, <2>2, <3>1, <3>2 DEF Kept
    <3>6. CASE ChangesPlatform(p)
      <4>1. row'[c].children = new /\ row'[c].package = req[p].package
        BY <3>1, <3>2, <3>6 DEF Applied, ChangesPlatform, ClassInfo
      <4>2. req[p].package \in BOOLEAN BY <1>0, <3>6, ReqFields DEF ChangesPlatform
      <4> HIDE DEF old, new, c
      <4>3. ASSUME NEW d \in Classes, NEW s \in Classes, row'[d] # None, (s \in row'[d].children) # (s \in OldList(d))
            PROVE  <<d, s>> \in torn'
        <5>1. d = c /\ s \in (old \ new) \union (new \ old) BY <3>1, <3>2, <4>1, <4>3 DEF OldList
        <5> QED BY <2>1, <3>6, <5>1
      <4>4. ASSUME NEW x \in Classes, NEW y \in Classes, Shows(x, y) PROVE Shows(x, y)' \/ y \in stranded'
        <5>1. CASE x # c BY <3>2, <4>4, <5>1 DEF Shows
        <5>2. CASE x = c
          <6>1. y \in old BY <3>1, <4>4, <5>2 DEF Shows
          <6>2. CASE req[p].package BY <2>1, <3>3, <3>6, <4>1, <5>2, <6>1, <6>2 DEF Shows
          <6>3. CASE ~req[p].package BY <2>1, <3>6, <6>1, <6>3
          <6> QED BY <6>2, <6>3
        <5> QED BY <5>1, <5>2
      <4>5. ASSUME Grounded PROVE Grounded'
        <5>1. ASSUME NEW x \in Classes, NEW y \in Classes, Shows(x, y)', ~Shows(x, y)
              PROVE  x = c /\ (c \in Below({y}) => y \in stranded')
          <6>1. x = c BY <3>2, <5>1 DEF Shows
          <6>2. y \in new /\ req[p].package BY <4>1, <5>1, <6>1 DEF Shows
          <6>3. c \in Below({y}) => y \in Rings(p, c) BY <6>2 DEF Rings, new
          <6> QED BY <2>1, <3>6, <6>1, <6>2, <6>3
        <5> QED BY <1>0, <2>1, <4>5, <5>1, GroundedEdges DEF c
      <4>6. Rowwise BY <3>1, <3>2, <3>4, <4>3, <4>4, <4>5 DEF Rowwise
      <4> QED BY <2>1, <3>5, <4>6 DEF Plain, Linkers
    <3>7. CASE ~ChangesPlatform(p)
      <4>1. row'[c].children = row[c].children /\ row'[c].package = row[c].package
        BY <2>1, <3>1, <3>2, <3>7 DEF Applied, ClassInfo
      <4>2. Rowwise BY <1>0, <2>1, <3>1, <3>2, <3>3, <3>4, <4>1, SameLists
      <4> QED BY <2>1, <3>5, <4>2 DEF Plain, Linkers
    <3> QED BY <3>6, <3>7
  <2> QED BY <2>3, <2>4
<1>6. CASE Index(p)
  <2>1. pc[p] = "index" /\ UNCHANGED <<row, group, lock, torn, stranded>> BY <1>6 DEF Index
  <2>2. CASE req[p].op = "add"
    <3>1. pc'[p] = "listNew" /\ UNCHANGED <<req, found>> BY <1>0, <1>6, <2>2 DEF Index, Goto, local, Typed
    <3>2. \A s : Moves(p, s) => Moves(p, s)' BY <2>1, <3>1 DEF Moves
    <3> QED BY <2>1, <3>1, <3>2, SameRows DEF Plain, Kept, Linkers
  <2>3. CASE req[p].op # "add"
    <3>1. Return(p) /\ req[p].op \notin Makes BY <1>0, <1>6, <2>1, <2>3 DEF Index, Placed, Makes
    <3> QED BY <2>1, <3>1, PlainReturn DEF Linkers
  <2> QED BY <2>2, <2>3
<1>7. CASE DeleteRow(p)
  <2> DEFINE c == req[p].class
  <2>1. /\ pc[p] = "have" /\ pc'[p] = "uncache" /\ row'[c] = None /\ \A d \in Classes \ {c} : row'[d] = row[d]
        /\ UNCHANGED <<group, lock, torn>>
        /\ stranded' = IF c \in Live THEN stranded \union row[c].children ELSE stranded
    BY <1>0, <1>7 DEF DeleteRow, At, Goto, Typed
  <2>2. Rowwise
    <3>1. \A x, y \in Classes : Shows(x, y)' => Shows(x, y) BY <1>0, <2>1 DEF Shows
    <3>2. Grounded => Grounded' BY <2>1, <3>1, NoNewShows
    <3>3. \A x, y \in Classes : Shows(x, y) => Shows(x, y)' \/ y \in stranded' BY <1>0, <2>1 DEF Shows, Live
    <3> QED BY <1>0, <2>1, <3>2, <3>3 DEF Rowwise, OldList
  <2>3. \A s : ~Moves(p, s) BY <2>1 DEF Moves
  <2> QED BY <2>1, <2>2, <2>3 DEF Plain, Kept, Linkers
<1>8. CASE DeleteFromGroup(p)
  <2>1. pc[p] = "unlist" /\ pc'[p] = "idle" /\ UNCHANGED <<row, lock, torn, stranded>> /\ row[req[p].class] = None
        /\ group' = group \ {req[p].class}
    BY <1>0, <1>8, TypeReturn DEF DeleteFromGroup, Placed
  <2>2. \A s : ~Moves(p, s) BY <2>1 DEF Moves
  <2> QED BY <2>1, <2>2, SameRows DEF Plain, Kept, Linkers
<1> QED BY <1>1, <1>2, <1>3, <1>4, <1>5, <1>6, <1>7, <1>8 DEF Edit

\* Failures outside the transactions.
LEMMA PlainFail ==
  ASSUME ReachInv, NEW p \in Procs, Fail(p) \/ Ignored(p), pc[p] \notin Linkers
  PROVE  Plain(p)
<1> USE DEF db, cache
<1>0. Typed /\ Placed(p) BY DEF ReachInv
<1>1. CASE Fail(p)
  <2>1. pc'[p] = "idle" BY <1>0, <1>1, TypeReturn DEF Fail
  <2>2. lock' = lock
    <3>1. \A c \in Classes : lock[c] # p BY Unlocked DEF Linkers
    <3> QED BY <1>0, <1>1, <3>1 DEF Fail, Typed
  <2>3. /\ UNCHANGED <<row, group, torn>> /\ stranded \subseteq stranded'
        /\ pc[p] \in {"cacheNew", "index", "listNew"} /\ req[p].op \in Makes => found[p] \in stranded'
    BY <1>1 DEF Fail, FirstHalf, SecondHalf, Linkers
  <2>4. \A s : Moves(p, s) => s \in stranded' BY <2>3 DEF Moves, Linkers
  <2> QED BY <2>1, <2>2, <2>3, <2>4, SameRows DEF Plain, Kept, Linkers
<1>2. CASE Ignored(p)
  <2>1. pc[p] \in {"index", "unindex"} /\ UNCHANGED <<row, group, lock, torn, stranded>>
    BY <1>2 DEF Ignored, Linking, At, Linkers
  <2>2. CASE pc[p] = "index" /\ req[p].op = "add"
    <3>1. pc'[p] = "listNew" /\ UNCHANGED <<req, found>> BY <1>0, <1>2, <2>2 DEF Ignored, Linking, At, Goto, local, Typed
    <3>2. \A s : Moves(p, s) => Moves(p, s)' BY <2>2, <3>1 DEF Moves
    <3> QED BY <2>1, <3>1, <3>2, SameRows DEF Plain, Kept, Linkers
  <2>3. CASE pc[p] = "index" /\ req[p].op # "add"
    <3>1. Return(p) /\ req[p].op \notin Makes BY <1>0, <1>2, <2>3 DEF Ignored, Linking, At, Placed, Makes
    <3> QED BY <2>1, <3>1, PlainReturn DEF Linkers
  <2>4. CASE pc[p] = "unindex"
    <3>1. Return(p) \/ Goto(p, "index") BY <1>2, <2>4 DEF Ignored, AfterUnindex, Linking, At
    <3> QED BY <2>1, <2>4, <3>1, PlainReturn, PlainGoto DEF Linkers
  <2> QED BY <2>1, <2>2, <2>3, <2>4
<1> QED BY <1>1, <1>2

Link(p) ==
  \/ LinkPackage(p) \/ PackageCache(p) \/ PackageList(p) \/ PackageCommit(p)
  \/ LinkClass(p) \/ ClassCache(p) \/ ClassList(p) \/ ClassCommit(p)
  \/ (Fail(p) \/ Ignored(p)) /\ pc[p] \in Linkers

LEMMA PlainOrLink == ASSUME ReachInv, NEW p \in Procs, Step(p) PROVE Frame(p) /\ (Plain(p) \/ Link(p))
<1>1. Look(p) \/ Edit(p) \/ Link(p) \/ ((Fail(p) \/ Ignored(p)) /\ pc[p] \notin Linkers)
  BY DEF Step, Look, Edit, Link
<1> QED BY <1>1, FrameStep, PlainLook, PlainEdit, PlainFail

(***************************************************************************)
(* Steps of the two transactions.                                          *)
(***************************************************************************)

\* Neither a row nor a lock changes: the caches and the lists are written.
Along(p) ==
  LET c == req[p].class
      s == req[p].other
  IN
  /\ UNCHANGED <<row, lock, torn>> /\ stranded \subseteq stranded' /\ req[p].op \in Links
  /\ \/ /\ pc[p] = "hash1" /\ pc'[p] \in {"list1", "commit1"} /\ req'[p] = req[p] /\ tx'[p] = tx[p]
        /\ pc'[p] = "commit1" => Holds(p, c) /\ req[p].op = "unsub"
        /\ group' = group
     \/ /\ pc[p] = "list1" /\ pc'[p] = (IF Holds(p, c) THEN "commit1" ELSE "tx2")
        /\ req'[p] = req[p] /\ tx'[p] = tx[p]
        /\ group \subseteq group' \union {s}
        /\ req[p].op = "unsub" => group \subseteq group' /\ s \in group' \union stranded'
     \/ /\ pc[p] \in {"hash2", "list2"} /\ group \subseteq group'
        /\ \/ pc'[p] = "list2" /\ pc[p] = "hash2" /\ req'[p] = req[p] /\ tx'[p] = tx[p]
           \/ pc'[p] = "commit2" /\ Holds(p, s) /\ req'[p] = req[p] /\ tx'[p] = tx[p]
           \/ pc'[p] = "idle" /\ ~Holds(p, s)
        /\ pc[p] = "hash2" /\ pc'[p] # "list2" => ~(req[p].op = "unsub" /\ tx[p].parents = {})
        /\ pc[p] = "list2" => s \in group' \union stranded'

LEMMA AlongStep ==
  ASSUME ReachInv, NEW p \in Procs,
         \/ PackageCache(p) \/ PackageList(p) \/ ClassCache(p) \/ ClassList(p)
         \/ Ignored(p) /\ pc[p] \in Linkers
  PROVE  Along(p)
<1> USE DEF db, cache, local, history, Linking, At
<1>0. Typed /\ Placed(p) BY DEF ReachInv
<1>r. ASSUME Return(p) PROVE pc'[p] = "idle" BY <1>0, <1>r, TypeReturn
<1>g. ASSUME NEW l, Goto(p, l), UNCHANGED local PROVE pc'[p] = l /\ req'[p] = req[p] /\ tx'[p] = tx[p]
  BY <1>0, <1>g DEF Typed, Goto
<1>1. CASE PackageCache(p)
  <2>1. /\ pc[p] = "hash1" /\ UNCHANGED <<row, lock, torn, stranded, group>> /\ UNCHANGED local
        /\ Goto(p, IF req[p].op = "sub" \/ ~Holds(p, req[p].class) THEN "list1" ELSE "commit1")
        /\ req[p].op \in Links
    BY <1>1 DEF PackageCache, Links
  <2> QED BY <1>g, <2>1 DEF Along, Links
<1>2. CASE PackageList(p)
  <2>1. /\ pc[p] = "list1" /\ UNCHANGED <<row, lock, torn, stranded>> /\ UNCHANGED local
        /\ Goto(p, IF Holds(p, req[p].class) THEN "commit1" ELSE "tx2")
        /\ req[p].op \in Links
        /\ group' = IF req[p].op = "sub" THEN group \ {req[p].other} ELSE group \union {req[p].other}
    BY <1>2 DEF PackageList, Links
  <2>2. /\ group \subseteq group' \union {req[p].other}
        /\ req[p].op = "unsub" => group \subseteq group' /\ req[p].other \in group' \union stranded'
    BY <2>1
  <2> QED BY <1>g, <2>1, <2>2 DEF Along
<1>3. CASE ClassCache(p)
  <2>1. pc[p] = "hash2" /\ UNCHANGED <<row, lock, torn, stranded, group>> /\ req[p].op \in Links
    BY <1>3 DEF ClassCache, Links
  <2> DEFINE empty == req[p].op = "unsub" /\ tx[p].parents = {}
  <2>2. CASE empty
    <3>1. Goto(p, "list2") /\ UNCHANGED local BY <1>3, <2>2 DEF ClassCache
    <3> QED BY <1>g, <2>1, <3>1 DEF Along
  <2>3. CASE ~empty /\ Holds(p, req[p].other)
    <3>1. Goto(p, "commit2") /\ UNCHANGED local BY <1>3, <2>3 DEF ClassCache
    <3> QED BY <1>g, <2>1, <2>3, <3>1 DEF Along
  <2>4. CASE ~empty /\ ~Holds(p, req[p].other)
    <3>1. Return(p) BY <1>3, <2>4 DEF ClassCache
    <3> QED BY <1>r, <2>1, <2>4, <3>1 DEF Along
  <2> QED BY <2>2, <2>3, <2>4
<1>4. CASE ClassList(p) \/ (Ignored(p) /\ pc[p] = "list2")
  <2>1. /\ pc[p] = "list2" /\ UNCHANGED <<row, lock, torn>> /\ stranded \subseteq stranded' /\ req[p].op \in Links
        /\ group \subseteq group' /\ req[p].other \in group' \union stranded'
    BY <1>4 DEF ClassList, Ignored, Links
  <2>2. CASE Holds(p, req[p].other)
    <3>1. Goto(p, "commit2") /\ UNCHANGED local BY <1>4, <2>2 DEF ClassList, Ignored
    <3> QED BY <1>g, <2>1, <2>2, <3>1 DEF Along
  <2>3. CASE ~Holds(p, req[p].other)
    <3>1. Return(p) BY <1>4, <2>3 DEF ClassList, Ignored
    <3> QED BY <1>r, <2>1, <2>3, <3>1 DEF Along
  <2> QED BY <2>2, <2>3
<1>5. CASE Ignored(p) /\ pc[p] = "list1"
  <2>1. /\ pc[p] = "list1" /\ UNCHANGED <<row, lock, torn, group>> /\ UNCHANGED local
        /\ stranded' = stranded \union {req[p].other}
        /\ Goto(p, IF Holds(p, req[p].class) THEN "commit1" ELSE "tx2")
        /\ req[p].op \in Links
    BY <1>5 DEF Ignored, Links
  <2> QED BY <1>g, <2>1 DEF Along
<1>6. Ignored(p) /\ pc[p] \in Linkers => pc[p] \in {"list1", "list2"} BY DEF Ignored, Linkers
<1> QED BY <1>1, <1>2, <1>3, <1>4, <1>5, <1>6

LEMMA LinkStays ==
  ASSUME ReachInv, LinkInv, NEW p \in Procs, Frame(p), Plain(p), born \subseteq born'
  PROVE  LinkInv'
<1>0. Typed /\ Born /\ \A q \in Procs : Placed(q) BY DEF ReachInv
<1>1. ASSUME NEW q \in Procs
      PROVE  /\ Past(q)' => q # p /\ Past(q) /\ req'[q] = req[q] /\ Pair(q)' = Pair(q)
             /\ \A c, s : Behind(q, c, s) => Behind(q, c, s)'
  <2>1. CASE q = p BY <2>1 DEF Plain, Past, Behind, Linkers, SecondHalf
  <2>2. CASE q # p
    <3>1. pc'[q] = pc[q] /\ req'[q] = req[q] /\ lock' = lock BY <2>2 DEF Frame, Plain
    <3> QED BY <2>2, <3>1 DEF Past, Behind, Holds, Pair
  <2> QED BY <2>1, <2>2
<1>2. ASSUME NEW q \in Procs, Past(q)', Pair(q)' \notin torn', row'[req'[q].class] # None
      PROVE  req'[q].other \in row'[req'[q].class].children <=> req'[q].op = "sub"
  <2>1. Past(q) /\ req'[q] = req[q] /\ Pair(q) \notin torn' BY <1>1, <1>2
  <2>2. pc[q] \in Linkers BY <2>1 DEF Past, Linkers, SecondHalf
  <2>3. req[q].class \in born /\ req[q].class \in Classes BY <1>0, <2>2, ReqFields DEF Placed
  <2> DEFINE c == req[q].class
  <2>4. row[c] # None BY <1>2, <2>1, <2>3 DEF Plain, Rowwise
  <2>5. req[q].other \in row[c].children <=> req[q].op = "sub" BY <2>1, <2>4 DEF LinkInv, Plain
  <2>6. req[q].other \in Classes /\ <<c, req[q].other>> \notin torn' BY <1>0, <2>1, ReqFields DEF Pair
  <2>7. req[q].other \in row'[c].children <=> req[q].other \in row[c].children
    BY <1>2, <2>1, <2>3, <2>4, <2>6 DEF Plain, Rowwise, OldList
  <2> QED BY <2>1, <2>5, <2>7
<1>3. ASSUME NEW a \in Procs, NEW b \in Procs, Crossing(a, b)' PROVE Pair(a)' \in torn'
  <2>1. b # p /\ Past(b) /\ req'[b] = req[b] /\ Pair(b)' = Pair(b) BY <1>1, <1>3 DEF Crossing
  <2>2. a # p BY <1>3 DEF Crossing, Plain, FirstHalf, Linkers
  <2>3. pc'[a] = pc[a] /\ req'[a] = req[a] /\ lock' = lock BY <2>2 DEF Frame, Plain
  <2>4. Crossing(a, b) BY <1>3, <2>1, <2>3 DEF Crossing, Holds, Pair
  <2> QED BY <2>3, <2>4 DEF LinkInv, Plain, Pair
<1>4. ASSUME NEW c \in Classes, NEW s \in Classes, row'[c] # None, row'[s] # None, <<c, s>> \notin torn'
      PROVE  (s \in row'[c].children <=> c \in row'[s].parents) \/ \E q \in Procs : Behind(q, c, s)'
  <2>1. CASE row[c] # None /\ row[s] # None
    <3>1. <<c, s>> \notin torn BY <1>4 DEF Plain
    <3>2. (s \in row[c].children <=> c \in row[s].parents) \/ \E q \in Procs : Behind(q, c, s)
      BY <2>1, <3>1 DEF LinkInv, Live
    <3>3. row'[s].parents = row[s].parents BY <1>4, <2>1 DEF Plain, Rowwise
    <3>4. s \in row'[c].children <=> s \in row[c].children BY <1>4, <2>1 DEF Plain, Rowwise, OldList
    <3> QED BY <1>1, <3>2, <3>3, <3>4
  <2>2. CASE row[c] = None
    <3>1. c \notin born /\ s \notin row'[c].children BY <1>4, <2>2 DEF Plain, Rowwise, OldList
    <3>2. row'[s].parents \subseteq born BY <1>0, <1>4 DEF Plain, Rowwise, Born
    <3> QED BY <3>1, <3>2
  <2>3. CASE row[s] = None
    <3>1. s \notin born /\ row'[s].parents = {} BY <1>4, <2>3 DEF Plain, Rowwise
    <3>2. <<c, s>> \notin torn BY <1>4 DEF Plain
    <3>3. s \notin OldList(c) BY <3>1, <3>2 DEF LinkInv, Foreseen, OldList
    <3>4. s \notin row'[c].children BY <1>4, <3>3 DEF Plain, Rowwise
    <3> QED BY <3>1, <3>4
  <2> QED BY <2>1, <2>2, <2>3
<1>5. ASSUME NEW c \in Classes, NEW s \in Classes, row'[c] # None, s \in row'[c].children
      PROVE  s \in born' \/ <<c, s>> \in torn'
  <2>1. s \in OldList(c) \/ <<c, s>> \in torn' BY <1>5 DEF Plain, Rowwise
  <2> QED BY <1>5, <2>1 DEF LinkInv, Foreseen, OldList, Plain
<1> QED BY <1>2, <1>3, <1>4, <1>5 DEF LinkInv, Foreseen, Live

\* Another handler is where it was, as long as p takes no lock from it.
LEMMA OthersStay ==
  ASSUME NEW p \in Procs, Frame(p), NEW q \in Procs, q # p,
         \A c \in Classes : lock'[c] = q <=> lock[c] = q,
         req[q].class \in Classes, req[q].other \in Classes
  PROVE  /\ Past(q)' <=> Past(q)
         /\ \A c \in Classes, s \in Classes : Behind(q, c, s)' <=> Behind(q, c, s)
         /\ Pair(q)' = Pair(q) /\ req'[q] = req[q] /\ pc'[q] = pc[q] /\ tx'[q] = tx[q]
         /\ Holds(q, req[q].class)' <=> Holds(q, req[q].class)
<1>1. req'[q] = req[q] /\ pc'[q] = pc[q] /\ tx'[q] = tx[q] BY DEF Frame
<1> QED BY <1>1 DEF Past, Behind, Holds, Pair

LEMMA LinkStep ==
  ASSUME ReachInv, LinkInv, NEW p \in Procs, Frame(p), Link(p), born \subseteq born'
  PROVE  LinkInv'
<1> USE DEF db, cache, local, history, Linking, At
<1>0. /\ Typed /\ Born /\ \A q \in Procs : Placed(q)
      /\ \A q \in Procs : req[q].class \in Classes /\ req[q].other \in Classes /\ q # None
      /\ p # None
  BY ReqFields, NoneIsNone DEF ReachInv
<1> DEFINE c == req[p].class
           s == req[p].other
           At1(q) == row[req[q].class] # None =>
                       (req[q].other \in row[req[q].class].children <=> req[q].op = "sub")
           Agrees(a, b) == b \in row[a].children <=> a \in row[b].parents
<1>1. ASSUME NEW q \in Procs, Past(q), Pair(q) \notin torn PROVE At1(q) BY <1>1 DEF LinkInv
<1>2. ASSUME NEW a \in Procs, NEW b \in Procs, Crossing(a, b) PROVE Pair(a) \in torn BY <1>2 DEF LinkInv
<1>3. ASSUME NEW a \in Classes, NEW b \in Classes, row[a] # None, row[b] # None, <<a, b>> \notin torn
      PROVE  Agrees(a, b) \/ \E q \in Procs : Behind(q, a, b)
  BY <1>3 DEF LinkInv, Live
<1>l. ASSUME \A q \in Procs : Past(q)' /\ Pair(q)' \notin torn' => At1(q)',
             \A a, b \in Procs : Crossing(a, b)' => Pair(a)' \in torn',
             \A a, b \in Classes : row'[a] # None /\ row'[b] # None /\ <<a, b>> \notin torn' =>
               Agrees(a, b)' \/ \E q \in Procs : Behind(q, a, b)',
             \A a, b \in Classes : row'[a] # None /\ b \in row'[a].children =>
               row[a] # None /\ (b \in row[a].children \/ b \in born),
             torn \subseteq torn'
      PROVE  LinkInv'
  <2>1. Foreseen' BY <1>l DEF LinkInv, Foreseen
  <2> QED BY <1>l, <2>1 DEF LinkInv, Live
<1>4. CASE Along(p)
  <2>1. UNCHANGED <<row, lock, torn>> BY <1>4 DEF Along
  <2>2. ASSUME NEW q \in Procs, q # p
        PROVE  /\ Past(q)' <=> Past(q)
               /\ \A a \in Classes, b \in Classes : Behind(q, a, b)' <=> Behind(q, a, b)
               /\ Pair(q)' = Pair(q) /\ req'[q] = req[q] /\ pc'[q] = pc[q]
    BY <1>0, <2>1, <2>2, OthersStay
  <2>3. Past(p)' => Past(p) /\ req'[p] = req[p] /\ Pair(p)' = Pair(p)
    BY <1>4, <2>1 DEF Along, Past, Holds, SecondHalf, Pair
  <2>4. \A a, b : Behind(p, a, b) => Behind(p, a, b)'
    BY <1>4, <2>1 DEF Along, Behind, Holds, Pair
  <2>5. pc'[p] \in FirstHalf => pc[p] \in FirstHalf /\ req'[p] = req[p]
    BY <1>4 DEF Along, FirstHalf
  <2>6. ASSUME NEW q \in Procs, Past(q)', Pair(q)' \notin torn' PROVE At1(q)' BY <1>1, <2>1, <2>2, <2>3, <2>6
  <2>7. ASSUME NEW a \in Procs, NEW b \in Procs, Crossing(a, b)' PROVE Pair(a)' \in torn'
    <3>1. Past(b) /\ req'[b] = req[b] BY <2>2, <2>3, <2>7 DEF Crossing
    <3>2. pc[a] \in FirstHalf /\ req'[a] = req[a] BY <2>2, <2>5, <2>7 DEF Crossing
    <3>3. Crossing(a, b) /\ Pair(a)' = Pair(a) BY <2>1, <2>7, <3>1, <3>2 DEF Crossing, Holds, Pair
    <3> QED BY <1>2, <2>1, <3>3
  <2>8. ASSUME NEW a \in Classes, NEW b \in Classes, row'[a] # None, row'[b] # None, <<a, b>> \notin torn'
        PROVE  Agrees(a, b)' \/ \E q \in Procs : Behind(q, a, b)'
    BY <1>3, <2>1, <2>2, <2>4, <2>8
  <2> QED BY <1>l, <2>1, <2>6, <2>7, <2>8
<1>5. CASE LinkPackage(p)
  <2>1. CASE c \notin Live
    <3>1. /\ Return(p) /\ UNCHANGED <<row, lock, torn, stranded, group>> /\ pc[p] = "have2" BY <1>5, <2>1 DEF LinkPackage
    <3>2. Plain(p) BY <3>1, PlainReturn DEF Linkers
    <3> QED BY <3>2, LinkStays
  <2>2. CASE c \in Live
    <3> DEFINE new == Edited(p, row[c].children, s)
    <3>1. /\ pc[p] = "have2" /\ pc'[p] = "hash1" /\ req'[p] = req[p] /\ row' = row /\ lock[c] = None
          /\ lock' = IF new = row[c].children THEN lock ELSE [lock EXCEPT ![c] = p]
          /\ torn' = IF Crossed(p) THEN torn \union {Pair(p)} ELSE torn
      BY <1>0, <1>5, <2>2 DEF LinkPackage, Goto, Typed
    <3>2. row[c] # None /\ row[c] \in ClassInfo BY <1>0, <2>2 DEF Live, Typed
    <3>3. \A d \in Classes, q \in Procs : q # p => (lock'[d] = q <=> lock[d] = q)
      BY <1>0, <3>1 DEF Typed
    <3>4. ASSUME NEW q \in Procs, q # p
          PROVE  /\ Past(q)' <=> Past(q)
                 /\ \A a \in Classes, b \in Classes : Behind(q, a, b)' <=> Behind(q, a, b)
                 /\ Pair(q)' = Pair(q) /\ req'[q] = req[q] /\ pc'[q] = pc[q]
                 /\ Holds(q, req[q].class)' <=> Holds(q, req[q].class)
      BY <1>0, <3>3, <3>4, OthersStay
    <3>5. \A a, b : ~Behind(p, a, b) BY <3>1 DEF Behind
    <3>6. Past(p)' => new = row[c].children
      BY <1>0, <3>1 DEF Past, SecondHalf, Holds, Typed
    <3>7. ASSUME NEW q \in Procs, Past(q)', Pair(q)' \notin torn' PROVE At1(q)'
      <4>1. CASE q = p
        <5>1. s \in row[c].children <=> req[p].op = "sub" BY <1>5, <3>2, <3>6, <3>7, <4>1 DEF Edited, LinkPackage
        <5> QED BY <3>1, <4>1, <5>1
      <4>2. CASE q # p BY <1>1, <3>1, <3>4, <3>7, <4>2
      <4> QED BY <4>1, <4>2
    <3>8. ASSUME NEW a \in Procs, NEW b \in Procs, Crossing(a, b)' PROVE Pair(a)' \in torn'
      <4>1. CASE a # p /\ b # p
        <5>1. Crossing(a, b) BY <3>4, <3>8, <4>1 DEF Crossing
        <5> QED BY <1>2, <3>1, <3>4, <4>1, <5>1
      <4>2. CASE a = p /\ b # p
        <5>1. Past(b) /\ Pair(b) = Pair(p) /\ req[b].op # req[p].op
          BY <3>1, <3>4, <3>8, <4>2 DEF Crossing, Pair
        <5>2. Crossed(p) BY <4>2, <5>1 DEF Crossed, Past, SecondHalf
        <5> QED BY <3>1, <4>2, <5>2 DEF Pair
      <4>3. CASE a # p /\ b = p
        <5>1. req[a].class = c /\ Holds(a, c) BY <3>1, <3>4, <3>8, <4>3 DEF Crossing, Pair
        <5> QED BY <1>0, <3>1, <5>1 DEF Holds
      <4>4. CASE a = p /\ b = p BY <3>8, <4>4 DEF Crossing
      <4> QED BY <4>1, <4>2, <4>3, <4>4
    <3>9. ASSUME NEW a \in Classes, NEW b \in Classes, row'[a] # None, row'[b] # None, <<a, b>> \notin torn'
          PROVE  Agrees(a, b)' \/ \E q \in Procs : Behind(q, a, b)'
      <4>1. <<a, b>> \notin torn BY <3>1, <3>9
      <4> QED BY <1>3, <3>1, <3>4, <3>5, <3>9, <4>1
    <3> QED BY <1>l, <3>1, <3>7, <3>8, <3>9
  <2> QED BY <2>1, <2>2
<1>6. CASE PackageCommit(p)
  <2>1. /\ pc[p] = "commit1" /\ pc'[p] = "tx2" /\ req'[p] = req[p] /\ torn' = torn
        /\ row' = [row EXCEPT ![c] = tx[p]] /\ lock' = [lock EXCEPT ![c] = None] /\ lock[c] = p
        /\ req[p].op \in Links
    BY <1>0, <1>6 DEF PackageCommit, Goto, Typed, Placed, Holds, Links
  <2>2. row[c] # None /\ row[c] \in ClassInfo /\ tx[p] = [row[c] EXCEPT !.children = Edited(p, row[c].children, s)]
    BY <1>0, <2>1, Holding
  <2>3. /\ row'[c].children = Edited(p, row[c].children, s) /\ row'[c].parents = row[c].parents
        /\ \A d \in Classes \ {c} : row'[d] = row[d]
    BY <1>0, <2>1, <2>2 DEF Typed, ClassInfo
  <2>4. /\ s \in row'[c].children <=> req[p].op = "sub"
        /\ \A b : b # s => (b \in row'[c].children <=> b \in row[c].children)
    BY <2>1, <2>3 DEF Edited, Links
  <2>5. \A d \in Classes : (row'[d] # None => row[d] # None) /\ row'[d].parents = row[d].parents
    BY <2>2, <2>3
  <2>6. ASSUME NEW q \in Procs, q # p
        PROVE  /\ Past(q)' <=> Past(q)
               /\ \A a \in Classes, b \in Classes : Behind(q, a, b)' <=> Behind(q, a, b)
               /\ Pair(q)' = Pair(q) /\ req'[q] = req[q] /\ pc'[q] = pc[q]
               /\ Holds(q, req[q].class)' <=> Holds(q, req[q].class)
    <3>1. \A d \in Classes : lock'[d] = q <=> lock[d] = q BY <1>0, <2>1, <2>6 DEF Typed
    <3> QED BY <1>0, <2>6, <3>1, OthersStay
  <2>7. ASSUME NEW q \in Procs, Past(q)', Pair(q)' \notin torn' PROVE At1(q)'
    <3>1. CASE q = p BY <2>1, <2>4, <3>1
    <3>2. CASE q # p
      <4>1. Past(q) /\ Pair(q) \notin torn /\ req'[q] = req[q] BY <2>1, <2>6, <2>7, <3>2
      <4>2. At1(q) BY <1>1, <4>1
      <4>3. CASE req[q].class # c BY <1>0, <2>3, <4>1, <4>2, <4>3
      <4>4. CASE req[q].class = c /\ req[q].other # s BY <2>2, <2>4, <4>1, <4>2, <4>4
      <4>5. CASE req[q].class = c /\ req[q].other = s
        <5>1. Pair(p) = Pair(q) BY <4>5 DEF Pair
        <5>2. req[q].op = req[p].op
          BY <1>2, <2>1, <4>1, <5>1 DEF Crossing, Holds, FirstHalf
        <5> QED BY <2>4, <4>1, <4>5, <5>2
      <4> QED BY <4>3, <4>4, <4>5
    <3> QED BY <3>1, <3>2
  <2>8. ASSUME NEW a \in Procs, NEW b \in Procs, Crossing(a, b)' PROVE Pair(a)' \in torn'
    <3>1. a # p BY <2>1, <2>8 DEF Crossing, FirstHalf
    <3>2. CASE b # p
      <4>1. Crossing(a, b) BY <2>6, <2>8, <3>1, <3>2 DEF Crossing
      <4> QED BY <1>2, <2>1, <2>6, <3>1, <4>1
    <3>3. CASE b = p
      <4>1. Holds(a, req[a].class) /\ req[a].class = c BY <2>1, <2>6, <2>8, <3>1, <3>3 DEF Crossing, Pair
      <4> QED BY <2>1, <3>1, <4>1 DEF Holds
    <3> QED BY <3>2, <3>3
  <2>9. ASSUME NEW a \in Classes, NEW b \in Classes, row'[a] # None, row'[b] # None, <<a, b>> \notin torn'
        PROVE  Agrees(a, b)' \/ \E q \in Procs : Behind(q, a, b)'
    <3>1. CASE a = c /\ b = s
      <4>1. Behind(p, a, b)' BY <2>1, <3>1 DEF Behind, Pair
      <4> QED BY <4>1
    <3>2. CASE ~(a = c /\ b = s)
      <4>1. b \in row'[a].children <=> b \in row[a].children BY <2>3, <2>4, <3>2
      <4>2. Agrees(a, b) \/ \E q \in Procs : Behind(q, a, b) BY <1>3, <2>1, <2>5, <2>9
      <4>3. ~Behind(p, a, b) BY <2>1 DEF Behind
      <4> QED BY <2>5, <2>6, <4>1, <4>2, <4>3
    <3> QED BY <3>1, <3>2
  <2>10. s \in born BY <1>0, <2>1 DEF Placed, Linkers
  <2>11. \A a, b \in Classes : row'[a] # None /\ b \in row'[a].children =>
           row[a] # None /\ (b \in row[a].children \/ b \in born)
    BY <2>2, <2>3, <2>4, <2>10
  <2> QED BY <1>l, <2>1, <2>7, <2>8, <2>9, <2>11
<1>7. CASE LinkClass(p)
  <2>1. pc[p] = "tx2" /\ lock[s] = None /\ UNCHANGED <<row, torn>> /\ req[p].op \in Links BY <1>7 DEF LinkClass, Links
  <2>2. \A d \in Classes, q \in Procs : q # p => (lock'[d] = q <=> lock[d] = q)
    BY <1>0, <1>7 DEF LinkClass, Typed
  <2>3. ASSUME NEW q \in Procs, q # p
        PROVE  /\ Past(q)' <=> Past(q)
               /\ \A a \in Classes, b \in Classes : Behind(q, a, b)' <=> Behind(q, a, b)
               /\ Pair(q)' = Pair(q) /\ req'[q] = req[q] /\ pc'[q] = pc[q]
               /\ Holds(q, req[q].class)' <=> Holds(q, req[q].class)
    BY <1>0, <2>2, <2>3, OthersStay
  <2> DEFINE new == Edited(p, row[s].parents, c)
  <2>4. \/ pc'[p] = "idle" /\ row[s] = None
        \/ /\ pc'[p] = "hash2" /\ req'[p] = req[p] /\ row[s] # None
           /\ lock' = IF new = row[s].parents THEN lock ELSE [lock EXCEPT ![s] = p]
    <3>1. CASE s \notin Live
      <4>1. Return(p) BY <1>7, <3>1 DEF LinkClass
      <4> QED BY <1>0, <3>1, <4>1, TypeReturn DEF Live
    <3>2. CASE s \in Live BY <1>0, <1>7, <3>2 DEF LinkClass, Goto, Live, Typed
    <3> QED BY <3>1, <3>2
  <2>5. Past(p) BY <2>1 DEF Past, SecondHalf
  <2>6. Past(p)' => req'[p] = req[p] BY <2>4 DEF Past, SecondHalf
  <2>7. ASSUME NEW q \in Procs, Past(q)', Pair(q)' \notin torn' PROVE At1(q)'
    <3>1. Past(q) /\ req'[q] = req[q] BY <2>3, <2>5, <2>6, <2>7
    <3> QED BY <1>1, <2>1, <2>7, <3>1 DEF Pair
  <2>8. ASSUME NEW a \in Procs, NEW b \in Procs, Crossing(a, b)' PROVE Pair(a)' \in torn'
    <3>1. a # p BY <2>4, <2>8 DEF Crossing, FirstHalf
    <3>2. Past(b) /\ req'[b] = req[b] BY <2>3, <2>5, <2>6, <2>8 DEF Crossing
    <3>3. Crossing(a, b) BY <2>3, <2>8, <3>1, <3>2 DEF Crossing, Pair
    <3> QED BY <1>2, <2>1, <2>3, <3>1, <3>3
  <2>9. ASSUME NEW a \in Classes, NEW b \in Classes, row'[a] # None, row'[b] # None, <<a, b>> \notin torn'
        PROVE  Agrees(a, b)' \/ \E q \in Procs : Behind(q, a, b)'
    <3>1. Agrees(a, b) \/ \E q \in Procs : Behind(q, a, b) BY <1>3, <2>1, <2>9
    <3>2. CASE \E q \in Procs \ {p} : Behind(q, a, b) BY <2>3, <3>2
    <3>3. CASE Agrees(a, b) BY <2>1, <3>3
    <3>4. CASE Behind(p, a, b)
      <4>1. a = c /\ b = s BY <3>4 DEF Behind, Pair
      <4>2. row[s] # None /\ pc'[p] = "hash2" /\ req'[p] = req[p] BY <2>1, <2>4, <2>9, <4>1
      <4>3. CASE new # row[s].parents
        <5>1. lock'[s] = p BY <1>0, <2>4, <4>2, <4>3 DEF Typed
        <5>2. Behind(p, a, b)' BY <4>1, <4>2, <5>1 DEF Behind, Pair, Holds
        <5> QED BY <5>2
      <4>4. CASE new = row[s].parents
        <5>1. c \in row[s].parents <=> req[p].op = "sub" BY <2>1, <4>4 DEF Edited, Links
        <5>2. s \in row[c].children <=> req[p].op = "sub" BY <1>1, <2>1, <2>5, <2>9, <4>1 DEF Pair
        <5> QED BY <2>1, <4>1, <5>1, <5>2
      <4> QED BY <4>3, <4>4
    <3> QED BY <3>1, <3>2, <3>3, <3>4
  <2> QED BY <1>l, <2>1, <2>7, <2>8, <2>9
<1>8. CASE ClassCommit(p)
  <2>1. /\ pc[p] = "commit2" /\ pc'[p] = "idle" /\ torn' = torn /\ req[p].op \in Links
        /\ row' = [row EXCEPT ![s] = tx[p]] /\ lock' = [lock EXCEPT ![s] = None] /\ lock[s] = p
    BY <1>0, <1>8, TypeReturn DEF ClassCommit, Placed, Holds, Links
  <2>2. row[s] # None /\ row[s] \in ClassInfo /\ tx[p] = [row[s] EXCEPT !.parents = Edited(p, row[s].parents, c)]
    BY <1>0, <2>1, Holding DEF FirstHalf
  <2>3. /\ row'[s].parents = Edited(p, row[s].parents, c) /\ row'[s].children = row[s].children
        /\ \A d \in Classes \ {s} : row'[d] = row[d]
    BY <1>0, <2>1, <2>2 DEF Typed, ClassInfo
  <2>4. /\ c \in row'[s].parents <=> req[p].op = "sub"
        /\ \A a : a # c => (a \in row'[s].parents <=> a \in row[s].parents)
    BY <2>1, <2>3 DEF Edited, Links
  <2>5. \A d \in Classes : (row'[d] # None => row[d] # None) /\ row'[d].children = row[d].children
    BY <2>2, <2>3
  <2>6. ASSUME NEW q \in Procs, q # p
        PROVE  /\ Past(q)' <=> Past(q)
               /\ \A a \in Classes, b \in Classes : Behind(q, a, b)' <=> Behind(q, a, b)
               /\ Pair(q)' = Pair(q) /\ req'[q] = req[q] /\ pc'[q] = pc[q]
               /\ Holds(q, req[q].class)' <=> Holds(q, req[q].class)
    <3>1. \A d \in Classes : lock'[d] = q <=> lock[d] = q BY <1>0, <2>1, <2>6 DEF Typed
    <3> QED BY <1>0, <2>6, <3>1, OthersStay
  <2>7. ASSUME NEW q \in Procs, Past(q)', Pair(q)' \notin torn' PROVE At1(q)'
    <3>1. q # p BY <2>1, <2>7 DEF Past, SecondHalf
    <3>2. At1(q) /\ req'[q] = req[q] BY <1>1, <2>1, <2>6, <2>7, <3>1
    <3> QED BY <1>0, <2>5, <3>2
  <2>8. ASSUME NEW a \in Procs, NEW b \in Procs, Crossing(a, b)' PROVE Pair(a)' \in torn'
    <3>1. a # p /\ b # p BY <2>1, <2>8 DEF Crossing, FirstHalf, Past, SecondHalf
    <3>2. Crossing(a, b) BY <2>6, <2>8, <3>1 DEF Crossing
    <3> QED BY <1>2, <2>1, <2>6, <3>1, <3>2
  <2>9. ASSUME NEW a \in Classes, NEW b \in Classes, row'[a] # None, row'[b] # None, <<a, b>> \notin torn'
        PROVE  Agrees(a, b)' \/ \E q \in Procs : Behind(q, a, b)'
    <3>1. CASE a = c /\ b = s
      <4>1. Past(p) BY <2>1 DEF Past, SecondHalf
      <4>2. At1(p) BY <1>1, <2>1, <2>9, <3>1, <4>1 DEF Pair
      <4> QED BY <2>4, <2>5, <2>9, <3>1, <4>2
    <3>2. CASE ~(a = c /\ b = s)
      <4>1. a \in row'[b].parents <=> a \in row[b].parents BY <2>3, <2>4, <3>2
      <4>2. Agrees(a, b) \/ \E q \in Procs : Behind(q, a, b) BY <1>3, <2>1, <2>5, <2>9
      <4>3. ~Behind(p, a, b) BY <3>2 DEF Behind, Pair
      <4> QED BY <2>5, <2>6, <4>1, <4>2, <4>3
    <3> QED BY <3>1, <3>2
  <2> QED BY <1>l, <2>1, <2>5, <2>7, <2>8, <2>9
<1>9. CASE Fail(p) /\ pc[p] \in Linkers
  <2>1. /\ pc'[p] = "idle" /\ row' = row /\ torn \subseteq torn'
        /\ pc[p] \in SecondHalf => Pair(p) \in torn'
        /\ lock' = [d \in Classes |-> IF lock[d] = p THEN None ELSE lock[d]]
    BY <1>0, <1>9, TypeReturn DEF Fail
  <2>2. ASSUME NEW q \in Procs, q # p
        PROVE  /\ Past(q)' <=> Past(q)
               /\ \A a \in Classes, b \in Classes : Behind(q, a, b)' <=> Behind(q, a, b)
               /\ Pair(q)' = Pair(q) /\ req'[q] = req[q] /\ pc'[q] = pc[q]
               /\ Holds(q, req[q].class)' <=> Holds(q, req[q].class)
    <3>1. \A d \in Classes : lock'[d] = q <=> lock[d] = q BY <1>0, <2>1, <2>2 DEF Typed
    <3> QED BY <1>0, <2>2, <3>1, OthersStay
  <2>3. ASSUME NEW q \in Procs, Past(q)', Pair(q)' \notin torn' PROVE At1(q)'
    <3>1. q # p BY <2>1, <2>3 DEF Past, SecondHalf
    <3> QED BY <1>1, <2>1, <2>2, <2>3, <3>1
  <2>4. ASSUME NEW a \in Procs, NEW b \in Procs, Crossing(a, b)' PROVE Pair(a)' \in torn'
    <3>1. a # p /\ b # p BY <2>1, <2>4 DEF Crossing, FirstHalf, Past, SecondHalf
    <3>2. Crossing(a, b) BY <2>2, <2>4, <3>1 DEF Crossing
    <3> QED BY <1>2, <2>1, <2>2, <3>1, <3>2
  <2>5. ASSUME NEW a \in Classes, NEW b \in Classes, row'[a] # None, row'[b] # None, <<a, b>> \notin torn'
        PROVE  Agrees(a, b)' \/ \E q \in Procs : Behind(q, a, b)'
    <3>1. ~Behind(p, a, b) BY <2>1, <2>5 DEF Behind, SecondHalf
    <3> QED BY <1>3, <2>1, <2>2, <2>5, <3>1
  <2> QED BY <1>l, <2>1, <2>3, <2>4, <2>5
<1>10. CASE \/ PackageCache(p) \/ PackageList(p) \/ ClassCache(p) \/ ClassList(p)
            \/ Ignored(p) /\ pc[p] \in Linkers
  BY <1>4, <1>10, AlongStep
<1> QED BY <1>5, <1>6, <1>7, <1>8, <1>9, <1>10 DEF Link

\* Ids are not given up.
LEMMA BornGrows == ASSUME NEW p \in Procs, Step(p) PROVE born \subseteq born'
<1> USE DEF db, cache
<1>1. CASE Look(p)
  BY <1>1 DEF Look, onHttpAddClass, onHttpImportClass, onHttpCloneClass, onHttpChangeClass, onHttpEndClass,
         onHttpDeleteClass, onHttpPublishClass, onHttpSetClassAlly, onHttpAddSubClass,
         onHttpDeleteSubClass, onHttpQuerySubClass, onHttpQueryClass, onHttpAddGdStudentToGdCourse, Receive,
         GetHit, GetMiss, GetFill, Refuse, ReadDone, List, ListChildren, FindHit, FindNone, FindRow,
         FindFill, FindFails, LocateHit, LocateRow, LocateNone, LocateFill, CloneCache, ImportDone, Closed,
         ChangeFind, AllyFind, AllySame, CacheWrite, Unindex, NotEmpty, DeleteHash, LinkSkip, LinkStart
<1>2. CASE Edit(p)
  BY <1>2 DEF Edit, Insert, CacheNew, ListNew, CloneList, ImportMeeting, Write, Index, DeleteRow, DeleteFromGroup
<1>3. CASE Link(p) \/ Fail(p) \/ Ignored(p)
  BY <1>3 DEF Link, LinkPackage, PackageCache, PackageList, PackageCommit, LinkClass, ClassCache, ClassList,
         ClassCommit, Fail, Ignored
<1> QED BY <1>1, <1>2, <1>3 DEF Step, Look, Edit, Link

\* Classes and packages agree, for any classes, handlers and scenes.  Only the last
\* step of AddSubClass or DeleteSubClass makes the two sides equal, and it has to be
\* the last for the pair: a handler past its first commit finds the package as it
\* left it, for whoever would change it back meanwhile is known.
THEOREM SubClassesStayTogether == Spec => []SubClassesAgree
<1>1. Init => LinkInv
  <2> SUFFICES ASSUME Init PROVE LinkInv OBVIOUS
  <2>1. \A p \in Procs : pc[p] = "idle" BY DEF Init
  <2>2. scene \in DOMAIN Scenes /\ row = Scenes[scene].rows BY DEF Init
  <2>3. \A c, s \in Live : s \in row[c].children <=> c \in row[s].parents BY <2>2, ScenesAgree DEF Live
  <2>4. Foreseen
    <3>1. born = Live /\ \A c \in Live : row[c].children \subseteq Live BY <2>2, ScenesAgree DEF Init, Live
    <3> QED BY <3>1 DEF Foreseen, Live
  <2> QED BY <2>1, <2>3, <2>4 DEF LinkInv, Past, Crossing, SecondHalf, FirstHalf
<1>2. ReachInv /\ LinkInv /\ [Next]_vars => LinkInv'
  <2> SUFFICES ASSUME ReachInv, LinkInv, [Next]_vars PROVE LinkInv' OBVIOUS
  <2>1. CASE UNCHANGED vars
    BY <2>1 DEF vars, db, cache, local, history, LinkInv, Foreseen, Past, Crossing, Behind, Pair, Holds, Live
  <2>2. ASSUME NEW p \in Procs, Step(p) PROVE LinkInv'
    BY <2>2, PlainOrLink, BornGrows, LinkStays, LinkStep
  <2> QED BY <2>1, <2>2 DEF Next
<1>3. ReachInv /\ LinkInv => SubClassesAgree
  <2> SUFFICES ASSUME ReachInv, LinkInv, NEW c \in Live, NEW s \in Live,
                      <<c, s>> \notin torn, {c, s} \intersect Busy = {}
               PROVE  s \in row[c].children <=> c \in row[s].parents
    BY DEF SubClassesAgree
  <2>1. ASSUME NEW p \in Procs, Behind(p, c, s) PROVE FALSE
    <3>1. pc[p] # "idle" /\ req[p].class = c BY <2>1 DEF Behind, Pair
    <3> QED BY <3>1 DEF Busy
  <2> QED BY <2>1 DEF LinkInv
<1> QED BY <1>1, <1>2, <1>3, ReachInit, ReachStep, PTL DEF Spec

(***************************************************************************)
(* Classes are found.                                                      *)
(***************************************************************************)

\* Nobody changes a row that another handler holds.
LEMMA RowsHeld ==
  ASSUME ReachInv, NEW p \in Procs, Step(p), NEW c \in Classes, lock[c] \notin {None, p}
  PROVE  row'[c] = row[c]
<1> USE DEF db, cache
<1>0. Typed /\ Born /\ Placed(p) /\ Locked(c) BY DEF ReachInv
<1>1. c \in born BY <1>0 DEF Locked, Born
<1>2. CASE UNCHANGED row BY <1>2
<1>3. CASE Insert(p)
  <2>1. (CHOOSE d \in Classes : d \notin born) \notin born BY <1>0, <1>3 DEF Insert, Typed
  <2> QED BY <1>0, <1>1, <1>3, <2>1 DEF Insert, Typed
<1>4. CASE CloneList(p) BY <1>0, <1>4 DEF CloneList, Typed
<1>5. CASE ImportMeeting(p) BY <1>0, <1>5 DEF ImportMeeting, Typed
<1>6. CASE Write(p) BY <1>0, <1>6 DEF Write, Typed
<1>7. CASE DeleteRow(p) BY <1>0, <1>7 DEF DeleteRow, Typed
<1>8. CASE PackageCommit(p) BY <1>0, <1>8 DEF PackageCommit, Placed, Holds, Linking, At, Typed
<1>9. CASE ClassCommit(p) BY <1>0, <1>9 DEF ClassCommit, Placed, Holds, Linking, At, Typed
<1>10. CASE Look(p)
  <2>1. UNCHANGED row
    BY <1>10 DEF Look, onHttpAddClass, onHttpImportClass, onHttpCloneClass, onHttpChangeClass, onHttpEndClass,
           onHttpDeleteClass, onHttpPublishClass, onHttpSetClassAlly, onHttpAddSubClass,
           onHttpDeleteSubClass, onHttpQuerySubClass, onHttpQueryClass, onHttpAddGdStudentToGdCourse, Receive,
           GetHit, GetMiss, GetFill, Refuse, ReadDone, List, ListChildren, FindHit, FindNone, FindRow,
           FindFill, FindFails, LocateHit, LocateRow, LocateNone, LocateFill, CloneCache, ImportDone, Closed,
           ChangeFind, AllyFind, AllySame, CacheWrite, Unindex, NotEmpty, DeleteHash, LinkSkip, LinkStart
  <2> QED BY <2>1
<1>11. CASE \/ CacheNew(p) \/ ListNew(p) \/ Index(p) \/ DeleteFromGroup(p) \/ LinkPackage(p) \/ PackageCache(p)
            \/ PackageList(p) \/ LinkClass(p) \/ ClassCache(p) \/ ClassList(p) \/ Fail(p) \/ Ignored(p)
  BY <1>11 DEF CacheNew, ListNew, Index, DeleteFromGroup, LinkPackage, PackageCache, PackageList, LinkClass,
        ClassCache, ClassList, Fail, Ignored
<1> QED BY <1>2, <1>3, <1>4, <1>5, <1>6, <1>7, <1>8, <1>9, <1>10, <1>11 DEF Step, Look

LEMMA FoundStays ==
  ASSUME ReachInv, FoundInv, NEW p \in Procs, Step(p), Frame(p), Plain(p)
  PROVE  FoundInv'
<1>0. Typed /\ (\A q \in Procs : Placed(q)) /\ stranded \subseteq stranded' BY DEF ReachInv, Plain
<1>r. \A q \in Procs : req[q].class \in Classes /\ req[q].other \in Classes BY <1>0, ReqFields
<1>1. ASSUME NEW c \in Classes, NEW s \in Classes, Shows(c, s) PROVE Shows(c, s)' \/ s \in stranded'
  BY <1>1 DEF Plain, Rowwise
<1>3. Grounded' BY DEF FoundInv, Plain, Rowwise
<1>4. ASSUME NEW s \in Classes, row'[s] # None PROVE Placeable(s)'
  <2>1. CASE row[s] = None
    <3>1. Moves(p, s)' BY <1>4, <2>1 DEF Plain, Kept
    <3> QED BY <3>1 DEF Placeable
  <2>2. CASE row[s] # None
    <3>1. Placeable(s) BY <2>2 DEF FoundInv
    <3>2. CASE s \in group \/ Moves(p, s) BY <1>4, <3>2 DEF Plain, Kept, Placeable
    <3>3. CASE s \in stranded BY <1>0, <3>3 DEF Placeable
    <3>4. ASSUME NEW q \in Procs, q # p, Moves(q, s) PROVE Placeable(s)'
      <4>1. Moves(q, s)' BY <3>4 DEF Moves, Frame
      <4> QED BY <4>1 DEF Placeable
    <3>5. ASSUME NEW c \in Classes, Shows(c, s) PROVE Placeable(s)' BY <1>1, <3>5 DEF Placeable
    <3> QED BY <3>1, <3>2, <3>3, <3>4, <3>5 DEF Placeable
  <2> QED BY <2>1, <2>2
<1>5. ASSUME NEW q \in Procs, q # p
      PROVE  /\ Past(q)' <=> Past(q)
             /\ \A c \in Classes, s \in Classes : Behind(q, c, s)' <=> Behind(q, c, s)
             /\ Pair(q)' = Pair(q) /\ req'[q] = req[q] /\ pc'[q] = pc[q]
             /\ Holds(q, req[q].class)' <=> Holds(q, req[q].class)
  <2>1. lock' = lock /\ pc'[q] = pc[q] /\ req'[q] = req[q] BY <1>5 DEF Plain, Frame
  <2> QED BY <2>1 DEF Past, Behind, Holds, Pair
<1>6. ~Past(p)' /\ pc'[p] \notin FirstHalf /\ \A c, s : ~Behind(p, c, s)
  BY DEF Plain, Past, SecondHalf, FirstHalf, Behind, Linkers
<1>7. ASSUME NEW q \in Procs, Past(q)', req'[q].op = "sub"
      PROVE  Shows(req[q].class, req[q].other)' \/ req'[q].other \in stranded'
  <2>1. q # p /\ Past(q) /\ req'[q] = req[q] BY <1>5, <1>6, <1>7
  <2>2. Shows(req[q].class, req[q].other) \/ req[q].other \in stranded BY <1>7, <2>1 DEF FoundInv
  <2>3. Shows(req[q].class, req[q].other) => (row'[req[q].class] # None /\ row'[req[q].class].package
            /\ req[q].other \in row'[req[q].class].children) \/ req[q].other \in stranded'
    BY <1>1, <1>r DEF Shows
  <2> QED BY <1>0, <2>1, <2>2, <2>3 DEF Shows
<1>8. ASSUME NEW a \in Procs, NEW b \in Procs, Crossing(a, b)' PROVE req'[a].other \in stranded'
  <2>1. a # p /\ b # p BY <1>6, <1>8 DEF Crossing
  <2>2. Crossing(a, b) /\ req'[a] = req[a] BY <1>5, <1>8, <2>1 DEF Crossing
  <2> QED BY <1>0, <2>2 DEF FoundInv
<1>9. ASSUME NEW a \in Procs, pc'[a] \in FirstHalf, Holds(a, req[a].class)'
      PROVE  row'[req'[a].class].package \/ req'[a].other \in stranded'
  <2>1. a # p BY <1>6, <1>9
  <2>2. pc[a] \in FirstHalf /\ Holds(a, req[a].class) /\ req'[a] = req[a] BY <1>5, <1>9, <2>1
  <2>3. row'[req[a].class] = row[req[a].class]
    BY <1>r, <2>1, <2>2, RowsHeld, NoneIsNone DEF Holds
  <2> QED BY <1>0, <2>2, <2>3 DEF FoundInv
<1>10. ASSUME NEW c \in Classes, NEW s \in Classes, row'[s] # None, c \in row'[s].parents
       PROVE  Shows(c, s)' \/ s \in stranded' \/ \E q \in Procs : Behind(q, c, s)' /\ req'[q].op = "unsub"
  <2>1. row[s] # None /\ c \in row[s].parents BY <1>10 DEF Plain, Rowwise
  <2>2. Shows(c, s) \/ s \in stranded \/ \E q \in Procs : Behind(q, c, s) /\ req[q].op = "unsub"
    BY <2>1 DEF FoundInv
  <2> QED BY <1>0, <1>1, <1>5, <1>6, <2>2
<1> QED BY <1>3, <1>4, <1>7, <1>8, <1>9, <1>10 DEF FoundInv

LEMMA FoundStep ==
  ASSUME ReachInv, FoundInv, NEW p \in Procs, Frame(p), Link(p)
  PROVE  FoundInv' \/ Plain(p)
<1> USE DEF db, cache, local, history, Linking, At
<1>0. /\ Typed /\ Born /\ \A q \in Procs : Placed(q)
      /\ \A q \in Procs : req[q].class \in Classes /\ req[q].other \in Classes /\ q # None
      /\ p # None
  BY ReqFields, NoneIsNone DEF ReachInv
<1> DEFINE c == req[p].class
           s == req[p].other
           Has1(q) == Shows(req[q].class, req[q].other) \/ req[q].other \in stranded
           Has2(q) == row[req[q].class].package \/ req[q].other \in stranded
           Named(a, b) == Shows(a, b) \/ b \in stranded \/ \E q \in Procs : Behind(q, a, b) /\ req[q].op = "unsub"
<1>1. ASSUME NEW q \in Procs, Past(q), req[q].op = "sub" PROVE Has1(q) BY <1>1 DEF FoundInv
<1>2. ASSUME NEW a \in Procs, NEW b \in Procs, Crossing(a, b) PROVE req[a].other \in stranded BY <1>2 DEF FoundInv
<1>3. ASSUME NEW a \in Procs, pc[a] \in FirstHalf, Holds(a, req[a].class) PROVE Has2(a) BY <1>3 DEF FoundInv
<1>4. ASSUME NEW a \in Classes, NEW b \in Classes, row[b] # None, a \in row[b].parents PROVE Named(a, b)
  BY <1>4 DEF FoundInv
<1>5. ASSUME NEW x \in Classes, row[x] # None PROVE Placeable(x) BY <1>5 DEF FoundInv
<1>l. ASSUME Grounded',
             \A x \in Classes : row'[x] # None => Placeable(x)',
             \A q \in Procs : Past(q)' /\ req'[q].op = "sub" => Has1(q)',
             \A a, b \in Procs : Crossing(a, b)' => req'[a].other \in stranded',
             \A a \in Procs : pc'[a] \in FirstHalf /\ Holds(a, req[a].class)' => Has2(a)',
             \A a, b \in Classes : row'[b] # None /\ a \in row'[b].parents => Named(a, b)'
      PROVE  FoundInv'
  BY <1>l DEF FoundInv
<1>m. ASSUME NEW q \in Procs, q # p, NEW x, Moves(q, x) PROVE Placeable(x)'
  <2>1. Moves(q, x)' BY <1>m DEF Moves, Frame
  <2> QED BY <2>1 DEF Placeable
<1>s. ASSUME \A x, y \in Classes : Shows(x, y)' => Shows(x, y), stranded \subseteq stranded' PROVE Grounded'
  BY <1>s, NoNewShows DEF FoundInv
<1>o. ASSUME NEW q \in Procs, q # p, \A d \in Classes : lock'[d] = q <=> lock[d] = q
      PROVE  /\ Past(q)' <=> Past(q)
             /\ \A a \in Classes, b \in Classes : Behind(q, a, b)' <=> Behind(q, a, b)
             /\ Pair(q)' = Pair(q) /\ req'[q] = req[q] /\ pc'[q] = pc[q]
             /\ Holds(q, req[q].class)' <=> Holds(q, req[q].class)
  BY <1>0, <1>o, OthersStay
<1>6. CASE Along(p)
  <2>1. UNCHANGED <<row, lock>> /\ stranded \subseteq stranded' /\ req[p].op \in Links BY <1>6 DEF Along
  <2>2. \A a, b : Shows(a, b)' <=> Shows(a, b) BY <2>1 DEF Shows
  <2>3. Past(p)' => Past(p) /\ req'[p] = req[p] BY <1>6, <2>1 DEF Along, Past, Holds, SecondHalf
  <2>4. \A a, b : Behind(p, a, b) => Behind(p, a, b)' /\ req'[p] = req[p]
    BY <1>6, <2>1 DEF Along, Behind, Holds, Pair
  <2>5. pc'[p] \in FirstHalf => pc[p] \in FirstHalf /\ req'[p] = req[p] BY <1>6 DEF Along, FirstHalf
  <2>6. Grounded' BY <1>s, <2>1, <2>2
  <2>7. ASSUME NEW x \in Classes, row'[x] # None PROVE Placeable(x)'
    <3>1. CASE x \in group /\ x \notin group' \union stranded'
      <4>1. /\ pc[p] = "list1" /\ x = s /\ req[p].op = "sub" /\ req'[p] = req[p]
            /\ pc'[p] = IF Holds(p, c) THEN "commit1" ELSE "tx2"
        BY <1>6, <2>1, <3>1 DEF Along, Links
      <4>2. CASE Holds(p, c)
        <5>1. Moves(p, x)' BY <4>1, <4>2 DEF Moves
        <5> QED BY <5>1 DEF Placeable
      <4>3. CASE ~Holds(p, c)
        <5>1. Past(p) BY <4>1, <4>3 DEF Past
        <5>2. Shows(c, x) \/ x \in stranded BY <1>1, <4>1, <5>1
        <5> QED BY <1>0, <2>1, <2>2, <5>2 DEF Placeable
      <4> QED BY <4>2, <4>3
    <3>2. CASE Moves(p, x)
      <4>1. x = s /\ req[p].op = "unsub" /\ pc[p] \in {"hash2", "list2"} /\ tx[p].parents = {}
        BY <1>6, <3>2 DEF Along, Moves
      <4>2. CASE pc[p] = "hash2"
        <5>1. pc'[p] = "list2" /\ req'[p] = req[p] /\ tx'[p] = tx[p] BY <1>6, <4>1, <4>2 DEF Along
        <5>2. Moves(p, x)' BY <4>1, <5>1 DEF Moves
        <5> QED BY <5>2 DEF Placeable
      <4>3. CASE pc[p] = "list2" BY <1>6, <4>1, <4>3 DEF Along, Placeable
      <4> QED BY <4>1, <4>2, <4>3
    <3>3. CASE x \in stranded \/ \E d \in Classes : Shows(d, x) BY <2>1, <2>2, <3>3 DEF Placeable
    <3>4. Placeable(x) BY <1>5, <2>1, <2>7
    <3> QED BY <1>m, <3>1, <3>2, <3>3, <3>4 DEF Placeable
  <2>8. ASSUME NEW q \in Procs, Past(q)', req'[q].op = "sub" PROVE Has1(q)'
    <3>1. Past(q) /\ req'[q] = req[q] BY <1>o, <2>1, <2>3, <2>8
    <3> QED BY <1>1, <2>1, <2>8, <3>1 DEF Shows
  <2>9. ASSUME NEW a \in Procs, NEW b \in Procs, Crossing(a, b)' PROVE req'[a].other \in stranded'
    <3>1. Past(b) /\ req'[b] = req[b] BY <1>o, <2>1, <2>3, <2>9 DEF Crossing
    <3>2. pc[a] \in FirstHalf /\ req'[a] = req[a] BY <1>o, <2>1, <2>5, <2>9 DEF Crossing
    <3>3. Crossing(a, b) BY <2>1, <2>9, <3>1, <3>2 DEF Crossing, Holds, Pair
    <3> QED BY <1>2, <2>1, <3>2, <3>3
  <2>10. ASSUME NEW a \in Procs, pc'[a] \in FirstHalf, Holds(a, req[a].class)' PROVE Has2(a)'
    <3>1. pc[a] \in FirstHalf /\ req'[a] = req[a] BY <1>o, <2>1, <2>5, <2>10
    <3>2. Holds(a, req[a].class) BY <2>1, <2>10, <3>1 DEF Holds
    <3> QED BY <1>3, <2>1, <3>1, <3>2
  <2>11. ASSUME NEW a \in Classes, NEW b \in Classes, row'[b] # None, a \in row'[b].parents PROVE Named(a, b)'
    <3>1. Named(a, b) BY <1>4, <2>1, <2>11
    <3>2. ASSUME NEW q \in Procs, Behind(q, a, b), req[q].op = "unsub" PROVE Named(a, b)'
      <4>1. Behind(q, a, b)' /\ req'[q] = req[q] BY <1>o, <2>1, <2>4, <3>2
      <4> QED BY <3>2, <4>1
    <3> QED BY <2>1, <2>2, <3>1, <3>2
  <2> QED BY <1>l, <2>6, <2>7, <2>8, <2>9, <2>10, <2>11
<1>7. CASE LinkPackage(p) /\ c \notin Live
  <2>1. /\ Return(p) /\ UNCHANGED <<row, lock, torn, stranded, group>> /\ pc[p] = "have2" BY <1>7 DEF LinkPackage
  <2> QED BY <2>1, PlainReturn DEF Linkers
<1>8. CASE LinkPackage(p) /\ c \in Live
  <2> DEFINE new == Edited(p, row[c].children, s)
  <2>1. /\ pc[p] = "have2" /\ pc'[p] = "hash1" /\ req'[p] = req[p] /\ UNCHANGED <<row, group>> /\ lock[c] = None
        /\ lock' = IF new = row[c].children THEN lock ELSE [lock EXCEPT ![c] = p]
        /\ Crossed(p) \/ ~row[c].package => s \in stranded'
        /\ stranded \subseteq stranded' /\ req[p].op \in Links
    BY <1>0, <1>8 DEF LinkPackage, Goto, Links, Typed
  <2>2. row[c] # None /\ \A a, b : Shows(a, b)' <=> Shows(a, b) BY <1>8, <2>1 DEF Live, Shows
  <2>3. \A d \in Classes, q \in Procs : q # p => (lock'[d] = q <=> lock[d] = q) BY <1>0, <2>1 DEF Typed
  <2>4. ASSUME NEW q \in Procs, q # p
        PROVE  /\ Past(q)' <=> Past(q)
               /\ \A a \in Classes, b \in Classes : Behind(q, a, b)' <=> Behind(q, a, b)
               /\ Pair(q)' = Pair(q) /\ req'[q] = req[q] /\ pc'[q] = pc[q]
               /\ Holds(q, req[q].class)' <=> Holds(q, req[q].class)
    BY <1>o, <2>3, <2>4
  <2>5. \A x, a, b : ~Moves(p, x) /\ ~Behind(p, a, b) BY <2>1 DEF Behind, Moves
  <2>6. Grounded' BY <1>s, <2>1, <2>2
  <2>7. ASSUME NEW x \in Classes, row'[x] # None PROVE Placeable(x)'
    BY <1>5, <1>m, <2>1, <2>2, <2>5, <2>7 DEF Placeable
  <2>8. ASSUME NEW q \in Procs, Past(q)', req'[q].op = "sub" PROVE Has1(q)'
    <3>1. CASE q = p
      <4>1. new = row[c].children BY <1>0, <2>1, <2>8, <3>1 DEF Past, SecondHalf, Holds, Typed
      <4>2. s \in row[c].children BY <2>1, <2>8, <3>1, <4>1 DEF Edited
      <4>3. Shows(c, s) \/ s \in stranded' BY <2>1, <2>2, <4>2 DEF Shows
      <4> QED BY <2>1, <3>1, <4>3 DEF Shows
    <3>2. CASE q # p
      <4>1. Past(q) /\ req'[q] = req[q] BY <2>4, <2>8, <3>2
      <4> QED BY <1>1, <2>1, <2>8, <4>1 DEF Shows
    <3> QED BY <3>1, <3>2
  <2>9. ASSUME NEW a \in Procs, NEW b \in Procs, Crossing(a, b)' PROVE req'[a].other \in stranded'
    <3>1. CASE a # p /\ b # p
      <4>1. Crossing(a, b) BY <2>4, <2>9, <3>1 DEF Crossing
      <4> QED BY <1>2, <2>1, <2>4, <3>1, <4>1
    <3>2. CASE a = p /\ b # p
      <4>1. Past(b) /\ Pair(b) = Pair(p) /\ req[b].op # req[p].op BY <2>1, <2>4, <2>9, <3>2 DEF Crossing, Pair
      <4>2. Crossed(p) BY <3>2, <4>1 DEF Crossed, Past, SecondHalf
      <4> QED BY <2>1, <3>2, <4>2
    <3>3. CASE a # p /\ b = p
      <4>1. req[a].class = c /\ Holds(a, c) BY <2>1, <2>4, <2>9, <3>3 DEF Crossing, Pair
      <4> QED BY <1>0, <2>1, <4>1 DEF Holds
    <3>4. CASE a = p /\ b = p BY <2>9, <3>4 DEF Crossing
    <3> QED BY <3>1, <3>2, <3>3, <3>4
  <2>10. ASSUME NEW a \in Procs, pc'[a] \in FirstHalf, Holds(a, req[a].class)' PROVE Has2(a)'
    <3>1. CASE a = p BY <2>1, <3>1
    <3>2. CASE a # p BY <1>3, <2>1, <2>4, <2>10, <3>2
    <3> QED BY <3>1, <3>2
  <2>11. ASSUME NEW a \in Classes, NEW b \in Classes, row'[b] # None, a \in row'[b].parents PROVE Named(a, b)'
    BY <1>4, <2>1, <2>2, <2>4, <2>5, <2>11
  <2> QED BY <1>l, <2>6, <2>7, <2>8, <2>9, <2>10, <2>11
<1>9. CASE PackageCommit(p)
  <2>1. /\ pc[p] = "commit1" /\ pc'[p] = "tx2" /\ req'[p] = req[p] /\ group' = group
        /\ row' = [row EXCEPT ![c] = tx[p]] /\ lock' = [lock EXCEPT ![c] = None] /\ lock[c] = p
        /\ req[p].op \in Links
        /\ stranded' = IF req[p].op = "sub" /\ c \in Below({s}) THEN stranded \union {s} ELSE stranded
    BY <1>0, <1>9 DEF PackageCommit, Goto, Typed, Placed, Holds, Links
  <2>2. row[c] # None /\ row[c] \in ClassInfo /\ tx[p] = [row[c] EXCEPT !.children = Edited(p, row[c].children, s)]
    BY <1>0, <2>1, Holding
  <2>3. /\ row'[c] # None /\ row'[c].children = Edited(p, row[c].children, s) /\ row'[c].parents = row[c].parents
        /\ row'[c].package = row[c].package
        /\ \A d \in Classes \ {c} : row'[d] = row[d]
    <3>1. tx[p] # None BY <1>0, <2>1 DEF Placed, Linkers
    <3>2. row'[c] = tx[p] /\ \A d \in Classes \ {c} : row'[d] = row[d] BY <1>0, <2>1 DEF Typed
    <3> QED BY <2>2, <3>1, <3>2 DEF ClassInfo
  <2>4. \A x \in Classes, y \in Classes :
          Shows(x, y)' <=> IF x = c /\ y = s THEN row[c].package /\ req[p].op = "sub" ELSE Shows(x, y)
    <3>1. \A y : y \in row'[c].children <=> IF y = s THEN req[p].op = "sub" ELSE y \in row[c].children
      BY <2>1, <2>3 DEF Edited, Links
    <3> TAKE x \in Classes, y \in Classes
    <3>2. CASE x = c BY <2>2, <2>3, <3>1, <3>2 DEF Shows
    <3>3. CASE x # c BY <2>3, <3>3 DEF Shows
    <3> QED BY <3>2, <3>3
  <2>5. stranded \subseteq stranded' /\ \A d \in Classes : (row'[d] # None => row[d] # None) /\ row'[d].parents = row[d].parents
    BY <2>1, <2>2, <2>3
  <2>6. ASSUME NEW q \in Procs, q # p
        PROVE  /\ Past(q)' <=> Past(q)
               /\ \A a \in Classes, b \in Classes : Behind(q, a, b)' <=> Behind(q, a, b)
               /\ Pair(q)' = Pair(q) /\ req'[q] = req[q] /\ pc'[q] = pc[q]
               /\ Holds(q, req[q].class)' <=> Holds(q, req[q].class)
    <3>1. \A d \in Classes : lock'[d] = q <=> lock[d] = q BY <1>0, <2>1, <2>6 DEF Typed
    <3> QED BY <1>o, <2>6, <3>1
  <2>7. ASSUME NEW a \in Classes, NEW b \in Classes, a = c, b = s, req[p].op = "sub"
        PROVE  Shows(a, b)' \/ b \in stranded'
    <3>1. row[c].package \/ s \in stranded BY <1>3, <2>1 DEF FirstHalf, Holds
    <3> QED BY <2>4, <2>5, <2>7, <3>1
  <2>8. Grounded'
    <3>1. CASE req[p].op = "sub"
      <4>1. \A x, y \in Classes : Shows(x, y)' => Shows(x, y) \/ (x = c /\ y = s) BY <2>4
      <4>2. c \in Below({s}) => s \in stranded' BY <2>1, <3>1
      <4>3. c \in Classes /\ s \in Classes /\ Grounded BY <1>0 DEF FoundInv
      <4> HIDE DEF c, s
      <4> QED BY <2>5, <4>1, <4>2, <4>3, GroundedEdges
    <3>2. CASE req[p].op # "sub"
      <4>1. \A x, y \in Classes : Shows(x, y)' => Shows(x, y) BY <2>4, <3>2
      <4> QED BY <1>s, <2>5, <4>1
    <3> QED BY <3>1, <3>2
  <2>9. ASSUME NEW x \in Classes, row'[x] # None PROVE Placeable(x)'
    <3>1. CASE x = s
      <4>1. CASE req[p].op = "sub"
        <5>1. PICK a \in Classes : a = c BY <1>0
        <5>2. Shows(a, x)' \/ x \in stranded' BY <2>7, <3>1, <4>1, <5>1
        <5> QED BY <5>2 DEF Placeable
      <4>2. CASE req[p].op = "unsub"
        <5>1. Moves(p, x)' BY <2>1, <3>1, <4>2 DEF Moves
        <5> QED BY <5>1 DEF Placeable
      <4> QED BY <2>1, <4>1, <4>2 DEF Links
    <3>2. CASE x # s
      <4>1. Placeable(x) BY <1>5, <2>5, <2>9
      <4>2. ~Moves(p, x) BY <2>1, <3>2 DEF Moves
      <4>3. \A d \in Classes : Shows(d, x) => Shows(d, x)' BY <2>4, <3>2
      <4> QED BY <1>m, <2>1, <2>5, <4>1, <4>2, <4>3 DEF Placeable
    <3> QED BY <3>1, <3>2
  <2>10. ASSUME NEW q \in Procs, Past(q)', req'[q].op = "sub" PROVE Has1(q)'
    <3>1. CASE q = p
      <4>1. PICK a \in Classes, b \in Classes : a = c /\ b = s BY <1>0
      <4>2. Shows(a, b)' \/ b \in stranded' BY <2>1, <2>7, <2>10, <3>1, <4>1
      <4> QED BY <2>1, <3>1, <4>1, <4>2 DEF Shows
    <3>2. CASE q # p
      <4>1. Past(q) /\ req'[q] = req[q] /\ Has1(q) BY <1>1, <2>6, <2>10, <3>2
      <4>2. Shows(req[q].class, req[q].other) =>
              \/ /\ row'[req[q].class] # None /\ row'[req[q].class].package
                 /\ req[q].other \in row'[req[q].class].children
              \/ req[q].other \in stranded
        <5>1. CASE req[q].class # c BY <1>0, <2>3, <5>1 DEF Shows
        <5>2. CASE req[q].class = c /\ (req[q].other # s \/ req[p].op = "sub") BY <2>3, <5>2 DEF Shows, Edited
        <5>3. CASE req[q].class = c /\ req[q].other = s /\ req[p].op = "unsub"
          <6>1. Crossing(p, q) BY <2>1, <2>10, <4>1, <5>3 DEF Crossing, FirstHalf, Holds, Pair
          <6> QED BY <1>2, <5>3, <6>1
        <5> QED BY <2>1, <5>1, <5>2, <5>3 DEF Links
      <4> QED BY <2>5, <4>1, <4>2 DEF Shows
    <3> QED BY <3>1, <3>2
  <2>11. ASSUME NEW a \in Procs, NEW b \in Procs, Crossing(a, b)' PROVE req'[a].other \in stranded'
    <3>1. a # p BY <2>1, <2>11 DEF Crossing, FirstHalf
    <3>2. CASE b # p
      <4>1. Crossing(a, b) BY <2>6, <2>11, <3>1, <3>2 DEF Crossing
      <4> QED BY <1>2, <2>5, <2>6, <3>1, <4>1
    <3>3. CASE b = p
      <4>1. Holds(a, req[a].class) /\ req[a].class = c BY <2>1, <2>6, <2>11, <3>1, <3>3 DEF Crossing, Pair
      <4> QED BY <2>1, <3>1, <4>1 DEF Holds
    <3> QED BY <3>2, <3>3
  <2>12. ASSUME NEW a \in Procs, pc'[a] \in FirstHalf, Holds(a, req[a].class)' PROVE Has2(a)'
    <3>1. a # p BY <2>1, <2>12 DEF FirstHalf
    <3>2. pc[a] \in FirstHalf /\ Holds(a, req[a].class) /\ req'[a] = req[a] BY <2>6, <2>12, <3>1
    <3>3. req[a].class # c BY <2>1, <3>1, <3>2 DEF Holds
    <3>4. row'[req[a].class] = row[req[a].class] BY <1>0, <2>3, <3>3
    <3> QED BY <1>3, <2>5, <3>2, <3>4
  <2>13. ASSUME NEW a \in Classes, NEW b \in Classes, row'[b] # None, a \in row'[b].parents PROVE Named(a, b)'
    <3>1. Named(a, b) BY <1>4, <2>5, <2>13
    <3>2. ~Behind(p, a, b) BY <2>1 DEF Behind
    <3>3. CASE a = c /\ b = s
      <4>1. CASE req[p].op = "sub" BY <2>7, <3>3, <4>1
      <4>2. CASE req[p].op = "unsub"
        <5>1. Behind(p, a, b)' BY <2>1, <3>3 DEF Behind, Pair
        <5> QED BY <2>1, <4>2, <5>1
      <4> QED BY <2>1, <4>1, <4>2 DEF Links
    <3>4. CASE ~(a = c /\ b = s)
      <4>1. Shows(a, b) => Shows(a, b)' BY <2>4, <3>4
      <4> QED BY <2>5, <2>6, <3>1, <3>2, <4>1
    <3> QED BY <3>3, <3>4
  <2> QED BY <1>l, <2>8, <2>9, <2>10, <2>11, <2>12, <2>13
<1>10. CASE LinkClass(p)
  <2>1. pc[p] = "tx2" /\ lock[s] = None /\ UNCHANGED <<row, group, stranded>> /\ req[p].op \in Links
    BY <1>10 DEF LinkClass, Links
  <2>2. \A d \in Classes, q \in Procs : q # p => (lock'[d] = q <=> lock[d] = q) BY <1>0, <1>10 DEF LinkClass, Typed
  <2>3. ASSUME NEW q \in Procs, q # p
        PROVE  /\ Past(q)' <=> Past(q)
               /\ \A a \in Classes, b \in Classes : Behind(q, a, b)' <=> Behind(q, a, b)
               /\ Pair(q)' = Pair(q) /\ req'[q] = req[q] /\ pc'[q] = pc[q]
               /\ Holds(q, req[q].class)' <=> Holds(q, req[q].class)
    BY <1>o, <2>2, <2>3
  <2> DEFINE new == Edited(p, row[s].parents, c)
  <2>4. \/ pc'[p] = "idle" /\ row[s] = None
        \/ /\ pc'[p] = "hash2" /\ req'[p] = req[p] /\ row[s] # None
           /\ lock' = IF new = row[s].parents THEN lock ELSE [lock EXCEPT ![s] = p]
           /\ tx'[p] = [row[s] EXCEPT !.parents = new]
    <3>1. CASE s \notin Live
      <4>1. Return(p) BY <1>10, <3>1 DEF LinkClass
      <4> QED BY <1>0, <3>1, <4>1, TypeReturn DEF Live
    <3>2. CASE s \in Live BY <1>0, <1>10, <3>2 DEF LinkClass, Goto, Live, Typed
    <3> QED BY <3>1, <3>2
  <2>5. Past(p) /\ (Past(p)' => req'[p] = req[p]) BY <2>1, <2>4 DEF Past, SecondHalf
  <2>6. \A a, b : Shows(a, b)' <=> Shows(a, b) BY <2>1 DEF Shows
  <2>7. Grounded' BY <1>s, <2>1, <2>6
  <2>8. ASSUME NEW x \in Classes, row'[x] # None PROVE Placeable(x)'
    <3>1. CASE Moves(p, x)
      <4>1. x = s /\ req[p].op = "unsub" BY <2>1, <3>1 DEF Moves
      <4>2. /\ pc'[p] = "hash2" /\ req'[p] = req[p] /\ tx'[p] = [row[s] EXCEPT !.parents = new]
            /\ row[s] # None /\ row[s] \in ClassInfo
        BY <1>0, <2>1, <2>4, <2>8, <4>1 DEF Typed
      <4>3. tx'[p].parents = new BY <4>2 DEF ClassInfo
      <4>4. CASE new = {}
        <5>1. Moves(p, x)' BY <4>1, <4>2, <4>3, <4>4 DEF Moves
        <5> QED BY <5>1 DEF Placeable
      <4>5. CASE new # {}
        <5>1. PICK d : d \in new BY <4>5
        <5>2. d \in row[s].parents /\ d # c /\ d \in Classes BY <4>1, <4>2, <5>1 DEF Edited, ClassInfo
        <5>3. Named(d, x) BY <1>4, <4>1, <4>2, <5>2
        <5>4. ASSUME NEW q \in Procs, Behind(q, d, x), req[q].op = "unsub" PROVE Placeable(x)'
          <6>1. q # p BY <5>2, <5>4 DEF Behind, Pair
          <6>2. pc[q] = "tx2" /\ req[q].other = x BY <1>0, <2>1, <4>1, <5>4 DEF Behind, Pair, Holds
          <6>3. Moves(q, x) BY <5>4, <6>2 DEF Moves
          <6> QED BY <1>m, <6>1, <6>3
        <5> QED BY <2>1, <2>6, <5>2, <5>3, <5>4 DEF Placeable
      <4> QED BY <4>4, <4>5
    <3>2. CASE ~Moves(p, x) BY <1>5, <1>m, <2>1, <2>6, <2>8, <3>2 DEF Placeable
    <3> QED BY <3>1, <3>2
  <2>9. ASSUME NEW q \in Procs, Past(q)', req'[q].op = "sub" PROVE Has1(q)'
    <3>1. Past(q) /\ req'[q] = req[q] BY <2>3, <2>5, <2>9
    <3> QED BY <1>1, <2>1, <2>9, <3>1 DEF Shows
  <2>10. ASSUME NEW a \in Procs, NEW b \in Procs, Crossing(a, b)' PROVE req'[a].other \in stranded'
    <3>1. a # p BY <2>4, <2>10 DEF Crossing, FirstHalf
    <3>2. Past(b) /\ req'[b] = req[b] BY <2>3, <2>5, <2>10 DEF Crossing
    <3>3. Crossing(a, b) BY <2>3, <2>10, <3>1, <3>2 DEF Crossing, Pair
    <3> QED BY <1>2, <2>1, <2>3, <3>1, <3>3
  <2>11. ASSUME NEW a \in Procs, pc'[a] \in FirstHalf, Holds(a, req[a].class)' PROVE Has2(a)'
    <3>1. a # p BY <2>4, <2>11 DEF FirstHalf
    <3> QED BY <1>3, <2>1, <2>3, <2>11, <3>1
  <2>12. ASSUME NEW a \in Classes, NEW b \in Classes, row'[b] # None, a \in row'[b].parents PROVE Named(a, b)'
    <3>1. Named(a, b) BY <1>4, <2>1, <2>12
    <3>2. CASE Behind(p, a, b) /\ req[p].op = "unsub"
      <4>1. a = c /\ b = s BY <3>2 DEF Behind, Pair
      <4>2. pc'[p] = "hash2" /\ req'[p] = req[p] /\ row[s] # None BY <2>1, <2>4, <2>12, <4>1
      <4>3. new # row[s].parents BY <2>1, <2>12, <3>2, <4>1 DEF Edited
      <4>4. lock'[s] = p BY <1>0, <2>4, <4>2, <4>3 DEF Typed
      <4>5. Behind(p, a, b)' BY <4>1, <4>2, <4>4 DEF Behind, Pair, Holds
      <4> QED BY <3>2, <4>2, <4>5
    <3>3. CASE \E q \in Procs \ {p} : Behind(q, a, b) /\ req[q].op = "unsub" BY <2>3, <3>3
    <3> QED BY <2>1, <2>6, <3>1, <3>2, <3>3
  <2> QED BY <1>l, <2>7, <2>8, <2>9, <2>10, <2>11, <2>12
<1>11. CASE ClassCommit(p)
  <2>1. /\ pc[p] = "commit2" /\ pc'[p] = "idle" /\ UNCHANGED <<group, stranded>> /\ req[p].op \in Links
        /\ row' = [row EXCEPT ![s] = tx[p]] /\ lock' = [lock EXCEPT ![s] = None] /\ lock[s] = p
    BY <1>0, <1>11, TypeReturn DEF ClassCommit, Placed, Holds, Links
  <2>2. row[s] # None /\ row[s] \in ClassInfo /\ tx[p] = [row[s] EXCEPT !.parents = Edited(p, row[s].parents, c)]
    BY <1>0, <2>1, Holding DEF FirstHalf
  <2>3. /\ row'[s] # None /\ row'[s].parents = Edited(p, row[s].parents, c) /\ row'[s].children = row[s].children
        /\ row'[s].package = row[s].package
        /\ \A d \in Classes \ {s} : row'[d] = row[d]
    <3>1. tx[p] # None BY <1>0, <2>1 DEF Placed, Linkers
    <3>2. row'[s] = tx[p] /\ \A d \in Classes \ {s} : row'[d] = row[d] BY <1>0, <2>1 DEF Typed
    <3> QED BY <2>2, <3>1, <3>2 DEF ClassInfo
  <2>4. /\ \A d \in Classes : (row'[d] = None <=> row[d] = None) /\ row'[d].package = row[d].package
        /\ \A a \in Classes, b \in Classes : Shows(a, b)' <=> Shows(a, b)
    BY <2>2, <2>3 DEF Shows
  <2>5. ASSUME NEW q \in Procs, q # p
        PROVE  /\ Past(q)' <=> Past(q)
               /\ \A a \in Classes, b \in Classes : Behind(q, a, b)' <=> Behind(q, a, b)
               /\ Pair(q)' = Pair(q) /\ req'[q] = req[q] /\ pc'[q] = pc[q]
               /\ Holds(q, req[q].class)' <=> Holds(q, req[q].class)
    <3>1. \A d \in Classes : lock'[d] = q <=> lock[d] = q BY <1>0, <2>1, <2>5 DEF Typed
    <3> QED BY <1>o, <2>5, <3>1
  <2>6. Grounded' BY <1>s, <2>1, <2>4
  <2>7. ASSUME NEW x \in Classes, row'[x] # None PROVE Placeable(x)'
    <3>1. ~Moves(p, x) BY <2>1 DEF Moves
    <3> QED BY <1>5, <1>m, <2>1, <2>4, <2>7, <3>1 DEF Placeable
  <2>8. ASSUME NEW q \in Procs, Past(q)', req'[q].op = "sub" PROVE Has1(q)'
    <3>1. q # p BY <2>1, <2>8 DEF Past, SecondHalf
    <3>2. Past(q) /\ req'[q] = req[q] /\ Has1(q) BY <1>1, <2>5, <2>8, <3>1
    <3>3. PICK a \in Classes, b \in Classes : a = req[q].class /\ b = req[q].other BY <1>0
    <3>4. Shows(a, b)' \/ b \in stranded' BY <2>1, <2>4, <3>2, <3>3
    <3> QED BY <3>2, <3>3, <3>4 DEF Shows
  <2>9. ASSUME NEW a \in Procs, NEW b \in Procs, Crossing(a, b)' PROVE req'[a].other \in stranded'
    <3>1. a # p /\ b # p BY <2>1, <2>9 DEF Crossing, FirstHalf, Past, SecondHalf
    <3>2. Crossing(a, b) BY <2>5, <2>9, <3>1 DEF Crossing
    <3> QED BY <1>2, <2>1, <2>5, <3>1, <3>2
  <2>10. ASSUME NEW a \in Procs, pc'[a] \in FirstHalf, Holds(a, req[a].class)' PROVE Has2(a)'
    <3>1. a # p BY <2>1, <2>10 DEF FirstHalf
    <3> QED BY <1>0, <1>3, <2>1, <2>4, <2>5, <2>10, <3>1
  <2>11. ASSUME NEW a \in Classes, NEW b \in Classes, row'[b] # None, a \in row'[b].parents PROVE Named(a, b)'
    <3>1. CASE a = c /\ b = s
      <4>1. req[p].op = "sub" BY <2>1, <2>3, <2>11, <3>1 DEF Edited, Links
      <4>2. Past(p) BY <2>1 DEF Past, SecondHalf
      <4>3. Shows(a, b) \/ b \in stranded BY <1>1, <3>1, <4>1, <4>2
      <4> QED BY <2>1, <2>4, <4>3
    <3>2. CASE ~(a = c /\ b = s)
      <4>1. a \in row[b].parents /\ row[b] # None BY <2>3, <2>4, <2>11, <3>2 DEF Edited
      <4>2. Named(a, b) BY <1>4, <4>1
      <4>3. ~Behind(p, a, b) BY <3>2 DEF Behind, Pair
      <4> QED BY <2>1, <2>4, <2>5, <4>2, <4>3
    <3> QED BY <3>1, <3>2
  <2> QED BY <1>l, <2>6, <2>7, <2>8, <2>9, <2>10, <2>11
<1>12. CASE Fail(p) /\ pc[p] \in Linkers
  <2>1. /\ pc'[p] = "idle" /\ UNCHANGED <<row, group>> /\ stranded' = stranded \union {s}
        /\ lock' = [d \in Classes |-> IF lock[d] = p THEN None ELSE lock[d]]
    BY <1>0, <1>12, TypeReturn DEF Fail, FirstHalf, SecondHalf, Linkers
  <2>2. \A a, b : Shows(a, b)' <=> Shows(a, b) BY <2>1 DEF Shows
  <2>3. ASSUME NEW q \in Procs, q # p
        PROVE  /\ Past(q)' <=> Past(q)
               /\ \A a \in Classes, b \in Classes : Behind(q, a, b)' <=> Behind(q, a, b)
               /\ Pair(q)' = Pair(q) /\ req'[q] = req[q] /\ pc'[q] = pc[q]
               /\ Holds(q, req[q].class)' <=> Holds(q, req[q].class)
    <3>1. \A d \in Classes : lock'[d] = q <=> lock[d] = q BY <1>0, <2>1, <2>3 DEF Typed
    <3> QED BY <1>o, <2>3, <3>1
  <2>4. Grounded' BY <1>s, <2>1, <2>2
  <2>5. ASSUME NEW x \in Classes, row'[x] # None PROVE Placeable(x)'
    <3>1. Moves(p, x) => x = s BY <1>12 DEF Moves, Linkers
    <3> QED BY <1>5, <1>m, <2>1, <2>2, <2>5, <3>1 DEF Placeable
  <2>6. ASSUME NEW q \in Procs, Past(q)', req'[q].op = "sub" PROVE Has1(q)'
    <3>1. q # p BY <2>1, <2>6 DEF Past, SecondHalf
    <3> QED BY <1>1, <2>1, <2>3, <2>6, <3>1 DEF Shows
  <2>7. ASSUME NEW a \in Procs, NEW b \in Procs, Crossing(a, b)' PROVE req'[a].other \in stranded'
    <3>1. a # p /\ b # p BY <2>1, <2>7 DEF Crossing, FirstHalf, Past, SecondHalf
    <3>2. Crossing(a, b) BY <2>3, <2>7, <3>1 DEF Crossing
    <3> QED BY <1>2, <2>1, <2>3, <3>1, <3>2
  <2>8. ASSUME NEW a \in Procs, pc'[a] \in FirstHalf, Holds(a, req[a].class)' PROVE Has2(a)'
    <3>1. a # p BY <2>1, <2>8 DEF FirstHalf
    <3> QED BY <1>3, <2>1, <2>3, <2>8, <3>1
  <2>9. ASSUME NEW a \in Classes, NEW b \in Classes, row'[b] # None, a \in row'[b].parents PROVE Named(a, b)'
    <3>1. Named(a, b) BY <1>4, <2>1, <2>9
    <3>2. Behind(p, a, b) => b = s BY DEF Behind, Pair
    <3> QED BY <2>1, <2>2, <2>3, <3>1, <3>2
  <2> QED BY <1>l, <2>4, <2>5, <2>6, <2>7, <2>8, <2>9
<1>13. CASE \/ PackageCache(p) \/ PackageList(p) \/ ClassCache(p) \/ ClassList(p)
            \/ Ignored(p) /\ pc[p] \in Linkers
  BY <1>6, <1>13, AlongStep
<1> QED BY <1>7, <1>8, <1>9, <1>10, <1>11, <1>12, <1>13 DEF Link

\* No class gets lost, for any classes, handlers and scenes.  It takes the ring
\* argument: a set of classes that are only below each other would be below nothing
\* that is listed, and the commit that closes such a ring writes the class down.
THEOREM ClassesStayFound == Spec => []ClassesAreFound
<1>1. Init => FoundInv
  <2> SUFFICES ASSUME Init PROVE FoundInv OBVIOUS
  <2>1. (\A p \in Procs : pc[p] = "idle") /\ group = Live \ UNION {row[k].children : k \in {c \in Live : row[c].package}}
        /\ stranded = {}
    BY DEF Init, preloadClasses
  <2>2. scene \in DOMAIN Scenes /\ row = Scenes[scene].rows BY DEF Init
  <2>3. /\ \A c \in Live : row[c].children \union row[c].parents \subseteq Live
        /\ \A c, s \in Live : s \in row[c].children <=> c \in row[s].parents
        /\ \A c \in Live : row[c].children # {} => row[c].package
        /\ \A U \in SUBSET Live : (\A s \in U : \E c \in U : s \in row[c].children) => U = {}
    BY <2>2, ScenesAgree DEF Live
  <2>4. Grounded
    <3> SUFFICES ASSUME NEW U \in SUBSET Classes, \A s \in U : \E c \in U : Shows(c, s) PROVE U = {}
      BY DEF Grounded
    <3>1. \A s \in U : \E c \in U : c \in Live /\ s \in row[c].children BY DEF Shows, Live
    <3>2. U \in SUBSET Live BY <2>3, <3>1
    <3> QED BY <2>3, <3>1, <3>2
  <2>5. ASSUME NEW s \in Classes, row[s] # None PROVE Placeable(s)
    <3>1. s \in Live BY <2>5 DEF Live
    <3>2. CASE s \notin group
      <4>1. PICK k \in Live : row[k].package /\ s \in row[k].children BY <2>1, <3>1, <3>2
      <4> QED BY <4>1 DEF Placeable, Shows, Live
    <3> QED BY <3>2 DEF Placeable
  <2>6. ASSUME NEW c \in Classes, NEW s \in Classes, row[s] # None, c \in row[s].parents PROVE Shows(c, s)
    <3>1. c \in Live /\ s \in Live BY <2>3, <2>6 DEF Live
    <3> QED BY <2>3, <2>6, <3>1 DEF Shows, Live
  <2> QED BY <2>1, <2>4, <2>5, <2>6 DEF FoundInv, Past, Crossing, SecondHalf, FirstHalf
<1>2. ReachInv /\ FoundInv /\ [Next]_vars => FoundInv'
  <2> SUFFICES ASSUME ReachInv, FoundInv, [Next]_vars PROVE FoundInv' OBVIOUS
  <2>1. CASE UNCHANGED vars
    <3>1. UNCHANGED <<row, group, stranded, lock, pc, req, found, tx>> BY <2>1 DEF vars, db, cache, local, history
    <3>2. /\ \A c, s : Shows(c, s)' <=> Shows(c, s)
          /\ \A p, s : Moves(p, s)' <=> Moves(p, s)
          /\ \A p : Past(p)' <=> Past(p)
          /\ \A p, q : Crossing(p, q)' <=> Crossing(p, q)
          /\ \A p, c, s : Behind(p, c, s)' <=> Behind(p, c, s)
      BY <3>1 DEF Shows, Moves, Past, Crossing, Behind, Pair, Holds
    <3>3. Grounded' BY <3>1, <3>2 DEF FoundInv, Grounded
    <3>4. \A s \in Classes : row'[s] # None => Placeable(s)' BY <3>1, <3>2 DEF FoundInv, Placeable
    <3>5. \A p : Holds(p, req[p].class)' <=> Holds(p, req[p].class) BY <3>1 DEF Holds
    <3>6. \A p : Shows(req[p].class, req[p].other)' <=> Shows(req[p].class, req[p].other) BY <3>1 DEF Shows
    <3> QED BY <3>1, <3>2, <3>3, <3>4, <3>5, <3>6 DEF FoundInv
  <2>2. ASSUME NEW p \in Procs, Step(p) PROVE FoundInv' BY <2>2, PlainOrLink, FoundStays, FoundStep
  <2> QED BY <2>1, <2>2 DEF Next
<1>3. ReachInv /\ FoundInv => ClassesAreFound
  <2> SUFFICES ASSUME ReachInv, FoundInv PROVE Live \subseteq Below(group \union stranded \union Busy)
    BY DEF ClassesAreFound
  <2> DEFINE S == group \union stranded \union Busy
             U == Live \ Below(S)
  <2>1. U \in SUBSET Classes BY DEF Live
  <2>2. \A s \in U : s \notin S BY BelowSeed DEF Live
  <2>3. ASSUME NEW s \in U PROVE \E c \in U : Shows(c, s)
    <3>1. Placeable(s) /\ s \notin S BY <2>2 DEF FoundInv, Live
    <3>2. ASSUME NEW p \in Procs, Moves(p, s) PROVE s \in Busy
      <4>1. pc[p] # "idle" /\ s \in {req[p].class, req[p].other, found[p]}
        BY <3>2 DEF Moves
      <4> QED BY <4>1 DEF Busy
    <3>3. PICK c \in Classes : Shows(c, s) BY <3>1, <3>2 DEF Placeable
    <3>4. c \in Live /\ c \notin Below(S)
      <4>1. s \in Classes /\ s \notin Below(S) BY DEF Live
      <4> HIDE DEF S
      <4> QED BY <3>3, <4>1, BelowShows DEF Live, Shows
    <3> QED BY <3>3, <3>4
  <2>4. U \intersect stranded = {} BY <2>2
  <2> HIDE DEF U
  <2>5. U = {} BY <2>1, <2>3, <2>4 DEF FoundInv, Grounded
  <2> QED BY <2>5 DEF U
<1> QED BY <1>1, <1>2, <1>3, ReachInit, ReachStep, PTL DEF Spec

(***************************************************************************)
(* Courses lead to classes.                                                *)
(***************************************************************************)

Files(p) == Insert(p) \/ Write(p) \/ Index(p) \/ FindHit(p) \/ FindNone(p) \/ FindFill(p) \/ FindFails(p)

\* No class gets a course, the index gets nothing new, p is past no check.
Unfiled(p) ==
  /\ misfiled \subseteq misfiled'
  /\ \A c \in Classes, k \in Courses : HasCourse(c, k)' => HasCourse(c, k)
  /\ \A k \in Courses : index'[k] \in {None, index[k]}
  /\ \A k \in Courses : ~Checked(p, k)'

LEMMA FiledStays == ASSUME FiledInv, NEW p \in Procs, Frame(p), Unfiled(p) PROVE FiledInv'
<1> SUFFICES ASSUME NEW k \in Courses \ misfiled'
             PROVE  /\ \A c, d \in Classes : HasCourse(c, k)' /\ HasCourse(d, k)' => c = d
                    /\ \A c \in Classes : HasCourse(c, k)' => index'[k] \in {None, c}
                    /\ \A q \in Procs : Checked(q, k)' =>
                         /\ \A c \in Classes : HasCourse(c, k)' => req'[q].op = "change" /\ c = req'[q].class
                         /\ index'[k] = None \/ (req'[q].op = "change" /\ index'[k] = req'[q].class)
  BY DEF FiledInv
<1>1. k \in Courses \ misfiled BY DEF Unfiled
<1>2. ASSUME NEW q \in Procs, Checked(q, k)' PROVE Checked(q, k) /\ req'[q] = req[q]
  <2>1. q # p BY <1>1, <1>2 DEF Unfiled
  <2> QED BY <1>2, <2>1 DEF Frame, Checked
<1> QED BY <1>1, <1>2 DEF Unfiled, FiledInv

LEMMA UnfiledQuiet ==
  ASSUME NEW p \in Procs, UNCHANGED <<row, index>>, misfiled \subseteq misfiled', pc'[p] \notin {"insert", "write"}
  PROVE  Unfiled(p)
BY DEF Unfiled, HasCourse, Checked

LEMMA UnfiledReturn ==
  ASSUME ReachInv, NEW p \in Procs, Return(p), UNCHANGED <<row, index>>, misfiled \subseteq misfiled'
  PROVE  Unfiled(p)
<1>1. pc'[p] = "idle" BY TypeReturn DEF ReachInv
<1> QED BY <1>1, UnfiledQuiet

LEMMA UnfiledGoto ==
  ASSUME ReachInv, NEW p \in Procs, NEW l, Goto(p, l), l \notin {"insert", "write"},
         UNCHANGED <<row, index>>, misfiled \subseteq misfiled'
  PROVE  Unfiled(p)
<1>1. pc'[p] = l BY DEF ReachInv, Typed, Goto
<1> QED BY <1>1, UnfiledQuiet

LEMMA UnfiledStep ==
  ASSUME ReachInv, NEW p \in Procs, Step(p), ~Files(p)
  PROVE  Unfiled(p)
<1> USE DEF db, cache, history
<1>0. Typed /\ Placed(p) BY DEF ReachInv
<1>1. ASSUME NEW op, NEW roles, Receive(p, op, roles) PROVE Unfiled(p)
  <2>1. PICK r \in Scenes[scene].calls : req' = [req EXCEPT ![p] = r] /\ Goto(p, Entry(r)) BY <1>1 DEF Receive
  <2>2. req'[p] = r /\ pc'[p] = Entry(r) BY <1>0, <2>1 DEF Goto, Typed
  <2>3. \A k : ~Checked(p, k)' BY <2>2 DEF Checked, Entry
  <2> QED BY <1>1, <2>3 DEF Receive, Unfiled, HasCourse
<1>2. CASE \/ onHttpAddClass(p) \/ onHttpImportClass(p) \/ onHttpCloneClass(p) \/ onHttpChangeClass(p)
           \/ onHttpEndClass(p) \/ onHttpDeleteClass(p) \/ onHttpPublishClass(p) \/ onHttpSetClassAlly(p)
           \/ onHttpAddSubClass(p) \/ onHttpDeleteSubClass(p) \/ onHttpQuerySubClass(p)
           \/ onHttpQueryClass(p) \/ onHttpAddGdStudentToGdCourse(p)
  BY <1>1, <1>2 DEF onHttpAddClass, onHttpImportClass, onHttpCloneClass, onHttpChangeClass, onHttpEndClass,
              onHttpDeleteClass, onHttpPublishClass, onHttpSetClassAlly, onHttpAddSubClass,
              onHttpDeleteSubClass, onHttpQuerySubClass, onHttpQueryClass, onHttpAddGdStudentToGdCourse
<1>3. CASE GetHit(p) \/ GetMiss(p) \/ GetFill(p) \/ List(p) \/ ListChildren(p)
  <2>1. /\ \/ Return(p)
           \/ \E l \in {"have", "have2", "fill", "fill2", "get", "get2"} : Goto(p, l)
        /\ UNCHANGED <<row, index, misfiled>>
    BY <1>3 DEF GetHit, GetMiss, GetFill, List, ListChildren
  <2> QED BY <2>1, UnfiledReturn, UnfiledGoto
<1>4. CASE \/ Refuse(p) \/ ReadDone(p) \/ ImportDone(p) \/ Closed(p) \/ AllySame(p) \/ NotEmpty(p) \/ LinkSkip(p)
           \/ CloneCache(p) \/ DeleteFromGroup(p)
  <2>1. Return(p) /\ UNCHANGED <<row, index, misfiled>>
    BY <1>4 DEF Refuse, ReadDone, ImportDone, Closed, AllySame, NotEmpty, LinkSkip, CloneCache, DeleteFromGroup
  <2> QED BY <2>1, UnfiledReturn
<1>5. CASE FindRow(p) \/ ChangeFind(p) \/ AllyFind(p) \/ DeleteHash(p) \/ LinkStart(p) \/ CacheNew(p)
  <2>1. /\ \E l \in {"findFill", "find", "get2", "unlist", "listNew", "index"} : Goto(p, l)
        /\ UNCHANGED <<row, index, misfiled>>
    BY <1>5 DEF FindRow, ChangeFind, AllyFind, DeleteHash, LinkStart, CacheNew
  <2> QED BY <2>1, UnfiledGoto
<1>6. CASE LocateHit(p) \/ LocateRow(p) \/ LocateNone(p) \/ LocateFill(p)
  <2>1. /\ \/ Return(p)
           \/ \E l \in {"get", "locateFill"} : Goto(p, l)
        /\ UNCHANGED <<row, index, misfiled>>
    BY <1>6 DEF LocateHit, LocateRow, LocateNone, LocateFill
  <2> QED BY <2>1, UnfiledReturn, UnfiledGoto
<1>7. CASE ListNew(p)
  <2>1. req[p].op \in {"add", "clone", "import"} BY <1>0, <1>7 DEF ListNew, Placed, Makes
  <2>2. /\ \/ Return(p)
           \/ \E l \in {"copy", "import"} : Goto(p, l)
        /\ UNCHANGED <<row, index, misfiled>>
    BY <1>7, <2>1 DEF ListNew
  <2> QED BY <2>2, UnfiledReturn, UnfiledGoto
<1>8. CASE CloneList(p) \/ ImportMeeting(p)
  <2>1. /\ pc[p] \in {"copy", "import"} /\ pc'[p] \in {"copied", "imported"} /\ UNCHANGED <<index, misfiled>>
        /\ found[p] \in Classes
    BY <1>0, <1>8 DEF CloneList, ImportMeeting, Goto, Placed, Typed
  <2>2. \/ row' = row
        \/ /\ row[found[p]] # None
           /\ row' = [row EXCEPT ![found[p]].full = view[p].full] \/ row' = [row EXCEPT ![found[p]].full = TRUE]
    BY <1>8 DEF CloneList, ImportMeeting, Live
  <2>3. ASSUME NEW c \in Classes, NEW k \in Courses, HasCourse(c, k)' PROVE HasCourse(c, k)
    <3>1. CASE row' = row \/ c # found[p] BY <1>0, <2>2, <2>3, <3>1 DEF HasCourse, Typed
    <3>2. CASE row' # row /\ c = found[p]
      <4>1. row[c] # None /\ row[c] \in ClassInfo BY <1>0, <2>2, <3>2 DEF Typed
      <4>2. row'[c] = [row[c] EXCEPT !.full = view[p].full] \/ row'[c] = [row[c] EXCEPT !.full = TRUE]
        BY <1>0, <2>1, <2>2, <3>2 DEF Typed
      <4>3. row'[c].course = row[c].course BY <4>1, <4>2 DEF ClassInfo
      <4> QED BY <2>3, <4>1, <4>3 DEF HasCourse
    <3> QED BY <3>1, <3>2
  <2> QED BY <2>1, <2>3 DEF Unfiled, Checked
<1>9. CASE CacheWrite(p)
  <2>1. /\ \/ Return(p)
           \/ \E l \in {"index", "unindex"} : Goto(p, l)
        /\ UNCHANGED <<row, index, misfiled>>
    BY <1>9 DEF CacheWrite
  <2> QED BY <2>1, UnfiledReturn, UnfiledGoto
<1>10. CASE Unindex(p)
  <2>1. pc'[p] \in {"index", "idle"} /\ UNCHANGED <<row, misfiled>> /\ \A k \in Courses : index'[k] \in {None, index[k]}
    BY <1>0, <1>10, TypeReturn DEF Unindex, AfterUnindex, Goto, Typed
  <2> QED BY <2>1 DEF Unfiled, HasCourse, Checked
<1>11. CASE DeleteRow(p)
  <2>1. /\ pc'[p] = "uncache" /\ UNCHANGED <<index, misfiled>> /\ \A c \in Classes : row'[c] \in {None, row[c]}
    BY <1>0, <1>11 DEF DeleteRow, Goto, Typed
  <2> QED BY <2>1 DEF Unfiled, HasCourse, Checked
<1>12. CASE \/ LinkPackage(p) \/ PackageCache(p) \/ PackageList(p) \/ LinkClass(p) \/ ClassCache(p) \/ ClassList(p)
  <2>1. /\ \/ Return(p)
           \/ \E l \in {"hash1", "list1", "commit1", "tx2", "hash2", "list2", "commit2"} : Goto(p, l)
        /\ UNCHANGED <<row, index, misfiled>>
    BY <1>12 DEF LinkPackage, PackageCache, PackageList, LinkClass, ClassCache, ClassList
  <2> QED BY <2>1, UnfiledReturn, UnfiledGoto
<1>13. CASE PackageCommit(p) \/ ClassCommit(p)
  <2>1. /\ pc'[p] \in {"tx2", "idle"} /\ UNCHANGED <<index, misfiled>>
        /\ \E d \in Classes : row' = [row EXCEPT ![d] = tx[p]] /\ lock[d] = p
    <3>1. req[p].class \in Classes /\ req[p].other \in Classes BY <1>0, ReqFields
    <3>2. CASE PackageCommit(p)
      BY <1>0, <3>1, <3>2 DEF PackageCommit, Linking, At, Goto, Typed, Placed, Holds
    <3>3. CASE ClassCommit(p)
      BY <1>0, <3>1, <3>3, TypeReturn DEF ClassCommit, Linking, At, Placed, Holds
    <3> QED BY <1>13, <3>2, <3>3
  <2>2. PICK d \in Classes : row' = [row EXCEPT ![d] = tx[p]] /\ lock[d] = p BY <2>1
  <2>3. /\ row[d] # None /\ row[d] \in ClassInfo
        /\ \/ tx[p] = [row[d] EXCEPT !.children = Edited(p, row[d].children, req[p].other)]
           \/ tx[p] = [row[d] EXCEPT !.parents = Edited(p, row[d].parents, req[p].class)]
    BY <2>2, Holding
  <2>4. row'[d].course = row[d].course /\ \A c \in Classes \ {d} : row'[c] = row[c]
    BY <1>0, <2>2, <2>3 DEF ClassInfo, Typed
  <2>5. \A c \in Classes, k \in Courses : HasCourse(c, k)' => HasCourse(c, k) BY <2>3, <2>4 DEF HasCourse
  <2> QED BY <2>1, <2>5 DEF Unfiled, Checked
<1>14. CASE Fail(p)
  <2>1. Return(p) /\ UNCHANGED <<row, index>> /\ misfiled \subseteq misfiled' BY <1>14 DEF Fail
  <2> QED BY <2>1, UnfiledReturn
<1>15. CASE Ignored(p)
  <2>1. /\ \/ Return(p)
           \/ \E l \in {"index", "listNew", "commit1", "tx2", "commit2"} : Goto(p, l)
        /\ UNCHANGED <<row, index>> /\ misfiled \subseteq misfiled'
    BY <1>15 DEF Ignored, AfterUnindex
  <2> QED BY <2>1, UnfiledReturn, UnfiledGoto
<1> QED BY <1>2, <1>3, <1>4, <1>5, <1>6, <1>7, <1>8, <1>9, <1>10, <1>11, <1>12, <1>13, <1>14, <1>15 DEF Step, Files

LEMMA FiledStep == ASSUME ReachInv, FiledInv, NEW p \in Procs, Frame(p), Files(p) PROVE FiledInv'
<1> USE DEF db, cache, history
<1>0. /\ Typed /\ Born /\ Placed(p) /\ \A q \in Procs : Placed(q)
      /\ req[p].class \in Classes /\ req[p].course \in Courses \union {None} /\ None \notin Classes \union Courses
  BY ReqFields, NoneIsNone DEF ReachInv
<1> SUFFICES ASSUME NEW k \in Courses \ misfiled'
             PROVE  /\ \A c, d \in Classes : HasCourse(c, k)' /\ HasCourse(d, k)' => c = d
                    /\ \A c \in Classes : HasCourse(c, k)' => index'[k] \in {None, c}
                    /\ \A q \in Procs : Checked(q, k)' =>
                         /\ \A c \in Classes : HasCourse(c, k)' => req'[q].op = "change" /\ c = req'[q].class
                         /\ index'[k] = None \/ (req'[q].op = "change" /\ index'[k] = req'[q].class)
  BY DEF FiledInv
<1> DEFINE cp == req[p].class
           kp == req[p].course
<1>m. misfiled \subseteq misfiled'
  BY DEF Files, Insert, Write, Index, FindHit, FindNone, FindFill, FindFails
<1>1. /\ \A c, d \in Classes : HasCourse(c, k) /\ HasCourse(d, k) => c = d
      /\ \A c \in Classes : HasCourse(c, k) => index[k] \in {None, c}
      /\ \A q \in Procs : Checked(q, k) =>
           /\ \A c \in Classes : HasCourse(c, k) => req[q].op = "change" /\ c = req[q].class
           /\ index[k] = None \/ (req[q].op = "change" /\ index[k] = req[q].class)
  BY <1>m DEF FiledInv
<1>2. ASSUME NEW q \in Procs, q # p PROVE (Checked(q, k)' <=> Checked(q, k)) /\ req'[q] = req[q]
  BY <1>2 DEF Frame, Checked
<1>3. ASSUME NEW q \in Procs, q # p, Checked(q, k) PROVE Overtaken(p, k)
  <2>1. req[q].op \in {"add", "change"} /\ pc[q] \in {"insert", "write"} /\ req[q].course = k /\ k # None
    BY <1>0, <1>3 DEF Checked, Placed
  <2> QED BY <1>3, <2>1 DEF Overtaken, Checking
\* A class is written to the index: it is the one that has the course, or that is a late entry.
<1>4. ASSUME NEW c, index' = [index EXCEPT ![kp] = c], UNCHANGED row, kp \in Courses,
             misfiled' = IF c \in Live /\ row[c].course = kp THEN misfiled ELSE misfiled \union {kp},
             \A q \in Procs : q = p /\ Checked(q, k)' => kp = k /\ req'[q].op = "change" /\ req'[q].class = c
      PROVE  /\ \A a, d \in Classes : HasCourse(a, k)' /\ HasCourse(d, k)' => a = d
             /\ \A d \in Classes : HasCourse(d, k)' => index'[k] \in {None, d}
             /\ \A q \in Procs : Checked(q, k)' =>
                  /\ \A d \in Classes : HasCourse(d, k)' => req'[q].op = "change" /\ d = req'[q].class
                  /\ index'[k] = None \/ (req'[q].op = "change" /\ index'[k] = req'[q].class)
  <2>1. \A d : HasCourse(d, k)' <=> HasCourse(d, k) BY <1>4 DEF HasCourse
  <2>2. index'[k] = IF k = kp THEN c ELSE index[k] BY <1>0, <1>4 DEF Typed
  <2>3. k = kp => c \in Classes /\ HasCourse(c, k) BY <1>4 DEF HasCourse, Live
  <2>4. ASSUME NEW q \in Procs, Checked(q, k)'
        PROVE  /\ \A d \in Classes : HasCourse(d, k)' => req'[q].op = "change" /\ d = req'[q].class
               /\ index'[k] = None \/ (req'[q].op = "change" /\ index'[k] = req'[q].class)
    <3>1. CASE q = p BY <1>1, <1>4, <2>1, <2>2, <2>3, <2>4, <3>1
    <3>2. CASE q # p BY <1>1, <1>2, <2>1, <2>2, <2>3, <2>4, <3>2
    <3> QED BY <3>1, <3>2
  <2> QED BY <1>1, <2>1, <2>2, <2>3, <2>4
<1>5. CASE Insert(p)
  <2>1. PICK c \in Classes : c = (CHOOSE d \in Classes : d \notin born) /\ c \notin born
    <3>1. (CHOOSE d \in Classes : d \notin born) \in Classes \ born BY <1>0, <1>5 DEF Insert, Typed
    <3> QED BY <3>1
  <2>2. /\ row' = [row EXCEPT ![c] = NewClass(p)] /\ UNCHANGED <<index, req>> /\ Goto(p, "cacheNew")
        /\ misfiled' = IF Overtaken(p, CourseOf(p)) THEN misfiled \union {CourseOf(p)} ELSE misfiled
    BY <1>5, <2>1 DEF Insert
  <2>3. /\ row'[c] = NewClass(p) /\ \A d \in Classes \ {c} : row'[d] = row[d]
        /\ row'[c].course = CourseOf(p) /\ row[c] = None /\ pc'[p] = "cacheNew"
    BY <1>0, <2>1, <2>2 DEF Typed, NewClass, Goto, Born
  <2>4. ~Checked(p, k)' BY <2>3 DEF Checked
  <2>5. \A d \in Classes : d # c => (HasCourse(d, k)' <=> HasCourse(d, k)) BY <2>3 DEF HasCourse
  <2>6. CASE CourseOf(p) = k
    <3>1. req[p].op = "add" /\ pc[p] = "insert" /\ kp = k BY <1>0, <1>5, <2>6 DEF CourseOf, Insert, At
    <3>2. Checked(p, k) BY <1>0, <3>1 DEF Checked
    <3>3. index[k] = None /\ \A d \in Classes : ~HasCourse(d, k) BY <1>1, <3>1, <3>2
    <3>4. ~Overtaken(p, k) BY <2>2, <2>6
    <3>5. \A q \in Procs : ~Checked(q, k)' BY <1>2, <1>3, <2>4, <3>4
    <3> QED BY <2>2, <2>5, <3>3, <3>5
  <2>7. CASE CourseOf(p) # k
    <3>1. ~HasCourse(c, k)' BY <2>3, <2>7 DEF HasCourse
    <3> QED BY <1>1, <1>2, <2>2, <2>4, <2>5, <3>1
  <2> QED BY <2>6, <2>7
<1>6. CASE Write(p)
  <2>1. /\ req[p].op \in {"change", "end", "ally"} /\ index' = index /\ pc'[p] = "cacheWrite"
        /\ misfiled' = IF ChecksCourse(p) /\ Overtaken(p, kp) THEN misfiled \union {kp} ELSE misfiled
    BY <1>0, <1>6, MayWriteKnows DEF Write, Goto, Typed
  <2>2. ~Checked(p, k)' BY <2>1 DEF Checked
  <2>3. CASE row' = row
    <3>1. \A d \in Classes : HasCourse(d, k)' <=> HasCourse(d, k) BY <2>3 DEF HasCourse
    <3> QED BY <1>1, <1>2, <2>1, <2>2, <3>1
  <2>4. CASE row' # row
    <3>1. row[cp] # None /\ row[cp] \in ClassInfo BY <1>0, <1>6, <2>4 DEF Write, Live, Typed
    <3>2. row'[cp] = Applied(p, row[cp]) /\ \A d \in Classes \ {cp} : row'[d] = row[d]
      BY <1>0, <1>6, <2>4 DEF Write, Typed
    <3>3. \A d \in Classes : d # cp => (HasCourse(d, k)' <=> HasCourse(d, k)) BY <3>2 DEF HasCourse
    <3>4. row'[cp].course = IF ChangesCourse(p) THEN kp ELSE row[cp].course
      BY <2>1, <3>1, <3>2 DEF Applied, ClassInfo, ChangesCourse
    <3>5. CASE ChangesCourse(p) /\ kp = k
      <4>1. pc[p] = "write" /\ req[p].op = "change" /\ ChecksCourse(p)
        BY <1>0, <1>6, <3>5 DEF Write, MayWrite, At, ChecksCourse, ChangesCourse
      <4>2. Checked(p, k) BY <1>0, <3>5, <4>1 DEF Checked
      <4>3. \A d \in Classes : HasCourse(d, k) => d = cp BY <1>1, <4>2
      <4>4. index[k] \in {None, cp} BY <1>1, <4>2
      <4>5. ~Overtaken(p, k) BY <2>1, <3>5, <4>1
      <4>6. \A q \in Procs : ~Checked(q, k)' BY <1>2, <1>3, <2>2, <4>5
      <4>7. \A d \in Classes : HasCourse(d, k)' => d = cp BY <3>3, <4>3
      <4> QED BY <2>1, <4>4, <4>6, <4>7
    <3>6. CASE ~(ChangesCourse(p) /\ kp = k)
      <4>1. row'[cp].course = k => HasCourse(cp, k) BY <3>1, <3>4, <3>6 DEF HasCourse
      <4>2. ASSUME NEW d \in Classes, HasCourse(d, k)' PROVE HasCourse(d, k)
        <5>1. CASE d = cp BY <4>1, <4>2, <5>1 DEF HasCourse
        <5> QED BY <3>3, <4>2, <5>1
      <4> QED BY <1>1, <1>2, <2>1, <2>2, <4>2
    <3> QED BY <3>5, <3>6
  <2> QED BY <2>3, <2>4
<1>7. CASE Index(p)
  <2>1. pc[p] = "index" /\ kp \in Courses BY <1>0, <1>7 DEF Index, Placed
  <2>2. pc'[p] \in {"listNew", "idle"} BY <1>0, <1>7, TypeReturn DEF Index, Goto, Typed
  <2>3. ~Checked(p, k)' BY <2>2 DEF Checked
  <2>4. PICK c : c = IF req[p].op = "add" THEN found[p] ELSE cp OBVIOUS
  <2>5. /\ index' = [index EXCEPT ![kp] = c] /\ row' = row
        /\ misfiled' = IF c \in Live /\ row[c].course = kp THEN misfiled ELSE misfiled \union {kp}
    BY <1>7, <2>4 DEF Index
  <2> QED BY <1>4, <2>1, <2>3, <2>5
\* What the check of a course may lead to.
<1>8. ASSUME NEW c \in Classes \union {None}, Answer(p, c), pc[p] \in {"find", "findFill"}, Checked(p, k)'
      PROVE  /\ kp = k /\ req'[p] = req[p] /\ pc'[p] # "idle"
             /\ \/ req[p].op = "add" /\ c = None
                \/ req[p].op = "change" /\ c \in {None, cp}
  <2>1. req[p].op \in {"add", "find", "locate", "change"} BY <1>0, <1>8 DEF Placed
  <2>2. pc'[p] \in {"insert", "write"} BY <1>8 DEF Checked
  <2>3. CASE Return(p) BY <1>0, <2>2, <2>3, TypeReturn
  <2>4. CASE req[p].op \in {"find", "locate"} /\ c # None
    BY <1>0, <1>8, <2>2, <2>4 DEF Answer, Goto, Typed
  <2>5. CASE /\ UNCHANGED req
             /\ \/ req[p].op = "add" /\ c = None
                \/ req[p].op = "change" /\ c \in {None, cp}
    BY <1>8, <2>2, <2>5 DEF Checked
  <2> QED BY <1>8, <2>1, <2>3, <2>4, <2>5 DEF Answer, local
<1>9. CASE FindFill(p)
  <2>1. pc[p] = "findFill" /\ kp \in Courses /\ found[p] \in Classes BY <1>0, <1>9 DEF FindFill, Placed, Typed
  <2>2. PICK c : c = found[p] OBVIOUS
  <2>3. /\ index' = [index EXCEPT ![kp] = c] /\ row' = row /\ Answer(p, c)
        /\ misfiled' = IF c \in Live /\ row[c].course = kp THEN misfiled ELSE misfiled \union {kp}
    BY <1>9, <2>2 DEF FindFill
  <2>4. Checked(p, k)' => kp = k /\ req'[p].op = "change" /\ req'[p].class = c
    BY <1>0, <1>8, <2>1, <2>2, <2>3
  <2> QED BY <1>4, <2>1, <2>3, <2>4
<1>10. CASE FindHit(p) \/ FindNone(p) \/ FindFails(p)
  <2>1. UNCHANGED <<row, index>> /\ pc[p] = "find" /\ kp \in Courses BY <1>0, <1>10 DEF FindHit, FindNone, FindFails, Placed
  <2>2. \A d : HasCourse(d, k)' <=> HasCourse(d, k) BY <2>1 DEF HasCourse
  <2>3. ASSUME Checked(p, k)'
        PROVE  /\ \A d \in Classes : HasCourse(d, k)' => req'[p].op = "change" /\ d = req'[p].class
               /\ index'[k] = None \/ (req'[p].op = "change" /\ index'[k] = req'[p].class)
    <3>1. CASE FindHit(p)
      <4>1. index[kp] \in Classes /\ Answer(p, index[kp]) BY <1>0, <2>1, <3>1 DEF FindHit, Typed
      <4>2. kp = k /\ req'[p] = req[p] /\ req[p].op = "change" /\ index[k] = cp BY <1>0, <1>8, <2>1, <2>3, <4>1
      <4> QED BY <1>0, <1>1, <2>1, <2>2, <4>2
    <3>2. CASE FindNone(p)
      <4>1. Answer(p, None) /\ index[kp] = None /\ \A d \in Classes : ~HasCourse(d, kp)
        BY <3>2 DEF FindNone, HasCourse, Live
      <4>2. kp = k BY <1>8, <2>1, <2>3, <4>1
      <4> QED BY <2>1, <2>2, <4>1, <4>2
    <3>3. CASE FindFails(p)
      <4>1. Answer(p, None) /\ kp \in misfiled' BY <3>3 DEF FindFails
      <4> QED BY <1>8, <2>1, <2>3, <4>1
    <3> QED BY <1>10, <3>1, <3>2, <3>3
  <2>4. ASSUME NEW q \in Procs, q # p, Checked(q, k)'
        PROVE  /\ \A d \in Classes : HasCourse(d, k)' => req'[q].op = "change" /\ d = req'[q].class
               /\ index'[k] = None \/ (req'[q].op = "change" /\ index'[k] = req'[q].class)
    BY <1>1, <1>2, <2>1, <2>2, <2>4
  <2> QED BY <1>1, <2>1, <2>2, <2>3, <2>4
<1> QED BY <1>5, <1>6, <1>7, <1>9, <1>10 DEF Files

\* A course leads to its class, for any classes, handlers and scenes.  A handler that
\* has checked a course is the only one who may give it, or the course is written
\* down when the first of them does.
THEOREM CoursesStayFiled == Spec => []CourseLeadsToClass
<1>1. Init => FiledInv
  <2> SUFFICES ASSUME Init, NEW k \in Courses
               PROVE  /\ \A c, d \in Classes : HasCourse(c, k) /\ HasCourse(d, k) => c = d
                      /\ \A c \in Classes : HasCourse(c, k) => index[k] \in {None, c}
                      /\ \A p \in Procs : ~Checked(p, k)
    BY DEF FiledInv
  <2>1. \A p \in Procs : pc[p] = "idle" BY DEF Init
  <2>2. scene \in DOMAIN Scenes /\ row = Scenes[scene].rows /\ k # None BY NoneIsNone DEF Init
  <2>3. \A c, d \in Live : row[c].course # None /\ row[c].course = row[d].course => c = d BY <2>2, ScenesAgree DEF Live
  <2>4. \A c, d \in Classes : HasCourse(c, k) /\ HasCourse(d, k) => c = d BY <2>2, <2>3 DEF HasCourse, Live
  <2>5. PICK cached \in {{}, Live} : preloadClasses(cached) BY DEF Init
  <2>6. index[k] = None \/ (index[k] \in Live /\ row[index[k]].course = k) BY <2>5 DEF preloadClasses
  <2>7. \A c \in Classes : HasCourse(c, k) => index[k] \in {None, c} BY <2>2, <2>3, <2>6 DEF HasCourse, Live
  <2> QED BY <2>1, <2>4, <2>7 DEF Checked
<1>2. ReachInv /\ FiledInv /\ [Next]_vars => FiledInv'
  <2> SUFFICES ASSUME ReachInv, FiledInv, [Next]_vars PROVE FiledInv' OBVIOUS
  <2>1. CASE UNCHANGED vars
    <3>1. UNCHANGED <<row, index, misfiled, pc, req>> BY <2>1 DEF vars, db, cache, local, history
    <3>2. /\ \A c, k : HasCourse(c, k)' <=> HasCourse(c, k)
          /\ \A p, k : Checked(p, k)' <=> Checked(p, k)
      BY <3>1 DEF HasCourse, Checked
    <3> QED BY <3>1, <3>2 DEF FiledInv
  <2>2. ASSUME NEW p \in Procs, Step(p) PROVE FiledInv'
    <3>1. Frame(p) BY <2>2, FrameStep
    <3> QED BY <2>2, <3>1, UnfiledStep, FiledStays, FiledStep
  <2> QED BY <2>1, <2>2 DEF Next
<1>3. ReachInv /\ FiledInv => CourseLeadsToClass
  <2> SUFFICES ASSUME ReachInv, FiledInv, NEW c \in Live, row[c].course # None, row[c].course \notin misfiled
               PROVE  /\ \A d \in Live \ {c} : row[d].course # row[c].course
                      /\ index[row[c].course] \in {None, c}
    BY DEF CourseLeadsToClass
  <2>1. c \in Classes /\ row[c] # None /\ row[c] \in ClassInfo BY DEF Live, ReachInv, Typed
  <2>2. row[c].course \in Courses \ misfiled /\ HasCourse(c, row[c].course) BY <2>1 DEF HasCourse, ClassInfo
  <2>3. \A d \in Live : row[d].course = row[c].course => HasCourse(d, row[c].course) /\ d \in Classes BY DEF HasCourse, Live
  <2> QED BY <2>1, <2>2, <2>3 DEF FiledInv
<1> QED BY <1>1, <1>2, <1>3, ReachInit, ReachStep, PTL DEF Spec
=============================================================================
