------------------------ MODULE ClassRoster_proofs ------------------------
(* Theorems about ClassRoster, for any users, classes, handlers and calls. *)
EXTENDS ClassRoster, TLAPS

LEMMA CallsAreRequests == AnyRequest \in Request /\ Requests \subseteq Request
  BY RequestsAreCalls DEF AnyRequest

LEMMA NoneFacts ==
  /\ \A row \in ClassRow : None # row
  /\ \A cl \in SUBSET Classes : None # cl
  /\ None \notin Procs
  BY NoneIsNoRow

LEMMA EmptyRowType == EmptyRow \in ClassRow /\ NoTx \in [row: ClassRow,
    rows: SUBSET (Users \X Meetings), made: SUBSET Meetings]
  BY DEF EmptyRow, ClassRow, NoTx

(***************************************************************************)
(* Type correctness, one lemma per operation.                              *)
(***************************************************************************)

LEMMA TypeReturn ==
  ASSUME TypeOK, NEW p \in Procs, Return(p)
  PROVE  /\ pc' \in [Procs -> Labels] /\ req' \in [Procs -> Request]
         /\ view' \in [Procs -> ClassRow] /\ list' \in [Procs -> SUBSET Classes]
         /\ tx' \in [Procs -> [row: ClassRow, rows: SUBSET (Users \X Meetings),
                               made: SUBSET Meetings]]
         /\ todo' \in [Procs -> SUBSET Users]
  BY CallsAreRequests, EmptyRowType DEF TypeOK, Return, Goto, Labels

LEMMA TypeGetClass ==
  ASSUME TypeOK, NEW p \in Procs, Call(p) \/ GetClass(p) \/ Relation(p)
  PROVE  TypeOK'
<1> USE CallsAreRequests, EmptyRowType DEF TypeOK, Goto, Labels, db, cache, locks, local, history
<1>1. CASE Call(p)           BY <1>1 DEF Call
<1>2. CASE GetClassHit(p)    BY <1>2 DEF GetClassHit, Request
<1>3. CASE GetClassMiss(p)
  <2>1. class[req[p].class] # None => class[req[p].class] \in ClassRow BY DEF Request
  <2>2. CASE class[req[p].class] = None BY <2>2, <1>3, TypeReturn DEF GetClassMiss
  <2>3. CASE class[req[p].class] # None BY <2>1, <2>3, <1>3, ZenonT(40) DEF GetClassMiss
  <2> QED BY <2>2, <2>3
<1>4. CASE GetClassFill(p)   BY <1>4 DEF GetClassFill, Request, Keys
<1>5. CASE RelationHit(p)    BY <1>5, TypeReturn DEF RelationHit
<1>6. CASE RelationMiss(p)
  <2>1. userClass[req[p].user] # None => userClass[req[p].user] \in SUBSET Classes BY DEF Request
  <2>2. CASE userClass[req[p].user] = None BY <2>2, <1>6, TypeReturn DEF RelationMiss
  <2>3. CASE userClass[req[p].user] # None BY <2>1, <2>3, <1>6 DEF RelationMiss
  <2> QED BY <2>2, <2>3
<1>7. CASE RelationFill(p)   BY <1>7, TypeReturn DEF RelationFill, Request, Keys
<1> QED BY <1>1, <1>2, <1>3, <1>4, <1>5, <1>6, <1>7 DEF GetClass, Relation

LEMMA RowField ==
  ASSUME NEW row \in ClassRow
  PROVE  /\ \A f \in Roles : row[f] \in SUBSET Users
         /\ \A f \in Roles, v \in SUBSET Users : [row EXCEPT ![f] = v] \in ClassRow
         /\ \A v \in SUBSET Meetings : [row EXCEPT !.meetings = v] \in ClassRow
         /\ row.meetings \in SUBSET Meetings
  BY DEF ClassRow, Roles

LEMMA ReqFields ==
  ASSUME TypeOK, NEW p \in Procs
  PROVE  /\ req[p].op \in Ops /\ req[p].user \in Users /\ req[p].class \in Classes
         /\ req[p].role \in Roles /\ req[p].add \in BOOLEAN
  BY DEF TypeOK, Request

LEMMA TypeRelease ==
  ASSUME TypeOK, NEW p \in Procs, Release(p)
  PROVE  /\ lockC' \in [Classes -> Procs \union {None}]
         /\ lockU' \in [Users -> Procs \union {None}]
         /\ gap' \in [Users -> SUBSET Procs]
  BY DEF TypeOK, Release

LEMMA TypeUpdate ==
  ASSUME NEW row \in ClassRow \union {None}
  PROVE  /\ \A f \in Roles, v \in SUBSET Users : Update(row, f, v) \in ClassRow \union {None}
         /\ \A v \in SUBSET Meetings : Update(row, "meetings", v) \in ClassRow \union {None}
<1>1. CASE row = None BY <1>1 DEF Update
<1>2. CASE row # None BY <1>2, RowField DEF Update
<1> QED BY <1>1, <1>2

LEMMA TypeSetField ==
  ASSUME TypeOK, NEW c \in Classes
  PROVE  /\ \A f \in Roles, v \in SUBSET Users :
              SetField(c, f, v) => cClass' \in [Classes -> ClassRow \union {None}]
         /\ \A v \in SUBSET Meetings :
              SetField(c, "meetings", v) => cClass' \in [Classes -> ClassRow \union {None}]
<1>1. cClass[c] \in ClassRow \union {None} BY DEF TypeOK
<1>2. \A h \in ClassRow \union {None} :
        [cClass EXCEPT ![c] = h] \in [Classes -> ClassRow \union {None}]
  BY DEF TypeOK
<1> QED BY <1>1, <1>2, TypeUpdate DEF SetField

LEMMA TypeRollback ==
  ASSUME TypeOK, NEW p \in Procs, Rollback(p)
  PROVE  TypeOK'
<1>1. taint' \in SUBSET Keys
  BY ReqFields DEF Rollback, TypeOK, Keys, ClassKey, UserKey
<1> QED
  BY <1>1, TypeReturn, TypeRelease DEF Rollback, TypeOK, db, cache, history

LEMMA TypeChangeUser ==
  ASSUME TypeOK, NEW p \in Procs, ChangeUser(p)
  PROVE  TypeOK'
<1> USE DEF db, cache, locks, local, history
<1>r. /\ req[p].op \in Ops /\ req[p].user \in Users /\ req[p].class \in Classes
      /\ req[p].role \in Roles /\ req[p].add \in BOOLEAN
  BY ReqFields
<1>1. CASE ChangeSkip(p)       BY <1>1, TypeReturn DEF ChangeSkip, TypeOK
<1>2. CASE ChangeClass(p)
  <2> DEFINE r == req[p]
             new == IF r.add THEN class[r.class][r.role] \union {r.user}
                             ELSE class[r.class][r.role] \ {r.user}
  <2>1. CASE class[r.class] = None
    BY <2>1, <1>2, TypeReturn DEF ChangeClass, TypeOK
  <2>2. CASE class[r.class] # None
    <3>1. class[r.class] \in ClassRow /\ new \in SUBSET Users
      BY <2>2, <1>r, RowField DEF TypeOK
    <3>2. [class[r.class] EXCEPT ![r.role] = new] \in ClassRow
      BY <3>1, <1>r, RowField
    <3>3. cClass' \in [Classes -> ClassRow \union {None}]
      <4>1. CASE new = class[r.class][r.role] BY <4>1, <2>2, <1>2 DEF ChangeClass, TypeOK
      <4>2. CASE SetField(r.class, r.role, new) BY <4>2, <3>1, <1>r, TypeSetField
      <4> QED BY <4>1, <4>2, <2>2, <1>2 DEF ChangeClass
    <3>4. /\ pc'    = [pc EXCEPT ![p] = "user"]
          /\ view'  = [view EXCEPT ![p] = EmptyRow]
          /\ lockC' = [lockC EXCEPT ![r.class] = p]
          /\ tx'    = [tx EXCEPT ![p] = [row |-> [class[r.class] EXCEPT ![r.role] = new],
                                         rows |-> {}, made |-> {}]]
          /\ UNCHANGED <<db, cUser, lockU, gap, req, list, todo, history>>
      BY <2>2, <1>2 DEF ChangeClass, Goto
    <3>5. tx' \in [Procs -> [row: ClassRow, rows: SUBSET (Users \X Meetings),
                             made: SUBSET Meetings]]
      BY <3>2, <3>4 DEF TypeOK
    <3>6. pc' \in [Procs -> Labels] /\ view' \in [Procs -> ClassRow]
          /\ lockC' \in [Classes -> Procs \union {None}]
      BY <3>4, <1>r, EmptyRowType DEF TypeOK, Labels
    <3> QED BY <3>3, <3>4, <3>5, <3>6 DEF TypeOK
  <2> QED BY <2>1, <2>2
<1>3. CASE ChangeUserRow(p)
  <2>1. userClass[req[p].user] \in SUBSET Classes
    BY <1>3, <1>r DEF ChangeUserRow, TypeOK
  <2> QED BY <2>1, <1>3, <1>r DEF ChangeUserRow, NewList, AfterUser, Goto, TypeOK, Labels
<1>4. CASE ChangeUserGap(p)
  BY <1>4, <1>r DEF ChangeUserGap, Goto, TypeOK, Labels
<1>5. CASE ChangeUserInsert(p)
  BY <1>5, <1>r DEF ChangeUserInsert, AfterUser, Goto, TypeOK, Labels
<1>6. CASE ChangeProgress(p)
  <2>1. tx[p].row \in ClassRow BY DEF TypeOK
  <2>2. ({req[p].user} \X tx[p].row.meetings) \ progress \in SUBSET (Users \X Meetings)
    BY <2>1, RowField, <1>r
  <2> QED BY <2>2, <1>6 DEF ChangeProgress, Goto, TypeOK, Labels
<1>7. CASE ChangeCommit(p)
  <2> DEFINE r == req[p]
  <2>1. tx[p].row[r.role] \in SUBSET Users
    <3>1. tx[p].row \in ClassRow BY DEF TypeOK
    <3> QED BY <3>1, RowField, <1>r
  <2>2. Update(class[r.class], r.role, tx[p].row[r.role]) \in ClassRow \union {None}
    <3>1. class[r.class] \in ClassRow \union {None} BY <1>r DEF TypeOK
    <3> QED BY <2>1, <3>1, <1>r, TypeUpdate
  <2>3. class' \in [Classes -> ClassRow \union {None}]
    BY <2>2, <1>7 DEF ChangeCommit, TypeOK
  <2> QED BY <2>3, <1>7, TypeReturn, TypeRelease, <1>r DEF ChangeCommit, TypeOK
<1>8. CASE ChangeDeadlock(p)   BY <1>8, TypeRollback DEF ChangeDeadlock
<1> QED BY <1>1, <1>2, <1>3, <1>4, <1>5, <1>6, <1>7, <1>8 DEF ChangeUser

LEMMA TypeAddMeeting ==
  ASSUME TypeOK, NEW p \in Procs, AddMeeting(p)
  PROVE  TypeOK'
<1> USE DEF db, cache, locks, local, history
<1>r. req[p].class \in Classes BY ReqFields
<1>t. tx[p].row \in ClassRow /\ tx[p].made \in SUBSET Meetings BY DEF TypeOK
<1>1. CASE MeetInsert(p)
  <2>1. PICK m \in Meetings : /\ meetingRows' = meetingRows \union {m}
                              /\ tx' = [tx EXCEPT ![p] = [NoTx EXCEPT !.made = {m}]]
    BY <1>1 DEF MeetInsert
  <2>2. [NoTx EXCEPT !.made = {m}] \in [row: ClassRow, rows: SUBSET (Users \X Meetings),
                                         made: SUBSET Meetings]
    BY EmptyRowType DEF NoTx
  <2> QED BY <1>1, <2>1, <2>2 DEF MeetInsert, Goto, TypeOK, Labels
<1>2. CASE MeetExhausted(p)   BY <1>2, TypeReturn DEF MeetExhausted, TypeOK
<1>3. CASE MeetSeed(p)
  <2>1. view[p].student \in SUBSET Users BY DEF TypeOK, ClassRow
  <2>2. view[p].student \X tx[p].made \in SUBSET (Users \X Meetings) BY <1>t, <2>1
  <2> QED BY <1>3, <2>2, EmptyRowType DEF MeetSeed, Goto, TypeOK, Labels
<1>4. CASE MeetLink(p)
  <2> DEFINE c == req[p].class
             new == class[c].meetings \union tx[p].made
  <2>1. CASE class[c] = None BY <2>1, <1>4, TypeReturn DEF MeetLink, TypeOK
  <2>2. CASE class[c] # None
    <3>1. class[c] \in ClassRow BY <2>2, <1>r DEF TypeOK
    <3>2. /\ pc'    = [pc EXCEPT ![p] = "linked"]
          /\ lockC' = [lockC EXCEPT ![c] = p]
          /\ tx'    = [tx EXCEPT ![p] = [row |-> [class[c] EXCEPT !.meetings = new],
                                         rows |-> {}, made |-> tx[p].made]]
          /\ SetField(c, "meetings", new)
          /\ UNCHANGED <<db, cUser, lockU, gap, req, view, list, todo, history>>
      BY <2>2, <1>4 DEF MeetLink, Goto
    <3>3. new \in SUBSET Meetings
      BY <3>1, <1>t, <1>4, RowField DEF MeetLink
    <3>4. [class[c] EXCEPT !.meetings = new] \in ClassRow BY <3>1, <3>3, RowField
    <3>5. cClass' \in [Classes -> ClassRow \union {None}]
      BY <3>2, <3>3, <1>r, TypeSetField
    <3>6. tx' \in [Procs -> [row: ClassRow, rows: SUBSET (Users \X Meetings),
                             made: SUBSET Meetings]]
      BY <3>2, <3>4, <1>t DEF TypeOK
    <3> QED BY <3>2, <3>5, <3>6, <1>r DEF TypeOK, Labels
  <2> QED BY <2>1, <2>2
<1>5. CASE MeetCommit(p)
  <2>1. tx[p].row.meetings \in SUBSET Meetings BY <1>t, RowField
  <2>2. class[req[p].class] \in ClassRow \union {None} BY <1>r DEF TypeOK
  <2>3. Update(class[req[p].class], "meetings", tx[p].row.meetings) \in ClassRow \union {None}
    BY <2>1, <2>2, TypeUpdate
  <2>4. class' \in [Classes -> ClassRow \union {None}] BY <2>3, <1>5 DEF MeetCommit, TypeOK
  <2> QED BY <2>4, <1>5, TypeReturn, TypeRelease DEF MeetCommit, TypeOK
<1> QED BY <1>1, <1>2, <1>3, <1>4, <1>5 DEF AddMeeting

LEMMA TypeDeleteClass ==
  ASSUME TypeOK, NEW p \in Procs, DeleteClass(p)
  PROVE  TypeOK'
<1> USE DEF db, cache, locks, local, history
<1>r. req[p].class \in Classes /\ req[p].user \in Users BY ReqFields
<1>1. CASE DropRefuse(p)   BY <1>1, TypeReturn DEF DropRefuse, TypeOK
<1>2. CASE DropRow(p)
  <2>1. Roster(view[p]) \in SUBSET Users BY DEF TypeOK, ClassRow, Roster
  <2>2. Rostered(req[p].class) \in SUBSET Users
    BY <1>r DEF TypeOK, ClassRow, Rostered, Roster
  <2>3. (Rostered(req[p].class) \ Roster(view[p])) \X {req[p].class} \in SUBSET (Users \X Classes)
    BY <2>2, <1>r
  <2> QED BY <1>2, <1>r, <2>1, <2>3, EmptyRowType DEF DropRow, Goto, TypeOK, Labels
<1>3. CASE DropUncache(p)   BY <1>3 DEF DropUncache, Goto, TypeOK, Labels
<1>4. CASE PurgeRead(p)
  <2>1. PICK u \in todo[p] :
       IF req[p].class \in Listed(u)
       THEN /\ req'  = [req EXCEPT ![p].user = u]
            /\ list' = [list EXCEPT ![p] = userClass[u] \ {req[p].class}]
            /\ Goto(p, "purgeWrite") /\ UNCHANGED todo
       ELSE /\ todo' = [todo EXCEPT ![p] = @ \ {u}]
            /\ UNCHANGED <<pc, req, list>>
    BY <1>4 DEF PurgeRead
  <2>2. u \in Users BY DEF TypeOK
  <2>3. CASE req[p].class \in Listed(u)
    <3>1. userClass[u] \in SUBSET Classes BY <2>2, <2>3 DEF Listed, TypeOK
    <3>2. /\ req'  = [req EXCEPT ![p].user = u]
          /\ list' = [list EXCEPT ![p] = userClass[u] \ {req[p].class}]
          /\ pc' = [pc EXCEPT ![p] = "purgeWrite"]
          /\ UNCHANGED <<db, cache, locks, view, tx, todo, history>>
      BY <2>1, <2>3, <1>4 DEF PurgeRead, Goto
    <3>3. req[p] \in Request BY DEF TypeOK
    <3>4. [req[p] EXCEPT !.user = u] \in Request BY <2>2, <3>3 DEF Request
    <3>5. req' \in [Procs -> Request] BY <3>2, <3>4 DEF TypeOK
    <3> QED BY <3>1, <3>2, <3>5 DEF TypeOK, Labels
  <2>4. CASE req[p].class \notin Listed(u)
    <3>1. todo' = [todo EXCEPT ![p] = @ \ {u}] /\ UNCHANGED <<pc, req, list>> BY <2>1, <2>4
    <3>2. UNCHANGED <<db, cache, locks, view, tx, history>> BY <1>4 DEF PurgeRead
    <3>3. todo' \in [Procs -> SUBSET Users] BY <3>1 DEF TypeOK
    <3> QED BY <3>1, <3>2, <3>3 DEF TypeOK
  <2> QED BY <2>3, <2>4
<1>5. CASE PurgeWrite(p)   BY <1>5, <1>r DEF PurgeWrite, Goto, TypeOK, Labels
<1>6. CASE PurgeCache(p)   BY <1>6, <1>r DEF PurgeCache, Goto, TypeOK, Labels, Keys, UserKey
<1>7. CASE DropDone(p)     BY <1>7, TypeReturn DEF DropDone, TypeOK
<1> QED BY <1>1, <1>2, <1>3, <1>4, <1>5, <1>6, <1>7 DEF DeleteClass

LEMMA TypeFail ==
  ASSUME TypeOK, NEW p \in Procs, Fail(p)
  PROVE  TypeOK'
<1> USE DEF db, cache, locks, local, history
<1>r. req[p].class \in Classes /\ req[p].user \in Users BY ReqFields
<1>1. CASE ChangeFail(p)   BY <1>1, TypeRollback DEF ChangeFail
<1>2. CASE MeetFail(p)     BY <1>2, TypeRollback DEF MeetFail
<1>3. CASE PurgeSkip(p)
  <2>1. orphaned' \in SUBSET (Users \X Classes) /\ taint' \in SUBSET Keys
    BY <1>3, <1>r DEF PurgeSkip, TypeOK, Keys, UserKey
  <2> QED BY <1>3, <2>1 DEF PurgeSkip, Goto, TypeOK, Labels
<1>4. CASE DropFail(p)
  <2>1. todo[p] \X {req[p].class} \in SUBSET (Users \X Classes) BY <1>r DEF TypeOK
  <2>2. taint' \in SUBSET Keys
    BY <1>4, <1>r DEF DropFail, TypeOK, Keys, UserKey, ClassKey
  <2> QED BY <1>4, <2>1, <2>2, TypeReturn DEF DropFail, TypeOK
<1>5. CASE Abandon(p)      BY <1>5, TypeReturn DEF Abandon, TypeOK
<1> QED BY <1>1, <1>2, <1>3, <1>4, <1>5 DEF Fail

LEMMA TypeInit == Init => TypeOK
  BY CallsAreRequests, EmptyRowType DEF Init, TypeOK, Labels

LEMMA TypeStep == TypeOK /\ [Next]_vars => TypeOK'
<1> SUFFICES ASSUME TypeOK, [Next]_vars PROVE TypeOK'
  OBVIOUS
<1>1. CASE UNCHANGED vars
  BY <1>1 DEF vars, db, cache, locks, local, history, TypeOK
<1>2. ASSUME NEW p \in Procs, Call(p) \/ Serve(p) \/ Fail(p) PROVE TypeOK'
  BY <1>2, TypeGetClass, TypeChangeUser, TypeAddMeeting, TypeDeleteClass, TypeFail DEF Serve
<1> QED BY <1>1, <1>2 DEF Next

\* Every reachable state of the service has the shape TypeOK describes: no
\* handler ever loses track of what its variables hold (class_user.go:15 and on).
THEOREM TypeCorrect == Spec => []TypeOK
  BY TypeInit, TypeStep, PTL DEF Spec

(***************************************************************************)
(* The lock invariant.  A step of q leaves alone what another handler      *)
(* holds (Frame), which is all another handler's part of the invariant     *)
(* needs; q's own part is shown action by action.                          *)
(***************************************************************************)

Others(q) == Procs \ {q}

Frame(q) ==
  /\ \A p \in Others(q) : /\ pc'[p] = pc[p] /\ req'[p] = req[p]
                          /\ tx'[p] = tx[p] /\ list'[p] = list[p]
  /\ \A c \in Classes : lockC[c] \in Others(q) => lockC'[c] = lockC[c] /\ class'[c] = class[c]
  /\ \A u \in Users : lockU[u] \in Others(q) =>
       /\ lockU'[u] = lockU[u] /\ userClass'[u] = userClass[u]
       /\ gap[u] = {lockU[u]} => gap'[u] = gap[u]
  /\ \A u \in Users : \A p \in Others(q) \cap gap[u] :
       userClass[u] = None => p \in gap'[u] /\ userClass'[u] = None
  /\ progress \subseteq progress'
  /\ \A c \in Classes : class[c] = None => class'[c] = None
  /\ \A u \in Users : userClass[u] # None => userClass'[u] # None

LEMMA FrameKeeps ==
  ASSUME TypeOK, NEW q \in Procs, NEW p \in Others(q), Frame(q), HoldsRows(p)
  PROVE  HoldsRows(p)'
<1>1. /\ p \in Procs /\ p # None /\ req[p].user \in Users /\ req[p].class \in Classes
  BY ReqFields, NoneFacts DEF Others
<1>2. pc'[p] = pc[p] /\ req'[p] = req[p] /\ tx'[p] = tx[p] /\ list'[p] = list[p]
  BY DEF Frame
<1>3. ASSUME ClassHeld(p) PROVE ClassHeld(p)'
  <2>1. lockC[req[p].class] \in Others(q) BY <1>3 DEF ClassHeld
  <2>2. lockC'[req[p].class] = lockC[req[p].class] /\ class'[req[p].class] = class[req[p].class]
    BY <1>1, <2>1 DEF Frame
  <2> QED BY <1>2, <1>3, <2>2 DEF ClassHeld
<1>4. ASSUME ListHeld(p) PROVE ListHeld(p)'
  <2>1. lockU[req[p].user] = p BY <1>4 DEF ListHeld
  <2>2. /\ lockU'[req[p].user] = p /\ userClass'[req[p].user] = userClass[req[p].user]
        /\ gap[req[p].user] = {p} => gap'[req[p].user] = {p}
    BY <1>1, <2>1 DEF Frame
  <2> QED BY <1>2, <1>4, <2>2 DEF ListHeld
<1> QED BY <1>1, <1>2, <1>3, <1>4 DEF Frame, HoldsRows

\* A handler that returns or fails only lets go of its own locks.
LEMMA FrameQuiet ==
  ASSUME TypeOK, NEW q \in Procs,
         UNCHANGED <<class, userClass>>, progress \subseteq progress',
         \A p \in Others(q) : /\ pc'[p] = pc[p] /\ req'[p] = req[p]
                              /\ tx'[p] = tx[p] /\ list'[p] = list[p],
         Release(q) \/ UNCHANGED locks
  PROVE  Frame(q)
<1>1. /\ \A c \in Classes : lockC[c] # q => lockC'[c] = lockC[c]
      /\ \A u \in Users : lockU[u] # q => lockU'[u] = lockU[u]
      /\ \A u \in Users : gap'[u] = gap[u] \ {q} \/ gap'[u] = gap[u]
  BY DEF Release, locks, TypeOK
<1>2. \A u \in Users : lockU[u] \in Others(q) /\ gap[u] = {lockU[u]} => gap'[u] = gap[u]
  <2> SUFFICES ASSUME NEW u \in Users, lockU[u] # q, gap[u] = {lockU[u]} PROVE gap'[u] = gap[u]
    BY DEF Others
  <2> QED BY <1>1
<1> QED BY <1>1, <1>2 DEF Frame, Others

LEMMA ReturnLocal ==
  ASSUME TypeOK, NEW q \in Procs, Return(q)
  PROVE  /\ \A p \in Others(q) : /\ pc'[p] = pc[p] /\ req'[p] = req[p]
                                 /\ tx'[p] = tx[p] /\ list'[p] = list[p]
         /\ pc'[q] = "idle"
  BY DEF Return, Goto, Others, TypeOK

LEMMA IdleHolds == ASSUME NEW q \in Procs, pc'[q] = "idle" PROVE HoldsRows(q)'
  BY DEF HoldsRows

\* The steps outside transactions and outside DeleteClass's purge.
Reading(p) == \/ Call(p) \/ GetClass(p) \/ Relation(p)
              \/ MeetInsert(p) \/ MeetExhausted(p) \/ MeetSeed(p)
              \/ ChangeSkip(p) \/ DropRefuse(p) \/ DropDone(p) \/ Abandon(p)

LEMMA HoldsReading ==
  ASSUME TypeOK, NEW q \in Procs, Reading(q)
  PROVE  Frame(q) /\ HoldsRows(q)'
<1> USE DEF db, cache, locks, local, history, Goto
<1>1. \A p \in Others(q) : /\ pc'[p] = pc[p] /\ req'[p] = req[p]
                           /\ tx'[p] = tx[p] /\ list'[p] = list[p]
  <2>1. CASE Return(q) BY <2>1, ReturnLocal
  <2>2. CASE ~Return(q)
    BY <2>2 DEF Reading, Call, GetClass, GetClassHit, GetClassMiss, GetClassFill, Relation,
      RelationHit, RelationMiss, RelationFill, MeetInsert, MeetExhausted, MeetSeed,
      ChangeSkip, DropRefuse, DropDone, Abandon, Others, TypeOK
  <2> QED BY <2>1, <2>2
<1>2. pc'[q] \in {"idle", "get", "fill", "got", "relation", "seed", "link"}
  BY DEF Reading, Call, GetClass, GetClassHit, GetClassMiss, GetClassFill, Relation,
      RelationHit, RelationMiss, RelationFill, MeetInsert, MeetExhausted, MeetSeed,
      ChangeSkip, DropRefuse, DropDone, Abandon, Return, TypeOK
<1>3. UNCHANGED <<class, userClass, locks>> /\ progress \subseteq progress'
  BY DEF Reading, Call, GetClass, GetClassHit, GetClassMiss, GetClassFill, Relation,
      RelationHit, RelationMiss, RelationFill, MeetInsert, MeetExhausted, MeetSeed,
      ChangeSkip, DropRefuse, DropDone, Abandon
<1>4. Frame(q) BY <1>1, <1>3, FrameQuiet
<1>5. HoldsRows(q)' BY <1>2 DEF HoldsRows
<1> QED BY <1>4, <1>5

LEMMA HoldsRollback ==
  ASSUME TypeOK, NEW q \in Procs, Rollback(q)
  PROVE  Frame(q) /\ HoldsRows(q)'
  BY ReturnLocal, FrameQuiet, IdleHolds DEF Rollback, db

LEMMA HoldsChangeClass ==
  ASSUME TypeOK, NEW q \in Procs, ChangeClass(q)
  PROVE  Frame(q) /\ HoldsRows(q)'
<1> DEFINE r == req[q]
           c == r.class
           new == IF r.add THEN class[c][r.role] \union {r.user} ELSE class[c][r.role] \ {r.user}
<1>r. r.class \in Classes /\ r.user \in Users /\ r.op = "change" /\ lockC[c] = None
  BY ReqFields DEF ChangeClass, Changing
<1>1. CASE class[c] = None
  <2>1. Return(q) /\ UNCHANGED <<db, locks>>
    BY <1>1 DEF ChangeClass, db, locks
  <2> QED BY <2>1, ReturnLocal, FrameQuiet, IdleHolds DEF db
<1>2. CASE class[c] # None
  <2>1. /\ pc'    = [pc EXCEPT ![q] = "user"]
        /\ lockC' = [lockC EXCEPT ![c] = q]
        /\ tx'    = [tx EXCEPT ![q] = [row |-> [class[c] EXCEPT ![r.role] = new],
                                       rows |-> {}, made |-> {}]]
        /\ UNCHANGED <<class, userClass, progress, lockU, gap, req, list>>
    BY <1>2 DEF ChangeClass, Goto, db
  <2>2. Frame(q)
    BY <2>1, <1>r, NoneFacts DEF Frame, Others, TypeOK
  <2>3. ClassHeld(q)'
    BY <2>1, <1>r, <1>2 DEF ClassHeld, TypeOK
  <2>4. pc'[q] = "user" /\ req'[q] = r BY <2>1 DEF TypeOK
  <2> QED BY <2>2, <2>3, <2>4, <1>r DEF HoldsRows
<1> QED BY <1>1, <1>2

LEMMA HoldsChangeUserRow ==
  ASSUME TypeOK, NEW q \in Procs, ChangeUserRow(q), HoldsRows(q)
  PROVE  Frame(q) /\ HoldsRows(q)'
<1> DEFINE r == req[q]
<1>r. r.user \in Users /\ r.op = "change" /\ lockU[r.user] = None /\ userClass[r.user] # None
  BY ReqFields DEF ChangeUserRow, Changing
<1>1. /\ pc'[q] \in {"progress", "commit"}
      /\ pc'[q] = "commit" => ~(r.add /\ r.role = "student")
      /\ \A p \in Others(q) : pc'[p] = pc[p]
      /\ lockU' = [lockU EXCEPT ![r.user] = q]
      /\ list'  = [list EXCEPT ![q] = IF r.add THEN userClass[r.user] \union {r.class}
                                              ELSE userClass[r.user] \ {r.class}]
      /\ UNCHANGED <<class, userClass, progress, lockC, gap, req, tx>>
  BY DEF ChangeUserRow, NewList, AfterUser, Goto, db, TypeOK, Others
<1>2. Frame(q) BY <1>1, <1>r, NoneFacts DEF Frame, Others, TypeOK
<1>3. ClassHeld(q)
  BY <1>r DEF HoldsRows, ChangeUserRow, Changing
<1>4. ClassHeld(q)' BY <1>1, <1>3 DEF ClassHeld
<1>5. ListHeld(q)' BY <1>1, <1>r DEF ListHeld, TypeOK
<1> QED BY <1>1, <1>2, <1>4, <1>5, <1>r DEF HoldsRows

LEMMA HoldsChangeUserGap ==
  ASSUME TypeOK, NEW q \in Procs, ChangeUserGap(q), HoldsRows(q)
  PROVE  Frame(q) /\ HoldsRows(q)'
<1> DEFINE r == req[q]
<1>r. r.user \in Users /\ r.op = "change" /\ lockU[r.user] = None /\ userClass[r.user] = None
  BY ReqFields DEF ChangeUserGap, Changing
<1>1. /\ pc' = [pc EXCEPT ![q] = "insert"]
      /\ gap' = [gap EXCEPT ![r.user] = @ \union {q}]
      /\ UNCHANGED <<class, userClass, progress, lockC, lockU, req, tx, list>>
  BY DEF ChangeUserGap, Goto, db, local
<1>2. Frame(q) BY <1>1, <1>r, NoneFacts DEF Frame, Others, TypeOK
<1>3. ClassHeld(q) BY <1>r DEF HoldsRows, ChangeUserGap, Changing
<1>4. ClassHeld(q)' BY <1>1, <1>3 DEF ClassHeld
<1>5. q \in gap'[r.user] /\ pc'[q] = "insert" BY <1>1, <1>r DEF TypeOK
<1> QED BY <1>1, <1>2, <1>4, <1>5, <1>r DEF HoldsRows

LEMMA HoldsChangeUserInsert ==
  ASSUME TypeOK, NEW q \in Procs, ChangeUserInsert(q), HoldsRows(q)
  PROVE  Frame(q) /\ HoldsRows(q)'
<1> DEFINE r == req[q]
<1>r. r.user \in Users /\ r.op = "change" /\ gap[r.user] = {q} /\ userClass[r.user] = None
      /\ lockU[r.user] = None
  BY ReqFields DEF ChangeUserInsert, Changing, HoldsRows
<1>1. /\ pc'[q] \in {"progress", "commit"}
      /\ pc'[q] = "commit" => ~(r.add /\ r.role = "student")
      /\ \A p \in Others(q) : pc'[p] = pc[p]
      /\ lockU' = [lockU EXCEPT ![r.user] = q]
      /\ list'  = [list EXCEPT ![q] = {r.class}]
      /\ UNCHANGED <<class, userClass, progress, lockC, gap, req, tx>>
  BY DEF ChangeUserInsert, AfterUser, Goto, db, TypeOK, Others
<1>3. ClassHeld(q) BY <1>r DEF HoldsRows, ChangeUserInsert, Changing
<1>4. ClassHeld(q)' BY <1>1, <1>3 DEF ClassHeld
<1>5. ListHeld(q)' BY <1>1, <1>r DEF ListHeld, TypeOK
<1>6. HoldsRows(q)' BY <1>1, <1>4, <1>5, <1>r DEF HoldsRows
<1>7. Frame(q) BY <1>1, <1>r, NoneFacts DEF Frame, Others, TypeOK
<1> QED BY <1>6, <1>7

LEMMA HoldsChangeProgress ==
  ASSUME TypeOK, NEW q \in Procs, ChangeProgress(q), HoldsRows(q)
  PROVE  Frame(q) /\ HoldsRows(q)'
<1> DEFINE r == req[q]
<1>1. /\ pc' = [pc EXCEPT ![q] = "commit"]
      /\ tx' = [tx EXCEPT ![q] = [row |-> tx[q].row, made |-> {},
                                  rows |-> ({r.user} \X tx[q].row.meetings) \ progress]]
      /\ UNCHANGED <<class, userClass, progress, locks, lockC, lockU, gap, req, list>>
  BY DEF ChangeProgress, Goto, db, locks
<1>2. r.op = "change" /\ pc[q] = "progress" BY DEF ChangeProgress, Changing
<1>3. ClassHeld(q) /\ ListHeld(q) BY <1>2 DEF HoldsRows
<1>4. /\ tx'[q].row = tx[q].row /\ pc'[q] = "commit" /\ req'[q] = req[q]
      /\ tx'[q].rows = ({r.user} \X tx[q].row.meetings) \ progress
  BY <1>1 DEF TypeOK
<1>5. ClassHeld(q)' BY <1>1, <1>2, <1>3, <1>4 DEF ClassHeld
<1>6. ListHeld(q)' BY <1>1, <1>3 DEF ListHeld
<1>7. HoldsRows(q)' BY <1>1, <1>2, <1>4, <1>5, <1>6 DEF HoldsRows
<1>8. \A p \in Others(q) : /\ pc'[p] = pc[p] /\ req'[p] = req[p]
                           /\ tx'[p] = tx[p] /\ list'[p] = list[p]
  BY <1>1 DEF Others, TypeOK
<1>9. Frame(q) BY <1>1, <1>8, FrameQuiet
<1> QED BY <1>7, <1>9

LEMMA ReleaseFrame ==
  ASSUME TypeOK, NEW q \in Procs, Release(q)
  PROVE  /\ \A c \in Classes : lockC[c] # q => lockC'[c] = lockC[c]
         /\ \A u \in Users : lockU[u] # q => lockU'[u] = lockU[u]
         /\ \A u \in Users : gap'[u] = gap[u] \ {q}
  BY DEF Release, TypeOK

LEMMA HoldsChangeCommit ==
  ASSUME TypeOK, NEW q \in Procs, ChangeCommit(q), HoldsRows(q)
  PROVE  Frame(q) /\ HoldsRows(q)'
<1> DEFINE r == req[q]
<1>r. r.user \in Users /\ r.class \in Classes BY ReqFields
<1>1. r.op = "change" /\ pc[q] = "commit" /\ Return(q) /\ Release(q)
  BY DEF ChangeCommit, Changing
<1>2. ClassHeld(q) /\ ListHeld(q) BY <1>1 DEF HoldsRows
<1>3. lockC[r.class] = q /\ lockU[r.user] = q /\ class[r.class] # None
  BY <1>2 DEF ClassHeld, ListHeld
<1>4. userClass[r.user] = None => gap[r.user] = {q} BY <1>2 DEF ListHeld
<1>5. /\ class' = [class EXCEPT ![r.class] = Update(class[r.class], r.role, tx[q].row[r.role])]
      /\ userClass' = [userClass EXCEPT ![r.user] = list[q]]
      /\ progress \subseteq progress'
  BY DEF ChangeCommit
<1>6. list[q] # None BY NoneFacts DEF TypeOK
<1>7. \A c \in Classes : lockC[c] \in Others(q) => lockC'[c] = lockC[c] /\ class'[c] = class[c]
  BY <1>1, <1>3, <1>5, ReleaseFrame DEF Others, TypeOK
<1>8. \A u \in Users : lockU[u] \in Others(q) =>
        /\ lockU'[u] = lockU[u] /\ userClass'[u] = userClass[u]
        /\ gap[u] = {lockU[u]} => gap'[u] = gap[u]
  <2> SUFFICES ASSUME NEW u \in Users, lockU[u] \in Others(q)
               PROVE  /\ lockU'[u] = lockU[u] /\ userClass'[u] = userClass[u]
                      /\ gap[u] = {lockU[u]} => gap'[u] = gap[u]
    OBVIOUS
  <2>1. u # r.user BY <1>3 DEF Others
  <2>2. userClass'[u] = userClass[u] BY <2>1, <1>5 DEF TypeOK
  <2>3. lockU'[u] = lockU[u] /\ gap'[u] = gap[u] \ {q}
    BY <1>1, ReleaseFrame DEF Others
  <2> QED BY <2>2, <2>3 DEF Others
<1>9. \A u \in Users : \A p \in Others(q) \cap gap[u] :
        userClass[u] = None => p \in gap'[u] /\ userClass'[u] = None
  BY <1>1, <1>4, <1>5, ReleaseFrame DEF Others, TypeOK
<1>10. /\ \A c \in Classes : class[c] = None => class'[c] = None
       /\ \A u \in Users : userClass[u] # None => userClass'[u] # None
  BY <1>3, <1>5, <1>6 DEF TypeOK
<1>11. Frame(q) BY <1>1, <1>5, <1>7, <1>8, <1>9, <1>10, ReturnLocal DEF Frame
<1>12. HoldsRows(q)' BY <1>1, ReturnLocal, IdleHolds
<1> QED BY <1>11, <1>12

LEMMA HoldsMeetLink ==
  ASSUME TypeOK, NEW q \in Procs, MeetLink(q)
  PROVE  Frame(q) /\ HoldsRows(q)'
<1> DEFINE c == req[q].class
           new == class[c].meetings \union tx[q].made
<1>r. c \in Classes /\ req[q].op = "meet" /\ lockC[c] = None
  BY ReqFields DEF MeetLink, Meeting
<1>1. CASE class[c] = None
  <2>1. Return(q) /\ UNCHANGED <<db, locks>> BY <1>1 DEF MeetLink, db, locks
  <2> QED BY <2>1, ReturnLocal, FrameQuiet, IdleHolds DEF db
<1>2. CASE class[c] # None
  <2>1. /\ pc'    = [pc EXCEPT ![q] = "linked"]
        /\ lockC' = [lockC EXCEPT ![c] = q]
        /\ tx'    = [tx EXCEPT ![q] = [row |-> [class[c] EXCEPT !.meetings = new],
                                       rows |-> {}, made |-> tx[q].made]]
        /\ UNCHANGED <<class, userClass, progress, lockU, gap, req, list>>
    BY <1>2 DEF MeetLink, Goto, db
  <2>2. Frame(q) BY <2>1, <1>r, NoneFacts DEF Frame, Others, TypeOK
  <2>3. ClassHeld(q)' BY <2>1, <1>r, <1>2 DEF ClassHeld, TypeOK
  <2>4. pc'[q] = "linked" /\ req'[q] = req[q] BY <2>1 DEF TypeOK
  <2> QED BY <2>2, <2>3, <2>4, <1>r DEF HoldsRows
<1> QED BY <1>1, <1>2

LEMMA HoldsMeetCommit ==
  ASSUME TypeOK, NEW q \in Procs, MeetCommit(q), HoldsRows(q)
  PROVE  Frame(q) /\ HoldsRows(q)'
<1> DEFINE c == req[q].class
<1>1. req[q].op = "meet" /\ pc[q] = "linked" /\ Return(q) /\ Release(q) /\ c \in Classes
  BY ReqFields DEF MeetCommit, Meeting
<1>2. lockC[c] = q /\ class[c] # None BY <1>1 DEF HoldsRows, ClassHeld
<1>3. /\ class' = [class EXCEPT ![c] = Update(class[c], "meetings", tx[q].row.meetings)]
      /\ UNCHANGED <<userClass, progress>>
  BY DEF MeetCommit
<1>4. \A d \in Classes : lockC[d] \in Others(q) => lockC'[d] = lockC[d] /\ class'[d] = class[d]
  BY <1>1, <1>2, <1>3, ReleaseFrame DEF Others, TypeOK
<1>5. \A u \in Users : lockU[u] \in Others(q) =>
        /\ lockU'[u] = lockU[u] /\ userClass'[u] = userClass[u]
        /\ gap[u] = {lockU[u]} => gap'[u] = gap[u]
  <2> SUFFICES ASSUME NEW u \in Users, lockU[u] \in Others(q)
               PROVE  /\ lockU'[u] = lockU[u] /\ userClass'[u] = userClass[u]
                      /\ gap[u] = {lockU[u]} => gap'[u] = gap[u]
    OBVIOUS
  <2>1. lockU'[u] = lockU[u] /\ gap'[u] = gap[u] \ {q}
    BY <1>1, ReleaseFrame DEF Others
  <2> QED BY <2>1, <1>3 DEF Others
<1>6. \A u \in Users : \A p \in Others(q) \cap gap[u] :
        userClass[u] = None => p \in gap'[u] /\ userClass'[u] = None
  BY <1>1, <1>3, ReleaseFrame DEF Others
<1>7. \A d \in Classes : class[d] = None => class'[d] = None
  BY <1>2, <1>3 DEF TypeOK
<1>8. Frame(q) BY <1>1, <1>3, <1>4, <1>5, <1>6, <1>7, ReturnLocal DEF Frame
<1>9. HoldsRows(q)' BY <1>1, ReturnLocal, IdleHolds
<1> QED BY <1>8, <1>9

LEMMA HoldsDropRow ==
  ASSUME TypeOK, NEW q \in Procs, DropRow(q)
  PROVE  Frame(q) /\ HoldsRows(q)'
<1> DEFINE c == req[q].class
<1>1. c \in Classes /\ req[q].op = "drop" /\ lockC[c] = None
  BY ReqFields DEF DropRow, Dropping
<1>2. /\ pc' = [pc EXCEPT ![q] = "uncache"]
      /\ class' = [class EXCEPT ![c] = None]
      /\ UNCHANGED <<userClass, progress, lockC, lockU, gap, req, tx, list>>
  BY DEF DropRow, Goto, locks
<1>3. Frame(q) BY <1>1, <1>2, NoneFacts DEF Frame, Others, TypeOK
<1>4. class'[c] = None /\ pc'[q] = "uncache" BY <1>1, <1>2 DEF TypeOK
<1> QED BY <1>1, <1>2, <1>3, <1>4 DEF HoldsRows

\* The steps of DeleteClass after the row is gone, but the one that writes a list.
Purging(p) == DropUncache(p) \/ PurgeRead(p) \/ PurgeCache(p) \/ PurgeSkip(p)

LEMMA HoldsPurging ==
  ASSUME TypeOK, NEW q \in Procs, Purging(q), HoldsRows(q)
  PROVE  Frame(q) /\ HoldsRows(q)'
<1> USE DEF db, cache, locks, local, history, Goto
<1>1. /\ UNCHANGED <<class, userClass, progress, locks, tx>>
      /\ req[q].op = "drop" /\ pc[q] \in {"uncache", "purge", "purgeWrite", "purgeCache"}
  BY DEF Purging, DropUncache, PurgeRead, PurgeCache, PurgeSkip, Dropping
<1>2. \A p \in Others(q) : pc'[p] = pc[p] /\ req'[p] = req[p] /\ list'[p] = list[p]
  BY DEF Purging, DropUncache, PurgeRead, PurgeCache, PurgeSkip, Others, TypeOK
<1>3. Frame(q) BY <1>1, <1>2, FrameQuiet
<1>4. class[req[q].class] = None BY <1>1 DEF HoldsRows
<1>5. CASE PurgeRead(q)
  <2>1. PICK u \in todo[q] :
       IF req[q].class \in Listed(u)
       THEN /\ req'  = [req EXCEPT ![q].user = u]
            /\ list' = [list EXCEPT ![q] = userClass[u] \ {req[q].class}]
            /\ pc' = [pc EXCEPT ![q] = "purgeWrite"] /\ UNCHANGED todo
       ELSE /\ todo' = [todo EXCEPT ![q] = @ \ {u}]
            /\ UNCHANGED <<pc, req, list>>
    BY <1>5 DEF PurgeRead
  <2>2. CASE req[q].class \in Listed(u)
    <3>1. userClass[u] # None BY <2>2 DEF Listed
    <3>2. req'[q] = [req[q] EXCEPT !.user = u] /\ pc'[q] = "purgeWrite"
      BY <2>1, <2>2 DEF TypeOK
    <3>3. /\ req'[q].user = u /\ req'[q].op = "drop" /\ req'[q].class = req[q].class
      BY <3>2, <1>1 DEF TypeOK, Request
    <3> QED BY <1>1, <1>3, <1>4, <3>1, <3>2, <3>3 DEF HoldsRows
  <2>3. CASE req[q].class \notin Listed(u)
    <3>1. UNCHANGED <<pc, req>> /\ pc[q] = "purge"
      BY <2>1, <2>3, <1>5 DEF PurgeRead, Dropping
    <3> QED BY <1>1, <1>3, <1>4, <3>1 DEF HoldsRows
  <2> QED BY <2>2, <2>3
<1>6. CASE ~PurgeRead(q)
  <2>1. pc'[q] = "purge" /\ req'[q] = req[q]
    BY <1>6 DEF Purging, DropUncache, PurgeCache, PurgeSkip, TypeOK
  <2> QED BY <1>1, <1>3, <1>4, <2>1 DEF HoldsRows
<1> QED BY <1>5, <1>6

LEMMA HoldsPurgeWrite ==
  ASSUME TypeOK, NEW q \in Procs, PurgeWrite(q), HoldsRows(q)
  PROVE  Frame(q) /\ HoldsRows(q)'
<1> DEFINE u == req[q].user
<1>1. /\ u \in Users /\ req[q].op = "drop" /\ pc[q] = "purgeWrite" /\ lockU[u] = None
  BY ReqFields DEF PurgeWrite, Dropping
<1>2. class[req[q].class] = None /\ userClass[u] # None BY <1>1 DEF HoldsRows
<1>3. /\ pc' = [pc EXCEPT ![q] = "purgeCache"]
      /\ userClass' = [userClass EXCEPT ![u] = list[q]]
      /\ UNCHANGED <<class, progress, lockC, lockU, gap, req, tx, list>>
  BY DEF PurgeWrite, Goto, locks
<1>4. list[q] # None BY NoneFacts DEF TypeOK
<1>5. Frame(q) BY <1>1, <1>2, <1>3, <1>4, NoneFacts DEF Frame, Others, TypeOK
<1>6. pc'[q] = "purgeCache" BY <1>3 DEF TypeOK
<1> QED BY <1>1, <1>2, <1>3, <1>5, <1>6 DEF HoldsRows

LEMMA HoldsDropFail ==
  ASSUME TypeOK, NEW q \in Procs, DropFail(q)
  PROVE  Frame(q) /\ HoldsRows(q)'
<1>1. Return(q) /\ UNCHANGED <<db, locks>> BY DEF DropFail
<1> QED BY <1>1, ReturnLocal, FrameQuiet, IdleHolds DEF db

LEMMA HoldsInit == Init => TransactionsHoldTheirRows
  BY DEF Init, TransactionsHoldTheirRows, HoldsRows

LEMMA HoldsAction ==
  ASSUME TypeOK, NEW q \in Procs, Call(q) \/ Serve(q) \/ Fail(q), HoldsRows(q)
  PROVE  Frame(q) /\ HoldsRows(q)'
<1>1. CASE Reading(q)           BY <1>1, HoldsReading
<1>2. CASE Rollback(q)          BY <1>2, HoldsRollback
<1>3. CASE ChangeClass(q)       BY <1>3, HoldsChangeClass
<1>4. CASE ChangeUserRow(q)     BY <1>4, HoldsChangeUserRow
<1>5. CASE ChangeUserGap(q)     BY <1>5, HoldsChangeUserGap
<1>6. CASE ChangeUserInsert(q)  BY <1>6, HoldsChangeUserInsert
<1>7. CASE ChangeProgress(q)    BY <1>7, HoldsChangeProgress
<1>8. CASE ChangeCommit(q)      BY <1>8, HoldsChangeCommit
<1>9. CASE MeetLink(q)          BY <1>9, HoldsMeetLink
<1>10. CASE MeetCommit(q)       BY <1>10, HoldsMeetCommit
<1>11. CASE DropRow(q)          BY <1>11, HoldsDropRow
<1>12. CASE Purging(q)          BY <1>12, HoldsPurging
<1>13. CASE PurgeWrite(q)       BY <1>13, HoldsPurgeWrite
<1>14. CASE DropFail(q)         BY <1>14, HoldsDropFail
<1> QED
  BY <1>1, <1>2, <1>3, <1>4, <1>5, <1>6, <1>7, <1>8, <1>9, <1>10, <1>11, <1>12, <1>13, <1>14
  DEF Serve, Fail, Reading, ChangeUser, AddMeeting, DeleteClass, Purging,
      ChangeDeadlock, ChangeFail, MeetFail

LEMMA HoldsStep ==
  ASSUME TypeOK, TransactionsHoldTheirRows, [Next]_vars
  PROVE  TransactionsHoldTheirRows'
<1>1. CASE UNCHANGED vars
  BY <1>1, ZenonT(40) DEF vars, db, cache, locks, local, history, TransactionsHoldTheirRows,
              HoldsRows, ClassHeld, ListHeld
<1>2. ASSUME NEW q \in Procs, Call(q) \/ Serve(q) \/ Fail(q)
      PROVE  TransactionsHoldTheirRows'
  <2>1. \A p \in Procs : HoldsRows(p) BY DEF TransactionsHoldTheirRows
  <2>2. Frame(q) /\ HoldsRows(q)' BY <1>2, <2>1, HoldsAction
  <2>3. \A p \in Others(q) : HoldsRows(p)' BY <2>1, <2>2, FrameKeeps DEF Others
  <2> QED BY <2>2, <2>3 DEF TransactionsHoldTheirRows, Others
<1> QED BY <1>1, <1>2 DEF Next

\* The row locks of ChangeUser and AddMeeting do their work: nothing a handler
\* has read FOR UPDATE changes under it before it commits, for any number of
\* concurrent handlers, DeleteClass's unlocked updates included.
THEOREM LocksHold == Spec => []TransactionsHoldTheirRows
<1>1. TypeOK /\ TransactionsHoldTheirRows /\ [Next]_vars => TransactionsHoldTheirRows'
  BY HoldsStep
<1> QED BY <1>1, HoldsInit, TypeInit, TypeStep, PTL DEF Spec

(***************************************************************************)
(* Membership.  Four steps write the two tables; the rest leaves them.     *)
(***************************************************************************)

Writing(p) == ChangeCommit(p) \/ MeetCommit(p) \/ DropRow(p) \/ PurgeWrite(p)

LEMMA OthersDoNotWrite ==
  ASSUME NEW p \in Procs, Call(p) \/ Serve(p) \/ Fail(p), ~Writing(p)
  PROVE  UNCHANGED <<class, userClass, stray, halved, clobbered>>
         /\ progress \subseteq progress'
<1> USE DEF db, cache, locks, local, history, Writing
<1>1. CASE Call(p) \/ GetClass(p) \/ Relation(p)
  BY <1>1 DEF Call, GetClass, GetClassHit, GetClassMiss, GetClassFill, Relation,
              RelationHit, RelationMiss, RelationFill
<1>2. CASE ChangeUser(p)
  BY <1>2 DEF ChangeUser, ChangeSkip, ChangeClass, ChangeUserRow, ChangeUserGap,
              ChangeUserInsert, ChangeProgress, ChangeDeadlock, Rollback
<1>3. CASE AddMeeting(p)
  BY <1>3 DEF AddMeeting, MeetInsert, MeetExhausted, MeetSeed, MeetLink
<1>4. CASE DeleteClass(p)
  BY <1>4 DEF DeleteClass, DropRefuse, DropUncache, PurgeRead, PurgeCache, DropDone
<1>5. CASE Fail(p)
  BY <1>5 DEF Fail, ChangeFail, MeetFail, PurgeSkip, DropFail, Abandon, Rollback
<1> QED BY <1>1, <1>2, <1>3, <1>4, <1>5 DEF Serve

\* What a committing ChangeUser does to the rosters and the lists.
LEMMA CommitEffect ==
  ASSUME TypeOK, NEW q \in Procs, ChangeCommit(q), HoldsRows(q),
         NEW v, NEW d, v = req[q].user, d = req[q].class
  PROVE  LET r == req[q] IN
         /\ v \in Users /\ d \in Classes /\ class[d] # None
         /\ \A c \in Classes \ {d} : class'[c] = class[c]
         /\ \A u \in Users \ {v} : userClass'[u] = userClass[u]
         /\ class'[d] = tx[q].row /\ class'[d] # None
         /\ Roster(tx[q].row) \ {v} = Roster(class[d]) \ {v}
         /\ r.add => v \in Roster(tx[q].row)
         /\ \A c \in Classes \ {d} : c \in Listed(v)' <=> c \in Listed(v)
         /\ d \in Listed(v)' <=> d \in list[q]
         /\ r.add => d \in list[q]
         /\ ~r.add /\ d \in list[q] => userClass[v] = None
<1> DEFINE r == req[q]
           row == class[d]
           new == IF r.add THEN row[r.role] \union {v} ELSE row[r.role] \ {v}
<1>1. /\ v = r.user /\ d = r.class /\ r.op = "change" /\ pc[q] = "commit" /\ v \in Users /\ d \in Classes
      /\ r.role \in Roles /\ r.add \in BOOLEAN
  BY ReqFields DEF ChangeCommit, Changing
<1>2. ClassHeld(q) /\ ListHeld(q) BY <1>1 DEF HoldsRows
<1>3. row # None /\ tx[q].row = [row EXCEPT ![r.role] = new] BY <1>1, <1>2 DEF ClassHeld
<1>4. row \in ClassRow BY <1>1, <1>3 DEF TypeOK
<1>5. tx[q].row[r.role] = new BY <1>1, <1>3, <1>4 DEF ClassRow, Roles
<1>6. class'[d] = tx[q].row /\ \A c \in Classes \ {d} : class'[c] = class[c]
  BY <1>1, <1>3, <1>5 DEF ChangeCommit, Update, TypeOK
<1>7. tx[q].row \in ClassRow BY DEF TypeOK
<1>8. Roster(tx[q].row) \ {v} = Roster(row) \ {v}
  BY <1>1, <1>3, <1>4, SMTT(30) DEF Roster, ClassRow, Roles
<1>9. r.add => v \in Roster(tx[q].row)
  BY <1>1, <1>3, <1>4 DEF Roster, ClassRow, Roles
<1>10. userClass'[v] = list[q] /\ \A u \in Users \ {v} : userClass'[u] = userClass[u]
  BY <1>1 DEF ChangeCommit, TypeOK
<1>11. list[q] # None BY NoneFacts DEF TypeOK
<1>12. Listed(v)' = list[q] BY <1>10, <1>11 DEF Listed
<1>13. /\ \A c \in Classes \ {d} : c \in list[q] <=> c \in Listed(v)
       /\ r.add => d \in list[q]
       /\ ~r.add /\ d \in list[q] => userClass[v] = None
  <2>1. CASE userClass[v] = None
    <3>1. list[q] = {d} /\ Listed(v) = {} BY <1>1, <1>2, <2>1 DEF ListHeld, Listed
    <3> QED BY <3>1, <2>1
  <2>2. CASE userClass[v] # None
    <3>1. list[q] = IF r.add THEN Listed(v) \union {d} ELSE Listed(v) \ {d}
      BY <1>1, <1>2, <2>2 DEF ListHeld, Listed
    <3> QED BY <3>1
  <2> QED BY <2>1, <2>2
<1>14. class'[d] # None BY <1>6, <1>7, NoneFacts
<1> QED BY <1>1, <1>3, <1>6, <1>8, <1>9, <1>10, <1>12, <1>13, <1>14

Agreement == EnrolledAreListed /\ ListedAreEnrolled

LEMMA AgreementCommit ==
  ASSUME TypeOK, NEW q \in Procs, ChangeCommit(q), HoldsRows(q), Agreement
  PROVE  Agreement'
<1> DEFINE r == req[q]
<1>0. PICK v \in Users, d \in Classes : v = r.user /\ d = r.class BY ReqFields
<1>1. /\ stray' = IF ~r.add /\ userClass[v] = None THEN stray \union {<<v, d>>} ELSE stray
      /\ halved' = IF ~r.add /\ v \in Roster(tx[q].row) THEN halved \union {<<v, d>>} ELSE halved
      /\ clobbered' = clobbered
  BY <1>0 DEF ChangeCommit
<1>2. v \in Users /\ d \in Classes /\ class[d] # None
  BY <1>0, CommitEffect
<1>3. \A c \in Classes \ {d} : class'[c] = class[c] /\ Rostered(c)' = Rostered(c)
  BY <1>0, CommitEffect DEF Rostered
<1>4. \A u \in Users \ {v} : Listed(u)' = Listed(u)
  BY <1>0, CommitEffect DEF Listed
<1>5. Rostered(d)' = Roster(tx[q].row) /\ Rostered(d) = Roster(class[d])
  BY <1>0, CommitEffect DEF Rostered, Roster
<1>6. /\ Roster(tx[q].row) \ {v} = Roster(class[d]) \ {v}
      /\ r.add => v \in Roster(tx[q].row) /\ d \in list[q]
      /\ \A c \in Classes \ {d} : c \in Listed(v)' <=> c \in Listed(v)
      /\ d \in Listed(v)' <=> d \in list[q]
      /\ ~r.add /\ d \in list[q] => userClass[v] = None
  BY <1>0, CommitEffect
<1>7. \A c \in Classes : Rostered(c)' \subseteq Users
  <2> SUFFICES ASSUME NEW c \in Classes PROVE Rostered(c)' \subseteq Users OBVIOUS
  <2>1. TypeOK' BY TypeChangeUser DEF ChangeUser
  <2> QED BY <2>1 DEF TypeOK, Rostered, Roster, ClassRow
<1>8. EnrolledAreListed'
  <2> SUFFICES ASSUME NEW c \in Classes, NEW u \in Rostered(c)'
               PROVE  c \in Listed(u)' \/ <<u, c>> \in halved' \/ u \in clobbered'
    BY DEF EnrolledAreListed
  <2>1. u \in Users BY <1>7
  <2>2. CASE u = v /\ c = d
    BY <2>2, <1>1, <1>5, <1>6
  <2>3. CASE u # v \/ c # d
    <3>1. u \in Rostered(c) BY <2>1, <2>3, <1>3, <1>5, <1>6
    <3>2. c \in Listed(u) \/ <<u, c>> \in halved \/ u \in clobbered
      BY <3>1 DEF Agreement, EnrolledAreListed
    <3> QED BY <2>1, <2>3, <3>2, <1>1, <1>4, <1>6
  <2> QED BY <2>2, <2>3
<1>9. ListedAreEnrolled'
  <2> SUFFICES ASSUME NEW u \in Users, NEW c \in Listed(u)', class'[c] # None
               PROVE  u \in Rostered(c)' \/ <<u, c>> \in stray' \/ u \in clobbered'
    BY DEF ListedAreEnrolled
  <2>1. c \in Classes
    <3>1. TypeOK' BY TypeChangeUser DEF ChangeUser
    <3> QED BY <3>1 DEF TypeOK, Listed
  <2>2. CASE u = v /\ c = d BY <2>2, <1>1, <1>5, <1>6
  <2>3. CASE u # v \/ c # d
    <3>1. c \in Listed(u) BY <2>1, <2>3, <1>4, <1>6
    <3>2. class[c] # None BY <2>1, <1>2, <1>3
    <3>3. u \in Rostered(c) \/ <<u, c>> \in stray \/ u \in clobbered
      BY <3>1, <3>2 DEF Agreement, ListedAreEnrolled
    <3>4. u \in Rostered(c) => u \in Rostered(c)' BY <2>1, <2>3, <1>3, <1>5, <1>6
    <3> QED BY <3>3, <3>4, <1>1
  <2> QED BY <2>2, <2>3
<1> QED BY <1>8, <1>9 DEF Agreement

LEMMA AgreementMeetCommit ==
  ASSUME TypeOK, NEW q \in Procs, MeetCommit(q), HoldsRows(q), Agreement
  PROVE  Agreement'
<1>0. PICK d \in Classes : d = req[q].class BY ReqFields
<1>1. class[d] # None /\ tx[q].row \in ClassRow /\ req[q].op = "meet"
  BY <1>0 DEF MeetCommit, Meeting, HoldsRows, ClassHeld, TypeOK
<1>2. class[d] \in ClassRow BY <1>1 DEF TypeOK
<1>3. /\ class' = [class EXCEPT ![d] = [class[d] EXCEPT !.meetings = tx[q].row.meetings]]
      /\ UNCHANGED <<userClass, stray, halved, clobbered>>
  BY <1>0, <1>1 DEF MeetCommit, Update, history
<1>4. [class[d] EXCEPT !.meetings = tx[q].row.meetings] \in ClassRow
  BY <1>1, <1>2, RowField
<1>5. \A c \in Classes : Rostered(c)' = Rostered(c) /\ (class'[c] = None <=> class[c] = None)
  BY <1>1, <1>2, <1>3, <1>4, NoneFacts DEF Rostered, Roster, TypeOK, ClassRow
<1>6. \A u : Listed(u)' = Listed(u) BY <1>3 DEF Listed
<1>7. \A u \in Users : Listed(u) \subseteq Classes BY DEF TypeOK, Listed
<1>8. EnrolledAreListed' BY <1>3, <1>5, <1>6 DEF Agreement, EnrolledAreListed
<1>9. ListedAreEnrolled' BY <1>3, <1>5, <1>6, <1>7 DEF Agreement, ListedAreEnrolled
<1> QED BY <1>8, <1>9 DEF Agreement

LEMMA AgreementDropRow ==
  ASSUME TypeOK, NEW q \in Procs, DropRow(q), Agreement
  PROVE  Agreement'
<1>0. PICK d \in Classes : d = req[q].class BY ReqFields
<1>1. /\ class' = [class EXCEPT ![d] = None]
      /\ UNCHANGED <<userClass, stray, halved, clobbered>>
  BY <1>0 DEF DropRow
<1>2. /\ \A c \in Classes \ {d} : Rostered(c)' = Rostered(c) /\ class'[c] = class[c]
      /\ Rostered(d)' = {} /\ class'[d] = None
  BY <1>1 DEF Rostered, TypeOK
<1>3. \A u : Listed(u)' = Listed(u) BY <1>1 DEF Listed
<1>4. \A u \in Users : Listed(u) \subseteq Classes BY DEF TypeOK, Listed
<1>5. EnrolledAreListed' BY <1>1, <1>2, <1>3 DEF Agreement, EnrolledAreListed
<1>6. ListedAreEnrolled' BY <1>1, <1>2, <1>3, <1>4 DEF Agreement, ListedAreEnrolled
<1> QED BY <1>5, <1>6 DEF Agreement

\* DeleteClass writes a list without a lock: either the list is what it read,
\* less a class that is gone already, or the user counts as clobbered.
LEMMA AgreementPurgeWrite ==
  ASSUME TypeOK, NEW q \in Procs, PurgeWrite(q), HoldsRows(q), Agreement
  PROVE  Agreement'
<1>0. PICK v \in Users, d \in Classes : v = req[q].user /\ d = req[q].class BY ReqFields
<1>1. /\ class[d] = None /\ userClass[v] # None
      /\ userClass' = [userClass EXCEPT ![v] = list[q]]
      /\ clobbered' = IF list[q] = userClass[v] \ {d} THEN clobbered ELSE clobbered \union {v}
      /\ UNCHANGED <<class, stray, halved>>
  BY <1>0 DEF PurgeWrite, Dropping, HoldsRows
<1>2. \A c : Rostered(c)' = Rostered(c) BY <1>1 DEF Rostered
<1>3. Rostered(d) = {} BY <1>1 DEF Rostered
<1>4. \A u \in Users \ {v} : Listed(u)' = Listed(u)
  BY <1>1 DEF Listed, TypeOK
<1>5. list[q] \in SUBSET Classes /\ list[q] # None BY NoneFacts DEF TypeOK
<1>6. Listed(v)' = list[q] /\ Listed(v) = userClass[v]
  BY <1>1, <1>5 DEF Listed, TypeOK
<1>7. v \in clobbered' \/ (Listed(v)' = Listed(v) \ {d} /\ clobbered' = clobbered)
  BY <1>1, <1>6
<1>8. clobbered \subseteq clobbered' BY <1>1
<1>9. \A c \in Classes : Rostered(c) \subseteq Users
  BY DEF TypeOK, Rostered, Roster, ClassRow
<1>10. EnrolledAreListed'
  <2> SUFFICES ASSUME NEW c \in Classes, NEW u \in Rostered(c)
               PROVE  c \in Listed(u)' \/ <<u, c>> \in halved \/ u \in clobbered'
    BY <1>1, <1>2 DEF EnrolledAreListed
  <2>1. u \in Users /\ c # d BY <1>3, <1>9
  <2>2. c \in Listed(u) \/ <<u, c>> \in halved \/ u \in clobbered
    BY DEF Agreement, EnrolledAreListed
  <2> QED BY <2>1, <2>2, <1>4, <1>7, <1>8
<1>11. ListedAreEnrolled'
  <2> SUFFICES ASSUME NEW u \in Users, NEW c \in Listed(u)', class[c] # None
               PROVE  u \in Rostered(c) \/ <<u, c>> \in stray \/ u \in clobbered'
    BY <1>1, <1>2 DEF ListedAreEnrolled
  <2>1. u \in clobbered' \/ c \in Listed(u) BY <1>4, <1>7
  <2> QED BY <2>1, <1>8 DEF Agreement, ListedAreEnrolled
<1> QED BY <1>10, <1>11 DEF Agreement

LEMMA AgreementInit == Init => Agreement
  BY NoneFacts, EmptyRowType
  DEF Init, Agreement, EnrolledAreListed, ListedAreEnrolled, Rostered, Roster, Listed, EmptyRow

LEMMA AgreementStep ==
  ASSUME TypeOK, TransactionsHoldTheirRows, Agreement, [Next]_vars
  PROVE  Agreement'
<1>1. ASSUME UNCHANGED <<class, userClass, stray, halved, clobbered>> PROVE Agreement'
  BY <1>1 DEF Agreement, EnrolledAreListed, ListedAreEnrolled, Rostered, Listed
<1>2. CASE UNCHANGED vars BY <1>1, <1>2 DEF vars, db, history
<1>3. ASSUME NEW q \in Procs, Call(q) \/ Serve(q) \/ Fail(q) PROVE Agreement'
  <2>1. HoldsRows(q) BY DEF TransactionsHoldTheirRows
  <2>2. CASE Writing(q)
    BY <2>1, <2>2, AgreementCommit, AgreementMeetCommit, AgreementDropRow, AgreementPurgeWrite
    DEF Writing
  <2>3. CASE ~Writing(q) BY <2>3, <1>1, <1>3, OthersDoNotWrite
  <2> QED BY <2>2, <2>3
<1> QED BY <1>2, <1>3 DEF Next

LEMMA AgreementAlways == Spec => [](TypeOK /\ TransactionsHoldTheirRows /\ Agreement)
<1> DEFINE I == TypeOK /\ TransactionsHoldTheirRows /\ Agreement
<1>1. Init => I BY TypeInit, HoldsInit, AgreementInit
<1>2. I /\ [Next]_vars => I' BY TypeStep, HoldsStep, AgreementStep
<1> QED BY <1>1, <1>2, PTL DEF Spec

\* ChangeUser never leaves a member without the class in its list, whatever the
\* interleaving, the failures and the deadlocks (class_user.go, steps 1 and 3).
THEOREM MembersAreListed == Spec => []EnrolledAreListed
  BY AgreementAlways, PTL DEF Agreement

\* Nobody's list names an open class it is not in, but for the two causes that
\* the history variables record (class_user.go:222, class.go:961).
THEOREM ListsNameMembers == Spec => []ListedAreEnrolled
  BY AgreementAlways, PTL DEF Agreement

(***************************************************************************)
(* Progress rows, and the refinement of Enrollment.                        *)
(***************************************************************************)

Progressed ==
  \A c \in Classes :
    class[c] # None /\ class'[c] # None =>
      \A u \in class'[c].student \ class[c].student :
        {u} \X class'[c].meetings \subseteq progress'

LEMMA ProgressedStep ==
  ASSUME TypeOK, TransactionsHoldTheirRows, [Next]_vars
  PROVE  Progressed
<1>1. ASSUME UNCHANGED class PROVE Progressed BY <1>1 DEF Progressed
<1>2. ASSUME NEW q \in Procs, ChangeCommit(q) PROVE Progressed
  <2>0. PICK v \in Users, d \in Classes : v = req[q].user /\ d = req[q].class BY ReqFields
  <2>1. HoldsRows(q) /\ req[q].op = "change" /\ pc[q] = "commit"
    BY <1>2 DEF TransactionsHoldTheirRows, ChangeCommit, Changing
  <2>2. ClassHeld(q) BY <2>1 DEF HoldsRows
  <2>3. /\ class'[d] = tx[q].row /\ class[d] # None
        /\ \A c \in Classes \ {d} : class'[c] = class[c]
    BY <2>0, <2>1, <1>2, CommitEffect
  <2>4. class[d] \in ClassRow BY <2>3 DEF TypeOK
  <2>5. progress' = progress \union tx[q].rows BY <1>2 DEF ChangeCommit
  <2>6. \A u \in tx[q].row.student \ class[d].student :
          u = v /\ req[q].add /\ req[q].role = "student"
    BY <2>0, <2>2, <2>4, ReqFields, <2>1 DEF ClassHeld, ClassRow, Roles
  <2>7. req[q].add /\ req[q].role = "student" => {v} \X tx[q].row.meetings \subseteq progress'
    BY <2>0, <2>1, <2>5 DEF HoldsRows
  <2> QED BY <2>3, <2>6, <2>7 DEF Progressed
<1>3. ASSUME NEW q \in Procs, MeetCommit(q) PROVE Progressed
  <2>1. PICK d \in Classes : d = req[q].class BY ReqFields
  <2>2. /\ \A c \in Classes \ {d} : class'[c] = class[c]
        /\ class'[d] = Update(class[d], "meetings", tx[q].row.meetings)
    BY <1>3, <2>1 DEF MeetCommit, TypeOK
  <2>3. class[d] # None => class[d] \in ClassRow BY DEF TypeOK
  <2>4. class[d] # None => class'[d].student = class[d].student
    BY <2>2, <2>3 DEF Update, ClassRow
  <2> QED BY <2>2, <2>4 DEF Progressed
<1>4. ASSUME NEW q \in Procs, DropRow(q) PROVE Progressed
  BY <1>4 DEF DropRow, Progressed, TypeOK
<1>5. ASSUME NEW q \in Procs, Call(q) \/ Serve(q) \/ Fail(q),
             ~(ChangeCommit(q) \/ MeetCommit(q) \/ DropRow(q))
      PROVE  UNCHANGED class
  <2>1. CASE PurgeWrite(q) BY <2>1 DEF PurgeWrite
  <2>2. CASE ~PurgeWrite(q) BY <2>2, <1>5, OthersDoNotWrite DEF Writing
  <2> QED BY <2>1, <2>2
<1>6. CASE UNCHANGED vars BY <1>1, <1>6 DEF vars, db
<1> QED BY <1>1, <1>2, <1>3, <1>4, <1>5, <1>6 DEF Next

\* Whatever meetings are added while a student is being enrolled, the commit
\* that makes it a student also gives it all the progress rows of the class.
THEOREM EnrolmentBringsProgress == Spec => NewStudentHasProgress
<1>1. TypeOK /\ TransactionsHoldTheirRows /\ [Next]_vars => [Progressed]_vars
  BY ProgressedStep
<1>2. Spec => [](TypeOK /\ TransactionsHoldTheirRows)
  BY AgreementAlways, PTL
<1> QED BY <1>1, <1>2, PTL DEF Spec, NewStudentHasProgress, Progressed

\* A handler makes at most one meeting per call.
MadeOne == \A p \in Procs : tx[p].made = {} \/ \E m \in Meetings : tx[p].made = {m}

LEMMA MadeStep == ASSUME TypeOK, MadeOne, [Next]_vars PROVE MadeOne'
<1>1. ASSUME UNCHANGED tx PROVE MadeOne' BY <1>1 DEF MadeOne
<1>2. ASSUME NEW q \in Procs, NEW t, tx' = [tx EXCEPT ![q] = t], t.made = {} \/ t.made = tx[q].made
      PROVE  MadeOne'
  <2>1. \A p \in Procs : tx'[p].made = {} \/ tx'[p].made = tx[p].made BY <1>2 DEF TypeOK
  <2> QED BY <2>1 DEF MadeOne
<1>3. ASSUME NEW q \in Procs, MeetInsert(q) PROVE MadeOne'
  <2>1. PICK m \in Meetings : tx' = [tx EXCEPT ![q] = [NoTx EXCEPT !.made = {m}]]
    BY <1>3 DEF MeetInsert
  <2> QED BY <2>1 DEF MadeOne, NoTx, TypeOK
<1>4. ASSUME NEW q \in Procs, Return(q) PROVE MadeOne' BY <1>4, <1>2 DEF Return, NoTx
<1>5. ASSUME NEW q \in Procs, ~Return(q), ChangeClass(q) \/ ChangeProgress(q) \/ MeetLink(q)
      PROVE  MadeOne'
  <2>1. CASE ChangeClass(q)
    <3>1. PICK row : tx' = [tx EXCEPT ![q] = [row |-> row, rows |-> {}, made |-> {}]]
      BY <2>1, <1>5 DEF ChangeClass
    <3> QED BY <3>1, <1>2
  <2>2. CASE ChangeProgress(q)
    <3>1. PICK rows : tx' = [tx EXCEPT ![q] = [row |-> tx[q].row, made |-> {}, rows |-> rows]]
      BY <2>2 DEF ChangeProgress
    <3> QED BY <3>1, <1>2
  <2>3. CASE MeetLink(q)
    <3>1. PICK row : tx' = [tx EXCEPT ![q] = [row |-> row, rows |-> {}, made |-> tx[q].made]]
      BY <2>3, <1>5 DEF MeetLink
    <3> QED BY <3>1, <1>2
  <2> QED BY <1>5, <2>1, <2>2, <2>3
<1>6. ASSUME NEW q \in Procs, Call(q) \/ Serve(q) \/ Fail(q), ~Return(q), ~MeetInsert(q),
             ~(ChangeClass(q) \/ ChangeProgress(q) \/ MeetLink(q))
      PROVE  UNCHANGED tx
  <2> USE DEF local
  <2>1. CASE Call(q) \/ GetClass(q) \/ Relation(q)
    BY <2>1, <1>6 DEF Call, GetClass, GetClassHit, GetClassMiss, GetClassFill, Relation,
                RelationHit, RelationMiss, RelationFill
  <2>2. CASE ChangeUser(q) \/ AddMeeting(q)
    BY <2>2, <1>6 DEF ChangeUser, ChangeSkip, ChangeUserRow, ChangeUserGap, ChangeUserInsert,
                ChangeCommit, ChangeDeadlock, Rollback, AddMeeting, MeetExhausted, MeetSeed, MeetCommit
  <2>3. CASE DeleteClass(q)
    BY <2>3, <1>6 DEF DeleteClass, DropRefuse, DropRow, DropUncache, PurgeRead, PurgeWrite,
                PurgeCache, DropDone
  <2>4. CASE Fail(q)
    BY <2>4, <1>6 DEF Fail, ChangeFail, MeetFail, PurgeSkip, DropFail, Abandon, Rollback
  <2> QED BY <1>6, <2>1, <2>2, <2>3, <2>4 DEF Serve
<1>7. CASE UNCHANGED vars BY <1>1, <1>7 DEF vars, local
<1> QED BY <1>1, <1>3, <1>4, <1>5, <1>6, <1>7 DEF Next

LEMMA MadeAlways == Spec => []MadeOne
<1>1. Init => MadeOne BY DEF Init, MadeOne, NoTx
<1> QED BY <1>1, MadeStep, TypeInit, TypeStep, PTL DEF Spec

LEMMA RefineInit == Init => Abstract!Init
  BY DEF Init, Abstract!Init, EmptyRow

LEMMA RefineStep ==
  ASSUME TypeOK, TransactionsHoldTheirRows, MadeOne, [Next]_vars
  PROVE  [Abstract!Next]_class
<1> USE DEF Abstract!Next, Abstract!Enter, Abstract!Withdraw, Abstract!Close, Abstract!Open,
            Abstract!Fields, Abstract!Members
<1>1. ASSUME NEW q \in Procs, ChangeCommit(q) PROVE Abstract!Next
  <2> DEFINE r == req[q]
             d == r.class
  <2>1. /\ r.op = "change" /\ pc[q] = "commit" /\ r.user \in Users /\ d \in Classes
        /\ r.role \in Roles /\ r.add \in BOOLEAN
    BY <1>1, ReqFields DEF ChangeCommit, Changing
  <2>2. ClassHeld(q) BY <2>1 DEF TransactionsHoldTheirRows, HoldsRows
  <2>3. class[d] # None /\ class[d] \in ClassRow BY <2>1, <2>2 DEF ClassHeld, TypeOK
  <2>4. tx[q].row[r.role] = IF r.add THEN class[d][r.role] \union {r.user}
                                     ELSE class[d][r.role] \ {r.user}
    BY <2>1, <2>2, <2>3 DEF ClassHeld, ClassRow, Roles
  <2>5. class' = [class EXCEPT ![d] = [class[d] EXCEPT ![r.role] = tx[q].row[r.role]]]
    BY <1>1, <2>3 DEF ChangeCommit, Update
  <2>6. r.role # "meetings" /\ r.role \in {"teacher", "student", "meetings"} BY <2>1 DEF Roles
  <2>7. CASE r.add
    <3>1. Abstract!Enter(d, r.role, r.user) BY <2>3, <2>4, <2>5, <2>7
    <3> QED BY <3>1, <2>1, <2>6
  <2>8. CASE ~r.add
    <3>1. Abstract!Withdraw(d, r.role, r.user) BY <2>3, <2>4, <2>5, <2>6, <2>8
    <3> QED BY <3>1, <2>1, <2>6
  <2> QED BY <2>7, <2>8
<1>2. ASSUME NEW q \in Procs, MeetCommit(q) PROVE [Abstract!Next]_class
  <2> DEFINE d == req[q].class
  <2>1. req[q].op = "meet" /\ pc[q] = "linked" /\ d \in Classes
    BY <1>2, ReqFields DEF MeetCommit, Meeting
  <2>2. ClassHeld(q) BY <2>1 DEF TransactionsHoldTheirRows, HoldsRows
  <2>3. class[d] # None /\ class[d] \in ClassRow BY <2>1, <2>2 DEF ClassHeld, TypeOK
  <2>4. tx[q].row.meetings = class[d].meetings \union tx[q].made
    BY <2>1, <2>2, <2>3 DEF ClassHeld, ClassRow
  <2>5. class' = [class EXCEPT ![d] = [class[d] EXCEPT !.meetings = tx[q].row.meetings]]
    BY <1>2, <2>3 DEF MeetCommit, Update
  <2>6. CASE tx[q].made = {}
    <3>1. [class[d] EXCEPT !.meetings = class[d].meetings] = class[d] BY <2>3 DEF ClassRow
    <3> QED BY <3>1, <2>4, <2>5, <2>6 DEF TypeOK
  <2>7. CASE tx[q].made # {}
    <3>1. PICK m \in Meetings : tx[q].made = {m} BY <2>7 DEF MadeOne
    <3>2. Abstract!Enter(d, "meetings", m) BY <3>1, <2>3, <2>4, <2>5
    <3> QED BY <3>2, <2>1
  <2> QED BY <2>6, <2>7
<1>3. ASSUME NEW q \in Procs, DropRow(q) PROVE Abstract!Next
  <2>1. Abstract!Close(req[q].class) BY <1>3 DEF DropRow
  <2> QED BY <2>1, ReqFields
<1>4. ASSUME NEW q \in Procs, Call(q) \/ Serve(q) \/ Fail(q),
             ~(ChangeCommit(q) \/ MeetCommit(q) \/ DropRow(q))
      PROVE  UNCHANGED class
  <2>1. CASE PurgeWrite(q) BY <2>1 DEF PurgeWrite
  <2>2. CASE ~PurgeWrite(q) BY <2>2, <1>4, OthersDoNotWrite DEF Writing
  <2> QED BY <2>1, <2>2
<1>5. CASE UNCHANGED vars BY <1>5 DEF vars, db
<1> QED BY <1>1, <1>2, <1>3, <1>4, <1>5 DEF Next

\* The service, with its locks, buffers, caches and failures, implements the
\* atomic rosters of Enrollment.
THEOREM Refinement == Spec => RostersChangeAtomically
<1>1. Spec => [](TypeOK /\ TransactionsHoldTheirRows) BY AgreementAlways, PTL
<1> QED
  BY <1>1, MadeAlways, RefineInit, RefineStep, PTL
  DEF Spec, RostersChangeAtomically, Abstract!Spec
(***************************************************************************)
(* The cache, and the lists that a deleted class is in.                    *)
(***************************************************************************)

HoldsClass(p, c) ==
  /\ req[p].class = c
  /\ \/ req[p].op = "change" /\ pc[p] \in {"user", "insert", "progress", "commit"}
     \/ req[p].op = "meet" /\ pc[p] = "linked"

HoldsList(p, u) == req[p].user = u /\ req[p].op = "change" /\ pc[p] \in {"progress", "commit"}

\* A lock that is held is held by a transaction that has come to the row.
LocksHaveHolders ==
  /\ \A c \in Classes : lockC[c] # None => HoldsClass(lockC[c], c)
  /\ \A u \in Users : lockU[u] # None => HoldsList(lockU[u], u)

\* What q's step may do to the locks.
LocksOf(q) ==
  /\ \A c \in Classes : lockC'[c] \in {lockC[c], None, q} /\ (lockC'[c] = q => HoldsClass(q, c)')
  /\ \A u \in Users : lockU'[u] \in {lockU[u], None, q} /\ (lockU'[u] = q => HoldsList(q, u)')

LEMMA LocksLeft ==
  ASSUME TypeOK, LocksHaveHolders, NEW q \in Procs, UNCHANGED <<lockC, lockU>>,
         pc[q] \notin {"user", "insert", "progress", "commit", "linked"} \/ req[q].op = "drop"
  PROVE  LocksOf(q)
<1>1. q # None BY NoneFacts
<1>2. /\ \A c \in Classes : ~HoldsClass(q, c)
      /\ \A u \in Users : ~HoldsList(q, u)
  BY DEF HoldsClass, HoldsList
<1>3. /\ \A c \in Classes : lockC[c] # q
      /\ \A u \in Users : lockU[u] # q
  BY <1>1, <1>2 DEF LocksHaveHolders
<1> QED BY <1>3 DEF LocksOf

LEMMA LocksReleased ==
  ASSUME TypeOK, NEW q \in Procs, Release(q)
  PROVE  LocksOf(q)
<1>1. /\ \A c \in Classes : lockC'[c] = IF lockC[c] = q THEN None ELSE lockC[c]
      /\ \A u \in Users : lockU'[u] = IF lockU[u] = q THEN None ELSE lockU[u]
  BY DEF Release
<1> QED BY <1>1, NoneFacts DEF LocksOf

\* A step within q's transaction: it keeps the class's lock.
LEMMA LocksKept ==
  ASSUME TypeOK, LocksHaveHolders, NEW q \in Procs, UNCHANGED lockC,
         req[q].op = "change", pc[q] \in {"user", "insert", "progress", "commit"},
         req'[q] = req[q], pc'[q] \in {"user", "insert", "progress", "commit"},
         \/ UNCHANGED lockU /\ (pc[q] \in {"progress", "commit"} => pc'[q] \in {"progress", "commit"})
         \/ pc'[q] \in {"progress", "commit"} /\ lockU' = [lockU EXCEPT ![req[q].user] = q]
  PROVE  LocksOf(q)
<1>1. q # None BY NoneFacts
<1>2. \A c \in Classes : lockC'[c] = q => HoldsClass(q, c)'
  BY <1>1 DEF LocksHaveHolders, HoldsClass
<1>3. \A u \in Users : lockU'[u] \in {lockU[u], None, q} /\ (lockU'[u] = q => HoldsList(q, u)')
  BY <1>1 DEF LocksHaveHolders, HoldsList, TypeOK
<1> QED BY <1>2, <1>3 DEF LocksOf

LEMMA ReadingPlace ==
  ASSUME NEW q \in Procs, Reading(q)
  PROVE  /\ UNCHANGED locks
         /\ pc[q] \notin {"user", "insert", "progress", "commit", "linked"}
         /\ ~Dropping(q, "uncache") /\ ~Dropping(q, "purgeWrite") /\ ~Dropping(q, "purgeCache")
<1> USE DEF Dropping, locks
<1>1. CASE Call(q) \/ GetClass(q) \/ Relation(q)
  BY <1>1 DEF Call, GetClass, GetClassHit, GetClassMiss, GetClassFill, Relation, RelationHit, RelationMiss, RelationFill
<1>2. CASE MeetInsert(q) \/ MeetExhausted(q) \/ MeetSeed(q)
  BY <1>2 DEF MeetInsert, MeetExhausted, MeetSeed, Meeting
<1>3. CASE ChangeSkip(q) \/ DropRefuse(q) \/ DropDone(q) \/ Abandon(q)
  BY <1>3 DEF ChangeSkip, Changing, DropRefuse, DropDone, Abandon
<1> QED BY <1>1, <1>2, <1>3 DEF Reading

LEMMA LocksAction ==
  ASSUME TypeOK, LocksHaveHolders, NEW q \in Procs, Call(q) \/ Serve(q) \/ Fail(q)
  PROVE  LocksOf(q)
<1> USE DEF Goto, locks
<1>1. CASE Reading(q) BY <1>1, ReadingPlace, LocksLeft
<1>2. CASE Rollback(q) BY <1>2, LocksReleased DEF Rollback
<1>3. CASE ChangeClass(q)
  <2>1. pc[q] = "got" /\ req[q].op = "change" /\ lockU' = lockU BY <1>3 DEF ChangeClass, Changing
  <2>2. CASE class[req[q].class] = None
    <3>1. lockC' = lockC BY <1>3, <2>2 DEF ChangeClass
    <3> QED BY <2>1, <3>1, LocksLeft
  <2>3. CASE class[req[q].class] # None
    <3>1. /\ pc'[q] = "user" /\ req'[q] = req[q] /\ lockC' = [lockC EXCEPT ![req[q].class] = q]
      BY <1>3, <2>3 DEF ChangeClass, TypeOK
    <3>2. q # None BY NoneFacts
    <3>3. /\ \A c \in Classes : lockC[c] # q
          /\ \A u \in Users : lockU[u] # q
      BY <2>1, <3>2 DEF LocksHaveHolders, HoldsClass, HoldsList
    <3>4. \A c \in Classes : lockC'[c] \in {lockC[c], q} /\ (lockC'[c] = q => c = req[q].class)
      BY <3>1, <3>3 DEF TypeOK
    <3> QED BY <2>1, <3>1, <3>3, <3>4 DEF LocksOf, HoldsClass
  <2> QED BY <2>2, <2>3
<1>4. CASE ChangeUserRow(q)
  <2>1. pc'[q] \in {"progress", "commit"} BY <1>4 DEF ChangeUserRow, AfterUser, TypeOK
  <2> QED BY <1>4, <2>1, LocksKept DEF ChangeUserRow, Changing
<1>5. CASE ChangeUserGap(q)
  <2>1. pc'[q] = "insert" BY <1>5 DEF ChangeUserGap, TypeOK
  <2>2. req' = req BY <1>5 DEF ChangeUserGap, local
  <2> QED BY <1>5, <2>1, <2>2, LocksKept DEF ChangeUserGap, Changing
<1>6. CASE ChangeUserInsert(q)
  <2>1. pc'[q] \in {"progress", "commit"} BY <1>6 DEF ChangeUserInsert, AfterUser, TypeOK
  <2> QED BY <1>6, <2>1, LocksKept DEF ChangeUserInsert, Changing
<1>7. CASE ChangeProgress(q)
  <2>1. pc'[q] = "commit" BY <1>7 DEF ChangeProgress, TypeOK
  <2> QED BY <1>7, <2>1, LocksKept DEF ChangeProgress, Changing
<1>8. CASE ChangeCommit(q) BY <1>8, LocksReleased DEF ChangeCommit
<1>9. CASE MeetLink(q)
  <2>1. pc[q] = "link" /\ req[q].op = "meet" /\ lockU' = lockU BY <1>9 DEF MeetLink, Meeting
  <2>2. CASE class[req[q].class] = None
    <3>1. lockC' = lockC BY <1>9, <2>2 DEF MeetLink
    <3> QED BY <2>1, <3>1, LocksLeft
  <2>3. CASE class[req[q].class] # None
    <3>1. /\ pc'[q] = "linked" /\ req'[q] = req[q] /\ lockC' = [lockC EXCEPT ![req[q].class] = q]
      BY <1>9, <2>3 DEF MeetLink, TypeOK
    <3>2. q # None BY NoneFacts
    <3>3. /\ \A c \in Classes : lockC[c] # q
          /\ \A u \in Users : lockU[u] # q
      BY <2>1, <3>2 DEF LocksHaveHolders, HoldsClass, HoldsList
    <3>4. \A c \in Classes : lockC'[c] \in {lockC[c], q} /\ (lockC'[c] = q => c = req[q].class)
      BY <3>1, <3>3 DEF TypeOK
    <3> QED BY <2>1, <3>1, <3>3, <3>4 DEF LocksOf, HoldsClass
  <2> QED BY <2>2, <2>3
<1>10. CASE MeetCommit(q) BY <1>10, LocksReleased DEF MeetCommit
<1>11. CASE DropRow(q) BY <1>11, LocksLeft DEF DropRow, Dropping
<1>12. CASE Purging(q)
  BY <1>12, LocksLeft DEF Purging, DropUncache, PurgeRead, PurgeCache, PurgeSkip, Dropping
<1>13. CASE PurgeWrite(q) BY <1>13, LocksLeft DEF PurgeWrite, Dropping
<1>14. CASE DropFail(q) BY <1>14, LocksLeft DEF DropFail
<1> QED
  BY <1>1, <1>2, <1>3, <1>4, <1>5, <1>6, <1>7, <1>8, <1>9, <1>10, <1>11, <1>12, <1>13, <1>14
  DEF Serve, Fail, Reading, ChangeUser, AddMeeting, DeleteClass, Purging,
      ChangeDeadlock, ChangeFail, MeetFail

LEMMA LocksStep ==
  ASSUME TypeOK, LocksHaveHolders, NEW q \in Procs, Frame(q), LocksOf(q)
  PROVE  LocksHaveHolders'
<1>1. ASSUME NEW c \in Classes, NEW p \in Procs, lockC'[c] = p PROVE HoldsClass(p, c)'
  <2>1. CASE p = q BY <1>1, <2>1 DEF LocksOf
  <2>2. CASE p # q
    <3>1. lockC[c] = p /\ p \in Others(q) BY <1>1, <2>2, NoneFacts DEF LocksOf, Others
    <3>2. HoldsClass(p, c) BY <3>1, NoneFacts DEF LocksHaveHolders
    <3> QED BY <3>1, <3>2 DEF Frame, HoldsClass
  <2> QED BY <2>1, <2>2
<1>2. ASSUME NEW u \in Users, NEW p \in Procs, lockU'[u] = p PROVE HoldsList(p, u)'
  <2>1. CASE p = q BY <1>2, <2>1 DEF LocksOf
  <2>2. CASE p # q
    <3>1. lockU[u] = p /\ p \in Others(q) BY <1>2, <2>2, NoneFacts DEF LocksOf, Others
    <3>2. HoldsList(p, u) BY <3>1, NoneFacts DEF LocksHaveHolders
    <3> QED BY <3>1, <3>2 DEF Frame, HoldsList
  <2> QED BY <2>1, <2>2
<1>3. /\ \A c \in Classes : lockC'[c] \in Procs \union {None}
      /\ \A u \in Users : lockU'[u] \in Procs \union {None}
  BY DEF LocksOf, TypeOK
<1> QED BY <1>1, <1>2, <1>3 DEF LocksHaveHolders, HoldsClass, HoldsList

\* The class was deleted, and its hash is about to be; the list of the user was written,
\* and the copy of it is about to be.
Uncaching(c) == \E p \in Procs : Dropping(p, "uncache") /\ req[p].class = c
Unlisting(u) == \E p \in Procs : Dropping(p, "purgeCache") /\ req[p].user = u

\* A hash that was not written out of order has the row, or what the transaction that
\* holds the row will make of it.
ClassCached(c) ==
  cClass[c] # None /\ <<"class", c>> \notin taint =>
    IF lockC[c] = None THEN cClass[c] = class[c] \/ Uncaching(c) ELSE cClass[c] = tx[lockC[c]].row

ListCached(u) ==
  cUser[u] # None /\ <<"user", u>> \notin taint =>
    \/ cUser[u] = IF lockU[u] = None THEN userClass[u] ELSE list[lockU[u]]
    \/ Unlisting(u)

LEMMA Handlers ==
  ASSUME TypeOK, NEW p \in Procs, NEW q \in Procs, p # q, Frame(q)
  PROVE  /\ \A l : Dropping(p, l)' <=> Dropping(p, l)
         /\ req'[p] = req[p] /\ tx'[p] = tx[p] /\ list'[p] = list[p]
  BY DEF Frame, Others, Dropping

LEMMA Uncaches ==
  ASSUME TypeOK, NEW q \in Procs, Frame(q), NEW c,
         Dropping(q, "uncache") /\ req[q].class = c => (Dropping(q, "uncache") /\ req[q].class = c)',
         Uncaching(c)
  PROVE  Uncaching(c)'
<1>1. PICK p \in Procs : Dropping(p, "uncache") /\ req[p].class = c BY DEF Uncaching
<1>2. CASE p = q BY <1>1, <1>2 DEF Uncaching
<1>3. CASE p # q BY <1>1, <1>3, Handlers DEF Uncaching
<1> QED BY <1>2, <1>3

LEMMA Unlists ==
  ASSUME TypeOK, NEW q \in Procs, Frame(q), NEW u,
         Dropping(q, "purgeCache") /\ req[q].user = u => (Dropping(q, "purgeCache") /\ req[q].user = u)',
         Unlisting(u)
  PROVE  Unlisting(u)'
<1>1. PICK p \in Procs : Dropping(p, "purgeCache") /\ req[p].user = u BY DEF Unlisting
<1>2. CASE p = q BY <1>1, <1>2 DEF Unlisting
<1>3. CASE p # q BY <1>1, <1>3, Handlers DEF Unlisting
<1> QED BY <1>2, <1>3

LEMMA ClassCalm ==
  ASSUME TypeOK, NEW q \in Procs, Frame(q), NEW c \in Classes, ClassCached(c),
         cClass'[c] = cClass[c], class'[c] = class[c], lockC'[c] = lockC[c], taint \subseteq taint',
         lockC[c] = q => tx'[q].row = tx[q].row,
         Dropping(q, "uncache") /\ req[q].class = c => (Dropping(q, "uncache") /\ req[q].class = c)'
  PROVE  ClassCached(c)'
<1>1. Uncaching(c) => Uncaching(c)' BY Uncaches
<1>2. ASSUME NEW p \in Procs, lockC[c] = p PROVE tx'[p].row = tx[p].row
  BY <1>2, Handlers
<1>3. lockC[c] \in Procs \union {None} BY DEF TypeOK
<1> QED BY <1>1, <1>2, <1>3, NoneFacts DEF ClassCached

LEMMA ListCalm ==
  ASSUME TypeOK, NEW q \in Procs, Frame(q), NEW u \in Users, ListCached(u),
         cUser'[u] = cUser[u], userClass'[u] = userClass[u], lockU'[u] = lockU[u], taint \subseteq taint',
         lockU[u] = q => list'[q] = list[q],
         Dropping(q, "purgeCache") /\ req[q].user = u => (Dropping(q, "purgeCache") /\ req[q].user = u)'
  PROVE  ListCached(u)'
<1>1. Unlisting(u) => Unlisting(u)' BY Unlists
<1>2. ASSUME NEW p \in Procs, lockU[u] = p PROVE list'[p] = list[p]
  BY <1>2, Handlers
<1>3. lockU[u] \in Procs \union {None} BY DEF TypeOK
<1> QED BY <1>1, <1>2, <1>3, NoneFacts DEF ListCached

\* A transaction that takes the row: the hash has what it read, and gets what it writes.
LEMMA UncachedAreGone ==
  ASSUME TransactionsHoldTheirRows, NEW c, Uncaching(c)
  PROVE  class[c] = None
<1>1. PICK p \in Procs : Dropping(p, "uncache") /\ req[p].class = c BY DEF Uncaching
<1>2. HoldsRows(p) BY DEF TransactionsHoldTheirRows
<1> QED BY <1>1, <1>2 DEF HoldsRows, Dropping

\* The handlers that roll back are in a transaction.
Rolling(q) == ChangeDeadlock(q) \/ ChangeFail(q) \/ MeetFail(q)

LEMMA RollingIn ==
  ASSUME NEW q \in Procs, Rolling(q)
  PROVE  Rollback(q) /\ \A l : ~Dropping(q, l)
BY DEF Rolling, ChangeDeadlock, ChangeFail, MeetFail, Changing, Meeting, Dropping

LEMMA LockHeld ==
  ASSUME TypeOK, LocksHaveHolders, NEW q \in Procs
  PROVE  /\ \A c \in Classes : lockC[c] = q => HoldsClass(q, c)
         /\ \A u \in Users : lockU[u] = q => HoldsList(q, u)
BY NoneFacts DEF LocksHaveHolders

LEMMA ClassTaken ==
  ASSUME TypeOK, TransactionsHoldTheirRows, NEW d \in Classes, class[d] # None, lockC[d] = None, ClassCached(d),
         NEW f \in {"teacher", "student", "meetings"}, NEW v
  PROVE  <<"class", d>> \notin taint /\ Update(cClass[d], f, v) # None =>
           cClass[d] # None /\ cClass[d] = class[d] /\ Update(cClass[d], f, v) = [class[d] EXCEPT ![f] = v]
<1>1. cClass[d] # None /\ <<"class", d>> \notin taint => cClass[d] = class[d]
  BY UncachedAreGone DEF ClassCached
<1> QED BY <1>1 DEF Update

LEMMA SameField ==
  ASSUME NEW row \in ClassRow, NEW f \in Roles
  PROVE  [row EXCEPT ![f] = row[f]] = row
BY DEF ClassRow, Roles

LEMMA ClassStep ==
  ASSUME TypeOK, TransactionsHoldTheirRows, LocksHaveHolders, NEW q \in Procs, Frame(q),
         Call(q) \/ Serve(q) \/ Fail(q), NEW c \in Classes, ClassCached(c)
  PROVE  ClassCached(c)'
<1> DEFINE d == req[q].class
<1> USE DEF db, cache, locks, local, history, Goto
<1>q. /\ q # None /\ HoldsRows(q) /\ d \in Classes /\ (lockC[c] = q => HoldsClass(q, c))
  BY NoneFacts, ReqFields, LockHeld DEF TransactionsHoldTheirRows
<1>1. CASE Reading(q)
  <2>0. /\ UNCHANGED locks /\ ~Dropping(q, "uncache") /\ lockC[c] # q
    BY <1>1, <1>q, ReadingPlace DEF HoldsClass
  <2>1. CASE GetClassFill(q)
    <3>1. /\ cClass' = [cClass EXCEPT ![d] = view[q]] /\ class' = class
          /\ taint' = IF view[q] = class[d] /\ lockC[d] = None THEN taint ELSE taint \union {<<"class", d>>}
      BY <2>1 DEF GetClassFill
    <3>2. CASE c = d
      BY <3>1, <3>2, <2>0 DEF ClassCached, TypeOK
    <3>3. CASE c # d
      BY <3>1, <3>3, <2>0, ClassCalm DEF TypeOK
    <3> QED BY <3>2, <3>3
  <2>2. CASE ~GetClassFill(q)
    <3>1. UNCHANGED <<class, cClass>> /\ taint \subseteq taint'
      BY <1>1, <2>2 DEF Reading, Call, GetClass, GetClassHit, GetClassMiss, Relation,
        RelationHit, RelationMiss, RelationFill, MeetInsert, MeetExhausted, MeetSeed,
        ChangeSkip, DropRefuse, DropDone, Abandon
    <3> QED BY <3>1, <2>0, ClassCalm
  <2> QED BY <2>1, <2>2
<1>2. CASE Rolling(q)
  <2>1. Rollback(q) /\ ~Dropping(q, "uncache") BY <1>2, RollingIn
  <2>2. /\ UNCHANGED <<class, cClass>> /\ taint \subseteq taint'
        /\ tx[q].row # class[d] => <<"class", d>> \in taint'
        /\ lockC'[c] = IF lockC[c] = q THEN None ELSE lockC[c]
    BY <2>1 DEF Rollback, Release, ClassKey
  <2>3. CASE lockC[c] = q
    BY <1>q, <2>2, <2>3 DEF ClassCached, HoldsClass
  <2>4. CASE lockC[c] # q
    BY <2>1, <2>2, <2>4, ClassCalm
  <2> QED BY <2>3, <2>4
<1>3. CASE ChangeClass(q)
  <2>1. /\ pc[q] = "got" /\ req[q].op = "change" /\ UNCHANGED <<class, taint>> /\ lockC[d] = None
        /\ ~Dropping(q, "uncache") /\ lockC[c] # q
    BY <1>3, <1>q DEF ChangeClass, Changing, Dropping, HoldsClass
  <2>2. CASE class[d] = None
    BY <1>3, <2>1, <2>2, ClassCalm DEF ChangeClass
  <2>3. CASE class[d] # None
    <3> DEFINE new == IF req[q].add THEN class[d][req[q].role] \union {req[q].user}
                      ELSE class[d][req[q].role] \ {req[q].user}
    <3>1. /\ tx'[q].row = [class[d] EXCEPT ![req[q].role] = new]
          /\ lockC' = [lockC EXCEPT ![d] = q]
          /\ IF new = class[d][req[q].role] THEN cClass' = cClass ELSE SetField(d, req[q].role, new)
      BY <1>3, <2>3 DEF ChangeClass, TypeOK
    <3>2. CASE c = d
      <4>0. req[q].role \in Roles /\ class[d] \in ClassRow BY <2>3, <1>q, ReqFields DEF TypeOK
      <4>1. CASE new = class[d][req[q].role]
        <5>1. tx'[q].row = class[d] BY <3>1, <4>0, <4>1, SameField
        <5>2. cClass[c] # None /\ <<"class", c>> \notin taint => cClass[c] = class[c]
          BY <2>1, <2>3, <3>2, UncachedAreGone DEF ClassCached
        <5> QED BY <1>q, <2>1, <3>1, <3>2, <4>1, <5>1, <5>2 DEF ClassCached, TypeOK
      <4>2. CASE new # class[d][req[q].role]
        <5>1. cClass'[d] = Update(cClass[d], req[q].role, new) BY <1>q, <3>1, <4>2 DEF SetField, TypeOK
        <5>2. <<"class", d>> \notin taint /\ cClass'[d] # None => cClass'[d] = [class[d] EXCEPT ![req[q].role] = new]
          BY <1>q, <2>1, <2>3, <3>2, <4>0, <5>1, ClassTaken, SMTT(30) DEF Roles
        <5> QED BY <1>q, <2>1, <3>1, <3>2, <5>2 DEF ClassCached, TypeOK
      <4> QED BY <4>1, <4>2
    <3>3. CASE c # d
      <4>1. cClass'[c] = cClass[c] /\ lockC'[c] = lockC[c] BY <3>1, <3>3 DEF SetField, TypeOK
      <4> QED BY <2>1, <4>1, ClassCalm
    <3> QED BY <3>2, <3>3
  <2> QED BY <2>2, <2>3
<1>4. CASE ChangeUserRow(q) \/ ChangeUserGap(q) \/ ChangeUserInsert(q) \/ ChangeProgress(q)
  <2>1. /\ UNCHANGED <<class, cClass, lockC, taint>> /\ tx'[q].row = tx[q].row /\ req[q].op = "change"
    BY <1>4 DEF ChangeUserRow, ChangeUserGap, ChangeUserInsert, ChangeProgress, Changing, TypeOK
  <2> QED BY <2>1, ClassCalm DEF Dropping
<1>5. CASE ChangeCommit(q)
  <2>1. PICK v \in Users : v = req[q].user BY ReqFields
  <2>2. /\ req[q].op = "change" /\ pc[q] = "commit" /\ UNCHANGED <<cClass, taint>> /\ Release(q)
    BY <1>5 DEF ChangeCommit, Changing
  <2>3. /\ lockC[d] = q /\ lockC'[c] = IF lockC[c] = q THEN None ELSE lockC[c]
    BY <1>q, <2>2 DEF HoldsRows, ClassHeld, Release
  <2>4. /\ \A k \in Classes \ {d} : class'[k] = class[k]
        /\ class'[d] = tx[q].row
    BY <1>5, <1>q, <2>1, CommitEffect
  <2>5. CASE c = d BY <1>q, <2>2, <2>3, <2>4, <2>5 DEF ClassCached
  <2>6. CASE c # d
    <3>1. lockC[c] # q BY <1>q, <2>6 DEF HoldsClass
    <3> QED BY <2>2, <2>3, <2>4, <2>6, <3>1, ClassCalm DEF Dropping
  <2> QED BY <2>5, <2>6
<1>6. CASE MeetLink(q)
  <2>1. /\ pc[q] = "link" /\ req[q].op = "meet" /\ UNCHANGED <<class, taint>> /\ lockC[d] = None
        /\ ~Dropping(q, "uncache") /\ lockC[c] # q
    BY <1>6, <1>q DEF MeetLink, Meeting, Dropping, HoldsClass
  <2>2. CASE class[d] = None
    BY <1>6, <2>1, <2>2, ClassCalm DEF MeetLink
  <2>3. CASE class[d] # None
    <3> DEFINE new == class[d].meetings \union tx[q].made
    <3>1. /\ tx'[q].row = [class[d] EXCEPT !.meetings = new]
          /\ lockC' = [lockC EXCEPT ![d] = q]
          /\ cClass' = [cClass EXCEPT ![d] = Update(cClass[d], "meetings", new)]
      BY <1>6, <2>3 DEF MeetLink, SetField, TypeOK
    <3>2. CASE c = d
      <4>1. <<"class", d>> \notin taint /\ cClass'[d] # None => cClass'[d] = [class[d] EXCEPT !.meetings = new]
        <5>1. cClass'[d] = Update(cClass[d], "meetings", new) BY <1>q, <3>1 DEF TypeOK
        <5> QED BY <1>q, <2>1, <2>3, <3>2, <5>1, ClassTaken
      <4> QED BY <1>q, <2>1, <3>1, <3>2, <4>1 DEF ClassCached, TypeOK
    <3>3. CASE c # d
      <4>1. cClass'[c] = cClass[c] /\ lockC'[c] = lockC[c] BY <3>1, <3>3 DEF TypeOK
      <4> QED BY <2>1, <4>1, ClassCalm
    <3> QED BY <3>2, <3>3
  <2> QED BY <2>2, <2>3
<1>7. CASE MeetCommit(q)
  <2>1. /\ req[q].op = "meet" /\ pc[q] = "linked" /\ UNCHANGED <<cClass, taint>> /\ Release(q)
    BY <1>7 DEF MeetCommit, Meeting
  <2>2. /\ lockC[d] = q /\ lockC'[c] = IF lockC[c] = q THEN None ELSE lockC[c]
        /\ class[d] # None /\ tx[q].row = [class[d] EXCEPT !.meetings = class[d].meetings \union tx[q].made]
    BY <1>q, <2>1 DEF HoldsRows, ClassHeld, Release
  <2>3. /\ \A k \in Classes \ {d} : class'[k] = class[k]
        /\ class'[d] = tx[q].row
    <3>1. class[d] \in ClassRow BY <1>q, <2>2 DEF TypeOK
    <3>2. tx[q].row.meetings = class[d].meetings \union tx[q].made BY <2>2, <3>1 DEF ClassRow
    <3> QED BY <1>7, <1>q, <2>2, <3>2 DEF MeetCommit, Update, TypeOK
  <2>5. CASE c = d BY <1>q, <2>1, <2>2, <2>3, <2>5 DEF ClassCached
  <2>6. CASE c # d
    <3>1. lockC[c] # q BY <1>q, <2>6 DEF HoldsClass
    <3> QED BY <2>1, <2>2, <2>3, <2>6, <3>1, ClassCalm DEF Dropping
  <2> QED BY <2>5, <2>6
<1>8. CASE DropRow(q)
  <2>1. /\ pc[q] = "got" /\ req[q].op = "drop" /\ lockC[d] = None /\ UNCHANGED <<cClass, lockC, taint, req>>
        /\ class' = [class EXCEPT ![d] = None] /\ pc'[q] = "uncache"
    BY <1>8 DEF DropRow, Dropping, TypeOK
  <2>2. lockC[c] # q BY <1>q, <2>1 DEF HoldsClass
  <2>3. CASE c = d
    <3>1. Uncaching(c)' BY <2>1, <2>3 DEF Uncaching, Dropping
    <3> QED BY <2>1, <2>3, <3>1 DEF ClassCached
  <2>4. CASE c # d
    <3>1. class'[c] = class[c] BY <2>1, <2>4 DEF TypeOK
    <3>2. ~Dropping(q, "uncache") BY <2>1 DEF Dropping
    <3> QED BY <2>1, <2>2, <3>1, <3>2, ClassCalm
  <2> QED BY <2>3, <2>4
<1>9. CASE DropUncache(q)
  <2>1. /\ cClass' = [cClass EXCEPT ![d] = None] /\ UNCHANGED <<class, lockC, taint>> /\ req[q].op = "drop"
    BY <1>9 DEF DropUncache, Dropping
  <2>2. lockC[c] # q BY <1>q, <2>1 DEF HoldsClass
  <2>3. CASE c = d BY <2>1, <2>3 DEF ClassCached, TypeOK
  <2>4. CASE c # d
    <3>1. cClass'[c] = cClass[c] BY <2>1, <2>4 DEF TypeOK
    <3> QED BY <2>1, <2>2, <2>4, <3>1, ClassCalm
  <2> QED BY <2>3, <2>4
<1>10. CASE PurgeRead(q) \/ PurgeWrite(q) \/ PurgeCache(q) \/ PurgeSkip(q)
  <2>1. /\ UNCHANGED <<class, cClass, lockC>> /\ taint \subseteq taint' /\ ~Dropping(q, "uncache") /\ req[q].op = "drop"
    BY <1>10 DEF PurgeRead, PurgeWrite, PurgeCache, PurgeSkip, Dropping
  <2>2. lockC[c] # q BY <1>q, <2>1 DEF HoldsClass
  <2> QED BY <2>1, <2>2, ClassCalm
<1>11. CASE DropFail(q)
  <2>1. /\ UNCHANGED <<class, cClass, lockC>> /\ taint \subseteq taint' /\ req[q].op = "drop"
        /\ pc[q] = "uncache" => <<"class", d>> \in taint'
    BY <1>11 DEF DropFail, ClassKey
  <2>2. lockC[c] # q BY <1>q, <2>1 DEF HoldsClass
  <2>3. CASE Dropping(q, "uncache") /\ d = c BY <2>1, <2>3 DEF ClassCached, Dropping
  <2>4. CASE ~(Dropping(q, "uncache") /\ d = c) BY <2>1, <2>2, <2>4, ClassCalm
  <2> QED BY <2>3, <2>4
<1> QED
  BY <1>1, <1>2, <1>3, <1>4, <1>5, <1>6, <1>7, <1>8, <1>9, <1>10, <1>11
  DEF Serve, Fail, Reading, ChangeUser, AddMeeting, DeleteClass, Rolling

LEMMA ListStep ==
  ASSUME TypeOK, TransactionsHoldTheirRows, LocksHaveHolders, NEW q \in Procs, Frame(q),
         Call(q) \/ Serve(q) \/ Fail(q), NEW u \in Users, ListCached(u)
  PROVE  ListCached(u)'
<1> DEFINE v == req[q].user
<1> USE DEF db, cache, locks, local, history, Goto
<1>q. /\ q # None /\ HoldsRows(q) /\ v \in Users /\ (lockU[u] = q => HoldsList(q, u))
  BY NoneFacts, ReqFields, LockHeld DEF TransactionsHoldTheirRows
<1>1. CASE Reading(q)
  <2>0. /\ UNCHANGED locks /\ ~Dropping(q, "purgeCache") /\ lockU[u] # q
    BY <1>1, <1>q, ReadingPlace DEF HoldsList
  <2>1. CASE RelationFill(q)
    <3>1. /\ cUser' = [cUser EXCEPT ![v] = list[q]] /\ userClass' = userClass
          /\ taint' = IF list[q] = userClass[v] /\ lockU[v] = None THEN taint ELSE taint \union {<<"user", v>>}
      BY <2>1 DEF RelationFill
    <3>2. CASE u = v
      BY <3>1, <3>2, <2>0 DEF ListCached, TypeOK
    <3>3. CASE u # v
      BY <3>1, <3>3, <2>0, ListCalm DEF TypeOK
    <3> QED BY <3>2, <3>3
  <2>2. CASE ~RelationFill(q)
    <3>1. UNCHANGED <<userClass, cUser>> /\ taint \subseteq taint'
      BY <1>1, <2>2 DEF Reading, Call, GetClass, GetClassHit, GetClassMiss, GetClassFill, Relation,
        RelationHit, RelationMiss, MeetInsert, MeetExhausted, MeetSeed,
        ChangeSkip, DropRefuse, DropDone, Abandon
    <3> QED BY <3>1, <2>0, ListCalm
  <2> QED BY <2>1, <2>2
<1>2. CASE Rolling(q)
  <2>1. Rollback(q) /\ ~Dropping(q, "purgeCache") BY <1>2, RollingIn
  <2>2. /\ UNCHANGED <<userClass, cUser>> /\ taint \subseteq taint'
        /\ pc[q] \in {"progress", "commit"} /\ list[q] # userClass[v] => <<"user", v>> \in taint'
        /\ lockU'[u] = IF lockU[u] = q THEN None ELSE lockU[u]
    BY <2>1 DEF Rollback, Release, UserKey
  <2>3. CASE lockU[u] = q
    <3>1. Unlisting(u) => Unlisting(u)' BY <2>1, Unlists
    <3> QED BY <1>q, <2>2, <2>3, <3>1 DEF ListCached, HoldsList
  <2>4. CASE lockU[u] # q
    BY <2>1, <2>2, <2>4, ListCalm
  <2> QED BY <2>3, <2>4
<1>3. CASE ChangeClass(q) \/ MeetLink(q)
  <2>1. /\ UNCHANGED <<userClass, cUser, lockU, taint>> /\ pc[q] \in {"got", "link"}
    BY <1>3 DEF ChangeClass, Changing, MeetLink, Meeting
  <2>2. lockU[u] # q BY <1>q, <2>1 DEF HoldsList
  <2> QED BY <2>1, <2>2, ListCalm DEF Dropping
<1>4. CASE ChangeUserGap(q) \/ ChangeProgress(q)
  <2>1. /\ UNCHANGED <<userClass, cUser, lockU, taint, list>> /\ req[q].op = "change"
    BY <1>4 DEF ChangeUserGap, ChangeProgress, Changing
  <2> QED BY <2>1, ListCalm DEF Dropping
<1>5. CASE ChangeUserRow(q)
  <2>1. /\ UNCHANGED <<userClass, taint>> /\ req[q].op = "change" /\ pc[q] = "user" /\ lockU[v] = None
        /\ lockU' = [lockU EXCEPT ![v] = q] /\ list'[q] = NewList(req[q])
        /\ cUser' = IF NewList(req[q]) = userClass[v] THEN cUser ELSE [cUser EXCEPT ![v] = NewList(req[q])]
    BY <1>5 DEF ChangeUserRow, Changing, TypeOK
  <2>2. lockU[u] # q /\ ~Dropping(q, "purgeCache") BY <1>q, <2>1 DEF HoldsList, Dropping
  <2>3. CASE u = v
    <3>1. Unlisting(u) => Unlisting(u)' BY <2>2, Unlists
    <3>2. lockU'[u] = q BY <2>1, <2>3 DEF TypeOK
    <3>3. CASE NewList(req[q]) = userClass[v] BY <1>q, <2>1, <2>3, <3>1, <3>2, <3>3 DEF ListCached
    <3>4. CASE NewList(req[q]) # userClass[v]
      <4>1. cUser'[u] = NewList(req[q]) BY <2>1, <2>3, <3>4 DEF TypeOK
      <4> QED BY <1>q, <2>1, <3>2, <4>1 DEF ListCached
    <3> QED BY <3>3, <3>4
  <2>4. CASE u # v
    <3>1. cUser'[u] = cUser[u] /\ lockU'[u] = lockU[u] BY <2>1, <2>4 DEF TypeOK
    <3> QED BY <2>1, <2>2, <3>1, ListCalm
  <2> QED BY <2>3, <2>4
<1>6. CASE ChangeUserInsert(q)
  <2>1. /\ UNCHANGED <<userClass, taint>> /\ req[q].op = "change" /\ pc[q] = "insert"
        /\ lockU' = [lockU EXCEPT ![v] = q] /\ list'[q] = {req[q].class}
        /\ cUser' = [cUser EXCEPT ![v] = {req[q].class}]
    BY <1>6 DEF ChangeUserInsert, Changing, TypeOK
  <2>2. lockU[u] # q /\ ~Dropping(q, "purgeCache") BY <1>q, <2>1 DEF HoldsList, Dropping
  <2>3. CASE u = v
    <3>1. cUser'[u] = {req[q].class} /\ lockU'[u] = q BY <2>1, <2>3 DEF TypeOK
    <3> QED BY <1>q, <2>1, <3>1 DEF ListCached
  <2>4. CASE u # v
    <3>1. cUser'[u] = cUser[u] /\ lockU'[u] = lockU[u] BY <2>1, <2>4 DEF TypeOK
    <3> QED BY <2>1, <2>2, <3>1, ListCalm
  <2> QED BY <2>3, <2>4
<1>7. CASE ChangeCommit(q)
  <2>1. PICK d \in Classes : d = req[q].class BY ReqFields
  <2>2. /\ req[q].op = "change" /\ pc[q] = "commit" /\ UNCHANGED <<cUser, taint>> /\ Release(q)
        /\ userClass' = [userClass EXCEPT ![v] = list[q]]
    BY <1>7 DEF ChangeCommit, Changing
  <2>3. /\ lockU[v] = q /\ lockU'[u] = IF lockU[u] = q THEN None ELSE lockU[u]
    BY <1>q, <2>2 DEF HoldsRows, ListHeld, Release
  <2>4. ~Dropping(q, "purgeCache") BY <2>2 DEF Dropping
  <2>5. CASE u = v
    <3>1. Unlisting(u) => Unlisting(u)' BY <2>4, Unlists
    <3>2. userClass'[u] = list[q] BY <2>2, <2>5 DEF TypeOK
    <3> QED BY <1>q, <2>2, <2>3, <2>5, <3>1, <3>2 DEF ListCached
  <2>6. CASE u # v
    <3>1. lockU[u] # q BY <1>q, <2>6 DEF HoldsList
    <3>2. userClass'[u] = userClass[u] BY <2>2, <2>6 DEF TypeOK
    <3> QED BY <2>2, <2>3, <2>4, <3>1, <3>2, ListCalm
  <2> QED BY <2>5, <2>6
<1>8. CASE MeetCommit(q)
  <2>1. /\ req[q].op = "meet" /\ UNCHANGED <<userClass, cUser, taint>> /\ Release(q)
    BY <1>8 DEF MeetCommit, Meeting
  <2>2. lockU[u] # q BY <1>q, <2>1 DEF HoldsList
  <2>3. lockU'[u] = lockU[u] BY <2>1, <2>2 DEF Release
  <2> QED BY <2>1, <2>2, <2>3, ListCalm DEF Dropping
<1>9. CASE DropRow(q) \/ DropUncache(q) \/ PurgeRead(q)
  <2>1. /\ UNCHANGED <<userClass, cUser, lockU, taint>> /\ req[q].op = "drop" /\ ~Dropping(q, "purgeCache")
    BY <1>9 DEF DropRow, DropUncache, PurgeRead, Dropping
  <2>2. lockU[u] # q BY <1>q, <2>1 DEF HoldsList
  <2> QED BY <2>1, <2>2, ListCalm
<1>10. CASE PurgeWrite(q)
  <2>1. /\ UNCHANGED <<cUser, lockU, taint, req, list>> /\ req[q].op = "drop" /\ pc[q] = "purgeWrite"
        /\ userClass' = [userClass EXCEPT ![v] = list[q]] /\ pc'[q] = "purgeCache" /\ lockU[v] = None
    BY <1>10 DEF PurgeWrite, Dropping, TypeOK
  <2>2. CASE u = v
    <3>1. Unlisting(u)' BY <2>1, <2>2 DEF Unlisting, Dropping
    <3> QED BY <3>1 DEF ListCached
  <2>3. CASE u # v
    <3>1. userClass'[u] = userClass[u] BY <2>1, <2>3 DEF TypeOK
    <3> QED BY <2>1, <3>1, ListCalm DEF Dropping
  <2> QED BY <2>2, <2>3
<1>11. CASE PurgeCache(q)
  <2>1. /\ UNCHANGED <<userClass, lockU, req, list>> /\ req[q].op = "drop"
        /\ cUser' = [cUser EXCEPT ![v] = list[q]]
        /\ taint' = IF list[q] = userClass[v] /\ lockU[v] = None THEN taint ELSE taint \union {<<"user", v>>}
    BY <1>11 DEF PurgeCache, Dropping, UserKey
  <2>2. CASE u = v BY <2>1, <2>2 DEF ListCached, TypeOK
  <2>3. CASE u # v
    <3>1. cUser'[u] = cUser[u] BY <2>1, <2>3 DEF TypeOK
    <3> QED BY <2>1, <2>3, <3>1, ListCalm
  <2> QED BY <2>2, <2>3
<1>12. CASE PurgeSkip(q) \/ DropFail(q)
  <2>1. /\ UNCHANGED <<userClass, cUser, lockU>> /\ taint \subseteq taint' /\ req[q].op = "drop"
        /\ pc[q] = "purgeCache" => <<"user", v>> \in taint'
    BY <1>12 DEF PurgeSkip, DropFail, UserKey
  <2>2. lockU[u] # q BY <1>q, <2>1 DEF HoldsList
  <2>3. CASE Dropping(q, "purgeCache") /\ v = u BY <2>1, <2>3 DEF ListCached, Dropping
  <2>4. CASE ~(Dropping(q, "purgeCache") /\ v = u) BY <2>1, <2>2, <2>4, ListCalm
  <2> QED BY <2>3, <2>4
<1> QED
  BY <1>1, <1>2, <1>3, <1>4, <1>5, <1>6, <1>7, <1>8, <1>9, <1>10, <1>11, <1>12
  DEF Serve, Fail, Reading, ChangeUser, AddMeeting, DeleteClass, Rolling

\* p deleted class c and has still to take it out of u's list.
Visiting(p, u, c) ==
  /\ req[p].op = "drop" /\ req[p].class = c /\ u \in todo[p]
  /\ pc[p] \in {"uncache", "purge", "purgeWrite", "purgeCache"}

\* The user whose list was just written is not to be visited again.
Visited == \A p \in Procs : Dropping(p, "purgeCache") => req[p].user \notin todo[p]

\* Either the class is not in u's list, or it is known why.
Unlisted(u, c) ==
  c \in Listed(u) /\ class[c] = None =>
    (\E p \in Procs : Visiting(p, u, c)) \/ <<u, c>> \in stray \union orphaned \/ u \in clobbered

LEMMA OthersTodo ==
  ASSUME TypeOK, NEW q \in Procs, Call(q) \/ Serve(q) \/ Fail(q), NEW p \in Others(q)
  PROVE  todo'[p] = todo[p]
<1>0. p # q /\ p \in Procs BY DEF Others
<1>1. CASE Return(q) BY <1>0, <1>1 DEF Return, TypeOK
<1>2. CASE ~Return(q)
  <2> USE DEF Goto, local
  <2>1. CASE Call(q) \/ GetClass(q) \/ Relation(q)
    BY <1>2, <2>1 DEF Call, GetClass, GetClassHit, GetClassMiss, GetClassFill, Relation, RelationHit, RelationMiss, RelationFill
  <2>2. CASE ChangeUser(q)
    BY <1>2, <2>2 DEF ChangeUser, ChangeSkip, ChangeClass, ChangeUserRow, ChangeUserGap, ChangeUserInsert,
      ChangeProgress, ChangeCommit, ChangeDeadlock, Rollback
  <2>3. CASE AddMeeting(q)
    BY <1>2, <2>3 DEF AddMeeting, MeetInsert, MeetExhausted, MeetSeed, MeetLink, MeetCommit
  <2>4. CASE DropRefuse(q) \/ DropUncache(q) \/ PurgeCache(q) \/ DropDone(q)
    BY <1>2, <2>4 DEF DropRefuse, DropUncache, PurgeCache, DropDone
  <2>5. CASE DropRow(q) \/ PurgeWrite(q) \/ PurgeSkip(q)
    BY <1>0, <2>5 DEF DropRow, PurgeWrite, PurgeSkip, TypeOK
  <2>6. CASE PurgeRead(q) BY <1>0, <2>6 DEF PurgeRead, TypeOK
  <2>7. CASE ChangeFail(q) \/ MeetFail(q) \/ DropFail(q) \/ Abandon(q)
    BY <1>2, <2>7 DEF ChangeFail, MeetFail, DropFail, Abandon, Rollback
  <2> QED BY <2>1, <2>2, <2>3, <2>4, <2>5, <2>6, <2>7 DEF Serve, Fail, DeleteClass
<1> QED BY <1>1, <1>2

LEMMA VisitingStays ==
  ASSUME TypeOK, NEW q \in Procs, Frame(q), Call(q) \/ Serve(q) \/ Fail(q), NEW p \in Procs, p # q, NEW u, NEW c
  PROVE  Visiting(p, u, c) => Visiting(p, u, c)'
<1>1. todo'[p] = todo[p] BY OthersTodo DEF Others
<1> QED BY <1>1 DEF Visiting, Frame, Others

\* The steps that neither change a list or a class, nor what q has to visit.
LEMMA UnlistedCalm ==
  ASSUME TypeOK, NEW q \in Procs, Frame(q), Call(q) \/ Serve(q) \/ Fail(q), NEW u \in Users, NEW c, Unlisted(u, c),
         c \in Listed(u)' => c \in Listed(u), class'[c] = None => class[c] = None,
         stray \subseteq stray', orphaned \subseteq orphaned', clobbered \subseteq clobbered',
         Visiting(q, u, c) => Visiting(q, u, c)'
  PROVE  Unlisted(u, c)'
<1>1. ASSUME NEW p \in Procs, Visiting(p, u, c) PROVE Visiting(p, u, c)'
  BY <1>1, VisitingStays
<1> QED BY <1>1 DEF Unlisted

LEMMA VisitedStep ==
  ASSUME TypeOK, Visited, NEW q \in Procs, Frame(q), Call(q) \/ Serve(q) \/ Fail(q)
  PROVE  Visited'
<1>1. ASSUME NEW p \in Procs, p # q, Dropping(p, "purgeCache")' PROVE req'[p].user \notin todo'[p]
  BY <1>1, OthersTodo, Handlers DEF Visited, Others
<1>2. ASSUME Dropping(q, "purgeCache")' PROVE req'[q].user \notin todo'[q]
  <2>1. PurgeWrite(q)
    <3> USE <1>2 DEF Dropping, Goto, local
    <3>0. pc'[q] = "purgeCache" OBVIOUS
    <3>1. ~Return(q) BY <3>0 DEF Return, TypeOK
    <3>2. ~Call(q) /\ ~GetClass(q) /\ ~Relation(q)
      BY <3>0, <3>1 DEF Call, GetClass, GetClassHit, GetClassMiss, GetClassFill, Relation, RelationHit, RelationMiss,
        RelationFill, TypeOK
    <3>3. ~ChangeUser(q)
      BY <3>0, <3>1 DEF ChangeUser, ChangeSkip, ChangeClass, ChangeUserRow, ChangeUserGap, ChangeUserInsert,
        ChangeProgress, ChangeCommit, ChangeDeadlock, Rollback, AfterUser, TypeOK
    <3>4. ~AddMeeting(q)
      BY <3>0, <3>1 DEF AddMeeting, MeetInsert, MeetExhausted, MeetSeed, MeetLink, MeetCommit, TypeOK
    <3>5. ~Fail(q)
      BY <3>0, <3>1 DEF Fail, ChangeFail, MeetFail, DropFail, Abandon, Rollback, PurgeSkip, TypeOK
    <3>6. ~DropRefuse(q) /\ ~DropRow(q) /\ ~DropUncache(q) /\ ~PurgeCache(q) /\ ~DropDone(q)
      BY <3>0, <3>1 DEF DropRefuse, DropRow, DropUncache, PurgeCache, DropDone, TypeOK
    <3>7. ~PurgeRead(q) BY <3>0 DEF PurgeRead, TypeOK
    <3> QED BY <3>2, <3>3, <3>4, <3>5, <3>6, <3>7 DEF Serve, DeleteClass
  <2>2. todo'[q] = todo[q] \ {req[q].user} /\ req' = req BY <2>1 DEF PurgeWrite, TypeOK
  <2> QED BY <2>2
<1> QED BY <1>1, <1>2 DEF Visited

LEMMA UnlistedStep ==
  ASSUME TypeOK, TransactionsHoldTheirRows, Agreement, Visited, NEW q \in Procs, Frame(q),
         Call(q) \/ Serve(q) \/ Fail(q), NEW u \in Users, NEW c \in Classes, Unlisted(u, c)
  PROVE  Unlisted(u, c)'
<1> DEFINE d == req[q].class
           v == req[q].user
<1> USE DEF db, cache, locks, local, history, Goto
<1>q. HoldsRows(q) /\ d \in Classes /\ v \in Users BY ReqFields DEF TransactionsHoldTheirRows
<1>1. CASE Reading(q)
  <2>1. UNCHANGED <<class, userClass, stray, orphaned, clobbered>>
    BY <1>1 DEF Reading, Call, GetClass, GetClassHit, GetClassMiss, GetClassFill, Relation,
      RelationHit, RelationMiss, RelationFill, MeetInsert, MeetExhausted, MeetSeed,
      ChangeSkip, DropRefuse, DropDone, Abandon
  <2>2. ~Visiting(q, u, c)
    <3>1. CASE DropDone(q) BY <3>1 DEF DropDone, Visiting
    <3>2. CASE ~DropDone(q)
      BY <1>1, <3>2 DEF Visiting, Reading, Call, GetClass, GetClassHit, GetClassMiss, GetClassFill, Relation,
        RelationHit, RelationMiss, RelationFill, MeetInsert, MeetExhausted, MeetSeed, Meeting,
        ChangeSkip, Changing, DropRefuse, Dropping, Abandon
    <3> QED BY <3>1, <3>2
  <2> QED BY <2>1, <2>2, UnlistedCalm DEF Listed
<1>2. CASE Rolling(q)
  <2>1. Rollback(q) /\ ~Visiting(q, u, c) BY <1>2, RollingIn DEF Dropping, Visiting
  <2> QED BY <2>1, UnlistedCalm DEF Rollback, Listed
<1>3. CASE ChangeClass(q) \/ ChangeUserRow(q) \/ ChangeUserGap(q) \/ ChangeUserInsert(q) \/ ChangeProgress(q) \/ MeetLink(q)
  <2>1. UNCHANGED <<class, userClass, stray, orphaned, clobbered>> /\ ~Visiting(q, u, c)
    BY <1>3 DEF ChangeClass, ChangeUserRow, ChangeUserGap, ChangeUserInsert, ChangeProgress, MeetLink, Changing, Meeting, Visiting
  <2> QED BY <2>1, UnlistedCalm DEF Listed
<1>4. CASE ChangeCommit(q)
  <2>0. PICK x \in Users, k \in Classes : x = v /\ k = d BY <1>q
  <2>1. /\ class[k] # None /\ class'[k] # None
        /\ \A e \in Classes \ {k} : class'[e] = class[e]
        /\ \A w \in Users \ {x} : userClass'[w] = userClass[w]
        /\ \A e \in Classes \ {k} : e \in Listed(x)' <=> e \in Listed(x)
    BY <1>4, <1>q, <2>0, CommitEffect
  <2>2. /\ stray \subseteq stray' /\ UNCHANGED <<orphaned, clobbered>> /\ ~Visiting(q, u, c)
    BY <1>4 DEF ChangeCommit, Changing, Visiting
  <2>3. CASE c = k BY <2>1, <2>3 DEF Unlisted
  <2>4. CASE c # k
    <3>1. class'[c] = class[c] BY <2>1, <2>4
    <3>2. CASE u = x
      <4>1. c \in Listed(u)' => c \in Listed(u) BY <2>1, <2>4, <3>2
      <4> QED BY <2>2, <3>1, <4>1, UnlistedCalm
    <3>3. CASE u # x
      <4>1. c \in Listed(u)' => c \in Listed(u) BY <2>1, <3>3 DEF Listed
      <4> QED BY <2>2, <3>1, <4>1, UnlistedCalm
    <3> QED BY <3>2, <3>3
  <2> QED BY <2>3, <2>4
<1>5. CASE MeetCommit(q)
  <2>1. /\ UNCHANGED <<userClass, stray, orphaned, clobbered>> /\ ~Visiting(q, u, c) /\ class[d] # None
        /\ class' = [class EXCEPT ![d] = Update(class[d], "meetings", tx[q].row.meetings)]
    BY <1>5, <1>q DEF MeetCommit, Meeting, Visiting, HoldsRows, ClassHeld
  <2>2. CASE c = d
    <3>1. class[d] \in ClassRow /\ tx[q].row.meetings \in SUBSET Meetings BY <1>q, <2>1 DEF TypeOK, ClassRow
    <3>2. class'[d] \in ClassRow BY <1>q, <2>1, <3>1 DEF Update, TypeOK, ClassRow
    <3> QED BY <2>2, <3>2, NoneFacts DEF Unlisted
  <2>3. CASE c # d
    <3>1. class'[c] = class[c] BY <2>1, <2>3 DEF TypeOK
    <3> QED BY <2>1, <3>1, UnlistedCalm DEF Listed
  <2> QED BY <2>2, <2>3
<1>6. CASE DropRow(q)
  <2>1. /\ req[q].op = "drop" /\ pc[q] = "got" /\ UNCHANGED <<userClass, stray, clobbered, req>>
        /\ class' = [class EXCEPT ![d] = None] /\ todo'[q] = Roster(view[q]) /\ pc'[q] = "uncache"
        /\ orphaned' = orphaned \union ((Rostered(d) \ Roster(view[q])) \X {d})
    BY <1>6 DEF DropRow, Dropping, TypeOK
  <2>2. ~Visiting(q, u, c) BY <2>1 DEF Visiting
  <2>3. CASE c = d /\ class[d] # None
    <3>1. ASSUME c \in Listed(u) PROVE u \in Rostered(d) \/ <<u, d>> \in stray \/ u \in clobbered
      BY <2>3, <3>1 DEF Agreement, ListedAreEnrolled
    <3>2. CASE u \in Rostered(d) /\ u \in Roster(view[q])
      <4>1. Visiting(q, u, c)' BY <2>1, <2>3, <3>2 DEF Visiting
      <4> QED BY <4>1 DEF Unlisted
    <3>3. CASE u \in Rostered(d) /\ u \notin Roster(view[q]) BY <2>1, <2>3, <3>3 DEF Unlisted
    <3> QED BY <2>1, <2>3, <3>1, <3>2, <3>3 DEF Unlisted, Listed
  <2>4. CASE c # d \/ class[d] = None
    <3>1. class'[c] = None => class[c] = None BY <2>1, <2>4 DEF TypeOK
    <3> QED BY <2>1, <2>2, <3>1, UnlistedCalm DEF Listed
  <2> QED BY <2>3, <2>4
<1>7. CASE DropUncache(q) \/ PurgeCache(q)
  <2>1. /\ UNCHANGED <<class, userClass, stray, orphaned, clobbered, req, todo>> /\ pc'[q] = "purge"
    BY <1>7 DEF DropUncache, PurgeCache, TypeOK
  <2>2. Visiting(q, u, c) => Visiting(q, u, c)' BY <2>1 DEF Visiting
  <2> QED BY <2>1, <2>2, UnlistedCalm DEF Listed
<1>8. CASE PurgeRead(q)
  <2>1. UNCHANGED <<class, userClass, stray, orphaned, clobbered>> BY <1>8 DEF PurgeRead
  <2>2. PICK w \in todo[q] :
          IF d \in Listed(w)
          THEN /\ req'  = [req EXCEPT ![q].user = w]
               /\ pc' = [pc EXCEPT ![q] = "purgeWrite"] /\ UNCHANGED todo
          ELSE /\ todo' = [todo EXCEPT ![q] = @ \ {w}]
               /\ UNCHANGED <<pc, req>>
    BY <1>8 DEF PurgeRead
  <2>3. CASE d \in Listed(w)
    <3>1. /\ req'[q].op = req[q].op /\ req'[q].class = d /\ pc'[q] = "purgeWrite" /\ todo' = todo
      BY <2>2, <2>3 DEF TypeOK, Request
    <3>2. Visiting(q, u, c) => Visiting(q, u, c)' BY <3>1 DEF Visiting
    <3> QED BY <2>1, <3>2, UnlistedCalm DEF Listed
  <2>4. CASE d \notin Listed(w)
    <3>1. todo'[q] = todo[q] \ {w} /\ UNCHANGED <<pc, req>> BY <2>2, <2>4 DEF TypeOK
    <3>2. CASE u = w /\ c = d BY <2>1, <2>4, <3>2 DEF Unlisted, Listed
    <3>3. CASE u # w \/ c # d
      <4>1. Visiting(q, u, c) => Visiting(q, u, c)' BY <3>1, <3>3 DEF Visiting
      <4> QED BY <2>1, <4>1, UnlistedCalm DEF Listed
    <3> QED BY <3>2, <3>3
  <2> QED BY <2>3, <2>4
<1>9. CASE PurgeWrite(q)
  <2>1. /\ req[q].op = "drop" /\ pc[q] = "purgeWrite" /\ UNCHANGED <<class, stray, orphaned, req>>
        /\ userClass' = [userClass EXCEPT ![v] = list[q]]
        /\ todo'[q] = todo[q] \ {v} /\ pc'[q] = "purgeCache"
        /\ clobbered' = IF list[q] = userClass[v] \ {d} THEN clobbered ELSE clobbered \union {v}
    BY <1>9 DEF PurgeWrite, Dropping, TypeOK
  <2>2. CASE u = v
    <3>1. list[q] # None /\ userClass[v] # None BY <1>q, <2>1, NoneFacts DEF HoldsRows, TypeOK
    <3>2. Listed(u)' = list[q] /\ Listed(u) = userClass[v] BY <2>1, <2>2, <3>1 DEF Listed, TypeOK
    <3>3. CASE list[q] # userClass[v] \ {d} BY <2>1, <2>2, <3>3 DEF Unlisted
    <3>4. CASE list[q] = userClass[v] \ {d}
      <4>1. CASE c = d BY <3>2, <3>4, <4>1 DEF Unlisted
      <4>2. CASE c # d
        <5>1. ~Visiting(q, u, c) BY <4>2 DEF Visiting
        <5> QED BY <2>1, <3>2, <3>4, <5>1, UnlistedCalm
      <4> QED BY <4>1, <4>2
    <3> QED BY <3>3, <3>4
  <2>3. CASE u # v
    <3>1. Listed(u)' = Listed(u) BY <2>1, <2>3 DEF Listed, TypeOK
    <3>2. Visiting(q, u, c) => Visiting(q, u, c)' BY <2>1, <2>3 DEF Visiting
    <3> QED BY <2>1, <3>1, <3>2, UnlistedCalm
  <2> QED BY <2>2, <2>3
<1>10. CASE PurgeSkip(q)
  <2>1. /\ req[q].op = "drop" /\ pc[q] \in {"purgeWrite", "purgeCache"} /\ UNCHANGED <<class, userClass, stray, clobbered, req>>
        /\ todo'[q] = todo[q] \ {v} /\ pc'[q] = "purge" /\ orphaned \subseteq orphaned'
        /\ pc[q] = "purgeWrite" => <<v, d>> \in orphaned'
    BY <1>10 DEF PurgeSkip, TypeOK
  <2>2. pc[q] = "purgeCache" => v \notin todo[q] BY <2>1 DEF Visited, Dropping
  <2>3. CASE u = v /\ c = d /\ pc[q] = "purgeWrite" BY <2>1, <2>3 DEF Unlisted
  <2>4. CASE ~(u = v /\ c = d /\ pc[q] = "purgeWrite")
    <3>1. Visiting(q, u, c) => Visiting(q, u, c)' BY <2>1, <2>2, <2>4 DEF Visiting
    <3> QED BY <2>1, <3>1, UnlistedCalm DEF Listed
  <2> QED BY <2>3, <2>4
<1>11. CASE DropFail(q)
  <2>1. /\ UNCHANGED <<class, userClass, stray, clobbered>> /\ orphaned' = orphaned \union (todo[q] \X {d})
    BY <1>11 DEF DropFail
  <2>2. CASE Visiting(q, u, c) BY <2>1, <2>2 DEF Visiting, Unlisted
  <2>3. CASE ~Visiting(q, u, c) BY <2>1, <2>3, UnlistedCalm DEF Listed
  <2> QED BY <2>2, <2>3
<1> QED
  BY <1>1, <1>2, <1>3, <1>4, <1>5, <1>6, <1>7, <1>8, <1>9, <1>10, <1>11
  DEF Serve, Fail, Reading, ChangeUser, AddMeeting, DeleteClass, Rolling

\* What the locks, the cache and the deleted classes' lists need to be kept.
RosterInv ==
  /\ LocksHaveHolders /\ Visited
  /\ \A c \in Classes : ClassCached(c)
  /\ \A u \in Users : ListCached(u)
  /\ \A u \in Users, c \in Classes : Unlisted(u, c)

LEMMA RosterInit == Init => RosterInv
<1> SUFFICES ASSUME Init PROVE RosterInv OBVIOUS
<1>1. LocksHaveHolders BY DEF Init, LocksHaveHolders
<1>2. Visited BY DEF Init, Visited, Dropping
<1>3. ASSUME NEW c \in Classes PROVE ClassCached(c) BY DEF Init, ClassCached
<1>4. ASSUME NEW u \in Users PROVE ListCached(u) BY DEF Init, ListCached
<1>5. ASSUME NEW u \in Users, NEW c \in Classes PROVE Unlisted(u, c)
  BY EmptyRowType, NoneFacts DEF Init, Unlisted
<1> QED BY <1>1, <1>2, <1>3, <1>4, <1>5 DEF RosterInv

LEMMA RosterStep ==
  ASSUME TypeOK, TransactionsHoldTheirRows, Agreement, RosterInv, [Next]_vars
  PROVE  RosterInv'
<1>1. CASE UNCHANGED vars
  BY <1>1 DEF vars, db, cache, locks, local, history, RosterInv, LocksHaveHolders, HoldsClass, HoldsList, Visited, Dropping,
    ClassCached, ListCached, Uncaching, Unlisting, Unlisted, Visiting, Listed
<1>2. ASSUME NEW q \in Procs, Call(q) \/ Serve(q) \/ Fail(q) PROVE RosterInv'
  <2>1. HoldsRows(q) BY DEF TransactionsHoldTheirRows
  <2>2. Frame(q) BY <1>2, <2>1, HoldsAction
  <2>3. LocksHaveHolders'
    <3>1. LocksOf(q) BY <1>2, LocksAction DEF RosterInv
    <3> QED BY <2>2, <3>1, LocksStep DEF RosterInv
  <2>4. Visited' BY <1>2, <2>2, VisitedStep DEF RosterInv
  <2>5. ASSUME NEW c \in Classes PROVE ClassCached(c)' BY <1>2, <2>2, ClassStep DEF RosterInv
  <2>6. ASSUME NEW u \in Users PROVE ListCached(u)' BY <1>2, <2>2, ListStep DEF RosterInv
  <2>7. ASSUME NEW u \in Users, NEW c \in Classes PROVE Unlisted(u, c)'
    BY <1>2, <2>2, UnlistedStep DEF RosterInv
  <2> QED BY <2>3, <2>4, <2>5, <2>6, <2>7 DEF RosterInv
<1> QED BY <1>1, <1>2 DEF Next

LEMMA RosterAlways == Spec => [](TypeOK /\ TransactionsHoldTheirRows /\ RosterInv)
<1> DEFINE I == TypeOK /\ TransactionsHoldTheirRows /\ Agreement /\ RosterInv
<1>1. Init => I BY TypeInit, HoldsInit, AgreementInit, RosterInit
<1>2. I /\ [Next]_vars => I' BY TypeStep, HoldsStep, AgreementStep, RosterStep
<1> QED BY <1>1, <1>2, PTL DEF Spec

\* DeleteClass reaches everybody it saw: a deleted class is in the list of a user only
\* while the visit is to come, or for the causes that are recorded, whatever calls and
\* failures come between its statements (class.go, DeleteClass).
THEOREM DeletedClassesAreUnlisted == Spec => []DeletedAreUnlisted
<1>1. TypeOK /\ RosterInv => DeletedAreUnlisted
  BY DEF RosterInv, Unlisted, Visiting, DeletedAreUnlisted, Listed, TypeOK
<1> QED BY <1>1, RosterAlways, PTL

\* The cache is written before the commit and follows the database all the same: outside
\* transactions the hash of a class and the list of a user are those of the rows, but for
\* the keys a rollback or a late fill wrote out of order (class_user.go, class.go).
THEOREM CachesFollow == Spec => []CacheFollowsDatabase
<1>1. RosterInv => CacheFollowsDatabase
  BY DEF RosterInv, ClassCached, ListCached, Uncaching, Unlisting, CacheFollowsDatabase
<1> QED BY <1>1, RosterAlways, PTL
=============================================================================
