------------------------------ MODULE Keepers ------------------------------
(***************************************************************************)
(* The students that each keeper of one class looks after (ClassService's  *)
(* ChangeKeeperStudentRelation, GetAssociatedStudentsForKeeper and         *)
(* RefreshKeeperList).  TABLE_KEEPER_CLASS has a row for each keeper that  *)
(* has had a student, a hash has a field for each, and the class has all   *)
(* of them in a text that is made of the hash, in its row and in its own   *)
(* hash.                                                                   *)
(***************************************************************************)
EXTENDS Handlers

CONSTANTS
  Keepers, Wards, \* the keepers, and the students of the class
  Charges         \* the rows that there are at first: [Keepers -> SUBSET Wards, or None]

VARIABLES
  keeperRow, keeperHash, \* by keeper: students, or None for no row or no field
  keeperText, textHash,  \* what the class's row and its hash say of each keeper
  estranged, \* history: keepers whose field was last written with what the row does not have
  mislaid    \* history: whether the text was written out of order with the fields, or not at all

keepers == <<keeperRow, keeperHash, keeperText, textHash, estranged, mislaid>>

KeeperOps == {"associate", "disassociate", "wards"}

\* The requests are about keepers of the class, and so are the rows.
ASSUME ChargesAreOfKeepers ==
  /\ Charges = [k \in Keepers |-> Charges[k]]
  /\ \A s \in DOMAIN Scenes : \A r \in Scenes[s].calls : r.op \in KeeperOps => r.keeper \in Keepers

\* Preload fills the fields; the cache may have lost them since.
KeepersInit ==
  /\ keeperRow = Charges /\ keeperText = Charges /\ textHash = Charges
  /\ \E lost \in IF \E r \in Calls : r.op \in KeeperOps THEN BOOLEAN ELSE {FALSE} :
       keeperHash = (IF lost THEN [k \in Keepers |-> None] ELSE Charges) /\ mislaid = lost
  /\ estranged = {}

Slip == [row |-> None, list |-> None, map |-> None]

onHttpAssociateKeeperWithStudent(p)    == Start(p, "associate", "keeperClass", Slip) /\ UNCHANGED keepers
onHttpDisassociateKeeperWithStudent(p) == Start(p, "disassociate", "keeperClass", Slip) /\ UNCHANGED keepers
\* A keeper sees the students it looks after.
onHttpClassQueryStudent(p)             == Start(p, "wards", "keeperClass", Slip) /\ UNCHANGED keepers

Changers == {"associate", "disassociate"}

\* p's transaction holds the row of the keeper, or the gap where it would be.
Held(p, k) == (At(p, "held", Changers) \/ At(p, "commitKeeper", Changers)) /\ req[p].keeper = k
Gap(p, k)  == At(p, "gap", Changers) /\ req[p].keeper = k
Unheld(k)  == \A q \in Procs : ~Held(q, k)

\* GetClass may refuse.
KeeperClass(p) ==
  /\ At(p, "keeperClass", KeeperOps) /\ (Return(p) \/ On(p, "keeperField"))
  /\ UNCHANGED keepers

-----------------------------------------------------------------------------
(* ChangeKeeperStudentRelation.  A field that is missing is an error.      *)

KeeperField(p) ==
  LET h == keeperHash[req[p].keeper] IN
  /\ At(p, "keeperField", Changers)
  /\ IF h # None /\ (req[p].op = "associate") = (req[p].ward \in h) THEN On(p, "fields") ELSE On(p, "lockKeeper")
  /\ UNCHANGED keepers

\* That no transaction can be started is no error.
NoTransaction(p) ==
  /\ CanFail /\ At(p, "lockKeeper", Changers) /\ On(p, "fields")
  /\ UNCHANGED keepers

\* Mutant: the SELECT has lost its FOR UPDATE.
LockKeeperNot(p) ==
  LET old == keeperRow[req[p].keeper]
      new == IF req[p].op = "associate" THEN old \union {req[p].ward} ELSE old \ {req[p].ward}
  IN
  /\ At(p, "lockKeeper", Changers)
  /\ IF old = None THEN On(p, "gap")
     ELSE With(p, IF new = old THEN "refield" ELSE "held", [Slip EXCEPT !.row = new, !.list = new])
  /\ UNCHANGED keepers

\* SELECT ... FOR UPDATE, and the UPDATE if the list changes, or a rollback.
LockKeeper(p) ==
  LET old == keeperRow[req[p].keeper]
      new == IF req[p].op = "associate" THEN old \union {req[p].ward} ELSE old \ {req[p].ward}
  IN
  /\ At(p, "lockKeeper", Changers) /\ Unheld(req[p].keeper)
  /\ IF old = None THEN On(p, "gap")
     ELSE With(p, IF new = old THEN "refield" ELSE "held", [Slip EXCEPT !.row = new, !.list = new])
  /\ UNCHANGED keepers

\* Without a row there is an INSERT of the student, also to disassociate it, and what
\* goes to the hash is still the empty list.
InsertKeeper(p) ==
  /\ At(p, "gap", Changers) /\ \A q \in Procs \ {p} : ~Gap(q, req[p].keeper)
  /\ With(p, "held", [Slip EXCEPT !.row = {req[p].ward}, !.list = {}])
  /\ UNCHANGED keepers

\* InnoDB rolls back one of two that hold the gap: the keys are not unique, and nothing
\* else keeps them from inserting a row each.
DeadlockedKeeper(p) ==
  /\ At(p, "gap", Changers) /\ \E q \in Procs \ {p} : Gap(q, req[p].keeper)
  /\ Return(p)
  /\ UNCHANGED keepers

SetKeeper(p, list, isTrue) ==
  LET k == req[p].keeper IN
  /\ keeperHash' = [keeperHash EXCEPT ![k] = list]
  /\ estranged'  = IF isTrue THEN estranged \ {k} ELSE estranged \union {k}

PutKeeper(p) ==
  /\ At(p, "held", Changers) /\ On(p, "commitKeeper")
  /\ SetKeeper(p, seen[p].list, seen[p].list = seen[p].row)
  /\ UNCHANGED <<keeperRow, keeperText, textHash, mislaid>>

CommitKeeper(p) ==
  /\ At(p, "commitKeeper", Changers) /\ On(p, "fields")
  /\ keeperRow' = [keeperRow EXCEPT ![req[p].keeper] = seen[p].row]
  /\ UNCHANGED <<keeperHash, keeperText, textHash, estranged, mislaid>>

\* What the row had before the rollback.
RefieldKeeper(p) ==
  LET k == req[p].keeper IN
  /\ At(p, "refield", Changers) /\ On(p, "fields")
  /\ SetKeeper(p, seen[p].list, seen[p].list = keeperRow[k] /\ Unheld(k))
  /\ UNCHANGED <<keeperRow, keeperText, textHash, mislaid>>

-----------------------------------------------------------------------------
(* GetAssociatedStudentsForKeeper, which fills the field of one keeper.    *)

WardsField(p) ==
  /\ At(p, "keeperField", {"wards"})
  /\ IF keeperHash[req[p].keeper] # None THEN Return(p) ELSE On(p, "wardsRow")
  /\ UNCHANGED keepers

WardsRow(p) ==
  LET r == keeperRow[req[p].keeper] IN
  /\ At(p, "wardsRow", {"wards"})
  /\ IF r = None THEN Return(p) ELSE With(p, "refieldWards", [Slip EXCEPT !.list = r])
  /\ UNCHANGED keepers

\* An error is ignored.
RefieldWards(p) ==
  LET k == req[p].keeper IN
  /\ At(p, "refieldWards", {"wards"}) /\ On(p, "fields")
  /\ \/ SetKeeper(p, seen[p].list, seen[p].list = keeperRow[k] /\ Unheld(k))
     \/ CanFail /\ UNCHANGED <<keeperHash, estranged>>
  /\ UNCHANGED <<keeperRow, keeperText, textHash, mislaid>>

-----------------------------------------------------------------------------
(* RefreshKeeperList.  A hash without fields is not an error: the table is *)
(* read only if the cache does not answer.                                 *)

GetFields(p) ==
  /\ At(p, "fields", KeeperOps)
  /\ \/ With(p, "text", [Slip EXCEPT !.map = keeperHash])
     \/ CanFail /\ With(p, "setFields", [Slip EXCEPT !.map = keeperRow])
  /\ UNCHANGED keepers

\* An error is ignored.
SetAllFields(p) ==
  LET m      == seen[p].map
      listed == {k \in Keepers : m[k] # None}
      wrong  == {k \in listed : m[k] # keeperRow[k] \/ ~Unheld(k)}
  IN
  /\ At(p, "setFields", KeeperOps) /\ On(p, "text")
  /\ \/ /\ keeperHash' = [k \in Keepers |-> IF k \in listed THEN m[k] ELSE keeperHash[k]]
        /\ estranged'  = (estranged \ listed) \union wrong
     \/ UNCHANGED <<keeperHash, estranged>>
  /\ UNCHANGED <<keeperRow, keeperText, textHash, mislaid>>

\* The fields are not what the handler read, or another is between reading them and
\* writing the text.
Overtaken(p) == seen[p].map # keeperHash \/ \E q \in Procs \ {p} : pc[q] \in {"setFields", "text", "textHash"}

UpdateText(p) ==
  /\ At(p, "text", KeeperOps) /\ On(p, "textHash")
  /\ keeperText' = seen[p].map
  /\ mislaid' = Overtaken(p)
  /\ UNCHANGED <<keeperRow, keeperHash, textHash, estranged>>

PutKeeperText(p) ==
  /\ At(p, "textHash", KeeperOps) /\ Return(p)
  /\ textHash' = seen[p].map
  /\ mislaid' = (mislaid \/ Overtaken(p))
  /\ UNCHANGED <<keeperRow, keeperHash, keeperText, estranged>>

\* A rollback does not undo what the hash was given.
KeeperFails(p) ==
  /\ CanFail /\ Busy(p) /\ req[p].op \in KeeperOps /\ Return(p)
  /\ estranged' = IF pc[p] = "commitKeeper" THEN estranged \union {req[p].keeper} ELSE estranged
  /\ mislaid'   = (mislaid \/ pc[p] \in {"commitKeeper", "fields", "setFields", "text", "textHash"})
  /\ UNCHANGED <<keeperRow, keeperHash, keeperText, textHash>>

KeepersStep(p) ==
  \/ onHttpAssociateKeeperWithStudent(p) \/ onHttpDisassociateKeeperWithStudent(p) \/ onHttpClassQueryStudent(p)
  \/ KeeperClass(p) \/ KeeperField(p) \/ NoTransaction(p) \/ LockKeeper(p)
  \/ InsertKeeper(p) \/ DeadlockedKeeper(p) \/ PutKeeper(p) \/ CommitKeeper(p) \/ RefieldKeeper(p)
  \/ WardsField(p) \/ WardsRow(p) \/ RefieldWards(p)
  \/ GetFields(p) \/ SetAllFields(p) \/ UpdateText(p) \/ PutKeeperText(p) \/ KeeperFails(p)

\* Once nobody is at it, the cache has of each keeper the students of its row, and the
\* class's row and hash have the text of what the cache has.  Rows change in transactions
\* and all else in commands of their own: it is different only where an INSERT left the
\* field empty, a rollback left it changed, or a field or the text was written from what
\* had been read before another change.
KeepersAgree ==
  (\A p \in Procs : Busy(p) => req[p].op \notin KeeperOps \/ pc[p] \in {"keeperClass", "keeperField"}) =>
    /\ \A k \in Keepers \ estranged : keeperHash[k] \in {None, keeperRow[k]}
    /\ ~mislaid => keeperText = keeperHash /\ textHash = keeperHash
=============================================================================
