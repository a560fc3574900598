------------------------- MODULE MeetingResources -------------------------
(***************************************************************************)
(* The four resource lists of one meeting: coursewares, videos, exams and  *)
(* replays.  They share the meeting's row, its lock and its hash.          *)
(*                                                                         *)
(* AddPDF, AddVideo, AddExam, AddReplay and the four deletions look at the *)
(* list GetMeeting returned, then change the row's list in a transaction   *)
(* that writes the hash before it commits.  ArrangeResource reorders what  *)
(* GetMeeting returned and writes it with one UPDATE and no lock.          *)
(***************************************************************************)
EXTENDS Integers, Sequences, FiniteSets

CONSTANTS
  Kinds,    \* the lists of this instance
  Keys,     \* ids of resources
  Values,   \* name and flags of a resource
  Procs,    \* request handlers
  Scenes,   \* named sets of calls that come together
  MayFail,  \* whether a statement, a cache call or a handler may fail
  None

Item  == [key : Keys, value : Values]
Lists == [Kinds -> Seq(Item)]

ASSUME KindsAreLists  == Kinds # {} /\ Kinds \subseteq {"courseware", "video", "exam", "replay"}
ASSUME FlagIsFlag     == MayFail \in BOOLEAN
ASSUME NoneIsOther    == None \notin Lists \union Procs \union Values
ASSUME LeakedIsNoProc == "leaked" \notin Procs
ASSUME GoneIsNoValue  == "gone" \notin Values \union {None}

VARIABLES
  scene,    \* which of the sets of calls the clients make: always the same
  row,      \* the committed lists of the meeting's row
  holder,   \* the handler whose transaction holds the row, or "leaked"
  hash,     \* the lists in the hash, if NewMeetingInfoFromMap accepts it
  pc, req,
  seen,     \* the lists of the MeetingInfo that GetMeeting returned
  list,     \* the list a handler will commit or cache
  alone,    \* history: no call that conflicts has overlapped with p's
  answer,   \* history: what the last call on a resource answered
  taint,    \* history: the lists of the hash that were written out of order
  doubled   \* history: the resources that an arrangement named twice

local   == <<req, seen, list>>
history == <<alone, answer, taint, doubled>>
vars    == <<scene, row, holder, hash, pc, local, history>>

-----------------------------------------------------------------------------
(* The lists: "key:value,key:value".                                       *)

Has(s, k)    == \E i \in DOMAIN s : s[i].key = k
ItemOf(s, k) == s[CHOOSE i \in DOMAIN s : s[i].key = k]
Holds(s, it) == \E i \in DOMAIN s : s[i] = it

\* Mutant: the list is not searched for the key.
AddResourceBlindly(s, it) == Append(s, it)

AddResourceToMap(s, it) ==
  IF Has(s, it.key) THEN [i \in DOMAIN s |-> IF s[i].key = it.key THEN it ELSE s[i]]
  ELSE Append(s, it)

\* What s has at the places of S, in their order.
Picked(s, S) ==
  [n \in 1..Cardinality(S) |-> s[CHOOSE i \in S : Cardinality({j \in S : j <= i}) = n]]

DeleteFromMap(s, k) == Picked(s, {i \in DOMAIN s : s[i].key # k})

Arranged(s, order) ==
  LET keys == Picked(order, {i \in DOMAIN order : Has(s, order[i])})
  IN  [i \in DOMAIN keys |-> ItemOf(s, keys[i])]

Repeated(order) ==
  {order[i] : i \in {n \in DOMAIN order : \E m \in DOMAIN order : m # n /\ order[m] = order[n]}}

AnItem  == [key |-> CHOOSE k \in Keys : TRUE, value |-> CHOOSE v \in Values : TRUE]
AnyCall == [op |-> "delete", kind |-> CHOOSE k \in Kinds : TRUE,
            item |-> AnItem, order |-> <<>>]

\* A deletion has a key only; an arrangement has an order, in which a resource
\* may come twice or not at all, and replays have none.
Request ==
  {r \in [op : {"add", "delete", "arrange"}, kind : Kinds, item : Item, order : Seq(Keys)] :
     /\ r.op # "arrange" <=> r.order = <<>>
     /\ r.op = "arrange" => r.kind # "replay" /\ r.item = AnItem
     /\ r.op = "delete" \/ r.kind = "replay" => r.item.value = AnItem.value}

ASSUME ScenesAreCalls ==
  DOMAIN Scenes # {} /\ \A s \in DOMAIN Scenes : Scenes[s] # {} /\ Scenes[s] \subseteq Request

-----------------------------------------------------------------------------

NoLists == [k \in Kinds |-> <<>>]

Init ==
  /\ scene \in DOMAIN Scenes
  /\ row = NoLists /\ holder = None /\ hash \in {None, NoLists}
  /\ pc   = [p \in Procs |-> "idle"]   /\ req  = [p \in Procs |-> AnyCall]
  /\ seen = [p \in Procs |-> NoLists]  /\ list = [p \in Procs |-> <<>>]
  /\ alone = [p \in Procs |-> FALSE]   /\ taint = {} /\ doubled = {}
  /\ answer = [k \in Kinds |-> [r \in Keys |-> None]]

Goto(p, label) == pc' = [pc EXCEPT ![p] = label]

Return(p) ==
  /\ Goto(p, "idle")
  /\ req'  = [req EXCEPT ![p] = AnyCall]   /\ seen' = [seen EXCEPT ![p] = NoLists]
  /\ list' = [list EXCEPT ![p] = <<>>]     /\ alone' = [alone EXCEPT ![p] = FALSE]

Fail(p)   == Return(p) /\ UNCHANGED answer

\* A nil error: the resource is there with this value, or is not there.
Succeed(p) ==
  LET r == req[p] IN
  /\ Return(p)
  /\ answer' = IF alone[p] /\ r.op # "arrange"
               THEN [answer EXCEPT ![r.kind][r.item.key] =
                       IF r.op = "add" THEN r.item.value ELSE "gone"]
               ELSE answer

SetField(kind, s) == hash' = IF hash = None THEN None ELSE [hash EXCEPT ![kind] = s]

\* Kinds whose list a transaction is about to change.
Changing == IF holder \in Procs THEN {req[holder].kind} ELSE {}

At(p, label, op) == pc[p] = label /\ req[p].op = op

-----------------------------------------------------------------------------
(* A call starts; GetMeeting.                                              *)

Conflict(r, s) ==
  r.kind = s.kind /\ (r.op = "arrange" \/ s.op = "arrange" \/ r.item.key = s.item.key)

Call(p) ==
  /\ pc[p] = "idle" /\ Goto(p, "get")
  /\ \E r \in Scenes[scene] :
       LET rivals == {q \in Procs : pc[q] # "idle" /\ Conflict(r, req[q])}
           named  == IF r.op = "arrange" THEN {r.order[i] : i \in DOMAIN r.order} ELSE {}
           kept   == IF r.op = "arrange" THEN named ELSE Keys \ {r.item.key}
       IN
       /\ req'    = [req EXCEPT ![p] = r]
       /\ alone'  = [q \in Procs |-> IF q = p THEN rivals = {} ELSE alone[q] /\ q \notin rivals]
       /\ answer' = [answer EXCEPT ![r.kind] = [k \in Keys |-> IF k \in kept THEN @[k] ELSE None]]
  /\ UNCHANGED <<scene, row, holder, hash, seen, list, taint, doubled>>

\* An answer taken from a list of the hash that is out of order promises nothing.
GetMeetingHit(p) ==
  LET r == req[p] IN
  /\ pc[p] = "get" /\ hash # None /\ Goto(p, "do")
  /\ seen'  = [seen EXCEPT ![p] = hash]
  /\ alone' = [alone EXCEPT ![p] = @ /\ r.kind \notin taint]
  /\ answer' = IF r.op = "arrange" /\ r.kind \in taint
               THEN [answer EXCEPT ![r.kind] = [k \in Keys |-> None]] ELSE answer
  /\ UNCHANGED <<scene, row, holder, hash, req, list, taint, doubled>>

GetMeetingMiss(p) ==
  /\ pc[p] = "get" /\ hash = None /\ Goto(p, "fill")
  /\ seen' = [seen EXCEPT ![p] = row]
  /\ UNCHANGED <<scene, row, holder, hash, req, list, history>>

GetMeetingFill(p) ==
  /\ pc[p] = "fill" /\ Goto(p, "do")
  /\ hash'  = seen[p]
  /\ taint' = {k \in Kinds : seen[p][k] # row[k]} \union Changing
  /\ UNCHANGED <<scene, row, holder, local, alone, answer, doubled>>

\* No authority.
Refuse(p) ==
  /\ pc[p] = "do" /\ Fail(p)
  /\ UNCHANGED <<scene, row, holder, hash, taint, doubled>>

-----------------------------------------------------------------------------
(* AddPDF, AddVideo, AddExam, AddReplay.                                   *)

AlreadyThere(p) ==
  /\ At(p, "do", "add") /\ Holds(seen[p][req[p].kind], req[p].item) /\ Succeed(p)
  /\ UNCHANGED <<scene, row, holder, hash, taint, doubled>>

NotYetThere(p) ==
  /\ At(p, "do", "add") /\ ~Holds(seen[p][req[p].kind], req[p].item) /\ Goto(p, "lock")
  /\ UNCHANGED <<scene, row, holder, hash, local, history>>

\* The list was as wanted already: these roll back, the others write it again.
SkipsAdd    == {"courseware", "video"}
SkipsDelete == {"video", "exam"}

NewList(r, s) ==
  IF r.op = "add" THEN AddResourceToMap(s, r.item) ELSE DeleteFromMap(s, r.item.key)

Skips(r, s) ==
  /\ NewList(r, s) = s
  /\ r.kind \in (IF r.op = "add" THEN SkipsAdd ELSE SkipsDelete)

NoCourseware(r, s) == r.op = "delete" /\ r.kind = "courseware" /\ ~Has(s, r.item.key)

\* Mutant: the SELECT has lost its FOR UPDATE, so the list is the one read earlier.
ChangeUnlocked(p) ==
  LET r == req[p]  s == seen[p][r.kind]  new == NewList(r, s) IN
  /\ pc[p] = "lock" /\ holder = None /\ ~Skips(r, s) /\ ~NoCourseware(r, s)
  /\ Goto(p, "commit") /\ holder' = p
  /\ list' = [list EXCEPT ![p] = new]
  /\ SetField(r.kind, new)
  /\ taint' = IF hash = None THEN taint ELSE taint \ {r.kind}
  /\ UNCHANGED <<scene, row, req, seen, alone, answer, doubled>>

\* SELECT ... FOR UPDATE, UPDATE, and the new list in the hash.
Change(p) ==
  LET r == req[p]  s == row[r.kind]  new == NewList(r, s) IN
  /\ pc[p] = "lock" /\ holder = None /\ ~Skips(r, s) /\ ~NoCourseware(r, s)
  /\ Goto(p, "commit") /\ holder' = p
  /\ list' = [list EXCEPT ![p] = new]
  /\ SetField(r.kind, new)
  /\ taint' = IF hash = None THEN taint ELSE taint \ {r.kind}
  /\ UNCHANGED <<scene, row, req, seen, alone, answer, doubled>>

Commit(p) ==
  /\ pc[p] = "commit" /\ holder' = None /\ Succeed(p)
  /\ row' = [row EXCEPT ![req[p].kind] = list[p]]
  /\ UNCHANGED <<scene, hash, taint, doubled>>

\* Nothing to change: roll back, then write the list that was read to the hash.
Unchanged(p) ==
  LET r == req[p]  s == row[r.kind] IN
  /\ pc[p] = "lock" /\ holder = None /\ Skips(r, s) /\ Goto(p, "recache")
  /\ list' = [list EXCEPT ![p] = s]
  /\ UNCHANGED <<scene, row, holder, hash, req, seen, history>>

Recache(p) ==
  LET kind == req[p].kind IN
  /\ pc[p] = "recache" /\ Succeed(p)
  /\ SetField(kind, list[p])
  /\ taint' = IF hash = None THEN taint
              ELSE IF list[p] = row[kind] /\ kind \notin Changing THEN taint \ {kind}
              ELSE taint \union {kind}
  /\ UNCHANGED <<scene, row, holder, doubled>>

-----------------------------------------------------------------------------
(* DeleteCourseware, DeleteVideo, DeleteExam, DeleteReplay.                *)

\* ERR_NO_COURSEWARE; of another kind the deletion is done.
NotThere(p) ==
  /\ At(p, "do", "delete") /\ ~Has(seen[p][req[p].kind], req[p].item.key)
  /\ IF req[p].kind = "courseware" THEN Fail(p) ELSE Succeed(p)
  /\ UNCHANGED <<scene, row, holder, hash, taint, doubled>>

StillThere(p) ==
  /\ At(p, "do", "delete") /\ Has(seen[p][req[p].kind], req[p].item.key) /\ Goto(p, "lock")
  /\ UNCHANGED <<scene, row, holder, hash, local, history>>

\* The row does not have it: ERR_NO_COURSEWARE after a rollback.
GoneMeanwhile(p) ==
  /\ pc[p] = "lock" /\ holder = None /\ NoCourseware(req[p], row[req[p].kind]) /\ Fail(p)
  /\ UNCHANGED <<scene, row, holder, hash, taint, doubled>>

-----------------------------------------------------------------------------
(* ArrangeResource.                                                        *)

\* One UPDATE, which waits for the row, with the list GetMeeting returned.  A
\* resource the order names twice is listed twice.
ArrangeRow(p) ==
  LET kind == req[p].kind  new == Arranged(seen[p][kind], req[p].order) IN
  /\ At(p, "do", "arrange") /\ holder = None /\ Goto(p, "arranged")
  /\ row'  = [row EXCEPT ![kind] = new]
  /\ list' = [list EXCEPT ![p] = new]
  /\ doubled' = doubled \union ({kind} \X Repeated(req[p].order))
  /\ UNCHANGED <<scene, holder, hash, req, seen, alone, answer, taint>>

\* Mutant: the new order is not written to the hash.
ArrangeForgets(p) ==
  /\ pc[p] = "arranged" /\ Succeed(p)
  /\ UNCHANGED <<scene, row, holder, hash, taint, doubled>>

ArrangeCache(p) ==
  LET kind == req[p].kind IN
  /\ pc[p] = "arranged" /\ Succeed(p)
  /\ SetField(kind, list[p])
  /\ taint' = IF hash = None THEN taint
              ELSE IF list[p] = row[kind] /\ kind \notin Changing THEN taint \ {kind}
              ELSE taint \union {kind}
  /\ UNCHANGED <<scene, row, holder, doubled>>

-----------------------------------------------------------------------------
(* Failures.                                                               *)

\* The calls that return a cache error without a rollback: the transaction
\* keeps its connection, and the row.
Leaky == {"video", "exam"}

\* SetFields failed, whether the hash got the list or not.
CacheError(p) ==
  LET r == req[p]  s == row[r.kind]  new == NewList(r, s) IN
  /\ MayFail /\ pc[p] = "lock" /\ holder = None /\ ~Skips(r, s) /\ ~NoCourseware(r, s)
  /\ Fail(p)
  /\ holder' = IF r.kind \in Leaky THEN "leaked" ELSE None
  /\ \/ UNCHANGED <<scene, hash, taint>>
     \/ SetField(r.kind, new) /\ taint' = taint \union {r.kind}
  /\ UNCHANGED <<scene, row, doubled>>

CommitFails(p) ==
  /\ MayFail /\ pc[p] = "commit" /\ holder' = None /\ Fail(p)
  /\ taint' = taint \union {req[p].kind}
  /\ UNCHANGED <<scene, row, hash, doubled>>

\* innodb_lock_wait_timeout: an error of the SELECT or of ArrangeResource's UPDATE.
LockWaitTimeout(p) ==
  /\ holder = "leaked" /\ (pc[p] = "lock" \/ At(p, "do", "arrange")) /\ Fail(p)
  /\ UNCHANGED <<scene, row, holder, hash, taint, doubled>>

\* The server closes the connection of the leaked transaction.
ConnectionCloses ==
  /\ holder = "leaked" /\ holder' = None
  /\ UNCHANGED <<scene, row, hash, pc, local, history>>

\* A call outside a transaction fails, or its handler dies.
Abandon(p) ==
  /\ MayFail /\ pc[p] \in {"get", "fill", "do", "lock", "recache", "arranged"} /\ Fail(p)
  /\ taint' = IF pc[p] = "arranged" THEN taint \union {req[p].kind} ELSE taint
  /\ UNCHANGED <<scene, row, holder, hash, doubled>>

-----------------------------------------------------------------------------

GetMeeting(p) == GetMeetingHit(p) \/ GetMeetingMiss(p) \/ GetMeetingFill(p) \/ Refuse(p)
AddResource(p) == AlreadyThere(p) \/ NotYetThere(p)
DeleteResource(p) == NotThere(p) \/ StillThere(p) \/ GoneMeanwhile(p)
Transaction(p) == Change(p) \/ Commit(p) \/ Unchanged(p) \/ Recache(p)
ArrangeResource(p) == ArrangeRow(p) \/ ArrangeCache(p)
Failure(p) == CacheError(p) \/ CommitFails(p) \/ LockWaitTimeout(p) \/ Abandon(p)

Next ==
  \/ \E p \in Procs :
       \/ Call(p) \/ GetMeeting(p) \/ AddResource(p) \/ DeleteResource(p)
       \/ Transaction(p) \/ ArrangeResource(p) \/ Failure(p)
  \/ ConnectionCloses

Spec == Init /\ [][Next]_vars

-----------------------------------------------------------------------------
(* Properties                                                              *)

\* A resource is never listed twice, in the row or in the hash, although the
\* check for it is made on a list that others may have changed since; only an
\* arrangement that names a resource twice lists it twice.
ListedOnce ==
  \A k \in Kinds :
    LET Distinct(s) ==
          \A i, j \in DOMAIN s : s[i].key = s[j].key /\ <<k, s[i].key>> \notin doubled => i = j
    IN  Distinct(row[k]) /\ (hash # None => Distinct(hash[k]))

\* What the last call on a resource answered stays true of the row until the
\* next call on it starts: a call on another resource of the same list, and
\* an arrangement that names the resource, lose nothing and bring nothing
\* back.  Answers to calls that overlapped, or that were given from a hash
\* written out of order, are not covered.
AnswersHold ==
  \A kind \in Kinds, k \in Keys :
    LET a == answer[kind][k] IN
    /\ a \in Values  => Holds(row[kind], [key |-> k, value |-> a])
    /\ a = "gone" => ~Has(row[kind], k)

\* A list in the hash is the row's, or the one a transaction will commit, or
\* an arrangement is about to write it, unless it was written out of order.
CacheFollowsDatabase ==
  hash # None => \A k \in Kinds \ taint :
    \/ hash[k] = row[k]
    \/ k \in Changing /\ hash[k] = list[holder]
    \/ \E p \in Procs : pc[p] = "arranged" /\ req[p].kind = k

=============================================================================
