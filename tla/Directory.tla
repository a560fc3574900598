----------------------------- MODULE Directory -----------------------------
(***************************************************************************)
(* The catalogues of the back office: groups (GroupService), tags of the   *)
(* meetings of a group (TagService) and subjects (SubjectService).  Each   *)
(* has a row and a field of a hash for each entry; of the hash, groups and *)
(* tags have a text, which is what is shown.  A group has a list of        *)
(* subjects, in a row, and the text of it in the cache.                    *)
(* The tags are those of one group.                                        *)
(***************************************************************************)
EXTENDS Handlers

CONSTANTS Entries   \* ids, 1 to a number of them, of each catalogue

Catalogues == {"group", "tag", "subject"}

VARIABLES
  rows,      \* by catalogue and id: the name, or None; of groups, the committed rows
  hash,      \* the same, of the hash
  text,      \* by catalogue: the hash that the text was made of, or None
  given,     \* how many ids were handed out
  lists,     \* by group: the subjects of its row, or None
  listText,  \* by group: the subjects in the text of its list, or None
  wanted,    \* history: the subjects each group was given and was not deprived of
  blurred    \* history: entries, texts (number 0) and lists that two handlers or a failure met

catalogues == <<rows, hash, text, given>>
groupLists == <<lists, listText, wanted>>
directory  == <<catalogues, groupLists, blurred>>

\* A group and a subject, loaded by Preload, and no tags.
FirstEntry(k) == [i \in Entries |-> IF i = 1 /\ k # "tag" THEN "old" ELSE None]

DirectoryInit ==
  /\ rows = [k \in Catalogues |-> FirstEntry(k)] /\ hash = rows
  /\ text = [k \in Catalogues |-> None]
  /\ given = [k \in Catalogues |-> IF k = "tag" THEN 0 ELSE 1]
  /\ lists = [g \in Entries |-> None] /\ listText = [g \in Entries |-> None]
  /\ wanted = [g \in Entries |-> {}] /\ blurred = {}

\* What a handler keeps: the id it got, a catalogue and the entries left to write, a list.
Unread == [id |-> None, names |-> None, left |-> {}, list |-> None]

Keep(p, label, field, value) == With(p, label, [seen[p] EXCEPT ![field] = value])

\* The session is checked first, see OtherHandler of Accounts.
Browse(p, op, label) == Start(p, op, label, Unread) /\ UNCHANGED directory

onHttpAddGroup(p)    == Browse(p, "addGroup", "names")
onHttpDeleteGroup(p) == Browse(p, "dropGroup", "count")
onHttpAddTag(p)      == Browse(p, "addTag", "insert")
onHttpAddSubject(p)  == Browse(p, "addSubject", "insert")
onHttpChangeTag(p)     == Browse(p, "changeTag", "update")
onHttpChangeSubject(p) == Browse(p, "changeSubject", "update")
onHttpQueryGroup(p)   == Browse(p, "groups", "query")
onHttpQueryTag(p)     == Browse(p, "tags", "query")
onHttpQuerySubject(p) == Browse(p, "subjects", "query")
\* To add a subject to a group or to delete it.
onHttpAddSubjectToGroup(p)     == Browse(p, "list", "readList")
onHttpQuerySubjectForGroup(p)  == Browse(p, "listing", "shown")

Adds      == {"addGroup", "addTag", "addSubject"}
Changes   == {"changeTag", "changeSubject"}
Queries   == {"groups", "tags", "subjects"}
ListOps   == {"list", "listing"}
Writers   == Adds \union Changes \union {"dropGroup"}
DirectoryOps == Writers \union Queries \union ListOps

CatalogueOf(p) ==
  CASE req[p].op \in {"addGroup", "dropGroup", "groups"}      -> "group"
    [] req[p].op \in {"addTag", "changeTag", "tags"}          -> "tag"
    [] req[p].op \in {"addSubject", "changeSubject", "subjects"} -> "subject"

\* What the requests are about: one of the entries, a name, a group and a subject.
ASSUME RequestsOfEntries ==
  /\ \A s \in DOMAIN Scenes : \A r \in Scenes[s].calls :
       /\ r.op \in Adds \union Changes => r.name # None
       /\ r.op \in ListOps => r.group \in Entries
       /\ r.op = "list"     => r.subject \in Entries
  /\ 1 \in Entries /\ None # "old" /\ \A l \in SUBSET Entries : l # None

\* The entry that p works on.
EntryOf(p) == IF req[p].op \in Adds THEN seen[p].id ELSE req[p].id

-----------------------------------------------------------------------------
(* What p has half done.                                                   *)

\* Entries of which p wrote the row or the field, and is about to write the other.
Half(p) ==
  CASE At(p, "commit", Adds) \/ At(p, "field", Adds \union Changes)
         \/ (pc[p] \in {"unset", "dropped"} /\ req[p].op = "dropGroup") -> {<<CatalogueOf(p), EntryOf(p)>>}
    [] At(p, "fields", Queries) -> {<<CatalogueOf(p), i>> : i \in seen[p].left}
    [] OTHER -> {}

\* p read what it is going to make a text of.
Reads(p, k) == pc[p] \in {"fields", "putText"} /\ req[p].op \in DirectoryOps /\ CatalogueOf(p) = k

\* p's row or field of entry i is written.
Blur(p, k, i) ==
  blurred' = blurred
    \union {e \in {<<k, i>>} : \E q \in Procs \ {p} : e \in Half(q)}
    \union {e \in {<<k, 0>>} : \E q \in Procs \ {p} : Reads(q, k)}

-----------------------------------------------------------------------------
(* Groups.  The INSERT and the DELETE are in transactions: the row is seen *)
(* when it is committed, after the hash has it.                            *)

CheckNames(p) ==
  /\ At(p, "names", {"addGroup"})
  /\ IF \E i \in Entries : hash["group"][i] = req[p].name THEN Return(p) ELSE On(p, "insert")
  /\ UNCHANGED directory

\* AddGroup locks all rows and the end of the table, DeleteGroup locks one row.
InTransaction(q) ==
  /\ Busy(q) /\ req[q].op \in {"addGroup", "dropGroup"}
  /\ pc[q] \in {"field", "commit", "unlist", "unset", "dropped"}

\* Mutant: that the name is not in the cache is enough.
InsertGroupUnseen(p) ==
  /\ At(p, "insert", {"addGroup"}) /\ given["group"] < Scenes[scene].entries
  /\ Keep(p, "field", "id", given["group"] + 1) /\ given' = [given EXCEPT !["group"] = @ + 1]
  /\ UNCHANGED <<rows, hash, text, groupLists, blurred>>

InsertGroup(p) ==
  /\ At(p, "insert", {"addGroup"}) /\ \A q \in Procs : ~InTransaction(q)
  /\ IF \E i \in Entries : rows["group"][i] = req[p].name
     THEN Return(p) /\ UNCHANGED given
     ELSE /\ given["group"] < Scenes[scene].entries
          /\ Keep(p, "field", "id", given["group"] + 1) /\ given' = [given EXCEPT !["group"] = @ + 1]
  /\ UNCHANGED <<rows, hash, text, groupLists, blurred>>

CommitGroup(p) ==
  /\ At(p, "commit", {"addGroup"}) /\ On(p, "text")
  /\ rows' = [rows EXCEPT !["group"][seen[p].id] = req[p].name] /\ Blur(p, "group", seen[p].id)
  /\ UNCHANGED <<hash, text, given, groupLists>>

\* A group that has classes stays: one may be added after they are counted.
CountClasses(p) ==
  /\ At(p, "count", {"dropGroup"}) /\ (Return(p) \/ On(p, "delete"))
  /\ UNCHANGED directory

DeleteGroupRow(p) ==
  /\ At(p, "delete", {"dropGroup"}) /\ On(p, "unlist")
  /\ \A q \in Procs : InTransaction(q) => req[q].op = "dropGroup" /\ req[q].id # req[p].id
  /\ UNCHANGED directory

DeleteGroupField(p) ==
  /\ At(p, "unlist", {"dropGroup"}) /\ On(p, "unset")
  /\ hash' = [hash EXCEPT !["group"][req[p].id] = None] /\ Blur(p, "group", req[p].id)
  /\ UNCHANGED <<rows, text, given, groupLists>>

DeleteGroupHash(p) ==
  /\ At(p, "unset", {"dropGroup"}) /\ On(p, "dropped")
  /\ listText' = [listText EXCEPT ![req[p].id] = None]
  /\ UNCHANGED <<catalogues, lists, wanted, blurred>>

CommitDelete(p) ==
  /\ At(p, "dropped", {"dropGroup"}) /\ On(p, "text")
  /\ rows' = [rows EXCEPT !["group"][req[p].id] = None] /\ Blur(p, "group", req[p].id)
  /\ UNCHANGED <<hash, text, given, groupLists>>

-----------------------------------------------------------------------------
(* Tags and subjects, and what the three have in common.                   *)

InsertRow(p) ==
  LET k == CatalogueOf(p)
      i == given[k] + 1
  IN
  /\ At(p, "insert", {"addTag", "addSubject"}) /\ given[k] < Scenes[scene].entries
  /\ Keep(p, "field", "id", i) /\ given' = [given EXCEPT ![k] = i]
  /\ rows' = [rows EXCEPT ![k][i] = req[p].name] /\ Blur(p, k, i)
  /\ UNCHANGED <<hash, text, groupLists>>

\* There may be no such row, or it is another group's.
UpdateRow(p) ==
  LET k == CatalogueOf(p)
      i == req[p].id
  IN
  /\ At(p, "update", Changes) /\ On(p, "field")
  /\ IF rows[k][i] = None
     THEN blurred' = blurred \union {<<k, i>>, <<k, 0>>} /\ UNCHANGED rows
     ELSE rows' = [rows EXCEPT ![k][i] = req[p].name] /\ Blur(p, k, i)
  /\ UNCHANGED <<hash, text, given, groupLists>>

SetEntry(p) ==
  LET k == CatalogueOf(p) IN
  /\ At(p, "field", Adds \union Changes)
  /\ hash' = [hash EXCEPT ![k][EntryOf(p)] = req[p].name] /\ Blur(p, k, EntryOf(p))
  /\ CASE k = "group"   -> On(p, "commit")
       [] k = "tag"     -> On(p, "text")
       [] k = "subject" -> Return(p)
  /\ UNCHANGED <<rows, text, given, groupLists>>

\* SetCachedQuery and refreshCache.
ReadHash(p) ==
  /\ At(p, "text", Writers) /\ Keep(p, "putText", "names", hash[CatalogueOf(p)])
  /\ UNCHANGED directory

PutText(p) ==
  /\ At(p, "putText", Writers \union Queries) /\ Return(p)
  /\ text' = [text EXCEPT ![CatalogueOf(p)] = seen[p].names]
  /\ UNCHANGED <<rows, hash, given, groupLists, blurred>>

\* Of subjects the hash is shown, of the others the text.
QueryHit(p) ==
  /\ At(p, "query", Queries) /\ (CatalogueOf(p) = "subject" \/ text[CatalogueOf(p)] # None) /\ Return(p)
  /\ UNCHANGED directory

\* QueryGroup's SELECT takes the ids above the reserved ones: entries stand for those.
QueryRows(p) ==
  LET k    == CatalogueOf(p)
      left == {i \in Entries : rows[k][i] # None}
  IN
  /\ At(p, "query", Queries) /\ (CanFail \/ (k # "subject" /\ text[k] = None))
  /\ IF k = "group" \/ left = {}
     THEN Keep(p, "putText", "names", rows[k])
     ELSE With(p, "fields", [Unread EXCEPT !.names = rows[k], !.left = left])
  /\ UNCHANGED directory

SetRow(p) ==
  LET k == CatalogueOf(p) IN
  /\ At(p, "fields", Queries)
  /\ \E i \in seen[p].left :
       /\ hash' = [hash EXCEPT ![k][i] = seen[p].names[i]] /\ Blur(p, k, i)
       /\ IF seen[p].left # {i} THEN Keep(p, "fields", "left", seen[p].left \ {i})
          ELSE IF k = "tag" THEN On(p, "putText") ELSE Return(p)
  /\ UNCHANGED <<rows, text, given, groupLists>>

-----------------------------------------------------------------------------
(* The subjects of a group.                                                *)

Changed(r, l) == IF r.add THEN l \union {r.subject} ELSE l \ {r.subject}

\* Neither the group nor the subject is looked up.
ReadList(p) ==
  LET r == req[p]
      l == lists[r.group]
  IN
  /\ At(p, "readList", {"list"})
  /\ IF (IF l = None THEN ~r.add ELSE Changed(r, l) = l)
     THEN Return(p)
     ELSE With(p, IF l = None THEN "insertList" ELSE "writeList",
               [Unread EXCEPT !.list = Changed(r, IF l = None THEN {} ELSE l)])
  /\ UNCHANGED directory

\* Of two INSERTs of a group the second fails.
WriteList(p) ==
  LET g == req[p].group IN
  /\ pc[p] \in {"insertList", "writeList"}
  /\ IF pc[p] = "insertList" /\ lists[g] # None
     THEN Return(p) /\ UNCHANGED <<lists, wanted, blurred>>
     ELSE /\ On(p, "reload") /\ lists' = [lists EXCEPT ![g] = seen[p].list]
          /\ wanted' = [wanted EXCEPT ![g] = Changed(req[p], @)]
          /\ blurred' = IF \E q \in Procs \ {p} : pc[q] \in {"insertList", "writeList", "putList"} /\ req[q].group = g
                        THEN blurred \union {<<"list", g>>} ELSE blurred
  /\ UNCHANGED <<catalogues, listText>>

GetSubjectList(p) ==
  /\ At(p, "shown", {"listing"})
  /\ (listText[req[p].group] # None /\ Return(p)) \/ (listText[req[p].group] = None /\ On(p, "reload"))
  /\ UNCHANGED directory

ReadListRow(p) ==
  LET l == lists[req[p].group] IN
  /\ At(p, "reload", ListOps)
  /\ IF l = None THEN Return(p) ELSE Keep(p, "putList", "list", l)
  /\ UNCHANGED directory

\* Without the name of one of the subjects there is no text of the list.
PutList(p) ==
  LET g == req[p].group IN
  /\ At(p, "putList", ListOps) /\ Return(p)
  /\ IF \E i \in seen[p].list : hash["subject"][i] = None
     THEN blurred' = blurred \union {<<"list", g>>} /\ UNCHANGED listText
     ELSE listText' = [listText EXCEPT ![g] = seen[p].list] /\ UNCHANGED blurred
  /\ UNCHANGED <<catalogues, lists, wanted>>

-----------------------------------------------------------------------------

\* A failure rolls the transaction back, and leaves the cache as it is.
DirectoryFails(p) ==
  /\ CanFail /\ Busy(p) /\ req[p].op \in DirectoryOps /\ Return(p)
  /\ blurred' = blurred \union Half(p)
       \union (IF pc[p] \in {"commit", "unset", "dropped", "text", "fields", "putText"}
               THEN {<<CatalogueOf(p), 0>>} ELSE {})
       \union (IF pc[p] \in {"reload", "putList"} THEN {<<"list", req[p].group>>} ELSE {})
  /\ UNCHANGED <<catalogues, groupLists>>

DirectoryStep(p) ==
  \/ onHttpAddGroup(p) \/ onHttpDeleteGroup(p) \/ onHttpAddTag(p) \/ onHttpAddSubject(p)
  \/ onHttpChangeTag(p) \/ onHttpChangeSubject(p)
  \/ onHttpQueryGroup(p) \/ onHttpQueryTag(p) \/ onHttpQuerySubject(p)
  \/ onHttpAddSubjectToGroup(p) \/ onHttpQuerySubjectForGroup(p)
  \/ CheckNames(p) \/ InsertGroup(p) \/ CommitGroup(p)
  \/ CountClasses(p) \/ DeleteGroupRow(p) \/ DeleteGroupField(p) \/ DeleteGroupHash(p) \/ CommitDelete(p)
  \/ InsertRow(p) \/ UpdateRow(p) \/ SetEntry(p) \/ ReadHash(p) \/ PutText(p)
  \/ QueryHit(p) \/ QueryRows(p) \/ SetRow(p)
  \/ ReadList(p) \/ WriteList(p) \/ GetSubjectList(p) \/ ReadListRow(p) \/ PutList(p)
  \/ DirectoryFails(p)

\* p changed the hash of k and the text is to follow, or the list of a group.
Renews(p, k)     == /\ pc[p] \in {"commit", "unset", "dropped", "text", "putText", "fields"}
                    /\ req[p].op \in Writers \union Queries /\ CatalogueOf(p) = k
Reloads(p, g)    == pc[p] \in {"reload", "putList"} /\ req[p].op \in ListOps /\ req[p].group = g

\* The copies of a catalogue agree: the hash has what the rows have, the text what the
\* hash has, the text of a group's subjects what its row has, and the row what was asked
\* for, whichever handlers ran.  Only where one wrote between the read and the write of
\* another, or failed between its two writes, or changed a tag there is none of, or a
\* subject is unknown, may they differ.  The names of groups differ in any case.
CataloguesAgree ==
  /\ \A k \in Catalogues, i \in Entries :
       hash[k][i] = rows[k][i] \/ <<k, i>> \in blurred \/ \E p \in Procs : <<k, i>> \in Half(p)
  /\ \A k \in Catalogues :
       text[k] \in {None, hash[k]} \/ <<k, 0>> \in blurred \/ \E p \in Procs : Renews(p, k)
  /\ \A g \in Entries : <<"list", g>> \notin blurred =>
       /\ IF lists[g] = None THEN wanted[g] = {} ELSE wanted[g] = lists[g]
       /\ listText[g] \in {None, lists[g]} \/ \E p \in Procs : Reloads(p, g)
  /\ \A i, j \in Entries : rows["group"][i] # None /\ rows["group"][i] = rows["group"][j] => i = j
=============================================================================
