------------------------------- MODULE Exams -------------------------------
(***************************************************************************)
(* Exams imported from the Gd server (ExamService).  An exam has a row     *)
(* with the Gd exam it was made of and the right answers, the same in a    *)
(* hash, and an encrypted paper in the object store, which students get.   *)
(* The Gd server revises its exams without notice; an exam is imported     *)
(* anew when somebody asks for it.  Students' answers are in               *)
(* StudentProgress, the lists of the meetings in MeetingResources.         *)
(***************************************************************************)
EXTENDS Handlers

CONSTANTS
  Exams,   \* ids, 1 to a number of them
  GdExams  \* exams of the Gd server

VARIABLES
  revision,  \* of each Gd exam
  examRow, examHash, \* the Gd exam, and the answers: of which revision, or None
  paper,     \* the Gd exam and its revision that was uploaded, or None
  items,     \* the Gd exam and its revision that the cached ids of questions are of, or None
  crossed    \* history: exams that two handlers or a failure met

exams == <<revision, examRow, examHash, paper, items, crossed>>

\* Every other revision changes the wording and no answer.
Answers(edition) == [gd |-> edition.gd, answers |-> <<edition.gd, (edition.rev + 1) \div 2>>]
Edition(g)       == [gd |-> g, rev |-> revision[g]]

ExamsInit ==
  /\ revision = [g \in GdExams |-> 0]
  /\ examRow = [e \in Exams |-> None] /\ examHash = examRow
  /\ paper = [e \in Exams |-> None] /\ items = [e \in Exams |-> None]
  /\ crossed = {}

GdRevises ==
  /\ UNCHANGED <<scene, local, examRow, examHash, paper, items, crossed>>
  /\ \E g \in GdExams :
       revision[g] < Scenes[scene].revisions /\ revision' = [revision EXCEPT ![g] = @ + 1]

ExamOps == {"import", "reimport", "resyncExam", "look", "item"}

\* Of which exam and of which of the Gd server's a request is.
ASSUME RequestsOfExams ==
  /\ \A s \in DOMAIN Scenes : \A r \in Scenes[s].calls :
       /\ r.op \in ExamOps \ {"import"}     => r.exam \in Exams
       /\ r.op \in {"import", "reimport"}   => r.gd \in GdExams
  /\ None \notin Exams
  /\ None \notin [gd : GdExams, rev : Nat] /\ None \notin [gd : GdExams, answers : GdExams \X Nat]

\* What a handler keeps: the exam it works on, its row, and what the Gd server gave.
Blank == [exam |-> None, row |-> None, edition |-> None]

Ask(p, op, label) == Start(p, op, label, Blank) /\ UNCHANGED exams

\* The session is checked first, see OtherHandler of Accounts, and the meeting.  To add an
\* exam to a meeting imports it, or imports it anew, or looks it up.
onHttpAddExamToMeeting(p) == Ask(p, "import", "fetch") \/ Ask(p, "reimport", "fetch")
onHttpResyncExam(p)       == Ask(p, "resyncExam", "select")
onHttpAuthorizeExam(p)    == Ask(p, "look", "select")
\* Of an issue, see Issues.
onHttpGetIssueResource(p) == Ask(p, "item", "item")

Exam(p) == IF req[p].op = "import" THEN seen[p].exam ELSE req[p].exam

\* p is to write the exam's paper by what it got from the Gd server.
Imports(p, e) == /\ Busy(p) /\ req[p].op \in ExamOps /\ req[p].op # "item" /\ Exam(p) = e
                 /\ seen[p].edition # None

-----------------------------------------------------------------------------
(* GetExam: what is in the cache is put there anew each time.              *)

SelectExam(p) ==
  LET r == examRow[Exam(p)] IN
  /\ At(p, "select", ExamOps)
  /\ IF r = None THEN Return(p) ELSE With(p, "fill", [seen[p] EXCEPT !.row = r])
  /\ UNCHANGED exams

\* Mutant: only the numbers of questions are compared.
FillExamCounted(p) ==
  /\ At(p, "fill", ExamOps) /\ examHash' = [examHash EXCEPT ![Exam(p)] = seen[p].row]
  /\ IF req[p].op = "look" THEN Return(p)
     ELSE IF seen[p].edition = None THEN On(p, "fetch") ELSE On(p, "upload")
  /\ UNCHANGED <<revision, examRow, paper, items, crossed>>

\* ImportGdExam compares what it has with what the Gd server gave.
FillExam(p) ==
  /\ At(p, "fill", ExamOps) /\ examHash' = [examHash EXCEPT ![Exam(p)] = seen[p].row]
  /\ IF req[p].op = "look" THEN Return(p)
     ELSE IF seen[p].edition = None THEN On(p, "fetch")
     ELSE IF seen[p].row.answers = Answers(seen[p].edition).answers THEN On(p, "upload") ELSE On(p, "update")
  /\ UNCHANGED <<revision, examRow, paper, items, crossed>>

-----------------------------------------------------------------------------
(* Import.  The key of an exam that is imported anew stays.                *)

FetchExam(p) ==
  LET g == IF req[p].op = "resyncExam" THEN seen[p].row.gd ELSE req[p].gd IN
  /\ At(p, "fetch", ExamOps)
  /\ With(p, IF req[p].op = "import" THEN "insert" ELSE "select", [seen[p] EXCEPT !.edition = Edition(g)])
  /\ crossed' = IF \E q \in Procs \ {p} : req[p].op # "import" /\ Imports(q, Exam(p))
                THEN crossed \union {Exam(p)} ELSE crossed
  /\ UNCHANGED <<revision, examRow, examHash, paper, items>>

InsertExam(p) ==
  /\ At(p, "insert", {"import"})
  /\ \E e \in Exams :
       /\ examRow[e] = None /\ \A f \in Exams : f < e => examRow[f] # None
       /\ examRow' = [examRow EXCEPT ![e] = Answers(seen[p].edition)]
       /\ With(p, "put", [seen[p] EXCEPT !.exam = e])
       /\ crossed' = IF \E q \in Procs \ {p} : Imports(q, e) THEN crossed \union {e} ELSE crossed
  /\ UNCHANGED <<revision, examHash, paper, items>>

PutExam(p) ==
  /\ At(p, "put", {"import"}) /\ On(p, "upload")
  /\ examHash' = [examHash EXCEPT ![seen[p].exam] = Answers(seen[p].edition)]
  /\ UNCHANGED <<revision, examRow, paper, items, crossed>>

\* Another is about to fill the hash with the row as it was.
Filling(p, e) == \E q \in Procs \ {p} : At(q, "fill", ExamOps) /\ Exam(q) = e

\* The Gd exam that the row names stays.  The error of the UPDATE is ignored.
UpdateExam(p) ==
  LET e == Exam(p) IN
  /\ At(p, "update", ExamOps)
  /\ \/ /\ On(p, "updateHash")
        /\ examRow' = [examRow EXCEPT ![e].answers = Answers(seen[p].edition).answers]
        /\ crossed' = IF Filling(p, e) THEN crossed \union {e} ELSE crossed
     \/ CanFail /\ On(p, "upload") /\ crossed' = crossed \union {e} /\ UNCHANGED examRow
  /\ UNCHANGED <<revision, examHash, paper, items>>

\* So is that of the cache.
UpdateExamHash(p) ==
  LET e == Exam(p) IN
  /\ At(p, "updateHash", ExamOps) /\ On(p, "upload")
  /\ \/ /\ examHash' = [examHash EXCEPT ![e].answers = Answers(seen[p].edition).answers]
        /\ crossed' = IF Filling(p, e) THEN crossed \union {e} ELSE crossed
     \/ CanFail /\ crossed' = crossed \union {e} /\ UNCHANGED examHash
  /\ UNCHANGED <<revision, examRow, paper, items>>

UploadExam(p) ==
  /\ At(p, "upload", ExamOps) /\ Return(p)
  /\ paper' = [paper EXCEPT ![Exam(p)] = seen[p].edition]
  /\ UNCHANGED <<revision, examRow, examHash, items, crossed>>

-----------------------------------------------------------------------------
(* GetGdQuestionID: what is cached stays, whatever the exam becomes.       *)

FindItem(p) ==
  LET e == Exam(p) IN
  /\ At(p, "item", {"item"})
  /\ IF items[e] # None \/ examRow[e] = None
     THEN Return(p)
     ELSE With(p, "putItems", [seen[p] EXCEPT !.edition = Edition(examRow[e].gd)])
  /\ UNCHANGED exams

PutItems(p) ==
  /\ At(p, "putItems", {"item"}) /\ Return(p)
  /\ items' = [items EXCEPT ![Exam(p)] = seen[p].edition]
  /\ UNCHANGED <<revision, examRow, examHash, paper, crossed>>

-----------------------------------------------------------------------------

\* The database, the cache, the Gd server or the object store.
ExamFails(p) ==
  /\ CanFail /\ Busy(p) /\ req[p].op \in ExamOps /\ Return(p)
  /\ crossed' = IF pc[p] \in {"put", "updateHash", "upload"} THEN crossed \union {Exam(p)} ELSE crossed
  /\ UNCHANGED <<revision, examRow, examHash, paper, items>>

ExamsStep(p) ==
  \/ onHttpAddExamToMeeting(p) \/ onHttpResyncExam(p) \/ onHttpAuthorizeExam(p) \/ onHttpGetIssueResource(p)
  \/ SelectExam(p) \/ FillExam(p) \/ FetchExam(p) \/ InsertExam(p) \/ PutExam(p)
  \/ UpdateExam(p) \/ UpdateExamHash(p) \/ UploadExam(p) \/ FindItem(p) \/ PutItems(p) \/ ExamFails(p)

\* What is graded is what students were given: the right answers in the row and in the
\* hash are those of the paper that was uploaded, whatever the Gd server revised, and an
\* issue points at the questions of the paper as long as nothing was revised.  Two that
\* import the same exam at once, a look that fills the hash with the row as it was, or a
\* failure halfway make them differ.
PapersMatchAnswers ==
  \A e \in Exams \ crossed :
    (paper[e] # None /\ \A p \in Procs : ~Imports(p, e)) =>
      /\ examHash[e] = examRow[e]
      /\ examRow[e].answers = Answers(paper[e]).answers
      /\ (items[e] # None /\ paper[e].gd = examRow[e].gd /\ revision[paper[e].gd] = 0) => items[e] = paper[e]
=============================================================================
