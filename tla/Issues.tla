------------------------------- MODULE Issues -------------------------------
(***************************************************************************)
(* Questions that students ask in a meeting and teachers answer            *)
(* (IssueService).  An issue has a row in the table of its group, a hash,  *)
(* and is in the hash of the open ones of its class until it is answered   *)
(* and appended to the text of the finished ones.  They are those of one   *)
(* class, whose group has a table.  Change and Get do nothing.             *)
(***************************************************************************)
EXTENDS Handlers, Sequences

CONSTANTS
  Questions,  \* ids of issues, 1 to a number of them
  MaxFinished \* bound on what is appended

NoAnswer == ""

\* A reply is to an issue there may be, and brings an answer, which may be empty.
ASSUME RepliesAreAnswers ==
  /\ \A s \in DOMAIN Scenes : \A r \in Scenes[s].calls :
       r.op = "reply" => r.issue \in Questions /\ r.answer # None
  /\ NoAnswer # None

VARIABLES
  issueRow, issueHash,  \* by id: the answer, NoAnswer before there is one, or None
  open,       \* ids in the hash of the open issues
  finished,   \* what the text of the finished ones is made of: issues and answers
  muddled     \* history: issues that two answers or a failure met

issues == <<issueRow, issueHash, open, finished, muddled>>

IssuesInit ==
  /\ issueRow = [i \in Questions |-> None] /\ issueHash = issueRow
  /\ open = {} /\ finished = <<>> /\ muddled = {}

IssueOps == {"ask", "reply"}

\* The session is checked first, see OtherHandler of Accounts.  An empty answer is told
\* to be invalid, and then taken.
onHttpAddIssue(p)    == Start(p, "ask", "meeting", None) /\ UNCHANGED issues
onHttpAnswerIssue(p) == Start(p, "reply", "class", None) /\ UNCHANGED issues

\* The issue that p works on.
Issue(p) == IF req[p].op = "ask" THEN seen[p] ELSE req[p].issue

\* GetMeeting and GetClass may refuse.
AskedWhere(p) ==
  /\ At(p, "meeting", {"ask"}) /\ (Return(p) \/ On(p, "insertIssue"))
  /\ UNCHANGED issues

InsertIssue(p) ==
  /\ At(p, "insertIssue", {"ask"})
  /\ \E i \in Questions :
       /\ issueRow[i] = None /\ \A j \in Questions : j < i => issueRow[j] # None
       /\ issueRow' = [issueRow EXCEPT ![i] = NoAnswer] /\ With(p, "putIssue", i)
  /\ UNCHANGED <<issueHash, open, finished, muddled>>

PutIssue(p) ==
  /\ At(p, "putIssue", {"ask"}) /\ On(p, "openIssue")
  /\ issueHash' = [issueHash EXCEPT ![seen[p]] = NoAnswer]
  /\ UNCHANGED <<issueRow, open, finished, muddled>>

\* An error is ignored: then nobody can answer.
OpenIssue(p) ==
  /\ At(p, "openIssue", {"ask"}) /\ Return(p)
  /\ \/ open' = open \union {seen[p]} /\ UNCHANGED muddled
     \/ CanFail /\ muddled' = muddled \union {seen[p]} /\ UNCHANGED open
  /\ UNCHANGED <<issueRow, issueHash, finished>>

AnsweredWhere(p) ==
  /\ At(p, "class", {"reply"}) /\ (Return(p) \/ On(p, "isOpen"))
  /\ UNCHANGED issues

\* Another handler found the issue open, or deletes it, or updates its row.
Answering(p, i) ==
  \E q \in Procs \ {p} : /\ pc[q] \in {"getIssue", "putAnswer", "append", "close", "answerRow"}
                         /\ req[q].op = "reply" /\ req[q].issue = i

\* Mutant: whether the issue is still open is not asked.
IsOpenNot(p) ==
  LET i == req[p].issue IN
  /\ At(p, "isOpen", {"reply"})
  /\ On(p, "getIssue") /\ muddled' = IF Answering(p, i) THEN muddled \union {i} ELSE muddled
  /\ UNCHANGED <<issueRow, issueHash, open, finished>>

IsOpen(p) ==
  LET i == req[p].issue IN
  /\ At(p, "isOpen", {"reply"})
  /\ IF i \in open
     THEN On(p, "getIssue") /\ muddled' = IF Answering(p, i) THEN muddled \union {i} ELSE muddled
     ELSE Return(p) /\ UNCHANGED muddled
  /\ UNCHANGED <<issueRow, issueHash, open, finished>>

\* The hash, unless a field of it is missing.
NewIssueInfoFromMap(i) == issueHash[i]

GetIssue(p) ==
  /\ At(p, "getIssue", {"reply"})
  /\ IF NewIssueInfoFromMap(req[p].issue) = None THEN Return(p) ELSE On(p, "putAnswer")
  /\ UNCHANGED issues

\* Who answered, when and where from is put in fields that nobody reads.
PutAnswer(p) ==
  /\ At(p, "putAnswer", {"reply"}) /\ On(p, "append")
  /\ issueHash' = [issueHash EXCEPT ![req[p].issue] = req[p].answer]
  /\ UNCHANGED <<issueRow, open, finished, muddled>>

AppendFinished(p) ==
  /\ At(p, "append", {"reply"}) /\ On(p, "close") /\ Len(finished) < MaxFinished
  /\ finished' = Append(finished, [issue |-> req[p].issue, answer |-> req[p].answer])
  /\ UNCHANGED <<issueRow, issueHash, open, muddled>>

CloseIssue(p) ==
  /\ At(p, "close", {"reply"}) /\ On(p, "answerRow")
  /\ open' = open \ {req[p].issue}
  /\ UNCHANGED <<issueRow, issueHash, finished, muddled>>

AnswerRow(p) ==
  /\ At(p, "answerRow", {"reply"}) /\ Return(p)
  /\ issueRow' = [issueRow EXCEPT ![req[p].issue] = req[p].answer]
  /\ UNCHANGED <<issueHash, open, finished, muddled>>

\* Nothing is undone.
IssueFails(p) ==
  /\ CanFail /\ Busy(p) /\ req[p].op \in IssueOps /\ Return(p)
  /\ muddled' = IF pc[p] \in {"putIssue", "openIssue", "append", "close", "answerRow"}
                THEN muddled \union {Issue(p)} ELSE muddled
  /\ UNCHANGED <<issueRow, issueHash, open, finished>>

IssuesStep(p) ==
  \/ onHttpAddIssue(p) \/ onHttpAnswerIssue(p)
  \/ AskedWhere(p) \/ InsertIssue(p) \/ PutIssue(p) \/ OpenIssue(p)
  \/ AnsweredWhere(p) \/ IsOpen(p) \/ GetIssue(p) \/ PutAnswer(p) \/ AppendFinished(p)
  \/ CloseIssue(p) \/ AnswerRow(p) \/ IssueFails(p)

\* An issue is either open and without an answer, or finished once, with the answer that
\* its row and its hash have.  FieldExist and DelField are not one step: it is different
\* only for an issue that two handlers were answering at once, or where one failed
\* between the first change and the last, which no later answer repairs.
IssuesAreSettled ==
  \A i \in Questions :
    LET ends == {n \in 1..Len(finished) : finished[n].issue = i} IN
    (issueRow[i] # None /\ i \notin muddled
      /\ \A p \in Procs : ~(Busy(p) /\ req[p].op \in IssueOps /\ Issue(p) = i)) =>
        /\ issueHash[i] = issueRow[i]
        /\ IF i \in open
           THEN issueRow[i] = NoAnswer /\ ends = {}
           ELSE Cardinality(ends) = 1 /\ \A n \in ends : finished[n].answer = issueRow[i]
=============================================================================
