--------------------------- MODULE BackOffice_proofs ---------------------------
(* Theorems about BackOffice, for any requests, contents and handlers. *)
EXTENDS BackOffice, FiniteSetTheorems, TLAPS

(***************************************************************************)
(* What every proof needs: a step is one of one handler, that works on one *)
(* part of the back office, and leaves the handlers of the others alone.   *)
(***************************************************************************)

\* Every handler has a place, a request and what it read.
Locals ==
  /\ scene \in DOMAIN Scenes
  /\ pc = [p \in Procs |-> pc[p]] /\ req = [p \in Procs |-> req[p]] /\ seen = [p \in Procs |-> seen[p]]

\* A step of p's.
Handled(p) ==
  /\ pc' = [q \in Procs |-> pc'[q]] /\ req' = [q \in Procs |-> req'[q]] /\ seen' = [q \in Procs |-> seen'[q]]
  /\ \A q \in Procs \ {p} : pc'[q] = pc[q] /\ req'[q] = req[q] /\ seen'[q] = seen[q]

LEMMA Handling ==
  ASSUME Locals, NEW p \in Procs
  PROVE  /\ Return(p) => Handled(p) /\ pc'[p] = "idle" /\ req'[p] = None /\ seen'[p] = None
         /\ \A l : On(p, l) => Handled(p) /\ pc'[p] = l /\ req'[p] = req[p] /\ seen'[p] = seen[p]
         /\ \A l, v : With(p, l, v) => Handled(p) /\ pc'[p] = l /\ req'[p] = req[p] /\ seen'[p] = v
         /\ \A op, l, v : Start(p, op, l, v) =>
              /\ Handled(p) /\ pc[p] = "idle" /\ pc'[p] = l /\ seen'[p] = v
              /\ req'[p] \in Calls /\ req'[p].op = op
<1>1. \A l : Goto(p, l) => /\ pc' = [q \in Procs |-> pc'[q]] /\ pc'[p] = l /\ \A q \in Procs \ {p} : pc'[q] = pc[q]
  BY DEF Goto, Locals
<1>2. \A v : seen' = [seen EXCEPT ![p] = v] =>
        seen' = [q \in Procs |-> seen'[q]] /\ seen'[p] = v /\ \A q \in Procs \ {p} : seen'[q] = seen[q]
  BY DEF Locals
<1>3. \A v : req' = [req EXCEPT ![p] = v] =>
        req' = [q \in Procs |-> req'[q]] /\ req'[p] = v /\ \A q \in Procs \ {p} : req'[q] = req[q]
  BY DEF Locals
<1>4. Return(p) => Handled(p) /\ pc'[p] = "idle" /\ req'[p] = None /\ seen'[p] = None
  BY <1>1, <1>2, <1>3 DEF Return, Handled
<1>5. ASSUME NEW l, On(p, l) PROVE Handled(p) /\ pc'[p] = l /\ req'[p] = req[p] /\ seen'[p] = seen[p]
  BY <1>1, <1>5 DEF On, Handled, Locals
<1>6. ASSUME NEW l, NEW v, With(p, l, v) PROVE Handled(p) /\ pc'[p] = l /\ req'[p] = req[p] /\ seen'[p] = v
  BY <1>1, <1>2, <1>6 DEF With, Handled, Locals
<1>7. ASSUME NEW op, NEW l, NEW v, Start(p, op, l, v)
      PROVE  /\ Handled(p) /\ pc[p] = "idle" /\ pc'[p] = l /\ seen'[p] = v
             /\ req'[p] \in Calls /\ req'[p].op = op
  <2> PICK r \in Calls : r.op = op /\ req' = [req EXCEPT ![p] = r] BY <1>7 DEF Start
  <2>1. Goto(p, l) /\ seen' = [seen EXCEPT ![p] = v] /\ pc[p] = "idle" BY <1>7 DEF Start, Idle, Busy
  <2> QED BY <1>1, <1>2, <1>3, <2>1 DEF Handled
<1> QED BY <1>4, <1>5, <1>6, <1>7

LEMMA Sending ==
  ASSUME Locals, NEW p \in Procs, NEW ops, Send(p, ops)
  PROVE  Handled(p) /\ pc[p] = "idle" /\ req'[p] \in Calls /\ req'[p].op \in ops
<1> PICK r \in Calls :
      /\ r.op \in ops /\ held[r.client] # None
      /\ req' = [req EXCEPT ![p] = r]
      /\ seen' = [seen EXCEPT ![p] =
                    [Nobody EXCEPT !.user = held[r.client].user, !.token = held[r.client].token]]
  BY DEF Send
<1>1. pc' = [pc EXCEPT ![p] = "check"] /\ pc[p] = "idle" BY DEF Send, Goto, Idle, Busy
<1> HIDE DEF Nobody
<1> QED BY <1>1 DEF Locals, Handled

FrontOps == UserOps \union Visits \union {"generate", "tokens"}

\* p works on a part with its request, if it works on one.
Stays(p, ops) == Handled(p) /\ (pc'[p] = "idle" \/ req'[p].op \in ops)

LEMMA AccountsMove == ASSUME Locals, NEW p \in Procs, May(p, UserOps \union Visits), AccountsStep(p) PROVE Stays(p, FrontOps)
<1> USE Handling, Sending DEF May, Busy, At, Stays, FrontOps
<1>1. CASE onHttpRegister(p) BY <1>1 DEF onHttpRegister, Come, UserOps, Logins, Open, Sessioned
<1>2. CASE onHttpLogin(p) BY <1>2 DEF onHttpLogin, Come, UserOps, Logins, Open, Sessioned
<1>3. CASE onHttpLoginAsGdUser(p) BY <1>3 DEF onHttpLoginAsGdUser, Come, UserOps, Logins, Open, Sessioned
<1>4. CASE onHttpLoginAsGdStudent(p) BY <1>4 DEF onHttpLoginAsGdStudent, Come, UserOps, Logins, Open, Sessioned
<1>5. CASE onHttpChangePassword(p) BY <1>5 DEF onHttpChangePassword, Come, UserOps, Logins, Open, Sessioned
<1>6. CASE onHttpChangeProfile(p) BY <1>6 DEF onHttpChangeProfile, Come, UserOps, Logins, Open, Sessioned
<1>7. CASE onHttpResyncGdStudentName(p) BY <1>7 DEF onHttpResyncGdStudentName, Come, UserOps, Logins, Open, Sessioned
<1>8. CASE onHttpGenerateInvitationToken(p) BY <1>8 DEF onHttpGenerateInvitationToken, Come, UserOps, Logins, Open, Sessioned
<1>9. CASE onHttpDeleteInvitationToken(p) BY <1>9 DEF onHttpDeleteInvitationToken, Come, UserOps, Logins, Open, Sessioned
<1>10. CASE onHttpClassAddGdStudent(p) BY <1>10 DEF onHttpClassAddGdStudent, Come, UserOps, Logins, Open, Sessioned
<1>11. CASE onHttpClassRemarkStudent(p) BY <1>11 DEF onHttpClassRemarkStudent, Come, UserOps, Logins, Open, Sessioned
<1>12. CASE OtherHandler(p) BY <1>12 DEF OtherHandler, Come, UserOps, Logins, Open, Sessioned
<1>13. CASE GetHttpSession(p) BY <1>13 DEF GetHttpSession
<1>14. CASE UpdateHttpSession(p) BY <1>14 DEF UpdateHttpSession
<1>15. CASE SetHttpSession(p) BY <1>15 DEF SetHttpSession
<1>16. CASE Answer(p) BY <1>16 DEF Answer
<1>17. CASE LoseAnswer(p) BY <1>17 DEF LoseAnswer
<1>18. CASE LoginIndex(p) BY <1>18 DEF LoginIndex
<1>19. CASE LoginHash(p) BY <1>19 DEF LoginHash
<1>20. CASE LoginGd(p) BY <1>20 DEF LoginGd
<1>21. CASE StudentHit(p) BY <1>21 DEF StudentHit, Found, Finish
<1>22. CASE StudentRow(p) BY <1>22 DEF StudentRow
<1>23. CASE StudentFill(p) BY <1>23 DEF StudentFill, Found, Finish
<1>24. CASE StudentNone(p) BY <1>24 DEF StudentNone
<1>25. CASE AddStudent(p) BY <1>25 DEF AddStudent
<1>26. CASE AddStudentIndex(p) BY <1>26 DEF AddStudentIndex
<1>27. CASE AddStudentHash(p) BY <1>27 DEF AddStudentHash, Found, Finish
<1>28. CASE GenerateInvitationToken(p) BY <1>28 DEF GenerateInvitationToken
<1>29. CASE DeleteInvitationToken(p) BY <1>29 DEF DeleteInvitationToken
<1>30. CASE CheckName(p) BY <1>30 DEF CheckName
<1>31. CASE GetInvitation(p) BY <1>31 DEF GetInvitation
<1>32. CASE UseInvitationToken(p) BY <1>32 DEF UseInvitationToken
<1>33. CASE AddUser(p) BY <1>33 DEF AddUser
<1>34. CASE AddUserIndex(p) BY <1>34 DEF AddUserIndex
<1>35. CASE AddUserHash(p) BY <1>35 DEF AddUserHash
<1>36. CASE CheckOldPassword(p) BY <1>36 DEF CheckOldPassword
<1>37. CASE ChangePasswordCache(p) BY <1>37 DEF ChangePasswordCache
<1>38. CASE ChangePasswordRow(p) BY <1>38 DEF ChangePasswordRow
<1>39. CASE ChangeProfileCache(p) BY <1>39 DEF ChangeProfileCache
<1>40. CASE ChangeProfileRow(p) BY <1>40 DEF ChangeProfileRow
<1>41. CASE UpdateSessionNickname(p) BY <1>41 DEF UpdateSessionNickname
<1>42. CASE QueryGdStudentID(p) BY <1>42 DEF QueryGdStudentID
<1>43. CASE CheckMember(p) BY <1>43 DEF CheckMember
<1>44. CASE RemarkRow(p) BY <1>44 DEF RemarkRow
<1>45. CASE RemarkHash(p) BY <1>45 DEF RemarkHash, Finish
<1>46. CASE AccountFails(p)
  <2>1. May(p, UserOps) /\ Busy(p) BY <1>46 DEF AccountFails
  <2>2. With(p, "gd", Nobody) \/ On(p, "answer") \/ Return(p) BY <1>46, Zenon DEF AccountFails
  <2> QED BY <2>1, <2>2
<1> QED BY <1>1, <1>2, <1>3, <1>4, <1>5, <1>6, <1>7, <1>8, <1>9, <1>10, <1>11, <1>12, <1>13, <1>14, <1>15, <1>16, <1>17, <1>18, <1>19, <1>20, <1>21, <1>22, <1>23, <1>24, <1>25, <1>26, <1>27, <1>28, <1>29, <1>30, <1>31, <1>32, <1>33, <1>34, <1>35, <1>36, <1>37, <1>38, <1>39, <1>40, <1>41, <1>42, <1>43, <1>44, <1>45, <1>46 DEF AccountsStep

LEMMA ExperienceMove == ASSUME Locals, NEW p \in Procs, May(p, Visits \union {"generate", "tokens"}), ExperienceStep(p) PROVE Stays(p, FrontOps)
<1> USE Handling, Sending DEF May, Busy, At, Stays, FrontOps
<1>1. CASE onHttpGenerateClassInvitationToken(p) BY <1>1 DEF onHttpGenerateClassInvitationToken, Arrive, Come, FrontOps, Visits
<1>2. CASE onHttpQueryClassInvitationToken(p) BY <1>2 DEF onHttpQueryClassInvitationToken, Arrive, Come, FrontOps, Visits
<1>3. CASE onHttpExperienceRegister(p) BY <1>3 DEF onHttpExperienceRegister, Arrive, Come, FrontOps, Visits
<1>4. CASE onHttpExperienceLogin(p) BY <1>4 DEF onHttpExperienceLogin, Arrive, Come, FrontOps, Visits
<1>5. CASE GenerateInvitation(p) BY <1>5 DEF GenerateInvitation
<1>6. CASE QueryInvitations(p) BY <1>6 DEF QueryInvitations
<1>7. CASE DeleteExpired(p) BY <1>7 DEF DeleteExpired
<1>8. CASE GetOffer(p) BY <1>8 DEF GetOffer
<1>9. CASE DropOffer(p) BY <1>9 DEF DropOffer
<1>10. CASE TakeOffer(p) BY <1>10 DEF TakeOffer
<1>11. CASE GetPhone(p) BY <1>11 DEF GetPhone
<1>12. CASE NewGuest(p) BY <1>12 DEF NewGuest
<1>13. CASE SetPhone(p) BY <1>13 DEF SetPhone
<1>14. CASE BuildInfo(p) BY <1>14 DEF BuildInfo
<1>15. CASE Authorize(p) BY <1>15 DEF Authorize
<1>16. CASE LogExists(p) BY <1>16 DEF LogExists
<1>17. CASE LogFirst(p) BY <1>17 DEF LogFirst
<1>18. CASE LogNext(p) BY <1>18 DEF LogNext
<1>19. CASE CheckAuthority(p) BY <1>19 DEF CheckAuthority
<1>20. CASE StampLogin(p) BY <1>20 DEF StampLogin
<1>21. CASE CountLogin(p) BY <1>21 DEF CountLogin
<1>22. CASE VisitFails(p) BY <1>22 DEF VisitFails
<1> QED BY <1>1, <1>2, <1>3, <1>4, <1>5, <1>6, <1>7, <1>8, <1>9, <1>10, <1>11, <1>12, <1>13, <1>14, <1>15, <1>16, <1>17, <1>18, <1>19, <1>20, <1>21, <1>22 DEF ExperienceStep

LEMMA DirectoryMove == ASSUME Locals, NEW p \in Procs, May(p, DirectoryOps), DirectoryStep(p) PROVE Stays(p, DirectoryOps)
<1> USE Handling, Sending DEF May, Busy, At, Stays
<1>1. CASE onHttpAddGroup(p) BY <1>1 DEF onHttpAddGroup, Browse, DirectoryOps, Writers, Adds, Changes, Queries, ListOps
<1>2. CASE onHttpDeleteGroup(p) BY <1>2 DEF onHttpDeleteGroup, Browse, DirectoryOps, Writers, Adds, Changes, Queries, ListOps
<1>3. CASE onHttpAddTag(p) BY <1>3 DEF onHttpAddTag, Browse, DirectoryOps, Writers, Adds, Changes, Queries, ListOps
<1>4. CASE onHttpAddSubject(p) BY <1>4 DEF onHttpAddSubject, Browse, DirectoryOps, Writers, Adds, Changes, Queries, ListOps
<1>5. CASE onHttpChangeTag(p) BY <1>5 DEF onHttpChangeTag, Browse, DirectoryOps, Writers, Adds, Changes, Queries, ListOps
<1>6. CASE onHttpChangeSubject(p) BY <1>6 DEF onHttpChangeSubject, Browse, DirectoryOps, Writers, Adds, Changes, Queries, ListOps
<1>7. CASE onHttpQueryGroup(p) BY <1>7 DEF onHttpQueryGroup, Browse, DirectoryOps, Writers, Adds, Changes, Queries, ListOps
<1>8. CASE onHttpQueryTag(p) BY <1>8 DEF onHttpQueryTag, Browse, DirectoryOps, Writers, Adds, Changes, Queries, ListOps
<1>9. CASE onHttpQuerySubject(p) BY <1>9 DEF onHttpQuerySubject, Browse, DirectoryOps, Writers, Adds, Changes, Queries, ListOps
<1>10. CASE onHttpAddSubjectToGroup(p) BY <1>10 DEF onHttpAddSubjectToGroup, Browse, DirectoryOps, Writers, Adds, Changes, Queries, ListOps
<1>11. CASE onHttpQuerySubjectForGroup(p) BY <1>11 DEF onHttpQuerySubjectForGroup, Browse, DirectoryOps, Writers, Adds, Changes, Queries, ListOps
<1>12. CASE CheckNames(p) BY <1>12 DEF CheckNames
<1>13. CASE InsertGroup(p) BY <1>13 DEF InsertGroup, Keep
<1>14. CASE CommitGroup(p) BY <1>14 DEF CommitGroup
<1>15. CASE CountClasses(p) BY <1>15 DEF CountClasses
<1>16. CASE DeleteGroupRow(p) BY <1>16 DEF DeleteGroupRow
<1>17. CASE DeleteGroupField(p) BY <1>17 DEF DeleteGroupField
<1>18. CASE DeleteGroupHash(p) BY <1>18 DEF DeleteGroupHash
<1>19. CASE CommitDelete(p) BY <1>19 DEF CommitDelete
<1>20. CASE InsertRow(p) BY <1>20 DEF InsertRow, Keep
<1>21. CASE UpdateRow(p) BY <1>21 DEF UpdateRow
<1>22. CASE SetEntry(p)
  <2>1. CatalogueOf(p) \in {"group", "tag", "subject"} BY <1>22 DEF SetEntry, CatalogueOf, Adds, Changes
  <2>2. On(p, "commit") \/ On(p, "text") \/ Return(p)
    <3> DEFINE k == CatalogueOf(p)
    <3> HIDE DEF k
    <3>1. (CASE k = "group" -> On(p, "commit") [] k = "tag" -> On(p, "text") [] k = "subject" -> Return(p))
      BY <1>22 DEF SetEntry, k
    <3> QED BY <3>1, <2>1 DEF k
  <2> QED BY <1>22, <2>2 DEF SetEntry
<1>23. CASE ReadHash(p) BY <1>23 DEF ReadHash, Keep
<1>24. CASE PutText(p) BY <1>24 DEF PutText
<1>25. CASE QueryHit(p) BY <1>25 DEF QueryHit
<1>26. CASE QueryRows(p) BY <1>26 DEF QueryRows, Keep
<1>27. CASE SetRow(p) BY <1>27 DEF SetRow, Keep
<1>28. CASE ReadList(p) BY <1>28 DEF ReadList
<1>29. CASE WriteList(p) BY <1>29 DEF WriteList
<1>30. CASE GetSubjectList(p) BY <1>30 DEF GetSubjectList
<1>31. CASE ReadListRow(p) BY <1>31 DEF ReadListRow, Keep
<1>32. CASE PutList(p) BY <1>32 DEF PutList
<1>33. CASE DirectoryFails(p) BY <1>33 DEF DirectoryFails
<1> QED BY <1>1, <1>2, <1>3, <1>4, <1>5, <1>6, <1>7, <1>8, <1>9, <1>10, <1>11, <1>12, <1>13, <1>14, <1>15, <1>16, <1>17, <1>18, <1>19, <1>20, <1>21, <1>22, <1>23, <1>24, <1>25, <1>26, <1>27, <1>28, <1>29, <1>30, <1>31, <1>32, <1>33 DEF DirectoryStep

LEMMA IssuesMove == ASSUME Locals, NEW p \in Procs, May(p, IssueOps), IssuesStep(p) PROVE Stays(p, IssueOps)
<1> USE Handling, Sending DEF May, Busy, At, Stays
<1>1. CASE onHttpAddIssue(p) BY <1>1 DEF onHttpAddIssue, IssueOps
<1>2. CASE onHttpAnswerIssue(p) BY <1>2 DEF onHttpAnswerIssue, IssueOps
<1>3. CASE AskedWhere(p) BY <1>3 DEF AskedWhere
<1>4. CASE InsertIssue(p) BY <1>4 DEF InsertIssue
<1>5. CASE PutIssue(p) BY <1>5 DEF PutIssue
<1>6. CASE OpenIssue(p) BY <1>6 DEF OpenIssue
<1>7. CASE AnsweredWhere(p) BY <1>7 DEF AnsweredWhere
<1>8. CASE IsOpen(p) BY <1>8 DEF IsOpen
<1>9. CASE GetIssue(p) BY <1>9 DEF GetIssue
<1>10. CASE PutAnswer(p) BY <1>10 DEF PutAnswer
<1>11. CASE AppendFinished(p) BY <1>11 DEF AppendFinished
<1>12. CASE CloseIssue(p) BY <1>12 DEF CloseIssue
<1>13. CASE AnswerRow(p) BY <1>13 DEF AnswerRow
<1>14. CASE IssueFails(p) BY <1>14 DEF IssueFails
<1> QED BY <1>1, <1>2, <1>3, <1>4, <1>5, <1>6, <1>7, <1>8, <1>9, <1>10, <1>11, <1>12, <1>13, <1>14 DEF IssuesStep

LEMMA ExamsMove == ASSUME Locals, NEW p \in Procs, May(p, ExamOps), ExamsStep(p) PROVE Stays(p, ExamOps)
<1> USE Handling, Sending DEF May, Busy, At, Stays
<1>1. CASE onHttpAddExamToMeeting(p) BY <1>1 DEF onHttpAddExamToMeeting, Ask, ExamOps
<1>2. CASE onHttpResyncExam(p) BY <1>2 DEF onHttpResyncExam, Ask, ExamOps
<1>3. CASE onHttpAuthorizeExam(p) BY <1>3 DEF onHttpAuthorizeExam, Ask, ExamOps
<1>4. CASE onHttpGetIssueResource(p) BY <1>4 DEF onHttpGetIssueResource, Ask, ExamOps
<1>5. CASE SelectExam(p) BY <1>5 DEF SelectExam
<1>6. CASE FillExam(p) BY <1>6 DEF FillExam
<1>7. CASE FetchExam(p) BY <1>7 DEF FetchExam
<1>8. CASE InsertExam(p) BY <1>8 DEF InsertExam
<1>9. CASE PutExam(p) BY <1>9 DEF PutExam
<1>10. CASE UpdateExam(p) BY <1>10 DEF UpdateExam
<1>11. CASE UpdateExamHash(p) BY <1>11 DEF UpdateExamHash
<1>12. CASE UploadExam(p) BY <1>12 DEF UploadExam
<1>13. CASE FindItem(p) BY <1>13 DEF FindItem
<1>14. CASE PutItems(p) BY <1>14 DEF PutItems
<1>15. CASE ExamFails(p) BY <1>15 DEF ExamFails
<1> QED BY <1>1, <1>2, <1>3, <1>4, <1>5, <1>6, <1>7, <1>8, <1>9, <1>10, <1>11, <1>12, <1>13, <1>14, <1>15 DEF ExamsStep

LEMMA KeepersMove == ASSUME Locals, NEW p \in Procs, May(p, KeeperOps), KeepersStep(p) PROVE Stays(p, KeeperOps)
<1> USE Handling, Sending DEF May, Busy, At, Stays
<1>1. CASE onHttpAssociateKeeperWithStudent(p) BY <1>1 DEF onHttpAssociateKeeperWithStudent, KeeperOps
<1>2. CASE onHttpDisassociateKeeperWithStudent(p) BY <1>2 DEF onHttpDisassociateKeeperWithStudent, KeeperOps
<1>3. CASE onHttpClassQueryStudent(p) BY <1>3 DEF onHttpClassQueryStudent, KeeperOps
<1>4. CASE KeeperClass(p) BY <1>4 DEF KeeperClass
<1>5. CASE KeeperField(p) BY <1>5 DEF KeeperField
<1>6. CASE NoTransaction(p) BY <1>6 DEF NoTransaction
<1>7. CASE LockKeeper(p) BY <1>7 DEF LockKeeper
<1>8. CASE InsertKeeper(p) BY <1>8 DEF InsertKeeper
<1>9. CASE DeadlockedKeeper(p) BY <1>9 DEF DeadlockedKeeper
<1>10. CASE PutKeeper(p) BY <1>10 DEF PutKeeper
<1>11. CASE CommitKeeper(p) BY <1>11 DEF CommitKeeper
<1>12. CASE RefieldKeeper(p) BY <1>12 DEF RefieldKeeper
<1>13. CASE WardsField(p) BY <1>13 DEF WardsField
<1>14. CASE WardsRow(p) BY <1>14 DEF WardsRow
<1>15. CASE RefieldWards(p) BY <1>15 DEF RefieldWards
<1>16. CASE GetFields(p) BY <1>16 DEF GetFields
<1>17. CASE SetAllFields(p) BY <1>17 DEF SetAllFields
<1>18. CASE UpdateText(p) BY <1>18 DEF UpdateText
<1>19. CASE PutKeeperText(p) BY <1>19 DEF PutKeeperText
<1>20. CASE KeeperFails(p) BY <1>20 DEF KeeperFails
<1> QED BY <1>1, <1>2, <1>3, <1>4, <1>5, <1>6, <1>7, <1>8, <1>9, <1>10, <1>11, <1>12, <1>13, <1>14, <1>15, <1>16, <1>17, <1>18, <1>19, <1>20 DEF KeepersStep

\* Handlers that work on a part, and that no one else's step changes them.
Active(p, ops) == Busy(p) /\ req[p].op \in ops

Rests(ops) ==
  \A q \in Procs : /\ (Active(q, ops)' <=> Active(q, ops))
                   /\ Active(q, ops) => pc'[q] = pc[q] /\ req'[q] = req[q] /\ seen'[q] = seen[q]

LEMMA Elsewhere ==
  ASSUME Locals, NEW p \in Procs, NEW ops, NEW others, May(p, others), Stays(p, others), ops \cap others = {}
  PROVE  Rests(ops)
<1> SUFFICES ASSUME NEW q \in Procs
             PROVE  /\ (Active(q, ops)' <=> Active(q, ops))
                    /\ Active(q, ops) => pc'[q] = pc[q] /\ req'[q] = req[q] /\ seen'[q] = seen[q]
  BY DEF Rests
<1>1. CASE q # p
  <2>1. pc'[q] = pc[q] /\ req'[q] = req[q] /\ seen'[q] = seen[q] BY <1>1 DEF Stays, Handled
  <2> QED BY <2>1 DEF Active, Busy
<1>2. CASE q = p
  <2>1. ~Active(p, ops) BY DEF Active, May
  <2>2. ~Active(p, ops)' BY DEF Active, Stays, Busy
  <2> QED BY <1>2, <2>1, <2>2 DEF Active, Busy
<1> QED BY <1>1, <1>2

LEMMA Disjoint ==
  /\ FrontOps \cap DirectoryOps = {} /\ FrontOps \cap IssueOps = {} /\ FrontOps \cap ExamOps = {} /\ FrontOps \cap KeeperOps = {}
  /\ DirectoryOps \cap IssueOps = {} /\ DirectoryOps \cap ExamOps = {} /\ DirectoryOps \cap KeeperOps = {}
  /\ IssueOps \cap ExamOps = {} /\ IssueOps \cap KeeperOps = {} /\ ExamOps \cap KeeperOps = {}
BY DEF FrontOps, UserOps, Logins, Open, Sessioned, Visits, DirectoryOps, Writers, Adds, Changes, Queries, ListOps,
       IssueOps, ExamOps, KeeperOps

\* Every step, by the part that it is a step of.
LEMMA Frame ==
  ASSUME Locals, [Next]_vars
  PROVE  /\ Locals' /\ scene' = scene
         /\ \/ UNCHANGED <<accounts, visitors>> /\ Rests(FrontOps)
            \/ \E p \in Procs : May(p, UserOps \union Visits) /\ AccountsStep(p) /\ UNCHANGED visitors /\ Stays(p, FrontOps)
            \/ \E p \in Procs : May(p, Visits \union {"generate", "tokens"}) /\ ExperienceStep(p) /\ Stays(p, FrontOps)
            \/ Tick
         /\ \/ UNCHANGED directory /\ Rests(DirectoryOps)
            \/ \E p \in Procs : May(p, DirectoryOps) /\ DirectoryStep(p) /\ Stays(p, DirectoryOps)
         /\ \/ UNCHANGED issues /\ Rests(IssueOps)
            \/ \E p \in Procs : May(p, IssueOps) /\ IssuesStep(p) /\ Stays(p, IssueOps)
         /\ \/ UNCHANGED exams /\ Rests(ExamOps)
            \/ \E p \in Procs : May(p, ExamOps) /\ ExamsStep(p) /\ Stays(p, ExamOps)
            \/ GdRevises
         /\ \/ UNCHANGED keepers /\ Rests(KeeperOps)
            \/ \E p \in Procs : May(p, KeeperOps) /\ KeepersStep(p) /\ Stays(p, KeeperOps)
<1> DEFINE Front == \/ UNCHANGED <<accounts, visitors>> /\ Rests(FrontOps)
                    \/ \E p \in Procs : May(p, UserOps \union Visits) /\ AccountsStep(p) /\ UNCHANGED visitors /\ Stays(p, FrontOps)
                    \/ \E p \in Procs : May(p, Visits \union {"generate", "tokens"}) /\ ExperienceStep(p) /\ Stays(p, FrontOps)
                    \/ Tick
           Dir == \/ UNCHANGED directory /\ Rests(DirectoryOps)
                  \/ \E p \in Procs : May(p, DirectoryOps) /\ DirectoryStep(p) /\ Stays(p, DirectoryOps)
           Iss == \/ UNCHANGED issues /\ Rests(IssueOps)
                  \/ \E p \in Procs : May(p, IssueOps) /\ IssuesStep(p) /\ Stays(p, IssueOps)
           Exm == \/ UNCHANGED exams /\ Rests(ExamOps)
                  \/ \E p \in Procs : May(p, ExamOps) /\ ExamsStep(p) /\ Stays(p, ExamOps)
                  \/ GdRevises
           Kpr == \/ UNCHANGED keepers /\ Rests(KeeperOps)
                  \/ \E p \in Procs : May(p, KeeperOps) /\ KeepersStep(p) /\ Stays(p, KeeperOps)
<1>0. UNCHANGED local => \A ops : Rests(ops)
  BY DEF local, Rests, Active, Busy
<1>1. CASE UNCHANGED vars
  <2>1. UNCHANGED <<scene, local, accounts, visitors, directory, issues, exams, keepers>> BY <1>1 DEF vars
  <2> QED BY <1>0, <2>1 DEF Locals, local
<1>2. CASE Tick /\ UNCHANGED <<directory, issues, exams, keepers>>
  <2>1. UNCHANGED <<scene, local>> BY <1>2 DEF Tick
  <2> QED BY <1>0, <1>2, <2>1 DEF Locals, local
<1>3. CASE GdRevises /\ UNCHANGED <<accounts, visitors, directory, issues, keepers>>
  <2>1. UNCHANGED <<scene, local>> BY <1>3 DEF GdRevises
  <2> QED BY <1>0, <1>3, <2>1 DEF Locals, local
<1>4. CASE UNCHANGED scene /\ \E p \in Procs : Step(p)
  <2> PICK p \in Procs : Step(p) BY <1>4
  <2>0. \A ops, others : (May(p, others) /\ Stays(p, others) /\ ops \cap others = {}) => Rests(ops)
    BY Elsewhere
  <2>h. \A ops : Stays(p, ops) => Locals' /\ scene' = scene BY <1>4 DEF Stays, Handled, Locals
  <2>1. CASE /\ May(p, UserOps \union Visits) /\ AccountsStep(p)
             /\ UNCHANGED <<visitors, directory, issues, exams, keepers>>
    <3>1. Stays(p, FrontOps) BY <2>1, AccountsMove
    <3>2. May(p, FrontOps) BY <2>1 DEF May, Comes, FrontOps
    <3>3. Front BY <2>1, <3>1
    <3>4. Rests(DirectoryOps) /\ Rests(IssueOps) /\ Rests(ExamOps) /\ Rests(KeeperOps)
      BY <2>0, <3>1, <3>2, Disjoint
    <3> HIDE DEF Front
    <3>5. Dir /\ Iss /\ Exm /\ Kpr BY <2>1, <3>4
    <3> HIDE DEF Dir, Iss, Exm, Kpr
    <3> QED BY <3>1, <2>h, <3>3, <3>5 DEF Front, Dir, Iss, Exm, Kpr
  <2>2. CASE /\ May(p, Visits \union {"generate", "tokens"}) /\ ExperienceStep(p)
             /\ UNCHANGED <<directory, issues, exams, keepers>>
    <3>1. Stays(p, FrontOps) BY <2>2, ExperienceMove
    <3>2. May(p, FrontOps) BY <2>2 DEF May, Comes, FrontOps
    <3>3. Front BY <2>2, <3>1
    <3>4. Rests(DirectoryOps) /\ Rests(IssueOps) /\ Rests(ExamOps) /\ Rests(KeeperOps)
      BY <2>0, <3>1, <3>2, Disjoint
    <3> HIDE DEF Front
    <3>5. Dir /\ Iss /\ Exm /\ Kpr BY <2>2, <3>4
    <3> HIDE DEF Dir, Iss, Exm, Kpr
    <3> QED BY <3>1, <2>h, <3>3, <3>5 DEF Front, Dir, Iss, Exm, Kpr
  <2>3. CASE /\ May(p, DirectoryOps) /\ DirectoryStep(p)
             /\ UNCHANGED <<accounts, visitors, issues, exams, keepers>>
    <3>1. Stays(p, DirectoryOps) BY <2>3, DirectoryMove
    <3>2. Dir BY <2>3, <3>1
    <3>3. Rests(FrontOps) /\ Rests(IssueOps) /\ Rests(ExamOps) /\ Rests(KeeperOps)
      BY <2>0, <2>3, <3>1, Disjoint
    <3> HIDE DEF Dir
    <3>4. Front /\ Iss /\ Exm /\ Kpr BY <2>3, <3>3
    <3> HIDE DEF Front, Iss, Exm, Kpr
    <3> QED BY <3>1, <2>h, <3>2, <3>4 DEF Front, Dir, Iss, Exm, Kpr
  <2>4. CASE /\ May(p, IssueOps) /\ IssuesStep(p)
             /\ UNCHANGED <<accounts, visitors, directory, exams, keepers>>
    <3>1. Stays(p, IssueOps) BY <2>4, IssuesMove
    <3>2. Iss BY <2>4, <3>1
    <3>3. Rests(FrontOps) /\ Rests(DirectoryOps) /\ Rests(ExamOps) /\ Rests(KeeperOps)
      BY <2>0, <2>4, <3>1, Disjoint
    <3> HIDE DEF Iss
    <3>4. Front /\ Dir /\ Exm /\ Kpr BY <2>4, <3>3
    <3> HIDE DEF Front, Dir, Exm, Kpr
    <3> QED BY <3>1, <2>h, <3>2, <3>4 DEF Front, Dir, Iss, Exm, Kpr
  <2>5. CASE /\ May(p, ExamOps) /\ ExamsStep(p)
             /\ UNCHANGED <<accounts, visitors, directory, issues, keepers>>
    <3>1. Stays(p, ExamOps) BY <2>5, ExamsMove
    <3>2. Exm BY <2>5, <3>1
    <3>3. Rests(FrontOps) /\ Rests(DirectoryOps) /\ Rests(IssueOps) /\ Rests(KeeperOps)
      BY <2>0, <2>5, <3>1, Disjoint
    <3> HIDE DEF Exm
    <3>4. Front /\ Dir /\ Iss /\ Kpr BY <2>5, <3>3
    <3> HIDE DEF Front, Dir, Iss, Kpr
    <3> QED BY <3>1, <2>h, <3>2, <3>4 DEF Front, Dir, Iss, Exm, Kpr
  <2>6. CASE /\ May(p, KeeperOps) /\ KeepersStep(p)
             /\ UNCHANGED <<accounts, visitors, directory, issues, exams>>
    <3>1. Stays(p, KeeperOps) BY <2>6, KeepersMove
    <3>2. Kpr BY <2>6, <3>1
    <3>3. Rests(FrontOps) /\ Rests(DirectoryOps) /\ Rests(IssueOps) /\ Rests(ExamOps)
      BY <2>0, <2>6, <3>1, Disjoint
    <3> HIDE DEF Kpr
    <3>4. Front /\ Dir /\ Iss /\ Exm BY <2>6, <3>3
    <3> HIDE DEF Front, Dir, Iss, Exm
    <3> QED BY <3>1, <2>h, <3>2, <3>4 DEF Front, Dir, Iss, Exm, Kpr
  <2> QED BY <2>1, <2>2, <2>3, <2>4, <2>5, <2>6 DEF Step
<1> QED BY <1>1, <1>2, <1>3, <1>4 DEF Next

(***************************************************************************)
(* Issues.                                                                 *)
(***************************************************************************)

Asker(p)    == Active(p, IssueOps) /\ req[p].op = "ask"
Replier(p) == Active(p, IssueOps) /\ req[p].op = "reply"

\* p made issue i and has not opened it, or found it open and has not answered its row.
Opening(p, i) == Asker(p) /\ pc[p] \in {"putIssue", "openIssue"} /\ seen[p] = i
Working(p, i) == Replier(p) /\ pc[p] \in {"getIssue", "putAnswer", "append", "close", "answerRow"} /\ req[p].issue = i
Touches(p, i) == Opening(p, i) \/ Working(p, i)

\* Issue i is not in the text of the finished ones; or once, with this answer.
Never(i)   == \A n \in 1..Len(finished) : finished[n].issue # i
Once(i, a) == \E n \in 1..Len(finished) :
                finished[n].answer = a /\ \A m \in 1..Len(finished) : finished[m].issue = i <=> m = n

Given == {r.answer : r \in {c \in Calls : c.op = "reply"}}

IssueTypes ==
  /\ issueRow = [i \in Questions |-> issueRow[i]] /\ issueHash = [i \in Questions |-> issueHash[i]]
  /\ finished \in Seq([issue : Questions, answer : Given])
  /\ \A p \in Procs : Replier(p) => req[p].issue \in Questions /\ req[p].answer \in Given
  /\ \A p \in Procs : Asker(p) /\ pc[p] \in {"putIssue", "openIssue"} => seen[p] \in Questions

\* An issue that nobody asked yet.
Unasked(i) == i \notin open /\ Never(i) /\ \A p \in Procs : ~Touches(p, i)

\* An issue between two handlers: open and without an answer, or finished with its answer.
Settled(i) ==
  /\ issueHash[i] = issueRow[i]
  /\ IF i \in open THEN issueRow[i] = NoAnswer /\ Never(i) ELSE Once(i, issueRow[i])

\* An issue that handler p has made.
Opened(p, i) ==
  /\ issueRow[i] = NoAnswer /\ i \notin open /\ Never(i)
  /\ pc[p] = "openIssue" => issueHash[i] = NoAnswer

\* An issue that handler p answers.
Answered(p, i) ==
  /\ issueRow[i] = NoAnswer
  /\ i \in open <=> pc[p] # "answerRow"
  /\ issueHash[i] = IF pc[p] \in {"append", "close", "answerRow"} THEN req[p].answer ELSE NoAnswer
  /\ IF pc[p] \in {"close", "answerRow"} THEN Once(i, req[p].answer) ELSE Never(i)

\* One handler at a time is at an issue that is not muddled.
Orderly(i) ==
  /\ \A p, q \in Procs : Touches(p, i) /\ Touches(q, i) => p = q
  /\ (\A p \in Procs : ~Touches(p, i)) => Settled(i)
  /\ \A p \in Procs : Opening(p, i) => Opened(p, i)
  /\ \A p \in Procs : Working(p, i) => Answered(p, i)

IssueHolds(i) ==
  /\ issueRow[i] = None => Unasked(i)
  /\ i \notin muddled /\ issueRow[i] # None => Orderly(i)

IssueInv == IssueTypes /\ \A i \in Questions : IssueHolds(i)

\* What a step leaves of an issue that its handler is not at.
SameIssue(i) ==
  /\ issueRow'[i] = issueRow[i] /\ issueHash'[i] = issueHash[i]
  /\ (i \in open') = (i \in open) /\ (i \in muddled => i \in muddled')
  /\ Never(i)' <=> Never(i)
  /\ \A a : Once(i, a)' <=> Once(i, a)

LEMMA OtherTouches ==
  ASSUME NEW p \in Procs, Handled(p), NEW q \in Procs, q # p
  PROVE  \A i : /\ Opening(q, i)' <=> Opening(q, i)
                /\ Working(q, i)' <=> Working(q, i)
<1>1. pc'[q] = pc[q] /\ req'[q] = req[q] /\ seen'[q] = seen[q] BY DEF Handled
<1> QED BY <1>1 DEF Opening, Working, Asker, Replier, Active, Busy

LEMMA IssueAside ==
  ASSUME NEW p \in Procs, Handled(p), NEW i \in Questions, SameIssue(i), IssueHolds(i),
         ~Touches(p, i), ~Touches(p, i)'
  PROVE  IssueHolds(i)'
<1>0. \A q \in Procs \ {p} : pc'[q] = pc[q] /\ req'[q] = req[q] BY DEF Handled
<1>1. \A q \in Procs : (Opening(q, i)' <=> Opening(q, i)) /\ (Working(q, i)' <=> Working(q, i))
  BY OtherTouches DEF Touches
<1>2. ASSUME issueRow'[i] = None PROVE Unasked(i)'
  <2>1. Unasked(i) BY <1>2 DEF SameIssue, IssueHolds
  <2> QED BY <1>1, <2>1 DEF Unasked, SameIssue, Touches
<1>3. ASSUME i \notin muddled', issueRow'[i] # None PROVE Orderly(i)'
  <2>0. Orderly(i) BY <1>3 DEF SameIssue, IssueHolds
  <2>1. \A q, r \in Procs : Touches(q, i)' /\ Touches(r, i)' => q = r BY <1>1, <2>0 DEF Orderly, Touches
  <2>2. ASSUME \A q \in Procs : ~Touches(q, i)' PROVE Settled(i)'
    <3>1. Settled(i) BY <1>1, <2>0, <2>2 DEF Orderly, Touches
    <3> QED BY <3>1 DEF Settled, SameIssue
  <2>3. ASSUME NEW q \in Procs, Opening(q, i)' PROVE Opened(q, i)'
    <3>1. q # p /\ Opened(q, i) BY <1>1, <2>0, <2>3 DEF Orderly, Touches
    <3> QED BY <1>0, <3>1 DEF Opened, SameIssue
  <2>4. ASSUME NEW q \in Procs, Working(q, i)' PROVE Answered(q, i)'
    <3>1. q # p /\ Answered(q, i) BY <1>1, <2>0, <2>4 DEF Orderly, Touches
    <3> QED BY <1>0, <3>1 DEF Answered, SameIssue
  <2> QED BY <2>1, <2>2, <2>3, <2>4 DEF Orderly
<1> QED BY <1>2, <1>3 DEF IssueHolds

\* p is the only one at issue i.
Alone(p, i) == \A q \in Procs \ {p} : ~Touches(q, i)

LEMMA IssueAlone ==
  ASSUME NEW p \in Procs, Handled(p), NEW i \in Questions, Alone(p, i), issueRow'[i] # None,
         \/ Opening(p, i)' /\ Opened(p, i)' /\ ~Working(p, i)'
         \/ Working(p, i)' /\ Answered(p, i)' /\ ~Opening(p, i)'
         \/ ~Touches(p, i)' /\ Settled(i)'
  PROVE  IssueHolds(i)'
<1>1. \A q \in Procs \ {p} : ~Opening(q, i)' /\ ~Working(q, i)' BY OtherTouches DEF Touches, Alone
<1>2. \A q, r \in Procs : Touches(q, i)' /\ Touches(r, i)' => q = r BY <1>1 DEF Touches
<1>3. (\A q \in Procs : ~Touches(q, i)') => Settled(i)' BY DEF Touches
<1>4. \A q \in Procs : (Opening(q, i)' => Opened(q, i)') /\ (Working(q, i)' => Answered(q, i)')
  BY <1>1 DEF Touches
<1> QED BY <1>2, <1>3, <1>4 DEF IssueHolds, Orderly

\* The issue of a step: either nobody is at it, or p is, and alone unless it is muddled.
LEMMA IssueMet ==
  ASSUME NEW p \in Procs, NEW i \in Questions, IssueHolds(i), Touches(p, i), i \notin muddled
  PROVE  Alone(p, i) /\ Orderly(i) /\ issueRow[i] # None
BY DEF IssueHolds, Unasked, Alone, Orderly

\* A handler that is nowhere near an issue touches none.
LEMMA NoTouch ==
  ASSUME NEW p \in Procs,
         pc[p] \notin {"putIssue", "openIssue", "getIssue", "putAnswer", "append", "close", "answerRow"}
  PROVE  \A i : ~Touches(p, i)
BY DEF Touches, Opening, Working

LEMMA ReplierTouches ==
  ASSUME NEW p \in Procs, pc[p] \in {"getIssue", "putAnswer", "append", "close", "answerRow"},
         req[p].op = "reply"
  PROVE  \A i : /\ Working(p, i) <=> i = req[p].issue
                /\ Touches(p, i) <=> i = req[p].issue
                /\ ~Opening(p, i)
BY DEF Touches, Opening, Working, Asker, Replier, Active, Busy, IssueOps

LEMMA AskerTouches ==
  ASSUME NEW p \in Procs, pc[p] \in {"putIssue", "openIssue"}, req[p].op = "ask"
  PROVE  \A i : /\ Opening(p, i) <=> i = seen[p]
                /\ Touches(p, i) <=> i = seen[p]
                /\ ~Working(p, i)
BY DEF Touches, Opening, Working, Asker, Replier, Active, Busy, IssueOps

LEMMA IssueTyped ==
  ASSUME Locals, IssueTypes, NEW p \in Procs, IssuesStep(p), Stays(p, IssueOps), UNCHANGED scene
  PROVE  IssueTypes'
<1> USE Handling DEF At, Busy
<1>0. Given' = Given /\ Calls' = Calls BY DEF Given, Calls
<1>c. \A r \in Calls : r.op = "reply" => r.issue \in Questions /\ r.answer \in Given
  BY RepliesAreAnswers DEF Locals, Calls, Given
<1>1. \A q \in Procs \ {p} : /\ Replier(q)' <=> Replier(q)
                             /\ Asker(q)' <=> Asker(q)
                             /\ pc'[q] = pc[q] /\ req'[q] = req[q] /\ seen'[q] = seen[q]
  BY DEF Stays, Handled, Replier, Asker, Active
<1>2. issueRow' = [i \in Questions |-> issueRow'[i]] /\ issueHash' = [i \in Questions |-> issueHash'[i]]
  BY DEF IssuesStep, IssueTypes, issues, onHttpAddIssue, onHttpAnswerIssue, AskedWhere, InsertIssue, PutIssue, OpenIssue,
         AnsweredWhere, IsOpen, GetIssue, PutAnswer, AppendFinished, CloseIssue, AnswerRow, IssueFails
<1>3. Replier(p)' => req'[p].issue \in Questions /\ req'[p].answer \in Given
  <2>1. CASE onHttpAddIssue(p) \/ onHttpAnswerIssue(p)
    <3>1. req'[p] \in Calls BY <2>1 DEF onHttpAddIssue, onHttpAnswerIssue
    <3> QED BY <3>1, <1>c DEF Replier
  <2>2. CASE pc'[p] = "idle" BY <2>2 DEF Replier, Active
  <2>3. CASE Busy(p) /\ req'[p] = req[p]
    <3>1. Replier(p)' => Replier(p) BY <2>3 DEF Replier, Active
    <3> QED BY <3>1, <2>3 DEF IssueTypes
  <2>4. onHttpAddIssue(p) \/ onHttpAnswerIssue(p) \/ pc'[p] = "idle" \/ (Busy(p) /\ req'[p] = req[p])
    BY DEF IssuesStep, AskedWhere, InsertIssue, PutIssue, OpenIssue, AnsweredWhere, IsOpen, GetIssue, PutAnswer,
           AppendFinished, CloseIssue, AnswerRow, IssueFails
  <2> QED BY <2>1, <2>2, <2>3, <2>4
<1>4. Asker(p)' /\ pc'[p] \in {"putIssue", "openIssue"} => seen'[p] \in Questions
  <2>1. CASE InsertIssue(p) BY <2>1 DEF InsertIssue
  <2>2. CASE PutIssue(p)
    <3>1. Asker(p) BY <2>2 DEF PutIssue, Asker, Active, IssueOps
    <3> QED BY <2>2, <3>1 DEF PutIssue, IssueTypes
  <2>3. InsertIssue(p) \/ PutIssue(p) \/ pc'[p] \notin {"putIssue", "openIssue"}
    BY DEF IssuesStep, onHttpAddIssue, onHttpAnswerIssue, AskedWhere, OpenIssue, AnsweredWhere, IsOpen, GetIssue, PutAnswer,
           AppendFinished, CloseIssue, AnswerRow, IssueFails
  <2> QED BY <2>1, <2>2, <2>3
<1>5. finished' \in Seq([issue : Questions, answer : Given])
  <2>1. CASE AppendFinished(p)
    <3>1. Replier(p) BY <2>1 DEF AppendFinished, Replier, Active, IssueOps
    <3>2. [issue |-> req[p].issue, answer |-> req[p].answer] \in [issue : Questions, answer : Given]
      BY <3>1 DEF IssueTypes
    <3> QED BY <2>1, <3>2 DEF AppendFinished, IssueTypes
  <2>2. CASE finished' = finished BY <2>2 DEF IssueTypes
  <2>3. AppendFinished(p) \/ finished' = finished
    BY DEF IssuesStep, issues, onHttpAddIssue, onHttpAnswerIssue, AskedWhere, InsertIssue, PutIssue, OpenIssue,
           AnsweredWhere, IsOpen, GetIssue, PutAnswer, CloseIssue, AnswerRow, IssueFails
  <2> QED BY <2>1, <2>2, <2>3
<1>6. ASSUME NEW q \in Procs PROVE (Replier(q) => req[q].issue \in Questions /\ req[q].answer \in Given)'
  BY <1>0, <1>1, <1>3 DEF IssueTypes
<1>7. ASSUME NEW q \in Procs PROVE (Asker(q) /\ pc[q] \in {"putIssue", "openIssue"} => seen[q] \in Questions)'
  BY <1>1, <1>4 DEF IssueTypes
<1> QED BY <1>0, <1>2, <1>5, <1>6, <1>7 DEF IssueTypes

\* Appending what is finished of issue i changes nothing for others.
LEMMA Appended ==
  ASSUME IssueTypes, NEW i \in Questions, NEW a \in Given,
         finished' = Append(finished, [issue |-> i, answer |-> a])
  PROVE  /\ Never(i) => Once(i, a)'
         /\ \A j \in Questions \ {i} : (Never(j)' <=> Never(j)) /\ \A b : Once(j, b)' <=> Once(j, b)
<1> DEFINE e == [issue |-> i, answer |-> a]
           N == Len(finished)
<1>1. N \in Nat /\ e \in [issue : Questions, answer : Given] BY DEF IssueTypes
<1>2. Len(finished') = N + 1 /\ finished'[N + 1] = e /\ \A n \in 1..N : finished'[n] = finished[n]
  BY <1>1 DEF IssueTypes
<1>3. e.issue = i /\ e.answer = a OBVIOUS
<1> HIDE DEF N, e
<1>4. \A n \in 1..(N + 1) : n \in 1..N \/ n = N + 1 BY <1>1
<1>5. Never(i) => Once(i, a)'
  <2> SUFFICES ASSUME Never(i) PROVE Once(i, a)' OBVIOUS
  <2>1. N + 1 \in 1..Len(finished') BY <1>1, <1>2
  <2>2. \A m \in 1..Len(finished') : finished'[m].issue = i <=> m = N + 1
    BY <1>1, <1>2, <1>3, <1>4 DEF Never, N
  <2> QED BY <2>1, <2>2, <1>2, <1>3 DEF Once
<1>6. ASSUME NEW j \in Questions \ {i} PROVE (Never(j)' <=> Never(j)) /\ \A b : Once(j, b)' <=> Once(j, b)
  <2>0. \A n \in 1..Len(finished') : finished'[n].issue = j => n \in 1..N BY <1>2, <1>3, <1>4, <1>6
  <2>1. \A n \in 1..N : n \in 1..Len(finished') /\ finished'[n] = finished[n] BY <1>1, <1>2
  <2>2. Never(j)' <=> Never(j) BY <2>0, <2>1 DEF Never, N
  <2>3. ASSUME NEW b PROVE Once(j, b)' <=> Once(j, b)
    <3>1. ASSUME Once(j, b) PROVE Once(j, b)'
      <4> PICK n \in 1..N : finished[n].answer = b /\ \A m \in 1..N : finished[m].issue = j <=> m = n
        BY <3>1 DEF Once, N
      <4>1. n \in 1..Len(finished') /\ finished'[n].answer = b BY <2>1
      <4>2. \A m \in 1..Len(finished') : finished'[m].issue = j <=> m = n BY <2>0, <2>1
      <4> QED BY <4>1, <4>2 DEF Once
    <3>2. ASSUME Once(j, b)' PROVE Once(j, b)
      <4> PICK n \in 1..Len(finished') : finished'[n].answer = b
                 /\ \A m \in 1..Len(finished') : finished'[m].issue = j <=> m = n
        BY <3>2 DEF Once
      <4>1. n \in 1..N BY <2>0
      <4>2. finished[n].answer = b /\ \A m \in 1..N : finished[m].issue = j <=> m = n BY <2>1, <4>1
      <4> QED BY <4>1, <4>2 DEF Once, N
    <3> QED BY <3>1, <3>2
  <2> QED BY <2>2, <2>3
<1> QED BY <1>5, <1>6

LEMMA IssueMoves ==
  ASSUME Locals, IssueInv, NEW p \in Procs, IssuesStep(p), Stays(p, IssueOps), NEW j \in Questions
  PROVE  IssueHolds(j)'
<1> USE Handling DEF At, Busy
<1>0. Handled(p) BY DEF Stays
<1>1. IssueTypes /\ \A i \in Questions : IssueHolds(i) BY DEF IssueInv
<1>k. \A i \in Questions : IssueHolds(i) /\ Touches(p, i) /\ i \notin muddled => Alone(p, i) /\ Orderly(i) /\ issueRow[i] # None
  BY IssueMet
<1>a. SameIssue(j) /\ ~Touches(p, j) /\ ~Touches(p, j)' => IssueHolds(j)'
  BY <1>0, <1>1, IssueAside
<1>b. Alone(p, j) /\ issueRow'[j] # None /\ Opening(p, j)' /\ Opened(p, j)' /\ ~Working(p, j)' => IssueHolds(j)'
  BY <1>0, IssueAlone
<1>c. Alone(p, j) /\ issueRow'[j] # None /\ Working(p, j)' /\ Answered(p, j)' /\ ~Opening(p, j)' => IssueHolds(j)'
  BY <1>0, IssueAlone
<1>d. Alone(p, j) /\ issueRow'[j] # None /\ ~Touches(p, j)' /\ Settled(j)' => IssueHolds(j)'
  BY <1>0, IssueAlone
<1>m. issueRow'[j] # None /\ j \in muddled' => IssueHolds(j)' BY DEF IssueHolds
<1>r. \A i \in Questions : Touches(p, i) => issueRow[i] # None BY <1>1 DEF IssueHolds, Unasked
<1>n. pc'[p] \notin {"putIssue", "openIssue", "getIssue", "putAnswer", "append", "close", "answerRow"} => ~Touches(p, j)'
  BY DEF Touches, Opening, Working
<1>w. pc'[p] \in {"getIssue", "putAnswer", "append", "close", "answerRow"} /\ req'[p].op = "reply" =>
        /\ Working(p, j)' <=> j = req'[p].issue
        /\ Touches(p, j)' <=> j = req'[p].issue
        /\ ~Opening(p, j)'
  BY DEF Touches, Opening, Working, Asker, Replier, Active, IssueOps
<1>o. pc'[p] \in {"putIssue", "openIssue"} /\ req'[p].op = "ask" =>
        /\ Opening(p, j)' <=> j = seen'[p]
        /\ Touches(p, j)' <=> j = seen'[p]
        /\ ~Working(p, j)'
  BY DEF Touches, Opening, Working, Asker, Replier, Active, IssueOps
<1>s. UNCHANGED issues => SameIssue(j) BY DEF issues, SameIssue, Never, Once
<1>2. CASE onHttpAddIssue(p) \/ onHttpAnswerIssue(p) \/ AskedWhere(p) \/ AnsweredWhere(p)
  <2>1. pc[p] \in {"idle", "meeting", "class"} /\ pc'[p] \in {"idle", "meeting", "class", "insertIssue", "isOpen"} /\ UNCHANGED issues
    BY <1>2 DEF onHttpAddIssue, onHttpAnswerIssue, AskedWhere, AnsweredWhere
  <2> QED BY <2>1, <1>a, <1>n, <1>s, NoTouch
<1>3. CASE InsertIssue(p)
  <2> PICK i \in Questions : /\ issueRow[i] = None
                             /\ issueRow' = [issueRow EXCEPT ![i] = NoAnswer] /\ With(p, "putIssue", i)
    BY <1>3 DEF InsertIssue
  <2>1. pc[p] = "insertIssue" /\ req[p].op = "ask" /\ UNCHANGED <<issueHash, open, finished, muddled>> BY <1>3 DEF InsertIssue
  <2>2. ~Touches(p, j) BY <2>1, NoTouch
  <2>3. pc'[p] = "putIssue" /\ req'[p].op = "ask" /\ seen'[p] = i BY <2>1
  <2>4. CASE j = i
    <3>1. Unasked(i) BY <1>1 DEF IssueHolds
    <3>2. Alone(p, i) BY <3>1 DEF Unasked, Alone
    <3>3. issueRow'[i] = NoAnswer BY <1>1 DEF IssueTypes
    <3>4. Opened(p, i)' BY <2>1, <2>3, <3>1, <3>3 DEF Opened, Unasked, Never
    <3>5. Opening(p, j)' /\ ~Working(p, j)' BY <1>o, <2>3, <2>4
    <3> HIDE DEF At, Busy
    <3>6. issueRow'[j] # None BY <2>4, <3>3, RepliesAreAnswers
    <3>7. Opened(p, j)' BY <2>4, <3>4
    <3> QED BY <1>b, <2>4, <3>2, <3>5, <3>6, <3>7
  <2>5. CASE j # i
    <3>1. SameIssue(j) BY <1>1, <2>1, <2>5 DEF SameIssue, IssueTypes, Never, Once
    <3> QED BY <1>a, <1>o, <2>2, <2>3, <2>5, <3>1
  <2> QED BY <2>4, <2>5
<1>4. CASE PutIssue(p)
  <2>1. /\ pc[p] = "putIssue" /\ req[p].op = "ask" /\ UNCHANGED <<issueRow, open, finished, muddled>>
        /\ issueHash' = [issueHash EXCEPT ![seen[p]] = NoAnswer]
        /\ pc'[p] = "openIssue" /\ req'[p].op = "ask" /\ seen'[p] = seen[p]
    BY <1>4 DEF PutIssue
  <2>2. Touches(p, j) <=> j = seen[p] BY <2>1, AskerTouches
  <2>3. CASE j = seen[p]
    <3>1. Touches(p, j) /\ issueRow[j] # None /\ Opening(p, j) BY <1>r, <2>1, <2>2, <2>3, AskerTouches
    <3>2. CASE j \in muddled BY <1>m, <2>1, <3>1, <3>2
    <3>3. CASE j \notin muddled
      <4>1. Alone(p, j) /\ Opened(p, j) BY <1>k, <1>1, <3>1, <3>3 DEF Orderly
      <4>2. issueHash'[j] = NoAnswer BY <1>1, <2>1, <2>3 DEF IssueTypes
      <4>3. Opened(p, j)' BY <2>1, <4>1, <4>2 DEF Opened, Never
      <4>4. Opening(p, j)' /\ ~Working(p, j)' BY <1>o, <2>1, <2>3
      <4>5. issueRow'[j] # None BY <2>1, <3>1
      <4> QED BY <1>b, <4>1, <4>3, <4>4, <4>5
    <3> QED BY <3>2, <3>3
  <2>4. CASE j # seen[p]
    <3>1. SameIssue(j) BY <1>1, <2>1, <2>4 DEF SameIssue, IssueTypes, Never, Once
    <3> QED BY <1>a, <1>o, <2>1, <2>2, <2>4, <3>1
  <2> QED BY <2>3, <2>4
<1>5. CASE OpenIssue(p)
  <2>1. /\ pc[p] = "openIssue" /\ req[p].op = "ask" /\ UNCHANGED <<issueRow, issueHash, finished>>
        /\ \/ open' = open \union {seen[p]} /\ UNCHANGED muddled
           \/ muddled' = muddled \union {seen[p]} /\ UNCHANGED open
        /\ pc'[p] = "idle"
    BY <1>5 DEF OpenIssue
  <2>2. ~Touches(p, j)' BY <1>n, <2>1
  <2>3. CASE j = seen[p]
    <3>1. Touches(p, j) /\ issueRow[j] # None /\ Opening(p, j) BY <1>r, <2>1, <2>3, AskerTouches
    <3>2. CASE j \in muddled' BY <1>m, <2>1, <3>1, <3>2
    <3>3. CASE j \notin muddled'
      <4>1. j \notin muddled /\ j \in open' BY <2>1, <2>3, <3>3
      <4>2. Alone(p, j) /\ Opened(p, j) BY <1>k, <1>1, <3>1, <4>1 DEF Orderly
      <4>3. Settled(j)' BY <2>1, <4>1, <4>2 DEF Settled, Opened, Never
      <4> QED BY <1>d, <2>1, <2>2, <3>1, <4>2, <4>3
    <3> QED BY <3>2, <3>3
  <2>4. CASE j # seen[p]
    <3>1. SameIssue(j) BY <2>1, <2>4 DEF SameIssue, Never, Once
    <3>2. ~Touches(p, j) BY <2>1, <2>4, AskerTouches
    <3> QED BY <1>a, <2>2, <3>1, <3>2
  <2> QED BY <2>3, <2>4
<1>6. CASE IsOpen(p)
  <2> DEFINE i == req[p].issue
  <2>1. pc[p] = "isOpen" /\ req[p].op = "reply" /\ UNCHANGED <<issueRow, issueHash, open, finished>>
    BY <1>6 DEF IsOpen
  <2>2. ~Touches(p, j) BY <2>1, NoTouch
  <2>3. CASE i \in open
    <3>1. /\ pc'[p] = "getIssue" /\ req'[p] = req[p]
          /\ muddled' = IF Answering(p, i) THEN muddled \union {i} ELSE muddled
      BY <1>6, <2>3 DEF IsOpen
    <3>2. CASE j = i
      <4>1. issueRow[j] # None BY <1>1, <2>3, <3>2 DEF IssueHolds, Unasked
      <4>2. CASE j \in muddled' BY <1>m, <2>1, <4>1, <4>2
      <4>3. CASE j \notin muddled'
        <5>1. j \notin muddled /\ ~Answering(p, i) BY <3>1, <3>2, <4>3
        <5>2. Orderly(j) BY <1>1, <4>1, <5>1 DEF IssueHolds
        <5>3. \A q \in Procs : ~Working(q, j)
          <6>1. \A q \in Procs \ {p} : ~Working(q, j) BY <3>2, <5>1 DEF Answering, Working, Replier
          <6> QED BY <2>2, <6>1 DEF Touches
        <5>4. \A q \in Procs : ~Opening(q, j) BY <2>3, <3>2, <5>2 DEF Orderly, Opened
        <5>5. \A q \in Procs : ~Touches(q, j) BY <5>3, <5>4 DEF Touches
        <5>6. Settled(j) BY <5>2, <5>5 DEF Orderly
        <5>7. Answered(p, j)' BY <2>1, <2>3, <3>1, <3>2, <5>6 DEF Settled, Answered, Never
        <5>8. Alone(p, j) BY <5>5 DEF Alone
        <5>9. Working(p, j)' /\ ~Opening(p, j)' BY <1>w, <2>1, <3>1, <3>2
        <5>10. issueRow'[j] # None BY <2>1, <4>1
        <5> QED BY <1>c, <5>7, <5>8, <5>9, <5>10
      <4> QED BY <4>2, <4>3
    <3>3. CASE j # i
      <4>1. SameIssue(j) BY <2>1, <3>1, <3>3 DEF SameIssue, Never, Once
      <4> QED BY <1>a, <1>w, <2>1, <2>2, <3>1, <3>3, <4>1
    <3> QED BY <3>2, <3>3
  <2>4. CASE i \notin open
    <3>1. pc'[p] = "idle" /\ UNCHANGED muddled BY <1>6, <2>4 DEF IsOpen
    <3>2. SameIssue(j) BY <2>1, <3>1 DEF SameIssue, Never, Once
    <3> QED BY <1>a, <1>n, <2>2, <3>1, <3>2
  <2> QED BY <2>3, <2>4
\* What is left of an issue that is given up before anything was written.
<1>u. ASSUME pc[p] \in {"getIssue", "putAnswer"}, req[p].op = "reply", pc'[p] = "idle", UNCHANGED issues
      PROVE  IssueHolds(j)'
  <2>0. UNCHANGED <<issueRow, issueHash, open, finished, muddled>> BY <1>u DEF issues
  <2>1. CASE j = req[p].issue
    <3>1. Touches(p, j) /\ issueRow[j] # None /\ Working(p, j) BY <1>r, <1>u, <2>1, ReplierTouches
    <3>2. CASE j \in muddled BY <1>m, <2>0, <3>1, <3>2
    <3>3. CASE j \notin muddled
      <4>1. Alone(p, j) /\ Answered(p, j) BY <1>k, <1>1, <3>1, <3>3 DEF Orderly
      <4>2. Settled(j)' BY <1>u, <2>0, <4>1 DEF Settled, Answered, Never
      <4> QED BY <1>d, <1>n, <1>u, <2>0, <3>1, <4>1, <4>2
    <3> QED BY <3>2, <3>3
  <2>2. CASE j # req[p].issue BY <1>a, <1>n, <1>s, <1>u, <2>2, ReplierTouches
  <2> QED BY <2>1, <2>2
<1>7. CASE GetIssue(p)
  <2>1. pc[p] = "getIssue" /\ req[p].op = "reply" /\ UNCHANGED issues BY <1>7 DEF GetIssue
  <2>2. CASE pc'[p] = "idle" BY <1>u, <2>1, <2>2
  <2>3. CASE pc'[p] = "putAnswer" /\ req'[p] = req[p]
    <3>0. UNCHANGED <<issueRow, issueHash, open, finished, muddled>> BY <2>1 DEF issues
    <3>1. CASE j = req[p].issue
      <4>1. Touches(p, j) /\ issueRow[j] # None /\ Working(p, j) BY <1>r, <2>1, <3>1, ReplierTouches
      <4>2. CASE j \in muddled BY <1>m, <3>0, <4>1, <4>2
      <4>3. CASE j \notin muddled
        <5>1. Alone(p, j) /\ Answered(p, j) BY <1>k, <1>1, <4>1, <4>3 DEF Orderly
        <5>2. Answered(p, j)' BY <2>1, <2>3, <3>0, <5>1 DEF Answered, Never
        <5>3. Working(p, j)' /\ ~Opening(p, j)' BY <1>w, <2>1, <2>3, <3>1
        <5>4. issueRow'[j] # None BY <3>0, <4>1
        <5> QED BY <1>c, <5>1, <5>2, <5>3, <5>4
      <4> QED BY <4>2, <4>3
    <3>2. CASE j # req[p].issue BY <1>a, <1>s, <1>w, <2>1, <2>3, <3>2, ReplierTouches
    <3> QED BY <3>1, <3>2
  <2> QED BY <1>7, <2>2, <2>3 DEF GetIssue
<1>8. CASE PutAnswer(p) \/ AppendFinished(p) \/ CloseIssue(p)
  <2>1. /\ pc[p] \in {"putAnswer", "append", "close"} /\ req[p].op = "reply" /\ UNCHANGED <<issueRow, muddled>>
        /\ pc'[p] \in {"append", "close", "answerRow"} /\ req'[p] = req[p]
    BY <1>8 DEF PutAnswer, AppendFinished, CloseIssue
  <2>2. req[p].issue \in Questions /\ req[p].answer \in Given
    BY <1>1, <2>1 DEF IssueTypes, Replier, Active, IssueOps
  <2>3. /\ PutAnswer(p) => UNCHANGED <<open, finished>> /\ issueHash' = [issueHash EXCEPT ![req[p].issue] = req[p].answer]
                           /\ pc[p] = "putAnswer" /\ pc'[p] = "append"
        /\ AppendFinished(p) => UNCHANGED <<issueHash, open>> /\ pc[p] = "append" /\ pc'[p] = "close"
                           /\ finished' = Append(finished, [issue |-> req[p].issue, answer |-> req[p].answer])
        /\ CloseIssue(p) => UNCHANGED <<issueHash, finished>> /\ open' = open \ {req[p].issue}
                           /\ pc[p] = "close" /\ pc'[p] = "answerRow"
    BY DEF PutAnswer, AppendFinished, CloseIssue
  <2>4. CASE j = req[p].issue
    <3>1. Touches(p, j) /\ issueRow[j] # None /\ Working(p, j) BY <1>r, <2>1, <2>4, ReplierTouches
    <3>2. CASE j \in muddled BY <1>m, <2>1, <3>1, <3>2
    <3>3. CASE j \notin muddled
      <4>1. Alone(p, j) /\ Answered(p, j) BY <1>k, <1>1, <3>1, <3>3 DEF Orderly
      <4>2. ASSUME PutAnswer(p) PROVE Answered(p, j)'
        <5>1. issueHash'[j] = req[p].answer BY <1>1, <2>3, <2>4, <4>2 DEF IssueTypes
        <5> QED BY <2>1, <2>3, <4>1, <4>2, <5>1 DEF Answered, Never
      <4>3. ASSUME AppendFinished(p) PROVE Answered(p, j)'
        <5>1. Never(j) /\ issueRow[j] = NoAnswer /\ j \in open /\ issueHash[j] = req[p].answer
          BY <2>3, <4>1, <4>3 DEF Answered
        <5> PICK a \in Given : a = req[p].answer BY <2>2
        <5>2. finished' = Append(finished, [issue |-> j, answer |-> a]) BY <2>3, <2>4, <4>3
        <5>3. Once(j, a)' BY <1>1, <5>1, <5>2, Appended
        <5>4. pc'[p] = "close" /\ req'[p].answer = a /\ UNCHANGED <<open, issueHash, issueRow>> BY <2>1, <2>3, <4>3
        <5> HIDE DEF Busy, At
        <5> QED BY <5>1, <5>3, <5>4 DEF Answered
      <4>4. ASSUME CloseIssue(p) PROVE Answered(p, j)'
        <5> PICK a \in Given : a = req[p].answer BY <2>2
        <5>1. Once(j, a) /\ issueRow[j] = NoAnswer /\ issueHash[j] = a
          BY <2>3, <4>1, <4>4 DEF Answered
        <5>2. Once(j, a)' BY <2>3, <4>4, <5>1 DEF Once
        <5>3. pc'[p] = "answerRow" /\ req'[p].answer = a /\ UNCHANGED <<issueHash, issueRow>> BY <2>1, <2>3, <4>4
        <5>4. j \notin open' BY <2>3, <2>4, <4>4
        <5> HIDE DEF Busy, At
        <5> QED BY <5>1, <5>2, <5>3, <5>4 DEF Answered
      <4>5. Answered(p, j)' BY <1>8, <4>2, <4>3, <4>4
      <4>6. Working(p, j)' /\ ~Opening(p, j)' BY <1>w, <2>1, <2>4
      <4>7. issueRow'[j] # None BY <2>1, <3>1
      <4> QED BY <1>c, <4>1, <4>5, <4>6, <4>7
    <3> QED BY <3>2, <3>3
  <2>5. CASE j # req[p].issue
    <3>1. ASSUME PutAnswer(p) PROVE SameIssue(j)
      BY <1>1, <2>1, <2>3, <2>5, <3>1 DEF SameIssue, IssueTypes, Never, Once
    <3>2. ASSUME AppendFinished(p) PROVE SameIssue(j)
      <4>1. (Never(j)' <=> Never(j)) /\ \A b : Once(j, b)' <=> Once(j, b) BY <1>1, <2>2, <2>3, <2>5, <3>2, Appended
      <4> QED BY <2>1, <2>3, <3>2, <4>1 DEF SameIssue
    <3>3. ASSUME CloseIssue(p) PROVE SameIssue(j)
      BY <2>1, <2>3, <2>5, <3>3 DEF SameIssue, Never, Once
    <3>4. ~Touches(p, j) BY <2>1, <2>5, ReplierTouches
    <3> QED BY <1>a, <1>w, <1>8, <2>1, <2>5, <3>1, <3>2, <3>3, <3>4
  <2> QED BY <2>4, <2>5
<1>9. CASE AnswerRow(p)
  <2>1. /\ pc[p] = "answerRow" /\ req[p].op = "reply" /\ UNCHANGED <<issueHash, open, finished, muddled>>
        /\ pc'[p] = "idle" /\ issueRow' = [issueRow EXCEPT ![req[p].issue] = req[p].answer]
    BY <1>9 DEF AnswerRow
  <2>2. ~Touches(p, j)' BY <1>n, <2>1
  <2>3. req[p].answer # None
    <3>1. req[p].answer \in Given BY <1>1, <2>1 DEF IssueTypes, Replier, Active, IssueOps
    <3> QED BY <3>1, RepliesAreAnswers DEF Given, Calls, Locals
  <2>4. CASE j = req[p].issue
    <3>1. Touches(p, j) /\ issueRow[j] # None /\ Working(p, j) BY <1>r, <2>1, <2>4, ReplierTouches
    <3>0. issueRow'[j] = req[p].answer BY <1>1, <2>1, <2>4 DEF IssueTypes
    <3>2. CASE j \in muddled BY <1>m, <2>1, <2>3, <3>0, <3>2
    <3>3. CASE j \notin muddled
      <4>1. Alone(p, j) /\ Answered(p, j) BY <1>k, <1>1, <3>1, <3>3 DEF Orderly
      <4>2. j \notin open /\ issueHash[j] = req[p].answer /\ Once(j, req[p].answer) BY <2>1, <4>1 DEF Answered
      <4>3. Once(j, issueRow[j])' BY <2>1, <3>0, <4>2 DEF Once
      <4>4. Settled(j)' BY <2>1, <3>0, <4>2, <4>3 DEF Settled
      <4> QED BY <1>d, <2>2, <2>3, <3>0, <4>1, <4>4
    <3> QED BY <3>2, <3>3
  <2>5. CASE j # req[p].issue
    <3>1. SameIssue(j) BY <1>1, <2>1, <2>5 DEF SameIssue, IssueTypes, Never, Once
    <3> QED BY <1>a, <2>1, <2>2, <2>5, <3>1, ReplierTouches
  <2> QED BY <2>4, <2>5
<1>10. CASE IssueFails(p)
  <2>1. /\ req[p].op \in IssueOps /\ pc[p] # "idle" /\ pc'[p] = "idle" /\ UNCHANGED <<issueRow, issueHash, open, finished>>
        /\ muddled' = IF pc[p] \in {"putIssue", "openIssue", "append", "close", "answerRow"}
                      THEN muddled \union {Issue(p)} ELSE muddled
    BY <1>10 DEF IssueFails
  <2>2. ~Touches(p, j)' BY <1>n, <2>1
  <2>3. SameIssue(j) BY <2>1 DEF SameIssue, Never, Once
  <2>4. CASE ~Touches(p, j) BY <1>a, <2>2, <2>3, <2>4
  <2>5. CASE Touches(p, j)
    <3>1. issueRow'[j] # None BY <1>r, <2>1, <2>5
    <3>2. CASE pc[p] \in {"getIssue", "putAnswer"}
      <4>1. req[p].op = "reply" BY <2>5, <3>2 DEF Touches, Opening, Working, Replier
      <4> QED BY <1>u, <2>1, <3>2, <4>1 DEF issues
    <3>3. CASE pc[p] \notin {"getIssue", "putAnswer"}
      <4>1. Issue(p) = j BY <2>5 DEF Issue, Touches, Opening, Working, Asker, Replier
      <4>2. j \in muddled' BY <2>1, <2>5, <3>3, <4>1, NoTouch
      <4> QED BY <1>m, <3>1, <4>2
    <3> QED BY <3>2, <3>3
  <2> QED BY <2>4, <2>5
<1> QED BY <1>2, <1>3, <1>4, <1>5, <1>6, <1>7, <1>8, <1>9, <1>10 DEF IssuesStep

LEMMA IssueRests ==
  ASSUME IssueInv, UNCHANGED <<issues, scene>>, Rests(IssueOps)
  PROVE  IssueInv'
<1>0. UNCHANGED <<issueRow, issueHash, open, finished, muddled>> /\ Given' = Given BY DEF issues, Given, Calls
<1>1. \A q \in Procs : /\ Active(q, IssueOps)' <=> Active(q, IssueOps)
                       /\ Active(q, IssueOps) => pc'[q] = pc[q] /\ req'[q] = req[q] /\ seen'[q] = seen[q]
  BY DEF Rests
<1>2. \A q \in Procs : /\ Replier(q)' <=> Replier(q)
                       /\ Asker(q)' <=> Asker(q)
  BY <1>1 DEF Replier, Asker
<1>3. \A q \in Procs, i \in Questions : (Opening(q, i)' <=> Opening(q, i)) /\ (Working(q, i)' <=> Working(q, i))
  BY <1>1, <1>2 DEF Opening, Working, Replier, Asker
<1>4. IssueTypes' BY <1>0, <1>1, <1>2 DEF IssueInv, IssueTypes, Replier, Asker
<1>5. ASSUME NEW i \in Questions PROVE IssueHolds(i)'
  <2>0. IssueHolds(i) BY DEF IssueInv
  <2>1. \A q \in Procs : Touches(q, i)' <=> Touches(q, i) BY <1>3 DEF Touches
  <2>2. Unasked(i) => Unasked(i)' BY <1>0, <2>1 DEF Unasked, Never
  <2>3. Settled(i) => Settled(i)' BY <1>0 DEF Settled, Never, Once
  <2>4. ASSUME NEW q \in Procs, Opening(q, i), Opened(q, i) PROVE Opened(q, i)'
    BY <1>0, <1>1, <2>4 DEF Opening, Asker, Opened, Never
  <2>5. ASSUME NEW q \in Procs, Working(q, i), Answered(q, i) PROVE Answered(q, i)'
    BY <1>0, <1>1, <2>5 DEF Working, Replier, Answered, Never, Once
  <2>6. Orderly(i) => Orderly(i)'
    <3> SUFFICES ASSUME Orderly(i) PROVE Orderly(i)' OBVIOUS
    <3>1. \A q, r \in Procs : Touches(q, i)' /\ Touches(r, i)' => q = r BY <2>1 DEF Orderly
    <3>2. (\A q \in Procs : ~Touches(q, i)') => Settled(i)' BY <2>1, <2>3 DEF Orderly
    <3>3. \A q \in Procs : (Opening(q, i)' => Opened(q, i)') /\ (Working(q, i)' => Answered(q, i)')
      BY <1>3, <2>4, <2>5 DEF Orderly
    <3> QED BY <3>1, <3>2, <3>3 DEF Orderly
  <2> QED BY <1>0, <2>0, <2>2, <2>6 DEF IssueHolds
<1> QED BY <1>4, <1>5 DEF IssueInv

LEMMA LocalsInit == Init => Locals
BY DEF Init, HandlersInit, Locals

\* An issue is open without an answer, or finished once with the answer of its row.
THEOREM IssuesStaySettled == Spec => []IssuesAreSettled
<1>1. Init => Locals /\ IssueInv
  <2> SUFFICES ASSUME Init PROVE IssueInv BY LocalsInit
  <2>1. /\ issueRow = [i \in Questions |-> None] /\ issueHash = issueRow
        /\ open = {} /\ finished = <<>> /\ muddled = {} /\ \A p \in Procs : pc[p] = "idle"
    BY DEF Init, IssuesInit, HandlersInit
  <2>2. \A p \in Procs : ~Replier(p) /\ ~Asker(p) BY <2>1 DEF Replier, Asker, Active, Busy
  <2>3. IssueTypes
    <3>1. finished \in Seq([issue : Questions, answer : Given]) BY <2>1
    <3> QED BY <2>1, <2>2, <3>1 DEF IssueTypes
  <2>4. \A i \in Questions : issueRow[i] = None /\ Unasked(i)
    BY <2>1, <2>2 DEF Unasked, Never, Touches, Opening, Working
  <2> QED BY <2>3, <2>4 DEF IssueInv, IssueHolds
<1>2. Locals /\ IssueInv /\ [Next]_vars => (Locals /\ IssueInv)'
  <2> SUFFICES ASSUME Locals, IssueInv, [Next]_vars PROVE Locals' /\ IssueInv' OBVIOUS
  <2>1. Locals' /\ scene' = scene BY Frame
  <2>2. CASE UNCHANGED issues /\ Rests(IssueOps) BY <2>1, <2>2, IssueRests
  <2>3. CASE \E p \in Procs : May(p, IssueOps) /\ IssuesStep(p) /\ Stays(p, IssueOps)
    <3> PICK p \in Procs : IssuesStep(p) /\ Stays(p, IssueOps) BY <2>3
    <3>1. IssueTypes' BY <2>1, IssueTyped DEF IssueInv
    <3>2. \A j \in Questions : IssueHolds(j)' BY IssueMoves
    <3> QED BY <2>1, <3>1, <3>2 DEF IssueInv
  <2> QED BY <2>1, <2>2, <2>3, Frame
<1>3. IssueInv => IssuesAreSettled
  <2> SUFFICES ASSUME IssueInv, NEW i \in Questions, issueRow[i] # None, i \notin muddled,
                      \A p \in Procs : ~(Busy(p) /\ req[p].op \in IssueOps /\ Issue(p) = i)
               PROVE  LET ends == {n \in 1..Len(finished) : finished[n].issue = i} IN
                      /\ issueHash[i] = issueRow[i]
                      /\ IF i \in open
                         THEN issueRow[i] = NoAnswer /\ ends = {}
                         ELSE Cardinality(ends) = 1 /\ \A n \in ends : finished[n].answer = issueRow[i]
    BY DEF IssuesAreSettled
  <2>1. \A p \in Procs : ~Touches(p, i) BY DEF Touches, Opening, Working, Asker, Replier, Active, Issue
  <2>2. Settled(i) BY <2>1 DEF IssueInv, IssueHolds, Orderly
  <2> DEFINE ends == {n \in 1..Len(finished) : finished[n].issue = i}
  <2>3. Never(i) => ends = {} BY DEF Never
  <2>4. ASSUME Once(i, issueRow[i]) PROVE Cardinality(ends) = 1 /\ \A n \in ends : finished[n].answer = issueRow[i]
    <3> PICK n \in 1..Len(finished) : /\ finished[n].answer = issueRow[i]
                                      /\ \A m \in 1..Len(finished) : finished[m].issue = i <=> m = n
      BY <2>4 DEF Once
    <3>1. ends = {n} OBVIOUS
    <3> QED BY <3>1, FS_Singleton
  <2> QED BY <2>2, <2>3, <2>4 DEF Settled
<1> QED BY <1>1, <1>2, <1>3, PTL DEF Spec

(***************************************************************************)
(* Keepers.                                                                *)
(***************************************************************************)

Keeping(p) == Active(p, KeeperOps)

\* p wrote the field of keeper k and is to commit the row.
Committing(p, k) == At(p, "commitKeeper", Changers) /\ req[p].keeper = k

\* p may have changed a field, and has not put the text of the fields everywhere.
Pending(p) == Keeping(p) /\ pc[p] \in {"commitKeeper", "fields", "setFields", "text", "textHash"}

KeeperTypes ==
  /\ keeperRow = [k \in Keepers |-> keeperRow[k]] /\ keeperHash = [k \in Keepers |-> keeperHash[k]]
  /\ \A p \in Procs : Keeping(p) => req[p].keeper \in Keepers

\* One transaction at a time holds the row of a keeper, or several the gap where there is none.
RowsAreLocked ==
  \A k \in Keepers, p, q \in Procs :
    /\ Held(p, k) /\ (Held(q, k) \/ Gap(q, k)) => p = q
    /\ Gap(p, k) => keeperRow[k] = None

\* A field has what its row has, or is about to have.
FieldsFollow ==
  \A k \in Keepers \ estranged :
    /\ \A p \in Procs : Committing(p, k) => keeperHash[k] = seen[p].row
    /\ (\A p \in Procs : ~Committing(p, k)) => keeperHash[k] \in {None, keeperRow[k]}

TextsFollow ==
  ~mislaid =>
    /\ \A p \in Procs : Keeping(p) /\ pc[p] = "textHash" => keeperText = seen[p].map
    /\ (\A p \in Procs : ~Pending(p)) => keeperText = keeperHash /\ textHash = keeperHash

KeeperInv == KeeperTypes /\ RowsAreLocked /\ FieldsFollow /\ TextsFollow

\* What p's step leaves of the others.
LEMMA OtherKeepers ==
  ASSUME NEW p \in Procs, Handled(p), NEW q \in Procs, q # p
  PROVE  /\ pc'[q] = pc[q] /\ req'[q] = req[q] /\ seen'[q] = seen[q]
         /\ Keeping(q)' <=> Keeping(q)
         /\ Pending(q)' <=> Pending(q)
         /\ \A k : /\ Held(q, k)' <=> Held(q, k)
                   /\ Gap(q, k)' <=> Gap(q, k)
                   /\ Committing(q, k)' <=> Committing(q, k)
<1>1. pc'[q] = pc[q] /\ req'[q] = req[q] /\ seen'[q] = seen[q] BY DEF Handled
<1> QED BY <1>1 DEF Keeping, Active, Busy, Pending, Held, Gap, Committing, At

LEMMA KeeperTyped ==
  ASSUME Locals, KeeperTypes, NEW p \in Procs, KeepersStep(p), Stays(p, KeeperOps), UNCHANGED scene
  PROVE  KeeperTypes'
<1> USE Handling DEF At, Busy
<1>1. keeperRow' = [k \in Keepers |-> keeperRow'[k]] /\ keeperHash' = [k \in Keepers |-> keeperHash'[k]]
  BY DEF KeepersStep, KeeperTypes, keepers, onHttpAssociateKeeperWithStudent, onHttpDisassociateKeeperWithStudent,
         onHttpClassQueryStudent, KeeperClass, KeeperField, NoTransaction, LockKeeper, InsertKeeper, DeadlockedKeeper,
         PutKeeper, CommitKeeper, RefieldKeeper, WardsField, WardsRow, RefieldWards, GetFields, SetAllFields, SetKeeper,
         UpdateText, PutKeeperText, KeeperFails
<1>2. Keeping(p)' => req'[p].keeper \in Keepers
  <2>1. CASE onHttpAssociateKeeperWithStudent(p) \/ onHttpDisassociateKeeperWithStudent(p) \/ onHttpClassQueryStudent(p)
    <3>1. req'[p] \in Calls /\ req'[p].op \in KeeperOps
      BY <2>1 DEF onHttpAssociateKeeperWithStudent, onHttpDisassociateKeeperWithStudent, onHttpClassQueryStudent, KeeperOps
    <3> QED BY <3>1, ChargesAreOfKeepers DEF Locals, Calls
  <2>2. CASE pc'[p] = "idle" BY <2>2 DEF Keeping, Active
  <2>3. CASE Busy(p) /\ req'[p] = req[p] BY <2>3 DEF Keeping, Active, KeeperTypes
  <2>4. \/ onHttpAssociateKeeperWithStudent(p) \/ onHttpDisassociateKeeperWithStudent(p) \/ onHttpClassQueryStudent(p)
        \/ pc'[p] = "idle" \/ (Busy(p) /\ req'[p] = req[p])
    BY DEF KeepersStep, KeeperClass, KeeperField, NoTransaction, LockKeeper, InsertKeeper, DeadlockedKeeper,
           PutKeeper, CommitKeeper, RefieldKeeper, WardsField, WardsRow, RefieldWards, GetFields, SetAllFields,
           UpdateText, PutKeeperText, KeeperFails
  <2> QED BY <2>1, <2>2, <2>3, <2>4
<1>3. ASSUME NEW q \in Procs PROVE (Keeping(q) => req[q].keeper \in Keepers)'
  <2>1. CASE q = p BY <1>2, <2>1
  <2>2. CASE q # p BY <2>2, OtherKeepers DEF Stays, KeeperTypes
  <2> QED BY <2>1, <2>2
<1> QED BY <1>1, <1>3 DEF KeeperTypes

\* Steps that neither write nor fail.
Reading(p) ==
  \/ onHttpAssociateKeeperWithStudent(p) \/ onHttpDisassociateKeeperWithStudent(p) \/ onHttpClassQueryStudent(p)
  \/ KeeperClass(p) \/ KeeperField(p) \/ NoTransaction(p) \/ LockKeeper(p) \/ InsertKeeper(p) \/ DeadlockedKeeper(p)
  \/ WardsField(p) \/ WardsRow(p) \/ GetFields(p)

LEMMA ReadingLeaves ==
  ASSUME Locals, NEW p \in Procs, Reading(p)
  PROVE  /\ UNCHANGED keepers
         /\ pc[p] \notin {"commitKeeper", "setFields", "text", "textHash"} /\ pc'[p] \notin {"commitKeeper", "textHash"}
         /\ pc[p] = "fields" => pc'[p] \in {"text", "setFields"}
         /\ LockKeeper(p) \/ InsertKeeper(p) \/ pc'[p] \notin {"gap", "held"}
<1> USE Handling DEF At, Busy
<1> QED BY DEF Reading, onHttpAssociateKeeperWithStudent, onHttpDisassociateKeeperWithStudent,
         onHttpClassQueryStudent, KeeperClass, KeeperField, NoTransaction, LockKeeper, InsertKeeper, DeadlockedKeeper,
         WardsField, WardsRow, GetFields

LEMMA RowsStayLocked ==
  ASSUME Locals, KeeperInv, NEW p \in Procs, May(p, KeeperOps), KeepersStep(p), Stays(p, KeeperOps)
  PROVE  RowsAreLocked'
<1> USE Handling DEF At, Busy
<1>0. \A q \in Procs \ {p} : \A k : (Held(q, k)' <=> Held(q, k)) /\ (Gap(q, k)' <=> Gap(q, k))
  BY OtherKeepers DEF Stays
<1>i. KeeperTypes /\ RowsAreLocked BY DEF KeeperInv
<1>h. /\ pc'[p] \notin {"held", "commitKeeper"} => \A k : ~Held(p, k)'
      /\ pc'[p] # "gap" => \A k : ~Gap(p, k)'
      /\ \A k : Held(p, k)' \/ Gap(p, k)' => k = req'[p].keeper
  BY DEF Held, Gap
<1>1. CASE UNCHANGED keeperRow /\ pc'[p] \notin {"gap", "held", "commitKeeper"}
  <2>1. \A k : ~Held(p, k)' /\ ~Gap(p, k)' BY <1>1, <1>h
  <2> QED BY <1>0, <1>1, <1>i, <2>1 DEF RowsAreLocked
<1>2. CASE LockKeeper(p)
  <2> DEFINE r == req[p].keeper
  <2>1. /\ At(p, "lockKeeper", Changers) /\ Unheld(r) /\ UNCHANGED keeperRow /\ req'[p] = req[p]
        /\ pc'[p] \in {"gap", "refield", "held"} /\ (pc'[p] = "gap" <=> keeperRow[r] = None)
    BY <1>2 DEF LockKeeper, keepers
  <2>2. \A q \in Procs : ~Held(q, r) BY <2>1 DEF Unheld
  <2>3. \A k : Held(p, k)' \/ Gap(p, k)' => k = r BY <1>h, <2>1
  <2> HIDE DEF r
  <2>4. CASE pc'[p] = "gap"
    <3>1. \A k : ~Held(p, k)' BY <1>h, <2>4
    <3> QED BY <1>0, <1>i, <2>1, <2>2, <2>3, <2>4, <3>1 DEF RowsAreLocked
  <2>5. CASE pc'[p] # "gap"
    <3>1. \A k : ~Gap(p, k)' BY <1>h, <2>5
    <3>2. r \in Keepers => \A q \in Procs : ~Gap(q, r) BY <1>i, <2>1, <2>5 DEF RowsAreLocked
    <3> QED BY <1>0, <1>i, <2>1, <2>2, <2>3, <3>1, <3>2 DEF RowsAreLocked
  <2> QED BY <2>4, <2>5
<1>3. CASE InsertKeeper(p)
  <2> DEFINE r == req[p].keeper
  <2>1. /\ At(p, "gap", Changers) /\ (\A q \in Procs \ {p} : ~Gap(q, r)) /\ UNCHANGED keeperRow /\ req'[p] = req[p]
        /\ pc'[p] = "held"
    BY <1>3 DEF InsertKeeper, keepers
  <2>2. Gap(p, r) BY <2>1 DEF Gap
  <2>3. \A k : Held(p, k)' \/ Gap(p, k)' => k = r BY <1>h, <2>1
  <2>4. \A k : ~Gap(p, k)' BY <1>h, <2>1
  <2> HIDE DEF r
  <2>5. r \in Keepers => \A q \in Procs \ {p} : ~Held(q, r) BY <1>i, <2>2 DEF RowsAreLocked
  <2> QED BY <1>0, <1>i, <2>1, <2>3, <2>4, <2>5 DEF RowsAreLocked
<1>4. CASE PutKeeper(p)
  <2>1. At(p, "held", Changers) /\ UNCHANGED keeperRow /\ req'[p] = req[p] /\ pc'[p] = "commitKeeper"
    BY <1>4 DEF PutKeeper
  <2>2. \A k : Held(p, k)' => Held(p, k) BY <2>1 DEF Held
  <2>3. \A k : ~Gap(p, k)' BY <1>h, <2>1
  <2> QED BY <1>0, <1>i, <2>1, <2>2, <2>3 DEF RowsAreLocked
<1>5. CASE CommitKeeper(p)
  <2> DEFINE r == req[p].keeper
  <2>1. /\ At(p, "commitKeeper", Changers) /\ pc'[p] = "fields"
        /\ keeperRow' = [keeperRow EXCEPT ![r] = seen[p].row]
    BY <1>5 DEF CommitKeeper
  <2>2. Held(p, r) BY <2>1 DEF Held
  <2>3. \A k : ~Held(p, k)' /\ ~Gap(p, k)' BY <1>h, <2>1
  <2> HIDE DEF r
  <2>4. \A k \in Keepers : k # r => keeperRow'[k] = keeperRow[k] BY <1>i, <2>1 DEF KeeperTypes
  <2>5. r \in Keepers => \A q \in Procs \ {p} : ~Gap(q, r) BY <1>i, <2>2 DEF RowsAreLocked
  <2> QED BY <1>0, <1>i, <2>3, <2>4, <2>5 DEF RowsAreLocked
<1>6. \/ UNCHANGED keeperRow /\ pc'[p] \notin {"gap", "held", "commitKeeper"}
      \/ LockKeeper(p) \/ InsertKeeper(p) \/ PutKeeper(p) \/ CommitKeeper(p)
  <2>1. CASE Reading(p) BY <2>1, ReadingLeaves DEF keepers
  <2>2. CASE RefieldKeeper(p) \/ RefieldWards(p) \/ SetAllFields(p) \/ UpdateText(p) \/ PutKeeperText(p) \/ KeeperFails(p)
    BY <2>2 DEF RefieldKeeper, RefieldWards, SetAllFields, UpdateText, PutKeeperText, KeeperFails
  <2> QED BY <2>1, <2>2 DEF KeepersStep, Reading
<1> QED BY <1>1, <1>2, <1>3, <1>4, <1>5, <1>6

LEMMA FieldsStayTrue ==
  ASSUME Locals, KeeperInv, NEW p \in Procs, May(p, KeeperOps), KeepersStep(p), Stays(p, KeeperOps),
         NEW k \in Keepers, k \notin estranged'
  PROVE  /\ \A q \in Procs : Committing(q, k)' => keeperHash'[k] = seen'[q].row
         /\ (\A q \in Procs : ~Committing(q, k)') => keeperHash'[k] \in {None, keeperRow'[k]}
<1> USE Handling DEF At, Busy
<1> DEFINE r == req[p].keeper
           Goal == /\ \A q \in Procs : Committing(q, k)' => keeperHash'[k] = seen'[q].row
                   /\ (\A q \in Procs : ~Committing(q, k)') => keeperHash'[k] \in {None, keeperRow'[k]}
<1>0. \A q \in Procs \ {p} : (Committing(q, k)' <=> Committing(q, k)) /\ seen'[q] = seen[q]
  BY OtherKeepers DEF Stays
<1>i. KeeperTypes /\ RowsAreLocked /\ FieldsFollow BY DEF KeeperInv
<1>h. /\ pc'[p] # "commitKeeper" => ~Committing(p, k)'
      /\ pc[p] # "commitKeeper" => ~Committing(p, k)
  BY DEF Committing
<1>c. \A q \in Procs : Committing(q, k) => Held(q, k) BY DEF Committing, Held
<1>g. ASSUME keeperHash'[k] = keeperHash[k], keeperRow'[k] = keeperRow[k], k \notin estranged,
             ~Committing(p, k), ~Committing(p, k)'
      PROVE  Goal
  <2>1. /\ \A q \in Procs : Committing(q, k) => keeperHash[k] = seen[q].row
        /\ (\A q \in Procs : ~Committing(q, k)) => keeperHash[k] \in {None, keeperRow[k]}
    BY <1>i, <1>g DEF FieldsFollow
  <2> QED BY <1>0, <1>g, <2>1
<1>w. ASSUME k = r, keeperHash'[k] = seen[p].list, seen[p].list = keeperRow[k], Unheld(k), UNCHANGED keeperRow,
             pc'[p] # "commitKeeper"
      PROVE  Goal
  <2>1. \A q \in Procs : ~Committing(q, k)' BY <1>0, <1>c, <1>h, <1>w DEF Unheld
  <2> QED BY <1>w, <2>1
<1>1. CASE Reading(p)
  <2>1. UNCHANGED keepers /\ pc[p] # "commitKeeper" /\ pc'[p] # "commitKeeper" BY <1>1, ReadingLeaves
  <2> QED BY <1>g, <1>h, <2>1 DEF keepers
<1>2. CASE PutKeeper(p)
  <2>1. /\ At(p, "held", Changers) /\ UNCHANGED keeperRow /\ req'[p] = req[p] /\ seen'[p] = seen[p] /\ pc'[p] = "commitKeeper"
        /\ keeperHash' = [keeperHash EXCEPT ![r] = seen[p].list]
        /\ estranged' = IF seen[p].list = seen[p].row THEN estranged \ {r} ELSE estranged \union {r}
    BY <1>2 DEF PutKeeper, SetKeeper
  <2>2. Held(p, r) BY <2>1 DEF Held
  <2> HIDE DEF r
  <2>4. CASE k = r
    <3>1. keeperHash'[k] = seen[p].list /\ seen[p].list = seen[p].row BY <1>i, <2>1, <2>4 DEF KeeperTypes
    <3>2. \A q \in Procs \ {p} : ~Committing(q, k)' BY <1>0, <1>c, <1>i, <2>2, <2>4 DEF RowsAreLocked
    <3>3. Committing(p, k)' BY <2>1, <2>4 DEF Committing, r
    <3> QED BY <2>1, <3>1, <3>2, <3>3
  <2>5. CASE k # r
    <3>1. ~Committing(p, k) /\ ~Committing(p, k)' BY <2>1, <2>5 DEF Committing, r
    <3>2. keeperHash'[k] = keeperHash[k] /\ k \notin estranged BY <1>i, <2>1, <2>5 DEF KeeperTypes
    <3> QED BY <1>g, <2>1, <3>1, <3>2
  <2> QED BY <2>4, <2>5
<1>3. CASE CommitKeeper(p)
  <2>1. /\ At(p, "commitKeeper", Changers) /\ UNCHANGED <<keeperHash, estranged>> /\ pc'[p] = "fields"
        /\ keeperRow' = [keeperRow EXCEPT ![r] = seen[p].row]
    BY <1>3 DEF CommitKeeper
  <2>2. Committing(p, r) BY <2>1 DEF Committing
  <2> HIDE DEF r
  <2>4. CASE k = r
    <3>1. keeperRow'[k] = seen[p].row BY <1>i, <2>1, <2>4 DEF KeeperTypes
    <3>2. keeperHash[k] = seen[p].row BY <1>i, <2>1, <2>2, <2>4 DEF FieldsFollow
    <3>3. \A q \in Procs \ {p} : ~Committing(q, k)' BY <1>0, <1>c, <1>i, <2>2, <2>4 DEF RowsAreLocked
    <3>4. ~Committing(p, k)' BY <1>h, <2>1
    <3> QED BY <2>1, <3>1, <3>2, <3>3, <3>4
  <2>5. CASE k # r
    <3>1. ~Committing(p, k) /\ ~Committing(p, k)' BY <1>h, <2>1, <2>5 DEF Committing, r
    <3>2. keeperRow'[k] = keeperRow[k] BY <1>i, <2>1, <2>5 DEF KeeperTypes
    <3> QED BY <1>g, <2>1, <3>1, <3>2
  <2> QED BY <2>4, <2>5
<1>4. CASE RefieldKeeper(p) \/ RefieldWards(p)
  <2>1. pc[p] # "commitKeeper" /\ pc'[p] = "fields" /\ UNCHANGED keeperRow
    BY <1>4 DEF RefieldKeeper, RefieldWards
  <2>2. ~Committing(p, k) /\ ~Committing(p, k)' BY <1>h, <2>1
  <2>3. \/ /\ keeperHash' = [keeperHash EXCEPT ![r] = seen[p].list]
           /\ estranged' = IF seen[p].list = keeperRow[r] /\ Unheld(r) THEN estranged \ {r} ELSE estranged \union {r}
        \/ UNCHANGED <<keeperHash, estranged>>
    BY <1>4 DEF RefieldKeeper, RefieldWards, SetKeeper
  <2> HIDE DEF r
  <2>4. CASE UNCHANGED <<keeperHash, estranged>> BY <1>g, <2>1, <2>2, <2>4
  <2>5. CASE /\ keeperHash' = [keeperHash EXCEPT ![r] = seen[p].list]
             /\ estranged' = IF seen[p].list = keeperRow[r] /\ Unheld(r) THEN estranged \ {r} ELSE estranged \union {r}
    <3>1. CASE k = r
      <4>1. keeperHash'[k] = seen[p].list BY <1>i, <2>5, <3>1 DEF KeeperTypes
      <4>2. seen[p].list = keeperRow[k] /\ Unheld(k) BY <2>5, <3>1
      <4> QED BY <1>w, <2>1, <3>1, <4>1, <4>2
    <3>2. CASE k # r
      <4>1. keeperHash'[k] = keeperHash[k] /\ k \notin estranged BY <1>i, <2>5, <3>2 DEF KeeperTypes
      <4> QED BY <1>g, <2>1, <2>2, <4>1
    <3> QED BY <3>1, <3>2
  <2> QED BY <2>3, <2>4, <2>5
<1>5. CASE SetAllFields(p)
  <2> DEFINE m      == seen[p].map
             listed == {i \in Keepers : m[i] # None}
             wrong  == {i \in listed : m[i] # keeperRow[i] \/ ~Unheld(i)}
  <2>1. pc[p] # "commitKeeper" /\ pc'[p] = "text" /\ UNCHANGED keeperRow BY <1>5 DEF SetAllFields
  <2>2. ~Committing(p, k) /\ ~Committing(p, k)' BY <1>h, <2>1
  <2>3. \/ /\ keeperHash' = [i \in Keepers |-> IF i \in listed THEN m[i] ELSE keeperHash[i]]
           /\ estranged'  = (estranged \ listed) \union wrong
        \/ UNCHANGED <<keeperHash, estranged>>
    BY <1>5 DEF SetAllFields
  <2>4. CASE UNCHANGED <<keeperHash, estranged>> BY <1>g, <2>1, <2>2, <2>4
  <2>5. CASE /\ keeperHash' = [i \in Keepers |-> IF i \in listed THEN m[i] ELSE keeperHash[i]]
             /\ estranged'  = (estranged \ listed) \union wrong
    <3>1. CASE k \in listed
      <4>1. keeperHash'[k] = m[k] /\ m[k] = keeperRow[k] /\ Unheld(k) BY <2>5, <3>1
      <4>2. \A q \in Procs : ~Committing(q, k)' BY <1>0, <1>c, <2>2, <4>1 DEF Unheld
      <4> QED BY <2>1, <4>1, <4>2
    <3>2. CASE k \notin listed
      <4>1. keeperHash'[k] = keeperHash[k] /\ k \notin estranged BY <2>5, <3>2
      <4> QED BY <1>g, <2>1, <2>2, <4>1
    <3> QED BY <3>1, <3>2
  <2> QED BY <2>3, <2>4, <2>5
<1>6. CASE UpdateText(p) \/ PutKeeperText(p)
  <2>1. /\ pc[p] # "commitKeeper" /\ pc'[p] # "commitKeeper" /\ UNCHANGED <<keeperRow, keeperHash, estranged>>
    BY <1>6 DEF UpdateText, PutKeeperText
  <2> QED BY <1>g, <1>h, <2>1
<1>7. CASE KeeperFails(p)
  <2>1. /\ pc'[p] = "idle" /\ UNCHANGED <<keeperRow, keeperHash>>
        /\ estranged' = IF pc[p] = "commitKeeper" THEN estranged \union {r} ELSE estranged
    BY <1>7 DEF KeeperFails
  <2>2. ~Committing(p, k) /\ k \notin estranged BY <2>1 DEF Committing
  <2> QED BY <1>g, <1>h, <2>1, <2>2
<1> QED BY <1>1, <1>2, <1>3, <1>4, <1>5, <1>6, <1>7 DEF KeepersStep, Reading

LEMMA TextsStayTrue ==
  ASSUME Locals, KeeperInv, NEW p \in Procs, May(p, KeeperOps), KeepersStep(p), Stays(p, KeeperOps), ~mislaid'
  PROVE  /\ \A q \in Procs : Keeping(q)' /\ pc'[q] = "textHash" => keeperText' = seen'[q].map
         /\ (\A q \in Procs : ~Pending(q)') => keeperText' = keeperHash' /\ textHash' = keeperHash'
<1> USE Handling DEF At, Busy
<1> DEFINE Goal == /\ \A q \in Procs : Keeping(q)' /\ pc'[q] = "textHash" => keeperText' = seen'[q].map
                   /\ (\A q \in Procs : ~Pending(q)') => keeperText' = keeperHash' /\ textHash' = keeperHash'
<1>0. \A q \in Procs \ {p} : /\ pc'[q] = pc[q] /\ seen'[q] = seen[q] /\ (Keeping(q)' <=> Keeping(q))
                             /\ Pending(q)' <=> Pending(q)
  BY OtherKeepers DEF Stays
<1>m. pc[p] # "idle" => Keeping(p) BY DEF May, Keeping, Active
<1>n. pc'[p] # "idle" /\ req'[p] = req[p] => Keeping(p)' BY DEF Stays, Keeping, Active
<1>t. ASSUME ~mislaid, UNCHANGED <<keeperText, textHash>>, pc'[p] # "textHash",
             Pending(p)' \/ (~Pending(p) /\ UNCHANGED keeperHash)
      PROVE  Goal
  <2>1. /\ \A q \in Procs : Keeping(q) /\ pc[q] = "textHash" => keeperText = seen[q].map
        /\ (\A q \in Procs : ~Pending(q)) => keeperText = keeperHash /\ textHash = keeperHash
    BY <1>t DEF KeeperInv, TextsFollow
  <2>2. \A q \in Procs : Keeping(q)' /\ pc'[q] = "textHash" => keeperText' = seen'[q].map BY <1>0, <1>t, <2>1
  <2>3. CASE Pending(p)' BY <2>2, <2>3
  <2>4. CASE ~Pending(p) /\ UNCHANGED keeperHash BY <1>0, <1>t, <2>1, <2>2, <2>4
  <2> QED BY <1>t, <2>3, <2>4
<1>1. CASE Reading(p)
  <2>0. /\ UNCHANGED keepers /\ pc[p] \notin {"commitKeeper", "setFields", "text", "textHash"} /\ pc'[p] # "textHash"
        /\ pc[p] = "fields" => pc'[p] \in {"text", "setFields"}
    BY <1>1, ReadingLeaves
  <2>1. CASE pc[p] = "fields"
    <3>1. req'[p] = req[p]
      BY <1>1, <2>1 DEF Reading, onHttpAssociateKeeperWithStudent, onHttpDisassociateKeeperWithStudent,
         onHttpClassQueryStudent, KeeperClass, KeeperField, NoTransaction, LockKeeper, InsertKeeper, DeadlockedKeeper,
         WardsField, WardsRow, GetFields
    <3>2. Pending(p)' BY <1>n, <2>0, <2>1, <3>1 DEF Pending
    <3> QED BY <1>t, <2>0, <3>2 DEF keepers
  <2>2. CASE pc[p] # "fields"
    <3>1. ~Pending(p) BY <2>0, <2>2 DEF Pending
    <3> QED BY <1>t, <2>0, <3>1 DEF keepers
  <2> QED BY <2>1, <2>2
<1>2. CASE PutKeeper(p) \/ CommitKeeper(p) \/ RefieldKeeper(p) \/ RefieldWards(p) \/ SetAllFields(p)
  <2>1. /\ pc'[p] \in {"commitKeeper", "fields", "text"} /\ req'[p] = req[p] /\ UNCHANGED <<keeperText, textHash, mislaid>>
    BY <1>2 DEF PutKeeper, CommitKeeper, RefieldKeeper, RefieldWards, SetAllFields
  <2>2. Pending(p)' BY <1>n, <2>1 DEF Pending
  <2> QED BY <1>t, <2>1, <2>2
<1>3. CASE UpdateText(p)
  <2>1. /\ pc'[p] = "textHash" /\ req'[p] = req[p] /\ seen'[p] = seen[p] /\ keeperText' = seen[p].map
        /\ ~Overtaken(p)
    BY <1>3 DEF UpdateText
  <2>2. \A q \in Procs \ {p} : pc[q] # "textHash" BY <2>1 DEF Overtaken
  <2>3. Pending(p)' BY <1>n, <2>1 DEF Pending
  <2> QED BY <1>0, <2>1, <2>2, <2>3
<1>4. CASE PutKeeperText(p)
  <2>1. /\ pc[p] = "textHash" /\ pc'[p] = "idle" /\ textHash' = seen[p].map /\ ~mislaid /\ ~Overtaken(p)
        /\ UNCHANGED <<keeperHash, keeperText>>
    BY <1>4 DEF PutKeeperText
  <2>2. \A q \in Procs \ {p} : pc[q] # "textHash" BY <2>1 DEF Overtaken
  <2>3. seen[p].map = keeperHash BY <2>1 DEF Overtaken
  <2>4. keeperText = seen[p].map BY <1>m, <2>1 DEF KeeperInv, TextsFollow
  <2> QED BY <1>0, <2>1, <2>2, <2>3, <2>4
<1>5. CASE KeeperFails(p)
  <2>1. /\ pc'[p] = "idle" /\ UNCHANGED <<keeperHash, keeperText, textHash>>
        /\ ~mislaid /\ pc[p] \notin {"commitKeeper", "fields", "setFields", "text", "textHash"}
    BY <1>5 DEF KeeperFails
  <2>2. ~Pending(p) BY <2>1 DEF Pending
  <2> QED BY <1>t, <2>1, <2>2
<1> QED BY <1>1, <1>2, <1>3, <1>4, <1>5 DEF KeepersStep, Reading

LEMMA KeepersRest ==
  ASSUME KeeperInv, UNCHANGED keepers, Rests(KeeperOps)
  PROVE  KeeperInv'
<1>0. UNCHANGED <<keeperRow, keeperHash, keeperText, textHash, estranged, mislaid>> BY DEF keepers
<1>1. \A q \in Procs : /\ Keeping(q)' <=> Keeping(q)
                       /\ Keeping(q) => pc'[q] = pc[q] /\ req'[q] = req[q] /\ seen'[q] = seen[q]
  BY DEF Rests, Keeping
<1>2. \A q \in Procs : (Pending(q)' <=> Pending(q)) BY <1>1 DEF Pending
<1>3. \A q \in Procs, k \in Keepers : /\ Held(q, k)' <=> Held(q, k)
                                      /\ Gap(q, k)' <=> Gap(q, k)
                                      /\ Committing(q, k)' <=> Committing(q, k)
                                      /\ Committing(q, k) => Keeping(q)
  BY <1>1 DEF Held, Gap, Committing, At, Keeping, Active, Busy, Changers, KeeperOps
<1>4. KeeperTypes' BY <1>0, <1>1 DEF KeeperInv, KeeperTypes
<1>5. RowsAreLocked' BY <1>0, <1>3 DEF KeeperInv, RowsAreLocked
<1>6. FieldsFollow' BY <1>0, <1>1, <1>3 DEF KeeperInv, FieldsFollow
<1>7. TextsFollow' BY <1>0, <1>1, <1>2 DEF KeeperInv, TextsFollow
<1> QED BY <1>4, <1>5, <1>6, <1>7 DEF KeeperInv

\* When no handler is at them, the field of each keeper is the row's and the text of the
\* class is that of the fields, but for those that a failure or another handler met.
THEOREM KeepersGetToAgree == Spec => []KeepersAgree
<1>1. Init => Locals /\ KeeperInv
  <2> SUFFICES ASSUME Init PROVE KeeperInv BY LocalsInit
  <2> PICK lost \in BOOLEAN : keeperHash = (IF lost THEN [k \in Keepers |-> None] ELSE Charges) /\ mislaid = lost
    BY DEF Init, KeepersInit
  <2>1. keeperRow = Charges /\ keeperText = Charges /\ textHash = Charges /\ \A p \in Procs : pc[p] = "idle"
    BY DEF Init, KeepersInit, HandlersInit
  <2>2. \A p \in Procs : ~Keeping(p) BY <2>1 DEF Keeping, Active, Busy
  <2>3. \A p \in Procs : \A k : ~Held(p, k) /\ ~Gap(p, k) /\ ~Committing(p, k)
    BY <2>1 DEF Held, Gap, Committing, At
  <2>4. KeeperTypes
    <3>1. Charges = [k \in Keepers |-> Charges[k]] BY ChargesAreOfKeepers
    <3>2. keeperHash = [k \in Keepers |-> keeperHash[k]] BY <3>1
    <3> QED BY <2>1, <2>2, <3>1, <3>2 DEF KeeperTypes
  <2>5. RowsAreLocked BY <2>3 DEF RowsAreLocked
  <2>6. FieldsFollow BY <2>1, <2>3 DEF FieldsFollow
  <2>7. TextsFollow BY <2>1, <2>2 DEF TextsFollow
  <2> QED BY <2>4, <2>5, <2>6, <2>7 DEF KeeperInv
<1>2. Locals /\ KeeperInv /\ [Next]_vars => (Locals /\ KeeperInv)'
  <2> SUFFICES ASSUME Locals, KeeperInv, [Next]_vars PROVE Locals' /\ KeeperInv' OBVIOUS
  <2>1. Locals' /\ scene' = scene BY Frame
  <2>2. CASE UNCHANGED keepers /\ Rests(KeeperOps) BY <2>1, <2>2, KeepersRest
  <2>3. CASE \E p \in Procs : May(p, KeeperOps) /\ KeepersStep(p) /\ Stays(p, KeeperOps)
    <3> PICK p \in Procs : May(p, KeeperOps) /\ KeepersStep(p) /\ Stays(p, KeeperOps) BY <2>3
    <3>1. KeeperTypes' BY <2>1, KeeperTyped DEF KeeperInv
    <3>2. RowsAreLocked' BY RowsStayLocked
    <3>3. FieldsFollow' BY FieldsStayTrue DEF FieldsFollow
    <3>4. TextsFollow' BY TextsStayTrue DEF TextsFollow
    <3> QED BY <2>1, <3>1, <3>2, <3>3, <3>4 DEF KeeperInv
  <2> QED BY <2>1, <2>2, <2>3, Frame
<1>3. KeeperInv => KeepersAgree
  <2> SUFFICES ASSUME KeeperInv,
                      \A p \in Procs : Busy(p) => req[p].op \notin KeeperOps \/ pc[p] \in {"keeperClass", "keeperField"}
               PROVE  /\ \A k \in Keepers \ estranged : keeperHash[k] \in {None, keeperRow[k]}
                      /\ ~mislaid => keeperText = keeperHash /\ textHash = keeperHash
    BY DEF KeepersAgree
  <2>1. \A p \in Procs : ~Pending(p) BY DEF Pending, Keeping, Active
  <2>2. \A p \in Procs : \A k : ~Committing(p, k) BY DEF Committing, At, Changers, KeeperOps, Busy
  <2> QED BY <2>1, <2>2 DEF KeeperInv, FieldsFollow, TextsFollow
<1> QED BY <1>1, <1>2, <1>3, PTL DEF Spec

(***************************************************************************)
(* Exams.                                                                  *)
(***************************************************************************)

Editions == [gd : GdExams, rev : Nat]
ExamRows == [gd : GdExams, answers : GdExams \X Nat]
Drafts   == [exam : Exams \union {None}, row : ExamRows \union {None}, edition : Editions \union {None}]

\* The Gd exam was like this once.
Past(d) == d \in Editions /\ d.rev <= revision[d.gd]

Examining(p) == Active(p, ExamOps)
Fills(p, e)  == Examining(p) /\ pc[p] = "fill" /\ Exam(p) = e

ExamTypes ==
  /\ revision \in [GdExams -> Nat]
  /\ examRow \in [Exams -> ExamRows \union {None}] /\ examHash = [e \in Exams |-> examHash[e]]
  /\ paper = [e \in Exams |-> paper[e]] /\ items = [e \in Exams |-> items[e]]

Made(e) == e \in Exams /\ examRow[e] # None

\* What a handler has read when it comes to a step.
Prepared(p) ==
  /\ seen[p] \in Drafts /\ (seen[p].edition # None => Past(seen[p].edition))
  /\ req[p].op # "import" => req[p].exam \in Exams
  /\ req[p].op \in {"import", "reimport"} => req[p].gd \in GdExams
  /\ pc[p] \in {"idle", "fetch", "insert", "put", "select", "fill", "update", "updateHash", "upload", "item", "putItems"}
  /\ pc[p] = "fetch" =>
       /\ seen[p].edition = None /\ req[p].op \in {"import", "reimport", "resyncExam"}
       /\ req[p].op = "resyncExam" => seen[p].row \in ExamRows
       /\ req[p].op = "import" => seen[p].exam = None
  /\ pc[p] = "insert" => req[p].op = "import" /\ seen[p].edition # None /\ seen[p].exam = None
  /\ pc[p] = "put" => req[p].op = "import" /\ seen[p].edition # None /\ Made(seen[p].exam)
  /\ pc[p] = "select" => req[p].op \in {"reimport", "resyncExam", "look"}
  /\ pc[p] = "fill" => req[p].op \in {"reimport", "resyncExam", "look"} /\ seen[p].row \in ExamRows /\ Made(req[p].exam)
  /\ pc[p] \in {"update", "updateHash"} => /\ req[p].op \in {"reimport", "resyncExam"}
                                           /\ seen[p].edition # None /\ Made(req[p].exam)
  /\ pc[p] = "upload" => /\ req[p].op \in {"import", "reimport", "resyncExam"}
                         /\ seen[p].edition # None /\ Made(Exam(p))
  /\ pc[p] = "item" => req[p].op = "item"
  /\ pc[p] = "putItems" => /\ req[p].op = "item" /\ seen[p].edition # None
                           /\ Made(req[p].exam) /\ seen[p].edition.gd = examRow[req[p].exam].gd

\* What is kept of every exam.
Kept(e) ==
  /\ examRow[e] = None => paper[e] = None /\ items[e] = None
  /\ paper[e] # None => Past(paper[e])
  /\ items[e] # None => Past(items[e]) /\ items[e].gd = examRow[e].gd

\* The copies of an exam that nobody writes.
Matched(e) == examRow[e] # None => examHash[e] = examRow[e] /\ examRow[e].answers = Answers(paper[e]).answers

\* The copies of an exam that handler p writes.
Written(p, e) ==
  /\ pc[p] \in {"put", "updateHash", "upload"} => examRow[e].answers = Answers(seen[p].edition).answers
  /\ pc[p] = "put" => examRow[e] = Answers(seen[p].edition)
  /\ pc[p] = "updateHash" => examHash[e] \in ExamRows /\ examHash[e].gd = examRow[e].gd
  /\ pc[p] = "upload" => examHash[e] = examRow[e]

Calm == {"select", "fill", "update"}

\* One handler at a time imports an exam that two did not meet at.
OneImporter(e) ==
  /\ \A p \in Procs : Fills(p, e) => seen[p].row = examRow[e]
  /\ \A p, q \in Procs : Imports(p, e) /\ Imports(q, e) => p = q
  /\ (\A p \in Procs : Imports(p, e) => pc[p] \in Calm) => Matched(e)
  /\ \A p \in Procs : Imports(p, e) => Written(p, e)

ExamInv ==
  /\ ExamTypes
  /\ \A p \in Procs : Examining(p) => Prepared(p)
  /\ \A e \in Exams : Kept(e)
  /\ \A e \in Exams \ crossed : OneImporter(e)

LEMMA AnswersMade ==
  ASSUME NEW d \in Editions
  PROVE  Answers(d) \in ExamRows /\ Answers(d).gd = d.gd /\ Answers(d) # None /\ d # None
<1>1. (d.rev + 1) \div 2 \in Nat BY DEF Editions
<1>2. Answers(d) \in ExamRows /\ Answers(d).gd = d.gd BY <1>1 DEF Answers, Editions, ExamRows
<1> QED BY <1>2, RequestsOfExams DEF ExamRows, Editions

\* Changing the answers of an exam.
LEMMA Reanswered ==
  ASSUME NEW r \in ExamRows, NEW a \in GdExams \X Nat
  PROVE  /\ [r EXCEPT !.answers = a] \in ExamRows
         /\ [r EXCEPT !.answers = a].answers = a /\ [r EXCEPT !.answers = a].gd = r.gd
BY DEF ExamRows

LEMMA SameExam == ASSUME NEW r \in ExamRows, NEW s \in ExamRows, r.gd = s.gd, r.answers = s.answers PROVE r = s
BY DEF ExamRows

\* Exams are not deleted and stay what they were made of.
RowsGrow == \A e \in Exams : examRow[e] # None => examRow'[e] # None /\ examRow'[e].gd = examRow[e].gd
Later    == \A g \in GdExams : revision[g] <= revision'[g]

LEMMA PastStays ==
  ASSUME revision \in [GdExams -> Nat], revision' \in [GdExams -> Nat], Later
  PROVE  \A d : Past(d) => Past(d)'
BY DEF Past, Later, Editions

LEMMA PreparedStays ==
  ASSUME ExamTypes, revision' \in [GdExams -> Nat], RowsGrow, Later, NEW q,
         pc'[q] = pc[q], req'[q] = req[q], seen'[q] = seen[q], Prepared(q)
  PROVE  Prepared(q)'
<1>1. \A d : Past(d) => Past(d)' BY PastStays DEF ExamTypes
<1>2. \A e : Made(e) => Made(e)' /\ examRow'[e].gd = examRow[e].gd BY DEF Made, RowsGrow
<1>3. Exam(q)' = Exam(q) BY DEF Exam
<1> QED BY <1>1, <1>2, <1>3 DEF Prepared

LEMMA KeptStays ==
  ASSUME ExamTypes, revision' \in [GdExams -> Nat], RowsGrow, Later, NEW e \in Exams, Kept(e), examRow'[e] = examRow[e] \/ examRow[e] # None,
         paper'[e] = paper[e], items'[e] = items[e]
  PROVE  Kept(e)'
<1>1. \A d : Past(d) => Past(d)' BY PastStays DEF ExamTypes
<1> QED BY <1>1 DEF Kept, RowsGrow

\* What p's step leaves of the others.
LEMMA OtherExaminers ==
  ASSUME NEW p \in Procs, Handled(p), NEW q \in Procs, q # p
  PROVE  /\ pc'[q] = pc[q] /\ req'[q] = req[q] /\ seen'[q] = seen[q]
         /\ Examining(q)' <=> Examining(q)
         /\ \A e : (Fills(q, e)' <=> Fills(q, e)) /\ (Imports(q, e)' <=> Imports(q, e))
<1>1. pc'[q] = pc[q] /\ req'[q] = req[q] /\ seen'[q] = seen[q] BY DEF Handled
<1> QED BY <1>1 DEF Examining, Active, Busy, Fills, Imports, Exam

LEMMA ExamTyped ==
  ASSUME Locals, ExamInv, NEW p \in Procs, May(p, ExamOps), ExamsStep(p), Stays(p, ExamOps)
  PROVE  ExamTypes' /\ RowsGrow /\ UNCHANGED revision
<1> USE Handling DEF At, Busy
<1>0. ExamTypes BY DEF ExamInv
<1>p. pc[p] # "idle" => Prepared(p) BY DEF ExamInv, Examining, Active, May
<1>1. UNCHANGED revision
  BY DEF ExamsStep, exams, onHttpAddExamToMeeting, onHttpResyncExam, onHttpAuthorizeExam, onHttpGetIssueResource, Ask,
         SelectExam, FillExam, FetchExam, InsertExam, PutExam, UpdateExam, UpdateExamHash, UploadExam, FindItem, PutItems, ExamFails
<1>2. /\ examHash' = [e \in Exams |-> examHash'[e]] /\ paper' = [e \in Exams |-> paper'[e]] /\ items' = [e \in Exams |-> items'[e]]
  BY <1>0 DEF ExamTypes, ExamsStep, exams, onHttpAddExamToMeeting, onHttpResyncExam, onHttpAuthorizeExam, onHttpGetIssueResource, Ask,
         SelectExam, FillExam, FetchExam, InsertExam, PutExam, UpdateExam, UpdateExamHash, UploadExam, FindItem, PutItems, ExamFails
<1>3. examRow' \in [Exams -> ExamRows \union {None}] /\ RowsGrow
  <2>1. CASE UNCHANGED examRow BY <1>0, <2>1 DEF ExamTypes, RowsGrow
  <2>2. CASE InsertExam(p)
    <3> PICK e \in Exams : examRow[e] = None /\ examRow' = [examRow EXCEPT ![e] = Answers(seen[p].edition)]
      BY <2>2 DEF InsertExam
    <3>1. Prepared(p) /\ pc[p] = "insert" BY <1>p, <2>2 DEF InsertExam
    <3>2. seen[p].edition \in Editions BY <3>1 DEF Prepared, Past
    <3>3. Answers(seen[p].edition) \in ExamRows BY <3>2, AnswersMade
    <3> QED BY <1>0, <3>3 DEF ExamTypes, RowsGrow
  <2>3. CASE UpdateExam(p) /\ ~UNCHANGED examRow
    <3> DEFINE e == Exam(p)
               a == Answers(seen[p].edition).answers
    <3>1. examRow' = [examRow EXCEPT ![e] = [examRow[e] EXCEPT !.answers = a]] BY <2>3 DEF UpdateExam
    <3>2. Prepared(p) /\ pc[p] = "update" BY <1>p, <2>3 DEF UpdateExam
    <3>3. e \in Exams /\ examRow[e] \in ExamRows BY <1>0, <3>2 DEF Prepared, Made, ExamTypes, Exam
    <3>4. a \in GdExams \X Nat
      <4>1. seen[p].edition \in Editions BY <3>2 DEF Prepared, Past
      <4> QED BY <4>1, AnswersMade DEF ExamRows
    <3> HIDE DEF e, a
    <3>5. [examRow[e] EXCEPT !.answers = a] \in ExamRows /\ [examRow[e] EXCEPT !.answers = a].gd = examRow[e].gd
      BY <3>3, <3>4, Reanswered
    <3>6. [examRow[e] EXCEPT !.answers = a] # None BY <3>5, RequestsOfExams DEF ExamRows
    <3>7. \A f \in Exams : f # e => examRow'[f] = examRow[f] BY <1>0, <3>1 DEF ExamTypes
    <3>8. examRow'[e] = [examRow[e] EXCEPT !.answers = a] BY <1>0, <3>1, <3>3 DEF ExamTypes
    <3> QED BY <1>0, <3>1, <3>3, <3>5, <3>6, <3>7, <3>8 DEF ExamTypes, RowsGrow
  <2>4. UNCHANGED examRow \/ InsertExam(p) \/ UpdateExam(p)
    BY DEF ExamsStep, exams, onHttpAddExamToMeeting, onHttpResyncExam, onHttpAuthorizeExam, onHttpGetIssueResource, Ask,
         SelectExam, FillExam, FetchExam, PutExam, UpdateExamHash, UploadExam, FindItem, PutItems, ExamFails
  <2> QED BY <2>1, <2>2, <2>3, <2>4
<1> QED BY <1>0, <1>1, <1>2, <1>3 DEF ExamTypes

LEMMA ExaminerMoves ==
  ASSUME Locals, ExamInv, NEW p \in Procs, May(p, ExamOps), ExamsStep(p), Stays(p, ExamOps), Examining(p)'
  PROVE  Prepared(p)'
<1> USE Handling DEF At, Busy, Made, Past
<1>i. ExamTypes BY DEF ExamInv
<1>p. pc[p] # "idle" => Prepared(p) BY DEF ExamInv, Examining, Active, May
<1>n. pc'[p] # "idle" BY DEF Examining, Active
<1>g. RowsGrow /\ UNCHANGED revision BY ExamTyped
<1>u. UNCHANGED revision BY <1>g
<1>d. None \notin Editions /\ None \notin ExamRows BY RequestsOfExams DEF Editions, ExamRows
<1>m. \A e : Made(e) => Made(e)' /\ examRow'[e].gd = examRow[e].gd BY <1>g DEF Made, RowsGrow
\* A handler that goes on with its request and what it read.
<1>k. ASSUME pc[p] # "idle", req'[p] = req[p], seen'[p] = seen[p]
      PROVE  /\ seen'[p] \in Drafts /\ (seen'[p].edition # None => Past(seen[p].edition)')
             /\ req'[p].op # "import" => req'[p].exam \in Exams
             /\ req'[p].op \in {"import", "reimport"} => req'[p].gd \in GdExams
  BY <1>p, <1>u, <1>k DEF Prepared
<1>1. CASE onHttpAddExamToMeeting(p) \/ onHttpResyncExam(p) \/ onHttpAuthorizeExam(p) \/ onHttpGetIssueResource(p)
  <2>1. /\ req'[p] \in Calls /\ seen'[p] = Blank /\ req'[p].op \in ExamOps
        /\ \/ pc'[p] = "fetch" /\ req'[p].op \in {"import", "reimport"}
           \/ pc'[p] = "select" /\ req'[p].op \in {"resyncExam", "look"}
           \/ pc'[p] = "item" /\ req'[p].op = "item"
    BY <1>1 DEF onHttpAddExamToMeeting, onHttpResyncExam, onHttpAuthorizeExam, onHttpGetIssueResource, Ask, ExamOps
  <2>2. /\ req'[p].op \in ExamOps \ {"import"} => req'[p].exam \in Exams
        /\ req'[p].op \in {"import", "reimport"} => req'[p].gd \in GdExams
    BY <2>1, RequestsOfExams DEF Locals, Calls
  <2>3. Blank \in Drafts /\ Blank.edition = None /\ Blank.exam = None BY DEF Blank, Drafts
  <2> QED BY <2>1, <2>2, <2>3 DEF Prepared
<1>2. CASE SelectExam(p)
  <2>1. /\ pc[p] = "select" /\ pc'[p] = "fill" /\ req'[p] = req[p] /\ examRow[Exam(p)] # None
        /\ seen'[p] = [seen[p] EXCEPT !.row = examRow[Exam(p)]]
    BY <1>2, <1>n DEF SelectExam
  <2>2. Prepared(p) BY <1>p, <2>1
  <2>3. Exam(p) = req[p].exam /\ Exam(p) \in Exams BY <2>1, <2>2 DEF Exam, Prepared
  <2>4. examRow[Exam(p)] \in ExamRows BY <1>i, <2>1, <2>3 DEF ExamTypes
  <2>5. seen'[p] \in Drafts /\ seen'[p].edition = seen[p].edition /\ seen'[p].row = examRow[Exam(p)]
    BY <2>1, <2>2, <2>4 DEF Prepared, Drafts
  <2>6. Made(req[p].exam)' BY <1>m, <2>1, <2>3 DEF Made
  <2>7. seen'[p].edition # None => Past(seen[p].edition)' BY <1>u, <2>2, <2>5 DEF Prepared
  <2>8. Made(req[p].exam)' BY <2>1, <2>6
  <2> QED BY <2>1, <2>2, <2>4, <2>5, <2>7, <2>8 DEF Prepared
<1>3. CASE FillExam(p)
  <2>1. /\ pc[p] = "fill" /\ pc'[p] \in {"fetch", "upload", "update"} /\ req'[p] = req[p] /\ seen'[p] = seen[p]
        /\ req[p].op # "look" /\ (pc'[p] = "fetch" <=> seen[p].edition = None)
    BY <1>3, <1>n DEF FillExam
  <2>2. Prepared(p) BY <1>p, <2>1
  <2>3. Made(req[p].exam)' BY <1>m, <2>1, <2>2 DEF Prepared
  <2>4. req'[p].op # "import" /\ Exam(p)' = req'[p].exam BY <2>1, <2>2 DEF Prepared, Exam
  <2>5. Made(Exam(p))' BY <2>3, <2>4
  <2>6. req'[p].op = "resyncExam" => seen'[p].row \in ExamRows BY <2>1, <2>2 DEF Prepared
  <2>7. req'[p].op \in {"reimport", "resyncExam"} BY <2>1, <2>2 DEF Prepared
  <2> QED BY <1>k, <2>1, <2>3, <2>4, <2>5, <2>6, <2>7 DEF Prepared
<1>4. CASE FetchExam(p)
  <2> DEFINE g == IF req[p].op = "resyncExam" THEN seen[p].row.gd ELSE req[p].gd
  <2>1. /\ pc[p] = "fetch" /\ req'[p] = req[p] /\ pc'[p] = (IF req[p].op = "import" THEN "insert" ELSE "select")
        /\ seen'[p] = [seen[p] EXCEPT !.edition = Edition(g)]
    BY <1>4 DEF FetchExam
  <2>2. Prepared(p) BY <1>p, <2>1
  <2>3. g \in GdExams BY <2>1, <2>2 DEF Prepared, ExamRows
  <2> HIDE DEF g
  <2>4. Edition(g) \in Editions /\ Edition(g).gd = g /\ Edition(g).rev = revision[g]
    BY <1>i, <2>3 DEF Edition, Editions, ExamTypes
  <2>5. Past(Edition(g)) /\ Edition(g) # None BY <1>d, <1>i, <2>3, <2>4 DEF Past, ExamTypes
  <2>6. seen'[p] \in Drafts /\ seen'[p].edition = Edition(g) /\ seen'[p].exam = seen[p].exam
    BY <2>1, <2>2, <2>4 DEF Prepared, Drafts
  <2> PICK d : d = Edition(g) OBVIOUS
  <2>7. Past(d)' /\ seen'[p].edition = d /\ d # None BY <1>u, <2>5, <2>6
  <2>8. Past(seen[p].edition)' /\ seen'[p].edition # None BY <2>7
  <2> QED BY <2>1, <2>2, <2>6, <2>8 DEF Prepared
<1>5. CASE InsertExam(p)
  <2> PICK e \in Exams : /\ examRow[e] = None /\ examRow' = [examRow EXCEPT ![e] = Answers(seen[p].edition)]
                         /\ With(p, "put", [seen[p] EXCEPT !.exam = e])
    BY <1>5 DEF InsertExam
  <2>1. pc[p] = "insert" /\ pc'[p] = "put" /\ req'[p] = req[p] /\ seen'[p] = [seen[p] EXCEPT !.exam = e]
    BY <1>5 DEF InsertExam
  <2>2. Prepared(p) BY <1>p, <2>1
  <2>3. seen'[p] \in Drafts /\ seen'[p].edition = seen[p].edition /\ seen'[p].exam = e BY <2>1, <2>2 DEF Prepared, Drafts
  <2>4. examRow'[e] # None
    <3>1. seen[p].edition \in Editions BY <2>1, <2>2 DEF Prepared, Past
    <3>2. Answers(seen[p].edition) # None BY <3>1, AnswersMade
    <3> QED BY <1>i, <3>2 DEF ExamTypes
  <2>5. Made(e)' BY <2>4 DEF Made
  <2>6. Past(seen[p].edition)' /\ seen'[p].edition # None BY <1>u, <2>1, <2>2, <2>3 DEF Prepared
  <2>7. Made(seen[p].exam)' BY <2>3, <2>5
  <2> QED BY <2>1, <2>2, <2>3, <2>6, <2>7 DEF Prepared
<1>6. CASE PutExam(p)
  <2>1. pc[p] = "put" /\ pc'[p] = "upload" /\ req'[p] = req[p] /\ seen'[p] = seen[p] BY <1>6 DEF PutExam
  <2>2. Prepared(p) BY <1>p, <2>1
  <2>3. req'[p].op = "import" /\ Exam(p)' = seen'[p].exam /\ Made(seen[p].exam)' BY <1>m, <2>1, <2>2 DEF Prepared, Exam
  <2>4. Made(Exam(p))' BY <2>3
  <2> QED BY <1>k, <2>1, <2>2, <2>3, <2>4 DEF Prepared
<1>7. CASE UpdateExam(p) \/ UpdateExamHash(p)
  <2>1. /\ pc[p] \in {"update", "updateHash"} /\ pc'[p] \in {"updateHash", "upload"} /\ req'[p] = req[p] /\ seen'[p] = seen[p]
    BY <1>7 DEF UpdateExam, UpdateExamHash
  <2>2. Prepared(p) BY <1>p, <2>1
  <2>3. req'[p].op \in {"reimport", "resyncExam"} /\ Exam(p)' = req'[p].exam /\ Made(req[p].exam)'
    BY <1>m, <2>1, <2>2 DEF Prepared, Exam
  <2>4. Made(Exam(p))' BY <2>3
  <2>5. seen'[p].edition # None BY <2>1, <2>2 DEF Prepared
  <2> QED BY <1>k, <2>1, <2>3, <2>4, <2>5 DEF Prepared
<1>8. CASE FindItem(p)
  <2> DEFINE e == Exam(p)
             g == examRow[e].gd
  <2>1. /\ pc[p] = "item" /\ req[p].op = "item" /\ pc'[p] = "putItems" /\ req'[p] = req[p] /\ examRow[e] # None
        /\ seen'[p] = [seen[p] EXCEPT !.edition = Edition(g)]
    BY <1>8, <1>n DEF FindItem
  <2>2. Prepared(p) BY <1>p, <2>1
  <2>3. e = req[p].exam /\ e \in Exams BY <2>1, <2>2 DEF Exam, Prepared
  <2>4. examRow[e] \in ExamRows BY <1>i, <2>1, <2>3 DEF ExamTypes
  <2>5. g \in GdExams BY <2>4 DEF ExamRows
  <2>6. Made(req[p].exam)' /\ examRow'[req[p].exam].gd = g BY <1>m, <2>1, <2>3 DEF Made
  <2> HIDE DEF g, e
  <2>7. Edition(g) \in Editions /\ Edition(g).gd = g /\ Edition(g).rev = revision[g]
    BY <1>i, <2>5 DEF Edition, Editions, ExamTypes
  <2>8. Past(Edition(g)) /\ Edition(g) # None BY <1>d, <1>i, <2>5, <2>7 DEF Past, ExamTypes
  <2>9. seen'[p] \in Drafts /\ seen'[p].edition = Edition(g) BY <2>1, <2>2, <2>7 DEF Prepared, Drafts
  <2> PICK d : d = Edition(g) OBVIOUS
  <2>10. Past(d)' /\ seen'[p].edition = d /\ d # None BY <1>u, <2>8, <2>9
  <2>11. Past(seen[p].edition)' /\ seen'[p].edition # None BY <2>10
  <2>12. Made(req[p].exam)' /\ seen'[p].edition.gd = examRow'[req'[p].exam].gd BY <2>1, <2>6, <2>7, <2>9
  <2> QED BY <2>1, <2>2, <2>9, <2>11, <2>12 DEF Prepared
<1>9. CASE UploadExam(p) \/ PutItems(p) \/ ExamFails(p) BY <1>9, <1>n DEF UploadExam, PutItems, ExamFails
<1> QED BY <1>1, <1>2, <1>3, <1>4, <1>5, <1>6, <1>7, <1>8, <1>9 DEF ExamsStep

LEMMA ExamsKept ==
  ASSUME Locals, ExamInv, NEW p \in Procs, May(p, ExamOps), ExamsStep(p), Stays(p, ExamOps), NEW e \in Exams
  PROVE  Kept(e)'
<1> USE Handling DEF At, Busy
<1>i. ExamTypes /\ Kept(e) BY DEF ExamInv
<1>p. pc[p] # "idle" => Prepared(p) BY DEF ExamInv, Examining, Active, May
<1>g. ExamTypes' /\ RowsGrow /\ UNCHANGED revision BY ExamTyped
<1>l. revision' \in [GdExams -> Nat] /\ Later BY <1>g DEF ExamTypes, Later
<1>e. ASSUME NEW d, Past(d) PROVE Past(d)' BY <1>e, <1>g DEF Past
<1>1. CASE InsertExam(p)
  <2> PICK f \in Exams : examRow[f] = None /\ examRow' = [examRow EXCEPT ![f] = Answers(seen[p].edition)]
    BY <1>1 DEF InsertExam
  <2>1. UNCHANGED <<paper, items>> BY <1>1 DEF InsertExam
  <2>2. CASE e = f
    <3>1. paper'[e] = None /\ items'[e] = None BY <1>i, <2>1, <2>2 DEF Kept
    <3> QED BY <3>1 DEF Kept
  <2>3. CASE e # f
    <3>1. examRow'[e] = examRow[e] BY <1>i, <2>3 DEF ExamTypes
    <3> QED BY <1>g, <1>i, <1>l, <2>1, <3>1, KeptStays
  <2> QED BY <2>2, <2>3
<1>2. CASE UpdateExam(p)
  <2>1. UNCHANGED <<paper, items>> BY <1>2 DEF UpdateExam
  <2>2. pc[p] = "update" /\ Prepared(p) BY <1>p, <1>2 DEF UpdateExam
  <2>3. Made(Exam(p)) BY <2>2 DEF Prepared, Exam
  <2>4. examRow'[e] = examRow[e] \/ examRow[e] # None
    <3>1. e = Exam(p) => examRow[e] # None BY <2>3 DEF Made
    <3>2. \/ UNCHANGED examRow
          \/ examRow' = [examRow EXCEPT ![Exam(p)].answers = Answers(seen[p].edition).answers]
      BY <1>2 DEF UpdateExam
    <3> QED BY <1>i, <3>1, <3>2 DEF ExamTypes
  <2> QED BY <1>g, <1>i, <1>l, <2>1, <2>4, KeptStays
<1>3. CASE UploadExam(p)
  <2>1. /\ pc[p] = "upload" /\ UNCHANGED <<examRow, items>> /\ paper' = [paper EXCEPT ![Exam(p)] = seen[p].edition]
    BY <1>3 DEF UploadExam
  <2>2. Prepared(p) BY <1>p, <2>1
  <2>3. Made(Exam(p)) /\ Past(seen[p].edition) BY <2>1, <2>2 DEF Prepared
  <2>4. CASE e = Exam(p)
    <3>1. paper'[e] = seen[p].edition BY <1>i, <2>1, <2>4 DEF ExamTypes
    <3>2. examRow[e] # None BY <2>3, <2>4 DEF Made
    <3> PICK d : d = seen[p].edition OBVIOUS
    <3>3. Past(d)' /\ paper'[e] = d BY <1>e, <2>3, <3>1
    <3>4. items[e] # None => Past(items[e])' BY <1>i, <1>g, <2>1 DEF Kept, Past
    <3> QED BY <1>i, <2>1, <3>2, <3>3, <3>4 DEF Kept
  <2>5. CASE e # Exam(p)
    <3>1. paper'[e] = paper[e] BY <1>i, <2>1, <2>5 DEF ExamTypes
    <3> QED BY <1>g, <1>i, <1>l, <2>1, <3>1, KeptStays
  <2> QED BY <2>4, <2>5
<1>4. CASE PutItems(p)
  <2>1. /\ pc[p] = "putItems" /\ UNCHANGED <<examRow, paper>> /\ items' = [items EXCEPT ![Exam(p)] = seen[p].edition]
    BY <1>4 DEF PutItems
  <2>2. Prepared(p) BY <1>p, <2>1
  <2>3. /\ Made(Exam(p)) /\ Past(seen[p].edition) /\ seen[p].edition.gd = examRow[Exam(p)].gd
    BY <2>1, <2>2 DEF Prepared, Exam
  <2>4. CASE e = Exam(p)
    <3>1. items'[e] = seen[p].edition BY <1>i, <2>1, <2>4 DEF ExamTypes
    <3>2. examRow[e] # None BY <2>3, <2>4 DEF Made
    <3> PICK d : d = seen[p].edition OBVIOUS
    <3>3. Past(d)' /\ items'[e] = d /\ d.gd = examRow'[e].gd BY <1>e, <2>1, <2>3, <2>4, <3>1
    <3>4. paper[e] # None => Past(paper[e])' BY <1>i, <1>g, <2>1 DEF Kept, Past
    <3> QED BY <1>i, <2>1, <3>2, <3>3, <3>4 DEF Kept
  <2>5. CASE e # Exam(p)
    <3>1. items'[e] = items[e] BY <1>i, <2>1, <2>5 DEF ExamTypes
    <3> QED BY <1>g, <1>i, <1>l, <2>1, <3>1, KeptStays
  <2> QED BY <2>4, <2>5
<1>5. CASE UNCHANGED <<examRow, paper, items>> BY <1>g, <1>i, <1>l, <1>5, KeptStays
<1>6. UNCHANGED <<examRow, paper, items>> \/ InsertExam(p) \/ UpdateExam(p) \/ UploadExam(p) \/ PutItems(p)
  BY DEF ExamsStep, exams, onHttpAddExamToMeeting, onHttpResyncExam, onHttpAuthorizeExam, onHttpGetIssueResource, Ask,
         SelectExam, FillExam, FetchExam, PutExam, UpdateExamHash, FindItem, ExamFails
<1> QED BY <1>1, <1>2, <1>3, <1>4, <1>5, <1>6

LEMMA ExamCalm ==
  ASSUME NEW p \in Procs, Handled(p), NEW e \in Exams, OneImporter(e),
         examRow'[e] = examRow[e], paper'[e] = paper[e],
         examHash'[e] = examHash[e] \/ (examRow[e] \in ExamRows /\ examHash'[e] = examRow[e]),
         Imports(p, e) => pc[p] \in Calm,
         Imports(p, e)' => pc'[p] \in Calm /\ (Imports(p, e) \/ \A q \in Procs \ {p} : ~Imports(q, e)),
         Fills(p, e)' => seen'[p].row = examRow[e]
  PROVE  OneImporter(e)'
<1>0. \A q \in Procs \ {p} : /\ pc'[q] = pc[q] /\ seen'[q] = seen[q]
                             /\ (Fills(q, e)' <=> Fills(q, e)) /\ (Imports(q, e)' <=> Imports(q, e))
  BY OtherExaminers
<1>1. \A q \in Procs : Fills(q, e)' => seen'[q].row = examRow'[e] BY <1>0 DEF OneImporter
<1>2. \A q, r \in Procs : Imports(q, e)' /\ Imports(r, e)' => q = r BY <1>0 DEF OneImporter
<1>3. Matched(e) => Matched(e)' BY DEF Matched
<1>4. (\A q \in Procs : Imports(q, e)' => pc'[q] \in Calm) => Matched(e)' BY <1>0, <1>3 DEF OneImporter
<1>5. ASSUME NEW q \in Procs, Imports(q, e)' PROVE Written(q, e)'
  <2>1. CASE q = p BY <1>5, <2>1 DEF Written, Calm
  <2>2. CASE q # p
    <3>1. Written(q, e) BY <1>0, <1>5, <2>2 DEF OneImporter
    <3> QED BY <1>0, <2>2, <3>1 DEF Written
  <2> QED BY <2>1, <2>2
<1> QED BY <1>1, <1>2, <1>4, <1>5 DEF OneImporter

LEMMA ExamSole ==
  ASSUME NEW p \in Procs, Handled(p), NEW e \in Exams, \A q \in Procs \ {p} : ~Imports(q, e),
         \A q \in Procs \ {p} : Fills(q, e) => seen[q].row = examRow'[e],
         \/ Imports(p, e)' /\ pc'[p] \notin Calm /\ Written(p, e)'
         \/ ~Imports(p, e)' /\ pc'[p] # "fill" /\ Matched(e)'
  PROVE  OneImporter(e)'
<1>0. \A q \in Procs \ {p} : /\ seen'[q] = seen[q] /\ (Fills(q, e)' <=> Fills(q, e)) /\ ~Imports(q, e)'
  BY OtherExaminers
<1>1. \A q \in Procs : Fills(q, e)' => seen'[q].row = examRow'[e] BY <1>0 DEF Fills, Calm
<1>2. \A q, r \in Procs : Imports(q, e)' /\ Imports(r, e)' => q = r BY <1>0
<1>4. (\A q \in Procs : Imports(q, e)' => pc'[q] \in Calm) => Matched(e)' BY <1>0
<1>5. \A q \in Procs : Imports(q, e)' => Written(q, e)' BY <1>0
<1> QED BY <1>1, <1>2, <1>4, <1>5 DEF OneImporter

LEMMA ExamMoves ==
  ASSUME Locals, ExamInv, NEW p \in Procs, May(p, ExamOps), ExamsStep(p), Stays(p, ExamOps), NEW e \in Exams, e \notin crossed'
  PROVE  OneImporter(e)'
<1> USE Handling DEF At, Busy
<1>h. Handled(p) BY DEF Stays
<1>i. ExamTypes BY DEF ExamInv
<1>p. pc[p] # "idle" => Prepared(p) /\ req[p].op \in ExamOps BY DEF ExamInv, Examining, Active, May
<1>n. pc'[p] # "idle" /\ req'[p] = req[p] => Examining(p)' BY DEF Stays, Examining, Active
<1>x. e \notin crossed
  BY DEF ExamsStep, exams, onHttpAddExamToMeeting, onHttpResyncExam, onHttpAuthorizeExam, onHttpGetIssueResource, Ask,
         SelectExam, FillExam, FetchExam, InsertExam, PutExam, UpdateExam, UpdateExamHash, UploadExam, FindItem, PutItems, ExamFails
<1>o. OneImporter(e) BY <1>x DEF ExamInv
<1>v. /\ pc'[p] = "idle" => ~Imports(p, e)' /\ ~Fills(p, e)'
      /\ seen'[p].edition = None => ~Imports(p, e)'
      /\ pc'[p] # "fill" => ~Fills(p, e)'
      /\ pc[p] = "idle" => ~Imports(p, e)
  BY DEF Imports, Fills
<1>1. CASE onHttpAddExamToMeeting(p) \/ onHttpResyncExam(p) \/ onHttpAuthorizeExam(p) \/ onHttpGetIssueResource(p)
  <2>1. UNCHANGED exams /\ pc[p] = "idle" /\ pc'[p] # "fill" /\ seen'[p] = Blank
    BY <1>1 DEF onHttpAddExamToMeeting, onHttpResyncExam, onHttpAuthorizeExam, onHttpGetIssueResource, Ask
  <2>2. ~Imports(p, e) /\ ~Imports(p, e)' /\ ~Fills(p, e)' BY <1>v, <2>1 DEF Blank
  <2> QED BY <1>h, <1>o, <2>1, <2>2, ExamCalm DEF exams
<1>2. CASE SelectExam(p)
  <2>1. pc[p] = "select" /\ UNCHANGED exams BY <1>2 DEF SelectExam
  <2>2. CASE pc'[p] = "idle" BY <1>h, <1>o, <1>v, <2>1, <2>2, ExamCalm DEF exams, Calm
  <2>3. CASE pc'[p] # "idle"
    <3>1. pc'[p] = "fill" /\ req'[p] = req[p] /\ seen'[p] = [seen[p] EXCEPT !.row = examRow[Exam(p)]]
      BY <1>2, <2>3 DEF SelectExam
    <3>2. Prepared(p) BY <1>p, <2>1
    <3>3. seen'[p].row = examRow[Exam(p)] /\ seen'[p].edition = seen[p].edition BY <3>1, <3>2 DEF Prepared, Drafts
    <3>4. Exam(p)' = Exam(p) /\ Exam(p) = req[p].exam BY <2>1, <3>1, <3>2 DEF Exam, Prepared
    <3>5. Imports(p, e)' => Imports(p, e) BY <1>p, <2>1, <3>1, <3>3, <3>4 DEF Imports
    <3>6. Fills(p, e)' => seen'[p].row = examRow[e] BY <3>3, <3>4 DEF Fills
    <3> QED BY <1>h, <1>o, <2>1, <3>1, <3>5, <3>6, ExamCalm DEF exams, Calm
  <2> QED BY <2>2, <2>3
<1>3. CASE FillExam(p)
  <2>1. /\ pc[p] = "fill" /\ UNCHANGED <<examRow, paper>> /\ examHash' = [examHash EXCEPT ![Exam(p)] = seen[p].row]
        /\ pc'[p] \in {"idle", "fetch", "upload", "update"}
        /\ pc'[p] = "fetch" => seen'[p].edition = None
        /\ pc'[p] # "idle" => req'[p] = req[p] /\ seen'[p] = seen[p]
        /\ pc'[p] = "upload" => seen[p].row.answers = Answers(seen[p].edition).answers
    BY <1>3 DEF FillExam
  <2>2. Prepared(p) BY <1>p, <2>1
  <2>3. Fills(p, Exam(p)) BY <1>p, <2>1 DEF Fills, Examining, Active
  <2>4. examHash'[e] = examHash[e] \/ (examRow[e] \in ExamRows /\ examHash'[e] = examRow[e])
    <3>1. CASE e = Exam(p)
      <4>1. seen[p].row = examRow[e] BY <1>o, <2>3, <3>1 DEF OneImporter
      <4>2. examHash'[e] = seen[p].row BY <1>i, <2>1, <3>1 DEF ExamTypes
      <4> QED BY <2>1, <2>2, <4>1, <4>2 DEF Prepared
    <3>2. CASE e # Exam(p) BY <1>i, <2>1, <3>2 DEF ExamTypes
    <3> QED BY <3>1, <3>2
  <2>5. pc'[p] # "idle" => (Imports(p, e)' => Imports(p, e)) BY <1>p, <2>1 DEF Imports, Exam
  <2>6. CASE ~(pc'[p] = "upload" /\ e = Exam(p))
    <3>1. Imports(p, e)' => pc'[p] \in Calm
      <4>1. pc'[p] = "upload" => ~Imports(p, e)' BY <2>1, <2>6 DEF Imports, Exam
      <4> QED BY <1>v, <2>1, <4>1 DEF Calm
    <3> QED BY <1>h, <1>o, <1>v, <2>1, <2>4, <2>5, <3>1, ExamCalm DEF Calm
  <2>7. CASE pc'[p] = "upload" /\ e = Exam(p)
    <3>1. seen[p].row = examRow[e] BY <1>o, <2>3, <2>7 DEF OneImporter
    <3>2. examHash'[e] = examRow[e] BY <1>i, <2>1, <2>7, <3>1 DEF ExamTypes
    <3>3. seen[p].edition # None BY <1>3, <2>7 DEF FillExam
    <3>4. Imports(p, e) /\ Imports(p, e)'
      BY <1>p, <2>1, <2>2, <2>7, <3>3 DEF Imports, Exam, Prepared
    <3>5. \A q \in Procs \ {p} : ~Imports(q, e) BY <1>o, <3>4 DEF OneImporter
    <3>6. Written(p, e)' BY <2>1, <2>7, <3>1, <3>2 DEF Written
    <3>7. \A q \in Procs \ {p} : Fills(q, e) => seen[q].row = examRow'[e] BY <1>o, <2>1 DEF OneImporter
    <3>8. pc'[p] \notin Calm BY <2>7 DEF Calm
    <3> QED BY <1>h, <3>4, <3>5, <3>6, <3>7, <3>8, ExamSole
  <2> QED BY <2>6, <2>7
<1>4. CASE FetchExam(p)
  <2> DEFINE g == IF req[p].op = "resyncExam" THEN seen[p].row.gd ELSE req[p].gd
  <2>1. /\ pc[p] = "fetch" /\ req'[p] = req[p] /\ pc'[p] = (IF req[p].op = "import" THEN "insert" ELSE "select")
        /\ seen'[p] = [seen[p] EXCEPT !.edition = Edition(g)] /\ UNCHANGED <<examRow, examHash, paper>>
        /\ crossed' = IF \E q \in Procs \ {p} : req[p].op # "import" /\ Imports(q, Exam(p))
                      THEN crossed \union {Exam(p)} ELSE crossed
    BY <1>4 DEF FetchExam
  <2>2. Prepared(p) BY <1>p, <2>1
  <2>3. ~Imports(p, e) BY <2>1, <2>2 DEF Imports, Prepared
  <2>4. seen'[p].exam = seen[p].exam BY <2>1, <2>2 DEF Prepared, Drafts
  <2>5. Imports(p, e)' => pc'[p] \in Calm /\ \A q \in Procs \ {p} : ~Imports(q, e)
    <3>1. CASE req[p].op = "import"
      <4>1. seen'[p].exam = None BY <2>1, <2>2, <2>4, <3>1 DEF Prepared
      <4>2. ~Imports(p, e)' BY <2>1, <3>1, <4>1, RequestsOfExams DEF Imports, Exam
      <4> QED BY <4>2
    <3>2. CASE req[p].op # "import"
      <4>1. Imports(p, e)' => e = Exam(p) BY <2>1, <3>2 DEF Imports, Exam
      <4>2. e = Exam(p) => \A q \in Procs \ {p} : ~Imports(q, e) BY <2>1, <3>2
      <4> QED BY <2>1, <3>2, <4>1, <4>2 DEF Calm
    <3> QED BY <3>1, <3>2
  <2>6. ~Fills(p, e)' BY <1>v, <2>1
  <2> QED BY <1>h, <1>o, <2>1, <2>3, <2>5, <2>6, ExamCalm
<1>5. CASE InsertExam(p)
  <2> PICK f \in Exams :
         /\ examRow[f] = None /\ examRow' = [examRow EXCEPT ![f] = Answers(seen[p].edition)]
         /\ With(p, "put", [seen[p] EXCEPT !.exam = f])
         /\ crossed' = IF \E q \in Procs \ {p} : Imports(q, f) THEN crossed \union {f} ELSE crossed
    BY <1>5 DEF InsertExam
  <2>1. pc[p] = "insert" /\ pc'[p] = "put" /\ req'[p] = req[p] /\ UNCHANGED <<examHash, paper>> BY <1>5 DEF InsertExam
  <2>2. Prepared(p) BY <1>p, <2>1
  <2>3. seen'[p].edition = seen[p].edition /\ seen'[p].exam = f BY <2>2 DEF Prepared, Drafts
  <2>4. req[p].op = "import" /\ seen[p].edition # None /\ seen[p].exam = None BY <2>1, <2>2 DEF Prepared
  <2>5. ~Imports(p, e) BY <2>4, RequestsOfExams DEF Imports, Exam
  <2>6. Imports(p, e)' <=> e = f BY <1>p, <2>1, <2>3, <2>4 DEF Imports, Exam
  <2>7. CASE e = f
    <3>1. \A q \in Procs \ {p} : ~Imports(q, e) BY <2>7
    <3>2. \A q \in Procs \ {p} : ~Fills(q, e)
      <4> SUFFICES ASSUME NEW q \in Procs \ {p}, Fills(q, e) PROVE FALSE OBVIOUS
      <4>1. Prepared(q) /\ pc[q] = "fill" /\ Exam(q) = e BY DEF ExamInv, Fills
      <4>2. Made(e) BY <4>1 DEF Prepared, Exam
      <4> QED BY <2>7, <4>2 DEF Made
    <3>3. examRow'[e] = Answers(seen[p].edition) BY <1>i, <2>7 DEF ExamTypes
    <3>4. Written(p, e)' BY <2>1, <2>3, <3>3 DEF Written
    <3>5. Imports(p, e)' /\ pc'[p] \notin Calm BY <2>1, <2>6, <2>7 DEF Calm
    <3> QED BY <1>h, <3>1, <3>2, <3>4, <3>5, ExamSole
  <2>8. CASE e # f
    <3>1. examRow'[e] = examRow[e] BY <1>i, <2>8 DEF ExamTypes
    <3>2. ~Imports(p, e)' /\ ~Fills(p, e)' BY <1>v, <2>1, <2>6, <2>8
    <3> QED BY <1>h, <1>o, <2>1, <2>5, <3>1, <3>2, ExamCalm
  <2> QED BY <2>7, <2>8
\* The steps of the only importer of an exam.
<1>6. CASE PutExam(p) \/ UpdateExam(p) \/ UpdateExamHash(p)
  <2>1. /\ pc[p] \in {"put", "update", "updateHash"} /\ pc'[p] \in {"updateHash", "upload"} /\ UNCHANGED paper
        /\ req'[p] = req[p] /\ seen'[p] = seen[p]
    BY <1>6 DEF PutExam, UpdateExam, UpdateExamHash
  <2>2. Prepared(p) BY <1>p, <2>1
  <2>3. Exam(p)' = Exam(p) /\ Made(Exam(p)) /\ seen[p].edition # None /\ seen[p].edition \in Editions
    BY <2>1, <2>2 DEF Prepared, Exam, Past
  <2>4. Imports(p, e) <=> e = Exam(p) BY <1>p, <2>1, <2>2, <2>3 DEF Imports, Prepared
  <2>5. Imports(p, e)' <=> Imports(p, e) BY <1>p, <2>1, <2>3 DEF Imports
  <2>6. ~Fills(p, e)' BY <1>v, <2>1
  <2>a. Answers(seen[p].edition) \in ExamRows /\ Answers(seen[p].edition).answers \in GdExams \X Nat
    BY <2>3, AnswersMade DEF ExamRows
  <2>7. PutExam(p) => /\ pc[p] = "put" /\ pc'[p] = "upload" /\ UNCHANGED examRow
                      /\ examHash' = [examHash EXCEPT ![seen[p].exam] = Answers(seen[p].edition)]
    BY DEF PutExam
  <2>8. UpdateExam(p) => /\ pc[p] = "update" /\ UNCHANGED examHash
                         /\ \/ /\ pc'[p] = "updateHash"
                               /\ examRow' = [examRow EXCEPT ![Exam(p)].answers = Answers(seen[p].edition).answers]
                               /\ crossed' = IF Filling(p, Exam(p)) THEN crossed \union {Exam(p)} ELSE crossed
                            \/ UNCHANGED examRow /\ Exam(p) \in crossed'
    BY DEF UpdateExam
  <2>9. UpdateExamHash(p) => /\ pc[p] = "updateHash" /\ pc'[p] = "upload" /\ UNCHANGED examRow
                             /\ \/ examHash' = [examHash EXCEPT ![Exam(p)].answers = Answers(seen[p].edition).answers]
                                \/ UNCHANGED examHash /\ Exam(p) \in crossed'
    BY DEF UpdateExamHash
  <2>10. CASE e # Exam(p)
    <3>1. PutExam(p) => Exam(p) = seen[p].exam BY <2>2, <2>7 DEF Prepared, Exam
    <3>2. examRow'[e] = examRow[e] /\ examHash'[e] = examHash[e]
      BY <1>i, <1>6, <2>7, <2>8, <2>9, <2>10, <3>1 DEF ExamTypes
    <3> QED BY <1>h, <1>o, <2>1, <2>4, <2>5, <2>6, <2>10, <3>2, ExamCalm
  <2>11. CASE e = Exam(p)
    <3>1. \A q \in Procs \ {p} : ~Imports(q, e) BY <1>o, <2>4, <2>11 DEF OneImporter
    <3>2. Written(p, e) BY <1>o, <2>4, <2>11 DEF OneImporter
    <3>3. examRow[e] \in ExamRows BY <1>i, <2>3, <2>11 DEF ExamTypes, Made
    <3>4. Imports(p, e)' /\ pc'[p] \notin Calm BY <2>1, <2>4, <2>5, <2>11 DEF Calm
    <3>5. CASE PutExam(p)
      <4>1. Exam(p) = seen[p].exam BY <2>2, <2>7, <3>5 DEF Prepared, Exam
      <4>2. examHash'[e] = Answers(seen[p].edition) BY <1>i, <2>7, <2>11, <3>5, <4>1 DEF ExamTypes
      <4>3. examRow[e] = Answers(seen[p].edition) BY <2>7, <3>2, <3>5 DEF Written
      <4>4. Written(p, e)' BY <2>1, <2>7, <3>5, <4>2, <4>3 DEF Written
      <4>5. \A q \in Procs \ {p} : Fills(q, e) => seen[q].row = examRow'[e] BY <1>o, <2>7, <3>5 DEF OneImporter
      <4> QED BY <1>h, <3>1, <3>4, <4>4, <4>5, ExamSole
    <3>6. CASE UpdateExam(p)
      <4> DEFINE a == Answers(seen[p].edition).answers
      <4>1. /\ pc'[p] = "updateHash" /\ ~Filling(p, e) /\ UNCHANGED examHash
            /\ examRow' = [examRow EXCEPT ![e] = [examRow[e] EXCEPT !.answers = a]]
        BY <2>8, <2>11, <3>6
      <4>2. a \in GdExams \X Nat BY <2>a
      <4> HIDE DEF a
      <4>3. examRow'[e] = [examRow[e] EXCEPT !.answers = a] BY <1>i, <4>1 DEF ExamTypes
      <4>4. examRow'[e] \in ExamRows /\ examRow'[e].answers = a /\ examRow'[e].gd = examRow[e].gd
        BY <3>3, <4>2, <4>3, Reanswered
      <4>5. examHash[e] = examRow[e]
        <5>1. \A q \in Procs : Imports(q, e) => pc[q] \in Calm BY <2>8, <3>1, <3>6 DEF Calm
        <5>2. Matched(e) BY <1>o, <5>1 DEF OneImporter
        <5> QED BY <2>3, <2>11, <5>2 DEF Matched, Made
      <4>6. Written(p, e)' BY <2>1, <3>3, <4>1, <4>4, <4>5 DEF Written, a
      <4>7. \A q \in Procs \ {p} : ~Fills(q, e) BY <4>1 DEF Filling, Fills, Examining, Active
      <4> QED BY <1>h, <3>1, <3>4, <4>6, <4>7, ExamSole
    <3>7. CASE UpdateExamHash(p)
      <4> DEFINE a == Answers(seen[p].edition).answers
      <4>1. /\ pc'[p] = "upload" /\ UNCHANGED examRow
            /\ examHash' = [examHash EXCEPT ![e] = [examHash[e] EXCEPT !.answers = a]]
        BY <2>9, <2>11, <3>7
      <4>2. a \in GdExams \X Nat BY <2>a
      <4>3. examRow[e].answers = a /\ examHash[e] \in ExamRows /\ examHash[e].gd = examRow[e].gd
        BY <2>9, <3>2, <3>7 DEF Written
      <4> HIDE DEF a
      <4>4. examHash'[e] = [examHash[e] EXCEPT !.answers = a] BY <1>i, <4>1 DEF ExamTypes
      <4>5. examHash'[e] \in ExamRows /\ examHash'[e].answers = a /\ examHash'[e].gd = examHash[e].gd
        BY <4>2, <4>3, <4>4, Reanswered
      <4>6. examHash'[e] = examRow[e]
        <5> PICK h \in ExamRows : h = examHash'[e] BY <4>5
        <5>1. h.gd = examRow[e].gd /\ h.answers = examRow[e].answers BY <4>3, <4>5
        <5>2. h = examRow[e] BY <3>3, <5>1, SameExam
        <5> QED BY <5>2
      <4>7. Written(p, e)' BY <2>1, <4>1, <4>3, <4>6 DEF Written, a
      <4>8. \A q \in Procs \ {p} : Fills(q, e) => seen[q].row = examRow'[e] BY <1>o, <4>1 DEF OneImporter
      <4> QED BY <1>h, <3>1, <3>4, <4>7, <4>8, ExamSole
    <3> QED BY <1>6, <3>5, <3>6, <3>7
  <2> QED BY <2>10, <2>11
<1>7. CASE UploadExam(p)
  <2>1. /\ pc[p] = "upload" /\ pc'[p] = "idle" /\ UNCHANGED <<examRow, examHash>>
        /\ paper' = [paper EXCEPT ![Exam(p)] = seen[p].edition]
    BY <1>7 DEF UploadExam
  <2>2. Prepared(p) BY <1>p, <2>1
  <2>3. Imports(p, e) <=> e = Exam(p) BY <1>p, <2>1, <2>2 DEF Imports, Prepared
  <2>4. ~Imports(p, e)' /\ ~Fills(p, e)' BY <1>v, <2>1
  <2>5. CASE e # Exam(p)
    <3>1. paper'[e] = paper[e] BY <1>i, <2>1, <2>5 DEF ExamTypes
    <3> QED BY <1>h, <1>o, <2>1, <2>3, <2>4, <2>5, <3>1, ExamCalm
  <2>6. CASE e = Exam(p)
    <3>1. \A q \in Procs \ {p} : ~Imports(q, e) BY <1>o, <2>3, <2>6 DEF OneImporter
    <3>2. Written(p, e) BY <1>o, <2>3, <2>6 DEF OneImporter
    <3>3. paper'[e] = seen[p].edition BY <1>i, <2>1, <2>6 DEF ExamTypes
    <3>4. examHash[e] = examRow[e] /\ examRow[e].answers = Answers(seen[p].edition).answers BY <2>1, <3>2 DEF Written
    <3>5. Matched(e)' BY <2>1, <3>3, <3>4 DEF Matched
    <3>6. \A q \in Procs \ {p} : Fills(q, e) => seen[q].row = examRow'[e] BY <1>o, <2>1 DEF OneImporter
    <3> QED BY <1>h, <2>1, <2>4, <3>1, <3>5, <3>6, ExamSole
  <2> QED BY <2>5, <2>6
<1>8. CASE FindItem(p) \/ PutItems(p)
  <2>1. /\ pc[p] \in {"item", "putItems"} /\ pc'[p] \in {"idle", "putItems"} /\ UNCHANGED <<examRow, examHash, paper>>
        /\ pc'[p] = "putItems" => req'[p] = req[p]
    BY <1>8 DEF FindItem, PutItems, exams
  <2>2. req[p].op = "item" BY <1>p, <2>1 DEF Prepared
  <2>3. ~Imports(p, e) BY <2>2 DEF Imports
  <2>4. ~Imports(p, e)' /\ ~Fills(p, e)' BY <1>v, <2>1, <2>2 DEF Imports
  <2> QED BY <1>h, <1>o, <2>1, <2>3, <2>4, ExamCalm
<1>9. CASE ExamFails(p)
  <2>1. /\ pc[p] # "idle" /\ pc'[p] = "idle" /\ UNCHANGED <<examRow, examHash, paper>>
        /\ crossed' = IF pc[p] \in {"put", "updateHash", "upload"} THEN crossed \union {Exam(p)} ELSE crossed
    BY <1>9 DEF ExamFails
  <2>2. ~Imports(p, e)' /\ ~Fills(p, e)' BY <1>v, <2>1
  <2>3. Imports(p, e) => pc[p] \notin {"put", "updateHash", "upload"} BY <2>1 DEF Imports
  <2>4. Imports(p, e) => pc[p] \in Calm
    <3> SUFFICES ASSUME Imports(p, e) PROVE pc[p] \in Calm OBVIOUS
    <3>1. Prepared(p) BY <1>p, <2>1
    <3>2. pc[p] \in {"fetch", "insert", "put", "select", "fill", "update", "updateHash", "upload", "item", "putItems"}
      BY <2>1, <3>1 DEF Prepared
    <3>3. pc[p] # "fetch" BY <3>1 DEF Prepared, Imports
    <3>4. pc[p] # "insert" BY <3>1, RequestsOfExams DEF Prepared, Imports, Exam
    <3>5. pc[p] \notin {"item", "putItems"} BY <3>1 DEF Prepared, Imports
    <3> QED BY <2>3, <3>2, <3>3, <3>4, <3>5 DEF Calm
  <2> QED BY <1>h, <1>o, <2>1, <2>2, <2>4, ExamCalm
<1> QED BY <1>1, <1>2, <1>3, <1>4, <1>5, <1>6, <1>7, <1>8, <1>9 DEF ExamsStep

\* Steps of the others.
LEMMA ExamsRest == ASSUME ExamInv, UNCHANGED exams, Rests(ExamOps) PROVE ExamInv'
<1>0. UNCHANGED <<revision, examRow, examHash, paper, items, crossed>> BY DEF exams
<1>1. \A q \in Procs : /\ Examining(q)' <=> Examining(q)
                       /\ Examining(q) => pc'[q] = pc[q] /\ req'[q] = req[q] /\ seen'[q] = seen[q]
  BY DEF Rests, Examining
<1>2. ASSUME NEW q \in Procs, NEW e
      PROVE  /\ Fills(q, e)' <=> Fills(q, e)
             /\ Imports(q, e)' <=> Imports(q, e)
             /\ (Fills(q, e) \/ Imports(q, e)) => Examining(q)
  <2>1. Examining(q) => /\ Fills(q, e)' <=> Fills(q, e)
                        /\ Imports(q, e)' <=> Imports(q, e)
    BY <1>1 DEF Fills, Imports, Examining, Active, Busy, Exam
  <2>2. ~Examining(q) => ~Fills(q, e) /\ ~Fills(q, e)' /\ ~Imports(q, e) /\ ~Imports(q, e)'
    <3>1. ~Examining(q) => ~Examining(q)' BY <1>1
    <3>2. (Fills(q, e) \/ Imports(q, e)) => Examining(q) BY DEF Fills, Imports, Examining, Active
    <3>3. (Fills(q, e)' \/ Imports(q, e)') => Examining(q)' BY DEF Fills, Imports, Examining, Active, Busy
    <3> QED BY <3>1, <3>2, <3>3
  <2> QED BY <2>1, <2>2
<1>3. ExamTypes' BY <1>0 DEF ExamInv, ExamTypes
<1>4. ASSUME NEW q \in Procs, Examining(q)' PROVE Prepared(q)'
  <2>1. Prepared(q) /\ pc'[q] = pc[q] /\ req'[q] = req[q] /\ seen'[q] = seen[q] BY <1>1, <1>4 DEF ExamInv
  <2>2. revision' \in [GdExams -> Nat] /\ RowsGrow /\ Later BY <1>0, <1>3 DEF ExamTypes, RowsGrow, Later
  <2> QED BY <2>1, <2>2, PreparedStays DEF ExamInv
<1>5. \A e \in Exams : Kept(e)' BY <1>0 DEF ExamInv, Kept, Past
<1>6. ASSUME NEW e \in Exams \ crossed PROVE OneImporter(e)'
  <2>1. OneImporter(e) BY DEF ExamInv
  <2>2. Matched(e)' <=> Matched(e) BY <1>0 DEF Matched
  <2>3. \A q \in Procs : Imports(q, e)' => Written(q, e)'
    <3> SUFFICES ASSUME NEW q \in Procs, Imports(q, e)' PROVE Written(q, e)' OBVIOUS
    <3>1. Written(q, e) /\ pc'[q] = pc[q] /\ seen'[q] = seen[q] BY <1>1, <1>2, <2>1 DEF OneImporter
    <3> QED BY <1>0, <3>1 DEF Written
  <2>4. \A q \in Procs : Fills(q, e)' => seen'[q].row = examRow'[e] BY <1>0, <1>1, <1>2, <2>1 DEF OneImporter
  <2>5. (\A q \in Procs : Imports(q, e)' => pc'[q] \in Calm) => Matched(e)' BY <1>1, <1>2, <2>1, <2>2 DEF OneImporter
  <2>6. \A q, r \in Procs : Imports(q, e)' /\ Imports(r, e)' => q = r BY <1>2, <2>1 DEF OneImporter
  <2> QED BY <2>3, <2>4, <2>5, <2>6 DEF OneImporter
<1> QED BY <1>0, <1>3, <1>4, <1>5, <1>6 DEF ExamInv

LEMMA ExamsRevised == ASSUME ExamInv, GdRevises PROVE ExamInv'
<1>0. UNCHANGED <<pc, req, seen, examRow, examHash, paper, items, crossed>> BY DEF GdRevises, local
<1>i. ExamTypes BY DEF ExamInv
<1>1. revision' \in [GdExams -> Nat] /\ Later
  <2> PICK g \in GdExams : revision' = [revision EXCEPT ![g] = @ + 1] BY DEF GdRevises
  <2> QED BY <1>i DEF ExamTypes, Later
<1>2. RowsGrow BY <1>0 DEF RowsGrow
<1>3. ExamTypes' BY <1>0, <1>1 DEF ExamInv, ExamTypes
<1>4. ASSUME NEW q \in Procs, Examining(q)' PROVE Prepared(q)'
  <2>1. Prepared(q) BY <1>0, <1>4 DEF ExamInv, Examining, Active, Busy
  <2> QED BY <1>0, <1>1, <1>2, <1>i, <2>1, PreparedStays
<1>5. \A e \in Exams : Kept(e)' BY <1>0, <1>1, <1>2, <1>i, KeptStays DEF ExamInv
<1>6. \A e \in Exams : OneImporter(e)' <=> OneImporter(e)
  BY <1>0 DEF OneImporter, Fills, Imports, Matched, Written, Examining, Active, Busy, Exam
<1> QED BY <1>0, <1>3, <1>4, <1>5, <1>6 DEF ExamInv

LEMMA PapersMatch == ASSUME ExamInv PROVE PapersMatchAnswers
<1> SUFFICES ASSUME NEW e \in Exams \ crossed, paper[e] # None, \A p \in Procs : ~Imports(p, e)
             PROVE  /\ examHash[e] = examRow[e] /\ examRow[e].answers = Answers(paper[e]).answers
                    /\ items[e] # None /\ paper[e].gd = examRow[e].gd /\ revision[paper[e].gd] = 0 => items[e] = paper[e]
  BY DEF PapersMatchAnswers
<1>1. Kept(e) /\ OneImporter(e) BY DEF ExamInv
<1>2. examRow[e] # None BY <1>1 DEF Kept
<1>3. Matched(e) BY <1>1 DEF OneImporter
<1>4. ASSUME items[e] # None, paper[e].gd = examRow[e].gd, revision[paper[e].gd] = 0 PROVE items[e] = paper[e]
  <2>1. Past(items[e]) /\ Past(paper[e]) /\ items[e].gd = paper[e].gd BY <1>1, <1>4 DEF Kept
  <2>2. items[e].rev = 0 /\ paper[e].rev = 0 BY <1>4, <2>1 DEF Past, Editions
  <2> QED BY <2>1, <2>2 DEF Past, Editions
<1> QED BY <1>2, <1>3, <1>4 DEF Matched

\* What is graded is what the students were given, and an issue points at the questions of
\* the paper: of every exam that nobody imports, but those that two importers, a look at
\* the row as it was or a failure halfway met.
THEOREM PapersStayTrue == Spec => []PapersMatchAnswers
<1>1. Init => Locals /\ ExamInv
  <2> SUFFICES ASSUME Init PROVE ExamInv BY LocalsInit
  <2>1. /\ revision = [g \in GdExams |-> 0] /\ examRow = [e \in Exams |-> None] /\ examHash = examRow
        /\ paper = [e \in Exams |-> None] /\ items = [e \in Exams |-> None] /\ \A p \in Procs : pc[p] = "idle"
    BY DEF Init, ExamsInit, HandlersInit
  <2>2. \A p \in Procs : ~Examining(p) /\ \A e : ~Fills(p, e) /\ ~Imports(p, e)
    BY <2>1 DEF Examining, Active, Busy, Fills, Imports
  <2>3. ExamTypes BY <2>1 DEF ExamTypes
  <2>4. \A e \in Exams : Kept(e) BY <2>1 DEF Kept
  <2>5. \A e \in Exams : OneImporter(e) BY <2>1, <2>2 DEF OneImporter, Matched
  <2> QED BY <2>2, <2>3, <2>4, <2>5 DEF ExamInv
<1>2. Locals /\ ExamInv /\ [Next]_vars => (Locals /\ ExamInv)'
  <2> SUFFICES ASSUME Locals, ExamInv, [Next]_vars PROVE Locals' /\ ExamInv' OBVIOUS
  <2>1. Locals' BY Frame
  <2>2. CASE UNCHANGED exams /\ Rests(ExamOps) BY <2>1, <2>2, ExamsRest
  <2>3. CASE \E p \in Procs : May(p, ExamOps) /\ ExamsStep(p) /\ Stays(p, ExamOps)
    <3> PICK p \in Procs : May(p, ExamOps) /\ ExamsStep(p) /\ Stays(p, ExamOps) BY <2>3
    <3>1. ExamTypes' /\ RowsGrow /\ UNCHANGED revision BY ExamTyped
    <3>2. \A e \in Exams : Kept(e)' BY ExamsKept
    <3>3. \A e \in Exams : e \notin crossed' => OneImporter(e)' BY ExamMoves
    <3>4. ASSUME NEW q \in Procs, Examining(q)' PROVE Prepared(q)'
      <4>1. CASE q = p BY <3>4, <4>1, ExaminerMoves
      <4>2. CASE q # p
        <5>1. pc'[q] = pc[q] /\ req'[q] = req[q] /\ seen'[q] = seen[q] /\ Examining(q)
          BY <3>4, <4>2, OtherExaminers DEF Stays
        <5>2. ExamTypes /\ Prepared(q) BY <5>1 DEF ExamInv
        <5>3. revision' \in [GdExams -> Nat] /\ Later BY <3>1 DEF ExamTypes, Later
        <5> QED BY <3>1, <5>1, <5>2, <5>3, PreparedStays
      <4> QED BY <4>1, <4>2
    <3> QED BY <2>1, <3>1, <3>2, <3>3, <3>4 DEF ExamInv
  <2>4. CASE GdRevises BY <2>1, <2>4, ExamsRevised
  <2> QED BY <2>2, <2>3, <2>4, Frame
<1>3. ExamInv => PapersMatchAnswers BY PapersMatch
<1> QED BY <1>1, <1>2, <1>3, PTL DEF Spec

(***************************************************************************)
(* Catalogues.                                                             *)
(***************************************************************************)

Slots == {"id", "names", "left", "list"}
Filled(s)  == s = [f \in Slots |-> s[f]]
Titled(f)  == f = [i \in Entries |-> f[i]]
Shelves(f) == f = [k \in Catalogues |-> f[k]] /\ \A k \in Catalogues : Titled(f[k])

Browsing(p)     == Active(p, DirectoryOps)
Browses(p, ops, labels, k) == Browsing(p) /\ req[p].op \in ops /\ pc[p] \in labels /\ CatalogueOf(p) = k

\* p wrote the row or the field of entry i of k, or read the row, and is to write the other.
Halves(p, k, i) ==
  /\ Browsing(p)
  /\ \/ req[p].op \in Adds \union Changes /\ pc[p] \in {"field", "commit"} /\ CatalogueOf(p) = k /\ EntryOf(p) = i
     \/ req[p].op = "dropGroup" /\ pc[p] \in {"unset", "dropped"} /\ k = "group" /\ req[p].id = i
     \/ req[p].op \in Queries /\ pc[p] = "fields" /\ CatalogueOf(p) = k /\ i \in seen[p].left

DirectoryTypes ==
  /\ Shelves(rows) /\ Shelves(hash) /\ text = [k \in Catalogues |-> text[k]]
  /\ lists \in [Entries -> (SUBSET Entries) \union {None}]
  /\ listText = [g \in Entries |-> listText[g]] /\ wanted = [g \in Entries |-> wanted[g]]
  /\ rows["subject"][1] # None /\ text["subject"] = None

\* Where a handler is with which request, and what it has read.
Shelved(p) ==
  /\ Filled(seen[p]) /\ req[p] \in Calls
  /\ pc[p] = "commit" => req[p].op = "addGroup"
  /\ pc[p] \in {"unlist", "unset", "dropped"} => req[p].op = "dropGroup"
  /\ pc[p] = "field" => req[p].op \in Adds \union Changes
  /\ pc[p] = "text" => req[p].op \in Writers /\ CatalogueOf(p) # "subject"
  /\ pc[p] = "putText" => /\ req[p].op \in Writers \union Queries /\ CatalogueOf(p) # "subject"
                          /\ Titled(seen[p].names)
  /\ pc[p] = "fields" => /\ req[p].op \in {"tags", "subjects"} /\ Titled(seen[p].names) /\ seen[p].left \subseteq Entries
                         /\ \A i \in seen[p].left : seen[p].names[i] # None /\ rows[CatalogueOf(p)][i] # None
  /\ pc[p] \in {"insertList", "writeList"} => req[p].op = "list" /\ seen[p].list \in SUBSET Entries
  /\ pc[p] = "reload" => req[p].op \in ListOps
  /\ pc[p] = "putList" => req[p].op \in ListOps /\ lists[req[p].group] # None

\* What a transaction locks: to add a group, all rows and the end of the table.
GroupsAreLocked ==
  /\ \A p, q \in Procs : InTransaction(p) /\ InTransaction(q) /\ p # q =>
       req[p].op = "dropGroup" /\ req[q].op = "dropGroup" /\ req[p].id # req[q].id
  /\ \A p \in Procs : InTransaction(p) /\ req[p].op = "addGroup" => \A i \in Entries : rows["group"][i] # req[p].name
  /\ \A i, j \in Entries : rows["group"][i] # None /\ rows["group"][i] = rows["group"][j] => i = j

\* What is to be written next is what makes the two equal.
Due(p, k, i) ==
  /\ k # "group" /\ pc[p] = "field"  => req[p].name = rows[k][i]
  /\ k # "group" /\ pc[p] = "fields" => seen[p].names[i] = rows[k][i]
  /\ pc[p] = "commit"                => hash[k][i] = req[p].name
  /\ pc[p] \in {"unset", "dropped"}  => hash[k][i] = None

EntryAgrees(k, i) ==
  /\ (\A p \in Procs : ~Halves(p, k, i)) => hash[k][i] = rows[k][i]
  /\ \A p \in Procs : Halves(p, k, i) => Due(p, k, i)

Enacting(i) == \E p \in Procs : Halves(p, "group", i) /\ pc[p] # "field"
Differs(k, i) == k = "group" /\ Enacting(i)

\* A group's hash has what its transaction is about to commit.
GroupsPrepared == \A p \in Procs, i \in Entries : Halves(p, "group", i) => Due(p, "group", i)

\* The field of an entry follows its row.
FieldFollows(k, i) ==
  (IF k = "group" THEN hash[k][i] = rows[k][i] ELSE rows[k][i] = None => hash[k][i] = None) \/ Differs(k, i)

\* The text of a catalogue, and what is to become of it.
TextFollows(k) ==
  /\ (text[k] # None /\ \A p \in Procs : ~Renews(p, k)) => text[k] = hash[k]
  /\ \A p \in Procs : Browses(p, DirectoryOps, {"putText"}, k) =>
       \A i \in Entries : seen[p].names[i] = hash[k][i] \/ Differs(k, i)
  /\ \A p \in Procs : Browses(p, DirectoryOps, {"fields"}, k) =>
       \A i \in Entries \ seen[p].left : seen[p].names[i] = hash[k][i]
  /\ \A i \in Entries : FieldFollows(k, i)
  /\ k = "tag" => \A p \in Procs : Browses(p, DirectoryOps, {"field"}, k) /\ EntryOf(p) \in Entries => rows[k][EntryOf(p)] # None

OnList(p, g) == Browsing(p) /\ req[p].op \in ListOps /\ req[p].group = g

\* What p read of the list of g is what it is.
ListRead(p, g) ==
  /\ pc[p] = "insertList" => lists[g] = None /\ seen[p].list = Changed(req[p], {})
  /\ pc[p] = "writeList"  => lists[g] # None /\ seen[p].list = Changed(req[p], lists[g])
  /\ pc[p] = "putList"    => seen[p].list = lists[g]

ListFollows(g) ==
  /\ wanted[g] = IF lists[g] = None THEN {} ELSE lists[g]
  /\ (listText[g] # None /\ \A p \in Procs : ~Reloads(p, g)) => listText[g] = lists[g]
  /\ \A p \in Procs : OnList(p, g) => ListRead(p, g)

DirectoryInv ==
  /\ DirectoryTypes
  /\ \A p \in Procs : Browsing(p) => Shelved(p)
  /\ GroupsAreLocked /\ GroupsPrepared
  /\ \A k \in Catalogues, i \in Entries : <<k, i>> \notin blurred => EntryAgrees(k, i)
  /\ \A k \in {"group", "tag"} : <<k, 0>> \notin blurred => TextFollows(k)
  /\ \A g \in Entries : <<"list", g>> \notin blurred => ListFollows(g)
  /\ \A g \in Entries : lists[g] = None => listText[g] = None

LEMMA Catalogued ==
  ASSUME NEW q
  PROVE  /\ req[q].op \in {"addGroup", "dropGroup", "groups"} => CatalogueOf(q) = "group"
         /\ req[q].op \in {"addTag", "changeTag", "tags"} => CatalogueOf(q) = "tag"
         /\ req[q].op \in {"addSubject", "changeSubject", "subjects"} => CatalogueOf(q) = "subject"
         /\ req[q].op \in Writers \union Queries => CatalogueOf(q) \in Catalogues
<1>1. req[q].op \in {"addGroup", "dropGroup", "groups"} => CatalogueOf(q) = "group" BY DEF CatalogueOf
<1>2. req[q].op \in {"addTag", "changeTag", "tags"} => CatalogueOf(q) = "tag" BY DEF CatalogueOf
<1>3. req[q].op \in {"addSubject", "changeSubject", "subjects"} => CatalogueOf(q) = "subject" BY DEF CatalogueOf
<1> QED BY <1>1, <1>2, <1>3 DEF Writers, Adds, Changes, Queries, Catalogues

\* A field of what a handler read is set.
LEMMA Slotted ==
  ASSUME NEW s, Filled(s), NEW field \in Slots, NEW v
  PROVE  LET t == [s EXCEPT ![field] = v] IN
         Filled(t) /\ t[field] = v /\ \A f \in Slots \ {field} : t[f] = s[f]
BY DEF Filled

LEMMA UnreadSlots == Filled(Unread)
BY DEF Unread, Slots, Filled

LEMMA HalfOf == ASSUME NEW q, Browsing(q) => Shelved(q), NEW k, NEW i, Halves(q, k, i) PROVE <<k, i>> \in Half(q)
<1> USE DEF Halves, Browsing, Active, Half, At
<1>1. CASE req[q].op \in Adds \union Changes /\ pc[q] \in {"field", "commit"} /\ CatalogueOf(q) = k /\ EntryOf(q) = i
  <2>1. pc[q] = "commit" => req[q].op \in Adds BY DEF Shelved, Adds
  <2> QED BY <1>1, <2>1
<1>2. CASE req[q].op = "dropGroup" /\ pc[q] \in {"unset", "dropped"} /\ k = "group" /\ req[q].id = i
  <2>1. CatalogueOf(q) = "group" /\ EntryOf(q) = i BY <1>2, Catalogued DEF EntryOf, Adds
  <2> QED BY <1>2, <2>1
<1>3. CASE req[q].op \in Queries /\ pc[q] = "fields" /\ CatalogueOf(q) = k /\ i \in seen[q].left
  BY <1>3
<1> QED BY <1>1, <1>2, <1>3

LEMMA OtherBrowsers ==
  ASSUME NEW p \in Procs, Handled(p), NEW q \in Procs, q # p
  PROVE  /\ pc'[q] = pc[q] /\ req'[q] = req[q] /\ seen'[q] = seen[q]
         /\ Browsing(q)' <=> Browsing(q)
         /\ CatalogueOf(q)' = CatalogueOf(q) /\ EntryOf(q)' = EntryOf(q)
         /\ InTransaction(q)' <=> InTransaction(q)
         /\ \A k, i : Halves(q, k, i)' <=> Halves(q, k, i)
         /\ \A k : Renews(q, k)' <=> Renews(q, k)
         /\ \A g : (Reloads(q, g)' <=> Reloads(q, g)) /\ (OnList(q, g)' <=> OnList(q, g))
         /\ \A ops, labels, k : Browses(q, ops, labels, k)' <=> Browses(q, ops, labels, k)
<1>1. pc'[q] = pc[q] /\ req'[q] = req[q] /\ seen'[q] = seen[q] BY DEF Handled
<1>2. CatalogueOf(q)' = CatalogueOf(q) BY <1>1 DEF CatalogueOf
<1>3. EntryOf(q)' = EntryOf(q) BY <1>1 DEF EntryOf
<1>4. Browsing(q)' <=> Browsing(q) BY <1>1 DEF Browsing, Active, Busy
<1> QED BY <1>1, <1>2, <1>3, <1>4 DEF InTransaction, Busy, Halves, Renews, Reloads, OnList, Browses

LEMMA Blurring ==
  ASSUME NEW p, NEW k, NEW i, Blur(p, k, i)
  PROVE  /\ blurred \subseteq blurred'
         /\ \A q \in Procs \ {p} : <<k, i>> \notin blurred' => <<k, i>> \notin Half(q)
         /\ \A q \in Procs \ {p} : <<k, 0>> \notin blurred' => ~Reads(q, k)
BY DEF Blur

Entitled(f, k, i, v) == [f EXCEPT ![k][i] = v]

LEMMA TitleSet ==
  ASSUME NEW f, Shelves(f), NEW k \in Catalogues, NEW i, NEW v
  PROVE  /\ Shelves(Entitled(f, k, i, v))
         /\ \A l \in Catalogues : l # k => Entitled(f, k, i, v)[l] = f[l]
         /\ \A l \in Catalogues, j \in Entries :
              Entitled(f, k, i, v)[l][j] = IF l = k /\ j = i THEN v ELSE f[l][j]
<1> DEFINE h == [f[k] EXCEPT ![i] = v]
           g == [f EXCEPT ![k] = h]
<1>1. Titled(h) /\ \A j \in Entries : h[j] = IF j = i THEN v ELSE f[k][j] BY DEF Titled, Shelves
<1>2. Entitled(f, k, i, v) = g BY DEF Entitled
<1> HIDE DEF h
<1>3. g = [l \in Catalogues |-> g[l]] /\ g[k] = h /\ \A l \in Catalogues : l # k => g[l] = f[l] BY DEF Shelves
<1>4. Shelves(g) BY <1>1, <1>3 DEF Shelves
<1>5. \A l \in Catalogues, j \in Entries : g[l][j] = IF l = k /\ j = i THEN v ELSE f[l][j] BY <1>1, <1>3
<1> HIDE DEF g
<1> QED BY <1>2, <1>3, <1>4, <1>5

\* Which steps change what.
LEMMA DirectoryChanges ==
  ASSUME NEW p, DirectoryStep(p)
  PROVE  /\ UNCHANGED rows \/ CommitGroup(p) \/ CommitDelete(p) \/ InsertRow(p) \/ UpdateRow(p)
         /\ UNCHANGED hash \/ DeleteGroupField(p) \/ SetEntry(p) \/ SetRow(p)
         /\ UNCHANGED text \/ PutText(p)
         /\ UNCHANGED <<lists, wanted>> \/ WriteList(p)
         /\ UNCHANGED listText \/ DeleteGroupHash(p) \/ PutList(p)
         /\ blurred \subseteq blurred'
<1> USE DEF catalogues, groupLists, directory
<1>1. CASE \/ onHttpAddGroup(p) \/ onHttpDeleteGroup(p) \/ onHttpAddTag(p) \/ onHttpAddSubject(p)
           \/ onHttpChangeTag(p) \/ onHttpChangeSubject(p)
           \/ onHttpQueryGroup(p) \/ onHttpQueryTag(p) \/ onHttpQuerySubject(p)
           \/ onHttpAddSubjectToGroup(p) \/ onHttpQuerySubjectForGroup(p)
  BY <1>1 DEF onHttpAddGroup, onHttpDeleteGroup, onHttpAddTag, onHttpAddSubject, onHttpChangeTag, onHttpChangeSubject,
              onHttpQueryGroup, onHttpQueryTag, onHttpQuerySubject, onHttpAddSubjectToGroup, onHttpQuerySubjectForGroup, Browse
<1>2. CASE CheckNames(p) \/ InsertGroup(p) \/ CountClasses(p) \/ DeleteGroupRow(p) \/ ReadHash(p) \/ QueryHit(p) \/ QueryRows(p)
  BY <1>2 DEF CheckNames, InsertGroup, CountClasses, DeleteGroupRow, ReadHash, QueryHit, QueryRows
<1>3. CASE ReadList(p) \/ GetSubjectList(p) \/ ReadListRow(p) \/ DirectoryFails(p)
  BY <1>3 DEF ReadList, GetSubjectList, ReadListRow, DirectoryFails
<1>4. CASE CommitGroup(p) \/ DeleteGroupField(p) \/ DeleteGroupHash(p) \/ CommitDelete(p)
  BY <1>4 DEF CommitGroup, DeleteGroupField, DeleteGroupHash, CommitDelete, Blur
<1>5. CASE InsertRow(p) \/ UpdateRow(p) \/ SetEntry(p) \/ PutText(p) \/ SetRow(p)
  BY <1>5 DEF InsertRow, UpdateRow, SetEntry, PutText, SetRow, Blur
<1>6. CASE WriteList(p) \/ PutList(p) BY <1>6 DEF WriteList, PutList
<1> QED BY <1>1, <1>2, <1>3, <1>4, <1>5, <1>6 DEF DirectoryStep

\* Rows of tags and subjects are not deleted, nor are lists.
RowsRemain ==
  /\ \A k \in {"tag", "subject"}, i \in Entries : rows[k][i] # None => rows'[k][i] # None
  /\ \A g \in Entries : lists[g] # None => lists'[g] # None

LEMMA DirectoryTyped ==
  ASSUME Locals, DirectoryInv, NEW p \in Procs, May(p, DirectoryOps), DirectoryStep(p), Stays(p, DirectoryOps)
  PROVE  DirectoryTypes' /\ RowsRemain
<1> USE DEF At
<1>t. DirectoryTypes BY DEF DirectoryInv
<1>p. pc[p] # "idle" => Shelved(p) /\ req[p].op \in DirectoryOps BY DEF DirectoryInv, Browsing, Active, May, Busy
<1>1. /\ Shelves(rows')
      /\ \A k \in {"tag", "subject"}, i \in Entries : rows[k][i] # None => rows'[k][i] # None
  <2>1. CASE UNCHANGED rows BY <1>t, <2>1 DEF DirectoryTypes
  <2>2. CASE CommitGroup(p) \/ CommitDelete(p)
    <3>1. \E i, v : rows' = Entitled(rows, "group", i, v) BY <2>2 DEF CommitGroup, CommitDelete, Entitled
    <3> PICK i, v : rows' = Entitled(rows, "group", i, v) BY <3>1
    <3>2. Shelves(rows) /\ "group" \in Catalogues BY <1>t DEF DirectoryTypes, Catalogues
    <3>3. Shelves(rows') /\ \A l \in Catalogues : l # "group" => rows'[l] = rows[l] BY <3>2, TitleSet
    <3> QED BY <3>3 DEF Catalogues
  <2>3. CASE InsertRow(p) \/ (UpdateRow(p) /\ ~UNCHANGED rows)
    <3>1. req[p].op \in Adds \union Changes /\ pc[p] # "idle" BY <2>3 DEF InsertRow, UpdateRow, Adds
    <3>2. req[p].name # None BY <1>p, <3>1, RequestsOfEntries DEF Shelved, Calls, Locals
    <3>3. CatalogueOf(p) \in Catalogues BY <3>1, Catalogued DEF Writers
    <3>4. \E k \in Catalogues : \E i, v : v # None /\ rows' = Entitled(rows, k, i, v)
      BY <2>3, <3>2, <3>3 DEF InsertRow, UpdateRow, Entitled
    <3> PICK k \in Catalogues : \E i, v : v # None /\ rows' = Entitled(rows, k, i, v) BY <3>4
    <3> PICK i, v : v # None /\ rows' = Entitled(rows, k, i, v) OBVIOUS
    <3>5. Shelves(rows) BY <1>t DEF DirectoryTypes
    <3>6. Shelves(rows') BY <3>5, TitleSet
    <3>8. \A l \in Catalogues, j \in Entries : rows'[l][j] = IF l = k /\ j = i THEN v ELSE rows[l][j] BY <3>5, TitleSet
    <3>7. \A l \in Catalogues, j \in Entries : rows[l][j] # None => rows'[l][j] # None BY <3>8
    <3> QED BY <3>6, <3>7 DEF Catalogues
  <2> QED BY <2>1, <2>2, <2>3, DirectoryChanges
<1>2. Shelves(hash')
  <2>1. CASE UNCHANGED hash BY <1>t, <2>1 DEF DirectoryTypes
  <2>2. CASE DeleteGroupField(p) \/ SetEntry(p) \/ SetRow(p)
    <3>1. \E k \in Catalogues : \E i, v : hash' = Entitled(hash, k, i, v)
      <4>1. CASE DeleteGroupField(p) BY <4>1 DEF DeleteGroupField, Catalogues, Entitled
      <4>2. CASE SetEntry(p)
        <5>1. CatalogueOf(p) \in Catalogues BY <4>2, Catalogued DEF SetEntry, Writers
        <5> QED BY <4>2, <5>1 DEF SetEntry, Entitled
      <4>3. CASE SetRow(p)
        <5>1. CatalogueOf(p) \in Catalogues BY <4>3, Catalogued DEF SetRow
        <5> QED BY <4>3, <5>1 DEF SetRow, Entitled
      <4> QED BY <2>2, <4>1, <4>2, <4>3
    <3> PICK k \in Catalogues : \E i, v : hash' = Entitled(hash, k, i, v) BY <3>1
    <3> PICK i, v : hash' = Entitled(hash, k, i, v) OBVIOUS
    <3>2. Shelves(hash) BY <1>t DEF DirectoryTypes
    <3> QED BY <3>2, TitleSet
  <2> QED BY <2>1, <2>2, DirectoryChanges
<1>3. text' = [k \in Catalogues |-> text'[k]] /\ text'["subject"] = None
  <2>1. CASE UNCHANGED text BY <1>t, <2>1 DEF DirectoryTypes
  <2>2. CASE PutText(p)
    <3>1. text' = [text EXCEPT ![CatalogueOf(p)] = seen[p].names] /\ pc[p] = "putText" BY <2>2 DEF PutText
    <3>2. CatalogueOf(p) # "subject" BY <1>p, <3>1 DEF Shelved
    <3> QED BY <1>t, <3>1, <3>2 DEF DirectoryTypes
  <2> QED BY <2>1, <2>2, DirectoryChanges
<1>4. /\ lists' \in [Entries -> (SUBSET Entries) \union {None}] /\ wanted' = [g \in Entries |-> wanted'[g]]
      /\ \A g \in Entries : lists[g] # None => lists'[g] # None
  <2>1. CASE UNCHANGED <<lists, wanted>> BY <1>t, <2>1 DEF DirectoryTypes
  <2>2. CASE WriteList(p) /\ ~UNCHANGED <<lists, wanted>>
    <3>1. /\ lists' = [lists EXCEPT ![req[p].group] = seen[p].list]
          /\ wanted' = [wanted EXCEPT ![req[p].group] = Changed(req[p], @)] /\ pc[p] \in {"insertList", "writeList"}
      BY <2>2 DEF WriteList
    <3>2. seen[p].list \in SUBSET Entries BY <1>p, <3>1 DEF Shelved
    <3>3. seen[p].list # None BY <3>2, RequestsOfEntries
    <3> QED BY <1>t, <3>1, <3>2, <3>3 DEF DirectoryTypes
  <2> QED BY <2>1, <2>2, DirectoryChanges
<1>5. listText' = [g \in Entries |-> listText'[g]]
  <2>1. CASE UNCHANGED listText BY <1>t, <2>1 DEF DirectoryTypes
  <2>2. CASE DeleteGroupHash(p) \/ PutList(p) BY <1>t, <2>2 DEF DirectoryTypes, DeleteGroupHash, PutList
  <2> QED BY <2>1, <2>2, DirectoryChanges
<1>6. rows'["subject"][1] # None BY <1>t, <1>1, RequestsOfEntries DEF DirectoryTypes
<1> QED BY <1>1, <1>2, <1>3, <1>4, <1>5, <1>6 DEF DirectoryTypes, RowsRemain

LEMMA Keeps ==
  ASSUME Locals, NEW p \in Procs, Filled(seen[p]), NEW l, NEW field \in Slots, NEW v, Keep(p, l, field, v)
  PROVE  /\ pc'[p] = l /\ req'[p] = req[p] /\ Filled(seen'[p])
         /\ seen'[p].id    = IF field = "id" THEN v ELSE seen[p].id
         /\ seen'[p].names = IF field = "names" THEN v ELSE seen[p].names
         /\ seen'[p].left  = IF field = "left" THEN v ELSE seen[p].left
         /\ seen'[p].list  = IF field = "list" THEN v ELSE seen[p].list
<1> PICK s : s = [seen[p] EXCEPT ![field] = v] OBVIOUS
<1>1. pc'[p] = l /\ req'[p] = req[p] /\ seen'[p] = s BY Handling DEF Keep
<1>2. Filled(s) /\ s[field] = v /\ \A f \in Slots \ {field} : s[f] = seen[p][f] BY Slotted
<1> QED BY <1>1, <1>2 DEF Slots

LEMMA ShelvedRemains ==
  ASSUME Locals, scene' = scene, RowsRemain, NEW q, pc'[q] = pc[q], req'[q] = req[q], seen'[q] = seen[q], Shelved(q)
  PROVE  Shelved(q)'
<1>0. CatalogueOf(q)' = CatalogueOf(q) BY DEF CatalogueOf
<1>1. Calls' = Calls BY DEF Calls
<1>2. pc[q] = "fields" => \A i \in seen[q].left : rows'[CatalogueOf(q)][i] # None
  BY Catalogued DEF Shelved, RowsRemain
<1>3. pc[q] = "putList" => lists'[req[q].group] # None
  BY RequestsOfEntries DEF Shelved, RowsRemain, Locals, Calls
<1> QED BY <1>0, <1>1, <1>2, <1>3 DEF Shelved, Titled, Filled

LEMMA BrowserMoves ==
  ASSUME Locals, DirectoryInv, NEW p \in Procs, scene' = scene, May(p, DirectoryOps), DirectoryStep(p), Stays(p, DirectoryOps),
         Browsing(p)'
  PROVE  Shelved(p)'
<1> USE DEF At
<1>t. DirectoryTypes BY DEF DirectoryInv
<1> USE Handling
<1>r. RowsRemain BY DirectoryTyped
<1>p. pc[p] # "idle" => Shelved(p) /\ req[p].op \in DirectoryOps BY DEF DirectoryInv, Browsing, Active, May, Busy
<1>n. pc'[p] # "idle" BY DEF Browsing, Active, Busy
<1>c. Calls' = Calls BY DEF Calls
<1>f. {"id", "names", "left", "list"} \subseteq Slots BY DEF Slots
<1>o. Adds \union Changes \subseteq Writers BY DEF Writers
<1>1. CASE \/ onHttpAddGroup(p) \/ onHttpDeleteGroup(p) \/ onHttpAddTag(p) \/ onHttpAddSubject(p)
           \/ onHttpChangeTag(p) \/ onHttpChangeSubject(p)
           \/ onHttpQueryGroup(p) \/ onHttpQueryTag(p) \/ onHttpQuerySubject(p)
           \/ onHttpAddSubjectToGroup(p) \/ onHttpQuerySubjectForGroup(p)
  <2>1. /\ req'[p] \in Calls /\ seen'[p] = Unread
        /\ pc'[p] \in {"names", "count", "insert", "update", "query", "readList", "shown"}
    BY <1>1 DEF onHttpAddGroup, onHttpDeleteGroup, onHttpAddTag, onHttpAddSubject, onHttpChangeTag, onHttpChangeSubject,
              onHttpQueryGroup, onHttpQueryTag, onHttpQuerySubject, onHttpAddSubjectToGroup, onHttpQuerySubjectForGroup, Browse
  <2> QED BY <1>c, <2>1, UnreadSlots DEF Shelved
\* Steps that read nothing.
<1>2. CASE \/ CheckNames(p) \/ CommitGroup(p) \/ CountClasses(p) \/ DeleteGroupRow(p) \/ DeleteGroupField(p)
           \/ DeleteGroupHash(p) \/ CommitDelete(p) \/ UpdateRow(p) \/ SetEntry(p) \/ WriteList(p) \/ GetSubjectList(p)
  <2>1. /\ pc[p] # "idle" /\ req'[p] = req[p] /\ seen'[p] = seen[p]
        /\ \/ pc'[p] \in {"insert", "delete"}
           \/ pc'[p] \in {"unlist", "unset", "dropped"} /\ req[p].op = "dropGroup"
           \/ pc'[p] = "text" /\ req[p].op \in {"addGroup", "dropGroup"}
           \/ pc'[p] = "field" /\ req[p].op \in Changes
           \/ SetEntry(p)
           \/ pc'[p] = "reload" /\ req[p].op \in ListOps
    <3>1. CASE CheckNames(p) BY <1>n, <3>1 DEF CheckNames
    <3>2. CASE CommitGroup(p) BY <3>2 DEF CommitGroup
    <3>3. CASE CountClasses(p) BY <1>n, <3>3 DEF CountClasses
    <3>4. CASE DeleteGroupRow(p) \/ DeleteGroupField(p) \/ DeleteGroupHash(p) \/ CommitDelete(p)
      BY <3>4 DEF DeleteGroupRow, DeleteGroupField, DeleteGroupHash, CommitDelete
    <3>5. CASE UpdateRow(p) BY <3>5 DEF UpdateRow
    <3>6. CASE SetEntry(p)
      <4>1. CatalogueOf(p) \in Catalogues BY <1>o, <3>6, Catalogued DEF SetEntry
      <4> QED BY <1>n, <3>6, <4>1 DEF SetEntry, Catalogues
    <3>7. CASE WriteList(p)
      <4>1. pc[p] \in {"insertList", "writeList"} BY <3>7 DEF WriteList
      <4>2. req[p].op = "list" BY <1>p, <4>1 DEF Shelved
      <4> QED BY <1>n, <3>7, <4>1, <4>2 DEF WriteList, ListOps
    <3>8. CASE GetSubjectList(p) BY <1>n, <3>8 DEF GetSubjectList, ListOps
    <3> QED BY <1>2, <3>1, <3>2, <3>3, <3>4, <3>5, <3>6, <3>7, <3>8
  <2>2. Shelved(p) BY <1>p, <2>1
  <2>3. CatalogueOf(p)' = CatalogueOf(p) BY <2>1 DEF CatalogueOf
  <2>4. Filled(seen'[p]) /\ req'[p] \in Calls' BY <1>c, <2>1, <2>2 DEF Shelved
  <2>5. SetEntry(p) => \/ pc'[p] = "commit" /\ req[p].op = "addGroup"
                       \/ pc'[p] = "text" /\ req[p].op \in Writers /\ CatalogueOf(p) # "subject"
    <3> SUFFICES ASSUME SetEntry(p)
                 PROVE  \/ pc'[p] = "commit" /\ req[p].op = "addGroup"
                        \/ pc'[p] = "text" /\ req[p].op \in Writers /\ CatalogueOf(p) # "subject"
      OBVIOUS
    <3>1. req[p].op \in {"addGroup", "addTag", "addSubject", "changeTag", "changeSubject"} BY DEF SetEntry, Adds, Changes
    <3>2. CASE req[p].op = "addGroup"
      <4>1. CatalogueOf(p) = "group" BY <3>2, Catalogued
      <4> QED BY <3>2, <4>1 DEF SetEntry
    <3>3. CASE req[p].op \in {"addTag", "changeTag"}
      <4>1. CatalogueOf(p) = "tag" BY <3>3, Catalogued
      <4> QED BY <3>3, <4>1 DEF SetEntry, Writers, Adds, Changes
    <3>4. CASE req[p].op \in {"addSubject", "changeSubject"}
      <4>1. CatalogueOf(p) = "subject" BY <3>4, Catalogued
      <4> QED BY <1>n, <4>1 DEF SetEntry
    <3> QED BY <3>1, <3>2, <3>3, <3>4
  <2>6. req[p].op \in {"addGroup", "dropGroup"} => req[p].op \in Writers /\ CatalogueOf(p) # "subject"
    BY Catalogued DEF Writers, Adds
  <2> QED BY <2>1, <2>3, <2>4, <2>5, <2>6 DEF Shelved
<1>3. CASE InsertGroup(p) \/ InsertRow(p)
  <2>1. pc[p] # "idle" /\ req[p].op \in Adds /\ \E i : Keep(p, "field", "id", i)
    BY <1>3, <1>n DEF InsertGroup, InsertRow, Adds
  <2>2. Shelved(p) BY <1>p, <2>1
  <2>3. pc'[p] = "field" /\ req'[p] = req[p] /\ Filled(seen'[p])
    BY <1>f, <2>1, <2>2, Keeps DEF Shelved
  <2> QED BY <1>c, <2>1, <2>2, <2>3 DEF Shelved
<1>4. CASE ReadHash(p)
  <2>1. pc[p] = "text" /\ req[p].op \in Writers /\ Keep(p, "putText", "names", hash[CatalogueOf(p)]) BY <1>4 DEF ReadHash
  <2>2. Shelved(p) BY <1>p, <2>1
  <2>3. pc'[p] = "putText" /\ req'[p] = req[p] /\ Filled(seen'[p]) /\ seen'[p].names = hash[CatalogueOf(p)]
    BY <1>f, <2>1, <2>2, Keeps DEF Shelved
  <2>4. Titled(seen'[p].names)
    <3>1. CatalogueOf(p) \in Catalogues BY <2>1, Catalogued
    <3>2. seen'[p].names = hash[CatalogueOf(p)] BY <2>3
    <3> QED BY <1>t, <3>1, <3>2 DEF DirectoryTypes, Shelves
  <2>5. CatalogueOf(p)' = CatalogueOf(p) BY <2>3 DEF CatalogueOf
  <2>6. CatalogueOf(p) # "subject" BY <2>1, <2>2 DEF Shelved
  <2>7. Titled(seen[p].names)' BY <2>4 DEF Titled
  <2> QED BY <1>c, <2>1, <2>2, <2>3, <2>5, <2>6, <2>7 DEF Shelved
<1>5. CASE QueryRows(p)
  <2> DEFINE left == {i \in Entries : rows[CatalogueOf(p)][i] # None}
  <2>1. /\ pc[p] = "query" /\ req[p].op \in Queries
        /\ \/ (CatalogueOf(p) = "group" \/ left = {}) /\ Keep(p, "putText", "names", rows[CatalogueOf(p)])
           \/ CatalogueOf(p) # "group" /\ With(p, "fields", [Unread EXCEPT !.names = rows[CatalogueOf(p)], !.left = left])
        /\ UNCHANGED rows
    BY <1>5 DEF QueryRows, directory, catalogues
  <2>2. Shelved(p) BY <1>p, <2>1
  <2> PICK k \in Catalogues : k = CatalogueOf(p) BY <2>1, Catalogued
  <2>3. Titled(rows[k]) BY <1>t DEF DirectoryTypes, Shelves
  <2>4. CASE (k = "group" \/ left = {}) /\ Keep(p, "putText", "names", rows[k])
    <3>1. k # "subject" BY <1>t, <2>4, RequestsOfEntries DEF DirectoryTypes
    <3>2. pc'[p] = "putText" /\ req'[p] = req[p] /\ Filled(seen'[p]) /\ seen'[p].names = rows[k]
      BY <1>f, <2>2, <2>4, Keeps DEF Shelved
    <3>3. CatalogueOf(p)' = k BY <3>2 DEF CatalogueOf
    <3>4. Titled(seen[p].names)' BY <2>3, <3>2 DEF Titled
    <3> QED BY <1>c, <2>1, <2>2, <3>1, <3>2, <3>3, <3>4 DEF Shelved
  <2>5. CASE k # "group" /\ With(p, "fields", [Unread EXCEPT !.names = rows[k], !.left = left])
    <3> PICK s : s = [Unread EXCEPT !.names = rows[k], !.left = left] OBVIOUS
    <3>1. Filled(s) /\ s.names = rows[k] /\ s.left = left BY DEF Unread, Slots, Filled
    <3>2. pc'[p] = "fields" /\ req'[p] = req[p] /\ seen'[p] = s BY <2>5
    <3>3. req[p].op \in {"tags", "subjects"} BY <2>1, <2>5, Catalogued DEF Queries
    <3>4. CatalogueOf(p)' = k BY <3>2 DEF CatalogueOf
    <3>5. Titled(seen[p].names)' BY <2>3, <3>1, <3>2 DEF Titled
    <3> QED BY <1>c, <2>1, <2>2, <3>1, <3>2, <3>3, <3>4, <3>5 DEF Shelved
  <2> QED BY <2>1, <2>4, <2>5
<1>6. CASE SetRow(p)
  <2>1. pc[p] = "fields" /\ req[p].op \in Queries /\ UNCHANGED rows BY <1>6 DEF SetRow
  <2>2. Shelved(p) /\ req[p].op \in {"tags", "subjects"} BY <1>p, <2>1 DEF Shelved
  <2>3. CASE \E i \in seen[p].left : Keep(p, "fields", "left", seen[p].left \ {i})
    <3> PICK i \in seen[p].left : Keep(p, "fields", "left", seen[p].left \ {i}) BY <2>3
    <3>1. /\ pc'[p] = "fields" /\ req'[p] = req[p] /\ Filled(seen'[p])
          /\ seen'[p].left = seen[p].left \ {i} /\ seen'[p].names = seen[p].names
      BY <1>f, <2>2, Keeps DEF Shelved
    <3>2. seen'[p].left = seen[p].left \ {i} /\ seen'[p].names = seen[p].names BY <3>1
    <3>3. CatalogueOf(p)' = CatalogueOf(p) BY <3>1 DEF CatalogueOf
    <3>4. Titled(seen[p].names)' BY <2>1, <2>2, <3>2 DEF Shelved, Titled
    <3> QED BY <1>c, <2>1, <2>2, <3>1, <3>2, <3>3, <3>4 DEF Shelved
  <2>4. CASE On(p, "putText") /\ CatalogueOf(p) = "tag"
    <3>1. pc'[p] = "putText" /\ req'[p] = req[p] /\ seen'[p] = seen[p] BY <2>4
    <3>3. CatalogueOf(p)' = "tag" BY <2>4, <3>1 DEF CatalogueOf
    <3>4. Titled(seen[p].names)' BY <2>1, <2>2, <3>1 DEF Shelved, Titled
    <3> QED BY <1>c, <2>1, <2>2, <3>1, <3>3, <3>4 DEF Shelved
  <2> QED BY <1>6, <1>n, <2>3, <2>4 DEF SetRow
<1>7. CASE ReadList(p)
  <2>1. pc[p] = "readList" /\ req[p].op = "list" BY <1>7 DEF ReadList
  <2>2. Shelved(p) BY <1>p, <2>1
  <2>3. req[p].group \in Entries /\ req[p].subject \in Entries
    BY <2>1, <2>2, RequestsOfEntries DEF Shelved, Locals, Calls, ListOps
  <2> PICK m : m = IF lists[req[p].group] = None THEN {} ELSE lists[req[p].group] OBVIOUS
  <2> PICK l : l = Changed(req[p], m) OBVIOUS
  <2>4. l \in SUBSET Entries
    <3>1. lists[req[p].group] \in (SUBSET Entries) \union {None} BY <1>t, <2>3 DEF DirectoryTypes
    <3> PICK x : x = lists[req[p].group] OBVIOUS
    <3>2. x \in SUBSET Entries \/ x = None BY <3>1
    <3>3. m \in SUBSET Entries
      <4>1. m = IF x = None THEN {} ELSE x OBVIOUS
      <4> QED BY <3>2, <4>1
    <3> QED BY <2>3, <3>3 DEF Changed
  <2> PICK s : s = [Unread EXCEPT !.list = l] OBVIOUS
  <2>5. Filled(s) /\ s.list = l BY DEF Unread, Slots, Filled
  <2>6. \E lab \in {"insertList", "writeList"} : With(p, lab, s) BY <1>7, <1>n DEF ReadList
  <2>7. pc'[p] \in {"insertList", "writeList"} /\ req'[p] = req[p] /\ seen'[p] = s BY <2>6
  <2> QED BY <1>c, <2>1, <2>2, <2>4, <2>5, <2>7 DEF Shelved
<1>8. CASE ReadListRow(p)
  <2> PICK l : l = lists[req[p].group] OBVIOUS
  <2>1. pc[p] = "reload" /\ req[p].op \in ListOps /\ l # None /\ Keep(p, "putList", "list", l) /\ UNCHANGED lists
    BY <1>8, <1>n DEF ReadListRow, directory, groupLists
  <2>2. Shelved(p) BY <1>p, <2>1
  <2>3. pc'[p] = "putList" /\ req'[p] = req[p] /\ Filled(seen'[p])
    BY <1>f, <2>1, <2>2, Keeps DEF Shelved
  <2> QED BY <1>c, <2>1, <2>2, <2>3 DEF Shelved
<1>9. CASE PutText(p) \/ QueryHit(p) \/ PutList(p) \/ DirectoryFails(p)
  BY <1>9, <1>n DEF PutText, QueryHit, PutList, DirectoryFails
<1> QED BY <1>1, <1>2, <1>3, <1>4, <1>5, <1>6, <1>7, <1>8, <1>9 DEF DirectoryStep

LEMMA RowsSet ==
  ASSUME DirectoryTypes, NEW p
  PROVE  /\ CommitGroup(p)  => \A k \in Catalogues, i \in Entries :
               rows'[k][i] = IF k = "group" /\ i = seen[p].id THEN req[p].name ELSE rows[k][i]
         /\ CommitDelete(p) => \A k \in Catalogues, i \in Entries :
               rows'[k][i] = IF k = "group" /\ i = req[p].id THEN None ELSE rows[k][i]
         /\ InsertRow(p)    => \A k \in Catalogues, i \in Entries :
               rows'[k][i] = IF k = CatalogueOf(p) /\ i = given[CatalogueOf(p)] + 1 THEN req[p].name ELSE rows[k][i]
         /\ UpdateRow(p)    => \A k \in Catalogues, i \in Entries :
               rows'[k][i] = IF k = CatalogueOf(p) /\ i = req[p].id /\ rows[k][i] # None
                             THEN req[p].name ELSE rows[k][i]
<1>0. Shelves(rows) /\ "group" \in Catalogues BY DEF DirectoryTypes, Catalogues
<1>1. ASSUME CommitGroup(p) PROVE \A k \in Catalogues, i \in Entries :
               rows'[k][i] = IF k = "group" /\ i = seen[p].id THEN req[p].name ELSE rows[k][i]
  <2>1. rows' = Entitled(rows, "group", seen[p].id, req[p].name) BY <1>1 DEF CommitGroup, Entitled
  <2> QED BY <1>0, <2>1, TitleSet
<1>2. ASSUME CommitDelete(p) PROVE \A k \in Catalogues, i \in Entries :
               rows'[k][i] = IF k = "group" /\ i = req[p].id THEN None ELSE rows[k][i]
  <2>1. rows' = Entitled(rows, "group", req[p].id, None) BY <1>2 DEF CommitDelete, Entitled
  <2> QED BY <1>0, <2>1, TitleSet
<1>3. ASSUME InsertRow(p) PROVE \A k \in Catalogues, i \in Entries :
               rows'[k][i] = IF k = CatalogueOf(p) /\ i = given[CatalogueOf(p)] + 1 THEN req[p].name ELSE rows[k][i]
  <2> PICK c \in Catalogues : c = CatalogueOf(p) BY <1>3, Catalogued DEF At, InsertRow, Writers, Adds
  <2> PICK j : j = given[c] + 1 OBVIOUS
  <2>1. rows' = Entitled(rows, c, j, req[p].name) BY <1>3 DEF InsertRow, Entitled
  <2> QED BY <1>0, <2>1, TitleSet
<1>4. ASSUME UpdateRow(p) PROVE \A k \in Catalogues, i \in Entries :
               rows'[k][i] = IF k = CatalogueOf(p) /\ i = req[p].id /\ rows[k][i] # None THEN req[p].name ELSE rows[k][i]
  <2> PICK c \in Catalogues : c = CatalogueOf(p) BY <1>4, Catalogued DEF At, UpdateRow, Writers
  <2> PICK j : j = req[p].id OBVIOUS
  <2>1. (rows[c][j] = None /\ rows' = rows) \/ (rows[c][j] # None /\ rows' = Entitled(rows, c, j, req[p].name))
    BY <1>4 DEF UpdateRow, Entitled
  <2>2. CASE rows[c][j] = None /\ rows' = rows BY <2>2
  <2>3. CASE rows[c][j] # None /\ rows' = Entitled(rows, c, j, req[p].name) BY <1>0, <2>3, TitleSet
  <2> QED BY <2>1, <2>2, <2>3
<1> QED BY <1>1, <1>2, <1>3, <1>4

LEMMA HashSet ==
  ASSUME DirectoryTypes, NEW p
  PROVE  /\ DeleteGroupField(p) => \A k \in Catalogues, i \in Entries :
               hash'[k][i] = IF k = "group" /\ i = req[p].id THEN None ELSE hash[k][i]
         /\ SetEntry(p) => \A k \in Catalogues, i \in Entries :
               hash'[k][i] = IF k = CatalogueOf(p) /\ i = EntryOf(p) THEN req[p].name ELSE hash[k][i]
<1>0. Shelves(hash) /\ "group" \in Catalogues BY DEF DirectoryTypes, Catalogues
<1>1. ASSUME DeleteGroupField(p) PROVE \A k \in Catalogues, i \in Entries :
               hash'[k][i] = IF k = "group" /\ i = req[p].id THEN None ELSE hash[k][i]
  <2>1. hash' = Entitled(hash, "group", req[p].id, None) BY <1>1 DEF DeleteGroupField, Entitled
  <2> QED BY <1>0, <2>1, TitleSet
<1>2. ASSUME SetEntry(p) PROVE \A k \in Catalogues, i \in Entries :
               hash'[k][i] = IF k = CatalogueOf(p) /\ i = EntryOf(p) THEN req[p].name ELSE hash[k][i]
  <2> PICK c \in Catalogues : c = CatalogueOf(p) BY <1>2, Catalogued DEF At, SetEntry, Writers
  <2> PICK j : j = EntryOf(p) OBVIOUS
  <2>1. hash' = Entitled(hash, c, j, req[p].name) BY <1>2 DEF SetEntry, Entitled
  <2> QED BY <1>0, <2>1, TitleSet
<1> QED BY <1>1, <1>2

LEMMA LocksStay ==
  ASSUME Locals, DirectoryInv, NEW p \in Procs, May(p, DirectoryOps), DirectoryStep(p), Stays(p, DirectoryOps)
  PROVE  GroupsAreLocked'
<1> USE DEF At
<1>t. DirectoryTypes /\ GroupsAreLocked BY DEF DirectoryInv
<1>h. Handled(p) BY DEF Stays
<1>q. \A q \in Procs : q # p => /\ InTransaction(q)' <=> InTransaction(q)
                                /\ req'[q] = req[q]
  BY <1>h, OtherBrowsers
<1>1. InTransaction(p)' =>
        \/ InTransaction(p) /\ req'[p] = req[p]
        \/ InsertGroup(p) /\ req'[p] = req[p] /\ \A i \in Entries : rows["group"][i] # req[p].name
        \/ DeleteGroupRow(p) /\ req'[p] = req[p]
  <2> SUFFICES ASSUME InTransaction(p)'
               PROVE  \/ InTransaction(p) /\ req'[p] = req[p]
                      \/ InsertGroup(p) /\ req'[p] = req[p] /\ \A i \in Entries : rows["group"][i] # req[p].name
                      \/ DeleteGroupRow(p) /\ req'[p] = req[p]
    OBVIOUS
  <2>0. /\ pc'[p] \in {"field", "commit", "unlist", "unset", "dropped"} /\ req'[p].op \in {"addGroup", "dropGroup"}
    BY DEF InTransaction
  <2> USE Handling
  <2>1. CASE \/ onHttpAddGroup(p) \/ onHttpDeleteGroup(p) \/ onHttpAddTag(p) \/ onHttpAddSubject(p)
             \/ onHttpChangeTag(p) \/ onHttpChangeSubject(p)
             \/ onHttpQueryGroup(p) \/ onHttpQueryTag(p) \/ onHttpQuerySubject(p)
             \/ onHttpAddSubjectToGroup(p) \/ onHttpQuerySubjectForGroup(p)
    BY <2>0, <2>1 DEF onHttpAddGroup, onHttpDeleteGroup, onHttpAddTag, onHttpAddSubject, onHttpChangeTag, onHttpChangeSubject,
              onHttpQueryGroup, onHttpQueryTag, onHttpQuerySubject, onHttpAddSubjectToGroup, onHttpQuerySubjectForGroup, Browse
  <2>2. CASE \/ CheckNames(p) \/ CommitGroup(p) \/ CountClasses(p) \/ CommitDelete(p) \/ ReadHash(p) \/ PutText(p)
             \/ QueryHit(p) \/ QueryRows(p) \/ SetRow(p) \/ ReadList(p) \/ WriteList(p) \/ GetSubjectList(p)
             \/ ReadListRow(p) \/ PutList(p) \/ DirectoryFails(p)
    BY <2>0, <2>2 DEF CheckNames, CommitGroup, CountClasses, CommitDelete, ReadHash, PutText, QueryHit, QueryRows, SetRow,
                      ReadList, WriteList, GetSubjectList, ReadListRow, PutList, DirectoryFails, Keep
  <2>3. CASE DeleteGroupField(p) \/ DeleteGroupHash(p)
    BY <2>3 DEF DeleteGroupField, DeleteGroupHash, InTransaction, Busy
  <2>4. CASE InsertRow(p) \/ UpdateRow(p)
    BY <2>0, <2>4 DEF InsertRow, UpdateRow, Keep, Changes
  <2>5. CASE SetEntry(p)
    <3>1. pc[p] = "field" /\ req'[p] = req[p]
      <4>1. CatalogueOf(p) \in Catalogues BY <2>5, Catalogued DEF SetEntry, Writers
      <4> QED BY <2>0, <2>5, <4>1 DEF SetEntry, Catalogues
    <3> QED BY <2>0, <3>1 DEF InTransaction, Busy
  <2>6. CASE InsertGroup(p) BY <2>0, <2>6 DEF InsertGroup, Keep
  <2>7. CASE DeleteGroupRow(p) BY <2>7 DEF DeleteGroupRow
  <2> QED BY <2>1, <2>2, <2>3, <2>4, <2>5, <2>6, <2>7 DEF DirectoryStep
<1>2. \/ \A i \in Entries : rows'["group"][i] = rows["group"][i]
      \/ /\ CommitGroup(p) \/ CommitDelete(p)
         /\ InTransaction(p) /\ pc'[p] = "text" /\ req'[p] = req[p]
  <2>1. CASE UNCHANGED rows BY <2>1
  <2>2. CASE InsertRow(p) \/ UpdateRow(p)
    <3>1. CatalogueOf(p) # "group" BY <2>2, Catalogued DEF InsertRow, UpdateRow, Changes
    <3> QED BY <1>t, <2>2, <3>1, RowsSet DEF Catalogues
  <2>3. CASE CommitGroup(p) \/ CommitDelete(p)
    BY <2>3, Handling DEF CommitGroup, CommitDelete, InTransaction, Busy
  <2> QED BY <2>1, <2>2, <2>3, DirectoryChanges
<1>3. ASSUME NEW x \in Procs, NEW y \in Procs, InTransaction(x)', InTransaction(y)', x # y
      PROVE  req'[x].op = "dropGroup" /\ req'[y].op = "dropGroup" /\ req'[x].id # req'[y].id
  <2>1. CASE x # p /\ y # p BY <1>3, <1>q, <1>t, <2>1 DEF GroupsAreLocked
  <2>2. ASSUME NEW q \in Procs, q # p, InTransaction(p)', InTransaction(q)'
        PROVE  req'[p].op = "dropGroup" /\ req'[q].op = "dropGroup" /\ req'[p].id # req'[q].id
    <3>1. InTransaction(q) /\ req'[q] = req[q] BY <1>q, <2>2
    <3>2. CASE InTransaction(p) /\ req'[p] = req[p] BY <1>t, <2>2, <3>1, <3>2 DEF GroupsAreLocked
    <3>3. CASE InsertGroup(p) BY <3>1, <3>3 DEF InsertGroup
    <3>4. CASE DeleteGroupRow(p) /\ req'[p] = req[p] BY <3>1, <3>4 DEF DeleteGroupRow
    <3> QED BY <1>1, <2>2, <3>2, <3>3, <3>4
  <2> QED BY <1>3, <2>1, <2>2
<1>4. ASSUME NEW x \in Procs, InTransaction(x)', req'[x].op = "addGroup", NEW i \in Entries
      PROVE  rows'["group"][i] # req'[x].name
  <2>1. \A j \in Entries : rows'["group"][j] = rows["group"][j]
    <3>1. CASE x = p
      <4>1. pc'[p] # "text" BY <1>4, <3>1 DEF InTransaction
      <4> QED BY <1>2, <4>1
    <3>2. CASE x # p
      <4>1. InTransaction(x) /\ req[x].op = "addGroup" BY <1>4, <1>q, <3>2
      <4>2. ~InTransaction(p) BY <1>t, <3>2, <4>1 DEF GroupsAreLocked
      <4> QED BY <1>2, <4>2
    <3> QED BY <3>1, <3>2
  <2>2. rows["group"][i] # req'[x].name
    <3>1. CASE x = p
      <4>1. CASE InTransaction(p) /\ req'[p] = req[p] BY <1>4, <1>t, <3>1, <4>1 DEF GroupsAreLocked
      <4>2. CASE InsertGroup(p) /\ req'[p] = req[p] /\ \A j \in Entries : rows["group"][j] # req[p].name BY <3>1, <4>2
      <4>3. CASE DeleteGroupRow(p) /\ req'[p] = req[p] BY <1>4, <3>1, <4>3 DEF DeleteGroupRow
      <4> QED BY <1>1, <1>4, <3>1, <4>1, <4>2, <4>3
    <3>2. CASE x # p BY <1>4, <1>q, <1>t, <3>2 DEF GroupsAreLocked
    <3> QED BY <3>1, <3>2
  <2> QED BY <2>1, <2>2
<1>5. ASSUME NEW i \in Entries, NEW j \in Entries, rows'["group"][i] # None, rows'["group"][i] = rows'["group"][j]
      PROVE  i = j
  <2>1. CASE \A l \in Entries : rows'["group"][l] = rows["group"][l] BY <1>5, <1>t, <2>1 DEF GroupsAreLocked
  <2>2. CASE CommitGroup(p) /\ InTransaction(p)
    <3>1. req[p].op = "addGroup" BY <2>2 DEF CommitGroup
    <3>2. \A l \in Entries : rows["group"][l] # req[p].name BY <1>t, <2>2, <3>1 DEF GroupsAreLocked
    <3>3. \A l \in Entries : rows'["group"][l] = IF l = seen[p].id THEN req[p].name ELSE rows["group"][l]
      BY <1>t, <2>2, RowsSet DEF Catalogues
    <3> QED BY <1>5, <1>t, <3>2, <3>3 DEF GroupsAreLocked
  <2>3. CASE CommitDelete(p)
    <3>1. \A l \in Entries : rows'["group"][l] = IF l = req[p].id THEN None ELSE rows["group"][l]
      BY <1>t, <2>3, RowsSet DEF Catalogues
    <3> QED BY <1>5, <1>t, <3>1 DEF GroupsAreLocked
  <2> QED BY <1>2, <2>1, <2>2, <2>3
<1> QED BY <1>3, <1>4, <1>5 DEF GroupsAreLocked

LEMMA EntryKept ==
  ASSUME NEW p \in Procs, Handled(p), NEW k, NEW i, EntryAgrees(k, i), rows'[k][i] = rows[k][i], hash'[k][i] = hash[k][i],
         Halves(p, k, i) => Halves(p, k, i)', Halves(p, k, i)' => Due(p, k, i)'
  PROVE  EntryAgrees(k, i)'
<1>1. \A q \in Procs \ {p} : /\ pc'[q] = pc[q] /\ req'[q] = req[q] /\ seen'[q] = seen[q]
                             /\ Halves(q, k, i)' <=> Halves(q, k, i)
  BY OtherBrowsers
<1>2. (\A q \in Procs : ~Halves(q, k, i)') => \A q \in Procs : ~Halves(q, k, i) BY <1>1
<1>3. \A q \in Procs \ {p} : Halves(q, k, i)' => Due(q, k, i)' BY <1>1 DEF EntryAgrees, Due
<1> QED BY <1>2, <1>3 DEF EntryAgrees

LEMMA EntryWritten ==
  ASSUME NEW p \in Procs, Handled(p), NEW k, NEW i, \A q \in Procs \ {p} : ~Halves(q, k, i),
         \/ Halves(p, k, i)' /\ Due(p, k, i)'
         \/ ~Halves(p, k, i)' /\ hash'[k][i] = rows'[k][i]
  PROVE  EntryAgrees(k, i)'
<1>1. \A q \in Procs \ {p} : ~Halves(q, k, i)' BY OtherBrowsers
<1> QED BY <1>1 DEF EntryAgrees

LEMMA EntriesAgree ==
  ASSUME Locals, DirectoryInv, NEW p \in Procs, May(p, DirectoryOps), DirectoryStep(p), Stays(p, DirectoryOps),
         NEW k \in Catalogues, NEW i \in Entries, <<k, i>> \notin blurred'
  PROVE  EntryAgrees(k, i)'
<1> USE DEF At
<1>h. Handled(p) BY DEF Stays
<1>t. DirectoryTypes BY DEF DirectoryInv
<1>b. blurred \subseteq blurred' BY DirectoryChanges
<1>o. EntryAgrees(k, i) BY <1>b DEF DirectoryInv
<1>p. pc[p] # "idle" => Shelved(p) /\ Browsing(p) /\ req[p].op \in DirectoryOps BY DEF DirectoryInv, Browsing, Active, May, Busy
<1>s. \A q \in Procs : Halves(q, k, i) => <<k, i>> \in Half(q) BY HalfOf DEF DirectoryInv
<1>l. ASSUME Blur(p, k, i) PROVE \A q \in Procs \ {p} : ~Halves(q, k, i) BY <1>l, <1>s, Blurring
<1>n. ASSUME pc'[p] \notin {"field", "commit", "unset", "dropped", "fields"} PROVE ~Halves(p, k, i)'
  BY <1>n DEF Halves, Browsing, Active
<1>m. ASSUME pc[p] \notin {"field", "commit", "unset", "dropped", "fields"} PROVE ~Halves(p, k, i)
  BY <1>m DEF Halves
<1>a. ASSUME pc'[p] # "idle", req'[p] = req[p], Browsing(p) PROVE Browsing(p)'
  BY <1>a DEF Browsing, Active, Busy
<1> USE Handling
<1>1. CASE \/ onHttpAddGroup(p) \/ onHttpDeleteGroup(p) \/ onHttpAddTag(p) \/ onHttpAddSubject(p)
           \/ onHttpChangeTag(p) \/ onHttpChangeSubject(p)
           \/ onHttpQueryGroup(p) \/ onHttpQueryTag(p) \/ onHttpQuerySubject(p)
           \/ onHttpAddSubjectToGroup(p) \/ onHttpQuerySubjectForGroup(p)
  <2>1. /\ UNCHANGED <<rows, hash>> /\ pc[p] = "idle"
        /\ pc'[p] \in {"names", "count", "insert", "update", "query", "readList", "shown"}
    BY <1>1 DEF onHttpAddGroup, onHttpDeleteGroup, onHttpAddTag, onHttpAddSubject, onHttpChangeTag, onHttpChangeSubject,
              onHttpQueryGroup, onHttpQueryTag, onHttpQuerySubject, onHttpAddSubjectToGroup, onHttpQuerySubjectForGroup, Browse,
              directory, catalogues
  <2> QED BY <1>h, <1>m, <1>n, <1>o, <2>1, EntryKept
<1>2. CASE \/ CheckNames(p) \/ CountClasses(p) \/ DeleteGroupRow(p) \/ ReadHash(p) \/ PutText(p) \/ QueryHit(p)
           \/ ReadList(p) \/ WriteList(p) \/ GetSubjectList(p) \/ ReadListRow(p) \/ PutList(p)
  <2>1. /\ UNCHANGED <<rows, hash>> /\ pc[p] \notin {"field", "commit", "unset", "dropped", "fields"}
        /\ pc'[p] \notin {"field", "commit", "unset", "dropped", "fields"}
    <3>1. CASE CheckNames(p) \/ CountClasses(p) \/ DeleteGroupRow(p) \/ QueryHit(p) \/ GetSubjectList(p)
      BY <3>1 DEF CheckNames, CountClasses, DeleteGroupRow, QueryHit, GetSubjectList, directory, catalogues
    <3>2. CASE ReadHash(p) \/ ReadList(p) \/ ReadListRow(p)
      BY <3>2 DEF ReadHash, ReadList, ReadListRow, Keep, directory, catalogues
    <3>3. CASE PutText(p) \/ WriteList(p) \/ PutList(p)
      BY <3>3 DEF PutText, WriteList, PutList, directory, catalogues
    <3> QED BY <1>2, <3>1, <3>2, <3>3
  <2> QED BY <1>h, <1>m, <1>n, <1>o, <2>1, EntryKept
<1>3. CASE InsertGroup(p)
  <2>1. UNCHANGED <<rows, hash>> /\ pc[p] = "insert" /\ req[p].op = "addGroup" BY <1>3 DEF InsertGroup
  <2>2. CASE pc'[p] # "idle"
    <3>1. pc'[p] = "field" /\ req'[p] = req[p] BY <1>3, <2>2 DEF InsertGroup, Keep
    <3>2. CatalogueOf(p)' = "group" BY <2>1, <3>1 DEF CatalogueOf
    <3>3. Halves(p, k, i)' => k = "group" BY <2>1, <3>1, <3>2 DEF Halves
    <3>4. Halves(p, k, i)' => Due(p, k, i)' BY <3>1, <3>3 DEF Due
    <3> QED BY <1>h, <1>m, <1>o, <2>1, <3>4, EntryKept
  <2> QED BY <1>h, <1>m, <1>n, <1>o, <2>1, <2>2, EntryKept
<1>4. CASE CommitGroup(p)
  <2>1. /\ pc[p] = "commit" /\ req[p].op = "addGroup" /\ pc'[p] = "text" /\ UNCHANGED hash /\ Blur(p, "group", seen[p].id)
    BY <1>4 DEF CommitGroup
  <2>2. CatalogueOf(p) = "group" /\ EntryOf(p) = seen[p].id BY <2>1, Catalogued DEF EntryOf, Adds
  <2>3. ~Halves(p, k, i)' BY <1>n, <2>1
  <2>4. rows'[k][i] = IF k = "group" /\ i = seen[p].id THEN req[p].name ELSE rows[k][i] BY <1>4, <1>t, RowsSet
  <2>5. CASE k = "group" /\ i = seen[p].id
    <3>1. Halves(p, k, i) BY <1>p, <2>1, <2>2, <2>5 DEF Halves, Adds
    <3>2. hash[k][i] = req[p].name BY <1>o, <2>1, <3>1 DEF EntryAgrees, Due
    <3>3. \A q \in Procs \ {p} : ~Halves(q, k, i) BY <1>l, <2>1, <2>5
    <3> QED BY <1>h, <2>1, <2>3, <2>4, <2>5, <3>2, <3>3, EntryWritten
  <2>6. CASE ~(k = "group" /\ i = seen[p].id)
    <3>1. ~Halves(p, k, i) BY <2>1, <2>2, <2>6 DEF Halves, Queries
    <3> QED BY <1>h, <1>o, <2>1, <2>3, <2>4, <2>6, <3>1, EntryKept
  <2> QED BY <2>5, <2>6
<1>5. CASE DeleteGroupField(p)
  <2>1. /\ pc[p] = "unlist" /\ req[p].op = "dropGroup" /\ pc'[p] = "unset" /\ req'[p] = req[p]
        /\ UNCHANGED rows /\ Blur(p, "group", req[p].id)
    BY <1>5 DEF DeleteGroupField
  <2>2. hash'[k][i] = IF k = "group" /\ i = req[p].id THEN None ELSE hash[k][i] BY <1>5, <1>t, HashSet
  <2>3. CASE k = "group" /\ i = req[p].id
    <3>1. Halves(p, k, i)' BY <1>a, <1>p, <2>1, <2>3 DEF Halves
    <3>2. Due(p, k, i)' BY <2>1, <2>2, <2>3 DEF Due
    <3>3. \A q \in Procs \ {p} : ~Halves(q, k, i) BY <1>l, <2>1, <2>3
    <3> QED BY <1>h, <3>1, <3>2, <3>3, EntryWritten
  <2>4. CASE ~(k = "group" /\ i = req[p].id)
    <3>1. ~Halves(p, k, i)' BY <2>1, <2>4 DEF Halves, Adds, Changes, Queries
    <3> QED BY <1>h, <1>m, <1>o, <2>1, <2>2, <2>4, <3>1, EntryKept
  <2> QED BY <2>3, <2>4
<1>6. CASE DeleteGroupHash(p)
  <2>1. /\ pc[p] = "unset" /\ req[p].op = "dropGroup" /\ pc'[p] = "dropped" /\ req'[p] = req[p] /\ UNCHANGED <<rows, hash>>
    BY <1>6 DEF DeleteGroupHash, catalogues
  <2>2. Halves(p, k, i)' <=> Halves(p, k, i)
    BY <1>a, <1>p, <2>1 DEF Halves, Adds, Changes, Queries
  <2>3. Halves(p, k, i) => Due(p, k, i)' BY <1>o, <2>1 DEF EntryAgrees, Due
  <2> QED BY <1>h, <1>o, <2>1, <2>2, <2>3, EntryKept
<1>7. CASE CommitDelete(p)
  <2>1. /\ pc[p] = "dropped" /\ req[p].op = "dropGroup" /\ pc'[p] = "text" /\ UNCHANGED hash /\ Blur(p, "group", req[p].id)
    BY <1>7 DEF CommitDelete
  <2>3. ~Halves(p, k, i)' BY <1>n, <2>1
  <2>4. rows'[k][i] = IF k = "group" /\ i = req[p].id THEN None ELSE rows[k][i] BY <1>7, <1>t, RowsSet
  <2>5. CASE k = "group" /\ i = req[p].id
    <3>1. Halves(p, k, i) BY <1>p, <2>1, <2>5 DEF Halves
    <3>2. hash[k][i] = None BY <1>o, <2>1, <3>1 DEF EntryAgrees, Due
    <3>3. \A q \in Procs \ {p} : ~Halves(q, k, i) BY <1>l, <2>1, <2>5
    <3> QED BY <1>h, <2>1, <2>3, <2>4, <2>5, <3>2, <3>3, EntryWritten
  <2>6. CASE ~(k = "group" /\ i = req[p].id)
    <3>1. ~Halves(p, k, i) BY <2>1, <2>6 DEF Halves, Queries, Adds, Changes
    <3> QED BY <1>h, <1>o, <2>1, <2>3, <2>4, <2>6, <3>1, EntryKept
  <2> QED BY <2>5, <2>6
<1>8. CASE InsertRow(p)
  <2> PICK c \in Catalogues : c = CatalogueOf(p) BY <1>8, Catalogued DEF InsertRow, Writers, Adds
  <2> PICK j : j = given[c] + 1 OBVIOUS
  <2>1. /\ pc[p] = "insert" /\ req[p].op \in {"addTag", "addSubject"} /\ Keep(p, "field", "id", j)
        /\ UNCHANGED hash /\ Blur(p, c, j)
    BY <1>8 DEF InsertRow
  <2>2. Filled(seen[p]) /\ "id" \in Slots BY <1>p, <2>1 DEF Shelved, Slots
  <2>3. pc'[p] = "field" /\ req'[p] = req[p] /\ seen'[p].id = j BY <2>1, <2>2, Keeps
  <2>4. CatalogueOf(p)' = c /\ EntryOf(p)' = j BY <2>1, <2>3 DEF CatalogueOf, EntryOf, Adds
  <2>5. rows'[k][i] = IF k = c /\ i = j THEN req[p].name ELSE rows[k][i] BY <1>8, <1>t, RowsSet
  <2>6. CASE k = c /\ i = j
    <3>1. Halves(p, k, i)' BY <1>a, <1>p, <2>1, <2>3, <2>4, <2>6 DEF Halves, Adds
    <3>2. Due(p, k, i)' BY <2>3, <2>5, <2>6 DEF Due
    <3>3. \A q \in Procs \ {p} : ~Halves(q, k, i) BY <1>l, <2>1, <2>6
    <3> QED BY <1>h, <3>1, <3>2, <3>3, EntryWritten
  <2>7. CASE ~(k = c /\ i = j)
    <3>1. ~Halves(p, k, i)' BY <2>1, <2>3, <2>4, <2>7 DEF Halves, Queries
    <3> QED BY <1>h, <1>m, <1>o, <2>1, <2>5, <2>7, <3>1, EntryKept
  <2> QED BY <2>6, <2>7
<1>9. CASE UpdateRow(p)
  <2> PICK c \in Catalogues : c = CatalogueOf(p) BY <1>9, Catalogued DEF UpdateRow, Writers
  <2>1. /\ pc[p] = "update" /\ req[p].op \in Changes /\ pc'[p] = "field" /\ req'[p] = req[p] /\ seen'[p] = seen[p]
        /\ UNCHANGED hash /\ (<<c, req[p].id>> \in blurred' \/ (Blur(p, c, req[p].id) /\ rows[c][req[p].id] # None))
    BY <1>9 DEF UpdateRow
  <2>4. CatalogueOf(p)' = c /\ EntryOf(p)' = req[p].id BY <2>1 DEF CatalogueOf, EntryOf, Changes, Adds
  <2>5. rows'[k][i] = IF k = c /\ i = req[p].id /\ rows[k][i] # None THEN req[p].name ELSE rows[k][i] BY <1>9, <1>t, RowsSet
  <2>6. CASE k = c /\ i = req[p].id
    <3>1. Halves(p, k, i)' BY <1>a, <1>p, <2>1, <2>4, <2>6 DEF Halves
    <3>2. Due(p, k, i)' BY <2>1, <2>5, <2>6 DEF Due
    <3>3. \A q \in Procs \ {p} : ~Halves(q, k, i) BY <1>l, <2>1, <2>6
    <3> QED BY <1>h, <3>1, <3>2, <3>3, EntryWritten
  <2>7. CASE ~(k = c /\ i = req[p].id)
    <3>1. ~Halves(p, k, i)' BY <2>1, <2>4, <2>7 DEF Halves, Queries
    <3> QED BY <1>h, <1>m, <1>o, <2>1, <2>5, <2>7, <3>1, EntryKept
  <2> QED BY <2>6, <2>7
<1>10. CASE SetEntry(p)
  <2> PICK c \in Catalogues : c = CatalogueOf(p) BY <1>10, Catalogued DEF SetEntry, Writers
  <2> PICK j : j = EntryOf(p) OBVIOUS
  <2>1. /\ pc[p] = "field" /\ req[p].op \in Adds \union Changes /\ UNCHANGED rows /\ Blur(p, c, j)
        /\ c = "group" => pc'[p] = "commit" /\ req'[p] = req[p] /\ seen'[p] = seen[p]
        /\ c # "group" => pc'[p] \in {"text", "idle"}
    BY <1>10 DEF SetEntry, Catalogues
  <2>2. hash'[k][i] = IF k = c /\ i = j THEN req[p].name ELSE hash[k][i] BY <1>10, <1>t, HashSet
  <2>3. c = "group" => CatalogueOf(p)' = c /\ EntryOf(p)' = j BY <2>1 DEF CatalogueOf, EntryOf
  <2>4. CASE k = c /\ i = j
    <3>1. Halves(p, k, i) BY <1>p, <2>1, <2>4 DEF Halves
    <3>3. \A q \in Procs \ {p} : ~Halves(q, k, i) BY <1>l, <2>1, <2>4
    <3>4. CASE c = "group"
      <4>1. Halves(p, k, i)' BY <1>a, <1>p, <2>1, <2>3, <2>4, <3>4 DEF Halves
      <4>2. Due(p, k, i)' BY <2>1, <2>2, <2>4, <3>4 DEF Due
      <4> QED BY <1>h, <3>3, <4>1, <4>2, EntryWritten
    <3>5. CASE c # "group"
      <4>1. ~Halves(p, k, i)' BY <1>n, <2>1, <3>5
      <4>2. req[p].name = rows[k][i] BY <1>o, <2>1, <2>4, <3>1, <3>5 DEF EntryAgrees, Due
      <4> QED BY <1>h, <2>1, <2>2, <2>4, <3>3, <4>1, <4>2, EntryWritten
    <3> QED BY <3>4, <3>5
  <2>5. CASE ~(k = c /\ i = j)
    <3>1. ~Halves(p, k, i) BY <2>1, <2>5 DEF Halves
    <3>2. ~Halves(p, k, i)' BY <1>n, <2>1, <2>3, <2>5 DEF Halves
    <3> QED BY <1>h, <1>o, <2>1, <2>2, <2>5, <3>1, <3>2, EntryKept
  <2> QED BY <2>4, <2>5
<1>11. CASE QueryRows(p)
  <2> DEFINE left == {j \in Entries : rows[CatalogueOf(p)][j] # None}
  <2>1. /\ pc[p] = "query" /\ req[p].op \in Queries /\ UNCHANGED <<rows, hash>>
        /\ \/ Keep(p, "putText", "names", rows[CatalogueOf(p)])
           \/ CatalogueOf(p) # "group" /\ With(p, "fields", [Unread EXCEPT !.names = rows[CatalogueOf(p)], !.left = left])
    BY <1>11 DEF QueryRows, directory, catalogues
  <2>2. CASE Keep(p, "putText", "names", rows[CatalogueOf(p)])
    <3>1. pc'[p] = "putText" BY <2>2 DEF Keep
    <3> QED BY <1>h, <1>m, <1>n, <1>o, <2>1, <3>1, EntryKept
  <2>3. CASE CatalogueOf(p) # "group" /\ With(p, "fields", [Unread EXCEPT !.names = rows[CatalogueOf(p)], !.left = left])
    <3> PICK c : c = CatalogueOf(p) OBVIOUS
    <3> PICK s : s = [Unread EXCEPT !.names = rows[c], !.left = left] OBVIOUS
    <3>1. s.names = rows[c] BY DEF Unread
    <3>2. pc'[p] = "fields" /\ req'[p] = req[p] /\ seen'[p] = s BY <2>3
    <3>3. CatalogueOf(p)' = c BY <3>2 DEF CatalogueOf
    <3>4. Halves(p, k, i)' => k = c BY <3>2, <3>3 DEF Halves
    <3>5. Halves(p, k, i)' => Due(p, k, i)' BY <2>1, <3>1, <3>2, <3>4 DEF Due
    <3> QED BY <1>h, <1>m, <1>o, <2>1, <3>5, EntryKept
  <2> QED BY <2>1, <2>2, <2>3
<1>12. CASE SetRow(p)
  <2> PICK c \in Catalogues : c = CatalogueOf(p) BY <1>12, Catalogued DEF SetRow
  <2> PICK j \in seen[p].left :
        /\ hash' = [hash EXCEPT ![c][j] = seen[p].names[j]] /\ Blur(p, c, j)
        /\ \/ Keep(p, "fields", "left", seen[p].left \ {j})
           \/ seen[p].left = {j} /\ (On(p, "putText") \/ Return(p))
    BY <1>12 DEF SetRow
  <2>1. pc[p] = "fields" /\ req[p].op \in Queries /\ UNCHANGED rows BY <1>12 DEF SetRow
  <2>2. Shelved(p) /\ Browsing(p) /\ req[p].op \in {"tags", "subjects"} BY <1>p, <2>1 DEF Shelved
  <2>3. c # "group" /\ j \in Entries BY <2>1, <2>2, Catalogued DEF Shelved
  <2>4. hash'[k][i] = IF k = c /\ i = j THEN seen[p].names[j] ELSE hash[k][i]
    <3> PICK v : v = seen[p].names[j] OBVIOUS
    <3>1. hash' = Entitled(hash, c, j, v) BY DEF Entitled
    <3>2. Shelves(hash) BY <1>t DEF DirectoryTypes
    <3>3. Entitled(hash, c, j, v)[k][i] = IF k = c /\ i = j THEN v ELSE hash[k][i] BY <3>2, TitleSet
    <3> QED BY <3>1, <3>3
  <2>5. Halves(p, k, i) <=> k = c /\ i \in seen[p].left BY <2>1, <2>2 DEF Halves, Adds, Changes
  <2>6. /\ Halves(p, k, i)' <=> k = c /\ i \in seen[p].left \ {j}
        /\ Halves(p, k, i)' => pc'[p] = "fields" /\ seen'[p].names = seen[p].names
    <3>1. CASE Keep(p, "fields", "left", seen[p].left \ {j})
      <4>1. Filled(seen[p]) /\ "left" \in Slots BY <2>2 DEF Shelved, Slots
      <4>2. /\ pc'[p] = "fields" /\ req'[p] = req[p] /\ seen'[p].left = seen[p].left \ {j} /\ seen'[p].names = seen[p].names
        BY <3>1, <4>1, Keeps
      <4>3. CatalogueOf(p)' = c BY <4>2 DEF CatalogueOf
      <4>4. Browsing(p)' BY <1>a, <2>2, <4>2
      <4> QED BY <2>1, <2>2, <4>2, <4>3, <4>4 DEF Halves, Adds, Changes
    <3>2. CASE seen[p].left = {j} /\ (On(p, "putText") \/ Return(p))
      <4>1. pc'[p] \in {"putText", "idle"} BY <3>2
      <4> QED BY <1>n, <3>2, <4>1
    <3> QED BY <3>1, <3>2
  <2>7. CASE k = c /\ i = j
    <3>1. seen[p].names[i] = rows[k][i] BY <1>o, <2>1, <2>3, <2>5, <2>7 DEF EntryAgrees, Due
    <3>2. ~Halves(p, k, i)' BY <2>6, <2>7
    <3>3. \A q \in Procs \ {p} : ~Halves(q, k, i) BY <1>l, <2>7
    <3> QED BY <1>h, <2>1, <2>4, <2>7, <3>1, <3>2, <3>3, EntryWritten
  <2>8. CASE ~(k = c /\ i = j)
    <3>1. Halves(p, k, i)' <=> Halves(p, k, i) BY <2>5, <2>6, <2>8
    <3>2. Halves(p, k, i)' => Due(p, k, i)' BY <1>o, <2>1, <2>6, <3>1 DEF EntryAgrees, Due
    <3> QED BY <1>h, <1>o, <2>1, <2>4, <2>8, <3>1, <3>2, EntryKept
  <2> QED BY <2>7, <2>8
<1>13. CASE DirectoryFails(p)
  <2>1. pc'[p] = "idle" /\ UNCHANGED <<rows, hash>> /\ Half(p) \subseteq blurred' BY <1>13 DEF DirectoryFails, catalogues
  <2>2. ~Halves(p, k, i) BY <1>s, <2>1
  <2> QED BY <1>h, <1>n, <1>o, <2>1, <2>2, EntryKept
<1> QED BY <1>1, <1>2, <1>3, <1>4, <1>5, <1>6, <1>7, <1>8, <1>9, <1>10, <1>11, <1>12, <1>13 DEF DirectoryStep

LEMMA GroupsStayPrepared ==
  ASSUME Locals, DirectoryInv, NEW p \in Procs, May(p, DirectoryOps), DirectoryStep(p), Stays(p, DirectoryOps)
  PROVE  GroupsPrepared'
<1> USE DEF At
<1> SUFFICES ASSUME NEW x \in Procs, NEW i \in Entries, Halves(x, "group", i)' PROVE Due(x, "group", i)'
  BY DEF GroupsPrepared
<1>h. Handled(p) BY DEF Stays
<1>t. DirectoryTypes /\ GroupsAreLocked /\ GroupsPrepared BY DEF DirectoryInv
<1>p. pc[p] # "idle" => Shelved(p) /\ Browsing(p) /\ req[p].op \in DirectoryOps BY DEF DirectoryInv, Browsing, Active, May, Busy
<1>g. "group" \in Catalogues BY DEF Catalogues
<1>1. CASE UNCHANGED hash /\ ~DeleteGroupField(p) /\ ~SetEntry(p)
  <2>1. CASE x # p
    <3>1. Halves(x, "group", i) /\ pc'[x] = pc[x] /\ req'[x] = req[x] /\ seen'[x] = seen[x]
      BY <1>h, <2>1, OtherBrowsers
    <3> QED BY <1>1, <1>t, <3>1 DEF GroupsPrepared, Due
  <2>2. CASE x = p
    <3>1. pc'[p] \notin {"commit", "unset", "dropped"} \/ (DeleteGroupHash(p) /\ Halves(p, "group", i) /\ req'[p] = req[p])
      <4> USE Handling
      <4>1. CASE \/ onHttpAddGroup(p) \/ onHttpDeleteGroup(p) \/ onHttpAddTag(p) \/ onHttpAddSubject(p)
                 \/ onHttpChangeTag(p) \/ onHttpChangeSubject(p)
                 \/ onHttpQueryGroup(p) \/ onHttpQueryTag(p) \/ onHttpQuerySubject(p)
                 \/ onHttpAddSubjectToGroup(p) \/ onHttpQuerySubjectForGroup(p)
        BY <4>1 DEF onHttpAddGroup, onHttpDeleteGroup, onHttpAddTag, onHttpAddSubject, onHttpChangeTag, onHttpChangeSubject,
              onHttpQueryGroup, onHttpQueryTag, onHttpQuerySubject, onHttpAddSubjectToGroup, onHttpQuerySubjectForGroup, Browse
      <4>2. CASE \/ CheckNames(p) \/ InsertGroup(p) \/ CommitGroup(p) \/ CountClasses(p) \/ DeleteGroupRow(p) \/ CommitDelete(p)
                 \/ InsertRow(p) \/ UpdateRow(p)
        BY <4>2 DEF CheckNames, InsertGroup, CommitGroup, CountClasses, DeleteGroupRow, CommitDelete, InsertRow, UpdateRow, Keep
      <4>3. CASE \/ ReadHash(p) \/ PutText(p) \/ QueryHit(p) \/ QueryRows(p) \/ SetRow(p) \/ ReadList(p) \/ WriteList(p)
                 \/ GetSubjectList(p) \/ ReadListRow(p) \/ PutList(p) \/ DirectoryFails(p)
        BY <4>3 DEF ReadHash, PutText, QueryHit, QueryRows, SetRow, ReadList, WriteList, GetSubjectList, ReadListRow, PutList,
                    DirectoryFails, Keep
      <4>4. CASE DeleteGroupHash(p)
        <5>1. pc[p] = "unset" /\ req[p].op = "dropGroup" /\ req'[p] = req[p] /\ pc'[p] = "dropped"
          BY <4>4 DEF DeleteGroupHash
        <5>2. req[p].id = i BY <2>2, <5>1 DEF Halves, Adds, Changes, Queries
        <5> QED BY <1>p, <4>4, <5>1, <5>2 DEF Halves
      <4> QED BY <1>1, <4>1, <4>2, <4>3, <4>4 DEF DirectoryStep
    <3>2. CASE pc'[p] \notin {"commit", "unset", "dropped"} BY <2>2, <3>2 DEF Due
    <3>3. CASE DeleteGroupHash(p) /\ Halves(p, "group", i) /\ req'[p] = req[p]
      <4>1. pc[p] = "unset" BY <3>3 DEF DeleteGroupHash
      <4>2. hash["group"][i] = None BY <1>t, <3>3, <4>1 DEF GroupsPrepared, Due
      <4>3. pc'[p] = "dropped" BY <3>3, Handling DEF DeleteGroupHash
      <4> QED BY <1>1, <2>2, <4>2, <4>3 DEF Due
    <3> QED BY <3>1, <3>2, <3>3
  <2> QED BY <2>1, <2>2
<1>s. ASSUME Halves(x, "group", i), pc[x] \in {"commit", "unset", "dropped"}
      PROVE  InTransaction(x) /\ (pc[x] = "commit" <=> req[x].op = "addGroup")
  <2>1. Browsing(x) /\ Shelved(x) BY <1>s DEF DirectoryInv, Halves
  <2>2. pc[x] = "commit" => req[x].op = "addGroup" BY <2>1 DEF Shelved
  <2>3. pc[x] \in {"unset", "dropped"} => req[x].op = "dropGroup" BY <2>1 DEF Shelved
  <2> QED BY <1>s, <2>1, <2>2, <2>3 DEF InTransaction, Browsing, Active
<1>x. x # p => Halves(x, "group", i) /\ pc'[x] = pc[x] /\ req'[x] = req[x] /\ seen'[x] = seen[x]
  BY <1>h, OtherBrowsers
<1>2. CASE DeleteGroupField(p)
  <2>0. hash'["group"][i] = IF i = req[p].id THEN None ELSE hash["group"][i] BY <1>2, <1>g, <1>t, HashSet
  <2>1. pc[p] = "unlist" /\ req[p].op = "dropGroup" /\ req'[p] = req[p] BY <1>2, Handling DEF DeleteGroupField
  <2>2. CASE x = p
    <3>1. req[p].id = i BY <2>1, <2>2 DEF Halves, Adds, Changes, Queries
    <3>2. pc'[p] = "unset" BY <1>2, Handling DEF DeleteGroupField
    <3> QED BY <2>0, <2>2, <3>1, <3>2 DEF Due
  <2>3. CASE x # p
    <3>1. InTransaction(p) BY <1>p, <2>1 DEF InTransaction, Browsing, Active
    <3>2. pc[x] # "commit" BY <1>s, <1>t, <1>x, <2>1, <2>3, <3>1 DEF GroupsAreLocked
    <3>3. pc[x] \in {"unset", "dropped"} => hash["group"][i] = None BY <1>t, <1>x, <2>3 DEF GroupsPrepared, Due
    <3> QED BY <1>x, <2>0, <2>3, <3>2, <3>3 DEF Due
  <2> QED BY <2>2, <2>3
<1>3. CASE SetEntry(p)
  <2> PICK c \in Catalogues : c = CatalogueOf(p) BY <1>3, Catalogued DEF SetEntry, Writers
  <2>1. /\ pc[p] = "field" /\ req[p].op \in Adds \union Changes
        /\ c = "group" => pc'[p] = "commit" /\ req'[p] = req[p] /\ seen'[p] = seen[p]
        /\ c # "group" => pc'[p] \in {"text", "idle"}
    BY <1>3, Handling DEF SetEntry, Catalogues
  <2>2. hash'["group"][i] = IF c = "group" /\ i = EntryOf(p) THEN req[p].name ELSE hash["group"][i]
    BY <1>3, <1>g, <1>t, HashSet
  <2>3. CASE c = "group"
    <3>1. req[p].op = "addGroup" BY <2>1, <2>3, Catalogued DEF Adds, Changes
    <3>2. InTransaction(p) BY <1>p, <2>1, <3>1 DEF InTransaction, Browsing, Active
    <3>3. CASE x = p
      <4>1. EntryOf(p)' = EntryOf(p) BY <2>1, <2>3 DEF EntryOf
      <4>2. EntryOf(p) = i BY <2>1, <2>3, <3>1, <3>3, <4>1 DEF Halves, Queries
      <4> QED BY <2>1, <2>2, <2>3, <3>3, <4>2 DEF Due
    <3>4. CASE x # p
      <4>1. pc[x] \notin {"commit", "unset", "dropped"}
        BY <1>s, <1>t, <1>x, <3>1, <3>2, <3>4 DEF GroupsAreLocked
      <4> QED BY <1>x, <3>4, <4>1 DEF Due
    <3> QED BY <3>3, <3>4
  <2>4. CASE c # "group"
    <3>1. CASE x = p BY <2>1, <2>4, <3>1 DEF Due
    <3>2. CASE x # p BY <1>t, <1>x, <2>2, <2>4, <3>2 DEF GroupsPrepared, Due
    <3> QED BY <3>1, <3>2
  <2> QED BY <2>3, <2>4
<1>4. CASE SetRow(p)
  <2> PICK c \in Catalogues : c = CatalogueOf(p) BY <1>4, Catalogued DEF SetRow
  <2>1. pc[p] = "fields" /\ req[p].op \in Queries /\ pc'[p] \in {"fields", "putText", "idle"}
    BY <1>4, Handling DEF SetRow, Keep
  <2>2. c # "group" BY <1>p, <2>1, Catalogued DEF Shelved
  <2>3. hash'["group"][i] = hash["group"][i]
    <3>1. \E j, v : hash' = Entitled(hash, c, j, v) BY <1>4 DEF SetRow, Entitled
    <3> PICK j, v : hash' = Entitled(hash, c, j, v) BY <3>1
    <3>2. Shelves(hash) BY <1>t DEF DirectoryTypes
    <3>3. Entitled(hash, c, j, v)["group"] = hash["group"] BY <1>g, <2>2, <3>2, TitleSet
    <3> QED BY <3>3
  <2>4. CASE x = p BY <2>1, <2>4 DEF Due
  <2>5. CASE x # p BY <1>t, <1>x, <2>3, <2>5 DEF GroupsPrepared, Due
  <2> QED BY <2>4, <2>5
<1> QED BY <1>1, <1>2, <1>3, <1>4, DirectoryChanges

LEMMA SameShelf ==
  ASSUME NEW f, NEW g, Shelves(f), Shelves(g), NEW k \in Catalogues, \A i \in Entries : f[k][i] = g[k][i]
  PROVE  f[k] = g[k]
<1>1. Titled(f[k]) /\ Titled(g[k]) BY DEF Shelves
<1> QED BY <1>1 DEF Titled

\* What p's transaction is about to commit is still to be committed.
LEMMA DiffersStays ==
  ASSUME NEW p \in Procs, Handled(p), NEW k, NEW i,
         Halves(p, "group", i) /\ pc[p] # "field" => Halves(p, "group", i)' /\ pc'[p] # "field",
         Differs(k, i)
  PROVE  Differs(k, i)'
<1>1. PICK q \in Procs : k = "group" /\ Halves(q, "group", i) /\ pc[q] # "field" BY DEF Differs, Enacting
<1>2. Halves(q, "group", i)' /\ pc'[q] # "field"
  <2>1. CASE q = p BY <1>1, <2>1
  <2>2. CASE q # p BY <1>1, <2>2, OtherBrowsers
  <2> QED BY <2>1, <2>2
<1> QED BY <1>1, <1>2 DEF Differs, Enacting

LEMMA TextSteps ==
  ASSUME NEW p \in Procs, Handled(p), NEW k \in {"group", "tag"}, TextFollows(k), RowsRemain,
         \/ \A q \in Procs \ {p} : ~Browses(q, DirectoryOps, {"putText"}, k) /\ ~Browses(q, DirectoryOps, {"fields"}, k)
         \/ \A i \in Entries : hash'[k][i] = hash[k][i] /\ (Differs(k, i) => Differs(k, i)'),
         \/ \E q \in Procs : Renews(q, k)'
         \/ text'[k] = hash'[k]
         \/ ~Renews(p, k) /\ hash'[k] = hash[k] /\ text'[k] = text[k],
         Browses(p, DirectoryOps, {"putText"}, k)' => \A i \in Entries : seen'[p].names[i] = hash'[k][i] \/ Differs(k, i)',
         Browses(p, DirectoryOps, {"fields"}, k)' => \A i \in Entries \ seen'[p].left : seen'[p].names[i] = hash'[k][i],
         \A i \in Entries : FieldFollows(k, i)',
         k = "tag" /\ Browses(p, DirectoryOps, {"field"}, k)' /\ EntryOf(p)' \in Entries => rows'[k][EntryOf(p)'] # None
  PROVE  TextFollows(k)'
<1>o. \A q \in Procs \ {p} : /\ seen'[q] = seen[q] /\ EntryOf(q)' = EntryOf(q)
                             /\ \A l : Browses(q, DirectoryOps, {l}, k)' <=> Browses(q, DirectoryOps, {l}, k)
                             /\ Renews(q, k)' <=> Renews(q, k)
  BY OtherBrowsers
<1>1. (text[k] # None /\ \A q \in Procs : ~Renews(q, k))' => text'[k] = hash'[k]
  <2>1. CASE ~Renews(p, k) /\ hash'[k] = hash[k] /\ text'[k] = text[k]
    BY <1>o, <2>1 DEF TextFollows
  <2> QED BY <2>1
<1>2. ASSUME NEW q \in Procs, Browses(q, DirectoryOps, {"putText"}, k)', NEW i \in Entries
      PROVE  seen'[q].names[i] = hash'[k][i] \/ Differs(k, i)'
  <2>1. CASE q = p BY <1>2, <2>1
  <2>2. CASE q # p
    <3>1. Browses(q, DirectoryOps, {"putText"}, k) /\ seen'[q] = seen[q] BY <1>2, <1>o, <2>2
    <3>2. seen[q].names[i] = hash[k][i] \/ Differs(k, i) BY <3>1 DEF TextFollows
    <3> QED BY <2>2, <3>1, <3>2
  <2> QED BY <2>1, <2>2
<1>3. ASSUME NEW q \in Procs, Browses(q, DirectoryOps, {"fields"}, k)', NEW i \in Entries \ seen'[q].left
      PROVE  seen'[q].names[i] = hash'[k][i]
  <2>1. CASE q = p BY <1>3, <2>1
  <2>2. CASE q # p
    <3>1. Browses(q, DirectoryOps, {"fields"}, k) /\ seen'[q] = seen[q] BY <1>3, <1>o, <2>2
    <3>2. seen[q].names[i] = hash[k][i] BY <1>3, <3>1 DEF TextFollows
    <3> QED BY <1>3, <2>2, <3>1, <3>2
  <2> QED BY <2>1, <2>2
<1>4. ASSUME k = "tag", NEW q \in Procs, Browses(q, DirectoryOps, {"field"}, k)', EntryOf(q)' \in Entries
      PROVE  rows'[k][EntryOf(q)'] # None
  <2>1. CASE q = p BY <1>4, <2>1
  <2>2. CASE q # p
    <3>1. Browses(q, DirectoryOps, {"field"}, k) /\ EntryOf(q)' = EntryOf(q) BY <1>4, <1>o, <2>2
    <3>2. rows[k][EntryOf(q)] # None BY <1>4, <3>1 DEF TextFollows
    <3> QED BY <1>4, <3>1, <3>2 DEF RowsRemain
  <2> QED BY <2>1, <2>2
<1> QED BY <1>1, <1>2, <1>3, <1>4 DEF TextFollows, FieldFollows

\* A handler works on the rows, the hash and the text of one catalogue.
LEMMA OtherCatalogues ==
  ASSUME Locals, DirectoryInv, NEW p \in Procs, May(p, DirectoryOps), DirectoryStep(p), Stays(p, DirectoryOps),
         NEW k \in Catalogues, req[p].op \in Writers \union Queries /\ pc[p] # "idle" => CatalogueOf(p) # k
  PROVE  /\ \A i \in Entries : rows'[k][i] = rows[k][i]
         /\ hash'[k] = hash[k] /\ text'[k] = text[k]
<1> USE DEF At
<1>t. DirectoryTypes BY DEF DirectoryInv
<1>n. DirectoryTypes' BY DirectoryTyped
<1>p. pc[p] # "idle" => Shelved(p) BY DEF DirectoryInv, Browsing, Active, May, Busy
<1>1. \A i \in Entries : rows'[k][i] = rows[k][i]
  <2>1. CASE CommitGroup(p) \/ CommitDelete(p)
    <3>1. k # "group" BY <2>1, Catalogued DEF CommitGroup, CommitDelete, Writers, Adds
    <3> QED BY <1>t, <2>1, <3>1, RowsSet
  <2>2. CASE InsertRow(p) \/ UpdateRow(p)
    <3>1. CatalogueOf(p) # k BY <2>2 DEF InsertRow, UpdateRow, Writers, Adds
    <3> QED BY <1>t, <2>2, <3>1, RowsSet
  <2> QED BY <2>1, <2>2, DirectoryChanges
<1>2. hash'[k] = hash[k]
  <2>1. CASE DeleteGroupField(p)
    <3>1. k # "group" BY <2>1, Catalogued DEF DeleteGroupField, Writers
    <3>2. \A i \in Entries : hash'[k][i] = hash[k][i] BY <1>t, <2>1, <3>1, HashSet
    <3> QED BY <1>t, <1>n, <3>2, SameShelf DEF DirectoryTypes
  <2>2. CASE SetEntry(p)
    <3>1. CatalogueOf(p) # k BY <2>2 DEF SetEntry, Writers
    <3>2. \A i \in Entries : hash'[k][i] = hash[k][i] BY <1>t, <2>2, <3>1, HashSet
    <3> QED BY <1>t, <1>n, <3>2, SameShelf DEF DirectoryTypes
  <2>3. CASE SetRow(p)
    <3> PICK c \in Catalogues : c = CatalogueOf(p) BY <2>3, Catalogued DEF SetRow
    <3>1. c # k BY <2>3 DEF SetRow
    <3>2. \E j, v : hash' = Entitled(hash, c, j, v) BY <2>3 DEF SetRow, Entitled
    <3> PICK j, v : hash' = Entitled(hash, c, j, v) BY <3>2
    <3>3. Shelves(hash) BY <1>t DEF DirectoryTypes
    <3>4. Entitled(hash, c, j, v)[k] = hash[k] BY <3>1, <3>3, TitleSet
    <3> QED BY <3>4
  <2> QED BY <2>1, <2>2, <2>3, DirectoryChanges
<1>3. text'[k] = text[k]
  <2>1. CASE PutText(p)
    <3>1. CatalogueOf(p) # k BY <2>1 DEF PutText
    <3>2. text' = [text EXCEPT ![CatalogueOf(p)] = seen[p].names] BY <2>1 DEF PutText
    <3> QED BY <1>t, <3>1, <3>2 DEF DirectoryTypes
  <2> QED BY <2>1, DirectoryChanges
<1> QED BY <1>1, <1>2, <1>3

\* A step that writes nothing of k.
LEMMA TextLeft ==
  ASSUME NEW p \in Procs, Handled(p), NEW k \in {"group", "tag"}, TextFollows(k), RowsRemain,
         \A i \in Entries : rows'[k][i] = rows[k][i],
         hash'[k] = hash[k], text'[k] = text[k],
         \A i : k = "group" /\ Halves(p, "group", i) /\ pc[p] # "field" => Halves(p, "group", i)' /\ pc'[p] # "field",
         Renews(p, k) => Renews(p, k)',
         Browses(p, DirectoryOps, {"putText"}, k)' => \A i \in Entries : seen'[p].names[i] = hash[k][i] \/ Differs(k, i),
         Browses(p, DirectoryOps, {"fields"}, k)' => \A i \in Entries \ seen'[p].left : seen'[p].names[i] = hash[k][i],
         k = "tag" => ~Browses(p, DirectoryOps, {"field"}, k)'
  PROVE  TextFollows(k)'
<1>1. \A i \in Entries : Differs(k, i) => Differs(k, i)' BY DiffersStays DEF Differs
<1>2. \A i \in Entries : FieldFollows(k, i)'
  <2> SUFFICES ASSUME NEW i \in Entries PROVE FieldFollows(k, i)' OBVIOUS
  <2>1. FieldFollows(k, i) BY DEF TextFollows
  <2>2. rows'[k][i] = rows[k][i] /\ hash'[k][i] = hash[k][i] OBVIOUS
  <2> QED BY <1>1, <2>1, <2>2 DEF FieldFollows
<1>3. \/ \E q \in Procs : Renews(q, k)'
      \/ ~Renews(p, k)
  OBVIOUS
<1> QED BY <1>1, <1>2, <1>3, TextSteps

\* A handler starts at the first step of its request, and keeps the request.
LEMMA DirectoryGoesOn ==
  ASSUME Locals, NEW p \in Procs, DirectoryStep(p)
  PROVE  IF pc[p] = "idle" THEN pc'[p] \in {"names", "count", "insert", "update", "query", "readList", "shown"}
                                /\ UNCHANGED directory /\ req'[p] \in Calls
                           ELSE pc'[p] = "idle" \/ req'[p] = req[p]
<1> USE Handling DEF At
<1>1. CASE \/ onHttpAddGroup(p) \/ onHttpDeleteGroup(p) \/ onHttpAddTag(p) \/ onHttpAddSubject(p)
           \/ onHttpChangeTag(p) \/ onHttpChangeSubject(p)
           \/ onHttpQueryGroup(p) \/ onHttpQueryTag(p) \/ onHttpQuerySubject(p)
           \/ onHttpAddSubjectToGroup(p) \/ onHttpQuerySubjectForGroup(p)
  BY <1>1 DEF onHttpAddGroup, onHttpDeleteGroup, onHttpAddTag, onHttpAddSubject, onHttpChangeTag, onHttpChangeSubject,
              onHttpQueryGroup, onHttpQueryTag, onHttpQuerySubject, onHttpAddSubjectToGroup, onHttpQuerySubjectForGroup, Browse
<1>2. CASE CheckNames(p) \/ InsertGroup(p) \/ CountClasses(p) \/ DeleteGroupRow(p) \/ ReadHash(p) \/ QueryHit(p)
  BY <1>2 DEF CheckNames, InsertGroup, CountClasses, DeleteGroupRow, ReadHash, QueryHit, Keep
<1>3. CASE CommitGroup(p) \/ DeleteGroupField(p) \/ DeleteGroupHash(p) \/ CommitDelete(p) \/ InsertRow(p) \/ UpdateRow(p)
  BY <1>3 DEF CommitGroup, DeleteGroupField, DeleteGroupHash, CommitDelete, InsertRow, UpdateRow, Keep
<1>4. CASE PutText(p) \/ QueryRows(p) \/ SetRow(p) \/ ReadList(p) \/ GetSubjectList(p) \/ ReadListRow(p) \/ PutList(p)
  BY <1>4 DEF PutText, QueryRows, SetRow, ReadList, GetSubjectList, ReadListRow, PutList, Keep
<1>5. CASE SetEntry(p)
  <2>1. CatalogueOf(p) \in Catalogues /\ pc[p] = "field" BY <1>5, Catalogued DEF SetEntry, Writers
  <2> QED BY <1>5, <2>1 DEF SetEntry, Catalogues
<1>6. CASE WriteList(p) BY <1>6 DEF WriteList
<1>7. CASE DirectoryFails(p) BY <1>7 DEF DirectoryFails, Busy
<1> QED BY <1>1, <1>2, <1>3, <1>4, <1>5, <1>6, <1>7 DEF DirectoryStep

LEMMA CatalogueTextsFollow ==
  ASSUME Locals, DirectoryInv, scene' = scene, NEW p \in Procs, May(p, DirectoryOps), DirectoryStep(p), Stays(p, DirectoryOps),
         NEW k \in {"group", "tag"}, <<k, 0>> \notin blurred'
  PROVE  TextFollows(k)'
<1> USE DEF At
<1>h. Handled(p) BY DEF Stays
<1>t. DirectoryTypes BY DEF DirectoryInv
<1>n. DirectoryTypes' /\ RowsRemain BY DirectoryTyped
<1>k. k \in Catalogues BY DEF Catalogues
<1>f. TextFollows(k) BY DirectoryChanges DEF DirectoryInv
<1>p. pc[p] # "idle" => Shelved(p) /\ Browsing(p) /\ req[p].op \in DirectoryOps BY DEF DirectoryInv, Browsing, Active, May, Busy
<1>q. Browsing(p)' => Shelved(p)' BY BrowserMoves
<1>g. IF pc[p] = "idle" THEN pc'[p] \in {"names", "count", "insert", "update", "query", "readList", "shown"}
                        ELSE pc'[p] = "idle" \/ req'[p] = req[p]
  BY DirectoryGoesOn
<1>i. pc'[p] = "idle" => ~Browsing(p)' BY DEF Browsing, Active, Busy
<1>c. req'[p] = req[p] => CatalogueOf(p)' = CatalogueOf(p) BY DEF CatalogueOf
\* Steps of a handler that works on something else.
<1>1. CASE ~(pc[p] # "idle" /\ req[p].op \in Writers \union Queries /\ CatalogueOf(p) = k)
  <2>1. (\A i \in Entries : rows'[k][i] = rows[k][i]) /\ hash'[k] = hash[k] /\ text'[k] = text[k]
    BY <1>1, <1>k, OtherCatalogues
  <2>2. ~Renews(p, k) /\ \A i : k = "group" => ~Halves(p, "group", i)
    BY <1>1, Catalogued DEF Renews, Halves, Browsing, Active, Busy, Writers
  <2>3. \A l \in {"putText", "fields", "field"} : ~Browses(p, DirectoryOps, {l}, k)'
    <3> SUFFICES ASSUME NEW l \in {"putText", "fields", "field"}, Browses(p, DirectoryOps, {l}, k)' PROVE FALSE OBVIOUS
    <3>1. Browsing(p)' /\ pc'[p] = l /\ CatalogueOf(p)' = k BY DEF Browses
    <3>2. pc[p] # "idle" /\ req'[p] = req[p] /\ CatalogueOf(p) = k BY <1>c, <1>g, <1>i, <3>1
    <3>3. req[p].op \in Writers \union Queries BY <1>q, <3>1, <3>2 DEF Shelved, Writers, Queries
    <3> QED BY <1>1, <3>2, <3>3
  <2> QED BY <1>f, <1>h, <1>n, <2>1, <2>2, <2>3, TextLeft
<1>2. CASE pc[p] # "idle" /\ req[p].op \in Writers \union Queries /\ CatalogueOf(p) = k
  <2>p. Shelved(p) /\ Browsing(p) BY <1>2, <1>p
  <2>l. req[p].op \notin ListOps BY <1>2 DEF Writers, Queries, Adds, Changes, ListOps
  <2>y. ASSUME NEW i, Blur(p, k, i)
        PROVE  \A q \in Procs \ {p} : ~Browses(q, DirectoryOps, {"putText"}, k) /\ ~Browses(q, DirectoryOps, {"fields"}, k)
    <3>1. \A q \in Procs \ {p} : ~Reads(q, k) BY <2>y, Blurring
    <3> QED BY <3>1 DEF Browses, Reads
  \* The handlers that read the text's hash or rows are not p, after the step, if p is not there.
  <2>b. ASSUME pc'[p] \notin {"putText", "fields", "field"}
        PROVE  \A l \in {"putText", "fields", "field"} : ~Browses(p, DirectoryOps, {l}, k)'
    BY <2>b DEF Browses
  <2>3. CASE CheckNames(p) \/ CountClasses(p) \/ DeleteGroupRow(p) \/ QueryHit(p)
    <3>1. /\ rows' = rows /\ hash' = hash /\ text' = text
          /\ pc[p] \in {"names", "count", "delete", "query"} /\ pc'[p] \in {"idle", "insert", "delete", "unlist"}
      BY <2>3, Handling DEF CheckNames, CountClasses, DeleteGroupRow, QueryHit, directory, catalogues
    <3>2. ~Renews(p, k) /\ \A i : ~Halves(p, "group", i) BY <3>1 DEF Renews, Halves
    <3> QED BY <1>f, <1>h, <1>n, <2>b, <3>1, <3>2, TextLeft
  <2>4. CASE InsertGroup(p)
    <3>1. rows' = rows /\ hash' = hash /\ text' = text /\ pc[p] = "insert" /\ pc'[p] \in {"idle", "field"} /\ req[p].op = "addGroup"
      BY <2>4, Handling DEF InsertGroup, Keep
    <3>2. ~Renews(p, k) /\ \A i : ~Halves(p, "group", i) BY <3>1 DEF Renews, Halves
    <3>3. k # "tag" BY <1>2, <3>1, Catalogued
    <3>4. \A l \in {"putText", "fields"} : ~Browses(p, DirectoryOps, {l}, k)' BY <3>1 DEF Browses
    <3> QED BY <1>f, <1>h, <1>n, <3>1, <3>2, <3>3, <3>4, TextLeft
  <2>5. CASE DeleteGroupHash(p)
    <3>1. /\ rows' = rows /\ hash' = hash /\ text' = text /\ pc[p] = "unset" /\ pc'[p] = "dropped"
          /\ req[p].op = "dropGroup" /\ req'[p] = req[p]
      BY <2>5, Handling DEF DeleteGroupHash, catalogues
    <3>2. Browsing(p)' BY <2>p, <3>1 DEF Browsing, Active, Busy
    <3>3. Renews(p, k)' BY <1>2, <1>c, <3>1 DEF Renews
    <3>4. \A i : Halves(p, "group", i) => Halves(p, "group", i)'
      BY <3>1, <3>2 DEF Halves, Adds, Changes, Queries
    <3> QED BY <1>f, <1>h, <1>n, <2>b, <3>1, <3>3, <3>4, TextLeft
  <2>6. CASE ReadHash(p)
    <3> PICK s : s = hash[k] OBVIOUS
    <3>1. rows' = rows /\ hash' = hash /\ text' = text /\ pc[p] = "text" /\ req[p].op \in Writers
      BY <2>6 DEF ReadHash, directory, catalogues
    <3>2. Filled(seen[p]) /\ "names" \in Slots /\ Keep(p, "putText", "names", s) BY <1>2, <2>6, <2>p DEF ReadHash, Shelved, Slots
    <3>3. pc'[p] = "putText" /\ req'[p] = req[p] /\ seen'[p].names = s BY <3>2, Keeps
    <3>4. Renews(p, k)' BY <1>2, <1>c, <3>3 DEF Renews
    <3>5. \A i : ~(Halves(p, "group", i) /\ pc[p] # "field") BY <3>1 DEF Halves
    <3>6. \A l \in {"fields", "field"} : ~Browses(p, DirectoryOps, {l}, k)' BY <3>3 DEF Browses
    <3> QED BY <1>f, <1>h, <1>n, <3>1, <3>3, <3>4, <3>5, <3>6, TextLeft
  <2>7. CASE DirectoryFails(p)
    <3>1. rows' = rows /\ hash' = hash /\ text' = text /\ pc'[p] = "idle"
      BY <2>7, Handling DEF DirectoryFails, catalogues
    <3>2. pc[p] \notin {"commit", "unset", "dropped", "text", "fields", "putText"} BY <1>2, <2>7 DEF DirectoryFails
    <3>3. ~Renews(p, k) /\ \A i : ~(Halves(p, "group", i) /\ pc[p] # "field") BY <3>2 DEF Renews, Halves
    <3> QED BY <1>f, <1>h, <1>n, <2>b, <3>1, <3>3, TextLeft
  <2>8. CASE PutText(p)
    <3>1. rows' = rows /\ hash' = hash /\ pc[p] = "putText" /\ pc'[p] = "idle" /\ text' = [text EXCEPT ![k] = seen[p].names]
      BY <1>2, <2>8, Handling DEF PutText
    <3>2. \A i : ~Halves(p, "group", i) BY <3>1 DEF Halves
    <3>3. \A i \in Entries : Differs(k, i) => Differs(k, i)' BY <1>h, <3>2, DiffersStays
    <3>4. \A i \in Entries : FieldFollows(k, i)' BY <1>f, <3>1, <3>3 DEF TextFollows, FieldFollows
    <3>5. (\E q \in Procs : Renews(q, k)') \/ text'[k] = hash'[k]
      <4>1. CASE \E i \in Entries : Differs(k, i)
        <5> PICK i \in Entries, q \in Procs : k = "group" /\ Halves(q, "group", i) /\ pc[q] # "field"
          BY <4>1 DEF Differs, Enacting
        <5>1. q # p BY <3>2
        <5>2. Renews(q, k)
          <6>1. Browsing(q) /\ Shelved(q) BY DEF Halves, DirectoryInv
          <6>2. req[q].op \in Adds \union Changes \union {"dropGroup"} \union Queries BY DEF Halves
          <6>3. pc[q] \in {"commit", "unset", "dropped", "fields"} BY DEF Halves
          <6>4. CatalogueOf(q) = "group" BY Catalogued DEF Halves
          <6> QED BY <6>2, <6>3, <6>4 DEF Renews, Writers
        <5> QED BY <1>h, <5>1, <5>2, OtherBrowsers
      <4>2. CASE \A i \in Entries : ~Differs(k, i)
        <5>1. Browses(p, DirectoryOps, {"putText"}, k) BY <1>2, <1>p, <2>p, <3>1 DEF Browses
        <5>2. \A i \in Entries : seen[p].names[i] = hash[k][i] BY <1>f, <4>2, <5>1 DEF TextFollows
        <5>3. Titled(seen[p].names) BY <2>p, <3>1 DEF Shelved
        <5>4. Titled(hash[k]) BY <1>k, <1>t DEF DirectoryTypes, Shelves
        <5>5. seen[p].names = hash[k] BY <5>2, <5>3, <5>4 DEF Titled
        <5> QED BY <1>k, <1>t, <3>1, <5>5 DEF DirectoryTypes
      <4> QED BY <4>1, <4>2
    <3> QED BY <1>f, <1>h, <1>n, <2>b, <3>1, <3>3, <3>4, <3>5, TextSteps
  <2>9. CASE CommitGroup(p) \/ CommitDelete(p)
    <3>1. /\ pc[p] \in {"commit", "dropped"} /\ pc'[p] = "text" /\ req'[p] = req[p] /\ hash' = hash
          /\ req[p].op = (IF pc[p] = "commit" THEN "addGroup" ELSE "dropGroup")
          /\ Blur(p, "group", EntryOf(p))
          /\ k = "group"
      BY <1>2, <2>9, Catalogued, Handling DEF CommitGroup, CommitDelete, EntryOf, Adds
    <3>2. Renews(p, k)' BY <1>2, <1>c, <3>1 DEF Renews
    <3>3. \A q \in Procs \ {p} : ~Browses(q, DirectoryOps, {"putText"}, k) /\ ~Browses(q, DirectoryOps, {"fields"}, k)
      BY <2>y, <3>1
    <3>4. ASSUME NEW i \in Entries PROVE FieldFollows(k, i)'
      <4>1. CASE i = EntryOf(p)
        <5>1. Halves(p, "group", i) BY <1>2, <2>p, <3>1, <4>1 DEF Halves, Adds, EntryOf
        <5>2. Due(p, "group", i) BY <5>1 DEF DirectoryInv, GroupsPrepared
        <5>3. rows'["group"][i] = hash["group"][i]
          BY <1>k, <1>t, <2>9, <3>1, <4>1, <5>2, RowsSet DEF CommitGroup, CommitDelete, Due, EntryOf, Adds
        <5> QED BY <3>1, <5>3 DEF FieldFollows
      <4>2. CASE i # EntryOf(p)
        <5>1. rows'["group"][i] = rows["group"][i]
          BY <1>k, <1>t, <2>9, <3>1, <4>2, RowsSet DEF CommitGroup, CommitDelete, EntryOf, Adds
        <5>2. ~Halves(p, "group", i) BY <3>1, <4>2 DEF Halves, Queries, Adds, Changes, EntryOf
        <5>3. Differs(k, i) => Differs(k, i)' BY <1>h, <5>2, DiffersStays
        <5>4. FieldFollows(k, i) BY <1>f DEF TextFollows
        <5> QED BY <3>1, <5>1, <5>3, <5>4 DEF FieldFollows
      <4> QED BY <4>1, <4>2
    <3> QED BY <1>f, <1>h, <1>n, <2>b, <3>1, <3>2, <3>3, <3>4, TextSteps
  <2>10. CASE DeleteGroupField(p) \/ (SetEntry(p) /\ k = "group")
    <3>1. /\ req'[p] = req[p] /\ rows' = rows /\ k = "group" /\ pc'[p] # "idle" /\ seen'[p] = seen[p]
          /\ \/ DeleteGroupField(p) /\ pc[p] = "unlist" /\ pc'[p] = "unset" /\ req[p].op = "dropGroup"
             \/ SetEntry(p) /\ pc[p] = "field" /\ pc'[p] = "commit" /\ req[p].op \in Adds \union Changes
          /\ Blur(p, "group", EntryOf(p))
      <4>1. CASE DeleteGroupField(p)
        <5>1. EntryOf(p) = req[p].id /\ CatalogueOf(p) = "group" BY <4>1, Catalogued DEF DeleteGroupField, EntryOf, Adds
        <5> QED BY <1>2, <4>1, <5>1, Handling DEF DeleteGroupField
      <4>2. CASE SetEntry(p) /\ k = "group"
        BY <1>2, <4>2, Handling DEF SetEntry
      <4> QED BY <2>10, <4>1, <4>2
    <3>2. Renews(p, k)' BY <1>2, <1>c, <3>1 DEF Renews
    <3>3. \A q \in Procs \ {p} : ~Browses(q, DirectoryOps, {"putText"}, k) /\ ~Browses(q, DirectoryOps, {"fields"}, k)
      BY <2>y, <3>1
    <3>4. ASSUME NEW i \in Entries PROVE FieldFollows(k, i)'
      <4>1. CASE i = EntryOf(p)
        <5>1. Browsing(p)' BY <2>p, <3>1 DEF Browsing, Active, Busy
        <5>2. CatalogueOf(p)' = "group" /\ EntryOf(p)' = i BY <1>2, <1>c, <3>1, <4>1 DEF EntryOf
        <5>3. Halves(p, "group", i)' /\ pc'[p] # "field" BY <3>1, <4>1, <5>1, <5>2 DEF Halves, EntryOf, Adds
        <5> QED BY <3>1, <5>3 DEF FieldFollows, Differs, Enacting
      <4>2. CASE i # EntryOf(p)
        <5>1. hash'["group"][i] = hash["group"][i]
          <6>1. CASE DeleteGroupField(p)
            <7>1. EntryOf(p) = req[p].id BY <6>1 DEF DeleteGroupField, EntryOf, Adds
            <7> QED BY <1>k, <1>t, <3>1, <4>2, <6>1, <7>1, HashSet
          <6>2. CASE SetEntry(p) BY <1>2, <1>k, <1>t, <3>1, <4>2, <6>2, HashSet
          <6> QED BY <3>1, <6>1, <6>2
        <5>2. ~(Halves(p, "group", i) /\ pc[p] # "field") BY <3>1 DEF Halves
        <5>3. Differs(k, i) => Differs(k, i)' BY <1>h, <5>2, DiffersStays
        <5>4. FieldFollows(k, i) BY <1>f DEF TextFollows
        <5> QED BY <3>1, <5>1, <5>3, <5>4 DEF FieldFollows
      <4> QED BY <4>1, <4>2
    <3>5. pc'[p] \notin {"putText", "fields", "field"} BY <3>1
    <3> QED BY <1>f, <1>h, <1>n, <2>b, <3>1, <3>2, <3>3, <3>4, <3>5, TextSteps
  <2>11. CASE InsertRow(p) \/ UpdateRow(p)
    <3>1. /\ hash' = hash /\ text' = text /\ pc[p] \in {"insert", "update"} /\ pc'[p] = "field" /\ req'[p] = req[p]
          /\ req[p].op \in {"addTag", "addSubject", "changeTag", "changeSubject"}
      BY <2>11, Handling DEF InsertRow, UpdateRow, Keep, Changes
    <3>2. k = "tag" BY <1>2, <3>1, Catalogued
    <3>3. req[p].name # None
      <4>1. req[p] \in Calls BY <2>p DEF Shelved
      <4> QED BY <3>1, <4>1, RequestsOfEntries DEF Calls, Locals, Adds, Changes
    <3>4. \E i : Blur(p, k, i) BY <1>2, <2>11 DEF InsertRow, UpdateRow
    <3>5. \A q \in Procs \ {p} : ~Browses(q, DirectoryOps, {"putText"}, k) /\ ~Browses(q, DirectoryOps, {"fields"}, k)
      BY <2>y, <3>4
    <3>6. ~Renews(p, k) BY <3>1 DEF Renews
    <3>7. ASSUME NEW i \in Entries PROVE FieldFollows(k, i)'
      <4>1. FieldFollows(k, i) BY <1>f DEF TextFollows
      <4>2. rows'[k][i] = None => rows[k][i] = None BY <1>n, <3>2 DEF RowsRemain
      <4>3. ~Differs(k, i) BY <3>2 DEF Differs
      <4> QED BY <3>1, <3>2, <4>1, <4>2, <4>3 DEF FieldFollows
    <3>8. ASSUME EntryOf(p)' \in Entries PROVE rows'[k][EntryOf(p)'] # None
      <4> PICK e \in Entries : e = EntryOf(p)' BY <3>8
      <4>1. CASE InsertRow(p)
        <5> PICK j : j = given[k] + 1 OBVIOUS
        <5>1. Keep(p, "field", "id", j) /\ req[p].op \in {"addTag", "addSubject"} BY <1>2, <4>1 DEF InsertRow
        <5>2. Filled(seen[p]) /\ "id" \in Slots BY <2>p DEF Shelved, Slots
        <5>3. seen'[p].id = j BY <5>1, <5>2, Keeps
        <5>4. e = j BY <3>1, <5>1, <5>3 DEF EntryOf, Adds
        <5>5. rows'[k][e] = req[p].name BY <1>2, <1>k, <1>t, <4>1, <5>4, RowsSet
        <5> QED BY <3>3, <5>5
      <4>2. CASE UpdateRow(p)
        <5>1. req[p].op \in Changes /\ rows[k][req[p].id] # None BY <1>2, <4>2 DEF UpdateRow
        <5>2. e = req[p].id BY <3>1, <5>1 DEF EntryOf, Adds, Changes
        <5>3. rows'[k][e] = req[p].name BY <1>2, <1>k, <1>t, <4>2, <5>1, <5>2, RowsSet
        <5> QED BY <3>3, <5>3
      <4> QED BY <2>11, <4>1, <4>2
    <3>9. \A l \in {"putText", "fields"} : ~Browses(p, DirectoryOps, {l}, k)' BY <3>1 DEF Browses
    <3> QED BY <1>f, <1>h, <1>n, <3>1, <3>5, <3>6, <3>7, <3>8, <3>9, TextSteps
  <2>12. CASE SetEntry(p) /\ k = "tag"
    <3>1. /\ rows' = rows /\ pc[p] = "field" /\ pc'[p] = "text" /\ req'[p] = req[p] /\ Blur(p, k, EntryOf(p))
          /\ req[p].op \in Adds \union Changes
      BY <1>2, <2>12, Handling DEF SetEntry
    <3>2. Renews(p, k)' BY <1>2, <1>c, <3>1 DEF Renews
    <3>3. \A q \in Procs \ {p} : ~Browses(q, DirectoryOps, {"putText"}, k) /\ ~Browses(q, DirectoryOps, {"fields"}, k)
      BY <2>y, <3>1
    <3>4. ASSUME NEW i \in Entries PROVE FieldFollows(k, i)'
      <4>1. FieldFollows(k, i) BY <1>f DEF TextFollows
      <4>2. ~Differs(k, i) BY <2>12 DEF Differs
      <4>3. CASE i = EntryOf(p)
        <5>1. Browses(p, DirectoryOps, {"field"}, k) BY <1>2, <1>p, <2>p, <3>1 DEF Browses
        <5>2. rows[k][i] # None BY <1>f, <2>12, <4>3, <5>1 DEF TextFollows
        <5> QED BY <2>12, <3>1, <5>2 DEF FieldFollows
      <4>4. CASE i # EntryOf(p)
        <5>1. hash'[k][i] = hash[k][i] BY <1>2, <1>k, <1>t, <2>12, <4>4, HashSet
        <5> QED BY <2>12, <3>1, <4>1, <4>2, <5>1 DEF FieldFollows
      <4> QED BY <4>3, <4>4
    <3> QED BY <1>f, <1>h, <1>n, <2>b, <3>1, <3>2, <3>3, <3>4, TextSteps
  <2>13. CASE QueryRows(p)
    <3> PICK f : f = rows[k] OBVIOUS
    <3> PICK left : left = {i \in Entries : f[i] # None} OBVIOUS
    <3>1. /\ pc[p] = "query" /\ req[p].op \in Queries /\ rows' = rows /\ hash' = hash /\ text' = text
          /\ \/ (k = "group" \/ left = {}) /\ Keep(p, "putText", "names", f)
             \/ k = "tag" /\ With(p, "fields", [Unread EXCEPT !.names = f, !.left = left])
      BY <1>2, <2>13 DEF QueryRows, directory, catalogues
    <3>2. ~Renews(p, k) /\ \A i : ~Halves(p, "group", i) BY <3>1 DEF Renews, Halves
    <3>3. CASE (k = "group" \/ left = {}) /\ Keep(p, "putText", "names", f)
      <4>1. Filled(seen[p]) /\ "names" \in Slots BY <2>p DEF Shelved, Slots
      <4>2. pc'[p] = "putText" /\ seen'[p].names = f BY <3>3, <4>1, Keeps
      <4>3. ASSUME NEW i \in Entries PROVE f[i] = hash[k][i] \/ Differs(k, i)
        <5>1. FieldFollows(k, i) BY <1>f DEF TextFollows
        <5>2. k = "group" \/ f[i] = None BY <3>3
        <5> QED BY <5>1, <5>2 DEF FieldFollows
      <4>4. \A l \in {"fields", "field"} : ~Browses(p, DirectoryOps, {l}, k)' BY <4>2 DEF Browses
      <4> QED BY <1>f, <1>h, <1>n, <3>1, <3>2, <4>2, <4>3, <4>4, TextLeft
    <3>4. CASE k = "tag" /\ With(p, "fields", [Unread EXCEPT !.names = f, !.left = left])
      <4> PICK s : s = [Unread EXCEPT !.names = f, !.left = left] OBVIOUS
      <4>1. s.names = f /\ s.left = left BY DEF Unread
      <4>2. pc'[p] = "fields" /\ seen'[p] = s BY <3>4, Handling
      <4>3. ASSUME NEW i \in Entries \ s.left PROVE s.names[i] = hash[k][i]
        <5>1. FieldFollows(k, i) /\ ~Differs(k, i) BY <1>f, <3>4 DEF TextFollows, Differs
        <5>2. f[i] = None BY <4>1
        <5> QED BY <3>4, <4>1, <5>1, <5>2 DEF FieldFollows
      <4>4. \A l \in {"putText", "field"} : ~Browses(p, DirectoryOps, {l}, k)' BY <4>2 DEF Browses
      <4>5. \A i \in Entries \ seen'[p].left : seen'[p].names[i] = hash[k][i] BY <4>2, <4>3
      <4> QED BY <1>f, <1>h, <1>n, <3>1, <3>2, <4>4, <4>5, TextLeft
    <3> QED BY <3>1, <3>3, <3>4
  <2>14. CASE SetRow(p)
    <3> PICK j \in seen[p].left :
          /\ hash' = [hash EXCEPT ![k][j] = seen[p].names[j]] /\ Blur(p, k, j)
          /\ \/ Keep(p, "fields", "left", seen[p].left \ {j})
             \/ seen[p].left = {j} /\ (IF k = "tag" THEN On(p, "putText") ELSE Return(p))
      BY <1>2, <2>14 DEF SetRow
    <3>1. pc[p] = "fields" /\ rows' = rows /\ req[p].op \in {"tags", "subjects"} /\ req[p].op \in Queries
          /\ seen[p].left \subseteq Entries /\ \A i \in seen[p].left : seen[p].names[i] # None /\ rows[k][i] # None
      BY <1>2, <2>14, <2>p DEF SetRow, Shelved
    <3>2. k = "tag" BY <1>2, <3>1, Catalogued
    <3>3. \A i \in Entries : hash'[k][i] = IF i = j THEN seen[p].names[j] ELSE hash[k][i]
      <4> PICK v : v = seen[p].names[j] OBVIOUS
      <4>1. hash' = Entitled(hash, k, j, v) BY DEF Entitled
      <4>2. Shelves(hash) BY <1>t DEF DirectoryTypes
      <4>3. \A i \in Entries : Entitled(hash, k, j, v)[k][i] = IF i = j THEN v ELSE hash[k][i] BY <1>k, <4>2, TitleSet
      <4> QED BY <4>1, <4>3
    <3>4. \A q \in Procs \ {p} : ~Browses(q, DirectoryOps, {"putText"}, k) /\ ~Browses(q, DirectoryOps, {"fields"}, k)
      BY <2>y
    <3>5. \A i \in Entries \ seen[p].left : seen[p].names[i] = hash[k][i]
      <4>1. Browses(p, DirectoryOps, {"fields"}, k) BY <1>2, <1>p, <2>p, <3>1 DEF Browses
      <4> QED BY <1>f, <4>1 DEF TextFollows
    <3>6. /\ req'[p] = req[p] /\ seen'[p].names = seen[p].names
          /\ \/ pc'[p] = "fields" /\ seen'[p].left = seen[p].left \ {j}
             \/ pc'[p] = "putText" /\ seen[p].left = {j}
      <4>1. CASE Keep(p, "fields", "left", seen[p].left \ {j})
        <5>1. Filled(seen[p]) /\ "left" \in Slots BY <2>p DEF Shelved, Slots
        <5> QED BY <4>1, <5>1, Keeps
      <4>2. CASE seen[p].left = {j} /\ (IF k = "tag" THEN On(p, "putText") ELSE Return(p))
        BY <3>2, <4>2, Handling
      <4> QED BY <4>1, <4>2
    <3>7. Renews(p, k)' BY <1>2, <1>c, <3>1, <3>6 DEF Renews
    <3>8. \A i \in Entries : FieldFollows(k, i)'
      <4> SUFFICES ASSUME NEW i \in Entries PROVE FieldFollows(k, i)' OBVIOUS
      <4>1. FieldFollows(k, i) /\ ~Differs(k, i) BY <1>f, <3>2 DEF TextFollows, Differs
      <4> QED BY <3>1, <3>2, <3>3, <4>1 DEF FieldFollows
    <3>9. pc'[p] = "putText" => \A i \in Entries : seen'[p].names[i] = hash'[k][i] BY <3>3, <3>5, <3>6
    <3>10. pc'[p] = "fields" => \A i \in Entries \ seen'[p].left : seen'[p].names[i] = hash'[k][i] BY <3>3, <3>5, <3>6
    <3>11. ~Browses(p, DirectoryOps, {"field"}, k)' BY <3>6 DEF Browses
    <3>12. /\ Browses(p, DirectoryOps, {"putText"}, k)' => pc'[p] = "putText"
           /\ Browses(p, DirectoryOps, {"fields"}, k)' => pc'[p] = "fields"
      BY DEF Browses
    <3> QED BY <1>f, <1>h, <1>n, <3>4, <3>7, <3>8, <3>9, <3>10, <3>11, <3>12, TextSteps
  <2>15. pc[p] # "idle" => ~(\/ onHttpAddGroup(p) \/ onHttpDeleteGroup(p) \/ onHttpAddTag(p) \/ onHttpAddSubject(p)
                             \/ onHttpChangeTag(p) \/ onHttpChangeSubject(p)
                             \/ onHttpQueryGroup(p) \/ onHttpQueryTag(p) \/ onHttpQuerySubject(p)
                             \/ onHttpAddSubjectToGroup(p) \/ onHttpQuerySubjectForGroup(p))
    BY DEF onHttpAddGroup, onHttpDeleteGroup, onHttpAddTag, onHttpAddSubject, onHttpChangeTag, onHttpChangeSubject,
           onHttpQueryGroup, onHttpQueryTag, onHttpQuerySubject, onHttpAddSubjectToGroup, onHttpQuerySubjectForGroup,
           Browse, Start, Idle, Busy
  <2>16. ~(ReadList(p) \/ WriteList(p) \/ GetSubjectList(p) \/ ReadListRow(p) \/ PutList(p))
    <3>1. ~WriteList(p) BY <1>2, <2>p DEF WriteList, Shelved, Writers, Queries, Adds, Changes
    <3> QED BY <2>l, <3>1 DEF ReadList, GetSubjectList, ReadListRow, PutList, ListOps
  <2> QED BY <1>2, <2>3, <2>4, <2>5, <2>6, <2>7, <2>8, <2>9, <2>10, <2>11, <2>12, <2>13, <2>14, <2>15, <2>16 DEF DirectoryStep
<1> QED BY <1>1, <1>2

\* A step that leaves the list of g.
LEMMA ListLeft ==
  ASSUME NEW p \in Procs, Handled(p), NEW g, ListFollows(g), lists'[g] = lists[g], wanted'[g] = wanted[g],
         listText'[g] # listText[g] => listText'[g] \in {None, lists[g]},
         Reloads(p, g) => Reloads(p, g)' \/ listText'[g] \in {None, lists[g]},
         OnList(p, g)' => ListRead(p, g)'
  PROVE  ListFollows(g)'
<1>1. wanted'[g] = IF lists'[g] = None THEN {} ELSE lists'[g] BY DEF ListFollows
<1>2. ASSUME listText'[g] # None, \A q \in Procs : ~Reloads(q, g)' PROVE listText'[g] = lists'[g]
  <2>1. CASE listText'[g] \in {None, lists[g]} BY <1>2, <2>1
  <2>2. CASE listText'[g] \notin {None, lists[g]}
    <3>1. \A q \in Procs : ~Reloads(q, g) BY <1>2, <2>2, OtherBrowsers
    <3> QED BY <1>2, <2>2, <3>1 DEF ListFollows
  <2> QED BY <2>1, <2>2
<1>3. ASSUME NEW q \in Procs, OnList(q, g)' PROVE ListRead(q, g)'
  <2>1. CASE q = p BY <1>3, <2>1
  <2>2. CASE q # p
    <3>1. OnList(q, g) /\ pc'[q] = pc[q] /\ req'[q] = req[q] /\ seen'[q] = seen[q] BY <1>3, <2>2, OtherBrowsers
    <3>2. ListRead(q, g) BY <3>1 DEF ListFollows, ListRead
    <3> QED BY <3>1, <3>2 DEF ListRead, Changed
  <2> QED BY <2>1, <2>2
<1> QED BY <1>1, <1>2, <1>3 DEF ListFollows, ListRead

LEMMA ListsAgree ==
  ASSUME Locals, DirectoryInv, NEW p \in Procs, May(p, DirectoryOps), DirectoryStep(p), Stays(p, DirectoryOps),
         NEW g \in Entries
  PROVE  /\ <<"list", g>> \notin blurred' => ListFollows(g)'
         /\ lists'[g] = None => listText'[g] = None
<1> USE DEF At
<1>h. Handled(p) BY DEF Stays
<1>t. DirectoryTypes BY DEF DirectoryInv
<1>n. RowsRemain BY DirectoryTyped
<1>p. pc[p] # "idle" => Shelved(p) /\ Browsing(p) /\ req[p].op \in DirectoryOps BY DEF DirectoryInv, Browsing, Active, May, Busy
<1>f. (<<"list", g>> \notin blurred' => ListFollows(g)) /\ (lists[g] = None => listText[g] = None)
  BY DirectoryChanges DEF DirectoryInv
<1>g. IF pc[p] = "idle" THEN pc'[p] \in {"names", "count", "insert", "update", "query", "readList", "shown"}
                        ELSE pc'[p] = "idle" \/ req'[p] = req[p]
  BY DirectoryGoesOn
<1>i. pc'[p] = "idle" => ~OnList(p, g)' BY DEF OnList, Browsing, Active, Busy
<1>o. pc'[p] \notin {"insertList", "writeList", "putList"} => ListRead(p, g)' BY DEF ListRead
<1>1. CASE WriteList(p)
  <2> PICK h : h = req[p].group OBVIOUS
  <2>1. pc[p] \in {"insertList", "writeList"} /\ listText' = listText BY <1>1 DEF WriteList, catalogues
  <2>2. Shelved(p) /\ Browsing(p) /\ req[p].op = "list" /\ seen[p].list \in SUBSET Entries BY <1>p, <2>1 DEF Shelved
  <2>3. seen[p].list # None /\ ~Reloads(p, g) BY <2>1, <2>2, RequestsOfEntries DEF Reloads
  <2>4. CASE pc[p] = "insertList" /\ lists[h] # None
    <3>1. UNCHANGED <<lists, wanted>> /\ pc'[p] = "idle" BY <1>1, <2>4, Handling DEF WriteList
    <3> QED BY <1>f, <1>h, <1>i, <2>1, <2>3, <3>1, ListLeft
  <2>5. CASE ~(pc[p] = "insertList" /\ lists[h] # None)
    <3>1. /\ pc'[p] = "reload" /\ req'[p] = req[p] /\ seen'[p] = seen[p] /\ lists' = [lists EXCEPT ![h] = seen[p].list]
          /\ wanted' = [wanted EXCEPT ![h] = Changed(req[p], @)]
      BY <1>1, <2>1, <2>5, Handling DEF WriteList
    <3>2. CASE h # g
      <4>1. lists'[g] = lists[g] /\ wanted'[g] = wanted[g] BY <1>t, <3>1, <3>2 DEF DirectoryTypes
      <4> QED BY <1>f, <1>h, <1>o, <2>1, <2>3, <3>1, <4>1, ListLeft
    <3>3. CASE h = g
      <4>1. lists'[g] = seen[p].list /\ wanted'[g] = Changed(req[p], wanted[g]) BY <1>t, <3>1, <3>3 DEF DirectoryTypes
      <4>2. ASSUME <<"list", g>> \notin blurred' PROVE ListFollows(g)'
        <5>1. \A q \in Procs \ {p} : ~(pc[q] \in {"insertList", "writeList", "putList"} /\ req[q].group = g)
          BY <1>1, <2>5, <3>3, <4>2 DEF WriteList
        <5>2. OnList(p, g) BY <2>2, <3>3 DEF OnList, ListOps
        <5>3. ListFollows(g) BY <1>f, <4>2
        <5>4. seen[p].list = Changed(req[p], wanted[g]) BY <2>1, <5>2, <5>3 DEF ListFollows, ListRead
        <5>5. wanted'[g] = IF lists'[g] = None THEN {} ELSE lists'[g] BY <2>3, <4>1, <5>4
        <5>6. Reloads(p, g)' BY <2>2, <3>1, <3>3 DEF Reloads, ListOps
        <5>7. ASSUME NEW q \in Procs, OnList(q, g)' PROVE ListRead(q, g)'
          <6>1. CASE q = p BY <1>o, <3>1, <6>1
          <6>2. CASE q # p
            <7>1. pc'[q] = pc[q] /\ OnList(q, g) BY <1>h, <5>7, <6>2, OtherBrowsers
            <7> QED BY <5>1, <6>2, <7>1 DEF OnList, ListRead
          <6> QED BY <6>1, <6>2
        <5> QED BY <5>5, <5>6, <5>7 DEF ListFollows, ListRead
      <4> QED BY <2>3, <4>1, <4>2
    <3> QED BY <3>2, <3>3
  <2> QED BY <2>4, <2>5
<1>2. CASE PutList(p)
  <2> PICK h : h = req[p].group OBVIOUS
  <2>1. /\ pc[p] = "putList" /\ pc'[p] = "idle" /\ req[p].op \in ListOps /\ UNCHANGED <<lists, wanted>>
        /\ \/ <<"list", h>> \in blurred' /\ listText' = listText
           \/ listText' = [listText EXCEPT ![h] = seen[p].list]
    BY <1>2, Handling DEF PutList
  <2>2. Shelved(p) /\ Browsing(p) /\ lists[h] # None BY <1>p, <2>1 DEF Shelved
  <2>3. CASE h = g
    <3>1. ASSUME <<"list", g>> \notin blurred' PROVE listText'[g] = lists[g]
      <4>1. OnList(p, g) BY <2>1, <2>2, <2>3 DEF OnList
      <4>2. seen[p].list = lists[g] BY <1>f, <2>1, <3>1, <4>1 DEF ListFollows, ListRead
      <4> QED BY <1>t, <2>1, <2>3, <3>1, <4>2 DEF DirectoryTypes
    <3>2. ASSUME <<"list", g>> \notin blurred' PROVE ListFollows(g)'
      BY <1>f, <1>h, <1>i, <2>1, <3>1, <3>2, ListLeft
    <3> QED BY <2>1, <2>2, <2>3, <3>2
  <2>4. CASE h # g
    <3>1. listText'[g] = listText[g] BY <1>t, <2>1, <2>4 DEF DirectoryTypes
    <3>2. ~Reloads(p, g) BY <2>4 DEF Reloads
    <3> QED BY <1>f, <1>h, <1>i, <2>1, <3>1, <3>2, ListLeft
  <2> QED BY <2>3, <2>4
<1>3. CASE ~WriteList(p) /\ ~PutList(p)
  <2>1. UNCHANGED <<lists, wanted>> BY <1>3, DirectoryChanges
  <2>2. listText'[g] \in {listText[g], None}
    <3>1. CASE DeleteGroupHash(p) BY <1>t, <3>1 DEF DeleteGroupHash, DirectoryTypes
    <3> QED BY <1>3, <3>1, DirectoryChanges
  <2>3. ASSUME <<"list", g>> \notin blurred' PROVE ListFollows(g)'
    <3>1. ASSUME Reloads(p, g) PROVE Reloads(p, g)' \/ listText'[g] \in {None, lists[g]}
      <4>1. pc[p] \in {"reload", "putList"} /\ req[p].op \in ListOps /\ req[p].group = g BY <3>1 DEF Reloads
      <4>2. ReadListRow(p) \/ DirectoryFails(p)
        <5> USE DEF ListOps
        <5>1. ~(\/ onHttpAddGroup(p) \/ onHttpDeleteGroup(p) \/ onHttpAddTag(p) \/ onHttpAddSubject(p)
                \/ onHttpChangeTag(p) \/ onHttpChangeSubject(p)
                \/ onHttpQueryGroup(p) \/ onHttpQueryTag(p) \/ onHttpQuerySubject(p)
                \/ onHttpAddSubjectToGroup(p) \/ onHttpQuerySubjectForGroup(p))
          BY <4>1 DEF onHttpAddGroup, onHttpDeleteGroup, onHttpAddTag, onHttpAddSubject, onHttpChangeTag, onHttpChangeSubject,
               onHttpQueryGroup, onHttpQueryTag, onHttpQuerySubject, onHttpAddSubjectToGroup, onHttpQuerySubjectForGroup,
               Browse, Start, Idle, Busy
        <5>2. ~(CheckNames(p) \/ InsertGroup(p) \/ CommitGroup(p) \/ CountClasses(p) \/ DeleteGroupRow(p)
                \/ DeleteGroupField(p) \/ DeleteGroupHash(p) \/ CommitDelete(p))
          BY <4>1 DEF CheckNames, InsertGroup, CommitGroup, CountClasses, DeleteGroupRow, DeleteGroupField, DeleteGroupHash,
               CommitDelete
        <5>3. ~(InsertRow(p) \/ UpdateRow(p) \/ SetEntry(p) \/ ReadHash(p) \/ PutText(p) \/ QueryHit(p) \/ QueryRows(p)
                \/ SetRow(p) \/ ReadList(p) \/ GetSubjectList(p))
          BY <4>1 DEF InsertRow, UpdateRow, SetEntry, ReadHash, PutText, QueryHit, QueryRows, SetRow, ReadList, GetSubjectList
        <5> QED BY <1>3, <5>1, <5>2, <5>3 DEF DirectoryStep
      <4>3. CASE DirectoryFails(p) BY <2>3, <4>1, <4>3 DEF DirectoryFails
      <4>4. CASE ReadListRow(p)
        <5>1. CASE lists[g] = None BY <1>f, <2>2, <5>1
        <5>2. CASE lists[g] # None
          <6>1. pc'[p] = "putList" /\ req'[p] = req[p] BY <4>1, <4>4, <5>2, Handling DEF ReadListRow, Keep
          <6> QED BY <4>1, <6>1 DEF Reloads
        <5> QED BY <5>1, <5>2
      <4> QED BY <4>2, <4>3, <4>4
    <3>2. OnList(p, g)' => ListRead(p, g)'
      <4>1. CASE ReadList(p)
        <5> PICK r : r = req[p] OBVIOUS
        <5> PICK l : l = lists[r.group] OBVIOUS
        <5> PICK m : m = Changed(r, IF l = None THEN {} ELSE l) OBVIOUS
        <5> PICK s : s = [Unread EXCEPT !.list = m] OBVIOUS
        <5>1. s.list = m BY DEF Unread
        <5>2. CASE pc'[p] = "idle" BY <1>i, <5>2
        <5>3. CASE pc'[p] # "idle"
          <6>1. With(p, IF l = None THEN "insertList" ELSE "writeList", s) BY <4>1, <5>3, Handling DEF ReadList
          <6>2. pc'[p] = (IF l = None THEN "insertList" ELSE "writeList") /\ req'[p] = r /\ seen'[p] = s BY <6>1, Handling
          <6>3. ASSUME r.group = g PROVE ListRead(p, g)'
            <7>1. l = lists'[g] BY <2>1, <6>3
            <7>2. CASE l = None BY <5>1, <6>2, <7>1, <7>2 DEF ListRead
            <7>3. CASE l # None BY <5>1, <6>2, <7>1, <7>3 DEF ListRead
            <7> QED BY <7>2, <7>3
          <6> QED BY <6>2, <6>3 DEF OnList
        <5> QED BY <5>2, <5>3
      <4>2. CASE ReadListRow(p)
        <5> PICK l : l = lists[req[p].group] OBVIOUS
        <5>1. CASE pc'[p] = "idle" BY <1>i, <5>1
        <5>2. CASE pc'[p] # "idle"
          <6>1. Keep(p, "putList", "list", l) /\ pc[p] = "reload" BY <4>2, <5>2, Handling DEF ReadListRow
          <6>2. Filled(seen[p]) /\ "list" \in Slots BY <1>p, <6>1 DEF Shelved, Slots
          <6>3. pc'[p] = "putList" /\ req'[p] = req[p] /\ seen'[p].list = l BY <6>1, <6>2, Keeps
          <6> QED BY <2>1, <6>3 DEF OnList, ListRead
        <5> QED BY <5>1, <5>2
      <4>3. CASE ~ReadList(p) /\ ~ReadListRow(p)
        <5>1. pc'[p] \notin {"insertList", "writeList", "putList"}
          <6> USE Handling
          <6>1. CASE \/ onHttpAddGroup(p) \/ onHttpDeleteGroup(p) \/ onHttpAddTag(p) \/ onHttpAddSubject(p)
                     \/ onHttpChangeTag(p) \/ onHttpChangeSubject(p)
                     \/ onHttpQueryGroup(p) \/ onHttpQueryTag(p) \/ onHttpQuerySubject(p)
                     \/ onHttpAddSubjectToGroup(p) \/ onHttpQuerySubjectForGroup(p)
            BY <6>1 DEF onHttpAddGroup, onHttpDeleteGroup, onHttpAddTag, onHttpAddSubject, onHttpChangeTag, onHttpChangeSubject,
                 onHttpQueryGroup, onHttpQueryTag, onHttpQuerySubject, onHttpAddSubjectToGroup, onHttpQuerySubjectForGroup, Browse
          <6>2. CASE CheckNames(p) \/ InsertGroup(p) \/ CommitGroup(p) \/ CountClasses(p) \/ DeleteGroupRow(p)
                     \/ DeleteGroupField(p) \/ DeleteGroupHash(p) \/ CommitDelete(p)
            BY <6>2 DEF CheckNames, InsertGroup, CommitGroup, CountClasses, DeleteGroupRow, DeleteGroupField, DeleteGroupHash,
                 CommitDelete, Keep
          <6>3. CASE InsertRow(p) \/ UpdateRow(p) \/ ReadHash(p) \/ PutText(p) \/ QueryHit(p) \/ DirectoryFails(p)
            BY <6>3 DEF InsertRow, UpdateRow, ReadHash, PutText, QueryHit, DirectoryFails, Keep
          <6>5. CASE QueryRows(p)
            <7>1. \E l \in {"putText", "fields"} : Goto(p, l) BY <6>5 DEF QueryRows, Keep, With
            <7> QED BY <7>1 DEF Goto, Locals
          <6>6. CASE SetRow(p)
            <7>1. \E l \in {"putText", "fields", "idle"} : Goto(p, l) BY <6>6 DEF SetRow, Keep, With, On, Return
            <7> QED BY <7>1 DEF Goto, Locals
          <6>7. CASE GetSubjectList(p) BY <6>7 DEF GetSubjectList
          <6>4. CASE SetEntry(p)
            <7>1. CatalogueOf(p) \in Catalogues BY <6>4, Catalogued DEF SetEntry, Writers
            <7>2. On(p, "commit") \/ On(p, "text") \/ Return(p)
              <8> HIDE Handling
              <8> QED BY <6>4, <7>1 DEF SetEntry, Catalogues
            <7> QED BY <7>2
          <6> QED BY <1>3, <4>3, <6>1, <6>2, <6>3, <6>4, <6>5, <6>6, <6>7 DEF DirectoryStep
        <5> QED BY <1>o, <5>1
      <4> QED BY <4>1, <4>2, <4>3
    <3> QED BY <1>f, <1>h, <2>1, <2>2, <2>3, <3>1, <3>2, ListLeft
  <2> QED BY <1>f, <2>1, <2>2, <2>3
<1> QED BY <1>1, <1>2, <1>3

\* Steps of the others.
LEMMA DirectoryRests ==
  ASSUME Locals, DirectoryInv, UNCHANGED <<directory, scene>>, Rests(DirectoryOps)
  PROVE  DirectoryInv'
<1>0. UNCHANGED <<rows, hash, text, given, lists, listText, wanted, blurred, scene>> BY DEF directory, catalogues, groupLists
<1>1. \A q \in Procs : /\ Browsing(q)' <=> Browsing(q)
                       /\ Browsing(q) => pc'[q] = pc[q] /\ req'[q] = req[q] /\ seen'[q] = seen[q]
  BY DEF Rests, Browsing
<1>2. \A q \in Procs : Browsing(q) => CatalogueOf(q)' = CatalogueOf(q) /\ EntryOf(q)' = EntryOf(q)
  BY <1>1 DEF CatalogueOf, EntryOf
<1>3. ASSUME NEW q \in Procs
      PROVE  /\ InTransaction(q)' <=> InTransaction(q)
             /\ InTransaction(q) => Browsing(q)
             /\ \A k, i : (Halves(q, k, i)' <=> Halves(q, k, i)) /\ (Halves(q, k, i) => Browsing(q))
             /\ \A k : Renews(q, k)' <=> Renews(q, k)
             /\ \A g : (Reloads(q, g)' <=> Reloads(q, g)) /\ (OnList(q, g)' <=> OnList(q, g)) /\ (OnList(q, g) => Browsing(q))
             /\ \A l, k : (Browses(q, DirectoryOps, {l}, k)' <=> Browses(q, DirectoryOps, {l}, k))
                          /\ (Browses(q, DirectoryOps, {l}, k) => Browsing(q))
  <2>1. InTransaction(q) => Browsing(q)
    BY DEF InTransaction, Browsing, Active, Busy, DirectoryOps, Writers, Adds
  <2>2. \A k : Renews(q, k) => Browsing(q) BY DEF Renews, Browsing, Active, Busy, DirectoryOps
  <2>3. \A g : Reloads(q, g) => Browsing(q) BY DEF Reloads, Browsing, Active, Busy, DirectoryOps
  <2>4. InTransaction(q)' => Browsing(q)'
    BY DEF InTransaction, Browsing, Active, Busy, DirectoryOps, Writers, Adds
  <2>5. \A k : Renews(q, k)' => Browsing(q)' BY DEF Renews, Browsing, Active, Busy, DirectoryOps
  <2>6. \A g : Reloads(q, g)' => Browsing(q)' BY DEF Reloads, Browsing, Active, Busy, DirectoryOps
  <2>7. InTransaction(q)' <=> InTransaction(q) BY <1>1, <2>1, <2>4 DEF InTransaction, Busy
  <2>8. \A k : Renews(q, k)' <=> Renews(q, k) BY <1>1, <1>2, <2>2, <2>5 DEF Renews
  <2>9. \A g : Reloads(q, g)' <=> Reloads(q, g) BY <1>1, <2>3, <2>6 DEF Reloads
  <2>10. \A k, i : (Halves(q, k, i)' <=> Halves(q, k, i)) /\ (Halves(q, k, i) => Browsing(q)) BY <1>1, <1>2 DEF Halves
  <2>11. \A g : (OnList(q, g)' <=> OnList(q, g)) /\ (OnList(q, g) => Browsing(q)) BY <1>1 DEF OnList
  <2>12. \A l, k : (Browses(q, DirectoryOps, {l}, k)' <=> Browses(q, DirectoryOps, {l}, k))
                   /\ (Browses(q, DirectoryOps, {l}, k) => Browsing(q))
    BY <1>1, <1>2 DEF Browses
  <2> QED BY <2>1, <2>7, <2>8, <2>9, <2>10, <2>11, <2>12
<1>4. DirectoryTypes' BY <1>0 DEF DirectoryInv, DirectoryTypes, Shelves, Titled
<1>5. ASSUME NEW q \in Procs, Browsing(q)' PROVE Shelved(q)'
  <2>1. RowsRemain BY <1>0 DEF RowsRemain
  <2> QED BY <1>0, <1>1, <1>5, <2>1, ShelvedRemains DEF DirectoryInv
<1>6. GroupsAreLocked'
  <2>1. GroupsAreLocked BY DEF DirectoryInv
  <2> QED BY <1>0, <1>1, <1>3, <2>1 DEF GroupsAreLocked
<1>7. \A q \in Procs : \A k, i : Halves(q, k, i) => (Due(q, k, i)' <=> Due(q, k, i)) BY <1>0, <1>1, <1>3 DEF Due
<1>8. GroupsPrepared' BY <1>3, <1>7 DEF DirectoryInv, GroupsPrepared
<1>9. \A k \in Catalogues, i \in Entries : <<k, i>> \notin blurred' => EntryAgrees(k, i)'
  BY <1>0, <1>3, <1>7 DEF DirectoryInv, EntryAgrees
<1>10. \A k, i : Differs(k, i)' <=> Differs(k, i) BY <1>1, <1>3 DEF Differs, Enacting
<1>11. ASSUME NEW k \in {"group", "tag"}, <<k, 0>> \notin blurred' PROVE TextFollows(k)'
  <2>1. TextFollows(k) BY <1>0, <1>11 DEF DirectoryInv
  <2>2. \A i \in Entries : FieldFollows(k, i)' BY <1>0, <1>10, <2>1 DEF TextFollows, FieldFollows
  <2>3. (text[k] # None /\ \A p \in Procs : ~Renews(p, k))' => text'[k] = hash'[k] BY <1>0, <1>3, <2>1 DEF TextFollows
  <2>4. ASSUME NEW q \in Procs, Browses(q, DirectoryOps, {"putText"}, k)', NEW i \in Entries
        PROVE  seen'[q].names[i] = hash'[k][i] \/ Differs(k, i)'
    BY <1>0, <1>1, <1>3, <1>10, <2>1, <2>4 DEF TextFollows
  <2>5. ASSUME NEW q \in Procs, Browses(q, DirectoryOps, {"fields"}, k)', NEW i \in Entries \ seen'[q].left
        PROVE  seen'[q].names[i] = hash'[k][i]
    BY <1>0, <1>1, <1>3, <2>1, <2>5, ZenonT(40) DEF TextFollows
  <2>6. ASSUME k = "tag", NEW q \in Procs, Browses(q, DirectoryOps, {"field"}, k)', EntryOf(q)' \in Entries
        PROVE  rows'[k][EntryOf(q)'] # None
    BY <1>0, <1>2, <1>3, <2>1, <2>6 DEF TextFollows
  <2> QED BY <2>2, <2>3, <2>4, <2>5, <2>6 DEF TextFollows
<1>12. ASSUME NEW g \in Entries, <<"list", g>> \notin blurred' PROVE ListFollows(g)'
  <2>1. ListFollows(g) BY <1>0, <1>12 DEF DirectoryInv
  <2>2. ASSUME NEW q \in Procs, OnList(q, g)' PROVE ListRead(q, g)'
    <3>1. OnList(q, g) /\ pc'[q] = pc[q] /\ req'[q] = req[q] /\ seen'[q] = seen[q] BY <1>1, <1>3, <2>2
    <3>2. ListRead(q, g) BY <2>1, <3>1 DEF ListFollows, ListRead
    <3> QED BY <1>0, <3>1, <3>2 DEF ListRead, Changed
  <2> QED BY <1>0, <1>3, <2>1, <2>2 DEF ListFollows, ListRead
<1>13. \A g \in Entries : lists'[g] = None => listText'[g] = None BY <1>0 DEF DirectoryInv
<1> QED BY <1>4, <1>5, <1>6, <1>8, <1>9, <1>11, <1>12, <1>13 DEF DirectoryInv

LEMMA CataloguesDoAgree == ASSUME DirectoryInv PROVE CataloguesAgree
<1>1. ASSUME NEW k \in Catalogues, NEW i \in Entries, <<k, i>> \notin blurred, \A p \in Procs : <<k, i>> \notin Half(p)
      PROVE  hash[k][i] = rows[k][i]
  <2>1. EntryAgrees(k, i) BY <1>1 DEF DirectoryInv
  <2>2. \A p \in Procs : ~Halves(p, k, i) BY <1>1, HalfOf DEF DirectoryInv
  <2> QED BY <2>1, <2>2 DEF EntryAgrees
<1>2. ASSUME NEW k \in Catalogues, <<k, 0>> \notin blurred, text[k] # None, \A p \in Procs : ~Renews(p, k)
      PROVE  text[k] = hash[k]
  <2>1. k \in {"group", "tag"} BY <1>2 DEF DirectoryInv, DirectoryTypes, Catalogues
  <2> QED BY <1>2, <2>1 DEF DirectoryInv, TextFollows
<1>3. ASSUME NEW g \in Entries, <<"list", g>> \notin blurred
      PROVE  /\ IF lists[g] = None THEN wanted[g] = {} ELSE wanted[g] = lists[g]
             /\ (listText[g] # None /\ \A p \in Procs : ~Reloads(p, g)) => listText[g] = lists[g]
  BY <1>3 DEF DirectoryInv, ListFollows
<1>4. \A i, j \in Entries : rows["group"][i] # None /\ rows["group"][i] = rows["group"][j] => i = j
  BY DEF DirectoryInv, GroupsAreLocked
<1> QED BY <1>1, <1>2, <1>3, <1>4 DEF CataloguesAgree

\* The copies of groups, tags and subjects agree, with each other and with what was asked
\* for, but where the request handlers, or a failure halfway, met on an entry; and no two
\* groups have one name, however the caches are.
THEOREM CataloguesStayTrue == Spec => []CataloguesAgree
<1>1. Init => Locals /\ DirectoryInv
  <2> SUFFICES ASSUME Init PROVE DirectoryInv BY LocalsInit
  <2>1. /\ rows = [k \in Catalogues |-> FirstEntry(k)] /\ hash = rows /\ text = [k \in Catalogues |-> None]
        /\ lists = [g \in Entries |-> None] /\ listText = [g \in Entries |-> None] /\ wanted = [g \in Entries |-> {}]
        /\ \A p \in Procs : pc[p] = "idle"
    BY DEF Init, DirectoryInit, HandlersInit
  <2>2. \A p \in Procs : /\ ~Browsing(p) /\ ~InTransaction(p) /\ \A k, i : ~Halves(p, k, i)
                         /\ \A k, l : ~Browses(p, DirectoryOps, {l}, k)
                         /\ \A g : ~OnList(p, g)
    BY <2>1 DEF Browsing, Active, Busy, InTransaction, Halves, Browses, OnList
  <2>3. DirectoryTypes
    <3>1. \A k \in Catalogues : Titled(FirstEntry(k)) BY DEF Titled, FirstEntry
    <3>2. Shelves(rows) BY <2>1, <3>1 DEF Shelves
    <3>3. rows["subject"][1] # None /\ text["subject"] = None BY <2>1, RequestsOfEntries DEF Catalogues, FirstEntry
    <3> QED BY <2>1, <3>2, <3>3 DEF DirectoryTypes
  <2>4. GroupsAreLocked
    <3>1. \A i \in Entries : rows["group"][i] = IF i = 1 THEN "old" ELSE None BY <2>1 DEF Catalogues, FirstEntry
    <3> QED BY <2>2, <3>1 DEF GroupsAreLocked
  <2>5. GroupsPrepared /\ \A k, i : EntryAgrees(k, i) BY <2>1, <2>2 DEF GroupsPrepared, EntryAgrees
  <2>6. ASSUME NEW k \in {"group", "tag"} PROVE TextFollows(k)
    <3>1. text[k] = None BY <2>1 DEF Catalogues
    <3>2. \A i \in Entries : FieldFollows(k, i) BY <2>1 DEF FieldFollows
    <3> QED BY <2>2, <3>1, <3>2 DEF TextFollows
  <2>7. \A g \in Entries : ListFollows(g) /\ (lists[g] = None => listText[g] = None) BY <2>1, <2>2 DEF ListFollows
  <2> QED BY <2>2, <2>3, <2>4, <2>5, <2>6, <2>7 DEF DirectoryInv
<1>2. Locals /\ DirectoryInv /\ [Next]_vars => (Locals /\ DirectoryInv)'
  <2> SUFFICES ASSUME Locals, DirectoryInv, [Next]_vars PROVE Locals' /\ DirectoryInv' OBVIOUS
  <2>1. Locals' /\ scene' = scene BY Frame
  <2>2. CASE UNCHANGED directory /\ Rests(DirectoryOps) BY <2>1, <2>2, DirectoryRests
  <2>3. CASE \E p \in Procs : May(p, DirectoryOps) /\ DirectoryStep(p) /\ Stays(p, DirectoryOps)
    <3> PICK p \in Procs : May(p, DirectoryOps) /\ DirectoryStep(p) /\ Stays(p, DirectoryOps) BY <2>3
    <3>1. DirectoryTypes' /\ RowsRemain BY DirectoryTyped
    <3>2. GroupsAreLocked' BY LocksStay
    <3>3. GroupsPrepared' BY GroupsStayPrepared
    <3>4. \A k \in Catalogues, i \in Entries : <<k, i>> \notin blurred' => EntryAgrees(k, i)' BY EntriesAgree
    <3>5. \A k \in {"group", "tag"} : <<k, 0>> \notin blurred' => TextFollows(k)' BY <2>1, CatalogueTextsFollow
    <3>6. \A g \in Entries : (<<"list", g>> \notin blurred' => ListFollows(g)') /\ (lists'[g] = None => listText'[g] = None)
      BY ListsAgree
    <3>7. ASSUME NEW q \in Procs, Browsing(q)' PROVE Shelved(q)'
      <4>1. CASE q = p BY <2>1, <3>7, <4>1, BrowserMoves
      <4>2. CASE q # p
        <5>1. pc'[q] = pc[q] /\ req'[q] = req[q] /\ seen'[q] = seen[q] /\ Browsing(q)
          BY <3>7, <4>2, OtherBrowsers DEF Stays
        <5> QED BY <2>1, <3>1, <5>1, ShelvedRemains DEF DirectoryInv
      <4> QED BY <4>1, <4>2
    <3> QED BY <2>1, <3>1, <3>2, <3>3, <3>4, <3>5, <3>6, <3>7 DEF DirectoryInv
  <2> QED BY <2>2, <2>3, Frame
<1>3. DirectoryInv => CataloguesAgree BY CataloguesDoAgree
<1> QED BY <1>1, <1>2, <1>3, PTL DEF Spec
=============================================================================
