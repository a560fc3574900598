--------------------------- MODULE Accounts_proofs ---------------------------
(***************************************************************************)
(* Theorems about the users, the sessions and the visitors of the back     *)
(* office.                                                                 *)
(***************************************************************************)
EXTENDS BackOffice_proofs

(***************************************************************************)
(* Users and visitors: what the variables of both parts hold, and what a   *)
(* handler carries at each of its steps.                                   *)
(***************************************************************************)

Person(p) == Active(p, UserOps \union Visits)

Carries(p) == seen[p] = [user |-> seen[p].user, token |-> seen[p].token, new |-> seen[p].new,
                         group |-> seen[p].group, nick |-> seen[p].nick, info |-> seen[p].info]

\* A visitor without an id, and one whose phone number is not in his session yet.
Unnumbered == {"offer", "drop", "take", "phone", "incr"}
Unbuilt    == Unnumbered \union {"setPhone", "build"}

Briefed(p) ==
  /\ Carries(p)
  /\ req[p].op \in Sessioned =>
       /\ seen[p].user \in Live \union Guests /\ seen[p].token \in Tokens
       /\ pc[p] # "check" => session[seen[p].user] # None
  /\ req[p].op \in Logins =>
       /\ pc[p] \in {"login", "hash", "gd", "student", "fill", "session", "answer"}
       /\ pc[p] \in {"hash", "session", "answer"} => seen[p].user \in Live
       /\ pc[p] = "session" => seen[p].nick \in AnyNick /\ (req[p].op = "login" => seen[p].group \in Groups)
  /\ req[p].op \in Visits =>
       /\ pc[p] \in Unbuilt \union {"authorize", "exists", "logFirst", "logNext", "authority", "stamp",
                                    "count", "session", "answer"}
       /\ pc[p] \notin Unnumbered => seen[p].user \in Guests
       /\ pc[p] \notin Unbuilt => seen[p].nick \in Phones
  /\ pc[p] = "answer" => req[p].op \notin Open /\ seen[p].token \in Tokens
  /\ pc[p] = "fill" => seen[p].new \in Live /\ seen[p].nick \in AnyNick
  /\ pc[p] \in {"addIndex", "addHash", "index", "newHash"} => seen[p].new \in Live
  /\ req[p].op \in Enrols /\ pc[p] \in {"remark", "remarked"} => seen[p].new \in Live
  /\ req[p].op = "register" /\ pc[p] \in {"use", "insert"} => seen[p].group \in Groups
  /\ req[p].op \in Renames /\ pc[p] \in {"remark", "remarked"} => req[p].nick \in Nicknames

HashData(h) ==
  /\ h = [u \in Users |-> [f \in Fields |-> h[u][f]]]
  /\ \A u \in Users : h[u].nick \in AnyNick \union {None} /\ h[u].group \in Groups \union {None}

FrontData ==
  /\ users \in [Users -> UserRow \union {None}] /\ HashData(userHash)
  /\ nameIndex \in [Names -> Live \union {None}] /\ studentIndex \in [Students -> Live \union {None}]
  /\ invitations \in [Invitations -> Groups \union {None}]
  /\ session \in [Users \union Guests -> SessionInfo \union {None}]
  /\ held \in [Clients -> [user : Live \union Guests, token : Tokens] \union {None}]

FrontReqs  == \A p \in Procs : Active(p, FrontOps) => req[p] \in Calls
FrontTypes == FrontData /\ FrontReqs /\ \A p \in Procs : Person(p) => Briefed(p)

\* What a request has.
Requested(r) ==
  /\ r.op \in Logins \union Visits \union Sessioned => r.client \in Clients
  /\ r.op \in {"login", "loginGd", "register"}     => r.name \in Names
  /\ r.op \in {"pass", "loginGd", "enrol", "enrolLan"} => r.student \in Students
  /\ r.op = "register" => r.pwd \in Passwords /\ r.invite \in Invitations
  /\ r.op = "password" => r.pwd \in Passwords /\ r.old # None
  /\ r.op \in {"profile", "rename", "resync"} => r.nick \in Nicknames
  /\ r.op \in {"enrol", "enrolLan"} => r.nick \in Nicknames \union {None}
  /\ r.op \in {"rename", "resync"}  => r.user \in Users
  /\ r.op = "invite" => r.group \in Groups
  /\ r.op \in Visits => r.phone \in Phones
  /\ r.op = "try"    => /\ r.teacher \in Teachers \union {None}
                        /\ r.token \in Coupons \union {None}
                        /\ r.teacher = None => r.token \in Coupons
  /\ r.op = "generate" => r.key \in Keys

LEMMA AllRequested == ASSUME Locals PROVE \A r \in Calls : Requested(r)
BY RequestsOfUsers, RequestsOfVisitors DEF Locals, Calls, Requested

LEMMA Asked == ASSUME Locals, FrontReqs, NEW p \in Procs, Active(p, FrontOps) PROVE Requested(req[p])
BY AllRequested DEF FrontReqs

LEMMA FrontKinds ==
  /\ UserOps \union Visits \subseteq FrontOps /\ Enrols \subseteq UserOps /\ Renames \subseteq UserOps
  /\ Logins \subseteq UserOps /\ Sessioned \subseteq UserOps /\ Open \subseteq UserOps
  /\ UserOps \cap Visits = {} /\ Logins \cap Sessioned = {} /\ Open \cap Sessioned = {} /\ Logins \cap Open = {}
BY DEF FrontOps, UserOps, Visits, Enrols, Renames, Logins, Sessioned, Open

LEMMA FieldsOfHash ==
  \A a, b, c, d : [pwd |-> a, nick |-> b, group |-> c, student |-> d] =
    [f \in Fields |-> [pwd |-> a, nick |-> b, group |-> c, student |-> d][f]]
BY DEF Fields

\* Rows and sessions may change, and do not go.
UsersStay ==
  /\ \A u \in Live : u \in Live'
  /\ \A u \in Users \union Guests : session[u] # None => session'[u] # None

\* The steps of Accounts by what they change.
Arrives(p) ==
  \/ onHttpRegister(p) \/ onHttpLogin(p) \/ onHttpLoginAsGdUser(p) \/ onHttpLoginAsGdStudent(p)
  \/ onHttpChangePassword(p) \/ onHttpChangeProfile(p) \/ onHttpResyncGdStudentName(p)
  \/ onHttpGenerateInvitationToken(p) \/ onHttpDeleteInvitationToken(p)
  \/ onHttpClassAddGdStudent(p) \/ onHttpClassRemarkStudent(p) \/ OtherHandler(p)
Looks(p) ==
  \/ GetHttpSession(p) \/ LoginIndex(p) \/ LoginHash(p) \/ LoginGd(p) \/ StudentHit(p) \/ StudentRow(p) \/ CheckMember(p)
  \/ CheckOldPassword(p)
Holds(p) == UpdateHttpSession(p) \/ SetHttpSession(p) \/ Answer(p) \/ LoseAnswer(p) \/ UpdateSessionNickname(p)
Records(p) ==
  \/ StudentFill(p) \/ StudentNone(p) \/ AddStudent(p) \/ AddStudentIndex(p) \/ AddStudentHash(p)
  \/ GenerateInvitationToken(p) \/ DeleteInvitationToken(p)
  \/ CheckName(p) \/ GetInvitation(p) \/ UseInvitationToken(p)
  \/ AddUser(p) \/ AddUserIndex(p) \/ AddUserHash(p)
  \/ ChangePasswordCache(p) \/ ChangePasswordRow(p) \/ ChangeProfileCache(p) \/ ChangeProfileRow(p)
  \/ QueryGdStudentID(p) \/ RemarkRow(p) \/ RemarkHash(p) \/ AccountFails(p)

LEMMA AccountsSteps == ASSUME NEW p, AccountsStep(p) PROVE Arrives(p) \/ Looks(p) \/ Holds(p) \/ Records(p)
BY Zenon DEF AccountsStep, Arrives, Looks, Holds, Records

\* A request has come, with a session or without.
Came(p) ==
  /\ Handled(p) /\ pc[p] = "idle" /\ req'[p] \in Calls
  /\ \/ /\ pc'[p] = "check" /\ req'[p].op \in Sessioned
        /\ held[req'[p].client] # None
        /\ seen'[p] = [Nobody EXCEPT !.user = held[req'[p].client].user, !.token = held[req'[p].client].token]
     \/ /\ seen'[p] = Nobody
        /\ <<req'[p].op, pc'[p]>> \in
             {<<"register", "name">>, <<"login", "login">>, <<"loginGd", "login">>, <<"pass", "student">>, <<"enrolLan", "student">>}

LEMMA SentWith ==
  ASSUME Locals, NEW p \in Procs, NEW ops \in SUBSET Sessioned, Send(p, ops)
  PROVE  Came(p) /\ UNCHANGED accounts
<1> PICK r \in Calls :
      /\ r.op \in ops /\ held[r.client] # None
      /\ req' = [req EXCEPT ![p] = r]
      /\ seen' = [seen EXCEPT ![p] =
                    [Nobody EXCEPT !.user = held[r.client].user, !.token = held[r.client].token]]
  BY DEF Send
<1>1. pc' = [pc EXCEPT ![p] = "check"] /\ pc[p] = "idle" BY DEF Send, Goto, Idle, Busy
<1> HIDE DEF Nobody
<1>2. req'[p] = r BY DEF Locals
<1>3. seen'[p] = [Nobody EXCEPT !.user = held[r.client].user, !.token = held[r.client].token] BY DEF Locals
<1>4. pc'[p] = "check" BY <1>1 DEF Locals
<1>5. r.op \in Sessioned OBVIOUS
<1>6. UNCHANGED accounts BY DEF Send
<1> QED BY <1>1, <1>2, <1>3, <1>4, <1>5, <1>6, Sending DEF Came

LEMMA Arriving ==
  ASSUME Locals, NEW p \in Procs, Arrives(p)
  PROVE  Came(p) /\ UNCHANGED accounts
<1>1. ASSUME NEW op, NEW l, Come(p, op, l) PROVE /\ Handled(p) /\ pc[p] = "idle" /\ pc'[p] = l /\ seen'[p] = Nobody
                                                /\ req'[p] \in Calls /\ req'[p].op = op /\ UNCHANGED accounts
  BY <1>1, Handling DEF Come
<1>2. CASE onHttpRegister(p) BY <1>1, <1>2 DEF onHttpRegister, Came
<1>3. CASE onHttpLogin(p) BY <1>1, <1>3 DEF onHttpLogin, Came
<1>4. CASE onHttpLoginAsGdUser(p) BY <1>1, <1>4 DEF onHttpLoginAsGdUser, Came
<1>5. CASE onHttpLoginAsGdStudent(p) BY <1>1, <1>5 DEF onHttpLoginAsGdStudent, Came
<1>6. CASE \E ops \in SUBSET Sessioned : Send(p, ops) BY <1>6, SentWith
<1>7. CASE onHttpClassAddGdStudent(p) /\ Come(p, "enrolLan", "student") BY <1>1, <1>7 DEF Came
<1>8. CASE onHttpClassAddGdStudent(p) /\ Send(p, {"enrol"}) BY <1>6, <1>8 DEF Sessioned
<1>9. CASE onHttpChangePassword(p) BY <1>6, <1>9 DEF Sessioned, onHttpChangePassword
<1>10. CASE onHttpChangeProfile(p) BY <1>6, <1>10 DEF Sessioned, onHttpChangeProfile
<1>11. CASE onHttpResyncGdStudentName(p) BY <1>6, <1>11 DEF Sessioned, onHttpResyncGdStudentName
<1>12. CASE onHttpGenerateInvitationToken(p) BY <1>6, <1>12 DEF Sessioned, onHttpGenerateInvitationToken
<1>13. CASE onHttpDeleteInvitationToken(p) BY <1>6, <1>13 DEF Sessioned, onHttpDeleteInvitationToken
<1>14. CASE onHttpClassRemarkStudent(p) BY <1>6, <1>14 DEF Sessioned, onHttpClassRemarkStudent
<1>15. CASE OtherHandler(p) BY <1>6, <1>15 DEF Sessioned, OtherHandler
<1>16. onHttpClassAddGdStudent(p) => Send(p, {"enrol"}) \/ Come(p, "enrolLan", "student") BY DEF onHttpClassAddGdStudent
<1> QED BY <1>2, <1>3, <1>4, <1>5, <1>7, <1>8, <1>9, <1>10, <1>11, <1>12, <1>13, <1>14, <1>15, <1>16, Zenon DEF Arrives

\* p goes on with its request, or ends.
GoesOn(p) == Busy(p) /\ Handled(p) /\ (pc'[p] = "idle" \/ req'[p] = req[p])

LEMMA AccountsGoOn == ASSUME Locals, NEW p \in Procs, Looks(p) \/ Holds(p) \/ Records(p) PROVE GoesOn(p)
<1> USE Handling DEF GoesOn, Busy, At
<1>1. CASE GetHttpSession(p) BY <1>1 DEF GetHttpSession
<1>2. CASE LoginIndex(p) BY <1>2 DEF LoginIndex
<1>3. CASE LoginHash(p) BY <1>3 DEF LoginHash
<1>4. CASE LoginGd(p) BY <1>4 DEF LoginGd
<1>5. CASE StudentHit(p) BY <1>5 DEF StudentHit, Found, Finish
<1>6. CASE StudentRow(p) BY <1>6 DEF StudentRow
<1>7. CASE CheckMember(p) BY <1>7 DEF CheckMember
<1>8. CASE CheckOldPassword(p) BY <1>8 DEF CheckOldPassword
<1>9. CASE UpdateHttpSession(p) BY <1>9 DEF UpdateHttpSession
<1>10. CASE SetHttpSession(p) BY <1>10 DEF SetHttpSession
<1>11. CASE Answer(p) BY <1>11 DEF Answer
<1>12. CASE LoseAnswer(p) BY <1>12 DEF LoseAnswer
<1>13. CASE UpdateSessionNickname(p) BY <1>13 DEF UpdateSessionNickname
<1>14. CASE StudentFill(p) BY <1>14 DEF StudentFill, Found, Finish
<1>15. CASE StudentNone(p) BY <1>15 DEF StudentNone
<1>16. CASE AddStudent(p) BY <1>16 DEF AddStudent
<1>17. CASE AddStudentIndex(p) BY <1>17 DEF AddStudentIndex
<1>18. CASE AddStudentHash(p) BY <1>18 DEF AddStudentHash, Found, Finish
<1>19. CASE GenerateInvitationToken(p) BY <1>19 DEF GenerateInvitationToken
<1>20. CASE DeleteInvitationToken(p) BY <1>20 DEF DeleteInvitationToken
<1>21. CASE CheckName(p) BY <1>21 DEF CheckName
<1>22. CASE GetInvitation(p) BY <1>22 DEF GetInvitation
<1>23. CASE UseInvitationToken(p) BY <1>23 DEF UseInvitationToken
<1>24. CASE AddUser(p) BY <1>24 DEF AddUser
<1>25. CASE AddUserIndex(p) BY <1>25 DEF AddUserIndex
<1>26. CASE AddUserHash(p) BY <1>26 DEF AddUserHash
<1>27. CASE ChangePasswordCache(p) BY <1>27 DEF ChangePasswordCache
<1>28. CASE ChangePasswordRow(p) BY <1>28 DEF ChangePasswordRow
<1>29. CASE ChangeProfileCache(p) BY <1>29 DEF ChangeProfileCache
<1>30. CASE ChangeProfileRow(p) BY <1>30 DEF ChangeProfileRow
<1>31. CASE QueryGdStudentID(p) BY <1>31 DEF QueryGdStudentID
<1>32. CASE RemarkRow(p) BY <1>32 DEF RemarkRow
<1>33. CASE RemarkHash(p) BY <1>33 DEF RemarkHash, Finish
<1>34. CASE AccountFails(p)
  <2>1. Busy(p) BY <1>34 DEF AccountFails
  <2>2. With(p, "gd", Nobody) \/ On(p, "answer") \/ Return(p) BY <1>34, Zenon DEF AccountFails
  <2> QED BY <2>1, <2>2
<1> QED BY <1>1, <1>2, <1>3, <1>4, <1>5, <1>6, <1>7, <1>8, <1>9, <1>10, <1>11, <1>12, <1>13, <1>14, <1>15, <1>16, <1>17, <1>18, <1>19, <1>20, <1>21, <1>22, <1>23, <1>24, <1>25, <1>26, <1>27, <1>28, <1>29, <1>30, <1>31, <1>32, <1>33, <1>34 DEF Looks, Holds, Records

\* A handler but the one that moves.
LEMMA OthersBriefed ==
  ASSUME NEW p \in Procs, Handled(p), UsersStay, NEW q \in Procs \ {p}, Person(q) => Briefed(q)
  PROVE  Person(q)' => Briefed(q)'
<1>1. pc'[q] = pc[q] /\ req'[q] = req[q] /\ seen'[q] = seen[q] BY DEF Handled
<1>2. /\ \A u \in Live : u \in Live' /\ u \in Users
      /\ \A u \in Users \union Guests : session[u] # None => session'[u] # None
  BY DEF UsersStay, Live
<1>3. Person(q)' <=> Person(q) BY <1>1 DEF Person, Active, Busy
<1> HIDE DEF Live
<1> QED BY <1>1, <1>2, <1>3 DEF Briefed, Carries

LEMMA TypesFrom ==
  ASSUME Locals, FrontTypes, scene' = scene, NEW p \in Procs, Handled(p), UsersStay, FrontData',
         Person(p)' => Briefed(p)', Active(p, FrontOps)' => req'[p] \in Calls
  PROVE  FrontTypes'
<1>1. \A q \in Procs : Person(q)' => Briefed(q)' BY OthersBriefed DEF FrontTypes
<1>2. ASSUME NEW q \in Procs, Active(q, FrontOps)' PROVE req'[q] \in Calls'
  <2>1. Calls' = Calls BY DEF Calls
  <2>2. CASE q = p BY <2>1, <2>2, <1>2
  <2>3. CASE q # p
    <3>1. pc'[q] = pc[q] /\ req'[q] = req[q] BY <2>3 DEF Handled
    <3> QED BY <3>1, <2>1, <1>2 DEF FrontTypes, FrontReqs, Active, Busy
  <2> QED BY <2>2, <2>3
<1> QED BY <1>1, <1>2 DEF FrontTypes, FrontReqs

LEMMA CameBriefed ==
  ASSUME Locals, FrontTypes, scene' = scene, NEW p \in Procs, Came(p), UNCHANGED accounts
  PROVE  FrontTypes' /\ UsersStay
<1>1. UNCHANGED <<users, userHash, nameIndex, studentIndex, invitations, session, held>> BY DEF accounts, userRows, tokenVars
<1>2. UsersStay /\ Live' = Live BY <1>1 DEF UsersStay, Live
<1>3. FrontData' BY <1>1, <1>2 DEF FrontTypes, FrontData
<1>4. Handled(p) /\ req'[p] \in Calls BY DEF Came
<1>5. Requested(req'[p]) BY <1>4, AllRequested
<1>6. ASSUME Person(p)' PROVE Briefed(p)'
  <2>1. CASE /\ pc'[p] = "check" /\ req'[p].op \in Sessioned /\ held[req'[p].client] # None
             /\ seen'[p] = [Nobody EXCEPT !.user = held[req'[p].client].user, !.token = held[req'[p].client].token]
    <3>1. req'[p].client \in Clients BY <2>1, <1>5 DEF Requested
    <3>2. held[req'[p].client] \in [user : Live \union Guests, token : Tokens] BY <2>1, <3>1 DEF FrontTypes, FrontData
    <3>3. seen'[p].user \in Live \union Guests /\ seen'[p].token \in Tokens /\ Carries(p)' BY <2>1, <3>2 DEF Nobody, Carries
    <3>4. req'[p].op \notin Logins /\ req'[p].op \notin Visits /\ req'[p].op # "register" BY <2>1 DEF Sessioned, Logins, Visits
    <3> QED BY <2>1, <3>3, <3>4, <1>2 DEF Briefed
  <2>2. CASE /\ seen'[p] = Nobody
             /\ <<req'[p].op, pc'[p]>> \in
                  {<<"register", "name">>, <<"login", "login">>, <<"loginGd", "login">>, <<"pass", "student">>, <<"enrolLan", "student">>}
    <3>1. Carries(p)' BY <2>2 DEF Nobody, Carries
    <3> QED BY <2>2, <3>1 DEF Briefed, Logins, Visits, Sessioned, Unbuilt, Unnumbered
  <2> QED BY <2>1, <2>2 DEF Came
<1> QED BY <1>2, <1>3, <1>4, <1>6, TypesFrom

LEMMA LooksUnchanged == ASSUME NEW p, Looks(p) PROVE UNCHANGED accounts
BY DEF Looks, GetHttpSession, LoginIndex, LoginHash, LoginGd, StudentHit, StudentRow, CheckMember, CheckOldPassword

\* What p has when it moves.
LEMMA Briefing ==
  ASSUME Locals, FrontTypes, NEW p \in Procs, Person(p)
  PROVE  Briefed(p) /\ Requested(req[p]) /\ Active(p, FrontOps)
<1>1. Active(p, FrontOps) BY FrontKinds DEF Person, Active
<1> QED BY <1>1, Asked DEF FrontTypes

\* What becomes of a handler that found a user.
LEMMA FoundBriefed ==
  ASSUME Locals, FrontTypes, NEW p \in Procs, Person(p), req[p].op \in Asking, NEW u \in Live, NEW k \in AnyNick, Found(p, u, k),
         pc[p] # "check", UsersStay
  PROVE  pc'[p] = "idle" \/ Briefed(p)'
<1> USE Handling
<1>1. Briefed(p) /\ Requested(req[p]) BY Briefing
<1>2. u \in Live' BY DEF UsersStay
<1>3. CASE req[p].op \notin Enrols
  <2>1. pc'[p] = "session" /\ req'[p] = req[p] /\ seen'[p] = [Nobody EXCEPT !.user = u, !.nick = k] BY <1>3 DEF Found
  <2>2. req[p].op \in {"pass", "loginGd"} BY <1>3 DEF Asking
  <2>3. Carries(p)' /\ seen'[p].user = u /\ seen'[p].nick = k BY <2>1 DEF Carries, Nobody
  <2> QED BY <2>1, <2>2, <2>3, <1>2 DEF Briefed, Logins, Visits, Sessioned, Enrols, Renames
<1>4. CASE req[p].op \in Enrols /\ req[p].nick # None
  <2>1. pc'[p] = "remark" /\ req'[p] = req[p] /\ seen'[p] = [seen[p] EXCEPT !.new = u] BY <1>4 DEF Found
  <2>2. req[p].nick \in Nicknames BY <1>4, <1>1 DEF Requested, Enrols
  <2>3. Carries(p)' /\ seen'[p].user = seen[p].user /\ seen'[p].token = seen[p].token /\ seen'[p].new = u
    BY <2>1, <1>1 DEF Carries, Briefed
  <2>4. /\ \A v \in Live : v \in Live' /\ v \in Users
        /\ \A v \in Users \union Guests : session[v] # None => session'[v] # None
    BY DEF UsersStay, Live
  <2> HIDE DEF Live
  <2> QED BY <1>1, <1>4, <2>1, <2>2, <2>3, <2>4, <1>2 DEF Briefed, Logins, Visits, Sessioned, Enrols, Renames
<1>5. CASE req[p].op \in Enrols /\ req[p].nick = None
  <2>1. Finish(p) BY <1>5 DEF Found
  <2>2. CASE Return(p) BY <2>2
  <2>3. CASE On(p, "answer") /\ Client(p) # None
    <3>1. pc'[p] = "answer" /\ req'[p] = req[p] /\ seen'[p] = seen[p] BY <2>3
    <3>2. req[p].op = "enrol" BY <1>5, <2>3 DEF Client, Enrols, Logins, Visits, Sessioned
    <3>3. /\ \A v \in Live : v \in Live' /\ v \in Users
          /\ \A v \in Users \union Guests : session[v] # None => session'[v] # None
      BY DEF UsersStay, Live
    <3> HIDE DEF Live
    <3> QED BY <1>1, <3>1, <3>2, <3>3 DEF Briefed, Logins, Visits, Sessioned, Carries, Enrols, Open
  <2> QED BY <2>1, <2>2, <2>3 DEF Finish
<1> QED BY <1>3, <1>4, <1>5

LEMMA LooksBriefed ==
  ASSUME Locals, FrontTypes, scene' = scene, NEW p \in Procs, Looks(p), May(p, UserOps \union Visits)
  PROVE  FrontTypes' /\ UsersStay
<1> USE Handling
<1>0. UNCHANGED <<users, userHash, nameIndex, studentIndex, invitations, session, held>>
  BY LooksUnchanged DEF accounts, userRows, tokenVars
<1>1. GoesOn(p) BY AccountsGoOn
<1>2. Person(p) BY <1>1 DEF GoesOn, Person, Active, May
<1>3. Briefed(p) /\ Requested(req[p]) /\ Active(p, FrontOps) BY <1>2, Briefing
<1>4. UsersStay /\ Live' = Live /\ session' = session BY <1>0 DEF UsersStay, Live
<1>5. FrontData' BY <1>0, <1>4 DEF FrontTypes, FrontData
<1>6. pc'[p] = "idle" \/ Briefed(p)'
  <2>0. FrontData BY DEF FrontTypes
  <2>1. CASE GetHttpSession(p)
    <3>1. pc'[p] = "idle" \/ (pc'[p] = "rotate" /\ req'[p] = req[p] /\ seen'[p] = seen[p]) BY <2>1 DEF GetHttpSession
    <3>2. req[p].op \in Sessioned /\ (pc'[p] = "rotate" => session[seen[p].user] # None) BY <2>1 DEF GetHttpSession, At
    <3> QED BY <3>1, <3>2, <1>3, <1>4 DEF Briefed, Carries, Logins, Visits, Sessioned
  <2>2. CASE LoginIndex(p)
    <3>0. req[p].op \in {"login", "loginGd"} /\ pc[p] = "login" BY <2>2 DEF LoginIndex, At
    <3>1. nameIndex[req[p].name] \in Live \union {None} BY <3>0, <1>3, <2>0 DEF Requested, FrontData
    <3>2. CASE pc'[p] = "hash" /\ req'[p] = req[p] /\ seen'[p] = [Nobody EXCEPT !.user = nameIndex[req[p].name]] /\ nameIndex[req[p].name] # None
      BY <3>0, <3>1, <3>2, <1>3, <1>4 DEF Briefed, Carries, Logins, Visits, Sessioned, Nobody, Renames, Enrols
    <3>3. CASE pc'[p] = "gd" /\ req'[p] = req[p] /\ seen'[p] = seen[p]
      BY <3>0, <3>3, <1>3, <1>4 DEF Briefed, Carries, Logins, Visits, Sessioned
    <3> QED BY <2>2, <3>2, <3>3 DEF LoginIndex
  <2>3. CASE LoginHash(p)
    <3>0. req[p].op \in {"login", "loginGd"} /\ pc[p] = "hash" BY <2>3 DEF LoginHash, At
    <3> DEFINE h == userHash[seen[p].user]
    <3>1. seen[p].user \in Users BY <3>0, <1>3 DEF Briefed, Logins, Live
    <3>2. h.group \in Groups \union {None} /\ h.nick \in AnyNick \union {None} BY <3>1, <2>0 DEF FrontData, HashData
    <3> HIDE DEF h
    <3>3. CASE pc'[p] = "session" /\ req'[p] = req[p] /\ h.group # None /\ h.nick # None
               /\ seen'[p] = [seen[p] EXCEPT !.group = h.group, !.nick = h.nick]
      BY <3>0, <3>2, <3>3, <1>3, <1>4 DEF Briefed, Carries, Logins, Visits, Sessioned, Renames, Enrols
    <3>4. CASE pc'[p] = "gd" /\ req'[p] = req[p] /\ seen'[p] = Nobody
      BY <3>0, <3>4, <1>3, <1>4 DEF Briefed, Carries, Logins, Visits, Sessioned, Nobody
    <3> QED BY <2>3, <3>3, <3>4 DEF LoginHash, h
  <2>4. CASE LoginGd(p)
    <3>1. req[p].op = "loginGd" /\ (pc'[p] = "idle" \/ (pc'[p] = "student" /\ req'[p] = req[p] /\ seen'[p] = seen[p]))
      BY <2>4 DEF LoginGd, At
    <3> QED BY <3>1, <1>3, <1>4 DEF Briefed, Carries, Logins, Visits, Sessioned
  <2>5. CASE StudentHit(p)
    <3> DEFINE u == studentIndex[req[p].student]
               k == IF userHash[u].nick = None THEN NotAllowed ELSE userHash[u].nick
    <3>0. req[p].op \in Asking /\ pc[p] = "student" /\ u # None /\ Found(p, u, k) BY <2>5 DEF StudentHit, At
    <3>1. u \in Live BY <3>0, <1>3, <2>0 DEF Requested, FrontData, Asking, Enrols
    <3>2. k \in AnyNick BY <3>1, <2>0 DEF FrontData, HashData, AnyNick, Live
    <3> QED BY <3>0, <3>1, <3>2, <1>2, <1>4, FoundBriefed
  <2>6. CASE StudentRow(p)
    <3>1. PICK u \in Live : With(p, "fill", [seen[p] EXCEPT
                  !.new = u, !.nick = IF users[u].nick = NotAllowed THEN Empty ELSE users[u].nick])
      BY <2>6 DEF StudentRow
    <3>2. req[p].op \in Asking /\ pc[p] = "student" BY <2>6 DEF StudentRow, At
    <3>3. users[u] \in UserRow BY <2>0 DEF FrontData, Live
    <3> DEFINE k == IF users[u].nick = NotAllowed THEN Empty ELSE users[u].nick
    <3>4. k \in AnyNick BY <3>3 DEF UserRow, AnyNick
    <3> HIDE DEF k
    <3>5. pc'[p] = "fill" /\ req'[p] = req[p] /\ seen'[p] = [seen[p] EXCEPT !.new = u, !.nick = k] BY <3>1 DEF k
    <3>6. u \in Live' BY <1>4
    <3> HIDE DEF Live
    <3> QED BY <3>2, <3>4, <3>5, <3>6, <1>3, <1>4 DEF Briefed, Carries, Asking, Logins, Visits, Sessioned, Enrols, Renames
  <2>7. CASE CheckMember(p)
    <3>1. pc[p] = "class" /\ req[p].op = "rename" /\ pc'[p] \in {"remark", "answer"} /\ req'[p] = req[p] /\ seen'[p] = seen[p]
      BY <2>7 DEF CheckMember, At
    <3> QED BY <3>1, <1>3, <1>4 DEF Briefed, Carries, Logins, Visits, Sessioned, Open, Enrols, Renames, Requested
  <2>8. CASE CheckOldPassword(p)
    <3>1. pc[p] = "old" /\ req[p].op = "password" /\ pc'[p] \in {"pwdCache", "answer"} /\ req'[p] = req[p] /\ seen'[p] = seen[p]
      BY <2>8 DEF CheckOldPassword, At
    <3> QED BY <3>1, <1>3, <1>4 DEF Briefed, Carries, Logins, Visits, Sessioned, Open, Enrols, Renames
  <2> QED BY <2>1, <2>2, <2>3, <2>4, <2>5, <2>6, <2>7, <2>8 DEF Looks
<1>7. Active(p, FrontOps)' => req'[p] \in Calls
  BY <1>1, <1>3 DEF GoesOn, Active, Busy, FrontTypes, FrontReqs
<1>8. Person(p)' => Briefed(p)' BY <1>6 DEF Person, Active, Busy
<1> QED BY <1>1, <1>4, <1>5, <1>7, <1>8, TypesFrom DEF GoesOn

\* The client and the user that a session is changed for.
LEMMA HolderTyped ==
  ASSUME Locals, FrontTypes, NEW p \in Procs, Person(p), req[p].op \in Logins \union Visits \union Sessioned
  PROVE  Client(p) = req[p].client /\ Client(p) \in Clients /\ AppOf[Client(p)] \in Apps
<1>1. Requested(req[p]) BY Briefing
<1>2. Client(p) = req[p].client BY DEF Client, Person, Active
<1>3. req[p].client \in Clients BY <1>1 DEF Requested
<1> QED BY <1>2, <1>3, ClientsHaveApps

LEMMA TokenPut ==
  ASSUME NEW s \in SessionInfo, NEW a \in Apps, NEW t \in Tokens
  PROVE  /\ [s EXCEPT !.token[a] = t] \in SessionInfo
         /\ [s EXCEPT !.token[a] = t].token = [s.token EXCEPT ![a] = t]
BY DEF SessionInfo

LEMMA FirstSteps ==
  ASSUME NEW p, req[p].op \in Sessioned
  PROVE  Then(p) \in {"answer", "old", "nickCache", "class", "studentOf", "student", "invite", "uninvite"}
<1>1. CASE req[p].op = "use" BY <1>1 DEF Then
<1>2. CASE req[p].op = "password" BY <1>2 DEF Then
<1>3. CASE req[p].op = "profile" BY <1>3 DEF Then
<1>4. CASE req[p].op = "rename" BY <1>4 DEF Then
<1>5. CASE req[p].op = "resync" BY <1>5 DEF Then
<1>6. CASE req[p].op = "enrol" BY <1>6 DEF Then
<1>7. CASE req[p].op \in {"invite", "uninvite"} BY <1>7 DEF Then
<1> QED BY <1>1, <1>2, <1>3, <1>4, <1>5, <1>6, <1>7 DEF Sessioned

\* One session changes.
LEMMA SessionSet ==
  ASSUME FrontTypes, NEW u \in Users \union Guests, NEW s \in SessionInfo, session' = [session EXCEPT ![u] = s],
         UNCHANGED <<userRows, held>>
  PROVE  FrontData' /\ UsersStay /\ Live' = Live /\ session'[u] = s
<1>1. UNCHANGED <<users, userHash, nameIndex, studentIndex, invitations>> BY DEF userRows
<1>2. Live' = Live BY <1>1 DEF Live
<1>3. session \in [Users \union Guests -> SessionInfo \union {None}] BY DEF FrontTypes, FrontData
<1>4. s # None BY NoneIsNoSession
<1>5. \A v \in Users \union Guests : session'[v] = IF v = u THEN s ELSE session[v] BY <1>3
<1>6. session' \in [Users \union Guests -> SessionInfo \union {None}] BY <1>3
<1>7. UsersStay BY <1>2, <1>4, <1>5 DEF UsersStay
<1> QED BY <1>1, <1>2, <1>5, <1>6, <1>7 DEF FrontTypes, FrontData

LEMMA LiveTyped == Live \subseteq Users /\ None \notin Users \union Guests
BY NoneIsNoUser DEF Live

LEMMA HoldsBriefed ==
  ASSUME Locals, FrontTypes, scene' = scene, NEW p \in Procs, Holds(p), May(p, UserOps \union Visits)
  PROVE  FrontTypes' /\ UsersStay
<1> USE Handling
<1> DEFINE u == seen[p].user
           c == Client(p)
<1>0. FrontData BY DEF FrontTypes
<1>1. GoesOn(p) BY AccountsGoOn
<1>2. Person(p) BY <1>1 DEF GoesOn, Person, Active, May
<1>3. Briefed(p) /\ Requested(req[p]) /\ Active(p, FrontOps) BY <1>2, Briefing
<1>4. FrontData' /\ UsersStay /\ (pc'[p] = "idle" \/ Briefed(p)')
  <2>1. CASE UpdateHttpSession(p)
    <3>1. req[p].op \in Sessioned /\ pc[p] = "rotate" BY <2>1 DEF UpdateHttpSession, At
    <3>2. PICK t \in Tokens : session' = [session EXCEPT ![u].token[AppOf[c]] = t] /\ With(p, Then(p), [seen[p] EXCEPT !.token = t])
      BY <2>1 DEF UpdateHttpSession
    <3>3. u \in Users \union Guests /\ session[u] # None BY <3>1, <1>3, LiveTyped DEF Briefed
    <3>4. session[u] \in SessionInfo BY <3>3, <1>0 DEF FrontData
    <3>5. AppOf[c] \in Apps BY <3>1, <1>2, HolderTyped
    <3> DEFINE s == [session[u] EXCEPT !.token[AppOf[c]] = t]
    <3>6. s \in SessionInfo BY <3>4, <3>5, TokenPut
    <3>7. session' = [session EXCEPT ![u] = s] BY <3>2
    <3> HIDE DEF s
    <3>8. FrontData' /\ UsersStay /\ Live' = Live /\ session'[u] = s
      BY <2>1, <3>3, <3>6, <3>7, SessionSet DEF UpdateHttpSession
    <3>9. pc'[p] = Then(p) /\ req'[p] = req[p] /\ seen'[p] = [seen[p] EXCEPT !.token = t] BY <3>2
    <3>10. s # None BY <3>6, NoneIsNoSession
    <3> QED BY <3>1, <3>8, <3>9, <3>10, <1>3, FirstSteps, FrontKinds DEF Briefed, Carries, Logins, Visits, Sessioned, Open, Enrols, Renames
  <2>2. CASE SetHttpSession(p)
    <3>1. req[p].op \in Logins \union Visits /\ pc[p] = "session" BY <2>2 DEF SetHttpSession, At
    <3>2. PICK t \in Tokens :
            /\ With(p, "answer", [seen[p] EXCEPT !.token = t])
            /\ \/ session' = [session EXCEPT ![u] =
                  [group |-> IF req[p].op = "login" THEN seen[p].group ELSE "student",
                   nick  |-> seen[p].nick,
                   token |-> [b \in Apps |-> IF b = AppOf[c] THEN t ELSE IF session[u] = None THEN None ELSE session[u].token[b]]]]
               \/ UNCHANGED session
      BY <2>2 DEF SetHttpSession
    <3>3. u \in Users \union Guests BY <3>1, <1>3, LiveTyped DEF Briefed, Logins, Unnumbered
    <3> DEFINE s == [group |-> IF req[p].op = "login" THEN seen[p].group ELSE "student",
                   nick  |-> seen[p].nick,
                   token |-> [b \in Apps |-> IF b = AppOf[c] THEN t ELSE IF session[u] = None THEN None ELSE session[u].token[b]]]
    <3>4. s \in SessionInfo
      <4>1. session[u] \in SessionInfo \union {None} BY <3>3, <1>0 DEF FrontData
      <4>2. s.token \in [Apps -> Tokens \union {None}] BY <4>1 DEF SessionInfo
      <4>3. s.nick \in AnyNick \union Phones BY <3>1, <1>3 DEF Briefed, Unbuilt, Unnumbered
      <4>4. s.group \in Groups BY <3>1, <1>3 DEF Briefed, Groups, Logins
      <4> QED BY <4>2, <4>3, <4>4 DEF SessionInfo
    <3>5. UNCHANGED <<userRows, held>> BY <2>2 DEF SetHttpSession
    <3>6. session' = [session EXCEPT ![u] = s] \/ UNCHANGED session BY <3>2
    <3> HIDE DEF s
    <3>7. FrontData' /\ UsersStay /\ Live' = Live
      <4>1. CASE session' = [session EXCEPT ![u] = s] BY <4>1, <3>3, <3>4, <3>5, SessionSet
      <4>2. CASE UNCHANGED session
        <5>1. UNCHANGED <<users, userHash, nameIndex, studentIndex, invitations, session, held>> BY <4>2, <3>5 DEF userRows
        <5>2. UsersStay /\ Live' = Live BY <5>1 DEF UsersStay, Live
        <5> QED BY <5>1, <5>2, <1>0 DEF FrontData
      <4> QED BY <3>6, <4>1, <4>2
    <3>8. pc'[p] = "answer" /\ req'[p] = req[p] /\ seen'[p] = [seen[p] EXCEPT !.token = t] BY <3>2
    <3> QED BY <3>1, <3>7, <3>8, <1>3 DEF Briefed, Carries, Logins, Visits, Sessioned, Open, Enrols, Renames, Unnumbered, Unbuilt
  <2>3. CASE Answer(p)
    <3>1. Return(p) /\ held' = [held EXCEPT ![c] = [user |-> u, token |-> seen[p].token]] /\ UNCHANGED <<userRows, session>>
      BY <2>3 DEF Answer
    <3>2. pc[p] = "answer" BY <2>3 DEF Answer, At
    <3>3. req[p].op \in Logins \union Visits \union Sessioned BY <3>2, <1>2, <1>3 DEF Briefed, Person, Active, UserOps
    <3>4. u \in Live \union Guests /\ seen[p].token \in Tokens
      BY <3>2, <3>3, <1>3 DEF Briefed, Unnumbered
    <3>5. UNCHANGED <<users, userHash, nameIndex, studentIndex, invitations, session>> BY <3>1 DEF userRows
    <3>6. UsersStay /\ Live' = Live BY <3>5 DEF UsersStay, Live
    <3>7. held \in [Clients -> [user : Live \union Guests, token : Tokens] \union {None}] BY <1>0 DEF FrontData
    <3>8. held' \in [Clients -> [user : Live \union Guests, token : Tokens] \union {None}] BY <3>1, <3>4, <3>7
    <3>9. FrontData' BY <3>5, <3>6, <3>8, <1>0 DEF FrontData
    <3> QED BY <3>1, <3>6, <3>9
  <2>4. CASE LoseAnswer(p)
    <3>1. Return(p) /\ UNCHANGED <<userRows, session, held>> BY <2>4 DEF LoseAnswer
    <3>2. UNCHANGED <<users, userHash, nameIndex, studentIndex, invitations, session, held>> BY <3>1 DEF userRows
    <3>3. UsersStay /\ Live' = Live BY <3>2 DEF UsersStay, Live
    <3> QED BY <3>1, <3>2, <3>3, <1>0 DEF FrontData
  <2>5. CASE UpdateSessionNickname(p)
    <3>1. req[p].op = "profile" /\ pc[p] = "nickSession" BY <2>5 DEF UpdateSessionNickname, At
    <3>2. On(p, "answer") /\ session' = [session EXCEPT ![u].nick = req[p].nick] /\ UNCHANGED <<userRows, held>>
      BY <2>5 DEF UpdateSessionNickname
    <3>3. u \in Users \union Guests /\ session[u] # None BY <3>1, <1>3, LiveTyped DEF Briefed, Sessioned
    <3>4. session[u] \in SessionInfo BY <3>3, <1>0 DEF FrontData
    <3> DEFINE s == [session[u] EXCEPT !.nick = req[p].nick]
    <3>5. s \in SessionInfo BY <3>1, <3>4, <1>3 DEF SessionInfo, Requested, AnyNick
    <3>6. session' = [session EXCEPT ![u] = s] BY <3>2
    <3> HIDE DEF s
    <3>7. FrontData' /\ UsersStay /\ Live' = Live /\ session'[u] = s BY <3>2, <3>3, <3>5, <3>6, SessionSet
    <3>8. pc'[p] = "answer" /\ req'[p] = req[p] /\ seen'[p] = seen[p] BY <3>2
    <3>9. s # None BY <3>5, NoneIsNoSession
    <3> QED BY <3>1, <3>7, <3>8, <3>9, <1>3 DEF Briefed, Carries, Logins, Visits, Sessioned, Open, Enrols, Renames
  <2> QED BY <2>1, <2>2, <2>3, <2>4, <2>5 DEF Holds
<1>5. Active(p, FrontOps)' => req'[p] \in Calls
  BY <1>1, <1>3 DEF GoesOn, Active, Busy, FrontTypes, FrontReqs
<1>6. Person(p)' => Briefed(p)' BY <1>4 DEF Person, Active, Busy
<1> QED BY <1>1, <1>4, <1>5, <1>6, TypesFrom DEF GoesOn

\* What a step does to the hash of u.
FieldIs(u, f, v) == \A w \in Users, g \in Fields : userHash'[w][g] = IF w = u /\ g = f THEN v ELSE userHash[w][g]
HashIs(u, w, n)  == userHash'[u].pwd = w /\ userHash'[u].nick = n /\ \A v \in Users \ {u} : userHash'[v] = userHash[v]

\* One field of a user's hash is set.
LEMMA FieldPut ==
  ASSUME HashData(userHash), NEW u, NEW f \in Fields, NEW v, userHash' = [userHash EXCEPT ![u][f] = v]
  PROVE  /\ userHash' = [w \in Users |-> [g \in Fields |-> userHash'[w][g]]]
         /\ FieldIs(u, f, v)
<1>1. DOMAIN userHash = Users /\ \A w \in Users : userHash[w] = [g \in Fields |-> userHash[w][g]]
  BY DEF HashData
<1>2. /\ userHash' = [w \in Users |-> userHash'[w]]
      /\ \A w \in Users : userHash'[w] = IF w = u THEN [userHash[u] EXCEPT ![f] = v] ELSE userHash[w]
  BY <1>1
<1>3. ASSUME NEW w \in Users, w = u
      PROVE  /\ userHash'[w] = [g \in Fields |-> userHash'[w][g]]
             /\ \A g \in Fields : userHash'[w][g] = IF g = f THEN v ELSE userHash[w][g]
  <2>1. userHash'[w] = [userHash[w] EXCEPT ![f] = v] BY <1>2, <1>3
  <2>2. userHash[w] = [g \in Fields |-> userHash[w][g]] BY <1>1
  <2> QED BY <2>1, <2>2
<1>4. ASSUME NEW w \in Users, w # u
      PROVE  userHash'[w] = userHash[w] /\ userHash'[w] = [g \in Fields |-> userHash'[w][g]]
  <2>1. userHash'[w] = userHash[w] BY <1>2, <1>4
  <2> QED BY <1>1, <2>1
<1>5. FieldIs(u, f, v)
  <2> SUFFICES ASSUME NEW w \in Users, NEW g \in Fields
               PROVE  userHash'[w][g] = IF w = u /\ g = f THEN v ELSE userHash[w][g]
    BY DEF FieldIs
  <2>1. CASE w = u
    <3>1. userHash'[w][g] = IF g = f THEN v ELSE userHash[w][g] BY <1>3, <2>1
    <3> QED BY <2>1, <3>1
  <2>2. CASE w # u
    <3>1. userHash'[w] = userHash[w] BY <1>4, <2>2
    <3> QED BY <2>2, <3>1
  <2> QED BY <2>1, <2>2
<1>6. \A w \in Users : userHash'[w] = [g \in Fields |-> userHash'[w][g]] BY <1>3, <1>4
<1> QED BY <1>2, <1>5, <1>6

LEMMA FieldSet ==
  ASSUME HashData(userHash), NEW u, NEW v
  PROVE  /\ userHash' = [userHash EXCEPT ![u].pwd = v] =>
              HashData(userHash') /\ FieldIs(u, "pwd", v)
         /\ v \in AnyNick /\ userHash' = [userHash EXCEPT ![u].nick = v] =>
              HashData(userHash') /\ FieldIs(u, "nick", v)
         /\ userHash' = [userHash EXCEPT ![u].student = v] =>
              HashData(userHash') /\ FieldIs(u, "student", v)
<1>0. "pwd" \in Fields /\ "nick" \in Fields /\ "student" \in Fields /\ "group" \in Fields BY DEF Fields
<1>1. ASSUME NEW f \in Fields, FieldIs(u, f, v), f = "nick" => v \in AnyNick, f # "group",
             userHash' = [w \in Users |-> [g \in Fields |-> userHash'[w][g]]]
      PROVE  HashData(userHash')
  <2>1. ASSUME NEW w \in Users
        PROVE  userHash'[w]["nick"] \in AnyNick \union {None} /\ userHash'[w]["group"] \in Groups \union {None}
    <3>1. userHash[w]["nick"] \in AnyNick \union {None} /\ userHash[w]["group"] \in Groups \union {None}
      BY DEF HashData
    <3>2. userHash'[w]["group"] = userHash[w]["group"] BY <1>0, <1>1 DEF FieldIs
    <3>3. userHash'[w]["nick"] = IF w = u /\ "nick" = f THEN v ELSE userHash[w]["nick"] BY <1>0, <1>1 DEF FieldIs
    <3> QED BY <1>1, <3>1, <3>2, <3>3
  <2> QED BY <1>1, <2>1 DEF HashData
<1>2. ASSUME userHash' = [userHash EXCEPT ![u].pwd = v]
      PROVE  HashData(userHash') /\ FieldIs(u, "pwd", v)
  <2>1. /\ userHash' = [w \in Users |-> [g \in Fields |-> userHash'[w][g]]]
        /\ FieldIs(u, "pwd", v)
    BY <1>0, <1>2, FieldPut
  <2> QED BY <1>0, <1>1, <2>1
<1>3. ASSUME v \in AnyNick, userHash' = [userHash EXCEPT ![u].nick = v]
      PROVE  HashData(userHash') /\ FieldIs(u, "nick", v)
  <2>1. /\ userHash' = [w \in Users |-> [g \in Fields |-> userHash'[w][g]]]
        /\ FieldIs(u, "nick", v)
    BY <1>0, <1>3, FieldPut
  <2> QED BY <1>0, <1>1, <1>3, <2>1
<1>4. ASSUME userHash' = [userHash EXCEPT ![u].student = v]
      PROVE  HashData(userHash') /\ FieldIs(u, "student", v)
  <2>1. /\ userHash' = [w \in Users |-> [g \in Fields |-> userHash'[w][g]]]
        /\ FieldIs(u, "student", v)
    BY <1>0, <1>4, FieldPut
  <2> QED BY <1>0, <1>1, <2>1
<1> QED BY <1>2, <1>3, <1>4

\* The hash of a new user.
LEMMA NewHashSet ==
  ASSUME HashData(userHash), NEW u \in Users, NEW w, NEW n \in AnyNick, NEW g \in Groups, NEW s
  PROVE  /\ userHash' = [userHash EXCEPT ![u] = [pwd |-> w, nick |-> n, group |-> g, student |-> s]] =>
              HashData(userHash') /\ HashIs(u, w, n)
         /\ userHash' = [userHash EXCEPT ![u] = [@ EXCEPT !.pwd = w, !.nick = n, !.group = g]] =>
              HashData(userHash') /\ HashIs(u, w, n)
<1> USE DEF HashData, Fields, HashIs
<1>1. ASSUME NEW h, h = [f \in Fields |-> h[f]], h.pwd = w, h.nick = n, h.group = g, userHash' = [userHash EXCEPT ![u] = h]
      PROVE  HashData(userHash') /\ HashIs(u, w, n)
  <2>1. userHash'[u] = h /\ \A v \in Users \ {u} : userHash'[v] = userHash[v] BY <1>1
  <2>2. userHash' = [v \in Users |-> [f \in Fields |-> userHash'[v][f]]] BY <1>1
  <2> QED BY <1>1, <2>1, <2>2
<1>2. ASSUME userHash' = [userHash EXCEPT ![u] = [pwd |-> w, nick |-> n, group |-> g, student |-> s]]
      PROVE  HashData(userHash') /\ HashIs(u, w, n)
  <2> DEFINE h == [pwd |-> w, nick |-> n, group |-> g, student |-> s]
  <2>1. h = [f \in Fields |-> h[f]] /\ h.pwd = w /\ h.nick = n /\ h.group = g OBVIOUS
  <2>2. userHash' = [userHash EXCEPT ![u] = h] BY <1>2
  <2> HIDE DEF h
  <2> QED BY <1>1, <2>1, <2>2
<1>3. ASSUME userHash' = [userHash EXCEPT ![u] = [@ EXCEPT !.pwd = w, !.nick = n, !.group = g]]
      PROVE  HashData(userHash') /\ HashIs(u, w, n)
  <2> DEFINE h == [userHash[u] EXCEPT !.pwd = w, !.nick = n, !.group = g]
  <2>0. userHash[u] = [f \in Fields |-> userHash[u][f]] OBVIOUS
  <2>1. h = [f \in Fields |-> h[f]] /\ h.pwd = w /\ h.nick = n /\ h.group = g
    <3> PICK k : k = userHash[u] OBVIOUS
    <3>1. k = [f \in Fields |-> k[f]] BY <2>0
    <3>2. h = [k EXCEPT !.pwd = w, !.nick = n, !.group = g] OBVIOUS
    <3> HIDE DEF HashData, h
    <3> QED BY <3>1, <3>2
  <2>2. userHash' = [userHash EXCEPT ![u] = h] BY <1>3
  <2> HIDE DEF h
  <2> QED BY <1>1, <2>1, <2>2
<1> QED BY <1>2, <1>3

\* A step that only changes rows, hashes, indices and invitations.
LEMMA DataWith ==
  ASSUME FrontData, \A u \in Live : u \in Live', users' \in [Users -> UserRow \union {None}], HashData(userHash'),
         nameIndex' \in [Names -> Live \union {None}], studentIndex' \in [Students -> Live \union {None}],
         invitations' \in [Invitations -> Groups \union {None}], UNCHANGED tokenVars
  PROVE  FrontData' /\ UsersStay
<1>1. UNCHANGED <<session, held>> BY DEF tokenVars
<1>2. held \in [Clients -> [user : Live \union Guests, token : Tokens] \union {None}] BY DEF FrontData
<1> HIDE DEF Live
<1>3. nameIndex' \in [Names -> Live' \union {None}] /\ studentIndex' \in [Students -> Live' \union {None}] OBVIOUS
<1>4. held \in [Clients -> [user : Live' \union Guests, token : Tokens] \union {None}] BY <1>2
<1> QED BY <1>1, <1>3, <1>4 DEF FrontData, UsersStay

\* One row changes, or is added.
LEMMA RowSet ==
  ASSUME FrontData, NEW u \in Users, NEW r \in UserRow, users' = [users EXCEPT ![u] = r]
  PROVE  /\ users' \in [Users -> UserRow \union {None}] /\ u \in Live' /\ \A v \in Live : v \in Live'
         /\ Live' = Live \union {u} /\ users'[u] = r /\ \A v \in Users \ {u} : users'[v] = users[v]
<1>1. users \in [Users -> UserRow \union {None}] BY DEF FrontData
<1>2. r # None BY NoneIsNoUser
<1>3. users'[u] = r /\ \A v \in Users \ {u} : users'[v] = users[v] BY <1>1
<1> QED BY <1>1, <1>2, <1>3 DEF Live

LEMMA RowOf == ASSUME FrontData, NEW u \in Live PROVE users[u] \in UserRow
BY DEF FrontData, Live

\* A handler that goes on with what it has.
LEMMA SameBrief ==
  ASSUME Locals, FrontTypes, NEW p \in Procs, Person(p), req[p].op \in UserOps, UsersStay, req'[p] = req[p], seen'[p] = seen[p],
         pc[p] # "check",
         pc'[p] \in {"answer", "insert", "addHash", "newHash", "add", "invitation", "pwdRow", "nickRow", "nickSession", "remark", "remarked"},
         req[p].op \in Logins => pc'[p] = "answer" /\ seen[p].token \in Tokens /\ seen[p].user \in Live,
         pc'[p] = "answer" => req[p].op \notin Open,
         pc'[p] = "insert" => pc[p] = "use",
         pc'[p] = "addHash" => pc[p] = "addIndex",
         pc'[p] = "newHash" => pc[p] = "index",
         pc'[p] = "remark" => req[p].op = "resync",
         pc'[p] = "remarked" => pc[p] = "remark" /\ req[p].op \in Renames
  PROVE  Briefed(p)'
<1>1. Briefed(p) /\ Requested(req[p]) BY Briefing
<1>2. /\ \A v \in Live : v \in Live' /\ v \in Users
      /\ \A v \in Users \union Guests : session[v] # None => session'[v] # None
  BY DEF UsersStay, Live
<1>3. req[p].op \notin Visits BY FrontKinds
<1>4. CASE req[p].op \in Logins
  <2> HIDE DEF Live
  <2> QED BY <1>1, <1>2, <1>4 DEF Briefed, Carries, Logins, Visits, Sessioned, Open, Enrols, Renames
<1>5. CASE req[p].op \notin Logins
  <2> HIDE DEF Live
  <2>1. req[p].op \in Sessioned =>
       /\ seen[p].user \in Live' \union Guests /\ seen[p].token \in Tokens
       /\ session'[seen[p].user] # None
    BY <1>1, <1>2 DEF Briefed
  <2>2. pc'[p] = "answer" => req[p].op \notin Open /\ seen[p].token \in Tokens
    BY <1>5, <2>1, FrontKinds DEF UserOps
  <2>3. pc'[p] \in {"addIndex", "addHash", "index", "newHash"} => seen[p].new \in Live' BY <1>1, <1>2 DEF Briefed
  <2>4. req[p].op \in Enrols /\ pc'[p] \in {"remark", "remarked"} => seen[p].new \in Live'
    BY <1>1, <1>2 DEF Briefed, Enrols
  <2>5. req[p].op = "register" /\ pc'[p] \in {"use", "insert"} => seen[p].group \in Groups BY <1>1 DEF Briefed
  <2>6. req[p].op \in Renames /\ pc'[p] \in {"remark", "remarked"} => req[p].nick \in Nicknames
    BY <1>1 DEF Briefed, Requested
  <2>7. Carries(p)' BY <1>1 DEF Briefed, Carries
  <2> QED BY <1>3, <1>5, <2>1, <2>2, <2>3, <2>4, <2>5, <2>6, <2>7 DEF Briefed
<1> QED BY <1>4, <1>5

\* A handler that has found or made a user, or the group of an invitation.
LEMMA NewBrief ==
  ASSUME Locals, FrontTypes, NEW p \in Procs, Person(p), UsersStay, req'[p] = req[p],
         \/ /\ req[p].op \in Enrols /\ pc'[p] = "addIndex" /\ pc[p] = "add"
            /\ \E u \in Live' : seen'[p] = [seen[p] EXCEPT !.new = u]
         \/ /\ req[p].op = "register" /\ pc'[p] = "index"
            /\ \E u \in Live' : seen'[p] = [seen[p] EXCEPT !.new = u]
         \/ /\ req[p].op = "register" /\ pc'[p] = "use"
            /\ \E g \in Groups : seen'[p] = [Nobody EXCEPT !.group = g]
  PROVE  Briefed(p)'
<1>1. Briefed(p) BY Briefing
<1>2. /\ \A v \in Live : v \in Live' /\ v \in Users
      /\ \A v \in Users \union Guests : session[v] # None => session'[v] # None
  BY DEF UsersStay, Live
<1> HIDE DEF Live
<1>3. CASE /\ req[p].op \in Enrols /\ pc'[p] = "addIndex" /\ pc[p] = "add"
           /\ \E u \in Live' : seen'[p] = [seen[p] EXCEPT !.new = u]
  <2> PICK u \in Live' : seen'[p] = [seen[p] EXCEPT !.new = u] BY <1>3
  <2>1. Carries(p)' /\ seen'[p].user = seen[p].user /\ seen'[p].token = seen[p].token /\ seen'[p].new = u
    BY <1>1 DEF Briefed, Carries
  <2> QED BY <1>1, <1>2, <1>3, <2>1 DEF Briefed, Enrols, Logins, Visits, Sessioned
<1>4. CASE /\ req[p].op = "register" /\ pc'[p] = "index"
           /\ \E u \in Live' : seen'[p] = [seen[p] EXCEPT !.new = u]
  <2> PICK u \in Live' : seen'[p] = [seen[p] EXCEPT !.new = u] BY <1>4
  <2>1. Carries(p)' /\ seen'[p].new = u BY <1>1 DEF Briefed, Carries
  <2> QED BY <1>4, <2>1 DEF Briefed, Enrols, Logins, Visits, Sessioned
<1>5. CASE /\ req[p].op = "register" /\ pc'[p] = "use"
           /\ \E g \in Groups : seen'[p] = [Nobody EXCEPT !.group = g]
  <2> PICK g \in Groups : seen'[p] = [Nobody EXCEPT !.group = g] BY <1>5
  <2>1. Carries(p)' /\ seen'[p].group = g BY DEF Carries, Nobody
  <2> QED BY <1>5, <2>1 DEF Briefed, Enrols, Logins, Visits, Sessioned
<1> QED BY <1>3, <1>4, <1>5

LEMMA RecordsBriefed ==
  ASSUME Locals, FrontTypes, scene' = scene, NEW p \in Procs, Records(p), May(p, UserOps \union Visits)
  PROVE  FrontTypes' /\ UsersStay
<1> USE Handling
<1>0. FrontData BY DEF FrontTypes
<1>1. GoesOn(p) BY AccountsGoOn
<1>2. Person(p) BY <1>1 DEF GoesOn, Person, Active, May
<1>3. Briefed(p) /\ Requested(req[p]) /\ Active(p, FrontOps) BY <1>2, Briefing
<1>d. /\ users \in [Users -> UserRow \union {None}] /\ HashData(userHash)
      /\ nameIndex \in [Names -> Live \union {None}] /\ studentIndex \in [Students -> Live \union {None}]
      /\ invitations \in [Invitations -> Groups \union {None}]
  BY <1>0 DEF FrontData
<1>l. Live \subseteq Users BY LiveTyped
<1>u. UNCHANGED users => \A u \in Live : u \in Live' BY DEF Live
<1>f. \A l : On(p, l) => pc'[p] = l /\ req'[p] = req[p] /\ seen'[p] = seen[p] OBVIOUS
<1>s. ASSUME UsersStay, NEW l, On(p, l), req[p].op \in UserOps, pc[p] # "check",
             l \in {"answer", "insert", "addHash", "newHash", "add", "invitation", "pwdRow", "nickRow", "nickSession", "remark", "remarked"},
             req[p].op \in Logins => l = "answer" /\ seen[p].token \in Tokens /\ seen[p].user \in Live,
             l = "answer" => req[p].op \notin Open,
             l = "insert" => pc[p] = "use",
             l = "addHash" => pc[p] = "addIndex",
             l = "newHash" => pc[p] = "index",
             l = "remark" => req[p].op = "resync",
             l = "remarked" => pc[p] = "remark" /\ req[p].op \in Renames
      PROVE  Briefed(p)'
  BY <1>2, <1>f, <1>s, SameBrief
<1> HIDE DEF Live
<1>k. /\ Enrols \subseteq UserOps /\ Enrols \cap Logins = {} /\ Renames \subseteq UserOps /\ Renames \cap Logins = {}
      /\ Sessioned \cap Open = {} /\ Sessioned \cap Logins = {} /\ Sessioned \subseteq UserOps
      /\ {"invite", "uninvite", "password", "profile", "rename", "resync"} \subseteq Sessioned
      /\ "register" \in UserOps /\ "register" \notin Logins
  BY DEF Enrols, UserOps, Logins, Renames, Sessioned, Open
<1>4. FrontData' /\ UsersStay /\ (pc'[p] = "idle" \/ Briefed(p)')
  <2>1. CASE StudentFill(p)
    <3>1. req[p].op \in Asking /\ pc[p] = "fill" /\ Found(p, seen[p].new, seen[p].nick) BY <2>1 DEF StudentFill, At
    <3>2. seen[p].new \in Live /\ seen[p].nick \in AnyNick BY <3>1, <1>3 DEF Briefed
    <3>3. studentIndex' \in [Students -> Live \union {None}] BY <2>1, <3>2, <1>d DEF StudentFill
    <3>4. FrontData' /\ UsersStay BY <2>1, <3>3, <1>0, <1>d, <1>u, DataWith DEF StudentFill
    <3> QED BY <3>1, <3>2, <3>4, <1>2, FoundBriefed
  <2>2. CASE StudentNone(p)
    <3>1. UNCHANGED <<users, userHash, nameIndex, studentIndex, invitations, tokenVars>> /\ pc[p] = "student" BY <2>2 DEF StudentNone, At
    <3>2. FrontData' /\ UsersStay BY <3>1, <1>0, <1>d, <1>u, DataWith
    <3>3. CASE req[p].op \in Enrols
      <4>1. On(p, "add") BY <2>2, <3>3 DEF StudentNone
      <4> QED BY <4>1, <3>1, <3>2, <3>3, <1>s, <1>k
    <3>4. CASE req[p].op \notin Enrols BY <2>2, <3>2, <3>4 DEF StudentNone
    <3> QED BY <3>3, <3>4
  <2>3. CASE AddStudent(p)
    <3>1. req[p].op \in Enrols /\ pc[p] = "add" BY <2>3 DEF AddStudent, At
    <3> DEFINE r == User(NotAllowed, NotAllowed, NotAllowed, "student", req[p].student, None)
    <3>2. PICK u \in Users : users' = [users EXCEPT ![u] = r] /\ With(p, "addIndex", [seen[p] EXCEPT !.new = u])
      BY <2>3 DEF AddStudent
    <3>3. r \in UserRow BY <3>1, <1>3 DEF Requested, User, UserRow, AnyNick, Groups, Enrols
    <3> HIDE DEF r
    <3>4. users' \in [Users -> UserRow \union {None}] /\ u \in Live' /\ \A v \in Live : v \in Live' BY <3>2, <3>3, <1>0, RowSet
    <3>5. UNCHANGED <<userHash, nameIndex, studentIndex, invitations, tokenVars>> BY <2>3 DEF AddStudent
    <3>6. FrontData' /\ UsersStay BY <3>4, <3>5, <1>0, <1>d, DataWith
    <3>7. pc'[p] = "addIndex" /\ req'[p] = req[p] /\ seen'[p] = [seen[p] EXCEPT !.new = u] BY <3>2
    <3> QED BY <3>1, <3>4, <3>6, <3>7, <1>2, NewBrief
  <2>4. CASE AddStudentIndex(p)
    <3>1. req[p].op \in Enrols /\ pc[p] = "addIndex" BY <2>4 DEF AddStudentIndex, At
    <3>2. studentIndex' \in [Students -> Live \union {None}] BY <2>4, <3>1, <1>d, <1>3 DEF AddStudentIndex, Briefed
    <3>3. FrontData' /\ UsersStay BY <2>4, <3>2, <1>0, <1>d, <1>u, DataWith DEF AddStudentIndex
    <3>4. On(p, "addHash") BY <2>4 DEF AddStudentIndex
    <3> QED BY <3>1, <3>3, <3>4, <1>s, <1>k, <1>3, FrontKinds
  <2>5. CASE AddStudentHash(p)
    <3>1. req[p].op \in Enrols /\ pc[p] = "addHash" /\ Found(p, seen[p].new, Empty) BY <2>5 DEF AddStudentHash, At
    <3>2. seen[p].new \in Live BY <3>1, <1>3 DEF Briefed
    <3>3. HashData(userHash')
      <4> PICK u \in Users : u = seen[p].new BY <3>2, <1>l
      <4>1. userHash' = [userHash EXCEPT ![u] = [pwd |-> NotAllowed, nick |-> NotAllowed, group |-> "student", student |-> req[p].student]]
        BY <2>5 DEF AddStudentHash
      <4>2. NotAllowed \in AnyNick /\ "student" \in Groups BY DEF AnyNick, Groups
      <4> QED BY <4>1, <4>2, <1>d, NewHashSet
    <3>4. FrontData' /\ UsersStay BY <2>5, <3>3, <1>0, <1>d, <1>u, DataWith DEF AddStudentHash
    <3>5. Empty \in AnyNick BY DEF AnyNick
    <3> QED BY <3>1, <3>2, <3>4, <3>5, <1>2, FoundBriefed DEF Asking
  <2>6. CASE GenerateInvitationToken(p)
    <3>1. req[p].op \in {"invite"} /\ pc[p] = "invite" BY <2>6 DEF GenerateInvitationToken, At
    <3>2. invitations' \in [Invitations -> Groups \union {None}] BY <2>6, <3>1, <1>d, <1>3 DEF GenerateInvitationToken, Requested
    <3>3. FrontData' /\ UsersStay BY <2>6, <3>2, <1>0, <1>d, <1>u, DataWith DEF GenerateInvitationToken
    <3>4. On(p, "answer") BY <2>6 DEF GenerateInvitationToken
    <3> QED BY <3>1, <3>3, <3>4, <1>s, <1>k, <1>3, FrontKinds
  <2>7. CASE DeleteInvitationToken(p)
    <3>1. req[p].op \in {"uninvite"} /\ pc[p] = "uninvite" BY <2>7 DEF DeleteInvitationToken, At
    <3>2. invitations' \in [Invitations -> Groups \union {None}] BY <2>7, <1>d DEF DeleteInvitationToken
    <3>3. FrontData' /\ UsersStay BY <2>7, <3>2, <1>0, <1>d, <1>u, DataWith DEF DeleteInvitationToken
    <3>4. On(p, "answer") BY <2>7 DEF DeleteInvitationToken
    <3> QED BY <3>1, <3>3, <3>4, <1>s, <1>k, <1>3, FrontKinds
  <2>8. CASE CheckName(p)
    <3>1. req[p].op \in {"register"} /\ pc[p] = "name" BY <2>8 DEF CheckName, At
    <3>2. UNCHANGED <<users, userHash, nameIndex, studentIndex, invitations, tokenVars>> BY <2>8 DEF CheckName
    <3>3. FrontData' /\ UsersStay BY <3>2, <1>0, <1>d, <1>u, DataWith
    <3>4. On(p, "invitation") \/ Return(p) BY <2>8 DEF CheckName
    <3> QED BY <3>1, <3>3, <3>4, <1>s, <1>k, <1>3, FrontKinds
  <2>9. CASE GetInvitation(p)
    <3>1. req[p].op = "register" /\ pc[p] = "invitation" BY <2>9 DEF GetInvitation, At
    <3>2. UNCHANGED <<users, userHash, nameIndex, studentIndex, invitations, tokenVars>> BY <2>9 DEF GetInvitation
    <3>3. FrontData' /\ UsersStay BY <3>2, <1>0, <1>d, <1>u, DataWith
    <3> DEFINE g == invitations[req[p].invite]
    <3>4. CASE With(p, "use", [Nobody EXCEPT !.group = g]) /\ g # None
      <4>1. g \in Groups BY <3>1, <3>4, <1>d, <1>3 DEF Requested
      <4>2. pc'[p] = "use" /\ req'[p] = req[p] /\ seen'[p] = [Nobody EXCEPT !.group = g] BY <3>4
      <4> HIDE DEF g
      <4> QED BY <3>1, <3>3, <4>1, <4>2, <1>2, NewBrief
    <3> QED BY <2>9, <3>3, <3>4 DEF GetInvitation
  <2>10. CASE UseInvitationToken(p)
    <3>1. req[p].op \in {"register"} /\ pc[p] = "use" BY <2>10 DEF UseInvitationToken, At
    <3>2. invitations' \in [Invitations -> Groups \union {None}] BY <2>10, <1>d DEF UseInvitationToken
    <3>3. FrontData' /\ UsersStay BY <2>10, <3>2, <1>0, <1>d, <1>u, DataWith DEF UseInvitationToken
    <3>4. On(p, "insert") BY <2>10 DEF UseInvitationToken
    <3> QED BY <3>1, <3>3, <3>4, <1>s, <1>k, <1>3, FrontKinds
  <2>11. CASE AddUser(p)
    <3>1. req[p].op = "register" /\ pc[p] = "insert" BY <2>11 DEF AddUser, At
    <3> DEFINE r == User(req[p].name, req[p].pwd, req[p].name, seen[p].group, None, req[p].invite)
    <3>2. PICK u \in Users : users' = [users EXCEPT ![u] = r] /\ With(p, "index", [seen[p] EXCEPT !.new = u])
      BY <2>11 DEF AddUser
    <3>3. seen[p].group \in Groups BY <3>1, <1>3 DEF Briefed
    <3>4. r \in UserRow BY <3>1, <3>3, <1>3 DEF Requested, User, UserRow, AnyNick
    <3> HIDE DEF r
    <3>5. users' \in [Users -> UserRow \union {None}] /\ u \in Live' /\ \A v \in Live : v \in Live' BY <3>2, <3>4, <1>0, RowSet
    <3>6. UNCHANGED <<userHash, nameIndex, studentIndex, invitations, tokenVars>> BY <2>11 DEF AddUser
    <3>7. FrontData' /\ UsersStay BY <3>5, <3>6, <1>0, <1>d, DataWith
    <3>8. pc'[p] = "index" /\ req'[p] = req[p] /\ seen'[p] = [seen[p] EXCEPT !.new = u] BY <3>2
    <3> QED BY <3>1, <3>5, <3>7, <3>8, <1>2, NewBrief
  <2>12. CASE AddUserIndex(p)
    <3>1. req[p].op \in {"register"} /\ pc[p] = "index" BY <2>12 DEF AddUserIndex, At
    <3>2. nameIndex' \in [Names -> Live \union {None}] BY <2>12, <3>1, <1>d, <1>3 DEF AddUserIndex, Briefed
    <3>3. FrontData' /\ UsersStay BY <2>12, <3>2, <1>0, <1>d, <1>u, DataWith DEF AddUserIndex
    <3>4. On(p, "newHash") BY <2>12 DEF AddUserIndex
    <3> QED BY <3>1, <3>3, <3>4, <1>s, <1>k, <1>3, FrontKinds
  <2>13. CASE AddUserHash(p)
    <3>1. req[p].op = "register" /\ pc[p] = "newHash" BY <2>13 DEF AddUserHash, At
    <3>2. seen[p].new \in Live BY <3>1, <1>3 DEF Briefed
    <3>3. users[seen[p].new].group \in Groups BY <3>2, <1>0, RowOf DEF UserRow
    <3>4. req[p].name \in AnyNick BY <3>1, <1>3 DEF Requested, AnyNick
    <3>5. HashData(userHash')
      <4> PICK u \in Users : u = seen[p].new BY <3>2, <1>l
      <4> PICK n \in AnyNick, g \in Groups : n = req[p].name /\ g = users[u].group BY <3>3, <3>4
      <4>1. userHash' = [userHash EXCEPT ![u] = [@ EXCEPT !.pwd = req[p].pwd, !.nick = n, !.group = g]] BY <2>13 DEF AddUserHash
      <4> QED BY <4>1, <1>d, NewHashSet
    <3> QED BY <2>13, <3>5, <1>0, <1>d, <1>u, DataWith DEF AddUserHash
  <2>14. CASE ChangePasswordCache(p)
    <3>1. req[p].op \in {"password"} /\ pc[p] = "pwdCache" BY <2>14 DEF ChangePasswordCache, At
    <3>2. HashData(userHash') BY <2>14, <3>1, <1>d, <1>3, <1>k, FieldSet DEF ChangePasswordCache
    <3>3. FrontData' /\ UsersStay BY <2>14, <3>2, <1>0, <1>d, <1>u, DataWith DEF ChangePasswordCache
    <3>4. On(p, "pwdRow") BY <2>14 DEF ChangePasswordCache
    <3> QED BY <3>1, <3>3, <3>4, <1>s, <1>k, <1>3, FrontKinds
  <2>15. CASE ChangePasswordRow(p)
    <3>1. req[p].op = "password" /\ pc[p] = "pwdRow" BY <2>15 DEF ChangePasswordRow, At
    <3> DEFINE u == seen[p].user
               r == [users[u] EXCEPT !.pwd = req[p].pwd]
    <3>2. users' = users \/ users' = [users EXCEPT ![u] = r] BY <2>15 DEF ChangePasswordRow
    <3>3. u \in Live \union Guests BY <3>1, <1>3, <1>k DEF Briefed
    <3>4. users' \in [Users -> UserRow \union {None}] /\ \A v \in Live : v \in Live'
      <4>1. CASE users' = users BY <4>1, <1>d, <1>u
      <4>2. CASE users' = [users EXCEPT ![u] = r] /\ u \in Live
        <5>1. r \in UserRow BY <4>2, <3>1, <1>0, <1>3, RowOf DEF UserRow, Requested
        <5> HIDE DEF r
        <5> QED BY <4>2, <5>1, <1>0, <1>l, RowSet
      <4>3. CASE users' = [users EXCEPT ![u] = r] /\ u \in Guests
        <5>1. u \notin Users BY <4>3, NoGuestIsUser
        <5>2. users' = users BY <4>3, <5>1, <1>d
        <5> QED BY <4>1, <5>2
      <4> QED BY <3>2, <3>3, <4>1, <4>2, <4>3
    <3>5. FrontData' /\ UsersStay BY <2>15, <3>4, <1>0, <1>d, DataWith DEF ChangePasswordRow
    <3>6. On(p, "answer") BY <2>15 DEF ChangePasswordRow
    <3> QED BY <3>1, <3>5, <3>6, <1>s, <1>k
  <2>16. CASE ChangeProfileCache(p)
    <3>1. req[p].op \in {"profile"} /\ pc[p] = "nickCache" BY <2>16 DEF ChangeProfileCache, At
    <3>2. HashData(userHash') BY <2>16, <3>1, <1>d, <1>3, <1>k, FieldSet DEF ChangeProfileCache, Requested, AnyNick
    <3>3. FrontData' /\ UsersStay BY <2>16, <3>2, <1>0, <1>d, <1>u, DataWith DEF ChangeProfileCache
    <3>4. On(p, "nickRow") BY <2>16 DEF ChangeProfileCache
    <3> QED BY <3>1, <3>3, <3>4, <1>s, <1>k, <1>3, FrontKinds
  <2>17. CASE ChangeProfileRow(p)
    <3>1. req[p].op = "profile" /\ pc[p] = "nickRow" BY <2>17 DEF ChangeProfileRow, At
    <3> DEFINE u == seen[p].user
               r == [users[u] EXCEPT !.nick = req[p].nick]
    <3>2. \/ users' = users /\ On(p, "answer")
          \/ users' = [users EXCEPT ![u] = r] /\ On(p, "nickSession")
      BY <2>17 DEF ChangeProfileRow
    <3>3. u \in Live \union Guests BY <3>1, <1>3, <1>k DEF Briefed
    <3>4. users' \in [Users -> UserRow \union {None}] /\ \A v \in Live : v \in Live'
      <4>1. CASE users' = users BY <4>1, <1>d, <1>u
      <4>2. CASE users' = [users EXCEPT ![u] = r] /\ u \in Live
        <5>1. r \in UserRow BY <4>2, <3>1, <1>0, <1>3, RowOf DEF UserRow, Requested, AnyNick
        <5> HIDE DEF r
        <5> QED BY <4>2, <5>1, <1>0, <1>l, RowSet
      <4>3. CASE users' = [users EXCEPT ![u] = r] /\ u \in Guests
        <5>1. u \notin Users BY <4>3, NoGuestIsUser
        <5>2. users' = users BY <4>3, <5>1, <1>d
        <5> QED BY <4>1, <5>2
      <4> QED BY <3>2, <3>3, <4>1, <4>2, <4>3
    <3>5. FrontData' /\ UsersStay BY <2>17, <3>4, <1>0, <1>d, DataWith DEF ChangeProfileRow
    <3>6. On(p, "answer") \/ On(p, "nickSession") BY <3>2
    <3> QED BY <3>1, <3>5, <3>6, <1>s, <1>k
  <2>18. CASE QueryGdStudentID(p)
    <3>1. req[p].op \in {"resync"} /\ pc[p] = "studentOf" BY <2>18 DEF QueryGdStudentID, At
    <3>2. HashData(userHash')
      <4> PICK u, v : u = req[p].user /\ v = users[u].student OBVIOUS
      <4>1. userHash' = userHash \/ userHash' = [userHash EXCEPT ![u].student = v] BY <2>18 DEF QueryGdStudentID
      <4>2. CASE userHash' = userHash BY <4>2, <1>d
      <4>3. CASE userHash' = [userHash EXCEPT ![u].student = v] BY <4>3, <1>d, FieldSet
      <4> QED BY <4>1, <4>2, <4>3
    <3>3. FrontData' /\ UsersStay BY <2>18, <3>2, <1>0, <1>d, <1>u, DataWith DEF QueryGdStudentID
    <3>4. On(p, "remark") \/ On(p, "answer") BY <2>18 DEF QueryGdStudentID
    <3> QED BY <3>1, <3>3, <3>4, <1>s, <1>k, <1>3, FrontKinds
  <2>19. CASE RemarkRow(p)
    <3>1. req[p].op \in Renames /\ pc[p] = "remark" BY <2>19 DEF RemarkRow, At
    <3> DEFINE u == Named(p)
               r == [users[u] EXCEPT !.nick = req[p].nick]
    <3>2. users' = users \/ (users' = [users EXCEPT ![u] = r] /\ users[u] # None) BY <2>19 DEF RemarkRow
    <3>3. u \in Users BY <3>1, <1>3, <1>l DEF Briefed, Named, Requested, Renames, Enrols
    <3>n. req[p].nick \in Nicknames BY <3>1, <1>3 DEF Briefed
    <3>4. users' \in [Users -> UserRow \union {None}] /\ \A v \in Live : v \in Live'
      <4>1. CASE users' = users BY <4>1, <1>d, <1>u
      <4>2. CASE users' = [users EXCEPT ![u] = r] /\ users[u] # None
        <5>0. u \in Live BY <4>2, <3>3 DEF Live
        <5>1. r \in UserRow BY <5>0, <3>n, <1>0, RowOf DEF UserRow, AnyNick
        <5> HIDE DEF r, u
        <5> QED BY <3>3, <4>2, <5>1, <1>0, RowSet
      <4> QED BY <3>2, <4>1, <4>2
    <3>5. FrontData' /\ UsersStay BY <2>19, <3>4, <1>0, <1>d, DataWith DEF RemarkRow
    <3>6. On(p, "remarked") BY <2>19 DEF RemarkRow
    <3> QED BY <3>1, <3>5, <3>6, <1>s, <1>k
  <2>20. CASE RemarkHash(p)
    <3>1. req[p].op \in Renames /\ pc[p] = "remarked" BY <2>20 DEF RemarkHash, At
    <3>2. req[p].nick \in AnyNick BY <3>1, <1>3 DEF Briefed, AnyNick
    <3>3. HashData(userHash') BY <2>20, <3>2, <1>d, FieldSet DEF RemarkHash
    <3>4. FrontData' /\ UsersStay BY <2>20, <3>3, <1>0, <1>d, <1>u, DataWith DEF RemarkHash
    <3>5. Return(p) \/ (On(p, "answer") /\ Client(p) # None) BY <2>20 DEF RemarkHash, Finish
    <3>6. Client(p) # None => req[p].op \notin Open BY <1>k, FrontKinds DEF Client, Open, Logins, Visits, Sessioned
    <3> QED BY <3>1, <3>4, <3>5, <3>6, <1>s, <1>k
  <2>21. CASE AccountFails(p)
    <3>1. UNCHANGED <<users, userHash, nameIndex, studentIndex, invitations, tokenVars>> BY <2>21 DEF AccountFails
    <3>2. FrontData' /\ UsersStay BY <3>1, <1>0, <1>d, <1>u, DataWith
    <3>3. \/ req[p].op = "loginGd" /\ With(p, "gd", Nobody)
          \/ req[p].op \in Sessioned /\ pc[p] \notin {"check", "rotate"} /\ On(p, "answer")
          \/ Return(p)
      BY <2>21, Zenon DEF AccountFails
    <3>4. CASE req[p].op = "loginGd" /\ With(p, "gd", Nobody)
      <4>1. pc'[p] = "gd" /\ req'[p] = req[p] /\ seen'[p] = Nobody BY <3>4
      <4>2. Carries(p)' BY <4>1 DEF Carries, Nobody
      <4> QED BY <3>2, <3>4, <4>1, <4>2 DEF Briefed, Logins, Visits, Sessioned, Open, Enrols, Renames
    <3>5. CASE req[p].op \in Sessioned /\ pc[p] \notin {"check", "rotate"} /\ On(p, "answer")
      BY <3>2, <3>5, <1>s, <1>k
    <3> QED BY <3>2, <3>3, <3>4, <3>5
  <2> QED BY <2>1, <2>2, <2>3, <2>4, <2>5, <2>6, <2>7, <2>8, <2>9, <2>10, <2>11, <2>12, <2>13, <2>14, <2>15, <2>16, <2>17, <2>18, <2>19, <2>20, <2>21 DEF Records
<1>5. Active(p, FrontOps)' => req'[p] \in Calls
  BY <1>1, <1>3 DEF GoesOn, Active, Busy, FrontTypes, FrontReqs
<1>6. Person(p)' => Briefed(p)' BY <1>4 DEF Person, Active, Busy
<1> QED BY <1>1, <1>4, <1>5, <1>6, TypesFrom DEF GoesOn

\* The ids of the phone numbers are those of guests.
Numbers == phoneId \in [Phones -> Guests \union {None}]

\* The steps of Experience by whether a request comes.
Calling(p) ==
  \/ onHttpGenerateClassInvitationToken(p) \/ onHttpQueryClassInvitationToken(p)
  \/ onHttpExperienceRegister(p) \/ onHttpExperienceLogin(p)
Visiting(p) ==
  \/ GenerateInvitation(p) \/ QueryInvitations(p) \/ DeleteExpired(p)
  \/ GetOffer(p) \/ DropOffer(p) \/ TakeOffer(p)
  \/ GetPhone(p) \/ NewGuest(p) \/ SetPhone(p) \/ BuildInfo(p)
  \/ Authorize(p) \/ LogExists(p) \/ LogFirst(p) \/ LogNext(p)
  \/ CheckAuthority(p) \/ StampLogin(p) \/ CountLogin(p) \/ VisitFails(p)

\* A request of a visitor or about invitations has come.
Called(p) ==
  /\ Handled(p) /\ pc[p] = "idle" /\ req'[p] \in Calls /\ seen'[p] = Nobody
  /\ <<req'[p].op, pc'[p]>> \in {<<"generate", "put">>, <<"tokens", "list">>, <<"try", "offer">>, <<"enter", "phone">>}

LEMMA ExperienceSteps == ASSUME NEW p, ExperienceStep(p) PROVE Calling(p) \/ Visiting(p)
BY Zenon DEF ExperienceStep, Calling, Visiting

LEMMA CallingCalls == ASSUME Locals, NEW p \in Procs, Calling(p) PROVE Called(p) /\ UNCHANGED <<accounts, visitors>>
<1>1. ASSUME NEW op, NEW l, Arrive(p, op, l)
      PROVE  /\ Handled(p) /\ pc[p] = "idle" /\ pc'[p] = l /\ seen'[p] = Nobody
             /\ req'[p] \in Calls /\ req'[p].op = op /\ UNCHANGED <<accounts, visitors>>
  <2>1. Start(p, op, l, Nobody) /\ UNCHANGED <<accounts, visitors>> BY <1>1 DEF Arrive, Come
  <2> HIDE DEF Nobody
  <2> QED BY <2>1, Handling
<1>2. CASE onHttpGenerateClassInvitationToken(p) BY <1>1, <1>2 DEF onHttpGenerateClassInvitationToken, Called
<1>3. CASE onHttpQueryClassInvitationToken(p) BY <1>1, <1>3 DEF onHttpQueryClassInvitationToken, Called
<1>4. CASE onHttpExperienceRegister(p) BY <1>1, <1>4 DEF onHttpExperienceRegister, Called
<1>5. CASE onHttpExperienceLogin(p) BY <1>1, <1>5 DEF onHttpExperienceLogin, Called
<1> QED BY <1>2, <1>3, <1>4, <1>5 DEF Calling

LEMMA VisitorsGoOn == ASSUME Locals, NEW p \in Procs, Visiting(p) PROVE GoesOn(p)
<1> USE Handling DEF GoesOn, Busy, At
<1>1. CASE GenerateInvitation(p) BY <1>1 DEF GenerateInvitation
<1>2. CASE QueryInvitations(p) BY <1>2 DEF QueryInvitations
<1>3. CASE DeleteExpired(p) BY <1>3 DEF DeleteExpired
<1>4. CASE GetOffer(p) BY <1>4 DEF GetOffer
<1>5. CASE DropOffer(p) BY <1>5 DEF DropOffer
<1>6. CASE TakeOffer(p) BY <1>6 DEF TakeOffer
<1>7. CASE GetPhone(p) BY <1>7 DEF GetPhone
<1>8. CASE NewGuest(p) BY <1>8 DEF NewGuest
<1>9. CASE SetPhone(p) BY <1>9 DEF SetPhone
<1>10. CASE BuildInfo(p) BY <1>10 DEF BuildInfo
<1>11. CASE Authorize(p) BY <1>11 DEF Authorize
<1>12. CASE LogExists(p) BY <1>12 DEF LogExists
<1>13. CASE LogFirst(p) BY <1>13 DEF LogFirst
<1>14. CASE LogNext(p) BY <1>14 DEF LogNext
<1>15. CASE CheckAuthority(p) BY <1>15 DEF CheckAuthority
<1>16. CASE StampLogin(p) BY <1>16 DEF StampLogin
<1>17. CASE CountLogin(p) BY <1>17 DEF CountLogin
<1>18. CASE VisitFails(p) BY <1>18 DEF VisitFails
<1> QED BY <1>1, <1>2, <1>3, <1>4, <1>5, <1>6, <1>7, <1>8, <1>9, <1>10, <1>11, <1>12, <1>13, <1>14, <1>15, <1>16, <1>17, <1>18 DEF Visiting

\* A visitor's handler that goes on.
LEMMA VisitBrief ==
  ASSUME FrontTypes, NEW p \in Procs, req[p].op \in Visits, req'[p] = req[p], Carries(p)',
         pc'[p] \in Unbuilt \union {"authorize", "exists", "logFirst", "logNext", "authority", "stamp", "count", "session"},
         pc'[p] \notin Unnumbered => seen'[p].user \in Guests,
         pc'[p] \notin Unbuilt => seen'[p].nick \in Phones
  PROVE  Briefed(p)'
BY DEF Briefed, Visits, Logins, Sessioned, Enrols, Renames, Unbuilt, Unnumbered

LEMMA VisitorsBriefed ==
  ASSUME Locals, FrontTypes, Numbers, scene' = scene, NEW p \in Procs, Visiting(p), May(p, Visits \union {"generate", "tokens"})
  PROVE  FrontTypes' /\ Numbers' /\ UsersStay
<1> USE Handling
<1>0. FrontData BY DEF FrontTypes
<1>1. GoesOn(p) BY VisitorsGoOn
<1>2. ASSUME req[p].op \in Visits PROVE Person(p) /\ Briefed(p) /\ Requested(req[p])
  BY <1>1, <1>2, Briefing DEF GoesOn, Person, Active
<1>3. req[p].op \in Visits \union {"generate", "tokens"} BY <1>1 DEF GoesOn, May
<1>s. ASSUME UNCHANGED accounts PROVE FrontData' /\ UsersStay
  <2>1. UNCHANGED <<users, userHash, nameIndex, studentIndex, invitations, session, held>>
    BY <1>s DEF accounts, userRows, tokenVars
  <2>2. UsersStay /\ Live' = Live BY <2>1 DEF UsersStay, Live
  <2> QED BY <2>1, <2>2, <1>0 DEF FrontData
<1>n. UNCHANGED phoneId => Numbers' BY DEF Numbers
<1>v. ASSUME NEW l, On(p, l), req[p].op \in Visits,
             l \in {"drop", "phone", "incr", "build", "exists", "logFirst", "logNext", "stamp", "count", "session"},
             l = "build" => pc[p] = "setPhone",
             l \in {"exists", "logFirst", "logNext", "stamp", "count", "session"} =>
               pc[p] \in {"authorize", "exists", "logFirst", "logNext", "authority", "stamp", "count", "session"}
      PROVE  Briefed(p)'
  <2>1. pc'[p] = l /\ req'[p] = req[p] /\ seen'[p] = seen[p] BY <1>v
  <2>2. Briefed(p) /\ Carries(p)' BY <1>2, <1>v, <2>1 DEF Briefed, Carries
  <2> QED BY <1>v, <2>1, <2>2, VisitBrief DEF Briefed, Unbuilt, Unnumbered
<1>4. FrontData' /\ UsersStay /\ Numbers' /\ (Person(p)' => Briefed(p)')
  <2>1. CASE GenerateInvitation(p)
    <3>1. ~Person(p)' BY <2>1, <1>3, FrontKinds DEF GenerateInvitation, At, Person, Active, Busy, Visits, UserOps, Logins, Open, Sessioned
    <3>2. UNCHANGED accounts /\ UNCHANGED phoneId BY <2>1 DEF GenerateInvitation, guestIds, visitors
    <3> QED BY <3>1, <3>2, <1>s, <1>n
  <2>2. CASE QueryInvitations(p)
    <3>1. req'[p] = req[p] /\ req[p].op = "tokens" BY <2>2 DEF QueryInvitations, At
    <3>2. ~Person(p)' BY <3>1 DEF Person, Active, Visits, UserOps, Logins, Open, Sessioned
    <3>3. UNCHANGED accounts /\ UNCHANGED phoneId BY <2>2 DEF QueryInvitations, guestIds, visitors
    <3> QED BY <3>2, <3>3, <1>s, <1>n
  <2>3. CASE DeleteExpired(p)
    <3>1. ~Person(p)' BY <2>3, <1>3, FrontKinds DEF DeleteExpired, At, Person, Active, Busy, Visits, UserOps, Logins, Open, Sessioned
    <3>2. UNCHANGED accounts /\ UNCHANGED phoneId BY <2>3 DEF DeleteExpired, guestIds, visitors
    <3> QED BY <3>1, <3>2, <1>s, <1>n
  <2>4. CASE GetOffer(p)
    <3>1. req[p].op = "try" /\ pc[p] = "offer" BY <2>4 DEF GetOffer, At
    <3>2. UNCHANGED accounts /\ UNCHANGED phoneId BY <2>4 DEF GetOffer, offering, guestIds
    <3>3. \/ Return(p) \/ On(p, "drop")
          \/ \E i : With(p, IF req[p].teacher = None THEN "take" ELSE "phone", [seen[p] EXCEPT !.info = i])
      BY <2>4 DEF GetOffer
    <3>4. CASE \E i : With(p, IF req[p].teacher = None THEN "take" ELSE "phone", [seen[p] EXCEPT !.info = i])
      <4> PICK i : With(p, IF req[p].teacher = None THEN "take" ELSE "phone", [seen[p] EXCEPT !.info = i]) BY <3>4
      <4>1. pc'[p] \in {"take", "phone"} /\ req'[p] = req[p] /\ seen'[p] = [seen[p] EXCEPT !.info = i] OBVIOUS
      <4>2. Briefed(p) BY <3>1, <1>2 DEF Visits
      <4>3. Carries(p)' BY <4>1, <4>2 DEF Briefed, Carries
      <4>4. Briefed(p)' BY <3>1, <4>1, <4>3, VisitBrief DEF Visits, Unnumbered, Unbuilt
      <4> QED BY <3>2, <4>4, <1>s, <1>n
    <3> QED BY <3>1, <3>2, <3>3, <3>4, <1>s, <1>n, <1>v DEF Visits, Person, Active, Busy
  <2>5. CASE DropOffer(p)
    <3>1. ~Person(p)' BY <2>5, <1>3, FrontKinds DEF DropOffer, At, Person, Active, Busy, Visits, UserOps, Logins, Open, Sessioned
    <3>2. UNCHANGED accounts /\ UNCHANGED phoneId BY <2>5 DEF DropOffer, guestIds, visitors
    <3> QED BY <3>1, <3>2, <1>s, <1>n
  <2>6. CASE TakeOffer(p)
    <3>1. req[p].op \in {"try"} /\ pc[p] = "take" BY <2>6 DEF TakeOffer, At
    <3>2. On(p, "phone") BY <2>6 DEF TakeOffer
    <3>3. UNCHANGED accounts /\ UNCHANGED phoneId BY <2>6 DEF TakeOffer, guestIds, visitors
    <3> QED BY <3>1, <3>2, <3>3, <1>s, <1>n, <1>v DEF Visits, Person, Active, Busy
  <2>7. CASE GetPhone(p)
    <3>1. req[p].op \in Visits /\ pc[p] = "phone" BY <2>7 DEF GetPhone, At
    <3>2. UNCHANGED accounts /\ UNCHANGED phoneId BY <2>7 DEF GetPhone, offering, guestIds
    <3>3. \/ On(p, "incr")
          \/ phoneId[req[p].phone] # None /\ With(p, "build", [seen[p] EXCEPT !.user = phoneId[req[p].phone]])
      BY <2>7 DEF GetPhone
    <3>4. CASE phoneId[req[p].phone] # None /\ With(p, "build", [seen[p] EXCEPT !.user = phoneId[req[p].phone]])
      <4> PICK g : g = phoneId[req[p].phone] OBVIOUS
      <4>1. pc'[p] = "build" /\ req'[p] = req[p] /\ seen'[p] = [seen[p] EXCEPT !.user = g] BY <3>4
      <4>2. Briefed(p) /\ req[p].phone \in Phones BY <3>1, <1>2 DEF Requested
      <4>3. g \in Guests BY <3>4, <4>2 DEF Numbers
      <4>4. Carries(p)' /\ seen'[p].user = g BY <4>1, <4>2 DEF Briefed, Carries
      <4>5. Briefed(p)' BY <3>1, <4>1, <4>3, <4>4, VisitBrief DEF Unnumbered, Unbuilt
      <4> QED BY <3>2, <4>5, <1>s, <1>n
    <3> QED BY <3>1, <3>2, <3>3, <3>4, <1>s, <1>n, <1>v
  <2>8. CASE NewGuest(p)
    <3>1. req[p].op \in Visits /\ pc[p] = "incr" BY <2>8 DEF NewGuest, At
    <3>2. UNCHANGED accounts /\ UNCHANGED phoneId BY <2>8 DEF NewGuest
    <3>3. PICK g \in Guests : With(p, "setPhone", [seen[p] EXCEPT !.user = g]) BY <2>8 DEF NewGuest
    <3>4. pc'[p] = "setPhone" /\ req'[p] = req[p] /\ seen'[p] = [seen[p] EXCEPT !.user = g] BY <3>3
    <3>5. Briefed(p) BY <3>1, <1>2
    <3>6. Carries(p)' /\ seen'[p].user = g BY <3>4, <3>5 DEF Briefed, Carries
    <3>7. Briefed(p)' BY <3>1, <3>4, <3>6, VisitBrief DEF Unnumbered, Unbuilt
    <3> QED BY <3>2, <3>7, <1>s, <1>n
  <2>9. CASE SetPhone(p)
    <3>1. req[p].op \in Visits /\ pc[p] = "setPhone" /\ On(p, "build") BY <2>9 DEF SetPhone, At
    <3>2. UNCHANGED accounts BY <2>9 DEF SetPhone
    <3>3. phoneId' = [phoneId EXCEPT ![req[p].phone] = seen[p].user] \/ UNCHANGED phoneId BY <2>9 DEF SetPhone
    <3>4. seen[p].user \in Guests BY <3>1, <1>2 DEF Briefed, Unnumbered
    <3>5. Numbers' BY <3>3, <3>4 DEF Numbers
    <3> QED BY <3>1, <3>2, <3>5, <1>s, <1>v
  <2>10. CASE BuildInfo(p)
    <3> DEFINE u == seen[p].user
               s == [group |-> "student", nick |-> req[p].phone,
                     token |-> [a \in Apps |-> IF a = "web" \/ session[u] = None THEN None ELSE session[u].token[a]]]
    <3>1. req[p].op \in Visits /\ pc[p] = "build" BY <2>10 DEF BuildInfo, At
    <3>2. /\ UNCHANGED <<userRows, held>> /\ UNCHANGED phoneId
          /\ With(p, IF req[p].op = "try" THEN "authorize" ELSE "authority", [seen[p] EXCEPT !.nick = req[p].phone])
          /\ session' = [session EXCEPT ![u] = s] \/ UNCHANGED session
      BY <2>10 DEF BuildInfo, visitors, guestIds
    <3>3. Briefed(p) /\ req[p].phone \in Phones BY <3>1, <1>2 DEF Requested
    <3>4. u \in Guests BY <3>1, <3>3 DEF Briefed, Unnumbered
    <3>5. s \in SessionInfo
      <4>1. session[u] \in SessionInfo \union {None} BY <3>4, <1>0 DEF FrontData
      <4>2. s.token \in [Apps -> Tokens \union {None}] BY <4>1 DEF SessionInfo
      <4> QED BY <4>2, <3>3 DEF SessionInfo, Groups
    <3> HIDE DEF s
    <3>6. FrontData' /\ UsersStay
      <4>1. CASE session' = [session EXCEPT ![u] = s]
        <5> PICK v \in Users \union Guests : v = u BY <3>4
        <5>1. session' = [session EXCEPT ![v] = s] BY <4>1
        <5> QED BY <5>1, <3>2, <3>5, SessionSet
      <4>2. CASE UNCHANGED session
        <5>1. UNCHANGED <<users, userHash, nameIndex, studentIndex, invitations, session, held>> BY <3>2, <4>2 DEF userRows
        <5>2. UsersStay /\ Live' = Live BY <5>1 DEF UsersStay, Live
        <5> QED BY <5>1, <5>2, <1>0 DEF FrontData
      <4> QED BY <3>2, <4>1, <4>2
    <3>7. pc'[p] \in {"authorize", "authority"} /\ req'[p] = req[p] /\ seen'[p] = [seen[p] EXCEPT !.nick = req[p].phone]
      BY <3>2
    <3>8. Carries(p)' /\ seen'[p].user = u /\ seen'[p].nick = req[p].phone BY <3>3, <3>7 DEF Briefed, Carries
    <3>9. Briefed(p)' BY <3>1, <3>3, <3>4, <3>7, <3>8, VisitBrief DEF Unnumbered, Unbuilt
    <3> QED BY <3>2, <3>6, <3>9, <1>n
  <2>11. CASE Authorize(p)
    <3>1. req[p].op \in {"try"} /\ pc[p] = "authorize" BY <2>11 DEF Authorize, At
    <3>2. Return(p) \/ On(p, "exists") BY <2>11 DEF Authorize
    <3>3. UNCHANGED accounts /\ UNCHANGED phoneId BY <2>11 DEF Authorize, guestIds, visitors
    <3> QED BY <3>1, <3>2, <3>3, <1>s, <1>n, <1>v DEF Visits, Person, Active, Busy
  <2>12. CASE LogExists(p)
    <3>1. req[p].op \in {"try"} /\ pc[p] = "exists" BY <2>12 DEF LogExists, At
    <3>2. On(p, "logFirst") \/ On(p, "logNext") BY <2>12 DEF LogExists
    <3>3. UNCHANGED accounts /\ UNCHANGED phoneId BY <2>12 DEF LogExists, guestIds, visitors
    <3> QED BY <3>1, <3>2, <3>3, <1>s, <1>n, <1>v DEF Visits, Person, Active, Busy
  <2>13. CASE LogFirst(p)
    <3>1. req[p].op \in {"try"} /\ pc[p] = "logFirst" BY <2>13 DEF LogFirst, At
    <3>2. On(p, "session") BY <2>13 DEF LogFirst
    <3>3. UNCHANGED accounts /\ UNCHANGED phoneId BY <2>13 DEF LogFirst, guestIds, visitors
    <3> QED BY <3>1, <3>2, <3>3, <1>s, <1>n, <1>v DEF Visits, Person, Active, Busy
  <2>14. CASE LogNext(p)
    <3>1. req[p].op \in {"try"} /\ pc[p] = "logNext" BY <2>14 DEF LogNext, At
    <3>2. On(p, "session") BY <2>14 DEF LogNext
    <3>3. UNCHANGED accounts /\ UNCHANGED phoneId BY <2>14 DEF LogNext, guestIds, visitors
    <3> QED BY <3>1, <3>2, <3>3, <1>s, <1>n, <1>v DEF Visits, Person, Active, Busy
  <2>15. CASE CheckAuthority(p)
    <3>1. req[p].op \in {"enter"} /\ pc[p] = "authority" BY <2>15 DEF CheckAuthority, At
    <3>2. Return(p) \/ On(p, "stamp") BY <2>15 DEF CheckAuthority
    <3>3. UNCHANGED accounts /\ UNCHANGED phoneId BY <2>15 DEF CheckAuthority, guestIds, visitors
    <3> QED BY <3>1, <3>2, <3>3, <1>s, <1>n, <1>v DEF Visits, Person, Active, Busy
  <2>16. CASE StampLogin(p)
    <3>1. req[p].op \in {"enter"} /\ pc[p] = "stamp" BY <2>16 DEF StampLogin, At
    <3>2. On(p, "count") BY <2>16 DEF StampLogin
    <3>3. UNCHANGED accounts /\ UNCHANGED phoneId BY <2>16 DEF StampLogin, guestIds, visitors
    <3> QED BY <3>1, <3>2, <3>3, <1>s, <1>n, <1>v DEF Visits, Person, Active, Busy
  <2>17. CASE CountLogin(p)
    <3>1. req[p].op \in {"enter"} /\ pc[p] = "count" BY <2>17 DEF CountLogin, At
    <3>2. On(p, "session") BY <2>17 DEF CountLogin
    <3>3. UNCHANGED accounts /\ UNCHANGED phoneId BY <2>17 DEF CountLogin, guestIds, visitors
    <3> QED BY <3>1, <3>2, <3>3, <1>s, <1>n, <1>v DEF Visits, Person, Active, Busy
  <2>18. CASE VisitFails(p)
    <3>1. ~Person(p)' BY <2>18, <1>3, FrontKinds DEF VisitFails, At, Person, Active, Busy, Visits, UserOps, Logins, Open, Sessioned
    <3>2. UNCHANGED accounts /\ UNCHANGED phoneId BY <2>18 DEF VisitFails, guestIds, visitors
    <3> QED BY <3>1, <3>2, <1>s, <1>n
  <2> QED BY <2>1, <2>2, <2>3, <2>4, <2>5, <2>6, <2>7, <2>8, <2>9, <2>10, <2>11, <2>12, <2>13, <2>14, <2>15, <2>16, <2>17, <2>18 DEF Visiting
<1>5. Active(p, FrontOps)' => req'[p] \in Calls
  BY <1>1, <1>3 DEF GoesOn, Active, Busy, FrontTypes, FrontReqs, FrontOps
<1> QED BY <1>1, <1>4, <1>5, TypesFrom DEF GoesOn

LEMMA CalledBriefed ==
  ASSUME Locals, FrontTypes, scene' = scene, NEW p \in Procs, Called(p), UNCHANGED accounts
  PROVE  FrontTypes' /\ UsersStay
<1>1. UNCHANGED <<users, userHash, nameIndex, studentIndex, invitations, session, held>> BY DEF accounts, userRows, tokenVars
<1>2. UsersStay /\ Live' = Live BY <1>1 DEF UsersStay, Live
<1>3. FrontData' BY <1>1, <1>2 DEF FrontTypes, FrontData
<1>4. Person(p)' => Briefed(p)'
  <2>1. Carries(p)' BY DEF Called, Nobody, Carries
  <2> QED BY <2>1 DEF Called, Briefed, Person, Active, UserOps, Visits, Logins, Sessioned, Open, Enrols, Renames, Unbuilt, Unnumbered
<1> QED BY <1>2, <1>3, <1>4, TypesFrom DEF Called

\* What the handlers of users and visitors have, after a step of one of them.
LEMMA FrontTyped ==
  ASSUME Locals, FrontTypes, Numbers, scene' = scene, NEW p \in Procs
  PROVE  /\ May(p, UserOps \union Visits) /\ AccountsStep(p) /\ UNCHANGED visitors => FrontTypes' /\ Numbers' /\ UsersStay
         /\ May(p, Visits \union {"generate", "tokens"}) /\ ExperienceStep(p) => FrontTypes' /\ Numbers' /\ UsersStay
<1>1. ASSUME May(p, UserOps \union Visits), AccountsStep(p), UNCHANGED visitors PROVE FrontTypes' /\ Numbers' /\ UsersStay
  <2>1. Arrives(p) \/ Looks(p) \/ Holds(p) \/ Records(p) BY <1>1, AccountsSteps
  <2>2. Arrives(p) => FrontTypes' /\ UsersStay BY Arriving, CameBriefed
  <2>3. Numbers' BY <1>1 DEF Numbers, visitors, guestIds
  <2> QED BY <1>1, <2>1, <2>2, <2>3, LooksBriefed, HoldsBriefed, RecordsBriefed
<1>2. ASSUME May(p, Visits \union {"generate", "tokens"}), ExperienceStep(p) PROVE FrontTypes' /\ Numbers' /\ UsersStay
  <2>1. CASE Calling(p)
    <3>1. Called(p) /\ UNCHANGED <<accounts, visitors>> BY <2>1, CallingCalls
    <3>2. Numbers' BY <3>1 DEF Numbers, visitors, guestIds
    <3> QED BY <3>1, <3>2, CalledBriefed
  <2>2. CASE Visiting(p) BY <1>2, <2>2, VisitorsBriefed
  <2> QED BY <1>2, <2>1, <2>2, ExperienceSteps
<1> QED BY <1>1, <1>2

\* Where neither takes a step.
LEMMA FrontRests ==
  ASSUME FrontTypes, Numbers, scene' = scene, Rests(FrontOps), UNCHANGED <<accounts, phoneId>>
  PROVE  FrontTypes' /\ Numbers' /\ UsersStay
<1>1. UNCHANGED <<users, userHash, nameIndex, studentIndex, invitations, session, held>> BY DEF accounts, userRows, tokenVars
<1>2. UsersStay /\ Live' = Live BY <1>1 DEF UsersStay, Live
<1>3. FrontData' /\ Numbers' BY <1>1, <1>2 DEF FrontTypes, FrontData, Numbers
<1>4. FrontReqs' BY DEF FrontTypes, FrontReqs, Rests, Calls
<1>5. ASSUME NEW p \in Procs, Person(p)' PROVE Briefed(p)'
  <2>1. Active(p, FrontOps)' BY <1>5, FrontKinds DEF Person, Active
  <2>2. Active(p, FrontOps) /\ pc'[p] = pc[p] /\ req'[p] = req[p] /\ seen'[p] = seen[p] BY <2>1 DEF Rests
  <2>3. Person(p) BY <1>5, <2>2 DEF Person, Active, Busy
  <2> QED BY <1>1, <1>2, <2>2, <2>3 DEF FrontTypes, Briefed, Carries
<1> QED BY <1>2, <1>3, <1>4, <1>5 DEF FrontTypes

LEMMA FrontInit == ASSUME Init PROVE FrontTypes /\ Numbers
<1> USE DEF Init, HandlersInit, AccountsInit, ExperienceInit
<1>1. First \in Users /\ Admin \in UserRow /\ None \notin UserRow BY AdminIsUser, NoneIsNoUser
<1>2. users \in [Users -> UserRow \union {None}] /\ First \in Live BY <1>1 DEF Live
<1>3. HashData(userHash)
  <2>1. \A u \in Users : userHash[u] = [f \in Fields |-> userHash[u][f]] BY DEF NoHash
  <2>2. Admin.nick \in AnyNick /\ Admin.group \in Groups BY <1>1 DEF UserRow
  <2>3. \A u \in Users : userHash[u].nick \in {Admin.nick, None} /\ userHash[u].group \in {Admin.group, None} BY DEF NoHash, Fields
  <2> QED BY <2>1, <2>2, <2>3 DEF HashData
<1> HIDE DEF Live
<1>4. FrontData BY <1>2, <1>3 DEF FrontData
<1>5. \A p \in Procs : ~Busy(p) BY DEF Busy
<1> QED BY <1>4, <1>5 DEF FrontTypes, FrontReqs, Active, Person, Numbers

(***************************************************************************)
(* Sessions: the token a client has got, or is about to get, is the one    *)
(* that its session has, unless the client is displaced.                   *)
(***************************************************************************)

\* p has put a new token into the session, and has not answered.
Rotated(p) ==
  /\ Active(p, Logins \union Visits \union Sessioned)
  /\ IF req[p].op \in Sessioned THEN pc[p] \notin {"check", "rotate"} ELSE pc[p] = "answer"
For(p, c) == Rotated(p) /\ req[p].client = c

Valid(u, c, t) == session[u] # None /\ session[u].token[AppOf[c]] = t

TokenHolds(c) ==
  /\ held[c] # None /\ (\A p \in Procs : ~For(p, c)) => Valid(held[c].user, c, held[c].token)
  /\ \A p \in Procs : For(p, c) => Valid(seen[p].user, c, seen[p].token)
  /\ \A p, q \in Procs : For(p, c) /\ For(q, c) => p = q
TokenInv == \A c \in Clients \ displaced : TokenHolds(c)

\* What p has rotated stays as it is.
Unrotated(p) ==
  /\ Rotated(p)' <=> Rotated(p)
  /\ Rotated(p) => req'[p].client = req[p].client /\ seen'[p].user = seen[p].user /\ seen'[p].token = seen[p].token

LEMMA RotatedSends == ASSUME NEW p, NEW c, For(p, c) PROVE Client(p) = c
BY DEF For, Rotated, Active, Client

LEMMA RotatedUser ==
  ASSUME FrontTypes, NEW p \in Procs, Rotated(p) PROVE seen[p].user \in Users \union Guests
<1>1. Person(p) BY FrontKinds DEF Rotated, Active, Person
<1>2. Briefed(p) BY <1>1 DEF FrontTypes
<1> QED BY <1>2 DEF Briefed, Rotated, Active, Live, Unnumbered

\* A client whose tokens nothing is done about.
LEMMA TokensKept ==
  ASSUME FrontTypes, NEW c \in Clients, TokenHolds(c), held'[c] = held[c],
         \A q \in Procs : For(q, c)' <=> For(q, c),
         \A q \in Procs : For(q, c) => seen'[q].user = seen[q].user /\ seen'[q].token = seen[q].token,
         \A t : \A u \in Users \union Guests :
           ((held[c] # None /\ held[c].user = u) \/ (\E q \in Procs : For(q, c) /\ seen[q].user = u)) /\ Valid(u, c, t) => Valid(u, c, t)'
  PROVE  TokenHolds(c)'
<1>1. held[c] # None => held[c].user \in Users \union Guests BY DEF FrontTypes, FrontData, Live
<1>2. \A q \in Procs : For(q, c) => seen[q].user \in Users \union Guests BY RotatedUser DEF For
<1>3. held'[c] # None /\ (\A q \in Procs : ~For(q, c)') => Valid(held[c].user, c, held[c].token)'
  BY <1>1 DEF TokenHolds, Valid
<1>4. \A q \in Procs : For(q, c)' => Valid(seen[q].user, c, seen[q].token)'
  BY <1>2 DEF TokenHolds, Valid
<1>5. \A q, r \in Procs : For(q, c)' /\ For(r, c)' => q = r BY DEF TokenHolds
<1> QED BY <1>3, <1>4, <1>5 DEF TokenHolds

LEMMA TokensQuiet ==
  ASSUME FrontTypes, TokenInv, UNCHANGED <<held, displaced>>, \A q \in Procs : Unrotated(q),
         \A u \in Users \union Guests : session[u] # None => session'[u] # None /\ session'[u].token = session[u].token
  PROVE  TokenInv'
<1>1. \A c : \A q \in Procs : For(q, c)' <=> For(q, c) BY DEF Unrotated, For
<1>2. \A c : \A q \in Procs : For(q, c) => seen'[q].user = seen[q].user /\ seen'[q].token = seen[q].token BY DEF Unrotated, For
<1>3. \A c, t : \A u \in Users \union Guests : Valid(u, c, t) => Valid(u, c, t)' BY DEF Valid
<1> QED BY <1>1, <1>2, <1>3, TokensKept DEF TokenInv

LEMMA OthersUnrotated ==
  ASSUME NEW p \in Procs, Handled(p), NEW q \in Procs \ {p} PROVE Unrotated(q)
<1>1. pc'[q] = pc[q] /\ req'[q] = req[q] /\ seen'[q] = seen[q] BY DEF Handled
<1> QED BY <1>1 DEF Unrotated, Rotated, Active, Busy

\* p puts token t into the session of its user.
LEMMA TokensSet ==
  ASSUME Locals, FrontTypes, TokenInv, NEW p \in Procs, Handled(p), NEW c \in Clients, NEW u \in Users \union Guests, NEW t,
         Client(p) = c, seen[p].user = u, ~Rotated(p),
         For(p, c)', seen'[p].user = u, seen'[p].token = t, held' = held,
         session'[u] # None, session'[u].token[AppOf[c]] = t,
         \A b \in Apps \ {AppOf[c]} : session[u] # None => session'[u].token[b] = session[u].token[b],
         \A v \in (Users \union Guests) \ {u} : session'[v] = session[v],
         Rivals(p) \subseteq displaced', displaced \ {c} \subseteq displaced'
  PROVE  TokenInv'
<1> SUFFICES ASSUME NEW d \in Clients \ displaced' PROVE TokenHolds(d)' BY DEF TokenInv
<1>1. ASSUME NEW q \in Procs \ {p}, NEW e \in Clients
      PROVE  /\ For(q, e)' <=> For(q, e)
             /\ For(q, e) => seen'[q].user = seen[q].user /\ seen'[q].token = seen[q].token
  <2>1. Unrotated(q) BY OthersUnrotated
  <2> QED BY <2>1 DEF Unrotated, For
<1>2. CASE d = c
  <2>1. \A q \in Procs \ {p} : Client(q) # c BY <1>2 DEF Rivals, Sends
  <2>2. \A q \in Procs \ {p} : ~For(q, c)' BY <2>1, <1>1, RotatedSends
  <2>3. Valid(seen[p].user, c, seen[p].token)' BY DEF Valid
  <2> QED BY <1>2, <2>2, <2>3 DEF TokenHolds
<1>3. CASE d # c
  <2>1. d \notin As(u, AppOf[c]) BY <1>3 DEF Rivals
  <2>2. \A q \in Procs : For(q, d)' <=> For(q, d)
    <3>1. ~For(p, d)' /\ ~For(p, d) BY <1>3 DEF For
    <3> QED BY <3>1, <1>1
  <2>3. \A q \in Procs : For(q, d) => seen'[q].user = seen[q].user /\ seen'[q].token = seen[q].token
    <3>1. ~For(p, d) BY DEF For
    <3> QED BY <3>1, <1>1
  <2>4. ASSUME NEW v \in Users \union Guests, NEW s, Valid(v, d, s),
               (held[d] # None /\ held[d].user = v) \/ (\E q \in Procs : For(q, d) /\ seen[q].user = v)
        PROVE  Valid(v, d, s)'
    <3>1. CASE v # u BY <3>1, <2>4 DEF Valid
    <3>2. CASE v = u
      <4>1. \A q \in Procs : For(q, d) => Sends(q, d) BY RotatedSends DEF Sends
      <4>2. AppOf[d] # AppOf[c] BY <2>1, <2>4, <3>2, <4>1 DEF As
      <4>3. AppOf[d] \in Apps \ {AppOf[c]} BY <4>2, ClientsHaveApps
      <4> QED BY <2>4, <3>2, <4>3 DEF Valid
    <3> QED BY <3>1, <3>2
  <2>5. TokenHolds(d) /\ held'[d] = held[d] BY <1>3 DEF TokenInv
  <2> QED BY <2>2, <2>3, <2>4, <2>5, TokensKept
<1> QED BY <1>2, <1>3

\* p ends, or has a token that the session may not have; its client is displaced or has the token.
LEMMA TokensLeft ==
  ASSUME Locals, FrontTypes, TokenInv, NEW p \in Procs, Handled(p), NEW c \in Clients, Client(p) = c, session' = session,
         \A d \in Clients \ {c} : held'[d] = held[d] /\ ~For(p, d)', displaced \subseteq displaced',
         \/ c \in displaced'
         \/ /\ For(p, c) /\ pc'[p] = "idle"
            /\ held'[c] = [user |-> seen[p].user, token |-> seen[p].token]
  PROVE  TokenInv'
<1> SUFFICES ASSUME NEW d \in Clients \ displaced' PROVE TokenHolds(d)' BY DEF TokenInv
<1>1. ASSUME NEW q \in Procs \ {p}, NEW e \in Clients
      PROVE  /\ For(q, e)' <=> For(q, e)
             /\ For(q, e) => seen'[q].user = seen[q].user /\ seen'[q].token = seen[q].token
  <2>1. Unrotated(q) BY OthersUnrotated
  <2> QED BY <2>1 DEF Unrotated, For
<1>2. TokenHolds(d) BY DEF TokenInv
<1>3. CASE d = c
  <2>1. For(p, c) /\ pc'[p] = "idle" /\ held'[c] = [user |-> seen[p].user, token |-> seen[p].token] BY <1>3
  <2>2. \A q \in Procs \ {p} : ~For(q, c)' BY <1>1, <1>2, <1>3, <2>1 DEF TokenHolds
  <2>3. ~For(p, c)' BY <2>1 DEF For, Rotated, Active, Busy
  <2>4. Valid(seen[p].user, c, seen[p].token) BY <1>2, <1>3, <2>1 DEF TokenHolds
  <2>5. Valid(held[c].user, c, held[c].token)' BY <2>1, <2>4 DEF Valid
  <2> QED BY <1>3, <2>2, <2>3, <2>5 DEF TokenHolds
<1>4. CASE d # c
  <2>1. ~For(p, d) BY <1>4, RotatedSends
  <2>2. \A q \in Procs : For(q, d)' <=> For(q, d) BY <1>1, <1>4, <2>1
  <2>3. \A q \in Procs : For(q, d) => seen'[q].user = seen[q].user /\ seen'[q].token = seen[q].token BY <1>1, <2>1
  <2>4. \A s : \A v \in Users \union Guests : Valid(v, d, s) => Valid(v, d, s)' BY DEF Valid
  <2> QED BY <1>2, <1>4, <2>2, <2>3, <2>4, TokensKept
<1> QED BY <1>3, <1>4

LEMMA RotationStays ==
  ASSUME Locals, FrontTypes, NEW p \in Procs, Looks(p) \/ Records(p), May(p, UserOps \union Visits)
  PROVE  Unrotated(p)
<1> USE Handling
<1>1. GoesOn(p) BY AccountsGoOn
<1>2. Person(p) BY <1>1 DEF GoesOn, Person, Active, May
<1>3. Carries(p) BY <1>2, Briefing DEF Briefed
<1>e. /\ \A v : [seen[p] EXCEPT !.new = v].user = seen[p].user /\ [seen[p] EXCEPT !.new = v].token = seen[p].token
      /\ \A v, w : /\ [seen[p] EXCEPT !.new = v, !.nick = w].user = seen[p].user
                   /\ [seen[p] EXCEPT !.new = v, !.nick = w].token = seen[p].token
  <2> PICK s : s = seen[p] OBVIOUS
  <2>1. s = [user |-> s.user, token |-> s.token, new |-> s.new, group |-> s.group, nick |-> s.nick, info |-> s.info]
    BY <1>3 DEF Carries
  <2> QED BY <2>1
<1>k. /\ Sessioned \cap (Logins \union Visits) = {} /\ Open \cap (Logins \union Visits \union Sessioned) = {}
      /\ "enrol" \in Sessioned /\ Renames \cap (Logins \union Visits) = {} /\ {"rename", "resync", "enrol"} = Renames \cap Sessioned
      /\ Enrols \subseteq Renames /\ Enrols \cap Sessioned = {"enrol"}
      /\ {"password", "profile", "invite", "uninvite", "use"} \subseteq Sessioned /\ {"login", "loginGd", "pass"} = Logins
      /\ Asking = {"pass", "loginGd"} \union Enrols /\ "register" \in Open
  BY DEF Sessioned, Logins, Visits, Open, Renames, Enrols, Asking
<1>4. ASSUME pc'[p] = "idle" \/ req'[p] = req[p],
             req[p].op \in Sessioned /\ pc[p] \notin {"check", "rotate"} =>
               /\ pc'[p] \notin {"check", "rotate", "idle"} /\ seen'[p].user = seen[p].user /\ seen'[p].token = seen[p].token,
             req[p].op \in Sessioned /\ pc[p] \in {"check", "rotate"} => pc'[p] \in {"check", "rotate", "idle"},
             req[p].op \in Logins \union Visits => pc[p] # "answer" /\ pc'[p] # "answer"
      PROVE  Unrotated(p)
  <2>1. Busy(p) BY <1>1 DEF GoesOn
  <2>2. CASE pc'[p] = "idle"
    <3>1. ~Rotated(p)' BY <2>2 DEF Rotated, Active, Busy
    <3>2. ~Rotated(p) BY <1>4, <1>k, <2>2 DEF Rotated, Active
    <3> QED BY <3>1, <3>2 DEF Unrotated
  <2>3. CASE pc'[p] # "idle" /\ req'[p] = req[p]
    <3>1. CASE req[p].op \in Sessioned BY <1>4, <2>1, <2>3, <3>1 DEF Rotated, Active, Busy, Unrotated
    <3>2. CASE req[p].op \in Logins \union Visits /\ req[p].op \notin Sessioned
      BY <1>4, <2>1, <2>3, <3>2 DEF Rotated, Active, Busy, Unrotated
    <3>3. CASE req[p].op \notin Logins \union Visits \union Sessioned
      BY <2>3, <3>3 DEF Rotated, Active, Busy, Unrotated
    <3> QED BY <3>1, <3>2, <3>3
  <2> QED BY <1>4, <2>2, <2>3
<1>f. ASSUME NEW u, NEW k, Found(p, u, k), req[p].op \in Asking, pc[p] \in {"student", "fill", "addHash"} PROVE Unrotated(p)
  <2>1. CASE req[p].op \notin Enrols BY <1>f, <2>1, <1>4, <1>k DEF Found
  <2>2. CASE req[p].op \in Enrols /\ req[p].nick # None
    <3>1. pc'[p] = "remark" /\ req'[p] = req[p] /\ seen'[p] = [seen[p] EXCEPT !.new = u] BY <1>f, <2>2 DEF Found
    <3>2. seen'[p].user = seen[p].user /\ seen'[p].token = seen[p].token BY <3>1, <1>e
    <3> QED BY <2>2, <3>1, <3>2, <1>4, <1>k, <1>f
  <2>3. CASE req[p].op \in Enrols /\ req[p].nick = None
    <3>1. Finish(p) BY <1>f, <2>3 DEF Found
    <3>2. Client(p) = None => req[p].op \notin Sessioned
      <4>1. req[p].op \in Sessioned => Client(p) \in Clients BY <1>2, HolderTyped
      <4> QED BY <4>1, NoneIsNoUser
    <3> QED BY <1>f, <2>3, <3>1, <3>2, <1>4, <1>k DEF Finish
  <2> QED BY <2>1, <2>2, <2>3
<1>11. CASE GetHttpSession(p) BY <1>11, <1>4, <1>e, <1>k DEF GetHttpSession, At
<1>12. CASE LoginIndex(p) BY <1>12, <1>4, <1>e, <1>k DEF LoginIndex, At
<1>13. CASE LoginHash(p) BY <1>13, <1>4, <1>e, <1>k DEF LoginHash, At
<1>14. CASE LoginGd(p) BY <1>14, <1>4, <1>e, <1>k DEF LoginGd, At
<1>15. CASE StudentHit(p) BY <1>15, <1>f DEF StudentHit, At
<1>16. CASE StudentRow(p)
  <2>1. PICK u, w : With(p, "fill", [seen[p] EXCEPT !.new = u, !.nick = w]) BY <1>16 DEF StudentRow
  <2>2. pc'[p] = "fill" /\ req'[p] = req[p] /\ seen'[p] = [seen[p] EXCEPT !.new = u, !.nick = w] BY <2>1
  <2>3. seen'[p].user = seen[p].user /\ seen'[p].token = seen[p].token BY <2>2, <1>e
  <2>4. pc[p] = "student" BY <1>16 DEF StudentRow, At
  <2> QED BY <2>2, <2>3, <2>4, <1>4
<1>17. CASE CheckMember(p) BY <1>17, <1>4, <1>e, <1>k DEF CheckMember, At
<1>18. CASE CheckOldPassword(p) BY <1>18, <1>4, <1>e, <1>k DEF CheckOldPassword, At
<1>19. CASE StudentFill(p) BY <1>19, <1>f DEF StudentFill, At
<1>20. CASE StudentNone(p) BY <1>20, <1>4, <1>e, <1>k DEF StudentNone, At
<1>21. CASE AddStudent(p)
  <2>1. PICK u : With(p, "addIndex", [seen[p] EXCEPT !.new = u]) BY <1>21 DEF AddStudent
  <2>2. pc'[p] = "addIndex" /\ req'[p] = req[p] /\ seen'[p] = [seen[p] EXCEPT !.new = u] BY <2>1
  <2>3. seen'[p].user = seen[p].user /\ seen'[p].token = seen[p].token BY <2>2, <1>e
  <2>4. pc[p] = "add" BY <1>21 DEF AddStudent, At
  <2> QED BY <2>2, <2>3, <2>4, <1>4
<1>22. CASE AddStudentIndex(p) BY <1>22, <1>4, <1>e, <1>k DEF AddStudentIndex, At
<1>23. CASE AddStudentHash(p) BY <1>23, <1>f, <1>k DEF AddStudentHash, At
<1>24. CASE GenerateInvitationToken(p) BY <1>24, <1>4, <1>e, <1>k DEF GenerateInvitationToken, At
<1>25. CASE DeleteInvitationToken(p) BY <1>25, <1>4, <1>e, <1>k DEF DeleteInvitationToken, At
<1>26. CASE CheckName(p) BY <1>26, <1>4, <1>e, <1>k DEF CheckName, At
<1>27. CASE GetInvitation(p) BY <1>27, <1>4, <1>e, <1>k DEF GetInvitation, At
<1>28. CASE UseInvitationToken(p) BY <1>28, <1>4, <1>e, <1>k DEF UseInvitationToken, At
<1>29. CASE AddUser(p) BY <1>29, <1>4, <1>e, <1>k DEF AddUser, At
<1>30. CASE AddUserIndex(p) BY <1>30, <1>4, <1>e, <1>k DEF AddUserIndex, At
<1>31. CASE AddUserHash(p) BY <1>31, <1>4, <1>e, <1>k DEF AddUserHash, At
<1>32. CASE ChangePasswordCache(p) BY <1>32, <1>4, <1>e, <1>k DEF ChangePasswordCache, At
<1>33. CASE ChangePasswordRow(p) BY <1>33, <1>4, <1>e, <1>k DEF ChangePasswordRow, At
<1>34. CASE ChangeProfileCache(p) BY <1>34, <1>4, <1>e, <1>k DEF ChangeProfileCache, At
<1>35. CASE ChangeProfileRow(p) BY <1>35, <1>4, <1>e, <1>k DEF ChangeProfileRow, At
<1>36. CASE QueryGdStudentID(p) BY <1>36, <1>4, <1>e, <1>k DEF QueryGdStudentID, At
<1>37. CASE RemarkRow(p) BY <1>37, <1>4, <1>e, <1>k DEF RemarkRow, At
<1>38. CASE RemarkHash(p)
  <2>1. Client(p) = None => req[p].op \notin Sessioned
    <3>1. req[p].op \in Sessioned => Client(p) \in Clients BY <1>2, HolderTyped
    <3> QED BY <3>1, NoneIsNoUser
  <2> QED BY <1>38, <2>1, <1>4, <1>k DEF RemarkHash, At, Finish
<1>39. CASE AccountFails(p)
  <2>1. \/ req[p].op = "loginGd" /\ pc[p] \in {"login", "hash"} /\ With(p, "gd", Nobody)
        \/ req[p].op \in Sessioned /\ pc[p] \notin {"check", "rotate"} /\ On(p, "answer")
        \/ ~(req[p].op \in Sessioned /\ pc[p] \notin {"check", "rotate"}) /\ Return(p)
    BY <1>39, Zenon DEF AccountFails
  <2>2. pc[p] # "answer" BY <1>39 DEF AccountFails
  <2> QED BY <2>1, <2>2, <1>4, <1>k
<1> QED BY <1>11, <1>12, <1>13, <1>14, <1>15, <1>16, <1>17, <1>18, <1>19, <1>20, <1>21, <1>22, <1>23, <1>24, <1>25, <1>26, <1>27, <1>28, <1>29, <1>30, <1>31, <1>32, <1>33, <1>34, <1>35, <1>36, <1>37, <1>38, <1>39 DEF Looks, Records

LEMMA RecordsKeepTokens == ASSUME NEW p, Records(p) PROVE UNCHANGED tokenVars
BY DEF Records, StudentFill, StudentNone, AddStudent, AddStudentIndex, AddStudentHash, GenerateInvitationToken, DeleteInvitationToken, CheckName, GetInvitation, UseInvitationToken, AddUser, AddUserIndex, AddUserHash, ChangePasswordCache, ChangePasswordRow, ChangeProfileCache, ChangeProfileRow, QueryGdStudentID, RemarkRow, RemarkHash, AccountFails

LEMMA NewGuestGoesOn ==
  ASSUME Locals, NEW p \in Procs, NewGuest(p) PROVE pc[p] = "incr" /\ pc'[p] = "setPhone"
<1>1. pc[p] = "incr" /\ \E s : With(p, "setPhone", s) BY DEF NewGuest, At
<1> QED BY <1>1, Handling

LEMMA VisitorsUnrotated ==
  ASSUME Locals, NEW p \in Procs, Visiting(p), May(p, Visits \union {"generate", "tokens"}) PROVE Unrotated(p)
<1> USE Handling
<1>1. GoesOn(p) BY VisitorsGoOn
<1>2. req[p].op \in Visits \union {"generate", "tokens"} BY <1>1 DEF GoesOn, May
<1>3. pc[p] # "answer" /\ pc'[p] # "answer"
  <2>1. CASE GenerateInvitation(p) BY <2>1 DEF GenerateInvitation, At
  <2>2. CASE QueryInvitations(p) BY <2>2 DEF QueryInvitations, At
  <2>3. CASE DeleteExpired(p) BY <2>3 DEF DeleteExpired, At
  <2>4. CASE GetOffer(p) BY <2>4 DEF GetOffer, At
  <2>5. CASE DropOffer(p) BY <2>5 DEF DropOffer, At
  <2>6. CASE TakeOffer(p) BY <2>6 DEF TakeOffer, At
  <2>7. CASE GetPhone(p) BY <2>7 DEF GetPhone, At
  <2>8. CASE NewGuest(p) BY <2>8, NewGuestGoesOn
  <2>9. CASE SetPhone(p) BY <2>9 DEF SetPhone, At
  <2>10. CASE BuildInfo(p) BY <2>10 DEF BuildInfo, At
  <2>11. CASE Authorize(p) BY <2>11 DEF Authorize, At
  <2>12. CASE LogExists(p) BY <2>12 DEF LogExists, At
  <2>13. CASE LogFirst(p) BY <2>13 DEF LogFirst, At
  <2>14. CASE LogNext(p) BY <2>14 DEF LogNext, At
  <2>15. CASE CheckAuthority(p) BY <2>15 DEF CheckAuthority, At
  <2>16. CASE StampLogin(p) BY <2>16 DEF StampLogin, At
  <2>17. CASE CountLogin(p) BY <2>17 DEF CountLogin, At
  <2>18. CASE VisitFails(p) BY <2>18 DEF VisitFails, At
  <2> QED BY <2>1, <2>2, <2>3, <2>4, <2>5, <2>6, <2>7, <2>8, <2>9, <2>10, <2>11, <2>12, <2>13, <2>14, <2>15, <2>16, <2>17, <2>18 DEF Visiting
<1>4. req[p].op \notin Logins /\ req[p].op \notin Sessioned BY <1>2 DEF Visits, Logins, Sessioned
<1> QED BY <1>1, <1>3, <1>4 DEF GoesOn, Unrotated, Rotated, Active, Busy

LEMMA TokensRest ==
  ASSUME FrontTypes, TokenInv, Rests(FrontOps), UNCHANGED tokenVars PROVE TokenInv'
<1>1. \A q \in Procs : Unrotated(q)
  <2> SUFFICES ASSUME NEW q \in Procs PROVE Unrotated(q) OBVIOUS
  <2>1. /\ Active(q, FrontOps)' <=> Active(q, FrontOps)
        /\ Active(q, FrontOps) => pc'[q] = pc[q] /\ req'[q] = req[q] /\ seen'[q] = seen[q]
    BY DEF Rests
  <2>2. Logins \union Visits \union Sessioned \subseteq FrontOps BY FrontKinds
  <2>3. Rotated(q) => Active(q, FrontOps) BY <2>2 DEF Rotated, Active
  <2>4. Rotated(q)' => Active(q, FrontOps)' BY <2>2 DEF Rotated, Active
  <2>5. Rotated(q)' <=> Rotated(q) BY <2>1, <2>3, <2>4 DEF Rotated, Active, Busy
  <2> QED BY <2>1, <2>3, <2>5 DEF Unrotated
<1>2. UNCHANGED <<session, held, displaced>> BY DEF tokenVars
<1> QED BY <1>1, <1>2, TokensQuiet

LEMMA TokensByHolders ==
  ASSUME Locals, FrontTypes, TokenInv, NEW p \in Procs, Holds(p), May(p, UserOps \union Visits) PROVE TokenInv'
<1> USE Handling
<1> DEFINE c == req[p].client
           u == seen[p].user
<1>0. FrontData BY DEF FrontTypes
<1>1. GoesOn(p) BY AccountsGoOn
<1>2. Person(p) /\ Busy(p) BY <1>1 DEF GoesOn, Person, Active, May
<1>3. Briefed(p) /\ Requested(req[p]) BY <1>2, Briefing
<1>4. req[p].op \in Logins \union Visits \union Sessioned => Client(p) = c /\ c \in Clients /\ AppOf[c] \in Apps
  BY <1>2, HolderTyped
<1>5. CASE UpdateHttpSession(p)
  <2>1. req[p].op \in Sessioned /\ pc[p] = "rotate" BY <1>5 DEF UpdateHttpSession, At
  <2>2. PICK t \in Tokens : /\ session' = [session EXCEPT ![u].token[AppOf[c]] = t]
                            /\ With(p, Then(p), [seen[p] EXCEPT !.token = t])
    BY <1>4, <1>5, <2>1 DEF UpdateHttpSession
  <2>3. UNCHANGED <<userRows, held>> /\ displaced' = displaced \union Rivals(p) BY <1>5 DEF UpdateHttpSession
  <2>4. u \in Users \union Guests /\ session[u] # None /\ Carries(p) BY <2>1, <1>3, LiveTyped DEF Briefed
  <2>5. session[u] \in SessionInfo BY <2>4, <1>0 DEF FrontData
  <2>6. PICK v \in Users \union Guests : v = u BY <2>4
  <2> DEFINE s == [session[v] EXCEPT !.token[AppOf[c]] = t]
  <2>7. s \in SessionInfo /\ s.token = [session[v].token EXCEPT ![AppOf[c]] = t] BY <2>1, <2>5, <2>6, <1>4, TokenPut
  <2>8. session' = [session EXCEPT ![v] = s] BY <2>2, <2>6
  <2> HIDE DEF s
  <2>9. session'[v] = s BY <2>3, <2>7, <2>8, SessionSet
  <2>10. session'[v] # None BY <2>7, <2>9, NoneIsNoSession
  <2>11. session[v].token \in [Apps -> Tokens \union {None}] BY <2>5, <2>6 DEF SessionInfo
  <2>12. session'[v].token[AppOf[c]] = t /\ \A b \in Apps \ {AppOf[c]} : session'[v].token[b] = session[v].token[b]
    BY <2>1, <2>7, <2>9, <2>11, <1>4
  <2>13. \A w \in (Users \union Guests) \ {v} : session'[w] = session[w] BY <2>8, <1>0 DEF FrontData
  <2>14. pc'[p] = Then(p) /\ req'[p] = req[p] /\ seen'[p] = [seen[p] EXCEPT !.token = t] BY <2>2
  <2>15. seen'[p].user = v /\ seen'[p].token = t BY <2>4, <2>6, <2>14 DEF Carries
  <2>16. pc'[p] \notin {"check", "rotate", "idle"} BY <2>1, <2>14, FirstSteps
  <2>17. For(p, c)' /\ ~Rotated(p) BY <2>1, <2>14, <2>16 DEF For, Rotated, Active, Busy
  <2>18. Handled(p) BY <1>1 DEF GoesOn
  <2>19. PICK d \in Clients : d = c BY <2>1, <1>4
  <2>20. For(p, d)' BY <2>14, <2>17, <2>19 DEF For
  <2>21. Client(p) = d /\ seen[p].user = v BY <2>1, <2>6, <2>19, <1>4
  <2>22. session'[v].token[AppOf[d]] = t /\ \A b \in Apps \ {AppOf[d]} : session'[v].token[b] = session[v].token[b]
    BY <2>12, <2>19
  <2> HIDE DEF c, u
  <2> QED BY <2>3, <2>10, <2>13, <2>15, <2>17, <2>18, <2>20, <2>21, <2>22, TokensSet
<1>6. CASE SetHttpSession(p)
  <2>1. req[p].op \in Logins \union Visits /\ pc[p] = "session" BY <1>6 DEF SetHttpSession, At
  <2>2. PICK t \in Tokens :
          /\ With(p, "answer", [seen[p] EXCEPT !.token = t])
          /\ \/ /\ session' = [session EXCEPT ![u] =
                     [group |-> IF req[p].op = "login" THEN seen[p].group ELSE "student",
                      nick  |-> seen[p].nick,
                      token |-> [b \in Apps |-> IF b = AppOf[c] THEN t ELSE IF session[u] = None THEN None ELSE session[u].token[b]]]]
                /\ displaced' = (displaced \ {c}) \union Rivals(p)
             \/ displaced' = displaced \union {c} /\ UNCHANGED session
    BY <1>4, <1>6, <2>1 DEF SetHttpSession
  <2>3. UNCHANGED <<userRows, held>> BY <1>6 DEF SetHttpSession
  <2>4. u \in Users \union Guests /\ Carries(p) BY <2>1, <1>3, LiveTyped DEF Briefed, Logins, Unnumbered
  <2>5. pc'[p] = "answer" /\ req'[p] = req[p] /\ seen'[p] = [seen[p] EXCEPT !.token = t] BY <2>2
  <2>6. PICK v \in Users \union Guests : v = u BY <2>4
  <2>7. seen'[p].user = v /\ seen'[p].token = t BY <2>4, <2>5, <2>6 DEF Carries
  <2>8. req[p].op \notin Sessioned BY <2>1 DEF Logins, Visits, Sessioned
  <2>9. For(p, c)' /\ ~Rotated(p) BY <2>1, <2>5, <2>8 DEF For, Rotated, Active, Busy
  <2>10. Handled(p) BY <1>1 DEF GoesOn
  <2> DEFINE tokens == [b \in Apps |-> IF b = AppOf[c] THEN t ELSE IF session[u] = None THEN None ELSE session[u].token[b]]
             s == [group |-> IF req[p].op = "login" THEN seen[p].group ELSE "student", nick |-> seen[p].nick, token |-> tokens]
  <2>11. CASE session' = [session EXCEPT ![v] = s] /\ displaced' = (displaced \ {c}) \union Rivals(p)
    <3>1. session'[v] = s /\ \A w \in (Users \union Guests) \ {v} : session'[w] = session[w] BY <2>11, <1>0 DEF FrontData
    <3>2. s.token = tokens /\ tokens[AppOf[c]] = t /\ \A b \in Apps \ {AppOf[c]} : session[v] # None => tokens[b] = session[v].token[b]
      BY <2>1, <2>6, <1>4
    <3>3. s # None
      <4>1. session[u] \in SessionInfo \union {None} BY <2>4, <1>0 DEF FrontData
      <4>2. tokens \in [Apps -> Tokens \union {None}] BY <4>1 DEF SessionInfo
      <4>3. seen[p].nick \in AnyNick \union Phones BY <2>1, <1>3 DEF Briefed, Unbuilt, Unnumbered
      <4>4. req[p].op = "login" => seen[p].group \in Groups BY <2>1, <1>3 DEF Briefed, Logins
      <4> HIDE DEF tokens
      <4>5. s \in SessionInfo BY <4>2, <4>3, <4>4 DEF SessionInfo, Groups
      <4> QED BY <4>5, NoneIsNoSession
    <3> HIDE DEF c, u, s, tokens
    <3>4. /\ session'[v] # None /\ session'[v].token[AppOf[c]] = t
          /\ \A b \in Apps \ {AppOf[c]} : session[v] # None => session'[v].token[b] = session[v].token[b]
      BY <3>1, <3>2, <3>3
    <3>5. PICK d \in Clients : d = c BY <2>1, <1>4
    <3>6. For(p, d)' BY <2>5, <2>9, <3>5 DEF For, c
    <3>7. Client(p) = d /\ seen[p].user = v BY <2>1, <2>6, <3>5, <1>4 DEF u
    <3>8. session'[v].token[AppOf[d]] = t /\ \A b \in Apps \ {AppOf[d]} : session[v] # None => session'[v].token[b] = session[v].token[b]
      BY <3>4, <3>5
    <3>9. displaced \ {d} \subseteq displaced' /\ Rivals(p) \subseteq displaced' BY <2>11, <3>5
    <3> QED BY <2>3, <2>7, <2>9, <2>10, <3>1, <3>4, <3>6, <3>7, <3>8, <3>9, TokensSet
  <2>12. CASE displaced' = displaced \union {c} /\ UNCHANGED session
    <3>1. \A d \in Clients \ {c} : held'[d] = held[d] /\ ~For(p, d)' BY <2>3, <2>5 DEF For
    <3> HIDE DEF c, u
    <3> QED BY <2>1, <2>10, <2>12, <3>1, <1>4, TokensLeft
  <2> QED BY <2>2, <2>6, <2>11, <2>12
<1>7. ASSUME pc[p] = "answer" PROVE For(p, c) /\ Client(p) = c /\ c \in Clients
  <2>1. req[p].op \in Logins \union Visits \union Sessioned BY <1>2, <1>3, <1>7 DEF Briefed, Person, Active, UserOps
  <2>2. For(p, c) BY <1>2, <1>7, <2>1 DEF For, Rotated, Active
  <2> QED BY <2>1, <2>2, <1>4
<1>8. CASE Answer(p)
  <2>1. Return(p) /\ pc[p] = "answer" /\ UNCHANGED <<session, displaced>> BY <1>8 DEF Answer, At
  <2>2. held' = [held EXCEPT ![c] = [user |-> u, token |-> seen[p].token]] BY <1>7, <1>8, <2>1 DEF Answer
  <2>3. held \in [Clients -> [user : Live \union Guests, token : Tokens] \union {None}] BY <1>0 DEF FrontData
  <2>4. held'[c] = [user |-> seen[p].user, token |-> seen[p].token] /\ \A d \in Clients \ {c} : held'[d] = held[d]
    BY <1>7, <2>1, <2>2, <2>3
  <2>5. pc'[p] = "idle" /\ Handled(p) BY <2>1
  <2>6. \A d : ~For(p, d)' BY <2>5 DEF For, Rotated, Active, Busy
  <2> HIDE DEF c
  <2> QED BY <1>7, <2>1, <2>4, <2>5, <2>6, TokensLeft
<1>9. CASE LoseAnswer(p)
  <2>1. Return(p) /\ pc[p] = "answer" /\ UNCHANGED <<session, held>> BY <1>9 DEF LoseAnswer, At
  <2>2. displaced' = displaced \union {c} BY <1>7, <1>9, <2>1 DEF LoseAnswer
  <2>3. pc'[p] = "idle" /\ Handled(p) BY <2>1
  <2>4. \A d : ~For(p, d)' BY <2>3 DEF For, Rotated, Active, Busy
  <2> HIDE DEF c
  <2> QED BY <1>7, <2>1, <2>2, <2>3, <2>4, TokensLeft
<1>10. CASE UpdateSessionNickname(p)
  <2>1. req[p].op = "profile" /\ pc[p] = "nickSession" /\ On(p, "answer") /\ UNCHANGED <<held, displaced>>
    BY <1>10 DEF UpdateSessionNickname, At
  <2>2. session' = [session EXCEPT ![u].nick = req[p].nick] BY <1>10 DEF UpdateSessionNickname
  <2>3. pc'[p] = "answer" /\ req'[p] = req[p] /\ seen'[p] = seen[p] /\ Handled(p) BY <2>1
  <2>4. Unrotated(p) BY <2>1, <2>3 DEF Unrotated, Rotated, Active, Busy, Sessioned
  <2>5. \A q \in Procs : Unrotated(q) BY <2>3, <2>4, OthersUnrotated
  <2>6. ASSUME NEW w \in Users \union Guests, session[w] # None PROVE session'[w] # None /\ session'[w].token = session[w].token
    <3>1. session[w] \in SessionInfo BY <2>6, <1>0 DEF FrontData
    <3>2. req[p].nick \in AnyNick BY <2>1, <1>3 DEF Requested, AnyNick
    <3> PICK r, n : r = session[w] /\ n = req[p].nick OBVIOUS
    <3>3. session'[w] = session[w] \/ session'[w] = [r EXCEPT !.nick = n] BY <2>2, <1>0 DEF FrontData
    <3>4. [r EXCEPT !.nick = n] \in SessionInfo /\ [r EXCEPT !.nick = n].token = r.token BY <3>1, <3>2 DEF SessionInfo
    <3> QED BY <2>6, <3>3, <3>4, NoneIsNoSession
  <2> QED BY <2>1, <2>5, <2>6, TokensQuiet
<1> QED BY <1>5, <1>6, <1>8, <1>9, <1>10 DEF Holds

LEMMA TokensByVisitors ==
  ASSUME Locals, FrontTypes, TokenInv, NEW p \in Procs, Visiting(p), May(p, Visits \union {"generate", "tokens"}) PROVE TokenInv'
<1> USE Handling
<1>1. GoesOn(p) BY VisitorsGoOn
<1>2. \A q \in Procs : Unrotated(q) BY <1>1, VisitorsUnrotated, OthersUnrotated DEF GoesOn
<1>3. UNCHANGED <<session, held, displaced>> => TokenInv' BY <1>2, TokensQuiet
<1>4. CASE BuildInfo(p)
  <2> DEFINE u == seen[p].user
             s == [group |-> "student", nick |-> req[p].phone,
                   token |-> [a \in Apps |-> IF a = "web" \/ session[u] = None THEN None ELSE session[u].token[a]]]
  <2>1. req[p].op \in Visits /\ pc[p] = "build" /\ UNCHANGED held BY <1>4 DEF BuildInfo, At
  <2>2. \/ session' = [session EXCEPT ![u] = s] /\ displaced' = displaced \union As(u, "web")
        \/ UNCHANGED <<session, displaced>>
    BY <1>4 DEF BuildInfo
  <2>3. Person(p) BY <1>1, <2>1 DEF GoesOn, Person, Active
  <2>4. Briefed(p) /\ req[p].phone \in Phones BY <2>1, <2>3, Briefing DEF Requested
  <2>5. u \in Guests BY <2>1, <2>4 DEF Briefed, Unnumbered
  <2>6. CASE session' = [session EXCEPT ![u] = s] /\ displaced' = displaced \union As(u, "web")
    <3> SUFFICES ASSUME NEW d \in Clients \ displaced' PROVE TokenHolds(d)' BY DEF TokenInv
    <3>1. session'[u] = s /\ \A w \in (Users \union Guests) \ {u} : session'[w] = session[w]
      BY <2>5, <2>6 DEF FrontTypes, FrontData
    <3>2. s # None
      <4>1. session[u] \in SessionInfo \union {None} BY <2>5 DEF FrontTypes, FrontData
      <4>2. s.token \in [Apps -> Tokens \union {None}] BY <4>1 DEF SessionInfo
      <4>3. s \in SessionInfo BY <4>2, <2>4 DEF SessionInfo, Groups
      <4> QED BY <4>3, NoneIsNoSession
    <3>3. \A a \in Apps \ {"web"} : session[u] # None => s.token[a] = session[u].token[a] OBVIOUS
    <3>4. d \notin As(u, "web") BY <2>6
    <3>5. \A q \in Procs : For(q, d)' <=> For(q, d) BY <1>2 DEF For, Unrotated
    <3>6. \A q \in Procs : For(q, d) => seen'[q].user = seen[q].user /\ seen'[q].token = seen[q].token BY <1>2 DEF For, Unrotated
    <3> HIDE DEF s, u
    <3>7. ASSUME NEW v \in Users \union Guests, NEW t, Valid(v, d, t),
                 (held[d] # None /\ held[d].user = v) \/ (\E q \in Procs : For(q, d) /\ seen[q].user = v)
          PROVE  Valid(v, d, t)'
      <4>1. CASE v # u BY <3>1, <3>7, <4>1 DEF Valid
      <4>2. CASE v = u
        <5>1. \A q \in Procs : For(q, d) => Sends(q, d) BY RotatedSends DEF Sends
        <5>2. AppOf[d] # "web" BY <3>4, <3>7, <4>2, <5>1 DEF As
        <5>3. AppOf[d] \in Apps \ {"web"} BY <5>2, ClientsHaveApps
        <5> QED BY <3>1, <3>2, <3>3, <3>7, <4>2, <5>3 DEF Valid
      <4> QED BY <4>1, <4>2
    <3>8. TokenHolds(d) /\ held'[d] = held[d] BY <2>1, <2>6 DEF TokenInv
    <3> QED BY <3>5, <3>6, <3>7, <3>8, TokensKept
  <2> QED BY <1>3, <2>1, <2>2, <2>6
<1>5. ~BuildInfo(p) => UNCHANGED accounts
  BY DEF Visiting, GenerateInvitation, QueryInvitations, DeleteExpired, GetOffer, DropOffer, TakeOffer, GetPhone, NewGuest, SetPhone,
         Authorize, LogExists, LogFirst, LogNext, CheckAuthority, StampLogin, CountLogin, VisitFails
<1> QED BY <1>3, <1>4, <1>5 DEF accounts, tokenVars

\* Every step, by what it means for users and visitors.
LEMMA FrontMoves ==
  ASSUME Locals, FrontTypes, Numbers, [Next]_vars
  PROVE  /\ Locals' /\ FrontTypes' /\ Numbers' /\ UsersStay /\ scene' = scene
         /\ \/ UNCHANGED accounts /\ Rests(FrontOps)
            \/ \E p \in Procs : /\ May(p, UserOps \union Visits) /\ UNCHANGED visitors
                                /\ (Came(p) /\ UNCHANGED accounts) \/ Looks(p) \/ Holds(p) \/ Records(p)
            \/ \E p \in Procs : /\ May(p, Visits \union {"generate", "tokens"})
                                /\ (Called(p) /\ UNCHANGED accounts) \/ Visiting(p)
<1>0. Locals' /\ scene' = scene BY Frame
<1>1. CASE UNCHANGED <<accounts, visitors>> /\ Rests(FrontOps)
  <2>1. UNCHANGED phoneId BY <1>1 DEF visitors, guestIds
  <2> QED BY <1>0, <1>1, <2>1, FrontRests
<1>2. CASE \E p \in Procs : May(p, UserOps \union Visits) /\ AccountsStep(p) /\ UNCHANGED visitors /\ Stays(p, FrontOps)
  <2> PICK p \in Procs : May(p, UserOps \union Visits) /\ AccountsStep(p) /\ UNCHANGED visitors BY <1>2
  <2>1. Arrives(p) \/ Looks(p) \/ Holds(p) \/ Records(p) BY AccountsSteps
  <2>2. (Came(p) /\ UNCHANGED accounts) \/ Looks(p) \/ Holds(p) \/ Records(p) BY <2>1, Arriving
  <2> QED BY <1>0, <2>2, FrontTyped
<1>3. CASE \E p \in Procs : May(p, Visits \union {"generate", "tokens"}) /\ ExperienceStep(p) /\ Stays(p, FrontOps)
  <2> PICK p \in Procs : May(p, Visits \union {"generate", "tokens"}) /\ ExperienceStep(p) BY <1>3
  <2>1. (Called(p) /\ UNCHANGED accounts) \/ Visiting(p) BY ExperienceSteps, CallingCalls
  <2> QED BY <1>0, <2>1, FrontTyped
<1>4. CASE Tick
  <2>1. UNCHANGED <<pc, req, seen, accounts, phoneId>> BY <1>4 DEF Tick, local, guestIds
  <2>2. Rests(FrontOps) BY <2>1 DEF Rests, Active, Busy
  <2> QED BY <1>0, <2>1, <2>2, FrontRests
<1> QED BY <1>1, <1>2, <1>3, <1>4, Frame

LEMMA TokensInit == ASSUME Init PROVE TokenInv
<1>1. held = [c \in Clients |-> None] /\ \A p \in Procs : ~Busy(p)
  BY DEF Init, HandlersInit, AccountsInit, Busy
<1> QED BY <1>1 DEF TokenInv, TokenHolds, For, Rotated, Active

\* A client that waited for every answer, and met no other of its kind at the same user,
\* holds the token that GetSession compares its next request with.
THEOREM ClientsStayLoggedIn == Spec => []SessionsStay
<1>1. Init => Locals /\ FrontTypes /\ Numbers /\ TokenInv BY LocalsInit, FrontInit, TokensInit
<1>2. Locals /\ FrontTypes /\ Numbers /\ TokenInv /\ [Next]_vars => (Locals /\ FrontTypes /\ Numbers /\ TokenInv)'
  <2> SUFFICES ASSUME Locals, FrontTypes, Numbers, TokenInv, [Next]_vars PROVE TokenInv' BY FrontMoves
  <2>1. CASE UNCHANGED accounts /\ Rests(FrontOps) BY <2>1, TokensRest DEF accounts
  <2>2. ASSUME NEW p \in Procs, Handled(p), pc[p] = "idle", pc'[p] # "answer",
               pc'[p] \notin {"check", "rotate"} => req'[p].op \notin Sessioned, UNCHANGED accounts
        PROVE  TokenInv'
    <3>1. Unrotated(p) BY <2>2 DEF Unrotated, Rotated, Active, Busy
    <3>2. \A q \in Procs : Unrotated(q) BY <2>2, <3>1, OthersUnrotated
    <3>3. UNCHANGED <<session, held, displaced>> BY <2>2 DEF accounts, tokenVars
    <3> QED BY <3>2, <3>3, TokensQuiet
  <2>3. CASE \E p \in Procs : /\ May(p, UserOps \union Visits) /\ UNCHANGED visitors
                              /\ (Came(p) /\ UNCHANGED accounts) \/ Looks(p) \/ Holds(p) \/ Records(p)
    <3> PICK p \in Procs : /\ May(p, UserOps \union Visits)
                           /\ (Came(p) /\ UNCHANGED accounts) \/ Looks(p) \/ Holds(p) \/ Records(p)
      BY <2>3
    <3>1. CASE Came(p) /\ UNCHANGED accounts
      <4>1. /\ Handled(p) /\ pc[p] = "idle" /\ pc'[p] # "answer"
            /\ pc'[p] \notin {"check", "rotate"} => req'[p].op \notin Sessioned
        BY <3>1 DEF Came, Sessioned
      <4> QED BY <2>2, <3>1, <4>1
    <3>2. CASE Looks(p) \/ Records(p)
      <4>1. UNCHANGED tokenVars BY <3>2, LooksUnchanged, RecordsKeepTokens DEF accounts
      <4>2. GoesOn(p) BY <3>2, AccountsGoOn
      <4>3. \A q \in Procs : Unrotated(q) BY <3>2, <4>2, RotationStays, OthersUnrotated DEF GoesOn
      <4>4. UNCHANGED <<session, held, displaced>> BY <4>1 DEF tokenVars
      <4> QED BY <4>3, <4>4, TokensQuiet
    <3> QED BY <3>1, <3>2, TokensByHolders
  <2>4. CASE \E p \in Procs : /\ May(p, Visits \union {"generate", "tokens"})
                              /\ (Called(p) /\ UNCHANGED accounts) \/ Visiting(p)
    <3> PICK p \in Procs : /\ May(p, Visits \union {"generate", "tokens"})
                           /\ (Called(p) /\ UNCHANGED accounts) \/ Visiting(p)
      BY <2>4
    <3>1. CASE Called(p) /\ UNCHANGED accounts
      <4>1. /\ Handled(p) /\ pc[p] = "idle" /\ pc'[p] # "answer"
            /\ pc'[p] \notin {"check", "rotate"} => req'[p].op \notin Sessioned
        BY <3>1 DEF Called, Sessioned
      <4> QED BY <2>2, <3>1, <4>1
    <3> QED BY <3>1, TokensByVisitors
  <2> QED BY <2>1, <2>3, <2>4, FrontMoves
<1>3. FrontTypes /\ TokenInv => SessionsStay
  <2> SUFFICES ASSUME FrontTypes, TokenInv, NEW c \in Clients \ displaced, held[c] # None, \A p \in Procs : ~Sends(p, c)
               PROVE  session[held[c].user] # None /\ session[held[c].user].token[AppOf[c]] = held[c].token
    BY DEF SessionsStay
  <2>1. \A p \in Procs : ~For(p, c) BY RotatedSends DEF Sends
  <2> QED BY <2>1 DEF TokenInv, TokenHolds, Valid
<1> QED BY <1>1, <1>2, <1>3, PTL DEF Spec

(***************************************************************************)
(* One user each: who registers a name, adds a student or spends an        *)
(* invitation is alone with it, and there is no row with it yet.           *)
(***************************************************************************)

\* p found the name free, and is to add its row; and its entry in the index.
Naming(p, n)   == Active(p, {"register"}) /\ pc[p] \in {"invitation", "use", "insert"} /\ req[p].name = n
Indexing(p, n) == Active(p, {"register"}) /\ pc[p] = "index" /\ req[p].name = n
Adding(p, s)   == At(p, "add", Enrols) /\ req[p].student = s
\* p found the invitation, and is to use it up or has.
Spending(p, i) == Active(p, {"register"}) /\ pc[p] \in {"use", "insert"} /\ req[p].invite = i

OneName(n) ==
  /\ \A u, v \in Live : users[u].name = n /\ users[v].name = n => u = v
  /\ \A p, q \in Procs : (Naming(p, n) \/ Indexing(p, n)) /\ (Naming(q, n) \/ Indexing(q, n)) => p = q
  /\ \A p \in Procs : Naming(p, n) => \A u \in Live : users[u].name # n
  /\ \A u \in Live : users[u].name = n => nameIndex[n] # None \/ \E p \in Procs : Indexing(p, n)
OneStudent(s) ==
  /\ \A u, v \in Live : users[u].student = s /\ users[v].student = s => u = v
  /\ \A p, q \in Procs : Adding(p, s) /\ Adding(q, s) => p = q
  /\ \A p \in Procs : Adding(p, s) => \A u \in Live : users[u].student # s
OneGuest(i) ==
  /\ \A u, v \in Live : users[u].invite = i /\ users[v].invite = i => u = v
  /\ \A p, q \in Procs : Spending(p, i) /\ Spending(q, i) => p = q
  /\ \A p \in Procs : Spending(p, i) => \A u \in Live : users[u].invite # i
  /\ invitations[i] # None => /\ \A u \in Live : users[u].invite # i
                              /\ \A p \in Procs : Spending(p, i) => pc[p] = "use"
SoleInv ==
  /\ \A n \in Names \ (contested \union {NotAllowed}) : OneName(n)
  /\ \A s \in Students \ (contested \union {None}) : OneStudent(s)
  /\ \A i \in Invitations \ (contested \union {None}) : OneGuest(i)

\* The same rows, but for what may be changed of them.
SameUsers ==
  /\ Live' = Live
  /\ \A u \in Live : users'[u].name = users[u].name /\ users'[u].student = users[u].student /\ users'[u].invite = users[u].invite

LEMMA NameKept ==
  ASSUME NEW n \in Names, OneName(n), nameIndex'[n] = nameIndex[n],
         \A u \in Users : (u \in Live' /\ users'[u].name = n) <=> (u \in Live /\ users[u].name = n),
         \A q \in Procs : Naming(q, n)' => Naming(q, n),
         \A q \in Procs : Indexing(q, n)' <=> Indexing(q, n)
  PROVE  OneName(n)'
<1>0. Live \subseteq Users /\ Live' \subseteq Users BY DEF Live
<1> HIDE DEF Live
<1>1. \A u, v \in Live' : users'[u].name = n /\ users'[v].name = n => u = v BY <1>0 DEF OneName
<1>2. \A p, q \in Procs : (Naming(p, n)' \/ Indexing(p, n)') /\ (Naming(q, n)' \/ Indexing(q, n)') => p = q BY DEF OneName
<1>3. \A p \in Procs : Naming(p, n)' => \A u \in Live' : users'[u].name # n BY <1>0 DEF OneName
<1>4. \A u \in Live' : users'[u].name = n => nameIndex'[n] # None \/ \E p \in Procs : Indexing(p, n)' BY <1>0 DEF OneName
<1> QED BY <1>1, <1>2, <1>3, <1>4 DEF OneName

LEMMA StudentKept ==
  ASSUME NEW s, OneStudent(s),
         \A u \in Users : (u \in Live' /\ users'[u].student = s) <=> (u \in Live /\ users[u].student = s),
         \A q \in Procs : Adding(q, s)' => Adding(q, s)
  PROVE  OneStudent(s)'
<1>0. Live \subseteq Users /\ Live' \subseteq Users BY DEF Live
<1> HIDE DEF Live
<1>1. \A u, v \in Live' : users'[u].student = s /\ users'[v].student = s => u = v BY <1>0 DEF OneStudent
<1>2. \A p, q \in Procs : Adding(p, s)' /\ Adding(q, s)' => p = q BY DEF OneStudent
<1>3. \A p \in Procs : Adding(p, s)' => \A u \in Live' : users'[u].student # s BY <1>0 DEF OneStudent
<1> QED BY <1>1, <1>2, <1>3 DEF OneStudent

LEMMA GuestKept ==
  ASSUME NEW i, OneGuest(i),
         \A u \in Users : (u \in Live' /\ users'[u].invite = i) <=> (u \in Live /\ users[u].invite = i),
         invitations'[i] # None => invitations[i] # None,
         \A q \in Procs : Spending(q, i)' => Spending(q, i),
         \A q \in Procs : Spending(q, i)' /\ pc[q] = "use" => pc'[q] = "use" \/ invitations'[i] = None
  PROVE  OneGuest(i)'
<1>0. Live \subseteq Users /\ Live' \subseteq Users BY DEF Live
<1> HIDE DEF Live
<1>1. \A u, v \in Live' : users'[u].invite = i /\ users'[v].invite = i => u = v BY <1>0 DEF OneGuest
<1>2. \A p, q \in Procs : Spending(p, i)' /\ Spending(q, i)' => p = q BY DEF OneGuest
<1>3. \A p \in Procs : Spending(p, i)' => \A u \in Live' : users'[u].invite # i BY <1>0 DEF OneGuest
<1>4. invitations'[i] # None => (\A u \in Live' : users'[u].invite # i) /\ \A p \in Procs : Spending(p, i)' => pc'[p] = "use"
  BY <1>0 DEF OneGuest
<1> QED BY <1>1, <1>2, <1>3, <1>4 DEF OneGuest

\* What another handler than the one that moves claims.
LEMMA ClaimsStay ==
  ASSUME NEW p \in Procs, Handled(p), NEW q \in Procs \ {p}
  PROVE  /\ \A n \in Names : (Naming(q, n)' <=> Naming(q, n)) /\ (Indexing(q, n)' <=> Indexing(q, n))
         /\ \A s \in Students : Adding(q, s)' <=> Adding(q, s)
         /\ \A i \in Invitations : Spending(q, i)' <=> Spending(q, i)
         /\ pc'[q] = pc[q]
<1>1. pc'[q] = pc[q] /\ req'[q] = req[q] BY DEF Handled
<1> QED BY <1>1 DEF Naming, Indexing, Adding, Spending, Active, Busy, At

\* p goes on with something else.
Aside(p) ==
  /\ \A n \in Names \ contested' : (Naming(p, n)' => Naming(p, n)) /\ (Indexing(p, n)' <=> Indexing(p, n))
  /\ \A s \in Students : Adding(p, s)' => Adding(p, s)
  /\ \A i \in Invitations : /\ Spending(p, i)' => Spending(p, i)
                            /\ Spending(p, i)' /\ pc[p] = "use" => pc'[p] = "use" \/ invitations'[i] = None

LEMMA SoleKept ==
  ASSUME SoleInv, SameUsers, nameIndex' = nameIndex, contested \subseteq contested',
         \A i \in Invitations : invitations'[i] # None => invitations[i] # None, \A q \in Procs : Aside(q)
  PROVE  SoleInv'
<1>0. \A u \in Users : /\ u \in Live' <=> u \in Live
                       /\ u \in Live => /\ users'[u].name = users[u].name /\ users'[u].student = users[u].student
                                        /\ users'[u].invite = users[u].invite
  BY DEF SameUsers
<1> HIDE DEF Live
<1>1. ASSUME NEW n \in Names \ (contested' \union {NotAllowed}) PROVE OneName(n)'
  <2>1. \A u \in Users : (u \in Live' /\ users'[u].name = n) <=> (u \in Live /\ users[u].name = n) BY <1>0
  <2>2. OneName(n) BY DEF SoleInv
  <2> QED BY <2>1, <2>2, NameKept DEF Aside
<1>2. ASSUME NEW s \in Students \ (contested' \union {None}) PROVE OneStudent(s)'
  <2>1. \A u \in Users : (u \in Live' /\ users'[u].student = s) <=> (u \in Live /\ users[u].student = s) BY <1>0
  <2>2. OneStudent(s) BY DEF SoleInv
  <2> QED BY <2>1, <2>2, StudentKept DEF Aside
<1>3. ASSUME NEW i \in Invitations \ (contested' \union {None}) PROVE OneGuest(i)'
  <2>1. \A u \in Users : (u \in Live' /\ users'[u].invite = i) <=> (u \in Live /\ users[u].invite = i) BY <1>0
  <2>2. OneGuest(i) BY DEF SoleInv
  <2> QED BY <2>1, <2>2, GuestKept DEF Aside
<1> QED BY <1>1, <1>2, <1>3 DEF SoleInv

LEMMA OthersAside == ASSUME NEW p \in Procs, Handled(p), NEW q \in Procs \ {p} PROVE Aside(q)
BY ClaimsStay DEF Aside

\* The labels of those that claim something.
Claiming == {"invitation", "use", "insert", "index", "add"}

LEMMA AsideAt == ASSUME NEW p, pc'[p] \notin Claiming, pc[p] \notin Claiming PROVE Aside(p)
BY DEF Aside, Claiming, Naming, Indexing, Adding, Spending, At

LEMMA SoleRests ==
  ASSUME SoleInv, Rests(FrontOps), UNCHANGED accounts PROVE SoleInv'
<1>1. UNCHANGED <<users, nameIndex, invitations, contested>> BY DEF accounts, userRows
<1>2. SameUsers BY <1>1 DEF SameUsers, Live
<1>3. ASSUME NEW q \in Procs PROVE Aside(q)
  <2>1. /\ Active(q, FrontOps)' <=> Active(q, FrontOps)
        /\ Active(q, FrontOps) => pc'[q] = pc[q] /\ req'[q] = req[q] /\ seen'[q] = seen[q]
    BY DEF Rests
  <2>2. {"register"} \subseteq FrontOps /\ Enrols \subseteq FrontOps BY DEF FrontOps, UserOps, Open, Enrols, Sessioned
  <2>3. /\ Active(q, {"register"}) => Active(q, FrontOps)
        /\ Active(q, {"register"})' => Active(q, FrontOps)'
    BY <2>2 DEF Active
  <2>4. \A n \in Names : (Naming(q, n)' <=> Naming(q, n)) /\ (Indexing(q, n)' <=> Indexing(q, n))
    BY <2>1, <2>3 DEF Naming, Indexing, Active, Busy
  <2>5. \A i \in Invitations : (Spending(q, i)' <=> Spending(q, i)) /\ (Spending(q, i) => pc'[q] = pc[q])
    BY <2>1, <2>3 DEF Spending, Active, Busy
  <2>6. \A s \in Students : Adding(q, s)' => Adding(q, s)
    <3>1. \A s \in Students : Adding(q, s)' => Active(q, FrontOps)' BY <2>2 DEF Adding, At, Active, Busy
    <3> QED BY <2>1, <3>1 DEF Adding, At
  <2> QED BY <2>4, <2>5, <2>6 DEF Aside
<1> QED BY <1>1, <1>2, <1>3, SoleKept

\* What a step does to the row of u.
PwdIs(u, v)  == \A w \in Live : users'[w].pwd = (IF w = u THEN v ELSE users[w].pwd) /\ users'[w].nick = users[w].nick
NickIs(u, v) == \A w \in Live : users'[w].nick = (IF w = u THEN v ELSE users[w].nick) /\ users'[w].pwd = users[w].pwd

\* One field of a row changes.
LEMMA RowEdit ==
  ASSUME FrontData, NEW u, NEW v, u \notin Users \/ u \in Live,
         \/ users' = users
         \/ v \in Passwords /\ users' = [users EXCEPT ![u].pwd = v]
         \/ v \in AnyNick /\ users' = [users EXCEPT ![u].nick = v]
  PROVE  /\ SameUsers
         /\ users' = [users EXCEPT ![u].pwd = v] /\ u \in Live => PwdIs(u, v)
         /\ users' = [users EXCEPT ![u].nick = v] /\ u \in Live => NickIs(u, v)
<1>0. users \in [Users -> UserRow \union {None}] BY DEF FrontData
<1>1. CASE u \notin Users
  <2>1. users' = users BY <1>0, <1>1
  <2> QED BY <1>1, <2>1 DEF SameUsers, Live
<1>2. CASE u \in Live
  <2>1. users[u] \in UserRow /\ u \in Users /\ None \notin UserRow BY <1>2, RowOf, NoneIsNoUser DEF Live
  <2> PICK r : r = users[u] OBVIOUS
  <2> DEFINE a == [r EXCEPT !.pwd = v]
             b == [r EXCEPT !.nick = v]
  <2>2. /\ a.name = r.name /\ a.student = r.student /\ a.invite = r.invite /\ a.pwd = v /\ a.nick = r.nick
        /\ b.name = r.name /\ b.student = r.student /\ b.invite = r.invite /\ b.pwd = r.pwd /\ b.nick = v
    BY <2>1 DEF UserRow
  <2>3. (v \in Passwords => a # None) /\ (v \in AnyNick => b # None)
    <3>1. (v \in Passwords => a \in UserRow) /\ (v \in AnyNick => b \in UserRow) BY <2>1 DEF UserRow
    <3> QED BY <2>1, <3>1
  <2>4. \/ users' = users
        \/ v \in Passwords /\ users' = [users EXCEPT ![u] = a]
        \/ v \in AnyNick /\ users' = [users EXCEPT ![u] = b]
    OBVIOUS
  <2>5. /\ users' = [users EXCEPT ![u].pwd = v] => users' = [users EXCEPT ![u] = a]
        /\ users' = [users EXCEPT ![u].nick = v] => users' = [users EXCEPT ![u] = b]
    OBVIOUS
  <2> HIDE DEF a, b
  <2>6. SameUsers BY <1>0, <2>1, <2>2, <2>3, <2>4 DEF SameUsers, Live
  <2> QED BY <1>0, <2>1, <2>2, <2>5, <2>6 DEF Live, PwdIs, NickIs
<1> QED BY <1>1, <1>2

\* The steps that claim nothing, before and after.
LEMMA NothingClaimed ==
  ASSUME Locals, NEW p \in Procs, Looks(p) \/ Holds(p) \/ Visiting(p) PROVE pc[p] \notin Claiming /\ pc'[p] \notin Claiming
<1> USE Handling DEF Claiming
<1>1. CASE GetHttpSession(p) BY <1>1 DEF GetHttpSession, At
<1>2. CASE LoginIndex(p) BY <1>2 DEF LoginIndex, At
<1>3. CASE LoginHash(p) BY <1>3 DEF LoginHash, At
<1>4. CASE LoginGd(p) BY <1>4 DEF LoginGd, At
<1>5. CASE StudentHit(p) BY <1>5 DEF StudentHit, At, Found, Finish
<1>6. CASE StudentRow(p) BY <1>6 DEF StudentRow, At
<1>7. CASE CheckMember(p) BY <1>7 DEF CheckMember, At
<1>8. CASE CheckOldPassword(p) BY <1>8 DEF CheckOldPassword, At
<1>9. CASE UpdateHttpSession(p)
  <2>1. pc[p] = "rotate" /\ req[p].op \in Sessioned /\ pc'[p] = Then(p) BY <1>9 DEF UpdateHttpSession, At
  <2> QED BY <2>1, FirstSteps
<1>10. CASE SetHttpSession(p) BY <1>10 DEF SetHttpSession, At
<1>11. CASE Answer(p) BY <1>11 DEF Answer, At
<1>12. CASE LoseAnswer(p) BY <1>12 DEF LoseAnswer, At
<1>13. CASE UpdateSessionNickname(p) BY <1>13 DEF UpdateSessionNickname, At
<1>14. CASE GenerateInvitation(p) BY <1>14 DEF GenerateInvitation, At
<1>15. CASE QueryInvitations(p) BY <1>15 DEF QueryInvitations, At
<1>16. CASE DeleteExpired(p) BY <1>16 DEF DeleteExpired, At
<1>17. CASE GetOffer(p) BY <1>17 DEF GetOffer, At
<1>18. CASE DropOffer(p) BY <1>18 DEF DropOffer, At
<1>19. CASE TakeOffer(p) BY <1>19 DEF TakeOffer, At
<1>20. CASE GetPhone(p) BY <1>20 DEF GetPhone, At
<1>21. CASE NewGuest(p) BY <1>21, NewGuestGoesOn
<1>22. CASE SetPhone(p) BY <1>22 DEF SetPhone, At
<1>23. CASE BuildInfo(p) BY <1>23 DEF BuildInfo, At
<1>24. CASE Authorize(p) BY <1>24 DEF Authorize, At
<1>25. CASE LogExists(p) BY <1>25 DEF LogExists, At
<1>26. CASE LogFirst(p) BY <1>26 DEF LogFirst, At
<1>27. CASE LogNext(p) BY <1>27 DEF LogNext, At
<1>28. CASE CheckAuthority(p) BY <1>28 DEF CheckAuthority, At
<1>29. CASE StampLogin(p) BY <1>29 DEF StampLogin, At
<1>30. CASE CountLogin(p) BY <1>30 DEF CountLogin, At
<1>31. CASE VisitFails(p) BY <1>31 DEF VisitFails, At
<1> QED BY <1>1, <1>2, <1>3, <1>4, <1>5, <1>6, <1>7, <1>8, <1>9, <1>10, <1>11, <1>12, <1>13, <1>14, <1>15, <1>16, <1>17, <1>18, <1>19, <1>20, <1>21, <1>22, <1>23, <1>24, <1>25, <1>26, <1>27, <1>28, <1>29, <1>30, <1>31 DEF Looks, Holds, Visiting

LEMMA HoldersKeepRows == ASSUME NEW p, Holds(p) \/ Visiting(p) PROVE UNCHANGED userRows
BY DEF accounts, Holds, Visiting, UpdateHttpSession, SetHttpSession, Answer, LoseAnswer, UpdateSessionNickname, GenerateInvitation, QueryInvitations, DeleteExpired, GetOffer, DropOffer, TakeOffer, GetPhone, NewGuest, SetPhone, BuildInfo, Authorize, LogExists, LogFirst, LogNext, CheckAuthority, StampLogin, CountLogin, VisitFails

LEMMA SoleByOthers ==
  ASSUME Locals, SoleInv, NEW p \in Procs, Handled(p), pc[p] \notin Claiming, pc'[p] \notin Claiming, UNCHANGED userRows
  PROVE  SoleInv'
<1>1. UNCHANGED <<users, nameIndex, invitations, contested>> BY DEF userRows
<1>2. SameUsers BY <1>1 DEF SameUsers, Live
<1>3. Aside(p) BY AsideAt
<1>4. \A q \in Procs : Aside(q) BY <1>3, OthersAside
<1> QED BY <1>1, <1>2, <1>4, SoleKept

\* Another step of Accounts that keeps the rows' names, students and invitations.
LEMMA SoleByRecords ==
  ASSUME Locals, FrontTypes, SoleInv, NEW p \in Procs, May(p, UserOps \union Visits),
         \/ StudentFill(p) \/ AddStudentIndex(p) \/ AddStudentHash(p) \/ DeleteInvitationToken(p) \/ UseInvitationToken(p)
         \/ AddUserHash(p) \/ ChangePasswordCache(p) \/ ChangePasswordRow(p) \/ ChangeProfileCache(p) \/ ChangeProfileRow(p)
         \/ QueryGdStudentID(p) \/ RemarkRow(p) \/ RemarkHash(p) \/ AccountFails(p)
  PROVE  SoleInv'
<1> USE Handling
<1>0. FrontData BY DEF FrontTypes
<1>1. Records(p) /\ GoesOn(p) BY AccountsGoOn, Zenon DEF Records
<1>2. Person(p) BY <1>1 DEF GoesOn, Person, Active, May
<1>3. Briefed(p) /\ Requested(req[p]) BY <1>2, Briefing
<1>4. ASSUME SameUsers, nameIndex' = nameIndex, contested \subseteq contested', UNCHANGED invitations,
             pc[p] \notin Claiming, pc'[p] \notin Claiming
      PROVE  SoleInv'
  <2>1. \A q \in Procs : Aside(q) BY <1>1, <1>4, AsideAt, OthersAside DEF GoesOn
  <2> QED BY <1>4, <2>1, SoleKept
<1>5. UNCHANGED users => SameUsers BY DEF SameUsers, Live
<1> USE DEF Claiming
<1>6. CASE StudentFill(p) BY <1>6, <1>4, <1>5 DEF StudentFill, At, Found, Finish
<1>7. CASE AddStudentIndex(p) BY <1>7, <1>4, <1>5 DEF AddStudentIndex, At
<1>8. CASE AddStudentHash(p) BY <1>8, <1>4, <1>5 DEF AddStudentHash, At, Found, Finish
<1>9. CASE AddUserHash(p) BY <1>9, <1>4, <1>5 DEF AddUserHash, At
<1>10. CASE ChangePasswordCache(p) BY <1>10, <1>4, <1>5 DEF ChangePasswordCache, At
<1>11. CASE ChangeProfileCache(p) BY <1>11, <1>4, <1>5 DEF ChangeProfileCache, At
<1>12. CASE QueryGdStudentID(p) BY <1>12, <1>4, <1>5 DEF QueryGdStudentID, At
<1>13. CASE RemarkHash(p) BY <1>13, <1>4, <1>5 DEF RemarkHash, At, Finish
<1>14. CASE DeleteInvitationToken(p)
  <2>1. pc[p] = "uninvite" /\ On(p, "answer") /\ UNCHANGED <<users, nameIndex, contested>> BY <1>14 DEF DeleteInvitationToken, At
  <2>2. \A i \in Invitations : invitations'[i] # None => invitations[i] # None BY <1>14, <1>0 DEF DeleteInvitationToken, FrontData
  <2>3. pc'[p] = "answer" /\ Handled(p) BY <2>1
  <2>4. \A q \in Procs : Aside(q) BY <2>1, <2>3, AsideAt, OthersAside
  <2> QED BY <2>1, <2>2, <2>4, <1>5, SoleKept
<1>15. CASE UseInvitationToken(p)
  <2>1. pc[p] = "use" /\ req[p].op = "register" /\ On(p, "insert") /\ UNCHANGED <<users, nameIndex, contested>>
    BY <1>15 DEF UseInvitationToken, At
  <2>2. /\ \A i \in Invitations : invitations'[i] # None => invitations[i] # None
        /\ req[p].invite \in Invitations => invitations'[req[p].invite] = None
    BY <1>15, <1>0 DEF UseInvitationToken, FrontData
  <2>3. pc'[p] = "insert" /\ req'[p] = req[p] /\ Handled(p) BY <2>1
  <2>4. Aside(p) BY <2>1, <2>2, <2>3 DEF Aside, Naming, Indexing, Adding, Spending, Active, Busy, At
  <2>5. \A q \in Procs : Aside(q) BY <2>3, <2>4, OthersAside
  <2> QED BY <2>1, <2>2, <2>5, <1>5, SoleKept
<1>16. CASE ChangePasswordRow(p)
  <2>1. pc[p] = "pwdRow" /\ req[p].op = "password" /\ On(p, "answer") /\ UNCHANGED <<nameIndex, contested, invitations>>
    BY <1>16 DEF ChangePasswordRow, At
  <2> PICK u, v : u = seen[p].user /\ v = req[p].pwd OBVIOUS
  <2>2. users' = users \/ users' = [users EXCEPT ![u].pwd = v] BY <1>16 DEF ChangePasswordRow
  <2>3. v \in Passwords /\ u \in Live \union Guests BY <2>1, <1>3 DEF Requested, Briefed, Sessioned
  <2>4. SameUsers
    <3>1. u \notin Users \/ u \in Live BY <2>3, NoGuestIsUser
    <3> QED BY <2>2, <2>3, <3>1, <1>0, RowEdit
  <2> QED BY <2>1, <2>4, <1>4
<1>17. CASE ChangeProfileRow(p)
  <2>1. pc[p] = "nickRow" /\ req[p].op = "profile" /\ UNCHANGED <<nameIndex, contested, invitations>>
        /\ (On(p, "answer") \/ On(p, "nickSession"))
    BY <1>17 DEF ChangeProfileRow, At
  <2> PICK u, v : u = seen[p].user /\ v = req[p].nick OBVIOUS
  <2>2. users' = users \/ users' = [users EXCEPT ![u].nick = v] BY <1>17 DEF ChangeProfileRow
  <2>3. v \in AnyNick /\ u \in Live \union Guests BY <2>1, <1>3 DEF Requested, Briefed, Sessioned, AnyNick
  <2>4. SameUsers
    <3>1. u \notin Users \/ u \in Live BY <2>3, NoGuestIsUser
    <3> QED BY <2>2, <2>3, <3>1, <1>0, RowEdit
  <2> QED BY <2>1, <2>4, <1>4
<1>18. CASE RemarkRow(p)
  <2>1. pc[p] = "remark" /\ req[p].op \in Renames /\ On(p, "remarked") /\ UNCHANGED <<nameIndex, contested, invitations>>
    BY <1>18 DEF RemarkRow, At
  <2> PICK u, v : u = Named(p) /\ v = req[p].nick OBVIOUS
  <2>2. users' = users \/ (users[u] # None /\ users' = [users EXCEPT ![u].nick = v]) BY <1>18 DEF RemarkRow
  <2>3. v \in AnyNick BY <2>1, <1>3 DEF Briefed, AnyNick
  <2>4. SameUsers
    <3>1. CASE users' = users BY <3>1, <1>5
    <3>2. CASE users[u] # None /\ users' = [users EXCEPT ![u].nick = v]
      <4>1. u \notin Users \/ u \in Live BY <3>2 DEF Live
      <4> QED BY <3>2, <4>1, <2>3, <1>0, RowEdit
    <3> QED BY <2>2, <3>1, <3>2
  <2> QED BY <2>1, <2>4, <1>4
<1>19. CASE AccountFails(p)
  <2>1. UNCHANGED <<users, nameIndex, invitations>> /\ Busy(p) BY <1>19 DEF AccountFails
  <2>2. contested' = IF pc[p] = "index" THEN contested \union {req[p].name} ELSE contested BY <1>19 DEF AccountFails
  <2>3. With(p, "gd", Nobody) \/ On(p, "answer") \/ Return(p) BY <1>19, Zenon DEF AccountFails
  <2>4. pc'[p] \in {"gd", "answer", "idle"} /\ Handled(p) BY <2>3
  <2>5. Aside(p) BY <2>2, <2>4 DEF Aside, Naming, Indexing, Adding, Spending, At, Active
  <2>6. \A q \in Procs : Aside(q) BY <2>4, <2>5, OthersAside
  <2> QED BY <2>1, <2>2, <2>6, <1>5, SoleKept
<1> QED BY <1>6, <1>7, <1>8, <1>9, <1>10, <1>11, <1>12, <1>13, <1>14, <1>15, <1>16, <1>17, <1>18, <1>19

\* A row is added.
LEMMA RowAdded ==
  ASSUME FrontData, NEW u \in Users, u \notin Live, NEW r \in UserRow, users' = [users EXCEPT ![u] = r]
  PROVE  \A v \in Users : /\ v \in Live' <=> v \in Live \/ v = u
                          /\ users'[v] = IF v = u THEN r ELSE users[v]
<1>1. Live' = Live \union {u} /\ users'[u] = r /\ \A v \in Users \ {u} : users'[v] = users[v] BY RowSet
<1> QED
  <2> TAKE v \in Users
  <2>1. CASE v = u BY <1>1, <2>1
  <2>2. CASE v # u BY <1>1, <2>2
  <2> QED BY <2>1, <2>2

LEMMA SoleByClaims ==
  ASSUME Locals, FrontTypes, SoleInv, NEW p \in Procs, May(p, UserOps \union Visits),
         \/ StudentNone(p) \/ AddStudent(p) \/ GenerateInvitationToken(p) \/ CheckName(p) \/ GetInvitation(p)
         \/ AddUser(p) \/ AddUserIndex(p)
  PROVE  SoleInv'
<1> USE Handling
<1>0. FrontData BY DEF FrontTypes
<1>1. Records(p) /\ GoesOn(p) BY AccountsGoOn, Zenon DEF Records
<1>2. Person(p) BY <1>1 DEF GoesOn, Person, Active, May
<1>3. Briefed(p) /\ Requested(req[p]) /\ Handled(p) /\ Busy(p) BY <1>1, <1>2, Briefing DEF GoesOn
<1>4. \A q \in Procs \ {p} : /\ \A n \in Names : (Naming(q, n)' <=> Naming(q, n)) /\ (Indexing(q, n)' <=> Indexing(q, n))
                             /\ \A s \in Students : Adding(q, s)' <=> Adding(q, s)
                             /\ \A i \in Invitations : Spending(q, i)' <=> Spending(q, i)
                             /\ pc'[q] = pc[q]
  BY <1>3, ClaimsStay
<1>5. Live \subseteq Users /\ Live' \subseteq Users /\ None \notin Users BY NoneIsNoUser DEF Live
<1>6. "register" \notin Enrols BY DEF Enrols
<1>7. ASSUME UNCHANGED users PROVE \A u \in Users : (u \in Live' <=> u \in Live) /\ users'[u] = users[u] BY <1>7 DEF Live
<1>8. ASSUME \A n \in Names \ (contested' \union {NotAllowed}) : OneName(n)',
             \A s \in Students \ (contested' \union {None}) : OneStudent(s)',
             \A i \in Invitations \ (contested' \union {None}) : OneGuest(i)'
      PROVE  SoleInv'
  BY <1>8 DEF SoleInv
<1>9. CASE StudentNone(p)
  <2> DEFINE s == req[p].student
  <2>1. /\ pc[p] = "student" /\ req[p].op \in Asking
        /\ \A u \in Live : users[u].student # s
        /\ UNCHANGED <<users, nameIndex, invitations>> /\ contested \subseteq contested'
        /\ s \notin contested' => \A q \in Procs \ {p} : ~Adding(q, s)
    BY <1>9 DEF StudentNone, At, Adding
  <2>2. (req[p].op \in Enrols => On(p, "add")) /\ (req[p].op \notin Enrols => Return(p)) BY <1>9 DEF StudentNone
  <2>3. pc'[p] = "idle" \/ (pc'[p] = "add" /\ req'[p] = req[p] /\ req[p].op \in Enrols) BY <2>2
  <2>4. \A n : ~Naming(p, n) /\ ~Naming(p, n)' /\ ~Indexing(p, n) /\ ~Indexing(p, n)'
    BY <1>6, <2>1, <2>3 DEF Naming, Indexing, Active, Busy
  <2>5. \A i : ~Spending(p, i) /\ ~Spending(p, i)' BY <1>6, <2>1, <2>3 DEF Spending, Active, Busy
  <2>6. ASSUME NEW t \in Students, Adding(p, t)' PROVE t = s BY <2>3, <2>6 DEF Adding, At
  <2>7. ASSUME NEW n \in Names \ (contested' \union {NotAllowed}) PROVE OneName(n)'
    <3>1. OneName(n) BY <2>1 DEF SoleInv
    <3>2. \A u \in Users : (u \in Live' /\ users'[u].name = n) <=> (u \in Live /\ users[u].name = n) BY <1>7, <2>1
    <3> QED BY <3>1, <3>2, <2>1, <2>4, <1>4, NameKept
  <2>8. ASSUME NEW i \in Invitations \ (contested' \union {None}) PROVE OneGuest(i)'
    <3>1. OneGuest(i) BY <2>1 DEF SoleInv
    <3>2. \A u \in Users : (u \in Live' /\ users'[u].invite = i) <=> (u \in Live /\ users[u].invite = i) BY <1>7, <2>1
    <3> QED BY <3>1, <3>2, <2>1, <2>5, <1>4, GuestKept
  <2>9. ASSUME NEW t \in Students \ (contested' \union {None}) PROVE OneStudent(t)'
    <3>1. OneStudent(t) BY <2>1 DEF SoleInv
    <3>2. \A u \in Users : (u \in Live' /\ users'[u].student = t) <=> (u \in Live /\ users[u].student = t) BY <1>7, <2>1
    <3>3. CASE t # s
      <4>1. ~Adding(p, t)' BY <2>6, <3>3
      <4> QED BY <3>1, <3>2, <4>1, <1>4, StudentKept
    <3>4. CASE t = s
      <4>1. \A q \in Procs \ {p} : ~Adding(q, t)' BY <1>4, <2>1, <3>4
      <4>2. \A u \in Live' : users'[u].student # t BY <1>5, <1>7, <2>1, <3>4
      <4> QED BY <4>1, <4>2 DEF OneStudent
    <3> QED BY <3>3, <3>4
  <2> QED BY <1>8, <2>7, <2>8, <2>9
<1>10. CASE AddStudent(p)
  <2> DEFINE s == req[p].student
             r == User(NotAllowed, NotAllowed, NotAllowed, "student", s, None)
  <2>1. pc[p] = "add" /\ req[p].op \in Enrols /\ UNCHANGED <<nameIndex, invitations, contested>> BY <1>10 DEF AddStudent, At
  <2>2. PICK u \in Users : /\ NextUser(u) /\ users' = [users EXCEPT ![u] = r]
                           /\ With(p, "addIndex", [seen[p] EXCEPT !.new = u])
    BY <1>10 DEF AddStudent
  <2>3. s \in Students BY <2>1, <1>3 DEF Requested, Enrols
  <2>4. r \in UserRow /\ r.name = NotAllowed /\ r.student = s /\ r.invite = None
    BY <2>3 DEF User, UserRow, AnyNick, Groups
  <2> HIDE DEF r
  <2>5. \A v \in Users : /\ v \in Live' <=> v \in Live \/ v = u
                         /\ users'[v] = IF v = u THEN r ELSE users[v]
    BY <1>0, <2>2, <2>4, RowAdded DEF NextUser
  <2>6. pc'[p] = "addIndex" BY <2>2
  <2>7. \A n : ~Naming(p, n) /\ ~Naming(p, n)' /\ ~Indexing(p, n) /\ ~Indexing(p, n)'
    BY <2>1, <2>6 DEF Naming, Indexing
  <2>8. \A i : ~Spending(p, i) /\ ~Spending(p, i)' BY <2>1, <2>6 DEF Spending
  <2>9. Adding(p, s) /\ \A t : ~Adding(p, t)' BY <2>1, <2>6 DEF Adding, At
  <2>10. u \notin Live BY <2>2 DEF NextUser
  <2> HIDE DEF Live
  <2>11. ASSUME NEW n \in Names \ (contested' \union {NotAllowed}) PROVE OneName(n)'
    <3>1. OneName(n) BY <2>1 DEF SoleInv
    <3>2. \A v \in Users : (v \in Live' /\ users'[v].name = n) <=> (v \in Live /\ users[v].name = n) BY <2>4, <2>5, <2>10
    <3> QED BY <3>1, <3>2, <2>1, <2>7, <1>4, NameKept
  <2>12. ASSUME NEW i \in Invitations \ (contested' \union {None}) PROVE OneGuest(i)'
    <3>1. OneGuest(i) BY <2>1 DEF SoleInv
    <3>2. \A v \in Users : (v \in Live' /\ users'[v].invite = i) <=> (v \in Live /\ users[v].invite = i) BY <2>4, <2>5, <2>10
    <3> QED BY <3>1, <3>2, <2>1, <2>8, <1>4, GuestKept
  <2>13. ASSUME NEW t \in Students \ (contested' \union {None}) PROVE OneStudent(t)'
    <3>1. OneStudent(t) BY <2>1 DEF SoleInv
    <3>2. CASE t # s
      <4>1. \A v \in Users : (v \in Live' /\ users'[v].student = t) <=> (v \in Live /\ users[v].student = t)
        BY <2>4, <2>5, <2>10, <3>2
      <4> QED BY <3>1, <4>1, <2>9, <1>4, StudentKept
    <3>3. CASE t = s
      <4>1. \A v \in Live : users[v].student # t BY <2>9, <3>1, <3>3 DEF OneStudent
      <4>2. \A q \in Procs : ~Adding(q, t)' BY <1>4, <2>3, <2>9, <3>1, <3>3 DEF OneStudent
      <4>3. \A v \in Live' : users'[v].student = t => v = u BY <1>5, <2>5, <4>1
      <4> QED BY <4>2, <4>3 DEF OneStudent
    <3> QED BY <3>2, <3>3
  <2> QED BY <1>8, <2>11, <2>12, <2>13
<1>11. CASE GenerateInvitationToken(p)
  <2>1. pc[p] = "invite" /\ On(p, "answer") /\ UNCHANGED <<users, nameIndex, contested>> BY <1>11 DEF GenerateInvitationToken, At
  <2>2. PICK j \in Invitations :
          /\ \A u \in Live : users[u].invite # j
          /\ \A q \in Procs : Busy(q) /\ req[q].op = "register" /\ pc[q] # "name" => req[q].invite # j
          /\ invitations' = [invitations EXCEPT ![j] = req[p].group]
    BY <1>11 DEF GenerateInvitationToken
  <2>3. pc'[p] = "answer" BY <2>1
  <2>4. Aside(p) BY <2>1, <2>3, AsideAt DEF Claiming
  <2>5. \A u \in Users : (u \in Live' <=> u \in Live) /\ users'[u] = users[u] BY <1>7, <2>1
  <2>6. \A q \in Procs, n \in Names : (Naming(q, n)' => Naming(q, n)) /\ (Indexing(q, n)' <=> Indexing(q, n))
    BY <1>4, <2>1, <2>3 DEF Naming, Indexing
  <2>7. \A q \in Procs, t \in Students : Adding(q, t)' => Adding(q, t) BY <1>4, <2>3 DEF Adding, At
  <2>8. \A q \in Procs, i \in Invitations : (Spending(q, i)' => Spending(q, i)) /\ (Spending(q, i)' => pc'[q] = pc[q])
    BY <1>4, <2>3 DEF Spending
  <2> HIDE DEF Live
  <2>9. ASSUME NEW n \in Names \ (contested' \union {NotAllowed}) PROVE OneName(n)'
    <3>1. OneName(n) BY <2>1 DEF SoleInv
    <3>2. \A u \in Users : (u \in Live' /\ users'[u].name = n) <=> (u \in Live /\ users[u].name = n) BY <2>5
    <3> QED BY <3>1, <3>2, <2>1, <2>6, NameKept
  <2>10. ASSUME NEW t \in Students \ (contested' \union {None}) PROVE OneStudent(t)'
    <3>1. OneStudent(t) BY <2>1 DEF SoleInv
    <3>2. \A u \in Users : (u \in Live' /\ users'[u].student = t) <=> (u \in Live /\ users[u].student = t) BY <2>5
    <3> QED BY <3>1, <3>2, <2>7, StudentKept
  <2>11. ASSUME NEW i \in Invitations \ (contested' \union {None}) PROVE OneGuest(i)'
    <3>1. OneGuest(i) BY <2>1 DEF SoleInv
    <3>2. CASE i # j
      <4>1. \A u \in Users : (u \in Live' /\ users'[u].invite = i) <=> (u \in Live /\ users[u].invite = i) BY <2>5
      <4>2. invitations'[i] = invitations[i] BY <2>2, <3>2, <1>0 DEF FrontData
      <4> QED BY <3>1, <4>1, <4>2, <2>8, GuestKept
    <3>3. CASE i = j
      <4>1. \A u \in Live' : users'[u].invite # i BY <1>5, <2>2, <2>5, <3>3
      <4>2. \A q \in Procs : ~Spending(q, i) BY <2>2, <3>3 DEF Spending, Active
      <4>3. \A q \in Procs : ~Spending(q, i)' BY <2>8, <4>2
      <4> QED BY <4>1, <4>3 DEF OneGuest
    <3> QED BY <3>2, <3>3
  <2> QED BY <1>8, <2>9, <2>10, <2>11
<1>12. CASE CheckName(p)
  <2> DEFINE m == req[p].name
  <2>1. /\ pc[p] = "name" /\ req[p].op = "register" /\ UNCHANGED <<users, nameIndex, invitations>>
        /\ contested \subseteq contested' /\ (Return(p) \/ On(p, "invitation"))
        /\ On(p, "invitation") => m \in contested' \/ (nameIndex[m] = None /\ (Registering(p) => m \in contested'))
    <3>1. pc[p] = "name" /\ req[p].op = "register" /\ UNCHANGED <<users, nameIndex, invitations>> BY <1>12 DEF CheckName, At
    <3>2. \/ Return(p) /\ contested' = contested
          \/ /\ nameIndex[m] = None /\ On(p, "invitation")
             /\ contested' = IF Registering(p) THEN contested \union {m} ELSE contested
          \/ On(p, "invitation") /\ contested' = contested \union {m}
      BY <1>12 DEF CheckName
    <3>3. Return(p) => ~On(p, "invitation")
      <4>1. Return(p) => pc'[p] = "idle" OBVIOUS
      <4>2. On(p, "invitation") => pc'[p] = "invitation" OBVIOUS
      <4> QED BY <4>1, <4>2
    <3> QED BY <3>1, <3>2, <3>3
  <2>2. pc'[p] = "idle" \/ (On(p, "invitation") /\ pc'[p] = "invitation" /\ req'[p] = req[p]) BY <2>1
  <2>3. \A n : ~Naming(p, n) /\ ~Indexing(p, n) /\ ~Indexing(p, n)' BY <2>1, <2>2 DEF Naming, Indexing
  <2>4. \A n : Naming(p, n)' => n = m /\ On(p, "invitation") BY <2>2 DEF Naming, Active, Busy
  <2>5. \A t : ~Adding(p, t)' BY <2>2 DEF Adding, At
  <2>6. \A i : ~Spending(p, i)' BY <2>2 DEF Spending
  <2>7. \A u \in Users : (u \in Live' <=> u \in Live) /\ users'[u] = users[u] BY <1>7, <2>1
  <2> HIDE DEF Live
  <2>8. ASSUME NEW t \in Students \ (contested' \union {None}) PROVE OneStudent(t)'
    <3>1. OneStudent(t) BY <2>1 DEF SoleInv
    <3>2. \A u \in Users : (u \in Live' /\ users'[u].student = t) <=> (u \in Live /\ users[u].student = t) BY <2>7
    <3> QED BY <3>1, <3>2, <2>5, <1>4, StudentKept
  <2>9. ASSUME NEW i \in Invitations \ (contested' \union {None}) PROVE OneGuest(i)'
    <3>1. OneGuest(i) BY <2>1 DEF SoleInv
    <3>2. \A u \in Users : (u \in Live' /\ users'[u].invite = i) <=> (u \in Live /\ users[u].invite = i) BY <2>7
    <3> QED BY <3>1, <3>2, <2>1, <2>6, <1>4, GuestKept
  <2>10. ASSUME NEW n \in Names \ (contested' \union {NotAllowed}) PROVE OneName(n)'
    <3>1. OneName(n) BY <2>1 DEF SoleInv
    <3>2. \A u \in Users : (u \in Live' /\ users'[u].name = n) <=> (u \in Live /\ users[u].name = n) BY <2>7
    <3>3. CASE ~Naming(p, n)' BY <3>1, <3>2, <3>3, <2>1, <2>3, <1>4, NameKept
    <3>4. CASE Naming(p, n)'
      <4>1. n = m /\ nameIndex[m] = None /\ ~Registering(p) BY <2>1, <2>4, <3>4
      <4>2. \A q \in Procs \ {p} : ~Naming(q, n) /\ ~Indexing(q, n) BY <4>1 DEF Registering, Naming, Indexing, Active
      <4>3. \A u \in Live : users[u].name # n BY <2>3, <3>1, <4>1, <4>2 DEF OneName
      <4>4. \A q \in Procs \ {p} : ~Naming(q, n)' /\ ~Indexing(q, n)' BY <1>4, <4>2
      <4>5. \A u \in Live' : users'[u].name # n BY <1>5, <2>7, <4>3
      <4> QED BY <4>4, <4>5 DEF OneName
    <3> QED BY <3>3, <3>4
  <2> QED BY <1>8, <2>8, <2>9, <2>10
<1>13. CASE GetInvitation(p)
  <2> DEFINE j == req[p].invite
  <2>1. /\ pc[p] = "invitation" /\ req[p].op = "register" /\ UNCHANGED <<users, nameIndex, invitations>> /\ contested \subseteq contested'
        /\ \/ Return(p)
           \/ /\ invitations[j] # None /\ \E v : With(p, "use", v)
              /\ j \notin contested' => \A q \in Procs \ {p} : ~(At(q, "use", {"register"}) /\ req[q].invite = j)
    BY <1>13 DEF GetInvitation, At
  <2>2. \/ pc'[p] = "idle"
        \/ /\ invitations[j] # None /\ pc'[p] = "use" /\ req'[p] = req[p]
           /\ j \notin contested' => \A q \in Procs \ {p} : ~(At(q, "use", {"register"}) /\ req[q].invite = j)
    BY <2>1
  <2>3. \A n : (Naming(p, n)' => Naming(p, n)) /\ ~Indexing(p, n) /\ ~Indexing(p, n)'
    BY <1>3, <2>1, <2>2 DEF Naming, Indexing, Active, Busy
  <2>4. \A t : ~Adding(p, t)' BY <2>2 DEF Adding, At
  <2>5. \A i : ~Spending(p, i) /\ (Spending(p, i)' => i = j /\ pc'[p] = "use") BY <2>1, <2>2 DEF Spending, Active, Busy
  <2>6. \A u \in Users : (u \in Live' <=> u \in Live) /\ users'[u] = users[u] BY <1>7, <2>1
  <2> HIDE DEF Live
  <2>7. ASSUME NEW t \in Students \ (contested' \union {None}) PROVE OneStudent(t)'
    <3>1. OneStudent(t) BY <2>1 DEF SoleInv
    <3>2. \A u \in Users : (u \in Live' /\ users'[u].student = t) <=> (u \in Live /\ users[u].student = t) BY <2>6
    <3> QED BY <3>1, <3>2, <2>4, <1>4, StudentKept
  <2>8. ASSUME NEW n \in Names \ (contested' \union {NotAllowed}) PROVE OneName(n)'
    <3>1. OneName(n) BY <2>1 DEF SoleInv
    <3>2. \A u \in Users : (u \in Live' /\ users'[u].name = n) <=> (u \in Live /\ users[u].name = n) BY <2>6
    <3> QED BY <3>1, <3>2, <2>1, <2>3, <1>4, NameKept
  <2>9. ASSUME NEW i \in Invitations \ (contested' \union {None}) PROVE OneGuest(i)'
    <3>1. OneGuest(i) BY <2>1 DEF SoleInv
    <3>2. \A u \in Users : (u \in Live' /\ users'[u].invite = i) <=> (u \in Live /\ users[u].invite = i) BY <2>6
    <3>3. CASE ~Spending(p, i)' BY <3>1, <3>2, <3>3, <2>1, <2>5, <1>4, GuestKept
    <3>4. CASE Spending(p, i)'
      <4>1. i = j /\ pc'[p] = "use" /\ invitations[i] # None BY <2>2, <2>5, <3>4
      <4>2. \A q \in Procs \ {p} : ~(At(q, "use", {"register"}) /\ req[q].invite = i) BY <2>2, <4>1
      <4>3. \A q \in Procs \ {p} : Spending(q, i) => At(q, "use", {"register"}) /\ req[q].invite = i
        BY <3>1, <4>1 DEF OneGuest, Spending, Active, At
      <4>4. \A q \in Procs \ {p} : ~Spending(q, i)' BY <1>4, <4>2, <4>3
      <4>5. \A u \in Live' : users'[u].invite # i BY <1>5, <2>6, <3>1, <4>1 DEF OneGuest
      <4> QED BY <4>1, <4>4, <4>5 DEF OneGuest
    <3> QED BY <3>3, <3>4
  <2> QED BY <1>8, <2>7, <2>8, <2>9
<1>14. CASE AddUser(p)
  <2> DEFINE m == req[p].name
             j == req[p].invite
             r == User(m, req[p].pwd, m, seen[p].group, None, j)
  <2>1. pc[p] = "insert" /\ req[p].op = "register" /\ UNCHANGED <<nameIndex, invitations, contested>> BY <1>14 DEF AddUser, At
  <2>2. PICK u \in Users : /\ NextUser(u) /\ users' = [users EXCEPT ![u] = r]
                           /\ With(p, "index", [seen[p] EXCEPT !.new = u])
    BY <1>14 DEF AddUser
  <2>3. m \in Names /\ j \in Invitations BY <2>1, <1>3 DEF Requested
  <2>4. r \in UserRow /\ r.name = m /\ r.student = None /\ r.invite = j
    <3>1. seen[p].group \in Groups BY <2>1, <1>3 DEF Briefed
    <3> QED BY <2>1, <2>3, <3>1, <1>3 DEF Requested, User, UserRow, AnyNick
  <2> HIDE DEF r
  <2>5. \A v \in Users : /\ v \in Live' <=> v \in Live \/ v = u
                         /\ users'[v] = IF v = u THEN r ELSE users[v]
    <3>1. u \in Users /\ u \notin Live /\ r \in UserRow /\ users' = [users EXCEPT ![u] = r] BY <2>2, <2>4 DEF NextUser
    <3>2. Live' = Live \union {u} /\ users'[u] = r /\ \A v \in Users \ {u} : users'[v] = users[v]
      BY <1>0, <3>1, RowSet
    <3>3. ASSUME NEW v \in Users
          PROVE  (v \in Live' <=> v \in Live \/ v = u) /\ users'[v] = IF v = u THEN r ELSE users[v]
      BY <3>2
    <3> QED BY <3>3
  <2>6. pc'[p] = "index" /\ req'[p] = req[p] BY <2>2
  <2>7. Naming(p, m) /\ Indexing(p, m)' /\ \A n : /\ ~Naming(p, n)' /\ ~Indexing(p, n) /\ (Indexing(p, n)' => n = m)
    BY <1>3, <2>1, <2>6 DEF Naming, Indexing, Active, Busy
  <2>8. Spending(p, j) /\ \A i : ~Spending(p, i)' BY <1>3, <2>1, <2>6 DEF Spending, Active
  <2>9. \A t : ~Adding(p, t)' BY <2>6 DEF Adding, At
  <2>10. u \notin Live BY <2>2 DEF NextUser
  <2> HIDE DEF Live
  <2>11. ASSUME NEW n \in Names \ (contested' \union {NotAllowed}) PROVE OneName(n)'
    <3>1. OneName(n) BY <2>1 DEF SoleInv
    <3>2. CASE n # m
      <4>1. \A v \in Users : (v \in Live' /\ users'[v].name = n) <=> (v \in Live /\ users[v].name = n)
        BY <2>4, <2>5, <2>10, <3>2
      <4>2. \A q \in Procs : (Naming(q, n)' => Naming(q, n)) /\ (Indexing(q, n)' <=> Indexing(q, n)) BY <1>4, <2>7, <3>2
      <4> QED BY <3>1, <4>1, <4>2, <2>1, NameKept
    <3>3. CASE n = m
      <4>1. \A v \in Live : users[v].name # n BY <2>7, <3>1, <3>3 DEF OneName
      <4>2. \A q \in Procs \ {p} : ~Naming(q, n) /\ ~Indexing(q, n) BY <2>7, <3>1, <3>3 DEF OneName
      <4>3. \A q \in Procs \ {p} : ~Naming(q, n)' /\ ~Indexing(q, n)' BY <1>4, <4>2
      <4>4. \A v \in Live' : users'[v].name = n => v = u BY <1>5, <2>5, <4>1
      <4>5. \A q \in Procs : ~Naming(q, n)' BY <2>7, <4>3
      <4> QED BY <2>7, <3>3, <4>3, <4>4, <4>5 DEF OneName
    <3> QED BY <3>2, <3>3
  <2>12. ASSUME NEW i \in Invitations \ (contested' \union {None}) PROVE OneGuest(i)'
    <3>1. OneGuest(i) BY <2>1 DEF SoleInv
    <3>2. CASE i # j
      <4>1. \A v \in Users : (v \in Live' /\ users'[v].invite = i) <=> (v \in Live /\ users[v].invite = i)
        BY <2>4, <2>5, <2>10, <3>2
      <4> QED BY <3>1, <4>1, <2>1, <2>8, <1>4, GuestKept
    <3>3. CASE i = j
      <4>1. \A v \in Live : users[v].invite # i BY <2>8, <3>1, <3>3 DEF OneGuest
      <4>2. \A q \in Procs : ~Spending(q, i)' BY <1>4, <2>3, <2>8, <3>1, <3>3 DEF OneGuest
      <4>3. \A v \in Live' : users'[v].invite = i => v = u BY <1>5, <2>5, <4>1
      <4>4. invitations'[i] = None BY <2>1, <2>8, <3>1, <3>3 DEF OneGuest
      <4> QED BY <4>2, <4>3, <4>4 DEF OneGuest
    <3> QED BY <3>2, <3>3
  <2>13. ASSUME NEW t \in Students \ (contested' \union {None}) PROVE OneStudent(t)'
    <3>1. OneStudent(t) BY <2>1 DEF SoleInv
    <3>2. \A v \in Users : (v \in Live' /\ users'[v].student = t) <=> (v \in Live /\ users[v].student = t) BY <2>4, <2>5, <2>10
    <3> QED BY <3>1, <3>2, <2>9, <1>4, StudentKept
  <2> QED BY <1>8, <2>11, <2>12, <2>13
<1>15. CASE AddUserIndex(p)
  <2> DEFINE m == req[p].name
  <2>1. pc[p] = "index" /\ req[p].op = "register" /\ On(p, "newHash") /\ UNCHANGED <<users, invitations, contested>>
    BY <1>15 DEF AddUserIndex, At
  <2>2. m \in Names /\ seen[p].new \in Live BY <2>1, <1>3 DEF Requested, Briefed
  <2>3. \A n \in Names : nameIndex'[n] = IF n = m THEN seen[p].new ELSE nameIndex[n]
    BY <1>15, <1>0 DEF AddUserIndex, FrontData
  <2>4. pc'[p] = "newHash" BY <2>1
  <2>5. \A n : ~Naming(p, n) /\ ~Naming(p, n)' /\ ~Indexing(p, n)' /\ (Indexing(p, n) => n = m)
    BY <2>1, <2>4 DEF Naming, Indexing
  <2>6. \A t : ~Adding(p, t)' BY <2>4 DEF Adding, At
  <2>7. \A i : ~Spending(p, i)' BY <2>4 DEF Spending
  <2>8. \A u \in Users : (u \in Live' <=> u \in Live) /\ users'[u] = users[u] BY <1>7, <2>1
  <2> HIDE DEF Live
  <2>9. ASSUME NEW t \in Students \ (contested' \union {None}) PROVE OneStudent(t)'
    <3>1. OneStudent(t) BY <2>1 DEF SoleInv
    <3>2. \A u \in Users : (u \in Live' /\ users'[u].student = t) <=> (u \in Live /\ users[u].student = t) BY <2>8
    <3> QED BY <3>1, <3>2, <2>6, <1>4, StudentKept
  <2>10. ASSUME NEW i \in Invitations \ (contested' \union {None}) PROVE OneGuest(i)'
    <3>1. OneGuest(i) BY <2>1 DEF SoleInv
    <3>2. \A u \in Users : (u \in Live' /\ users'[u].invite = i) <=> (u \in Live /\ users[u].invite = i) BY <2>8
    <3> QED BY <3>1, <3>2, <2>1, <2>7, <1>4, GuestKept
  <2>11. ASSUME NEW n \in Names \ (contested' \union {NotAllowed}) PROVE OneName(n)'
    <3>1. OneName(n) BY <2>1 DEF SoleInv
    <3>2. \A u \in Users : (u \in Live' /\ users'[u].name = n) <=> (u \in Live /\ users[u].name = n) BY <2>8
    <3>3. CASE n # m
      <4>1. nameIndex'[n] = nameIndex[n] BY <2>3, <3>3
      <4>2. \A q \in Procs : (Naming(q, n)' => Naming(q, n)) /\ (Indexing(q, n)' <=> Indexing(q, n)) BY <1>4, <2>5, <3>3
      <4> QED BY <3>1, <3>2, <4>1, <4>2, NameKept
    <3>4. CASE n = m
      <4>1. nameIndex'[n] # None BY <1>5, <2>2, <2>3, <3>4
      <4>2. \A q \in Procs : (Naming(q, n)' => Naming(q, n)) /\ (Indexing(q, n)' => Indexing(q, n)) BY <1>4, <2>5
      <4>3. \A v, w \in Live' : users'[v].name = n /\ users'[w].name = n => v = w BY <1>5, <3>1, <3>2 DEF OneName
      <4>4. \A q, r \in Procs : (Naming(q, n)' \/ Indexing(q, n)') /\ (Naming(r, n)' \/ Indexing(r, n)') => q = r
        BY <3>1, <4>2 DEF OneName
      <4>5. \A q \in Procs : Naming(q, n)' => \A v \in Live' : users'[v].name # n BY <1>5, <3>1, <3>2, <4>2 DEF OneName
      <4> QED BY <4>1, <4>3, <4>4, <4>5 DEF OneName
    <3> QED BY <3>3, <3>4
  <2> QED BY <1>8, <2>9, <2>10, <2>11
<1> QED BY <1>9, <1>10, <1>11, <1>12, <1>13, <1>14, <1>15

LEMMA SoleInit == ASSUME Init PROVE SoleInv
<1> USE DEF Init, HandlersInit, AccountsInit, ExperienceInit
<1>1. \A p \in Procs : pc[p] = "idle" OBVIOUS
<1>2. ASSUME NEW p \in Procs, NEW x PROVE ~Naming(p, x) /\ ~Indexing(p, x) /\ ~Adding(p, x) /\ ~Spending(p, x)
  BY <1>1 DEF Naming, Indexing, Adding, Spending, At
<1>3. \A u \in Live : u = First /\ users[u] = Admin BY DEF Live
<1>4. First \in Users /\ None \notin Users BY AdminIsUser, NoneIsNoUser
<1>5. nameIndex = [n \in Names |-> IF n = Admin.name THEN First ELSE None] /\ invitations = [i \in Invitations |-> None] OBVIOUS
<1> HIDE DEF Live, Init, HandlersInit, AccountsInit, ExperienceInit
<1>6. ASSUME NEW n \in Names PROVE OneName(n) BY <1>2, <1>3, <1>4, <1>5 DEF OneName
<1>7. ASSUME NEW s \in Students PROVE OneStudent(s) BY <1>2, <1>3 DEF OneStudent
<1>8. ASSUME NEW i \in Invitations PROVE OneGuest(i) BY <1>2, <1>3, <1>5 DEF OneGuest
<1> QED BY <1>6, <1>7, <1>8 DEF SoleInv

\* A name, a Gd student and an invitation have one user each, unless two requests looked
\* for it at the same time or the INSERT was not followed by the index.
THEOREM UsersAreSole == Spec => []OneUserEach
<1>1. Init => Locals /\ FrontTypes /\ Numbers /\ SoleInv BY LocalsInit, FrontInit, SoleInit
<1>2. Locals /\ FrontTypes /\ Numbers /\ SoleInv /\ [Next]_vars => (Locals /\ FrontTypes /\ Numbers /\ SoleInv)'
  <2> SUFFICES ASSUME Locals, FrontTypes, Numbers, SoleInv, [Next]_vars PROVE SoleInv' BY FrontMoves
  <2>1. CASE UNCHANGED accounts /\ Rests(FrontOps) BY <2>1, SoleRests
  <2>2. CASE \E p \in Procs : /\ May(p, UserOps \union Visits) /\ UNCHANGED visitors
                              /\ (Came(p) /\ UNCHANGED accounts) \/ Looks(p) \/ Holds(p) \/ Records(p)
    <3> PICK p \in Procs : /\ May(p, UserOps \union Visits)
                           /\ (Came(p) /\ UNCHANGED accounts) \/ Looks(p) \/ Holds(p) \/ Records(p)
      BY <2>2
    <3>1. CASE Came(p) /\ UNCHANGED accounts
      <4>1. Handled(p) /\ pc[p] \notin Claiming /\ pc'[p] \notin Claiming /\ UNCHANGED userRows
        BY <3>1 DEF Came, Claiming, accounts
      <4> QED BY <4>1, SoleByOthers
    <3>2. CASE Looks(p) \/ Holds(p)
      <4>1. UNCHANGED userRows BY <3>2, LooksUnchanged, HoldersKeepRows DEF accounts
      <4> QED BY <3>2, <4>1, AccountsGoOn, NothingClaimed, SoleByOthers DEF GoesOn
    <3>3. CASE Records(p) BY <3>3, SoleByRecords, SoleByClaims, Zenon DEF Records
    <3> QED BY <3>1, <3>2, <3>3
  <2>3. CASE \E p \in Procs : /\ May(p, Visits \union {"generate", "tokens"})
                              /\ (Called(p) /\ UNCHANGED accounts) \/ Visiting(p)
    <3> PICK p \in Procs : (Called(p) /\ UNCHANGED accounts) \/ Visiting(p) BY <2>3
    <3>1. CASE Called(p) /\ UNCHANGED accounts
      <4>1. Handled(p) /\ pc[p] \notin Claiming /\ pc'[p] \notin Claiming /\ UNCHANGED userRows
        BY <3>1 DEF Called, Claiming, accounts
      <4> QED BY <4>1, SoleByOthers
    <3>2. CASE Visiting(p)
      <4>1. UNCHANGED userRows BY <3>2, HoldersKeepRows
      <4> QED BY <3>2, <4>1, VisitorsGoOn, NothingClaimed, SoleByOthers DEF GoesOn
    <3> QED BY <3>1, <3>2
  <2> QED BY <2>1, <2>2, <2>3, FrontMoves
<1>3. FrontTypes /\ SoleInv => OneUserEach
  <2> SUFFICES ASSUME FrontTypes, SoleInv, NEW u \in Live, NEW v \in Live, u # v
               PROVE  /\ users[u].name = users[v].name       => users[u].name \in contested \union {NotAllowed}
                      /\ users[u].student = users[v].student => users[u].student \in contested \union {None}
                      /\ users[u].invite = users[v].invite   => users[u].invite \in contested \union {None}
    BY DEF OneUserEach
  <2>1. users[u] \in UserRow BY RowOf DEF FrontTypes
  <2>2. /\ users[u].name \in Names \union {NotAllowed} /\ users[u].student \in Students \union {None}
        /\ users[u].invite \in Invitations \union {None}
    BY <2>1 DEF UserRow
  <2> HIDE DEF Live
  <2> QED BY <2>2 DEF SoleInv, OneName, OneStudent, OneGuest
<1> QED BY <1>1, <1>2, <1>3, PTL DEF Spec

(***************************************************************************)
(* The hash and the row: who changes a password or a nickname in one of    *)
(* them is alone with it until the other is changed too.                   *)
(***************************************************************************)

\* p has the new password in the hash, and compared the old one with it.
Secret(p, u)   == At(p, "pwdRow", {"password"}) /\ seen[p].user = u
Compared(p, u) == At(p, "pwdCache", {"password"}) /\ seen[p].user = u
\* p has the new nickname in the hash, or in the row.
Nicked(p, u)   == At(p, "nickRow", {"profile"}) /\ seen[p].user = u
Remarked(p, u) == At(p, "remarked", Renames) /\ Named(p) = u
\* p added the row of u, and not the hash.
Newborn(p, u)  == /\ Active(p, Enrols \union {"register"}) /\ seen[p].new = u
                  /\ pc[p] \in {"addIndex", "addHash", "index", "newHash"}

PwdWriter(p, u)  == Secret(p, u) \/ Newborn(p, u)
NickWriter(p, u) == Nicked(p, u) \/ Remarked(p, u) \/ Newborn(p, u)

PwdHolds(u) ==
  /\ \A p, q \in Procs : PwdWriter(p, u) /\ PwdWriter(q, u) => p = q
  /\ (\A p \in Procs : ~PwdWriter(p, u)) => userHash[u].pwd \in {None, users[u].pwd}
  /\ \A p \in Procs : Secret(p, u) => userHash[u].pwd = req[p].pwd /\ users[u].pwd = req[p].old
  /\ \A p \in Procs : Newborn(p, u) =>
       userHash[u].pwd = None /\ users[u].pwd = IF req[p].op = "register" THEN req[p].pwd ELSE NotAllowed
  /\ \A p \in Procs : Compared(p, u) =>
       /\ \A q \in Procs : Secret(q, u) => req[q].pwd = req[p].old
       /\ (\A q \in Procs : ~Secret(q, u)) => users[u].pwd = req[p].old
NickHolds(u) ==
  /\ \A p, q \in Procs : NickWriter(p, u) /\ NickWriter(q, u) => p = q
  /\ (\A p \in Procs : ~NickWriter(p, u)) => userHash[u].nick \in {None, users[u].nick}
  /\ \A p \in Procs : Nicked(p, u) => userHash[u].nick = req[p].nick
  /\ \A p \in Procs : Remarked(p, u) => users[u].nick = req[p].nick
  /\ \A p \in Procs : Newborn(p, u) => users[u].nick = IF req[p].op = "register" THEN req[p].name ELSE NotAllowed
HashInv ==
  /\ \A u \in Users \ Live : userHash[u].pwd = None
  /\ \A u \in Live : <<u, "pwd">> \notin mixed => PwdHolds(u)
  /\ \A u \in Live : <<u, "nick">> \notin mixed => NickHolds(u)

\* p is as much of a writer of u after the step as before it.
PwdAside(p, u) ==
  /\ Secret(p, u)' <=> Secret(p, u)
  /\ Newborn(p, u)' <=> Newborn(p, u)
  /\ Compared(p, u)' => Compared(p, u)
  /\ Secret(p, u) \/ Newborn(p, u) \/ Compared(p, u) => pc'[p] = "idle" \/ req'[p] = req[p]
NickAside(p, u) ==
  /\ Nicked(p, u)' <=> Nicked(p, u)
  /\ Remarked(p, u)' <=> Remarked(p, u)
  /\ Newborn(p, u)' <=> Newborn(p, u)
  /\ NickWriter(p, u) => req'[p] = req[p]

LEMMA PwdKept ==
  ASSUME NEW u, PwdHolds(u), users'[u].pwd = users[u].pwd, userHash'[u].pwd = userHash[u].pwd, \A p \in Procs : PwdAside(p, u)
  PROVE  PwdHolds(u)'
<1>1. \A p \in Procs : Secret(p, u)' \/ Newborn(p, u)' \/ Compared(p, u)' => pc'[p] # "idle"
  BY DEF Secret, Newborn, Compared, At, Active, Busy
<1>2. \A p \in Procs : /\ Secret(p, u)' <=> Secret(p, u)
                       /\ Newborn(p, u)' <=> Newborn(p, u)
                       /\ Compared(p, u)' => Compared(p, u)
                       /\ Secret(p, u)' \/ Newborn(p, u)' \/ Compared(p, u)' => req'[p] = req[p]
  BY <1>1 DEF PwdAside
<1>3. \A p, q \in Procs : PwdWriter(p, u)' /\ PwdWriter(q, u)' => p = q BY <1>2 DEF PwdHolds, PwdWriter
<1>4. (\A p \in Procs : ~PwdWriter(p, u)') => userHash'[u].pwd \in {None, users'[u].pwd} BY <1>2 DEF PwdHolds, PwdWriter
<1>5. \A p \in Procs : Secret(p, u)' => userHash'[u].pwd = req'[p].pwd /\ users'[u].pwd = req'[p].old BY <1>2 DEF PwdHolds
<1>6. \A p \in Procs : Newborn(p, u)' =>
        userHash'[u].pwd = None /\ users'[u].pwd = IF req'[p].op = "register" THEN req'[p].pwd ELSE NotAllowed
  BY <1>2 DEF PwdHolds
<1>7. \A p \in Procs : Compared(p, u)' =>
        /\ \A q \in Procs : Secret(q, u)' => req'[q].pwd = req'[p].old
        /\ (\A q \in Procs : ~Secret(q, u)') => users'[u].pwd = req'[p].old
  BY <1>2 DEF PwdHolds
<1> QED BY <1>3, <1>4, <1>5, <1>6, <1>7 DEF PwdHolds

LEMMA NickKept ==
  ASSUME NEW u, NickHolds(u), users'[u].nick = users[u].nick, userHash'[u].nick = userHash[u].nick, \A p \in Procs : NickAside(p, u)
  PROVE  NickHolds(u)'
<1>1. \A p \in Procs : /\ Nicked(p, u)' <=> Nicked(p, u)
                       /\ Remarked(p, u)' <=> Remarked(p, u)
                       /\ Newborn(p, u)' <=> Newborn(p, u)
                       /\ NickWriter(p, u)' <=> NickWriter(p, u)
                       /\ NickWriter(p, u) => req'[p] = req[p]
  BY DEF NickAside, NickWriter
<1>2. \A p, q \in Procs : NickWriter(p, u)' /\ NickWriter(q, u)' => p = q BY <1>1 DEF NickHolds
<1>3. (\A p \in Procs : ~NickWriter(p, u)') => userHash'[u].nick \in {None, users'[u].nick} BY <1>1 DEF NickHolds
<1>4. \A p \in Procs : Nicked(p, u)' => userHash'[u].nick = req'[p].nick BY <1>1 DEF NickHolds, NickWriter
<1>5. \A p \in Procs : Remarked(p, u)' => users'[u].nick = req'[p].nick BY <1>1 DEF NickHolds, NickWriter
<1>6. \A p \in Procs : Newborn(p, u)' => users'[u].nick = IF req'[p].op = "register" THEN req'[p].name ELSE NotAllowed
  BY <1>1 DEF NickHolds, NickWriter
<1> QED BY <1>2, <1>3, <1>4, <1>5, <1>6 DEF NickHolds

\* Only w's row and hash change, or none.
LEMMA HashKept ==
  ASSUME HashInv, mixed \subseteq mixed', NEW w,
         \A u \in Live' \ {w} : /\ u \in Live
                                /\ users'[u].pwd = users[u].pwd /\ users'[u].nick = users[u].nick
                                /\ userHash'[u].pwd = userHash[u].pwd /\ userHash'[u].nick = userHash[u].nick
                                /\ \A p \in Procs : PwdAside(p, u) /\ NickAside(p, u),
         \A u \in Users \ Live' : u \notin Live /\ userHash'[u].pwd = userHash[u].pwd,
         w \in Live' => /\ <<w, "pwd">> \notin mixed' => PwdHolds(w)'
                        /\ <<w, "nick">> \notin mixed' => NickHolds(w)'
  PROVE  HashInv'
<1>1. \A u \in Users \ Live' : userHash'[u].pwd = None BY DEF HashInv
<1>2. ASSUME NEW u \in Live', <<u, "pwd">> \notin mixed' PROVE PwdHolds(u)'
  <2>1. CASE u = w BY <1>2, <2>1
  <2>2. CASE u # w
    <3>1. u \in Live /\ <<u, "pwd">> \notin mixed BY <1>2, <2>2
    <3>2. PwdHolds(u) BY <3>1 DEF HashInv
    <3> QED BY <2>2, <3>2, PwdKept
  <2> QED BY <2>1, <2>2
<1>3. ASSUME NEW u \in Live', <<u, "nick">> \notin mixed' PROVE NickHolds(u)'
  <2>1. CASE u = w BY <1>3, <2>1
  <2>2. CASE u # w
    <3>1. u \in Live /\ <<u, "nick">> \notin mixed BY <1>3, <2>2
    <3>2. NickHolds(u) BY <3>1 DEF HashInv
    <3> QED BY <2>2, <3>2, NickKept
  <2> QED BY <2>1, <2>2
<1> QED BY <1>1, <1>2, <1>3 DEF HashInv

\* A handler but the one that moves.
LEMMA OthersWrite ==
  ASSUME NEW p \in Procs, Handled(p), NEW q \in Procs \ {p}, NEW u PROVE PwdAside(q, u) /\ NickAside(q, u)
<1>1. pc'[q] = pc[q] /\ req'[q] = req[q] /\ seen'[q] = seen[q] BY DEF Handled
<1> QED BY <1>1 DEF PwdAside, NickAside, Secret, Newborn, Compared, NickWriter, Nicked, Remarked, Named, At, Active, Busy

\* Where a handler has a part in this.
HashPlaces == {"pwdCache", "pwdRow", "nickRow", "remarked", "addIndex", "addHash", "index", "newHash"}

LEMMA NotWriting ==
  ASSUME NEW p, NEW u, pc[p] \notin HashPlaces, pc'[p] \notin HashPlaces PROVE PwdAside(p, u) /\ NickAside(p, u)
BY DEF HashPlaces, PwdAside, NickAside, Secret, Newborn, Compared, NickWriter, Nicked, Remarked, At

\* No row or hash changes, nor who writes them.
LEMMA HashQuiet ==
  ASSUME HashInv, mixed \subseteq mixed', UNCHANGED users,
         \A u \in Users : userHash'[u].pwd = userHash[u].pwd /\ userHash'[u].nick = userHash[u].nick,
         \A u \in Users, p \in Procs : PwdAside(p, u) /\ NickAside(p, u)
  PROVE  HashInv'
<1>1. Live' = Live /\ Live \subseteq Users BY DEF Live
<1>2. PICK w : w \notin Live BY LiveTyped
<1> HIDE DEF Live
<1> QED BY <1>1, <1>2, HashKept

LEMMA HashByOthers ==
  ASSUME Locals, HashInv, NEW p \in Procs, Handled(p), pc[p] \notin HashPlaces, pc'[p] \notin HashPlaces,
         mixed \subseteq mixed', UNCHANGED users,
         \A u \in Users : userHash'[u].pwd = userHash[u].pwd /\ userHash'[u].nick = userHash[u].nick
  PROVE  HashInv'
<1>1. \A u \in Users, q \in Procs : PwdAside(q, u) /\ NickAside(q, u) BY OthersWrite, NotWriting
<1> QED BY <1>1, HashQuiet

LEMMA HashRests == ASSUME HashInv, UNCHANGED userRows, Rests(FrontOps) PROVE HashInv'
<1>1. UNCHANGED <<users, userHash, mixed>> BY DEF userRows
<1>2. ASSUME NEW u \in Users, NEW q \in Procs PROVE PwdAside(q, u) /\ NickAside(q, u)
  <2>1. /\ Active(q, FrontOps)' <=> Active(q, FrontOps)
        /\ Active(q, FrontOps) => pc'[q] = pc[q] /\ req'[q] = req[q] /\ seen'[q] = seen[q]
    BY DEF Rests
  <2>2. {"password", "profile", "register"} \union Renames \union Enrols \subseteq FrontOps
    BY DEF FrontOps, UserOps, Open, Enrols, Renames, Sessioned
  <2>3. ASSUME Active(q, FrontOps) PROVE PwdAside(q, u) /\ NickAside(q, u)
    BY <2>1, <2>3 DEF PwdAside, NickAside, Secret, Newborn, Compared, NickWriter, Nicked, Remarked, Named, At, Active, Busy
  <2>4. ASSUME ~Active(q, FrontOps) PROVE PwdAside(q, u) /\ NickAside(q, u)
    <3>1. ~Active(q, FrontOps)' BY <2>1, <2>4
    <3>2. /\ ~Secret(q, u) /\ ~Newborn(q, u) /\ ~Compared(q, u) /\ ~Nicked(q, u) /\ ~Remarked(q, u)
      BY <2>2, <2>4 DEF Secret, Newborn, Compared, Nicked, Remarked, At, Active, Busy
    <3>3. /\ ~Secret(q, u)' /\ ~Newborn(q, u)' /\ ~Compared(q, u)' /\ ~Nicked(q, u)' /\ ~Remarked(q, u)'
      BY <2>2, <3>1 DEF Secret, Newborn, Compared, Nicked, Remarked, At, Active, Busy
    <3> QED BY <3>2, <3>3 DEF PwdAside, NickAside, NickWriter
  <2> QED BY <2>3, <2>4
<1> QED BY <1>1, <1>2, HashQuiet

\* The steps that have no part in this, before and after.
LEMMA NothingWritten ==
  ASSUME Locals, NEW p \in Procs, (Looks(p) /\ ~CheckOldPassword(p)) \/ Holds(p) \/ Visiting(p)
  PROVE  pc[p] \notin HashPlaces /\ pc'[p] \notin HashPlaces
<1> USE Handling DEF HashPlaces
<1>1. CASE GetHttpSession(p) BY <1>1 DEF GetHttpSession, At
<1>2. CASE LoginIndex(p) BY <1>2 DEF LoginIndex, At
<1>3. CASE LoginHash(p) BY <1>3 DEF LoginHash, At
<1>4. CASE LoginGd(p) BY <1>4 DEF LoginGd, At
<1>5. CASE StudentHit(p) BY <1>5 DEF StudentHit, At, Found, Finish
<1>6. CASE StudentRow(p) BY <1>6 DEF StudentRow, At
<1>7. CASE CheckMember(p) BY <1>7 DEF CheckMember, At
<1>8. CASE UpdateSessionNickname(p) BY <1>8 DEF UpdateSessionNickname, At
<1>9. CASE UpdateHttpSession(p)
  <2>1. pc[p] = "rotate" /\ req[p].op \in Sessioned /\ pc'[p] = Then(p) BY <1>9 DEF UpdateHttpSession, At
  <2> QED BY <2>1, FirstSteps
<1>10. CASE SetHttpSession(p) BY <1>10 DEF SetHttpSession, At
<1>11. CASE Answer(p) BY <1>11 DEF Answer, At
<1>12. CASE LoseAnswer(p) BY <1>12 DEF LoseAnswer, At
<1>14. CASE GenerateInvitation(p) BY <1>14 DEF GenerateInvitation, At
<1>15. CASE QueryInvitations(p) BY <1>15 DEF QueryInvitations, At
<1>16. CASE DeleteExpired(p) BY <1>16 DEF DeleteExpired, At
<1>17. CASE GetOffer(p) BY <1>17 DEF GetOffer, At
<1>18. CASE DropOffer(p) BY <1>18 DEF DropOffer, At
<1>19. CASE TakeOffer(p) BY <1>19 DEF TakeOffer, At
<1>20. CASE GetPhone(p) BY <1>20 DEF GetPhone, At
<1>21. CASE NewGuest(p) BY <1>21, NewGuestGoesOn
<1>22. CASE SetPhone(p) BY <1>22 DEF SetPhone, At
<1>23. CASE BuildInfo(p) BY <1>23 DEF BuildInfo, At
<1>24. CASE Authorize(p) BY <1>24 DEF Authorize, At
<1>25. CASE LogExists(p) BY <1>25 DEF LogExists, At
<1>26. CASE LogFirst(p) BY <1>26 DEF LogFirst, At
<1>27. CASE LogNext(p) BY <1>27 DEF LogNext, At
<1>28. CASE CheckAuthority(p) BY <1>28 DEF CheckAuthority, At
<1>29. CASE StampLogin(p) BY <1>29 DEF StampLogin, At
<1>30. CASE CountLogin(p) BY <1>30 DEF CountLogin, At
<1>31. CASE VisitFails(p) BY <1>31 DEF VisitFails, At
<1> QED BY <1>1, <1>2, <1>3, <1>4, <1>5, <1>6, <1>7, <1>8, <1>9, <1>10, <1>11, <1>12, <1>14, <1>15, <1>16, <1>17, <1>18, <1>19, <1>20, <1>21, <1>22, <1>23, <1>24, <1>25, <1>26, <1>27, <1>28, <1>29, <1>30, <1>31 DEF Looks, Holds, Visiting

LEMMA WritersWrite ==
  ASSUME NEW q, NEW u, PwdWriter(q, u) \/ NickWriter(q, u) PROVE Writes(q) = u
<1>1. CASE Secret(q, u) BY <1>1 DEF Secret, Writes, At
<1>2. CASE Nicked(q, u) BY <1>2 DEF Nicked, Writes, At
<1>3. CASE Remarked(q, u)
  <2>1. pc[q] = "remarked" /\ At(q, "remarked", Renames) /\ Named(q) = u BY <1>3 DEF Remarked, At
  <2> QED BY <2>1 DEF Writes, At
<1>4. CASE Newborn(q, u)
  <2>1. /\ Busy(q) /\ req[q].op \in Enrols \union {"register"} /\ seen[q].new = u
        /\ pc[q] \in {"addIndex", "addHash", "index", "newHash"}
    BY <1>4 DEF Newborn, Active
  <2> QED BY <2>1 DEF Writes, At
<1> QED BY <1>1, <1>2, <1>3, <1>4 DEF PwdWriter, NickWriter

\* The others when p marks nothing.
LEMMA Unmarked ==
  ASSUME NEW p \in Procs, NEW u, NEW f, Mark(p, u, f)
  PROVE  /\ mixed \subseteq mixed'
         /\ <<u, f>> \notin mixed' => \A q \in Procs \ {p} : /\ ~PwdWriter(q, u) /\ ~NickWriter(q, u)
                                                             /\ f = "pwd" => ~Compared(q, u)
<1>1. mixed' = IF Overlap(p, u, f) THEN mixed \union {<<u, f>>} ELSE mixed BY DEF Mark
<1>2. ~Overlap(p, u, f) => \A q \in Procs \ {p} : Writes(q) # u /\ (f = "pwd" => ~Compared(q, u)) BY DEF Overlap, Compared
<1>3. <<u, f>> \notin mixed' => ~Overlap(p, u, f) BY <1>1
<1>4. mixed \subseteq mixed' BY <1>1
<1>5. \A q \in Procs : PwdWriter(q, u) \/ NickWriter(q, u) => Writes(q) = u BY WritersWrite
<1> QED BY <1>2, <1>3, <1>4, <1>5

\* Who works on what.
LEMMA WriterTyped ==
  ASSUME FrontTypes, NEW p \in Procs, NEW u
  PROVE  /\ Secret(p, u) \/ Compared(p, u) \/ Nicked(p, u) => u \in Live \union Guests
         /\ Newborn(p, u) => u \in Live
<1>1. Secret(p, u) \/ Compared(p, u) \/ Nicked(p, u) => Person(p) /\ req[p].op \in Sessioned /\ u = seen[p].user
  BY DEF Secret, Compared, Nicked, At, Person, Active, Busy, UserOps, Sessioned
<1>2. Newborn(p, u) => Person(p) /\ u = seen[p].new /\ pc[p] \in {"addIndex", "addHash", "index", "newHash"}
  BY DEF Newborn, Active, Person, Enrols, UserOps, Open, Sessioned
<1>3. Person(p) => Briefed(p) BY DEF FrontTypes
<1> QED BY <1>1, <1>2, <1>3 DEF Briefed

\* The old password is that of the hash.
LEMMA HashByCompare ==
  ASSUME Locals, FrontTypes, HashInv, NEW p \in Procs, CheckOldPassword(p), UNCHANGED userRows
  PROVE  HashInv'
<1> USE Handling
<1>1. UNCHANGED <<users, userHash, mixed>> /\ Live' = Live BY DEF userRows, Live
<1>2. pc[p] = "old" /\ req[p].op = "password" BY DEF CheckOldPassword, At
<1>3. /\ Handled(p) /\ req'[p] = req[p] /\ seen'[p] = seen[p]
      /\ pc'[p] = IF userHash[seen[p].user].pwd = req[p].old THEN "pwdCache" ELSE "answer"
  BY DEF CheckOldPassword
<1>4. CASE pc'[p] # "pwdCache" BY <1>1, <1>2, <1>3, <1>4, HashByOthers DEF HashPlaces
<1>5. CASE pc'[p] = "pwdCache"
  <2> PICK w : w = seen[p].user OBVIOUS
  <2>1. userHash[w].pwd = req[p].old BY <1>3, <1>5
  <2>2. Person(p) BY <1>2 DEF Person, Active, Busy, UserOps, Sessioned
  <2>3. req[p].old # None BY <1>2, <2>2, Briefing DEF Requested
  <2>4. \A u : /\ ~Secret(p, u) /\ ~Newborn(p, u) /\ ~Nicked(p, u) /\ ~Remarked(p, u)
               /\ ~Secret(p, u)' /\ ~Newborn(p, u)' /\ ~Nicked(p, u)' /\ ~Remarked(p, u)'
               /\ ~Compared(p, u) /\ (Compared(p, u)' => u = w)
    BY <1>2, <1>3, <1>5 DEF Secret, Compared, Newborn, Nicked, Remarked, At
  <2>5. \A u \in Users, q \in Procs : NickAside(q, u) /\ (u # w \/ q # p => PwdAside(q, u))
    BY <1>3, <2>4, OthersWrite DEF PwdAside, NickAside, NickWriter
  <2>6. ASSUME w \in Live, <<w, "pwd">> \notin mixed PROVE PwdHolds(w)'
    <3>1. PwdHolds(w) BY <2>6 DEF HashInv
    <3>2. \A q \in Procs : /\ (Secret(q, w)' <=> Secret(q, w)) /\ (Newborn(q, w)' <=> Newborn(q, w))
                           /\ (PwdWriter(q, w)' <=> PwdWriter(q, w))
                           /\ q # p => (Compared(q, w)' => Compared(q, w))
                           /\ req'[q] = req[q]
      <4>1. w \in Users BY <2>6 DEF Live
      <4>2. \A q \in Procs : req'[q] = req[q] BY <1>3 DEF Handled
      <4> QED BY <2>4, <2>5, <4>1, <4>2 DEF PwdAside, PwdWriter
    <3>3. /\ \A q \in Procs : Secret(q, w) => req[q].pwd = req[p].old
          /\ (\A q \in Procs : ~Secret(q, w)) => users[w].pwd = req[p].old
      BY <2>1, <2>3, <3>1 DEF PwdHolds, PwdWriter
    <3>4. \A q \in Procs : Compared(q, w)' =>
             /\ \A s \in Procs : Secret(s, w)' => req'[s].pwd = req'[q].old
             /\ (\A s \in Procs : ~Secret(s, w)') => users'[w].pwd = req'[q].old
      BY <1>1, <3>1, <3>2, <3>3 DEF PwdHolds
    <3>5. /\ \A s, q \in Procs : PwdWriter(s, w)' /\ PwdWriter(q, w)' => s = q
          /\ (\A s \in Procs : ~PwdWriter(s, w)') => userHash'[w].pwd \in {None, users'[w].pwd}
          /\ \A s \in Procs : Secret(s, w)' => userHash'[w].pwd = req'[s].pwd /\ users'[w].pwd = req'[s].old
          /\ \A s \in Procs : Newborn(s, w)' =>
               userHash'[w].pwd = None /\ users'[w].pwd = IF req'[s].op = "register" THEN req'[s].pwd ELSE NotAllowed
      BY <1>1, <3>1, <3>2 DEF PwdHolds
    <3> QED BY <3>4, <3>5 DEF PwdHolds
  <2>7. ASSUME w \in Live, <<w, "nick">> \notin mixed PROVE NickHolds(w)'
    <3>1. NickHolds(w) /\ w \in Users BY <2>7 DEF HashInv, Live
    <3> QED BY <1>1, <2>5, <3>1, NickKept
  <2>8. Live \subseteq Users BY DEF Live
  <2> HIDE DEF Live
  <2> QED BY <1>1, <2>5, <2>6, <2>7, <2>8, HashKept
<1> QED BY <1>4, <1>5

\* Steps of Accounts that write no password and no nickname.
LEMMA HashByIndexing ==
  ASSUME Locals, FrontTypes, HashInv, NEW p \in Procs, May(p, UserOps \union Visits),
         \/ StudentFill(p) \/ StudentNone(p) \/ AddStudentIndex(p) \/ GenerateInvitationToken(p) \/ DeleteInvitationToken(p)
         \/ CheckName(p) \/ GetInvitation(p) \/ UseInvitationToken(p) \/ AddUserIndex(p) \/ QueryGdStudentID(p)
  PROVE  HashInv'
<1> USE Handling DEF HashPlaces
<1>1. ASSUME UNCHANGED <<users, userHash, mixed>>, Handled(p), pc[p] \notin HashPlaces, pc'[p] \notin HashPlaces PROVE HashInv'
  BY <1>1, HashByOthers
<1>2. ASSUME UNCHANGED <<users, userHash, mixed>>, Handled(p), req'[p] = req[p], seen'[p] = seen[p],
             req[p].op \in Enrols \union {"register"},
             pc[p] \in {"addIndex", "index"}, pc'[p] \in {"addHash", "newHash"}
      PROVE  HashInv'
  <2>1. ASSUME NEW u PROVE PwdAside(p, u) /\ NickAside(p, u)
    BY <1>2 DEF PwdAside, NickAside, Secret, Newborn, Compared, NickWriter, Nicked, Remarked, At, Active, Busy
  <2>2. \A u \in Users, q \in Procs : PwdAside(q, u) /\ NickAside(q, u) BY <1>2, <2>1, OthersWrite
  <2> QED BY <1>2, <2>2, HashQuiet
<1>3. CASE StudentFill(p) BY <1>3, <1>1 DEF StudentFill, At, Found, Finish
<1>4. CASE StudentNone(p) BY <1>4, <1>1 DEF StudentNone, At
<1>5. CASE GenerateInvitationToken(p) BY <1>5, <1>1 DEF GenerateInvitationToken, At
<1>6. CASE DeleteInvitationToken(p) BY <1>6, <1>1 DEF DeleteInvitationToken, At
<1>7. CASE CheckName(p) BY <1>7, <1>1 DEF CheckName, At
<1>8. CASE GetInvitation(p) BY <1>8, <1>1 DEF GetInvitation, At
<1>9. CASE UseInvitationToken(p) BY <1>9, <1>1 DEF UseInvitationToken, At
<1>10. CASE AddStudentIndex(p) BY <1>10, <1>2 DEF AddStudentIndex, At
<1>11. CASE AddUserIndex(p) BY <1>11, <1>2 DEF AddUserIndex, At
<1>12. CASE QueryGdStudentID(p)
  <2>1. /\ pc[p] = "studentOf" /\ UNCHANGED <<users, mixed>> /\ (On(p, "remark") \/ On(p, "answer"))
        /\ userHash' = userHash \/ userHash' = [userHash EXCEPT ![req[p].user].student = users[req[p].user].student]
    BY <1>12 DEF QueryGdStudentID, At
  <2> PICK u, v : u = req[p].user /\ v = users[req[p].user].student OBVIOUS
  <2>2. userHash' = userHash \/ userHash' = [userHash EXCEPT ![u].student = v] BY <2>1
  <2>3. HashData(userHash) BY DEF FrontTypes, FrontData
  <2>4. \A w \in Users : userHash'[w].pwd = userHash[w].pwd /\ userHash'[w].nick = userHash[w].nick
    BY <2>2, <2>3, FieldSet DEF FieldIs, Fields
  <2>5. Handled(p) /\ pc'[p] \in {"remark", "answer"} BY <2>1
  <2> QED BY <2>1, <2>4, <2>5, HashByOthers
<1> QED BY <1>3, <1>4, <1>5, <1>6, <1>7, <1>8, <1>9, <1>10, <1>11, <1>12

\* The new user's row is there, and his hash is empty.
LEMMA HashByAdding ==
  ASSUME Locals, FrontTypes, HashInv, NEW p \in Procs, May(p, UserOps \union Visits), AddStudent(p) \/ AddUser(p)
  PROVE  HashInv'
<1> USE Handling
<1>0. FrontData BY DEF FrontTypes
<1>1. Records(p) /\ GoesOn(p) BY AccountsGoOn, Zenon DEF Records
<1>2. Person(p) BY <1>1 DEF GoesOn, Person, Active, May
<1>3. Briefed(p) /\ Requested(req[p]) /\ Handled(p) /\ Busy(p) BY <1>1, <1>2, Briefing DEF GoesOn
<1>4. ASSUME NEW w \in Users, w \notin Live, NEW r \in UserRow, users' = [users EXCEPT ![w] = r],
             UNCHANGED userHash, Mark(p, w, "nick"), pc[p] \in {"add", "insert"}, pc'[p] \in {"addIndex", "index"},
             req'[p] = req[p], req[p].op \in Enrols \union {"register"}, seen'[p].new = w,
             r.pwd = IF req[p].op = "register" THEN req[p].pwd ELSE NotAllowed,
             r.nick = IF req[p].op = "register" THEN req[p].name ELSE NotAllowed
      PROVE  HashInv'
  <2>0. w \in Users /\ w \notin Live /\ r \in UserRow /\ users' = [users EXCEPT ![w] = r] BY <1>4
  <2>1. \A v \in Users : /\ v \in Live' <=> v \in Live \/ v = w
                         /\ users'[v] = IF v = w THEN r ELSE users[v]
    BY <1>0, <2>0, RowAdded
  <2>2. mixed \subseteq mixed' BY <1>4, Unmarked
  <2>3. \A u : /\ ~Secret(p, u) /\ ~Newborn(p, u) /\ ~Nicked(p, u) /\ ~Remarked(p, u) /\ ~Compared(p, u)
               /\ ~Secret(p, u)' /\ ~Nicked(p, u)' /\ ~Remarked(p, u)' /\ ~Compared(p, u)'
               /\ Newborn(p, u)' <=> u = w
    BY <1>4 DEF Secret, Compared, Newborn, Nicked, Remarked, At, Active, Busy
  <2>4. \A u \in Users, q \in Procs : u # w \/ q # p => PwdAside(q, u) /\ NickAside(q, u)
    BY <1>3, <2>3, OthersWrite DEF PwdAside, NickAside, NickWriter
  <2>5. w \notin Live \union Guests BY <1>4, NoGuestIsUser
  <2>6. \A q \in Procs \ {p} : ~Secret(q, w)' /\ ~Newborn(q, w)' /\ ~Compared(q, w)' /\ ~Nicked(q, w)'
    BY <1>4, <2>4, <2>5, WriterTyped DEF PwdAside, NickAside
  <2>7. userHash'[w].pwd = None /\ users'[w] = r BY <1>4, <2>1 DEF HashInv
  <2>8. PwdHolds(w)' BY <1>4, <2>3, <2>6, <2>7 DEF PwdHolds, PwdWriter
  <2>9. ASSUME <<w, "nick">> \notin mixed' PROVE NickHolds(w)'
    <3>1. \A q \in Procs \ {p} : ~Remarked(q, w) BY <1>4, <2>9, Unmarked DEF NickWriter
    <3>2. \A q \in Procs \ {p} : ~Remarked(q, w)' BY <1>4, <2>4, <3>1 DEF NickAside
    <3> QED BY <1>4, <2>3, <2>6, <2>7, <3>2 DEF NickHolds, NickWriter
  <2>10. Live \subseteq Users /\ Live' \subseteq Users BY DEF Live
  <2> HIDE DEF Live
  <2>11. \A u \in Live' \ {w} : u \in Live /\ u \in Users /\ users'[u] = users[u] BY <2>1, <2>10
  <2>12. \A u \in Users \ Live' : u \notin Live BY <2>1
  <2>13. \A u \in Live' \ {w} : /\ u \in Live
                                /\ users'[u].pwd = users[u].pwd /\ users'[u].nick = users[u].nick
                                /\ userHash'[u].pwd = userHash[u].pwd /\ userHash'[u].nick = userHash[u].nick
                                /\ \A q \in Procs : PwdAside(q, u) /\ NickAside(q, u)
    BY <1>4, <2>4, <2>11
  <2>14. \A u \in Users \ Live' : u \notin Live /\ userHash'[u].pwd = userHash[u].pwd BY <1>4, <2>12
  <2>15. /\ <<w, "pwd">> \notin mixed' => PwdHolds(w)'
         /\ <<w, "nick">> \notin mixed' => NickHolds(w)'
    BY <2>8, <2>9
  <2> QED BY <2>2, <2>13, <2>14, <2>15, HashKept
<1>5. CASE AddStudent(p)
  <2> DEFINE r == User(NotAllowed, NotAllowed, NotAllowed, "student", req[p].student, None)
  <2>1. pc[p] = "add" /\ req[p].op \in Enrols /\ UNCHANGED userHash BY <1>5 DEF AddStudent, At
  <2>2. PICK u \in Users : /\ NextUser(u) /\ users' = [users EXCEPT ![u] = r]
                           /\ With(p, "addIndex", [seen[p] EXCEPT !.new = u]) /\ Mark(p, u, "nick")
    BY <1>5 DEF AddStudent
  <2>3. r \in UserRow /\ r.pwd = NotAllowed /\ r.nick = NotAllowed BY <2>1, <1>3 DEF Requested, Enrols, User, UserRow, AnyNick, Groups
  <2>4. u \notin Live BY <2>2 DEF NextUser
  <2>5. pc'[p] = "addIndex" /\ req'[p] = req[p] /\ seen'[p] = [seen[p] EXCEPT !.new = u] BY <2>2
  <2>6. seen'[p].new = u BY <2>5, <1>3 DEF Briefed, Carries
  <2>7. req[p].op # "register" BY <2>1 DEF Enrols
  <2> HIDE DEF r
  <2> QED BY <1>4, <2>1, <2>2, <2>3, <2>4, <2>5, <2>6, <2>7
<1>6. CASE AddUser(p)
  <2> DEFINE r == User(req[p].name, req[p].pwd, req[p].name, seen[p].group, None, req[p].invite)
  <2>1. pc[p] = "insert" /\ req[p].op = "register" /\ UNCHANGED userHash BY <1>6 DEF AddUser, At
  <2>2. PICK u \in Users : /\ NextUser(u) /\ users' = [users EXCEPT ![u] = r]
                           /\ With(p, "index", [seen[p] EXCEPT !.new = u]) /\ Mark(p, u, "nick")
    BY <1>6 DEF AddUser
  <2>3. r \in UserRow /\ r.pwd = req[p].pwd /\ r.nick = req[p].name
    BY <2>1, <1>3 DEF Requested, Briefed, User, UserRow, AnyNick
  <2>4. u \notin Live BY <2>2 DEF NextUser
  <2>5. pc'[p] = "index" /\ req'[p] = req[p] /\ seen'[p] = [seen[p] EXCEPT !.new = u] BY <2>2
  <2>6. seen'[p].new = u BY <2>5, <1>3 DEF Briefed, Carries
  <2> HIDE DEF r
  <2> QED BY <1>4, <2>1, <2>2, <2>3, <2>4, <2>5, <2>6
<1> QED BY <1>5, <1>6

\* The new user's hash is there.
LEMMA HashByNewborn ==
  ASSUME Locals, FrontTypes, HashInv, NEW p \in Procs, May(p, UserOps \union Visits), AddStudentHash(p) \/ AddUserHash(p)
  PROVE  HashInv'
<1> USE Handling
<1>0. FrontData BY DEF FrontTypes
<1>1. Records(p) /\ GoesOn(p) BY AccountsGoOn, Zenon DEF Records
<1>2. Person(p) BY <1>1 DEF GoesOn, Person, Active, May
<1>3. Briefed(p) /\ Requested(req[p]) /\ Handled(p) /\ Busy(p) BY <1>1, <1>2, Briefing DEF GoesOn
<1>4. ASSUME NEW w \in Live, seen[p].new = w, pc[p] \in {"addHash", "newHash"}, pc'[p] \notin HashPlaces,
             req[p].op \in Enrols \union {"register"}, UNCHANGED <<users, mixed>>,
             userHash'[w].pwd = IF req[p].op = "register" THEN req[p].pwd ELSE NotAllowed,
             userHash'[w].nick = IF req[p].op = "register" THEN req[p].name ELSE NotAllowed,
             \A v \in Users \ {w} : userHash'[v] = userHash[v]
      PROVE  HashInv'
  <2>1. \A u : /\ ~Secret(p, u) /\ ~Nicked(p, u) /\ ~Remarked(p, u) /\ ~Compared(p, u)
               /\ ~Secret(p, u)' /\ ~Nicked(p, u)' /\ ~Remarked(p, u)' /\ ~Compared(p, u)' /\ ~Newborn(p, u)'
               /\ Newborn(p, u) <=> u = w
    BY <1>3, <1>4 DEF Secret, Compared, Newborn, Nicked, Remarked, At, Active, HashPlaces
  <2>2. \A u \in Users, q \in Procs : u # w \/ q # p => PwdAside(q, u) /\ NickAside(q, u)
    BY <1>3, <2>1, OthersWrite DEF PwdAside, NickAside, NickWriter
  <2>3. Live' = Live /\ Live \subseteq Users BY <1>4 DEF Live
  <2>4. ASSUME <<w, "pwd">> \notin mixed' PROVE PwdHolds(w)'
    <3>1. PwdHolds(w) BY <1>4, <2>4 DEF HashInv
    <3>2. \A q \in Procs : q # p => ~PwdWriter(q, w) BY <2>1, <3>1 DEF PwdHolds, PwdWriter
    <3>3. \A q \in Procs : ~PwdWriter(q, w)' BY <2>1, <2>2, <2>3, <3>2 DEF PwdAside, PwdWriter
    <3>4. userHash'[w].pwd = users'[w].pwd BY <1>4, <2>1, <3>1 DEF PwdHolds
    <3>5. \A q \in Procs : Compared(q, w)' => Compared(q, w) /\ req'[q] = req[q]
      <4>1. \A q \in Procs \ {p} : req'[q] = req[q] BY <1>3 DEF Handled
      <4> QED BY <2>1, <2>2, <2>3, <4>1 DEF PwdAside
    <3>6. \A q \in Procs : Compared(q, w) => users'[w].pwd = req[q].old BY <1>4, <2>1, <3>1, <3>2 DEF PwdHolds, PwdWriter
    <3> QED BY <3>3, <3>4, <3>5, <3>6 DEF PwdHolds, PwdWriter
  <2>5. ASSUME <<w, "nick">> \notin mixed' PROVE NickHolds(w)'
    <3>1. NickHolds(w) BY <1>4, <2>5 DEF HashInv
    <3>2. \A q \in Procs : q # p => ~NickWriter(q, w) BY <2>1, <3>1 DEF NickHolds, NickWriter
    <3>3. \A q \in Procs : ~NickWriter(q, w)' BY <2>1, <2>2, <2>3, <3>2 DEF NickAside, NickWriter
    <3>4. userHash'[w].nick = users'[w].nick BY <1>4, <2>1, <3>1 DEF NickHolds
    <3> QED BY <3>3, <3>4 DEF NickHolds, NickWriter
  <2> HIDE DEF Live
  <2> QED BY <1>4, <2>2, <2>3, <2>4, <2>5, HashKept
<1>5. CASE AddStudentHash(p)
  <2> PICK w, s : w = seen[p].new /\ s = req[p].student OBVIOUS
  <2>1. pc[p] = "addHash" /\ req[p].op \in Enrols /\ UNCHANGED <<users, mixed>> /\ Found(p, w, Empty)
    BY <1>5 DEF AddStudentHash, At
  <2>2. w \in Live /\ w \in Users BY <2>1, <1>3 DEF Briefed, Live
  <2>3. userHash' = [userHash EXCEPT ![w] = [pwd |-> NotAllowed, nick |-> NotAllowed, group |-> "student", student |-> s]]
    BY <1>5 DEF AddStudentHash
  <2>4. userHash'[w].pwd = NotAllowed /\ userHash'[w].nick = NotAllowed /\ \A v \in Users \ {w} : userHash'[v] = userHash[v]
    <3>1. HashData(userHash) /\ w \in Users BY <1>0, <2>2 DEF FrontData
    <3>2. NotAllowed \in AnyNick /\ "student" \in Groups BY DEF AnyNick, Groups
    <3>3. HashIs(w, NotAllowed, NotAllowed) BY <2>3, <3>1, <3>2, NewHashSet
    <3> QED BY <3>3 DEF HashIs
  <2>5. pc'[p] \notin HashPlaces BY <2>1 DEF Found, Finish, HashPlaces
  <2>6. req[p].op # "register" BY <2>1 DEF Enrols
  <2> QED BY <1>4, <2>1, <2>2, <2>4, <2>5, <2>6
<1>6. CASE AddUserHash(p)
  <2> PICK w, x, n, g : w = seen[p].new /\ x = req[p].pwd /\ n = req[p].name /\ g = users[w].group OBVIOUS
  <2>1. pc[p] = "newHash" /\ req[p].op = "register" /\ UNCHANGED <<users, mixed>> /\ Return(p) BY <1>6 DEF AddUserHash, At
  <2>2. w \in Live /\ w \in Users /\ n \in AnyNick BY <2>1, <1>3 DEF Briefed, Live, Requested, AnyNick
  <2>3. g \in Groups BY <2>2, <1>0, RowOf DEF UserRow
  <2>4. userHash' = [userHash EXCEPT ![w] = [@ EXCEPT !.pwd = x, !.nick = n, !.group = g]] BY <1>6 DEF AddUserHash
  <2>5. userHash'[w].pwd = x /\ userHash'[w].nick = n /\ \A v \in Users \ {w} : userHash'[v] = userHash[v]
    <3>1. HashData(userHash) /\ w \in Users BY <1>0, <2>2 DEF FrontData
    <3>2. HashIs(w, x, n) BY <2>2, <2>3, <2>4, <3>1, NewHashSet
    <3> QED BY <3>2 DEF HashIs
  <2>6. pc'[p] \notin HashPlaces BY <2>1 DEF HashPlaces
  <2> QED BY <1>4, <2>1, <2>2, <2>5, <2>6
<1> QED BY <1>5, <1>6

\* The password: the hash, then the row.
LEMMA HashByPassword ==
  ASSUME Locals, FrontTypes, HashInv, NEW p \in Procs, May(p, UserOps \union Visits), ChangePasswordCache(p) \/ ChangePasswordRow(p)
  PROVE  HashInv'
<1> USE Handling
<1>0. FrontData BY DEF FrontTypes
<1>1. Records(p) /\ GoesOn(p) BY AccountsGoOn, Zenon DEF Records
<1>2. Person(p) BY <1>1 DEF GoesOn, Person, Active, May
<1>3. Briefed(p) /\ Requested(req[p]) /\ Handled(p) /\ Busy(p) BY <1>1, <1>2, Briefing DEF GoesOn
<1> PICK w, x : w = seen[p].user /\ x = req[p].pwd OBVIOUS
<1>4. CASE ChangePasswordCache(p)
  <2>1. pc[p] = "pwdCache" /\ req[p].op = "password" /\ UNCHANGED users /\ Mark(p, w, "pwd") /\ On(p, "pwdRow")
        /\ userHash' = [userHash EXCEPT ![w].pwd = x]
    BY <1>4 DEF ChangePasswordCache, At
  <2>2. pc'[p] = "pwdRow" /\ req'[p] = req[p] /\ seen'[p] = seen[p] BY <2>1
  <2>3. w \in Live \union Guests BY <2>1, <1>3 DEF Briefed, Sessioned
  <2>4. \A u \in Users : userHash'[u].nick = userHash[u].nick /\ userHash'[u].pwd = IF u = w THEN x ELSE userHash[u].pwd
    <3>1. HashData(userHash) /\ userHash' = [userHash EXCEPT ![w].pwd = x] BY <1>0, <2>1 DEF FrontData
    <3>2. FieldIs(w, "pwd", x) BY <3>1, FieldSet
    <3> QED BY <3>2 DEF FieldIs, Fields
  <2>5. \A u : /\ ~Secret(p, u) /\ ~Newborn(p, u) /\ ~Nicked(p, u) /\ ~Remarked(p, u)
               /\ ~Newborn(p, u)' /\ ~Nicked(p, u)' /\ ~Remarked(p, u)' /\ ~Compared(p, u)'
               /\ (Compared(p, u) <=> u = w) /\ (Secret(p, u)' <=> u = w)
    BY <2>1, <2>2 DEF Secret, Compared, Newborn, Nicked, Remarked, At, Renames, Enrols
  <2>6. \A u \in Users, q \in Procs : NickAside(q, u) /\ (u # w \/ q # p => PwdAside(q, u))
    BY <1>3, <2>2, <2>5, OthersWrite DEF PwdAside, NickAside, NickWriter
  <2>7. Live' = Live /\ Live \subseteq Users BY <2>1 DEF Live
  <2>8. mixed \subseteq mixed' BY <2>1, Unmarked
  <2>9. ASSUME w \in Live, <<w, "pwd">> \notin mixed' PROVE PwdHolds(w)'
    <3>1. PwdHolds(w) BY <2>8, <2>9 DEF HashInv
    <3>2. \A q \in Procs \ {p} : ~PwdWriter(q, w) /\ ~Compared(q, w) BY <2>1, <2>9, Unmarked
    <3>3. \A q \in Procs \ {p} : ~PwdWriter(q, w)' /\ ~Compared(q, w)' BY <2>6, <2>7, <2>9, <3>2 DEF PwdAside, PwdWriter
    <3>4. users[w].pwd = req[p].old BY <2>5, <3>1, <3>2 DEF PwdHolds, PwdWriter
    <3>5. userHash'[w].pwd = req'[p].pwd /\ users'[w].pwd = req'[p].old BY <2>1, <2>2, <2>4, <2>7, <2>9, <3>4
    <3> QED BY <2>5, <3>3, <3>5 DEF PwdHolds, PwdWriter
  <2>10. ASSUME w \in Live, <<w, "nick">> \notin mixed' PROVE NickHolds(w)'
    <3>1. NickHolds(w) BY <2>8, <2>10 DEF HashInv
    <3> QED BY <2>1, <2>4, <2>6, <2>7, <2>10, <3>1, NickKept
  <2>11. w \notin Users \ Live BY <2>3, NoGuestIsUser
  <2> HIDE DEF Live
  <2> QED BY <2>1, <2>4, <2>6, <2>7, <2>8, <2>9, <2>10, <2>11, HashKept
<1>5. CASE ChangePasswordRow(p)
  <2>1. pc[p] = "pwdRow" /\ req[p].op = "password" /\ UNCHANGED <<userHash, mixed>> /\ On(p, "answer")
        /\ users' = IF users[w].pwd = req[p].old THEN [users EXCEPT ![w].pwd = x] ELSE users
    BY <1>5 DEF ChangePasswordRow, At
  <2>2. pc'[p] = "answer" /\ req'[p] = req[p] /\ seen'[p] = seen[p] BY <2>1
  <2>3. w \in Live \union Guests /\ x \in Passwords BY <2>1, <1>3 DEF Briefed, Requested, Sessioned
  <2>4. w \notin Users \/ w \in Live BY <2>3, NoGuestIsUser
  <2>5. SameUsers BY <1>0, <2>1, <2>3, <2>4, RowEdit
  <2>6. w \in Live /\ users[w].pwd = req[p].old =>
          \A u \in Live : users'[u].pwd = (IF u = w THEN x ELSE users[u].pwd) /\ users'[u].nick = users[u].nick
    <3>1. ASSUME w \in Live, users[w].pwd = req[p].old PROVE PwdIs(w, x) BY <1>0, <2>1, <2>3, <3>1, RowEdit
    <3> QED BY <3>1 DEF PwdIs
  <2>7. w \notin Live \/ users[w].pwd # req[p].old => \A u \in Live : users'[u] = users[u]
    <3>1. CASE users[w].pwd # req[p].old BY <2>1, <3>1
    <3>2. CASE w \notin Live
      <4>1. w \notin Users BY <2>4, <3>2
      <4> QED BY <1>0, <2>1, <4>1 DEF FrontData, Live
    <3> QED BY <3>1, <3>2
  <2>8. \A u : /\ ~Newborn(p, u) /\ ~Nicked(p, u) /\ ~Remarked(p, u) /\ ~Compared(p, u)
               /\ ~Newborn(p, u)' /\ ~Nicked(p, u)' /\ ~Remarked(p, u)' /\ ~Compared(p, u)' /\ ~Secret(p, u)'
               /\ Secret(p, u) <=> u = w
    BY <2>1, <2>2 DEF Secret, Compared, Newborn, Nicked, Remarked, At
  <2>9. \A u \in Users, q \in Procs : NickAside(q, u) /\ (u # w \/ q # p => PwdAside(q, u))
    BY <1>3, <2>2, <2>8, OthersWrite DEF PwdAside, NickAside, NickWriter
  <2>10. Live' = Live /\ Live \subseteq Users BY <2>5 DEF SameUsers, Live
  <2>11. ASSUME w \in Live, <<w, "pwd">> \notin mixed' PROVE PwdHolds(w)'
    <3>1. PwdHolds(w) BY <2>1, <2>11 DEF HashInv
    <3>2. userHash[w].pwd = x /\ users[w].pwd = req[p].old BY <2>8, <3>1 DEF PwdHolds
    <3>3. userHash'[w].pwd = x /\ users'[w].pwd = x BY <2>1, <2>6, <2>11, <3>2
    <3>4. \A q \in Procs : q # p => ~PwdWriter(q, w) BY <2>8, <3>1 DEF PwdHolds, PwdWriter
    <3>5. \A q \in Procs : ~PwdWriter(q, w)' BY <2>8, <2>9, <2>10, <2>11, <3>4 DEF PwdAside, PwdWriter
    <3>6. \A q \in Procs : Compared(q, w) => req[q].old = x BY <2>8, <3>1 DEF PwdHolds
    <3>7. \A q \in Procs : Compared(q, w)' => Compared(q, w) /\ req'[q] = req[q]
      <4>1. \A q \in Procs : req'[q] = req[q] BY <1>3, <2>2 DEF Handled
      <4> QED BY <2>8, <2>9, <2>10, <2>11, <4>1 DEF PwdAside
    <3> QED BY <3>3, <3>5, <3>6, <3>7 DEF PwdHolds, PwdWriter
  <2>12. ASSUME w \in Live, <<w, "nick">> \notin mixed' PROVE NickHolds(w)'
    <3>1. NickHolds(w) BY <2>1, <2>12 DEF HashInv
    <3>2. users'[w].nick = users[w].nick BY <2>6, <2>7, <2>12
    <3> QED BY <2>1, <2>9, <2>10, <2>12, <3>1, <3>2, NickKept
  <2>13. \A u \in Live \ {w} : users'[u].pwd = users[u].pwd /\ users'[u].nick = users[u].nick BY <2>6, <2>7
  <2> HIDE DEF Live
  <2> QED BY <2>1, <2>9, <2>10, <2>11, <2>12, <2>13, HashKept
<1> QED BY <1>4, <1>5

\* The nickname: the hash, then the row.
LEMMA HashByProfile ==
  ASSUME Locals, FrontTypes, HashInv, NEW p \in Procs, May(p, UserOps \union Visits), ChangeProfileCache(p) \/ ChangeProfileRow(p)
  PROVE  HashInv'
<1> USE Handling
<1>0. FrontData BY DEF FrontTypes
<1>1. Records(p) /\ GoesOn(p) BY AccountsGoOn, Zenon DEF Records
<1>2. Person(p) BY <1>1 DEF GoesOn, Person, Active, May
<1>3. Briefed(p) /\ Requested(req[p]) /\ Handled(p) /\ Busy(p) BY <1>1, <1>2, Briefing DEF GoesOn
<1> PICK w, x : w = seen[p].user /\ x = req[p].nick OBVIOUS
<1>4. CASE ChangeProfileCache(p)
  <2>1. pc[p] = "nickCache" /\ req[p].op = "profile" /\ UNCHANGED users /\ Mark(p, w, "nick") /\ On(p, "nickRow")
        /\ userHash' = [userHash EXCEPT ![w].nick = x]
    BY <1>4 DEF ChangeProfileCache, At
  <2>2. pc'[p] = "nickRow" /\ req'[p] = req[p] /\ seen'[p] = seen[p] BY <2>1
  <2>3. x \in AnyNick BY <2>1, <1>3 DEF Requested, AnyNick
  <2>4. \A u \in Users : userHash'[u].pwd = userHash[u].pwd /\ userHash'[u].nick = IF u = w THEN x ELSE userHash[u].nick
    <3>1. HashData(userHash) /\ userHash' = [userHash EXCEPT ![w].nick = x] BY <1>0, <2>1 DEF FrontData
    <3>2. FieldIs(w, "nick", x) BY <2>3, <3>1, FieldSet
    <3> QED BY <3>2 DEF FieldIs, Fields
  <2>5. \A u : /\ ~Secret(p, u) /\ ~Newborn(p, u) /\ ~Nicked(p, u) /\ ~Remarked(p, u) /\ ~Compared(p, u)
               /\ ~Newborn(p, u)' /\ ~Secret(p, u)' /\ ~Remarked(p, u)' /\ ~Compared(p, u)'
               /\ (Nicked(p, u)' <=> u = w)
    BY <2>1, <2>2 DEF Secret, Compared, Newborn, Nicked, Remarked, At
  <2>6. \A u \in Users, q \in Procs : PwdAside(q, u) /\ (u # w \/ q # p => NickAside(q, u))
    BY <1>3, <2>2, <2>5, OthersWrite DEF PwdAside, NickAside, NickWriter
  <2>7. Live' = Live /\ Live \subseteq Users BY <2>1 DEF Live
  <2>8. mixed \subseteq mixed' BY <2>1, Unmarked
  <2>9. ASSUME w \in Live, <<w, "nick">> \notin mixed' PROVE NickHolds(w)'
    <3>1. \A q \in Procs \ {p} : ~NickWriter(q, w) BY <2>1, <2>9, Unmarked
    <3>2. \A q \in Procs \ {p} : ~NickWriter(q, w)' BY <2>6, <2>7, <2>9, <3>1 DEF NickAside, NickWriter
    <3>3. userHash'[w].nick = req'[p].nick BY <2>2, <2>4, <2>7, <2>9
    <3> QED BY <2>5, <3>2, <3>3 DEF NickHolds, NickWriter
  <2>10. ASSUME w \in Live, <<w, "pwd">> \notin mixed' PROVE PwdHolds(w)'
    <3>1. PwdHolds(w) BY <2>8, <2>10 DEF HashInv
    <3> QED BY <2>1, <2>4, <2>6, <2>7, <2>10, <3>1, PwdKept
  <2> HIDE DEF Live
  <2> QED BY <2>1, <2>4, <2>6, <2>7, <2>8, <2>9, <2>10, HashKept
<1>5. CASE ChangeProfileRow(p)
  <2>1. /\ pc[p] = "nickRow" /\ req[p].op = "profile" /\ UNCHANGED userHash
        /\ \/ On(p, "answer") /\ mixed' = mixed \union {<<w, "nick">>} /\ UNCHANGED users
           \/ On(p, "nickSession") /\ users' = [users EXCEPT ![w].nick = x] /\ UNCHANGED mixed
    BY <1>5 DEF ChangeProfileRow, At
  <2>2. pc'[p] \in {"answer", "nickSession"} /\ req'[p] = req[p] /\ seen'[p] = seen[p] BY <2>1
  <2>3. w \in Live \union Guests /\ x \in AnyNick BY <2>1, <1>3 DEF Briefed, Requested, Sessioned, AnyNick
  <2>4. w \notin Users \/ w \in Live BY <2>3, NoGuestIsUser
  <2>5. users' = users \/ users' = [users EXCEPT ![w].nick = x] BY <2>1
  <2>6. SameUsers BY <1>0, <2>3, <2>4, <2>5, RowEdit
  <2>7. ASSUME w \in Live, users' = [users EXCEPT ![w].nick = x]
        PROVE  \A u \in Live : users'[u].nick = (IF u = w THEN x ELSE users[u].nick) /\ users'[u].pwd = users[u].pwd
    <3>1. NickIs(w, x) BY <1>0, <2>3, <2>7, RowEdit
    <3> QED BY <3>1 DEF NickIs
  <2>8. w \in Live /\ users' = [users EXCEPT ![w].nick = x] => users'[w].nick = x BY <2>7
  <2>9. w \notin Live => \A u \in Live : users'[u] = users[u]
    <3>1. w \notin Live => w \notin Users BY <2>4
    <3> QED BY <1>0, <2>5, <3>1 DEF FrontData, Live
  <2>10. \A u : /\ ~Newborn(p, u) /\ ~Secret(p, u) /\ ~Remarked(p, u) /\ ~Compared(p, u)
                /\ ~Newborn(p, u)' /\ ~Nicked(p, u)' /\ ~Remarked(p, u)' /\ ~Compared(p, u)' /\ ~Secret(p, u)'
                /\ Nicked(p, u) <=> u = w
    BY <2>1, <2>2 DEF Secret, Compared, Newborn, Nicked, Remarked, At
  <2>11. \A u \in Users, q \in Procs : PwdAside(q, u) /\ (u # w \/ q # p => NickAside(q, u))
    BY <1>3, <2>2, <2>10, OthersWrite DEF PwdAside, NickAside, NickWriter
  <2>12. Live' = Live /\ Live \subseteq Users BY <2>6 DEF SameUsers, Live
  <2>13. mixed \subseteq mixed' BY <2>1
  <2>14. ASSUME w \in Live, <<w, "nick">> \notin mixed' PROVE NickHolds(w)'
    <3>1. NickHolds(w) BY <2>13, <2>14 DEF HashInv
    <3>2. users' = [users EXCEPT ![w].nick = x] BY <2>1, <2>14
    <3>3. users'[w].nick = x /\ userHash'[w].nick = x BY <2>1, <2>8, <2>10, <2>14, <3>1, <3>2 DEF NickHolds
    <3>4. \A q \in Procs : q # p => ~NickWriter(q, w) BY <2>10, <3>1 DEF NickHolds, NickWriter
    <3>5. \A q \in Procs : ~NickWriter(q, w)' BY <2>10, <2>11, <2>12, <2>14, <3>4 DEF NickAside, NickWriter
    <3> QED BY <3>3, <3>5 DEF NickHolds, NickWriter
  <2>15. ASSUME w \in Live, <<w, "pwd">> \notin mixed' PROVE PwdHolds(w)'
    <3>1. PwdHolds(w) BY <2>13, <2>15 DEF HashInv
    <3>2. users'[w].pwd = users[w].pwd BY <2>5, <2>7, <2>15
    <3> QED BY <2>1, <2>11, <2>12, <2>15, <3>1, <3>2, PwdKept
  <2>16. \A u \in Live \ {w} : users'[u].pwd = users[u].pwd /\ users'[u].nick = users[u].nick BY <2>5, <2>7, <2>9
  <2> HIDE DEF Live
  <2> QED BY <2>1, <2>11, <2>12, <2>13, <2>14, <2>15, <2>16, HashKept
<1> QED BY <1>4, <1>5

\* Remark: the row, then the hash.
LEMMA HashByRemark ==
  ASSUME Locals, FrontTypes, HashInv, NEW p \in Procs, May(p, UserOps \union Visits), RemarkRow(p) \/ RemarkHash(p)
  PROVE  HashInv'
<1> USE Handling
<1>0. FrontData BY DEF FrontTypes
<1>1. Records(p) /\ GoesOn(p) BY AccountsGoOn, Zenon DEF Records
<1>2. Person(p) BY <1>1 DEF GoesOn, Person, Active, May
<1>3. Briefed(p) /\ Requested(req[p]) /\ Handled(p) /\ Busy(p) BY <1>1, <1>2, Briefing DEF GoesOn
<1> PICK w, x : w = Named(p) /\ x = req[p].nick OBVIOUS
<1>4. CASE RemarkRow(p)
  <2>1. /\ pc[p] = "remark" /\ req[p].op \in Renames /\ UNCHANGED userHash /\ Mark(p, w, "nick") /\ On(p, "remarked")
        /\ users' = IF users[w] = None THEN users ELSE [users EXCEPT ![w].nick = x]
    BY <1>4 DEF RemarkRow, At
  <2>2. pc'[p] = "remarked" /\ req'[p] = req[p] /\ seen'[p] = seen[p] /\ Named(p)' = w BY <2>1 DEF Named
  <2>3. x \in AnyNick BY <2>1, <1>3 DEF Briefed, AnyNick
  <2>4. w \in Live => users[w] # None /\ users' = [users EXCEPT ![w].nick = x] BY <2>1 DEF Live
  <2>5. w \notin Live => users' = users \/ w \notin Users BY <2>1 DEF Live
  <2>6. SameUsers
    <3>1. CASE users' = users BY <3>1 DEF SameUsers, Live
    <3>2. CASE w \in Live \/ w \notin Users
      <4>1. users' = users \/ users' = [users EXCEPT ![w].nick = x] BY <2>1
      <4> QED BY <1>0, <2>3, <3>2, <4>1, RowEdit
    <3> QED BY <2>5, <3>1, <3>2
  <2>7. w \in Live => \A u \in Live : users'[u].nick = (IF u = w THEN x ELSE users[u].nick) /\ users'[u].pwd = users[u].pwd
    <3>1. ASSUME w \in Live PROVE NickIs(w, x) BY <1>0, <2>3, <2>4, <3>1, RowEdit
    <3> QED BY <3>1 DEF NickIs
  <2>8. w \notin Live => \A u \in Live : users'[u] = users[u]
    <3>1. CASE users' = users BY <3>1
    <3>2. CASE w \notin Users
      <4>1. users' = users \/ users' = [users EXCEPT ![w].nick = x] BY <2>1
      <4> QED BY <1>0, <3>2, <4>1 DEF FrontData, Live
    <3> QED BY <2>5, <3>1, <3>2
  <2>9. \A u : /\ ~Newborn(p, u) /\ ~Secret(p, u) /\ ~Remarked(p, u) /\ ~Compared(p, u) /\ ~Nicked(p, u)
               /\ ~Newborn(p, u)' /\ ~Nicked(p, u)' /\ ~Compared(p, u)' /\ ~Secret(p, u)'
               /\ (Remarked(p, u)' <=> u = w)
    BY <2>1, <2>2 DEF Secret, Compared, Newborn, Nicked, Remarked, At
  <2>10. \A u \in Users, q \in Procs : PwdAside(q, u) /\ (u # w \/ q # p => NickAside(q, u))
    BY <1>3, <2>2, <2>9, OthersWrite DEF PwdAside, NickAside, NickWriter
  <2>11. Live' = Live /\ Live \subseteq Users BY <2>6 DEF SameUsers, Live
  <2>12. mixed \subseteq mixed' BY <2>1, Unmarked
  <2>13. ASSUME w \in Live, <<w, "nick">> \notin mixed' PROVE NickHolds(w)'
    <3>1. \A q \in Procs \ {p} : ~NickWriter(q, w) BY <2>1, <2>13, Unmarked
    <3>2. \A q \in Procs \ {p} : ~NickWriter(q, w)' BY <2>10, <2>11, <2>13, <3>1 DEF NickAside, NickWriter
    <3>3. users'[w].nick = req'[p].nick BY <2>2, <2>7, <2>13
    <3> QED BY <2>9, <3>2, <3>3 DEF NickHolds, NickWriter
  <2>14. ASSUME w \in Live, <<w, "pwd">> \notin mixed' PROVE PwdHolds(w)'
    <3>1. PwdHolds(w) BY <2>12, <2>14 DEF HashInv
    <3>2. users'[w].pwd = users[w].pwd BY <2>7, <2>14
    <3> QED BY <2>1, <2>10, <2>11, <2>14, <3>1, <3>2, PwdKept
  <2>15. \A u \in Live \ {w} : users'[u].pwd = users[u].pwd /\ users'[u].nick = users[u].nick BY <2>7, <2>8
  <2> HIDE DEF Live
  <2> QED BY <2>1, <2>10, <2>11, <2>12, <2>13, <2>14, <2>15, HashKept
<1>5. CASE RemarkHash(p)
  <2>1. pc[p] = "remarked" /\ req[p].op \in Renames /\ UNCHANGED <<users, mixed>> /\ Finish(p)
        /\ userHash' = [userHash EXCEPT ![w].nick = x]
    BY <1>5 DEF RemarkHash, At
  <2>2. pc'[p] \in {"idle", "answer"} BY <2>1 DEF Finish
  <2>3. x \in AnyNick BY <2>1, <1>3 DEF Briefed, AnyNick
  <2>4. \A u \in Users : userHash'[u].pwd = userHash[u].pwd /\ userHash'[u].nick = IF u = w THEN x ELSE userHash[u].nick
    <3>1. HashData(userHash) /\ userHash' = [userHash EXCEPT ![w].nick = x] BY <1>0, <2>1 DEF FrontData
    <3>2. FieldIs(w, "nick", x) BY <2>3, <3>1, FieldSet
    <3> QED BY <3>2 DEF FieldIs, Fields
  <2>5. \A u : /\ ~Newborn(p, u) /\ ~Secret(p, u) /\ ~Compared(p, u) /\ ~Nicked(p, u)
               /\ ~Newborn(p, u)' /\ ~Nicked(p, u)' /\ ~Compared(p, u)' /\ ~Secret(p, u)' /\ ~Remarked(p, u)'
               /\ (Remarked(p, u) <=> u = w)
    BY <2>1, <2>2 DEF Secret, Compared, Newborn, Nicked, Remarked, At
  <2>6. \A u \in Users, q \in Procs : PwdAside(q, u) /\ (u # w \/ q # p => NickAside(q, u))
    BY <1>3, <2>2, <2>5, OthersWrite DEF PwdAside, NickAside, NickWriter
  <2>7. Live' = Live /\ Live \subseteq Users BY <2>1 DEF Live
  <2>8. ASSUME w \in Live, <<w, "nick">> \notin mixed' PROVE NickHolds(w)'
    <3>1. NickHolds(w) BY <2>1, <2>8 DEF HashInv
    <3>2. users'[w].nick = x /\ userHash'[w].nick = x BY <2>1, <2>4, <2>5, <2>7, <2>8, <3>1 DEF NickHolds
    <3>3. \A q \in Procs : q # p => ~NickWriter(q, w) BY <2>5, <3>1 DEF NickHolds, NickWriter
    <3>4. \A q \in Procs : ~NickWriter(q, w)' BY <2>5, <2>6, <2>7, <2>8, <3>3 DEF NickAside, NickWriter
    <3> QED BY <3>2, <3>4 DEF NickHolds, NickWriter
  <2>9. ASSUME w \in Live, <<w, "pwd">> \notin mixed' PROVE PwdHolds(w)'
    <3>1. PwdHolds(w) BY <2>1, <2>9 DEF HashInv
    <3> QED BY <2>1, <2>4, <2>6, <2>7, <2>9, <3>1, PwdKept
  <2> HIDE DEF Live
  <2> QED BY <2>1, <2>4, <2>6, <2>7, <2>8, <2>9, HashKept
<1> QED BY <1>4, <1>5

\* A writer that fails halfway leaves the two different.
LEMMA HashByFailure ==
  ASSUME Locals, FrontTypes, HashInv, NEW p \in Procs, May(p, UserOps \union Visits), AccountFails(p)
  PROVE  HashInv'
<1> USE Handling
<1>1. UNCHANGED <<users, userHash>> /\ mixed' = IF Writes(p) = None THEN mixed ELSE mixed \union {Writes(p)} \X {"pwd", "nick"}
  BY DEF AccountFails
<1>2. With(p, "gd", Nobody) \/ On(p, "answer") \/ Return(p) BY Zenon DEF AccountFails
<1>3. Handled(p) /\ pc'[p] \in {"gd", "answer", "idle"} BY <1>2
<1>4. Live' = Live /\ Live \subseteq Users /\ None \notin Users BY <1>1, LiveTyped DEF Live
<1>5. \A u : /\ ~Newborn(p, u)' /\ ~Nicked(p, u)' /\ ~Compared(p, u)' /\ ~Secret(p, u)' /\ ~Remarked(p, u)'
             /\ pc'[p] # "idle" => req'[p] = req[p]
  <2>1. pc'[p] # "idle" => req'[p] = req[p] BY <1>2
  <2> QED BY <1>3, <2>1 DEF Secret, Compared, Newborn, Nicked, Remarked, At
<1> PICK w : w = Writes(p) OBVIOUS
<1>6. \A u : PwdWriter(p, u) \/ NickWriter(p, u) => u = w BY WritersWrite
<1>7. mixed \subseteq mixed' /\ (w # None => <<w, "pwd">> \in mixed' /\ <<w, "nick">> \in mixed') BY <1>1
<1>8. \A u \in Users \ {w}, q \in Procs : PwdAside(q, u) /\ NickAside(q, u)
  BY <1>3, <1>5, <1>6, OthersWrite DEF PwdAside, NickAside, NickWriter, PwdWriter
<1>9. w \in Live => w # None BY <1>4
<1> HIDE DEF Live
<1> QED BY <1>1, <1>4, <1>7, <1>8, <1>9, HashKept

LEMMA HashInit == ASSUME Init PROVE HashInv
<1> USE DEF Init, HandlersInit, AccountsInit, ExperienceInit
<1>1. \A p \in Procs : pc[p] = "idle" OBVIOUS
<1>2. ASSUME NEW p \in Procs, NEW u PROVE ~Secret(p, u) /\ ~Compared(p, u) /\ ~Nicked(p, u) /\ ~Remarked(p, u) /\ ~Newborn(p, u)
  BY <1>1 DEF Secret, Compared, Nicked, Remarked, Newborn, At, Active, Busy
<1>3. ASSUME NEW u \in Users PROVE /\ userHash[u].pwd = IF u = First THEN Admin.pwd ELSE None
                                   /\ userHash[u].nick = IF u = First THEN Admin.nick ELSE None
                                   /\ users[u] = IF u = First THEN Admin ELSE None
  BY DEF Fields, NoHash
<1>4. First \in Users /\ Admin # None BY AdminIsUser, NoneIsNoUser
<1>5. Live = {First} BY <1>3, <1>4 DEF Live
<1> HIDE DEF Live, Init, HandlersInit, AccountsInit, ExperienceInit
<1>6. PwdHolds(First) BY <1>2, <1>3, <1>4 DEF PwdHolds, PwdWriter
<1>7. NickHolds(First) BY <1>2, <1>3, <1>4 DEF NickHolds, NickWriter
<1> QED BY <1>3, <1>5, <1>6, <1>7 DEF HashInv

\* The hash that logging in reads has the password and the nickname of the row, unless two
\* requests that write them overlapped, one of them failed halfway, or Remark came to an id
\* before its user: ChangePassword and ChangeProfile write the hash first, Remark the row.
THEOREM HashIsOfTheRow == Spec => []HashFollowsRow
<1>1. Init => Locals /\ FrontTypes /\ Numbers /\ HashInv BY LocalsInit, FrontInit, HashInit
<1>2. Locals /\ FrontTypes /\ Numbers /\ HashInv /\ [Next]_vars => (Locals /\ FrontTypes /\ Numbers /\ HashInv)'
  <2> SUFFICES ASSUME Locals, FrontTypes, Numbers, HashInv, [Next]_vars PROVE HashInv' BY FrontMoves
  <2>1. CASE UNCHANGED accounts /\ Rests(FrontOps) BY <2>1, HashRests DEF accounts
  <2>2. ASSUME NEW p \in Procs, Handled(p), pc[p] \notin HashPlaces, pc'[p] \notin HashPlaces, UNCHANGED userRows PROVE HashInv'
    <3>1. UNCHANGED <<users, userHash, mixed>> BY <2>2 DEF userRows
    <3> QED BY <2>2, <3>1, HashByOthers
  <2>3. CASE \E p \in Procs : /\ May(p, UserOps \union Visits) /\ UNCHANGED visitors
                              /\ (Came(p) /\ UNCHANGED accounts) \/ Looks(p) \/ Holds(p) \/ Records(p)
    <3> PICK p \in Procs : /\ May(p, UserOps \union Visits)
                           /\ (Came(p) /\ UNCHANGED accounts) \/ Looks(p) \/ Holds(p) \/ Records(p)
      BY <2>3
    <3>1. CASE Came(p) /\ UNCHANGED accounts
      <4>1. Handled(p) /\ pc[p] \notin HashPlaces /\ pc'[p] \notin HashPlaces /\ UNCHANGED userRows
        BY <3>1 DEF Came, HashPlaces, accounts
      <4> QED BY <4>1, <2>2
    <3>2. CASE Looks(p) \/ Holds(p)
      <4>1. UNCHANGED userRows BY <3>2, LooksUnchanged, HoldersKeepRows DEF accounts
      <4>2. CASE CheckOldPassword(p) BY <4>1, <4>2, HashByCompare
      <4>3. CASE ~CheckOldPassword(p) BY <3>2, <4>1, <4>3, <2>2, AccountsGoOn, NothingWritten DEF GoesOn
      <4> QED BY <4>2, <4>3
    <3>3. CASE Records(p)
      BY <3>3, HashByIndexing, HashByAdding, HashByNewborn, HashByPassword, HashByProfile, HashByRemark, HashByFailure, Zenon
         DEF Records
    <3> QED BY <3>1, <3>2, <3>3
  <2>4. CASE \E p \in Procs : /\ May(p, Visits \union {"generate", "tokens"})
                              /\ (Called(p) /\ UNCHANGED accounts) \/ Visiting(p)
    <3> PICK p \in Procs : (Called(p) /\ UNCHANGED accounts) \/ Visiting(p) BY <2>4
    <3>1. CASE Called(p) /\ UNCHANGED accounts
      <4>1. Handled(p) /\ pc[p] \notin HashPlaces /\ pc'[p] \notin HashPlaces /\ UNCHANGED userRows
        BY <3>1 DEF Called, HashPlaces, accounts
      <4> QED BY <4>1, <2>2
    <3>2. CASE Visiting(p)
      <4>1. UNCHANGED userRows BY <3>2, HoldersKeepRows
      <4> QED BY <3>2, <4>1, <2>2, VisitorsGoOn, NothingWritten DEF GoesOn
    <3> QED BY <3>1, <3>2
  <2> QED BY <2>1, <2>3, <2>4, FrontMoves
<1>3. HashInv => HashFollowsRow
  <2> SUFFICES ASSUME HashInv, NEW u \in Live, NEW f \in {"pwd", "nick"}, <<u, f>> \notin mixed, \A p \in Procs : Writes(p) # u
               PROVE  userHash[u][f] \in {None, users[u][f]}
    BY DEF HashFollowsRow
  <2>1. \A p \in Procs : ~PwdWriter(p, u) /\ ~NickWriter(p, u) BY WritersWrite
  <2>2. CASE f = "pwd" BY <2>1, <2>2 DEF HashInv, PwdHolds
  <2>3. CASE f = "nick" BY <2>1, <2>3 DEF HashInv, NickHolds
  <2> QED BY <2>2, <2>3
<1> QED BY <1>1, <1>2, <1>3, PTL DEF Spec

(***************************************************************************)
(* Visitors: a phone number is one handler's from the look at it until it  *)
(* has its guest, a token from the look at it until it is in the log, and  *)
(* the first entry of a log is one handler's; unless `fumbled' says so.    *)
(***************************************************************************)

\* p knows the guest that the number has or will have; p makes one.
Brings(p, f)    == Active(p, Visits) /\ pc[p] \in {"setPhone", "build", "authorize"} /\ req[p].phone = f
Numbering(p, f) == Active(p, Visits) /\ pc[p] \in {"incr", "setPhone"} /\ req[p].phone = f
Uses(f, g)      == phoneId[f] = g \/ \E p \in Procs : Brings(p, f) /\ seen[p].user = g
\* p found the token, and has yet to write the log.
Redeeming       == {"take", "phone", "incr", "setPhone", "build", "authorize", "exists", "logFirst", "logNext"}
Redeems(p, k)   == Active(p, {"try"}) /\ pc[p] \in Redeeming /\ req[p].teacher = None /\ req[p].token = k
Logs(p, at, l)  == Active(p, {"try"}) /\ pc[p] = at /\ Kind(Key(req[p])) = l

VisitData ==
  /\ offers = [k \in Keys |-> offers[k]] /\ counter \in Nat
  /\ until = [g \in Guests |-> until[g]] /\ promised = [f \in Phones |-> promised[f]]
  /\ log \in [Log -> (SUBSET [phone : Phones, key : Keys]) \union {None}]
  /\ \A e \in registered : e.key \in Keys

\* Guests are handed out in order and one to a number, but for the lowest, which is
\* everybody's if the counter fails.
IdsApart ==
  /\ \A f \in Phones, g \in Guests : Uses(f, g) => Rank(g) \in 0..counter /\ (Rank(g) = 0 => f \in fumbled)
  /\ \A f, h \in Phones, g \in Guests : Uses(f, g) /\ Uses(h, g) => f = h \/ Rank(g) = 0

PhoneHolds(f) ==
  /\ \A p, q \in Procs : Numbering(p, f) /\ Numbering(q, f) => p = q
  /\ \A p \in Procs : Numbering(p, f) => phoneId[f] = None
  /\ \A p \in Procs : Brings(p, f) /\ pc[p] # "setPhone" => seen[p].user = phoneId[f]
  /\ promised[f] # None => phoneId[f] # None /\ until[phoneId[f]] = promised[f]
CouponHolds(k) ==
  /\ \A d, e \in registered : d.key = k /\ e.key = k => d = e
  /\ \A p, q \in Procs : Redeems(p, k) /\ Redeems(q, k) => p = q
  /\ \A p \in Procs : Redeems(p, k) => \A e \in registered : e.key # k
  /\ offers[k] # None => (\A e \in registered : e.key # k) /\ \A p \in Procs : Redeems(p, k) => pc[p] = "take"
LogHolds(l) ==
  /\ \A p, q \in Procs : Logs(p, "logFirst", l) /\ Logs(q, "logFirst", l) => p = q
  /\ \A p \in Procs : Logs(p, "logFirst", l) => log[l] = None
  /\ \A e \in registered : Kind(e.key) = l => log[l] # None /\ e \in log[l]

PhonesInv  == IdsApart /\ \A f \in Phones \ fumbled : PhoneHolds(f)
CouponsInv == \A k \in Coupons \ (Teachers \union fumbled) : CouponHolds(k)
LogsInv    == /\ \A p \in Procs, l \in Log : Logs(p, "logNext", l) => log[l] # None
              /\ \A l \in Log \ fumbled : LogHolds(l)
VisitInv   == VisitData /\ PhonesInv /\ CouponsInv /\ LogsInv

\* The part of q in a phone number, a token, a log does not grow by the step.
PhoneQuiet(q, f) ==
  /\ f \notin fumbled' /\ Numbering(q, f)' => Numbering(q, f)
  /\ Brings(q, f)' => Brings(q, f) /\ seen'[q].user = seen[q].user /\ (pc'[q] # "setPhone" => pc[q] # "setPhone")
CouponQuiet(q, k) == Redeems(q, k)' => Redeems(q, k) /\ (pc[q] = "take" => pc'[q] = "take" \/ offers'[k] = None)
LogQuiet(q, l) == /\ l \notin fumbled' /\ Logs(q, "logFirst", l)' => Logs(q, "logFirst", l)
                  /\ Logs(q, "logNext", l)' => Logs(q, "logNext", l)

LEMMA IdsKept ==
  ASSUME IdsApart, fumbled \subseteq fumbled', UNCHANGED counter, \A f \in Phones, g \in Guests : Uses(f, g)' => Uses(f, g)
  PROVE  IdsApart'
<1>1. \A g : Rank(g)' = Rank(g) BY DEF Rank
<1> QED BY <1>1 DEF IdsApart

LEMMA PhoneKept ==
  ASSUME NEW f \in Phones \ fumbled', PhoneHolds(f), phoneId'[f] = phoneId[f], promised'[f] = promised[f],
         promised[f] # None => until'[phoneId[f]] = until[phoneId[f]], \A q \in Procs : PhoneQuiet(q, f)
  PROVE  PhoneHolds(f)'
<1>1. \A p, q \in Procs : Numbering(p, f)' /\ Numbering(q, f)' => p = q BY DEF PhoneHolds, PhoneQuiet
<1>2. \A p \in Procs : Numbering(p, f)' => phoneId'[f] = None BY DEF PhoneHolds, PhoneQuiet
<1>3. \A p \in Procs : Brings(p, f)' /\ pc'[p] # "setPhone" => seen'[p].user = phoneId'[f] BY DEF PhoneHolds, PhoneQuiet
<1>4. promised'[f] # None => phoneId'[f] # None /\ until'[phoneId'[f]] = promised'[f] BY DEF PhoneHolds
<1> QED BY <1>1, <1>2, <1>3, <1>4 DEF PhoneHolds

LEMMA CouponKept ==
  ASSUME NEW k, CouponHolds(k), offers'[k] # None => offers[k] # None,
         \A e \in registered' : e.key = k => e \in registered, \A q \in Procs : CouponQuiet(q, k)
  PROVE  CouponHolds(k)'
<1>1. \A d, e \in registered' : d.key = k /\ e.key = k => d = e BY DEF CouponHolds
<1>2. \A p, q \in Procs : Redeems(p, k)' /\ Redeems(q, k)' => p = q BY DEF CouponHolds, CouponQuiet
<1>3. \A p \in Procs : Redeems(p, k)' => \A e \in registered' : e.key # k BY DEF CouponHolds, CouponQuiet
<1>4. offers'[k] # None => (\A e \in registered' : e.key # k) /\ \A p \in Procs : Redeems(p, k)' => pc'[p] = "take"
  BY DEF CouponHolds, CouponQuiet
<1> QED BY <1>1, <1>2, <1>3, <1>4 DEF CouponHolds

LEMMA LogKept ==
  ASSUME NEW l \in Log \ fumbled', LogHolds(l), log'[l] = log[l],
         \A e \in registered' : Kind(e.key) = l => e \in registered, \A q \in Procs : LogQuiet(q, l)
  PROVE  LogHolds(l)'
<1>0. \A k : Kind(k)' = Kind(k) BY DEF Kind
<1>1. \A p, q \in Procs : Logs(p, "logFirst", l)' /\ Logs(q, "logFirst", l)' => p = q BY DEF LogHolds, LogQuiet
<1>2. \A p \in Procs : Logs(p, "logFirst", l)' => log'[l] = None BY DEF LogHolds, LogQuiet
<1>3. \A e \in registered' : Kind(e.key) = l => log'[l] # None /\ e \in log'[l] BY DEF LogHolds
<1> QED BY <1>0, <1>1, <1>2, <1>3 DEF LogHolds

\* The parts of the invariant when a step does not touch them.
LEMMA PhonesKept ==
  ASSUME PhonesInv, fumbled \subseteq fumbled', UNCHANGED <<phoneId, counter, until, promised>>,
         \A q \in Procs, f \in Phones : PhoneQuiet(q, f)
  PROVE  PhonesInv'
<1>1. \A f \in Phones, g \in Guests : Uses(f, g)' => Uses(f, g) BY DEF Uses, PhoneQuiet
<1>2. IdsApart' BY <1>1, IdsKept DEF PhonesInv
<1>3. \A f \in Phones \ fumbled' : PhoneHolds(f)' BY PhoneKept DEF PhonesInv
<1> QED BY <1>2, <1>3 DEF PhonesInv

LEMMA CouponsKept ==
  ASSUME CouponsInv, fumbled \subseteq fumbled', UNCHANGED registered,
         \A k \in Coupons : offers'[k] # None => offers[k] # None,
         \A q \in Procs, k \in Coupons \ (Teachers \union fumbled') : CouponQuiet(q, k)
  PROVE  CouponsInv'
BY CouponKept DEF CouponsInv

LEMMA LogsKept ==
  ASSUME LogsInv, fumbled \subseteq fumbled', UNCHANGED <<log, registered>>, \A q \in Procs, l \in Log : LogQuiet(q, l)
  PROVE  LogsInv'
<1>1. \A p \in Procs, l \in Log : Logs(p, "logNext", l)' => log'[l] # None BY DEF LogsInv, LogQuiet
<1>2. \A l \in Log \ fumbled' : LogHolds(l)' BY LogKept DEF LogsInv
<1> QED BY <1>1, <1>2 DEF LogsInv

\* A handler but the one that moves.
LEMMA OthersParts ==
  ASSUME NEW p \in Procs, Handled(p), NEW q \in Procs \ {p}
  PROVE  /\ \A f : (Numbering(q, f)' <=> Numbering(q, f)) /\ (Brings(q, f)' <=> Brings(q, f)) /\ PhoneQuiet(q, f)
         /\ \A k : (Redeems(q, k)' <=> Redeems(q, k)) /\ CouponQuiet(q, k)
         /\ \A l : /\ Logs(q, "logFirst", l)' <=> Logs(q, "logFirst", l)
                   /\ Logs(q, "logNext", l)' <=> Logs(q, "logNext", l)
                   /\ LogQuiet(q, l)
         /\ pc'[q] = pc[q] /\ req'[q] = req[q] /\ seen'[q] = seen[q]
<1>1. pc'[q] = pc[q] /\ req'[q] = req[q] /\ seen'[q] = seen[q] BY DEF Handled
<1>2. \A k : Kind(k)' = Kind(k) BY DEF Kind
<1>3. Key(req[q])' = Key(req[q]) BY <1>1 DEF Key
<1> QED BY <1>1, <1>2, <1>3 DEF PhoneQuiet, CouponQuiet, LogQuiet, Brings, Numbering, Redeems, Logs, Active, Busy

\* p has no part in anything after the step; in no token or log that it had none in; in no log.
LEMMA NoPart ==
  ASSUME NEW p, \/ pc'[p] \notin Redeeming \/ req'[p].op \notin Visits
                \/ pc'[p] = "phone" /\ req'[p].op # "try"
  PROVE  /\ \A f : ~Numbering(p, f)' /\ ~Brings(p, f)' /\ PhoneQuiet(p, f)
         /\ \A k : ~Redeems(p, k)' /\ CouponQuiet(p, k)
         /\ \A l : ~Logs(p, "logFirst", l)' /\ ~Logs(p, "logNext", l)' /\ LogQuiet(p, l)
BY DEF PhoneQuiet, CouponQuiet, LogQuiet, Redeeming, Visits, Brings, Numbering, Redeems, Logs, Active

LEMMA SamePart ==
  ASSUME NEW p, Busy(p), req'[p] = req[p]
  PROVE  /\ pc[p] \in Redeeming \ {"take"} => \A k : (Redeems(p, k)' => Redeems(p, k)) /\ CouponQuiet(p, k)
         /\ pc'[p] \notin {"setPhone", "build", "authorize", "incr"} => \A f : PhoneQuiet(p, f)
         /\ pc'[p] \notin {"logFirst", "logNext"} => \A l : LogQuiet(p, l)
BY DEF CouponQuiet, PhoneQuiet, Brings, Numbering, LogQuiet, Redeems, Logs, Active

\* All of it when no part grows, and nothing but invitations goes.
LEMMA VisitKept ==
  ASSUME VisitInv, fumbled \subseteq fumbled', UNCHANGED <<phoneId, counter, until, log, promised, registered>>,
         offers' = [k \in Keys |-> offers'[k]], \A k \in Coupons : offers'[k] # None => offers[k] # None,
         \A q \in Procs : /\ \A f \in Phones : PhoneQuiet(q, f)
                          /\ \A k \in Coupons \ (Teachers \union fumbled') : CouponQuiet(q, k)
                          /\ \A l \in Log : LogQuiet(q, l)
  PROVE  VisitInv'
<1>1. VisitData' BY DEF VisitInv, VisitData
<1> QED BY <1>1, PhonesKept, CouponsKept, LogsKept DEF VisitInv

\* What a visitor's handler has.
LEMMA VisitorHas ==
  ASSUME Locals, FrontTypes, NEW p \in Procs, Busy(p), req[p].op \in Visits
  PROVE  /\ Active(p, Visits) /\ Briefed(p) /\ req[p].phone \in Phones
         /\ req[p].op = "try" => /\ Key(req[p]) \in Keys /\ req[p].teacher \in Teachers \union {None}
                                 /\ req[p].teacher = None => Key(req[p]) = req[p].token /\ req[p].token \in Coupons
                                 /\ req[p].teacher # None => Key(req[p]) \in Teachers
<1>1. Briefed(p) /\ Requested(req[p]) BY Briefing DEF Person, Active
<1> QED BY <1>1 DEF Requested, Key, Keys, Active

\* Steps after which the handler has no part in anything.
LEMMA VisitEnds ==
  ASSUME VisitInv, NEW p \in Procs, Handled(p),
         \/ pc'[p] \notin Redeeming \/ req'[p].op \notin Visits
         \/ pc'[p] = "phone" /\ req'[p].op # "try",
         fumbled \subseteq fumbled', UNCHANGED <<phoneId, counter, until, log, promised, registered>>,
         offers' = [k \in Keys |-> offers'[k]], \A k \in Coupons : offers'[k] # None => offers[k] # None
  PROVE  VisitInv'
<1>1. \A q \in Procs : /\ \A f \in Phones : PhoneQuiet(q, f)
                       /\ \A k \in Coupons \ (Teachers \union fumbled') : CouponQuiet(q, k)
                       /\ \A l \in Log : LogQuiet(q, l)
  BY OthersParts, NoPart
<1> QED BY <1>1, VisitKept

LEMMA VisitByOffering ==
  ASSUME Locals, FrontTypes, VisitInv, NEW p \in Procs,
         GenerateInvitation(p) \/ QueryInvitations(p) \/ DeleteExpired(p) \/ DropOffer(p)
  PROVE  VisitInv'
<1> USE Handling DEF visitors, offering, guestIds, visiting
<1>0. offers = [k \in Keys |-> offers[k]] /\ \A k \in Coupons : k \in Keys BY DEF VisitInv, VisitData, Keys
<1>1. CASE GenerateInvitation(p)
  <2> USE DEF GenerateInvitation
  <2> DEFINE c == req[p].key
  <2>1. /\ Handled(p) /\ pc'[p] = "idle" /\ (c \in Coupons => IsNew(c))
        /\ offers' = [offers EXCEPT ![c] = [end |-> req[p].end, duration |-> req[p].duration]]
        /\ UNCHANGED <<phoneId, counter, until, log, promised, registered, fumbled>>
    BY <1>1
  <2> HIDE DEF c, GenerateInvitation
  <2>2. /\ offers' = [k \in Keys |-> offers'[k]] /\ \A k \in Keys \ {c} : offers'[k] = offers[k]
    BY <1>0, <2>1
  <2>3. VisitData' BY <2>1, <2>2 DEF VisitInv, VisitData
  <2>4. "idle" \notin Redeeming BY DEF Redeeming
  <2>5. PhonesInv' /\ LogsInv'
    BY <2>1, <2>4, OthersParts, NoPart, PhonesKept, LogsKept DEF VisitInv
  <2>6. ASSUME NEW k \in Coupons \ (Teachers \union fumbled) PROVE CouponHolds(k)'
    <3>1. CouponHolds(k) BY DEF VisitInv, CouponsInv
    <3>2. \A q \in Procs : CouponQuiet(q, k) BY <2>1, <2>4, OthersParts, NoPart
    <3>3. CASE k # c BY <1>0, <2>1, <2>2, <3>1, <3>2, <3>3, CouponKept
    <3>4. CASE k = c
      <4>1. \A e \in registered : e.key # k BY <2>1, <3>4 DEF IsNew
      <4>2. \A q \in Procs : ~Redeems(q, k) BY <2>1, <3>4 DEF IsNew, Redeems, Active
      <4>3. \A q \in Procs : ~Redeems(q, k)' BY <3>2, <4>2 DEF CouponQuiet
      <4> QED BY <2>1, <4>1, <4>3 DEF CouponHolds
    <3> QED BY <3>3, <3>4
  <2>7. CouponsInv' BY <2>1, <2>6 DEF CouponsInv
  <2> QED BY <2>3, <2>5, <2>7 DEF VisitInv
<1>2. CASE QueryInvitations(p)
  <2>1. Handled(p) /\ pc'[p] = "listed" /\ UNCHANGED visitors BY <1>2 DEF QueryInvitations
  <2> QED BY <1>0, <2>1, VisitEnds DEF Redeeming
<1>3. CASE DeleteExpired(p)
  <2>1. /\ Handled(p) /\ pc'[p] = "idle" /\ offers' = [k \in Keys |-> offers'[k]]
        /\ \A k \in Coupons : offers'[k] # None => offers[k] # None
        /\ UNCHANGED <<phoneId, counter, until, log, promised, registered, fumbled>>
    BY <1>0, <1>3 DEF DeleteExpired
  <2> QED BY <2>1, VisitEnds DEF Redeeming
<1>4. CASE DropOffer(p)
  <2>1. /\ Handled(p) /\ pc'[p] = "idle"
        /\ UNCHANGED <<phoneId, counter, until, log, promised, registered, fumbled>>
    BY <1>4 DEF DropOffer
  <2>2. offers' = [offers EXCEPT ![req[p].token] = None] \/ offers' = offers BY <1>4 DEF DropOffer
  <2>3. offers' = [k \in Keys |-> offers'[k]] /\ \A k \in Coupons : offers'[k] # None => offers[k] # None
    BY <1>0, <2>2
  <2> QED BY <2>1, <2>3, VisitEnds DEF Redeeming
<1> QED BY <1>1, <1>2, <1>3, <1>4

LEMMA VisitByTaking ==
  ASSUME Locals, FrontTypes, VisitInv, NEW p \in Procs, GetOffer(p) \/ TakeOffer(p)
  PROVE  VisitInv'
<1> USE Handling DEF offering, guestIds, visiting
<1> DEFINE t == req[p].token
<1>0. offers = [k \in Keys |-> offers[k]] /\ \A k \in Coupons : k \in Keys BY DEF VisitInv, VisitData, Keys
<1>1. CASE GetOffer(p)
  <2> DEFINE k == Key(req[p])
             o == offers[k]
  <2>1. /\ pc[p] = "offer" /\ req[p].op = "try" /\ Busy(p)
        /\ UNCHANGED <<offers, phoneId, counter, until, log, promised, registered>>
    BY <1>1 DEF GetOffer, At, Busy
  <2>2. CASE ~Matches(o, req[p]) \/ clock >= o.end
    <3>1. Handled(p) /\ pc'[p] \in {"drop", "idle"} /\ UNCHANGED fumbled BY <1>1, <2>2 DEF GetOffer
    <3> QED BY <1>0, <2>1, <3>1, VisitEnds DEF Redeeming
  <2>3. CASE ~(~Matches(o, req[p]) \/ clock >= o.end)
    <3>1. /\ Handled(p) /\ req'[p] = req[p] /\ pc'[p] = IF req[p].teacher = None THEN "take" ELSE "phone"
          /\ Fumble(req[p].teacher = None /\ Meets(p, {"take"}, "token"), t)
      BY <1>1, <2>3 DEF GetOffer
    <3>2. fumbled \subseteq fumbled' BY <3>1 DEF Fumble
    <3>3. o # None BY <2>3 DEF Matches
    <3> HIDE DEF k, o
    <3>4. \A q \in Procs : (\A f \in Phones : PhoneQuiet(q, f)) /\ (\A l \in Log : LogQuiet(q, l))
      BY <2>1, <3>1, OthersParts, SamePart
    <3>5. PhonesInv' /\ LogsInv' BY <2>1, <3>2, <3>4, PhonesKept, LogsKept DEF VisitInv
    <3>6. VisitData' BY <2>1 DEF VisitInv, VisitData
    <3>7. ASSUME NEW c \in Coupons \ (Teachers \union fumbled') PROVE CouponHolds(c)'
      <4>1. CouponHolds(c) BY <3>2 DEF VisitInv, CouponsInv
      <4>2. CASE c = t /\ req[p].teacher = None
        <5>1. k = c BY <4>2 DEF k, Key
        <5>2. offers[c] # None BY <3>3, <5>1 DEF o
        <5>3. (\A e \in registered : e.key # c) /\ \A q \in Procs : Redeems(q, c) => pc[q] = "take" BY <4>1, <5>2 DEF CouponHolds
        <5>4. ~Meets(p, {"take"}, "token") BY <3>1, <4>2 DEF Fumble
        <5>5. \A q \in Procs \ {p} : ~Redeems(q, c) BY <4>2, <5>3, <5>4 DEF Meets, Redeems, Active, Visits
        <5>6. \A q \in Procs \ {p} : ~Redeems(q, c)' BY <3>1, <5>5, OthersParts
        <5>7. pc'[p] = "take" BY <3>1, <4>2
        <5> QED BY <2>1, <5>3, <5>6, <5>7 DEF CouponHolds
      <4>3. CASE ~(c = t /\ req[p].teacher = None)
        <5>1. ~Redeems(p, c)' BY <3>1, <4>3 DEF Redeems
        <5>2. \A q \in Procs : CouponQuiet(q, c) BY <3>1, <5>1, OthersParts DEF CouponQuiet
        <5> QED BY <2>1, <4>1, <5>2, CouponKept
      <4> QED BY <4>2, <4>3
    <3>8. CouponsInv' BY <3>7 DEF CouponsInv
    <3> QED BY <3>5, <3>6, <3>8 DEF VisitInv
  <2> QED BY <2>2, <2>3
<1>2. CASE TakeOffer(p)
  <2>1. /\ Handled(p) /\ pc[p] = "take" /\ pc'[p] = "phone" /\ req'[p] = req[p] /\ Busy(p)
        /\ UNCHANGED <<phoneId, counter, until, log, promised, registered>>
        /\ \/ offers' = [offers EXCEPT ![t] = None] /\ UNCHANGED fumbled
           \/ Fumble(TRUE, t) /\ UNCHANGED offers
    BY <1>2 DEF TakeOffer, At, Busy
  <2>2. fumbled \subseteq fumbled' BY <2>1 DEF Fumble
  <2>3. offers' = [k \in Keys |-> offers'[k]] /\ \A k \in Coupons : offers'[k] # None => offers[k] # None
    BY <1>0, <2>1
  <2>4. \A q \in Procs : (\A f \in Phones : PhoneQuiet(q, f)) /\ (\A l \in Log : LogQuiet(q, l))
    BY <2>1, OthersParts, SamePart
  <2>5. ASSUME NEW k \in Coupons \ (Teachers \union fumbled') PROVE CouponQuiet(p, k)
    <3>1. Redeems(p, k)' => Redeems(p, k) /\ k = t BY <2>1 DEF Redeems, Redeeming, Active
    <3>2. k = t => offers'[k] = None BY <1>0, <2>1 DEF Fumble
    <3> QED BY <3>1, <3>2 DEF CouponQuiet
  <2>6. \A q \in Procs : \A k \in Coupons \ (Teachers \union fumbled') : CouponQuiet(q, k) BY <2>1, <2>5, OthersParts
  <2> QED BY <2>1, <2>2, <2>3, <2>4, <2>6, VisitKept
<1> QED BY <1>1, <1>2

\* What a step on the way to a guest leaves as it is.
LEMMA OnTheWay ==
  ASSUME VisitInv, NEW p \in Procs, Handled(p), Busy(p), req'[p] = req[p], pc[p] \in {"phone", "incr", "setPhone"},
         pc'[p] \in {"incr", "setPhone", "build"}, fumbled \subseteq fumbled', counter' \in Nat,
         UNCHANGED <<offers, until, log, promised, registered>>
  PROVE  /\ VisitData' /\ CouponsInv' /\ LogsInv'
         /\ \A h : Brings(p, h)' => h = req[p].phone
         /\ \A h \in Phones \ {req[p].phone}, q \in Procs : PhoneQuiet(q, h)
<1>1. VisitData' BY DEF VisitInv, VisitData
<1>2. \A q \in Procs : (\A k : CouponQuiet(q, k)) /\ (\A l : LogQuiet(q, l))
  BY OthersParts, SamePart DEF Redeeming
<1>3. CouponsInv' /\ LogsInv' BY <1>2, CouponsKept, LogsKept DEF VisitInv
<1>4. \A h : (Brings(p, h)' \/ Numbering(p, h)') => h = req[p].phone BY DEF Brings, Numbering
<1>5. \A h \in Phones \ {req[p].phone} : PhoneQuiet(p, h) BY <1>4 DEF PhoneQuiet
<1> QED BY <1>1, <1>3, <1>4, <1>5, OthersParts

LEMMA VisitByAsking ==
  ASSUME Locals, FrontTypes, VisitInv, NEW p \in Procs, GetPhone(p)
  PROVE  VisitInv'
<1> USE Handling DEF offering, guestIds, visiting
<1> DEFINE f == req[p].phone
<1>0. /\ Busy(p) /\ req[p].op \in Visits /\ pc[p] = "phone"
      /\ UNCHANGED <<offers, phoneId, counter, until, log, promised, registered>>
  BY DEF GetPhone, At, Busy
<1>i. IdsApart /\ (\A h \in Phones \ fumbled : PhoneHolds(h)) /\ counter \in Nat BY DEF VisitInv, PhonesInv, VisitData
<1>1. CASE phoneId[f] # None /\ With(p, "build", [seen[p] EXCEPT !.user = phoneId[f]]) /\ UNCHANGED fumbled
  <2>1. /\ Handled(p) /\ pc'[p] = "build" /\ req'[p] = req[p] /\ seen'[p] = [seen[p] EXCEPT !.user = phoneId[f]]
        /\ UNCHANGED fumbled
    BY <1>1
  <2>2. Carries(p) BY <1>0, VisitorHas DEF Briefed
  <2>3. seen'[p].user = phoneId[f] BY <2>1, <2>2 DEF Carries
  <2>4. /\ VisitData' /\ CouponsInv' /\ LogsInv' /\ \A h : Brings(p, h)' => h = f
        /\ \A h \in Phones \ {f}, q \in Procs : PhoneQuiet(q, h)
    BY <1>0, <1>i, <2>1, OnTheWay
  <2> HIDE DEF f
  <2>5. ASSUME NEW h \in Phones, NEW x \in Guests, Uses(h, x)' PROVE Uses(h, x)
    <3>1. CASE phoneId'[h] = x BY <1>0, <3>1 DEF Uses
    <3>2. ASSUME NEW q \in Procs, Brings(q, h)', seen'[q].user = x PROVE Uses(h, x)
      <4>1. CASE q = p BY <2>3, <2>4, <3>2, <4>1 DEF Uses
      <4>2. CASE q # p BY <2>1, <3>2, <4>2, OthersParts DEF Uses
      <4> QED BY <4>1, <4>2
    <3> QED BY <2>5, <3>1, <3>2 DEF Uses
  <2>6. IdsApart' BY <1>0, <1>i, <2>1, <2>5, IdsKept
  <2>7. ASSUME NEW h \in Phones \ fumbled' PROVE PhoneHolds(h)'
    <3>1. PhoneHolds(h) BY <1>i, <2>1
    <3>2. CASE h # f BY <1>0, <2>4, <3>1, <3>2, PhoneKept
    <3>3. CASE h = f
      <4>1. \A q \in Procs : Numbering(q, h)' => Numbering(q, h)
        <5>1. ~Numbering(p, h)' BY <2>1 DEF Numbering
        <5> QED BY <2>1, <5>1, OthersParts
      <4>2. ASSUME NEW q \in Procs, Brings(q, h)', pc'[q] # "setPhone" PROVE seen'[q].user = phoneId[h]
        <5>1. CASE q = p BY <2>3, <3>3, <5>1
        <5>2. CASE q # p
          <6>1. Brings(q, h) /\ pc'[q] = pc[q] /\ seen'[q] = seen[q] BY <2>1, <4>2, <5>2, OthersParts
          <6> QED BY <4>2, <6>1, <3>1 DEF PhoneHolds
        <5> QED BY <5>1, <5>2
      <4> QED BY <1>0, <3>1, <4>1, <4>2 DEF PhoneHolds
    <3> QED BY <3>2, <3>3
  <2> QED BY <2>4, <2>6, <2>7 DEF VisitInv, PhonesInv
<1>2. CASE On(p, "incr") /\ Fumble(phoneId[f] # None \/ Meets(p, {"incr", "setPhone"}, "phone"), f)
  <2>1. /\ Handled(p) /\ pc'[p] = "incr" /\ req'[p] = req[p]
        /\ Fumble(phoneId[f] # None \/ Meets(p, {"incr", "setPhone"}, "phone"), f)
    BY <1>2
  <2>2. fumbled \subseteq fumbled' BY <2>1 DEF Fumble
  <2>3. f \notin fumbled' => phoneId[f] = None /\ ~Meets(p, {"incr", "setPhone"}, "phone") BY <2>1 DEF Fumble
  <2>4. /\ VisitData' /\ CouponsInv' /\ LogsInv'
        /\ \A h \in Phones \ {f}, q \in Procs : PhoneQuiet(q, h)
    BY <1>0, <1>i, <2>1, <2>2, OnTheWay
  <2>5. \A h : ~Brings(p, h)' BY <2>1 DEF Brings
  <2>6. ASSUME NEW h \in Phones, NEW x \in Guests, Uses(h, x)' PROVE Uses(h, x)
    <3>1. CASE phoneId'[h] = x BY <1>0, <3>1 DEF Uses
    <3>2. ASSUME NEW q \in Procs, Brings(q, h)', seen'[q].user = x PROVE Uses(h, x)
      <4>1. q # p BY <2>5, <3>2
      <4> QED BY <2>1, <3>2, <4>1, OthersParts DEF Uses
    <3> QED BY <2>6, <3>1, <3>2 DEF Uses
  <2>7. IdsApart' BY <1>0, <1>i, <2>2, <2>6, IdsKept
  <2>8. ASSUME NEW h \in Phones \ fumbled' PROVE PhoneHolds(h)'
    <3>1. PhoneHolds(h) BY <1>i, <2>2
    <3>2. CASE h # f BY <1>0, <2>4, <3>1, <3>2, PhoneKept
    <3>3. CASE h = f
      <4>1. \A q \in Procs \ {p} : ~Numbering(q, h) BY <2>3, <3>3 DEF Meets, Numbering, Active
      <4>2. \A q \in Procs \ {p} : ~Numbering(q, h)' BY <2>1, <4>1, OthersParts
      <4>3. phoneId[h] = None BY <2>3, <3>3
      <4>4. ASSUME NEW q \in Procs, Brings(q, h)', pc'[q] # "setPhone" PROVE seen'[q].user = phoneId[h]
        <5>1. q # p BY <2>5, <4>4
        <5>2. Brings(q, h) /\ pc'[q] = pc[q] /\ seen'[q] = seen[q] BY <2>1, <4>4, <5>1, OthersParts
        <5> QED BY <4>4, <5>2, <3>1 DEF PhoneHolds
      <4>5. promised[h] # None => phoneId[h] # None /\ until[phoneId[h]] = promised[h] BY <3>1 DEF PhoneHolds
      <4> HIDE DEF f
      <4> QED BY <1>0, <4>2, <4>3, <4>4, <4>5 DEF PhoneHolds
    <3> QED BY <3>2, <3>3
  <2> QED BY <2>4, <2>7, <2>8 DEF VisitInv, PhonesInv
<1> QED BY <1>1, <1>2 DEF GetPhone

LEMMA VisitByNumbering ==
  ASSUME Locals, FrontTypes, VisitInv, NEW p \in Procs, NewGuest(p)
  PROVE  VisitInv'
<1> USE Handling DEF offering, guestIds, visiting
<1> DEFINE f == req[p].phone
<1>0. /\ Busy(p) /\ req[p].op \in Visits /\ pc[p] = "incr"
      /\ UNCHANGED <<offers, phoneId, until, log, promised, registered>>
  BY DEF NewGuest, At, Busy
<1>i. IdsApart /\ (\A h \in Phones \ fumbled : PhoneHolds(h)) /\ counter \in Nat BY DEF VisitInv, PhonesInv, VisitData
<1>c. Carries(p) BY <1>0, VisitorHas DEF Briefed
<1>1. PICK g \in Guests :
        /\ With(p, "setPhone", [seen[p] EXCEPT !.user = g])
        /\ \/ counter' = counter + 1 /\ Rank(g) = counter + 1 /\ UNCHANGED fumbled
           \/ UNCHANGED counter /\ Rank(g) = 0 /\ Fumble(TRUE, f)
  BY DEF NewGuest
<1>2. /\ Handled(p) /\ pc'[p] = "setPhone" /\ req'[p] = req[p] /\ seen'[p] = [seen[p] EXCEPT !.user = g]
      /\ fumbled \subseteq fumbled' /\ counter' \in Nat /\ 0..counter \subseteq 0..counter'
      /\ Rank(g) \in 0..counter' /\ (Rank(g) = 0 => f \in fumbled')
  BY <1>1, <1>i DEF Fumble
<1>3. seen'[p].user = g BY <1>2, <1>c DEF Carries
<1>4. /\ VisitData' /\ CouponsInv' /\ LogsInv' /\ \A h : Brings(p, h)' => h = f
      /\ \A h \in Phones \ {f}, q \in Procs : PhoneQuiet(q, h)
  BY <1>0, <1>2, OnTheWay
<1>5. \A x : Rank(x)' = Rank(x) BY DEF Rank
<1> HIDE DEF f
<1>6. ASSUME NEW h \in Phones, NEW x \in Guests, Uses(h, x)' PROVE Uses(h, x) \/ (h = f /\ x = g)
  <2>1. CASE phoneId'[h] = x BY <1>0, <2>1 DEF Uses
  <2>2. ASSUME NEW q \in Procs, Brings(q, h)', seen'[q].user = x PROVE Uses(h, x) \/ (h = f /\ x = g)
    <3>1. CASE q = p BY <1>3, <1>4, <2>2, <3>1
    <3>2. CASE q # p BY <1>2, <2>2, <3>2, OthersParts DEF Uses
    <3> QED BY <3>1, <3>2
  <2> QED BY <1>6, <2>1, <2>2 DEF Uses
<1>7. IdsApart'
  <2>1. ASSUME NEW h \in Phones, NEW x \in Guests, Uses(h, x)'
        PROVE  Rank(x) \in 0..counter' /\ (Rank(x) = 0 => h \in fumbled')
    <3>1. CASE Uses(h, x)
      <4>1. Rank(x) \in 0..counter /\ (Rank(x) = 0 => h \in fumbled) BY <1>i, <3>1 DEF IdsApart
      <4> QED BY <1>2, <4>1
    <3>2. CASE h = f /\ x = g BY <1>2, <3>2
    <3> QED BY <1>6, <2>1, <3>1, <3>2
  <2>2. ASSUME NEW h \in Phones, NEW k \in Phones, NEW x \in Guests, Uses(h, x)', Uses(k, x)'
        PROVE  h = k \/ Rank(x) = 0
    <3>1. CASE Uses(h, x) /\ Uses(k, x) BY <1>i, <3>1 DEF IdsApart
    <3>2. CASE h = f /\ k = f BY <3>2
    <3>3. CASE x = g /\ (Uses(h, x) \/ Uses(k, x))
      <4>1. Rank(g) \in 0..counter BY <1>i, <3>3 DEF IdsApart
      <4>2. Rank(g) # counter + 1 BY <4>1, <1>i
      <4> QED BY <1>1, <3>3, <4>2
    <3> QED BY <1>6, <2>2, <3>1, <3>2, <3>3
  <2> QED BY <1>5, <2>1, <2>2 DEF IdsApart
<1>8. ASSUME NEW h \in Phones \ fumbled' PROVE PhoneHolds(h)'
  <2>1. PhoneHolds(h) BY <1>i, <1>2
  <2>2. CASE h # f BY <1>0, <1>4, <2>1, <2>2, PhoneKept
  <2>3. CASE h = f
    <3>1. \A q \in Procs : Numbering(q, h)' => Numbering(q, h)
      <4>1. Numbering(p, h) BY <1>0, <2>3 DEF Numbering, Active, f
      <4> QED BY <1>2, <4>1, OthersParts
    <3>2. ASSUME NEW q \in Procs, Brings(q, h)', pc'[q] # "setPhone" PROVE seen'[q].user = phoneId[h]
      <4>1. q # p BY <1>2, <3>2
      <4>2. Brings(q, h) /\ pc'[q] = pc[q] /\ seen'[q] = seen[q] BY <1>2, <3>2, <4>1, OthersParts
      <4> QED BY <3>2, <4>2, <2>1 DEF PhoneHolds
    <3> QED BY <1>0, <2>1, <3>1, <3>2 DEF PhoneHolds
  <2> QED BY <2>2, <2>3
<1> QED BY <1>4, <1>7, <1>8 DEF VisitInv, PhonesInv

LEMMA VisitByNumber ==
  ASSUME Locals, FrontTypes, Numbers, VisitInv, NEW p \in Procs, SetPhone(p)
  PROVE  VisitInv'
<1> USE Handling DEF offering, guestIds, visiting
<1> DEFINE f == req[p].phone
           g == seen[p].user
<1>0. /\ Busy(p) /\ req[p].op \in Visits /\ pc[p] = "setPhone" /\ On(p, "build")
      /\ UNCHANGED <<offers, counter, until, log, promised, registered>>
      /\ \/ phoneId' = [phoneId EXCEPT ![f] = g] /\ UNCHANGED fumbled
         \/ f \in fumbled' /\ fumbled \subseteq fumbled' /\ UNCHANGED phoneId
  BY DEF SetPhone, At, Busy, Fumble
<1>i. IdsApart /\ (\A h \in Phones \ fumbled : PhoneHolds(h)) /\ counter \in Nat BY DEF VisitInv, PhonesInv, VisitData
<1>1. /\ Handled(p) /\ pc'[p] = "build" /\ req'[p] = req[p] /\ seen'[p] = seen[p] /\ fumbled \subseteq fumbled' BY <1>0
<1>2. g \in Guests /\ f \in Phones BY <1>0, VisitorHas DEF Briefed, Unnumbered
<1>3. Brings(p, f) /\ Numbering(p, f) BY <1>0 DEF Brings, Numbering, Active
<1>4. /\ VisitData' /\ CouponsInv' /\ LogsInv' /\ \A h : Brings(p, h)' => h = f
      /\ \A h \in Phones \ {f}, q \in Procs : PhoneQuiet(q, h)
  BY <1>0, <1>1, <1>i, OnTheWay
<1>5. \A h \in Phones : phoneId'[h] = phoneId[h] \/ (h = f /\ phoneId'[h] = g) BY <1>0, <1>2 DEF Numbers
<1>6. f \notin fumbled' => phoneId'[f] = g BY <1>0, <1>2 DEF Numbers
<1> HIDE DEF f, g
<1>7. ASSUME NEW h \in Phones, NEW x \in Guests, Uses(h, x)' PROVE Uses(h, x)
  <2>1. CASE phoneId'[h] = x BY <1>3, <1>5, <2>1 DEF Uses, g
  <2>2. ASSUME NEW q \in Procs, Brings(q, h)', seen'[q].user = x PROVE Uses(h, x)
    <3>1. CASE q = p BY <1>1, <1>3, <1>4, <2>2, <3>1 DEF Uses
    <3>2. CASE q # p BY <1>1, <2>2, <3>2, OthersParts DEF Uses
    <3> QED BY <3>1, <3>2
  <2> QED BY <1>7, <2>1, <2>2 DEF Uses
<1>8. IdsApart' BY <1>0, <1>1, <1>i, <1>7, IdsKept
<1>9. ASSUME NEW h \in Phones \ fumbled' PROVE PhoneHolds(h)'
  <2>1. PhoneHolds(h) BY <1>i, <1>1
  <2>2. CASE h # f BY <1>0, <1>4, <1>5, <2>1, <2>2, PhoneKept
  <2>3. CASE h = f
    <3>1. phoneId[h] = None /\ phoneId'[h] = g /\ promised[h] = None BY <1>3, <1>6, <2>1, <2>3 DEF PhoneHolds
    <3>2. \A q \in Procs : ~Numbering(q, h)'
      <4>1. ~Numbering(p, h)' BY <1>1 DEF Numbering
      <4>2. \A q \in Procs \ {p} : ~Numbering(q, h) BY <1>3, <2>1, <2>3 DEF PhoneHolds
      <4> QED BY <1>1, <4>1, <4>2, OthersParts
    <3>3. ASSUME NEW q \in Procs, Brings(q, h)', pc'[q] # "setPhone" PROVE seen'[q].user = g
      <4>1. CASE q = p BY <1>1, <4>1 DEF g
      <4>2. CASE q # p
        <5>1. Brings(q, h) /\ pc'[q] = pc[q] BY <1>1, <3>3, <4>2, OthersParts
        <5>2. seen[q].user = None BY <3>1, <3>3, <5>1, <2>1 DEF PhoneHolds
        <5>3. seen[q].user \in Guests
          <6>1. Busy(q) /\ req[q].op \in Visits /\ pc[q] \in {"setPhone", "build", "authorize"} BY <5>1 DEF Brings, Active
          <6> QED BY <6>1, VisitorHas DEF Briefed, Unnumbered
        <5> QED BY <5>2, <5>3, NoneIsNoUser
      <4> QED BY <4>1, <4>2
    <3> QED BY <1>0, <3>1, <3>2, <3>3 DEF PhoneHolds
  <2> QED BY <2>2, <2>3
<1> QED BY <1>4, <1>8, <1>9 DEF VisitInv, PhonesInv

LEMMA VisitByBuilding ==
  ASSUME Locals, FrontTypes, VisitInv, NEW p \in Procs, BuildInfo(p)
  PROVE  VisitInv'
<1> USE Handling DEF visitors, offering, guestIds, visiting
<1>1. /\ Busy(p) /\ req[p].op \in Visits /\ pc[p] = "build" /\ UNCHANGED visitors
      /\ With(p, IF req[p].op = "try" THEN "authorize" ELSE "authority", [seen[p] EXCEPT !.nick = req[p].phone])
  BY DEF BuildInfo, At, Busy
<1>2. /\ Handled(p) /\ pc'[p] \in {"authorize", "authority"} /\ req'[p] = req[p]
      /\ seen'[p] = [seen[p] EXCEPT !.nick = req[p].phone]
  BY <1>1
<1>3. Carries(p) BY <1>1, VisitorHas DEF Briefed
<1>4. seen'[p].user = seen[p].user BY <1>2, <1>3 DEF Carries
<1>5. \A h : PhoneQuiet(p, h) BY <1>1, <1>2, <1>4 DEF PhoneQuiet, Brings, Numbering, Active
<1>6. \A q \in Procs : (\A h : PhoneQuiet(q, h)) /\ (\A k : CouponQuiet(q, k)) /\ (\A l : LogQuiet(q, l))
  BY <1>1, <1>2, <1>5, OthersParts, SamePart DEF Redeeming
<1>7. offers = [k \in Keys |-> offers[k]] BY DEF VisitInv, VisitData
<1> QED BY <1>1, <1>6, <1>7, VisitKept

LEMMA VisitByAuthorizing ==
  ASSUME Locals, FrontTypes, Numbers, VisitInv, NEW p \in Procs, Authorize(p)
  PROVE  VisitInv'
<1> USE Handling DEF offering, guestIds, visiting
<1> DEFINE f == req[p].phone
           u == seen[p].user
           t == seen[p].info
<1>0. /\ Busy(p) /\ req[p].op = "try" /\ pc[p] = "authorize"
      /\ UNCHANGED <<offers, phoneId, counter, log, registered, fumbled>>
  BY DEF Authorize, At, Busy
<1>i. IdsApart /\ (\A h \in Phones \ fumbled : PhoneHolds(h)) BY DEF VisitInv, PhonesInv
<1>o. offers = [k \in Keys |-> offers[k]] BY DEF VisitInv, VisitData
<1>1. CASE Return(p) /\ UNCHANGED <<until, promised>>
  <2>1. Handled(p) /\ pc'[p] = "idle" BY <1>1
  <2> QED BY <1>0, <1>o, <1>1, <2>1, VisitEnds DEF Redeeming
<1>2. CASE /\ On(p, "exists") /\ until' = [until EXCEPT ![u] = t] /\ promised' = [promised EXCEPT ![f] = t]
  <2>1. Handled(p) /\ pc'[p] = "exists" /\ req'[p] = req[p] BY <1>2
  <2>2. req[p].op \in Visits /\ u \in Guests /\ f \in Phones BY <1>0, VisitorHas DEF Briefed, Unnumbered, Visits
  <2>3. /\ until = [g \in Guests |-> until[g]] /\ promised = [h \in Phones |-> promised[h]] BY DEF VisitInv, VisitData
  <2>4. /\ until' = [g \in Guests |-> until'[g]] /\ promised' = [h \in Phones |-> promised'[h]]
        /\ until'[u] = t /\ promised'[f] = t
        /\ \A g \in Guests \ {u} : until'[g] = until[g]
        /\ \A h \in Phones \ {f} : promised'[h] = promised[h]
    BY <1>2, <2>2, <2>3
  <2>5. VisitData' BY <1>0, <2>4 DEF VisitInv, VisitData
  <2>6. \A q \in Procs : (\A h : PhoneQuiet(q, h)) /\ (\A k : CouponQuiet(q, k)) /\ (\A l : LogQuiet(q, l))
    BY <1>0, <2>1, OthersParts, SamePart DEF Redeeming
  <2>7. CouponsInv' /\ LogsInv' BY <1>0, <2>6, CouponsKept, LogsKept DEF VisitInv
  <2>8. \A h \in Phones, x \in Guests : Uses(h, x)' => Uses(h, x) BY <1>0, <2>6 DEF Uses, PhoneQuiet
  <2>9. IdsApart' BY <1>0, <1>i, <2>8, IdsKept
  <2>10. Brings(p, f) BY <1>0, <2>2 DEF Brings, Active
  <2>11. Uses(f, u) BY <2>10 DEF Uses
  <2> HIDE DEF f, u, t
  <2>12. ASSUME NEW h \in Phones \ fumbled' PROVE PhoneHolds(h)'
    <3>1. PhoneHolds(h) BY <1>0, <1>i
    <3>2. CASE h # f
      <4>1. ASSUME promised[h] # None PROVE until'[phoneId[h]] = until[phoneId[h]]
        <5>1. phoneId[h] \in Guests BY <4>1, <3>1 DEF PhoneHolds, Numbers
        <5>2. CASE phoneId[h] = u
          <6>1. Uses(h, u) BY <5>2 DEF Uses
          <6>2. Rank(u) = 0 /\ h \in fumbled BY <1>i, <2>2, <2>11, <3>2, <6>1 DEF IdsApart
          <6> QED BY <1>0, <6>2
        <5> QED BY <2>4, <5>1, <5>2
      <4> QED BY <1>0, <2>4, <2>6, <3>1, <3>2, <4>1, PhoneKept
    <3>3. CASE h = f
      <4>1. phoneId[h] = u BY <1>0, <2>10, <3>1, <3>3 DEF PhoneHolds, u
      <4>2. u # None BY <2>2, NoneIsNoUser
      <4>3. promised'[h] # None => phoneId'[h] # None /\ until'[phoneId'[h]] = promised'[h]
        BY <1>0, <2>4, <3>3, <4>1, <4>2
      <4>4. \A q, r \in Procs : Numbering(q, h)' /\ Numbering(r, h)' => q = r BY <2>6, <3>1 DEF PhoneHolds, PhoneQuiet
      <4>5. \A q \in Procs : Numbering(q, h)' => phoneId'[h] = None BY <1>0, <2>6, <3>1 DEF PhoneHolds, PhoneQuiet
      <4>6. \A q \in Procs : Brings(q, h)' /\ pc'[q] # "setPhone" => seen'[q].user = phoneId'[h]
        BY <1>0, <2>6, <3>1 DEF PhoneHolds, PhoneQuiet
      <4> QED BY <4>3, <4>4, <4>5, <4>6 DEF PhoneHolds
    <3> QED BY <3>2, <3>3
  <2> QED BY <2>5, <2>7, <2>9, <2>12 DEF VisitInv, PhonesInv
<1> QED BY <1>1, <1>2 DEF Authorize

LEMMA VisitByLogging ==
  ASSUME Locals, FrontTypes, VisitInv, NEW p \in Procs, LogExists(p)
  PROVE  VisitInv'
<1> USE Handling DEF offering, guestIds, visiting
<1> DEFINE l == Kind(Key(req[p]))
           met == log[l] = None /\ \E q \in Procs \ {p} : pc[q] = "logFirst" /\ Kind(Key(req[q])) = l
<1>0. /\ Busy(p) /\ req[p].op = "try" /\ pc[p] = "exists" /\ On(p, IF log[l] = None THEN "logFirst" ELSE "logNext")
      /\ UNCHANGED <<offers, phoneId, counter, until, log, promised, registered>> /\ Fumble(met, l)
  BY DEF LogExists, At, Busy
<1>1. /\ Handled(p) /\ req'[p] = req[p] /\ pc'[p] = IF log[l] = None THEN "logFirst" ELSE "logNext" BY <1>0
<1>2. fumbled \subseteq fumbled' /\ (l \notin fumbled' => ~met) BY <1>0 DEF Fumble
<1>3. VisitData' BY <1>0 DEF VisitInv, VisitData
<1>4. \A q \in Procs : (\A h : PhoneQuiet(q, h)) /\ (\A k : CouponQuiet(q, k))
  BY <1>0, <1>1, OthersParts, SamePart DEF Redeeming
<1>5. PhonesInv' /\ CouponsInv' BY <1>0, <1>2, <1>4, PhonesKept, CouponsKept DEF VisitInv
<1>6. \A m, at : Logs(p, at, m)' => m = l /\ pc'[p] = at BY <1>1 DEF Logs, Kind, Key
<1>7. (\A q \in Procs, m \in Log : Logs(q, "logNext", m) => log[m] # None) /\ \A m \in Log \ fumbled : LogHolds(m)
  BY DEF VisitInv, LogsInv
<1> HIDE DEF l
<1>8. ASSUME NEW q \in Procs, NEW m \in Log, Logs(q, "logNext", m)' PROVE log'[m] # None
  <2>1. CASE q = p BY <1>0, <1>1, <1>6, <1>8, <2>1
  <2>2. CASE q # p BY <1>0, <1>1, <1>7, <1>8, <2>2, OthersParts
  <2> QED BY <2>1, <2>2
<1>9. ASSUME NEW m \in Log \ fumbled' PROVE LogHolds(m)'
  <2>1. LogHolds(m) BY <1>2, <1>7
  <2>2. CASE m # l
    <3>1. LogQuiet(p, m) BY <1>6, <2>2 DEF LogQuiet
    <3> QED BY <1>0, <1>1, <2>1, <3>1, OthersParts, LogKept
  <2>3. CASE m = l /\ log[l] # None
    <3>1. \A q \in Procs : ~Logs(q, "logFirst", m)'
      <4>1. ~Logs(p, "logFirst", m)' BY <1>1, <1>6, <2>3
      <4>2. \A q \in Procs \ {p} : ~Logs(q, "logFirst", m) BY <2>1, <2>3 DEF LogHolds
      <4> QED BY <1>1, <4>1, <4>2, OthersParts
    <3>2. \A e \in registered' : Kind(e.key)' = m => log'[m] # None /\ e \in log'[m]
      BY <1>0, <2>1 DEF LogHolds, Kind
    <3> QED BY <3>1, <3>2 DEF LogHolds
  <2>4. CASE m = l /\ log[l] = None
    <3>1. \A q \in Procs \ {p} : ~Logs(q, "logFirst", m) BY <1>2, <2>4 DEF Logs
    <3>2. \A q \in Procs \ {p} : ~Logs(q, "logFirst", m)' BY <1>1, <3>1, OthersParts
    <3>3. \A e \in registered' : Kind(e.key)' = m => log'[m] # None /\ e \in log'[m]
      BY <1>0, <2>1 DEF LogHolds, Kind
    <3> QED BY <1>0, <2>4, <3>2, <3>3 DEF LogHolds
  <2> QED BY <2>2, <2>3, <2>4
<1> QED BY <1>3, <1>5, <1>8, <1>9 DEF VisitInv, LogsInv

\* Who comes into the log, whichever way it is written.
LEMMA LogWritten ==
  ASSUME Locals, FrontTypes, VisitInv, NEW p \in Procs, LogFirst(p) \/ LogNext(p)
  PROVE  /\ Handled(p) /\ Busy(p) /\ req[p].op = "try" /\ pc'[p] = "session" /\ registered' = registered \union {Entry(p)}
         /\ UNCHANGED <<offers, phoneId, counter, until, promised, fumbled>>
         /\ Entry(p) \in [phone : Phones, key : Keys] /\ Entry(p).key = Key(req[p]) /\ Kind(Key(req[p])) \in Log
         /\ PhonesInv' /\ CouponsInv' /\ \A e \in registered' : e.key \in Keys
<1> USE Handling DEF offering, guestIds, visiting
<1>1. /\ Handled(p) /\ Busy(p) /\ req[p].op = "try" /\ pc[p] \in {"logFirst", "logNext"} /\ pc'[p] = "session"
      /\ registered' = registered \union {Entry(p)} /\ UNCHANGED <<offers, phoneId, counter, until, promised, fumbled>>
  BY DEF LogFirst, LogNext, At, Busy
<1>2. /\ req[p].phone \in Phones /\ Key(req[p]) \in Keys
      /\ req[p].teacher = None => Key(req[p]) = req[p].token
      /\ req[p].teacher # None => Key(req[p]) \in Teachers
  BY <1>1, VisitorHas DEF Visits
<1>3. Entry(p) \in [phone : Phones, key : Keys] /\ Entry(p).key = Key(req[p]) BY <1>2 DEF Entry
<1>4. Kind(Key(req[p])) \in Log BY DEF Kind, Log
<1>5. \A e \in registered' : e.key \in Keys BY <1>1, <1>2, <1>3 DEF VisitInv, VisitData
<1>6. \A q \in Procs : (\A h : PhoneQuiet(q, h)) /\ (\A k : CouponQuiet(q, k))
  BY <1>1, OthersParts, NoPart DEF Redeeming
<1>7. PhonesInv' BY <1>1, <1>6, PhonesKept DEF VisitInv
<1>8. ASSUME NEW k \in Coupons \ (Teachers \union fumbled) PROVE CouponHolds(k)'
  <2>1. CouponHolds(k) BY DEF VisitInv, CouponsInv
  <2>2. CASE Key(req[p]) # k
    <3>1. \A e \in registered' : e.key = k => e \in registered BY <1>1, <1>3, <2>2
    <3> QED BY <1>1, <1>6, <2>1, <3>1, CouponKept
  <2>3. CASE Key(req[p]) = k
    <3>1. Redeems(p, k) BY <1>1, <1>2, <2>3 DEF Redeems, Redeeming, Active
    <3>2. (\A e \in registered : e.key # k) /\ offers[k] = None /\ \A q \in Procs \ {p} : ~Redeems(q, k)
      BY <1>1, <2>1, <3>1 DEF CouponHolds
    <3>3. \A q \in Procs : ~Redeems(q, k)'
      <4>1. ~Redeems(p, k)' BY <1>1, NoPart DEF Redeeming
      <4> QED BY <1>1, <3>2, <4>1, OthersParts
    <3>4. \A e \in registered' : e.key = k => e = Entry(p) BY <1>1, <3>2
    <3> QED BY <1>1, <3>2, <3>3, <3>4 DEF CouponHolds
  <2> QED BY <2>2, <2>3
<1>9. CouponsInv' BY <1>1, <1>8 DEF CouponsInv
<1> QED BY <1>1, <1>3, <1>4, <1>5, <1>7, <1>9

LEMMA VisitByEntries ==
  ASSUME Locals, FrontTypes, VisitInv, NEW p \in Procs, LogFirst(p) \/ LogNext(p)
  PROVE  VisitInv'
<1> DEFINE l == Kind(Key(req[p]))
<1> PICK e : e = Entry(p) OBVIOUS
<1>1. /\ Handled(p) /\ Busy(p) /\ req[p].op = "try" /\ pc'[p] = "session" /\ registered' = registered \union {e}
      /\ UNCHANGED <<offers, phoneId, counter, until, promised, fumbled>>
      /\ e \in [phone : Phones, key : Keys] /\ Kind(e.key) = l /\ l \in Log
      /\ PhonesInv' /\ CouponsInv' /\ \A d \in registered' : d.key \in Keys
  BY LogWritten
<1>2. log \in [Log -> (SUBSET [phone : Phones, key : Keys]) \union {None}] BY DEF VisitInv, VisitData
<1>3. (\A q \in Procs, m \in Log : Logs(q, "logNext", m) => log[m] # None) /\ \A m \in Log \ fumbled : LogHolds(m)
  BY DEF VisitInv, LogsInv
<1>4. /\ log' \in [Log -> (SUBSET [phone : Phones, key : Keys]) \union {None}] /\ \A m \in Log \ {l} : log'[m] = log[m]
      /\ log'[l] # None /\ e \in log'[l]
      /\ \/ log[l] # None /\ \A d \in log[l] : d \in log'[l]
         \/ Logs(p, "logFirst", l)
  <2> HIDE DEF l
  <2>1. CASE LogFirst(p)
    <3>1. log' = [log EXCEPT ![l] = {e}] /\ pc[p] = "logFirst" BY <2>1 DEF LogFirst, l, At
    <3>2. log'[l] = {e} /\ \A m \in Log \ {l} : log'[m] = log[m] BY <1>1, <1>2, <3>1
    <3>3. log' \in [Log -> (SUBSET [phone : Phones, key : Keys]) \union {None}] BY <1>1, <1>2, <3>1
    <3>4. {e} # None BY <1>1, NoneIsNoLog
    <3>5. Logs(p, "logFirst", l) BY <1>1, <3>1 DEF Logs, Active, l
    <3> QED BY <3>2, <3>3, <3>4, <3>5
  <2>2. CASE LogNext(p)
    <3>1. pc[p] = "logNext" /\ log' = [log EXCEPT ![l] = IF @ = None THEN {e} ELSE @ \union {e}]
      BY <2>2 DEF LogNext, l, At
    <3>2. Logs(p, "logNext", l) BY <1>1, <3>1 DEF Logs, Active, l
    <3>3. log[l] # None /\ log[l] \in SUBSET [phone : Phones, key : Keys] BY <1>1, <1>2, <1>3, <3>2
    <3>4. log' = [log EXCEPT ![l] = log[l] \union {e}] BY <3>1, <3>3
    <3>5. log'[l] = log[l] \union {e} /\ \A m \in Log \ {l} : log'[m] = log[m] BY <1>1, <1>2, <3>4
    <3>6. log[l] \union {e} \in SUBSET [phone : Phones, key : Keys] BY <1>1, <3>3
    <3>7. log' \in [Log -> (SUBSET [phone : Phones, key : Keys]) \union {None}] BY <1>2, <3>4, <3>6
    <3>8. log'[l] # None BY <3>5, <3>6, NoneIsNoLog
    <3> QED BY <3>3, <3>5, <3>7, <3>8
  <2> QED BY <2>1, <2>2
<1>5. VisitData' BY <1>1, <1>4 DEF VisitInv, VisitData
<1>6. \A q \in Procs : \A m : LogQuiet(q, m) BY <1>1, OthersParts, NoPart DEF Redeeming
<1>7. \A m : ~Logs(p, "logFirst", m)' BY <1>1, NoPart DEF Redeeming
<1> HIDE DEF l
<1>8. ASSUME NEW q \in Procs, NEW m \in Log, Logs(q, "logNext", m)' PROVE log'[m] # None
  <2>1. log[m] # None BY <1>3, <1>6, <1>8 DEF LogQuiet
  <2> QED BY <1>4, <2>1
<1>9. ASSUME NEW m \in Log \ fumbled' PROVE LogHolds(m)'
  <2>0. LogHolds(m) BY <1>1, <1>3
  <2>1. CASE m # l
    <3>1. \A d \in registered' : Kind(d.key) = m => d \in registered BY <1>1, <2>1
    <3> QED BY <1>4, <1>6, <2>0, <2>1, <3>1, LogKept
  <2>2. CASE m = l
    <3>1. \A q \in Procs : ~Logs(q, "logFirst", m)'
      <4>1. \A q \in Procs \ {p} : ~Logs(q, "logFirst", m) BY <1>4, <2>0, <2>2 DEF LogHolds
      <4> QED BY <1>1, <1>7, <4>1, OthersParts
    <3>2. \A d \in registered : Kind(d.key) = m => d \in log'[m] BY <1>4, <2>0, <2>2 DEF LogHolds
    <3>3. \A d \in registered' : Kind(d.key)' = m => log'[m] # None /\ d \in log'[m] BY <1>1, <1>4, <2>2, <3>2 DEF Kind
    <3> QED BY <3>1, <3>3 DEF LogHolds
  <2> QED BY <2>1, <2>2
<1> QED BY <1>1, <1>5, <1>8, <1>9 DEF VisitInv, LogsInv

LEMMA VisitByEntering ==
  ASSUME Locals, VisitInv, NEW p \in Procs, CheckAuthority(p) \/ StampLogin(p) \/ CountLogin(p) \/ VisitFails(p)
  PROVE  VisitInv'
<1> USE Handling DEF visitors, offering, guestIds, visiting
<1>0. offers = [k \in Keys |-> offers[k]] BY DEF VisitInv, VisitData
<1>1. Handled(p) /\ pc'[p] \in {"stamp", "count", "session", "idle"}
  BY DEF CheckAuthority, StampLogin, CountLogin, VisitFails
<1>2. UNCHANGED <<offers, phoneId, counter, until, log, promised, registered, fumbled>>
  BY DEF CheckAuthority, StampLogin, CountLogin, VisitFails
<1> QED BY <1>0, <1>1, <1>2, VisitEnds DEF Redeeming

\* No step of a user's handler is one towards a guest or the log.
LEMMA UsersAside ==
  ASSUME Locals, NEW p \in Procs, Looks(p) \/ Holds(p) \/ Records(p)
  PROVE  pc'[p] \notin Redeeming
<1> USE Handling DEF Redeeming
<1>1. CASE GetHttpSession(p) BY <1>1 DEF GetHttpSession
<1>2. CASE LoginIndex(p) BY <1>2 DEF LoginIndex
<1>3. CASE LoginHash(p) BY <1>3 DEF LoginHash
<1>4. CASE LoginGd(p) BY <1>4 DEF LoginGd
<1>5. CASE StudentHit(p) BY <1>5 DEF StudentHit, Found, Finish
<1>6. CASE StudentRow(p) BY <1>6 DEF StudentRow
<1>7. CASE CheckMember(p) BY <1>7 DEF CheckMember
<1>8. CASE CheckOldPassword(p) BY <1>8 DEF CheckOldPassword
<1>9. CASE UpdateHttpSession(p)
  <2>1. req[p].op \in Sessioned /\ pc'[p] = Then(p) BY <1>9 DEF UpdateHttpSession, At
  <2> QED BY <2>1, FirstSteps
<1>10. CASE SetHttpSession(p) BY <1>10 DEF SetHttpSession
<1>11. CASE Answer(p) BY <1>11 DEF Answer
<1>12. CASE LoseAnswer(p) BY <1>12 DEF LoseAnswer
<1>13. CASE UpdateSessionNickname(p) BY <1>13 DEF UpdateSessionNickname
<1>14. CASE StudentFill(p) BY <1>14 DEF StudentFill, Found, Finish
<1>15. CASE StudentNone(p) BY <1>15 DEF StudentNone
<1>16. CASE AddStudent(p) BY <1>16 DEF AddStudent
<1>17. CASE AddStudentIndex(p) BY <1>17 DEF AddStudentIndex
<1>18. CASE AddStudentHash(p) BY <1>18 DEF AddStudentHash, Found, Finish
<1>19. CASE GenerateInvitationToken(p) BY <1>19 DEF GenerateInvitationToken
<1>20. CASE DeleteInvitationToken(p) BY <1>20 DEF DeleteInvitationToken
<1>21. CASE CheckName(p) BY <1>21 DEF CheckName
<1>22. CASE GetInvitation(p) BY <1>22 DEF GetInvitation
<1>23. CASE UseInvitationToken(p) BY <1>23 DEF UseInvitationToken
<1>24. CASE AddUser(p) BY <1>24 DEF AddUser
<1>25. CASE AddUserIndex(p) BY <1>25 DEF AddUserIndex
<1>26. CASE AddUserHash(p) BY <1>26 DEF AddUserHash
<1>27. CASE ChangePasswordCache(p) BY <1>27 DEF ChangePasswordCache
<1>28. CASE ChangePasswordRow(p) BY <1>28 DEF ChangePasswordRow
<1>29. CASE ChangeProfileCache(p) BY <1>29 DEF ChangeProfileCache
<1>30. CASE ChangeProfileRow(p) BY <1>30 DEF ChangeProfileRow
<1>31. CASE QueryGdStudentID(p) BY <1>31 DEF QueryGdStudentID
<1>32. CASE RemarkRow(p) BY <1>32 DEF RemarkRow
<1>33. CASE RemarkHash(p) BY <1>33 DEF RemarkHash, Finish
<1>34. CASE AccountFails(p)
  <2>1. With(p, "gd", Nobody) \/ On(p, "answer") \/ Return(p) BY <1>34, Zenon DEF AccountFails
  <2> QED BY <2>1
<1> QED BY <1>1, <1>2, <1>3, <1>4, <1>5, <1>6, <1>7, <1>8, <1>9, <1>10, <1>11, <1>12, <1>13, <1>14, <1>15, <1>16, <1>17, <1>18, <1>19, <1>20, <1>21, <1>22, <1>23, <1>24, <1>25, <1>26, <1>27, <1>28, <1>29, <1>30, <1>31, <1>32, <1>33, <1>34 DEF Looks, Holds, Records

LEMMA VisitByVisitors ==
  ASSUME Locals, FrontTypes, Numbers, VisitInv, NEW p \in Procs, Visiting(p)
  PROVE  VisitInv'
<1>1. CASE GenerateInvitation(p) \/ QueryInvitations(p) \/ DeleteExpired(p) \/ DropOffer(p) BY <1>1, VisitByOffering
<1>2. CASE GetOffer(p) \/ TakeOffer(p) BY <1>2, VisitByTaking
<1>3. CASE GetPhone(p) BY <1>3, VisitByAsking
<1>4. CASE NewGuest(p) BY <1>4, VisitByNumbering
<1>5. CASE SetPhone(p) BY <1>5, VisitByNumber
<1>6. CASE BuildInfo(p) BY <1>6, VisitByBuilding
<1>7. CASE Authorize(p) BY <1>7, VisitByAuthorizing
<1>8. CASE LogExists(p) BY <1>8, VisitByLogging
<1>9. CASE LogFirst(p) \/ LogNext(p) BY <1>9, VisitByEntries
<1>10. CASE CheckAuthority(p) \/ StampLogin(p) \/ CountLogin(p) \/ VisitFails(p) BY <1>10, VisitByEntering
<1> QED BY <1>1, <1>2, <1>3, <1>4, <1>5, <1>6, <1>7, <1>8, <1>9, <1>10, Zenon DEF Visiting

LEMMA VisitRests ==
  ASSUME VisitInv, Rests(FrontOps), UNCHANGED <<offers, guestIds, visiting, fumbled>>
  PROVE  VisitInv'
<1>1. UNCHANGED <<offers, phoneId, counter, until, log, promised, registered, fumbled>> BY DEF guestIds, visiting
<1>2. \A q \in Procs, ops \in SUBSET Visits : Active(q, ops)' => Active(q, ops) /\ pc'[q] = pc[q] /\ req'[q] = req[q] /\ seen'[q] = seen[q]
  BY DEF Rests, Active, FrontOps
<1>3. Visits \in SUBSET Visits /\ {"try"} \in SUBSET Visits BY DEF Visits
<1>4. \A q \in Procs : (\A h : PhoneQuiet(q, h)) /\ (\A k : CouponQuiet(q, k)) /\ (\A l : LogQuiet(q, l))
  <2> TAKE q \in Procs
  <2>1. \A h : PhoneQuiet(q, h) BY <1>2, <1>3 DEF PhoneQuiet, Brings, Numbering
  <2>2. \A k : CouponQuiet(q, k) BY <1>2, <1>3 DEF CouponQuiet, Redeems
  <2>3. \A l : LogQuiet(q, l) BY <1>2, <1>3 DEF LogQuiet, Logs, Kind, Key
  <2> QED BY <2>1, <2>2, <2>3
<1>5. offers = [k \in Keys |-> offers[k]] BY DEF VisitInv, VisitData
<1> QED BY <1>1, <1>4, <1>5, VisitKept

LEMMA VisitInit == ASSUME Init PROVE VisitInv
<1>1. /\ offers = [k \in Keys |-> None] /\ counter = 0 /\ until = [g \in Guests |-> None]
      /\ promised = [f \in Phones |-> None] /\ log = [l \in Log |-> None] /\ registered = {}
      /\ phoneId = [f \in Phones |-> None] /\ \A p \in Procs : ~Busy(p)
  BY DEF Init, HandlersInit, ExperienceInit, Busy
<1>2. VisitData BY <1>1 DEF VisitData
<1>3. \A p \in Procs : /\ \A f : ~Brings(p, f) /\ ~Numbering(p, f)
                       /\ \A k : ~Redeems(p, k)
                       /\ \A at, l : ~Logs(p, at, l)
  BY <1>1 DEF Brings, Numbering, Redeems, Logs, Active
<1>4. None \notin Guests BY NoneIsNoUser
<1>5. \A f \in Phones, g \in Guests : ~Uses(f, g) BY <1>1, <1>3, <1>4 DEF Uses
<1>6. PhonesInv BY <1>1, <1>3, <1>5 DEF PhonesInv, IdsApart, PhoneHolds
<1>7. CouponsInv
  <2>1. \A k \in Coupons : offers[k] = None BY <1>1 DEF Keys
  <2> QED BY <1>1, <1>3, <2>1 DEF CouponsInv, CouponHolds
<1>8. LogsInv BY <1>1, <1>3 DEF LogsInv, LogHolds
<1> QED BY <1>2, <1>6, <1>7, <1>8 DEF VisitInv

\* A registration holds: the number leads to a guest whose visits end when the last
\* registration of the number said, the log keeps who registered, and nobody else came in
\* with the same token; RegisterExperienceUser looks and writes in separate commands, and
\* only two requests that meet in between, or a command that fails, undo it.
THEOREM RegistrationsStand == Spec => []RegistrationsHold
<1>1. Init => Locals /\ FrontTypes /\ Numbers /\ VisitInv BY LocalsInit, FrontInit, VisitInit
<1>2. Locals /\ FrontTypes /\ Numbers /\ VisitInv /\ [Next]_vars => (Locals /\ FrontTypes /\ Numbers /\ VisitInv)'
  <2> SUFFICES ASSUME Locals, FrontTypes, Numbers, VisitInv, [Next]_vars PROVE VisitInv' BY FrontMoves
  <2>1. CASE UNCHANGED <<accounts, visitors>> /\ Rests(FrontOps)
    <3>1. UNCHANGED <<offers, guestIds, visiting, fumbled>> BY <2>1 DEF visitors, offering
    <3> QED BY <2>1, <3>1, VisitRests
  <2>2. ASSUME NEW p \in Procs, Handled(p), UNCHANGED visitors,
               pc'[p] \notin Redeeming \/ (pc'[p] = "phone" /\ req'[p].op # "try")
        PROVE  VisitInv'
    <3>1. UNCHANGED <<offers, phoneId, counter, until, log, promised, registered, fumbled>>
      BY <2>2 DEF visitors, offering, guestIds, visiting
    <3>2. offers = [k \in Keys |-> offers[k]] BY DEF VisitInv, VisitData
    <3> QED BY <2>2, <3>1, <3>2, VisitEnds
  <2>3. CASE \E p \in Procs : May(p, UserOps \union Visits) /\ AccountsStep(p) /\ UNCHANGED visitors /\ Stays(p, FrontOps)
    <3> PICK p \in Procs : AccountsStep(p) /\ UNCHANGED visitors /\ Handled(p) BY <2>3 DEF Stays
    <3>1. CASE Arrives(p)
      <4>1. pc'[p] \notin Redeeming BY <3>1, Arriving DEF Came, Redeeming
      <4> QED BY <2>2, <4>1
    <3>2. CASE Looks(p) \/ Holds(p) \/ Records(p) BY <2>2, <3>2, UsersAside
    <3> QED BY <3>1, <3>2, AccountsSteps
  <2>4. CASE \E p \in Procs : May(p, Visits \union {"generate", "tokens"}) /\ ExperienceStep(p) /\ Stays(p, FrontOps)
    <3> PICK p \in Procs : ExperienceStep(p) BY <2>4
    <3>1. CASE Calling(p)
      <4>1. Called(p) /\ UNCHANGED visitors BY <3>1, CallingCalls
      <4>2. Handled(p) /\ (pc'[p] \notin Redeeming \/ (pc'[p] = "phone" /\ req'[p].op # "try"))
        BY <4>1 DEF Called, Redeeming
      <4> QED BY <2>2, <4>1, <4>2
    <3> QED BY <3>1, ExperienceSteps, VisitByVisitors
  <2>5. CASE Tick
    <3>1. UNCHANGED <<pc, req, seen, offers, guestIds, visiting, fumbled>> BY <2>5 DEF Tick, local
    <3>2. Rests(FrontOps) BY <3>1 DEF Rests, Active, Busy
    <3> QED BY <3>1, <3>2, VisitRests
  <2> QED BY <2>1, <2>3, <2>4, <2>5, Frame
<1>3. VisitInv => RegistrationsHold
  <2> SUFFICES ASSUME VisitInv PROVE RegistrationsHold OBVIOUS
  <2>1. \A f \in Phones \ fumbled : promised[f] # None => phoneId[f] # None /\ until[phoneId[f]] = promised[f]
    BY DEF VisitInv, PhonesInv, PhoneHolds
  <2>2. \A k : Kind(k) \in Log BY DEF Kind, Log
  <2>3. \A e \in registered : Kind(e.key) \notin fumbled => log[Kind(e.key)] # None /\ e \in log[Kind(e.key)]
    BY <2>2 DEF VisitInv, LogsInv, LogHolds
  <2>4. \A d, e \in registered : d # e /\ d.key = e.key => d.key \in Teachers \union fumbled
    BY DEF VisitInv, VisitData, CouponsInv, CouponHolds, Keys
  <2> QED BY <2>1, <2>3, <2>4 DEF RegistrationsHold
<1> QED BY <1>1, <1>2, <1>3, PTL DEF Spec
=============================================================================
