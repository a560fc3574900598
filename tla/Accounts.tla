------------------------------ MODULE Accounts ------------------------------
(***************************************************************************)
(* The users and their sessions: UserService (users, Gd students,          *)
(* invitations), SessionService, and the handlers that register a user,    *)
(* log him in, and change what is known of him.                            *)
(*                                                                         *)
(* A user has a row, a hash of fields, and an entry in the index of names  *)
(* or of Gd students; logging in reads the cache alone.  A session is one  *)
(* hash for each user, with a token for each kind of client.  Every        *)
(* request but the first replaces the token that it was sent with, and the *)
(* answer brings the client the next one.                                  *)
(***************************************************************************)
EXTENDS Handlers

CONSTANTS
  Users,      \* ids of TABLE_USER, in the order in which they are handed out
  First, Admin, \* the user there is, and his row
  Clients,    \* browsers, apps and Weixin clients
  AppOf,      \* by client: "web", "app" or "weixin"
  Guests,     \* ids of experience users, which have a session and no row
  Names, Passwords, Nicknames, Students, Invitations

Apps   == {"web", "app", "weixin"}
Groups == {"student", "teacher", "keeper", "assistant", "system"}
Fields == {"pwd", "nick", "group", "student"}

NotAllowed == "not allowed"
Empty      == ""

\* Session tokens are random.  A new one differs from all that are in use.
Tokens == 0..2 * Cardinality(Clients) + Cardinality(Procs)

VARIABLES
  users,      \* rows, None for an id not handed out; with the invitation used
  userHash,   \* fields of the users' hashes, None for a field that is missing
  nameIndex, studentIndex,
  invitations, \* the group each invitation that is left gives
  session,    \* by user: group, nickname and a token for each app, or None
  held,       \* by client: the user it is logged in as, and its token
  displaced,  \* history: clients that did not wait for an answer, missed one, or
              \* met another client of the same user and kind
  contested,  \* history: names, students, invitations that two requests or a failure met
  mixed       \* history: <<user, field>> whose writes overlapped or failed

userRows  == <<users, userHash, nameIndex, studentIndex, invitations, contested, mixed>>
tokenVars == <<session, held, displaced>>
accounts  == <<userRows, tokenVars>>

User(name, pwd, nick, group, student, invite) ==
  [name |-> name, pwd |-> pwd, nick |-> nick, group |-> group, student |-> student, invite |-> invite]

NoHash   == [f \in Fields |-> None]
Live     == {u \in Users : users[u] # None}
NextUser(u) == u \notin Live /\ \A v \in Users \ Live : u <= v

\* One user, who administers the site, in the cache and without a session.
AccountsInit ==
  /\ users = [u \in Users |-> IF u = First THEN Admin ELSE None]
  /\ userHash = [u \in Users |-> IF u = First THEN [f \in Fields |-> Admin[f]] ELSE NoHash]
  /\ nameIndex = [n \in Names |-> IF n = Admin.name THEN First ELSE None]
  /\ studentIndex = [s \in Students |-> None]
  /\ invitations = [i \in Invitations |-> None]
  /\ session = [u \in Users \union Guests |-> None]
  /\ held = [c \in Clients |-> None]
  /\ displaced = {} /\ contested = {} /\ mixed = {}

-----------------------------------------------------------------------------
(* What is asked.  Requests of the first two kinds need no session: those  *)
(* that get one, and those that have no use for one.                       *)

Logins    == {"login", "loginGd", "pass"}
Visits    == {"try", "enter"}   \* of Experience: they end with a session as a login does
Open      == {"register", "enrolLan"}
Sessioned == {"use", "password", "profile", "rename", "resync", "invite", "uninvite", "enrol"}
UserOps   == Logins \union Open \union Sessioned

\* What a handler keeps of the session and of the user it works on.
Nobody == [user |-> None, token |-> None, new |-> None, group |-> None, nick |-> None,
           info |-> None]

\* The sender of p's request, if it is to get a token.
Client(p) == IF Busy(p) /\ req[p].op \in Logins \union Visits \union Sessioned THEN req[p].client ELSE None

\* The role that the handler checks.
RoleFor(r) ==
  CASE r.op \in {"password", "profile"} -> "user"
    [] r.op = "rename"                   -> "teacher"
    [] r.op \in {"resync", "enrol"}      -> "assistant"
    [] r.op \in {"invite", "uninvite"}   -> "system"
    [] r.op = "use"                      -> r.role

\* IsStudent, IsKeeperOrAbove, IsTeacherOrAbove, IsAssistantOrAbove, IsSystem.
Allows(role, group) ==
  CASE role = "user"      -> TRUE
    [] role = "student"   -> group \in {"student", "system"}
    [] role = "keeper"    -> group \notin {"student", "teacher"}
    [] role = "teacher"   -> group # "student"
    [] role = "assistant" -> group \notin {"student", "teacher", "keeper"}
    [] role = "system"    -> group = "system"

Come(p, op, label) == Start(p, op, label, Nobody) /\ UNCHANGED accounts

\* The request carries the token that the client holds when it sends it.
Send(p, ops) ==
  /\ Idle(p) /\ Goto(p, "check")
  /\ \E r \in Calls :
       /\ r.op \in ops /\ held[r.client] # None
       /\ req'  = [req EXCEPT ![p] = r]
       /\ seen' = [seen EXCEPT ![p] =
                     [Nobody EXCEPT !.user = held[r.client].user, !.token = held[r.client].token]]
  /\ UNCHANGED accounts

onHttpRegister(p)       == Come(p, "register", "name")
onHttpLogin(p)          == Come(p, "login", "login")
onHttpLoginAsGdUser(p)  == Come(p, "loginGd", "login")
\* The Gd server vouches for the student, by a ticket or by a third party's id.
onHttpLoginAsGdStudent(p) == Come(p, "pass", "student")

onHttpChangePassword(p)  == Send(p, {"password"})
onHttpChangeProfile(p)   == Send(p, {"profile"})
onHttpResyncGdStudentName(p)     == Send(p, {"resync"})
onHttpGenerateInvitationToken(p) == Send(p, {"invite"})
onHttpDeleteInvitationToken(p)   == Send(p, {"uninvite"})
\* From the servers of the same network it needs no session.
onHttpClassAddGdStudent(p)       == Send(p, {"enrol"}) \/ Come(p, "enrolLan", "student")
onHttpClassRemarkStudent(p)      == Send(p, {"rename"})
\* Any other handler that checks a session: what it does is in other modules.
OtherHandler(p)          == Send(p, {"use"})

\* What a user is called: what he or a teacher asked for, his name, or what a student has
\* until then.
AnyNick == Nicknames \union Names \union {NotAllowed, Empty}
UserRow == [name : Names \union {NotAllowed}, pwd : Passwords \union {NotAllowed}, nick : AnyNick,
            group : Groups, student : Students \union {None}, invite : Invitations \union {None}]

ASSUME AdminIsUser     == First \in Users /\ Admin \in UserRow
ASSUME ClientsHaveApps == AppOf \in [Clients -> Apps]
ASSUME NoGuestIsUser   == Users \intersect Guests = {}
ASSUME NoneIsNoUser    ==
  None \notin Users \union Guests \union Clients \union Tokens \union UserRow \union AnyNick \union Groups
ASSUME RequestsOfUsers ==
  \A s \in DOMAIN Scenes : \A r \in Scenes[s].calls :
    /\ r.op \in Logins \union Visits \union Sessioned => r.client \in Clients
    /\ r.op \in {"login", "loginGd", "register"}     => r.name \in Names
    /\ r.op \in {"pass", "loginGd", "enrol", "enrolLan"} => r.student \in Students
    /\ r.op = "register" => r.pwd \in Passwords /\ r.invite \in Invitations
    /\ r.op = "password" => r.pwd \in Passwords /\ r.old # None
    /\ r.op \in {"profile", "rename", "resync"} => r.nick \in Nicknames
    /\ r.op \in {"enrol", "enrolLan"} => r.nick \in Nicknames \union {None}
    /\ r.op \in {"rename", "resync"}  => r.user \in Users
    /\ r.op = "invite" => r.group \in Groups

-----------------------------------------------------------------------------
(* SessionService.                                                         *)

Sends(p, c) == Client(p) = c

\* Clients of one kind that are logged in as u or about to be.
As(u, app) ==
  {c \in Clients : /\ AppOf[c] = app
                   /\ \/ held[c] # None /\ held[c].user = u
                      \/ \E q \in Procs : Sends(q, c) /\ seen[q].user = u}

\* Clients of p's user and kind other than p's own, and p's own if it sent more.
Rivals(p) ==
  LET c == Client(p) IN
  (As(seen[p].user, AppOf[c]) \ {c}) \union {d \in {c} : \E q \in Procs \ {p} : Sends(q, c)}

\* The first of those that are not in use.
NewToken(p, t) ==
  LET a     == AppOf[Client(p)]
      u     == seen[p].user
      inUse == {held[c].token : c \in {d \in Clients : held[d] # None /\ held[d].user = u /\ AppOf[d] = a}}
                 \union {seen[q].token : q \in {r \in Procs : Client(r) # None /\ seen[r].user = u}}
                 \union (IF session[u] = None THEN {} ELSE {session[u].token[a]})
  IN t \notin inUse /\ \A s \in Tokens \ inUse : t <= s

\* The token of the request must be that of the kind of client, the role the handler's.
GetHttpSession(p) ==
  LET u == seen[p].user
      s == session[u]
  IN
  /\ At(p, "check", Sessioned)
  /\ IF s # None /\ s.token[AppOf[Client(p)]] = seen[p].token /\ Allows(RoleFor(req[p]), s.group)
     THEN On(p, "rotate")
     ELSE Return(p)
  /\ UNCHANGED accounts

Then(p) ==
  CASE req[p].op = "use"      -> "answer"
    [] req[p].op = "password" -> "old"
    [] req[p].op = "profile"  -> "nickCache"
    [] req[p].op = "rename"   -> "class"
    [] req[p].op = "resync"   -> "studentOf"
    [] req[p].op = "enrol"    -> "student"
    [] OTHER                  -> req[p].op

\* Mutant: the new token of an app or of Weixin is stored as the browser's.
UpdateHttpSessionWeb(p) ==
  LET u == seen[p].user IN
  /\ At(p, "rotate", Sessioned)
  /\ \E t \in Tokens :
       /\ NewToken(p, t)
       /\ session' = [session EXCEPT ![u].token["web"] = t]
       /\ With(p, Then(p), [seen[p] EXCEPT !.token = t])
  /\ displaced' = displaced \union Rivals(p)
  /\ UNCHANGED <<userRows, held>>

UpdateHttpSession(p) ==
  LET u == seen[p].user IN
  /\ At(p, "rotate", Sessioned)
  /\ \E t \in Tokens :
       /\ NewToken(p, t)
       /\ session' = [session EXCEPT ![u].token[AppOf[Client(p)]] = t]
       /\ With(p, Then(p), [seen[p] EXCEPT !.token = t])
  /\ displaced' = displaced \union Rivals(p)
  /\ UNCHANGED <<userRows, held>>

\* The session of a user who is logged in twice is one: its group and nickname are
\* those of the later login.  LoginAsGdUser makes a student of everybody.
SetHttpSession(p) ==
  LET u == seen[p].user
      a == AppOf[Client(p)]
  IN
  /\ At(p, "session", Logins \union Visits)
  /\ \E t \in Tokens :
       /\ NewToken(p, t) /\ With(p, "answer", [seen[p] EXCEPT !.token = t])
       /\ \/ /\ session' = [session EXCEPT ![u] =
                  [group |-> IF req[p].op = "login" THEN seen[p].group ELSE "student",
                   nick  |-> seen[p].nick,
                   token |-> [b \in Apps |-> IF b = a THEN t ELSE IF @ = None THEN None ELSE @.token[b]]]]
             /\ displaced' = (displaced \ {Client(p)}) \union Rivals(p)
          \/ CanFail /\ displaced' = displaced \union {Client(p)} /\ UNCHANGED session
  /\ UNCHANGED <<userRows, held>>

Answer(p) ==
  /\ At(p, "answer", UserOps \union Visits) /\ Return(p)
  /\ held' = [held EXCEPT ![Client(p)] = [user |-> seen[p].user, token |-> seen[p].token]]
  /\ UNCHANGED <<userRows, session, displaced>>

\* The connection broke, or the server stopped.
LoseAnswer(p) ==
  /\ CanFail /\ At(p, "answer", UserOps \union Visits) /\ Return(p)
  /\ displaced' = displaced \union {Client(p)}
  /\ UNCHANGED <<userRows, session, held>>

-----------------------------------------------------------------------------
(* Login: the index of names, then the hash; the rows are never read.      *)

LoginIndex(p) ==
  LET u == nameIndex[req[p].name] IN
  /\ At(p, "login", {"login", "loginGd"})
  /\ IF u # None
     THEN With(p, "hash", [Nobody EXCEPT !.user = u])
     ELSE IF req[p].op = "loginGd" THEN On(p, "gd") ELSE Return(p)
  /\ UNCHANGED accounts

LoginHash(p) ==
  LET h == userHash[seen[p].user] IN
  /\ At(p, "hash", {"login", "loginGd"})
  /\ IF h.pwd = req[p].pwd /\ h.group # None /\ h.nick # None
     THEN With(p, "session", [seen[p] EXCEPT !.group = h.group, !.nick = h.nick])
     ELSE IF req[p].op = "loginGd" THEN With(p, "gd", Nobody) ELSE Return(p)
  /\ UNCHANGED accounts

LoginGd(p) ==
  /\ At(p, "gd", {"loginGd"}) /\ (Return(p) \/ On(p, "student"))
  /\ UNCHANGED accounts

-----------------------------------------------------------------------------
(* Those who write a user's row and hash, one after the other.             *)

Enrols   == {"enrol", "enrolLan"}
Renames  == {"rename", "resync"} \union Enrols
Named(p) == IF req[p].op \in Enrols THEN seen[p].new ELSE req[p].user

\* The user whose hash p is about to write, between its first write and its last.
Writes(p) ==
  CASE At(p, "pwdRow", {"password"}) \/ At(p, "nickRow", {"profile"}) -> seen[p].user
    [] At(p, "remarked", Renames)                                     -> Named(p)
    [] Busy(p) /\ req[p].op \in Enrols \union {"register"}
         /\ pc[p] \in {"addIndex", "addHash", "index", "newHash"}       -> seen[p].new
    [] OTHER                                                          -> None

\* Another handler's writes of the same user are half done, or its check of the old
\* password is.
Overlap(p, u, field) ==
  \E q \in Procs \ {p} :
    Writes(q) = u \/ (field = "pwd" /\ At(q, "pwdCache", {"password"}) /\ seen[q].user = u)

Mark(p, u, field) == mixed' = IF Overlap(p, u, field) THEN mixed \union {<<u, field>>} ELSE mixed

-----------------------------------------------------------------------------
(* GetOrAddGdStudent, which adds one only for a class.                     *)

Asking == {"pass", "loginGd"} \union Enrols

Finish(p) == IF Client(p) = None THEN Return(p) ELSE On(p, "answer")

\* The user found is the one to log in, or to be renamed if the request brings a name
\* and to be enrolled, see ClassRoster.
Found(p, u, nick) ==
  IF req[p].op \notin Enrols
  THEN With(p, "session", [Nobody EXCEPT !.user = u, !.nick = nick])
  ELSE IF req[p].nick # None THEN With(p, "remark", [seen[p] EXCEPT !.new = u]) ELSE Finish(p)

StudentHit(p) ==
  LET u == studentIndex[req[p].student] IN
  /\ At(p, "student", Asking) /\ u # None
  /\ Found(p, u, IF userHash[u].nick = None THEN NotAllowed ELSE userHash[u].nick)
  /\ UNCHANGED accounts

\* The SELECT, then the index.  Not to get an entry of the index is to have none.
StudentRow(p) ==
  LET s == req[p].student IN
  /\ At(p, "student", Asking) /\ (studentIndex[s] = None \/ CanFail)
  /\ \E u \in Live :
       /\ users[u].student = s
       /\ With(p, "fill", [seen[p] EXCEPT
                  !.new = u, !.nick = IF users[u].nick = NotAllowed THEN Empty ELSE users[u].nick])
  /\ UNCHANGED accounts

StudentFill(p) ==
  /\ At(p, "fill", Asking) /\ Found(p, seen[p].new, seen[p].nick)
  /\ studentIndex' = [studentIndex EXCEPT ![req[p].student] = seen[p].new]
  /\ UNCHANGED <<users, userHash, nameIndex, invitations, contested, mixed, tokenVars>>

StudentNone(p) ==
  LET s == req[p].student IN
  /\ At(p, "student", Asking) /\ studentIndex[s] = None
  /\ \A u \in Live : users[u].student # s
  /\ IF req[p].op \in Enrols THEN On(p, "add") ELSE Return(p)
  /\ contested' = IF \E q \in Procs \ {p} : At(q, "add", Enrols) /\ req[q].student = s
                  THEN contested \union {s} ELSE contested
  /\ UNCHANGED <<users, userHash, nameIndex, studentIndex, invitations, mixed, tokenVars>>

\* The users are as many as the scene allows.
AddStudent(p) ==
  /\ At(p, "add", Enrols) /\ Cardinality(Live) < Scenes[scene].users
  /\ \E u \in Users :
       /\ NextUser(u)
       /\ users' = [users EXCEPT ![u] =
                      User(NotAllowed, NotAllowed, NotAllowed, "student", req[p].student, None)]
       /\ With(p, "addIndex", [seen[p] EXCEPT !.new = u]) /\ Mark(p, u, "nick")
  /\ UNCHANGED <<userHash, nameIndex, studentIndex, invitations, contested, tokenVars>>

AddStudentIndex(p) ==
  /\ At(p, "addIndex", Enrols) /\ On(p, "addHash")
  /\ studentIndex' = [studentIndex EXCEPT ![req[p].student] = seen[p].new]
  /\ UNCHANGED <<users, userHash, nameIndex, invitations, contested, mixed, tokenVars>>

AddStudentHash(p) ==
  /\ At(p, "addHash", Enrols) /\ Found(p, seen[p].new, Empty)
  /\ userHash' = [userHash EXCEPT ![seen[p].new] =
       [pwd |-> NotAllowed, nick |-> NotAllowed, group |-> "student", student |-> req[p].student]]
  /\ UNCHANGED <<users, nameIndex, studentIndex, invitations, contested, mixed, tokenVars>>

-----------------------------------------------------------------------------
(* Invitations and the users who register with them.                       *)

GenerateInvitationToken(p) ==
  /\ At(p, "invite", {"invite"}) /\ On(p, "answer")
  /\ \E i \in Invitations :
       /\ invitations[i] = None /\ \A u \in Live : users[u].invite # i
       /\ \A q \in Procs : Busy(q) /\ req[q].op = "register" /\ pc[q] # "name" => req[q].invite # i
       /\ invitations' = [invitations EXCEPT ![i] = req[p].group]
  /\ UNCHANGED <<users, userHash, nameIndex, studentIndex, contested, mixed, tokenVars>>

DeleteInvitationToken(p) ==
  /\ At(p, "uninvite", {"uninvite"}) /\ On(p, "answer")
  /\ invitations' = [invitations EXCEPT ![req[p].invite] = None]
  /\ UNCHANGED <<users, userHash, nameIndex, studentIndex, contested, mixed, tokenVars>>

\* Another registration of the name is past the look-up and not in the index yet.
Registering(p) ==
  \E q \in Procs \ {p} : /\ pc[q] \in {"invitation", "use", "insert", "index"}
                         /\ req[q].op = "register" /\ req[q].name = req[p].name

\* Mutant: whether the name is taken is not looked up.
CheckNameNot(p) ==
  /\ At(p, "name", {"register"}) /\ On(p, "invitation")
  /\ UNCHANGED accounts

\* A failure to ask is taken for a name that is free.
CheckName(p) ==
  LET n == req[p].name IN
  /\ At(p, "name", {"register"})
  /\ \/ nameIndex[n] # None /\ Return(p) /\ UNCHANGED contested
     \/ /\ nameIndex[n] = None /\ On(p, "invitation")
        /\ contested' = IF Registering(p) THEN contested \union {n} ELSE contested
     \/ CanFail /\ On(p, "invitation") /\ contested' = contested \union {n}
  /\ UNCHANGED <<users, userHash, nameIndex, studentIndex, invitations, mixed, tokenVars>>

GetInvitation(p) ==
  LET i == req[p].invite IN
  /\ At(p, "invitation", {"register"})
  /\ IF invitations[i] = None
     THEN Return(p) /\ UNCHANGED contested
     ELSE /\ With(p, "use", [Nobody EXCEPT !.group = invitations[i]])
          /\ contested' = IF \E q \in Procs \ {p} : At(q, "use", {"register"}) /\ req[q].invite = i
                          THEN contested \union {i} ELSE contested
  /\ UNCHANGED <<users, userHash, nameIndex, studentIndex, invitations, mixed, tokenVars>>

UseInvitationToken(p) ==
  /\ At(p, "use", {"register"}) /\ On(p, "insert")
  /\ invitations' = [invitations EXCEPT ![req[p].invite] = None]
  /\ UNCHANGED <<users, userHash, nameIndex, studentIndex, contested, mixed, tokenVars>>

\* The name is the nickname, too.
AddUser(p) ==
  LET r == req[p] IN
  /\ At(p, "insert", {"register"}) /\ Cardinality(Live) < Scenes[scene].users
  /\ \E u \in Users :
       /\ NextUser(u)
       /\ users' = [users EXCEPT ![u] = User(r.name, r.pwd, r.name, seen[p].group, None, r.invite)]
       /\ With(p, "index", [seen[p] EXCEPT !.new = u]) /\ Mark(p, u, "nick")
  /\ UNCHANGED <<userHash, nameIndex, studentIndex, invitations, contested, tokenVars>>

AddUserIndex(p) ==
  /\ At(p, "index", {"register"}) /\ On(p, "newHash")
  /\ nameIndex' = [nameIndex EXCEPT ![req[p].name] = seen[p].new]
  /\ UNCHANGED <<users, userHash, studentIndex, invitations, contested, mixed, tokenVars>>

AddUserHash(p) ==
  LET u == seen[p].new IN
  /\ At(p, "newHash", {"register"}) /\ Return(p)
  /\ userHash' = [userHash EXCEPT ![u] =
       [@ EXCEPT !.pwd = req[p].pwd, !.nick = req[p].name, !.group = users[u].group]]
  /\ UNCHANGED <<users, nameIndex, studentIndex, invitations, contested, mixed, tokenVars>>

-----------------------------------------------------------------------------
(* ChangePassword and ChangeProfile write the cache first, Remark the row. *)

\* Mutant: the old password is not compared with the one of the hash.
CheckOldPasswordNot(p) ==
  /\ At(p, "old", {"password"}) /\ On(p, "pwdCache")
  /\ UNCHANGED accounts

CheckOldPassword(p) ==
  /\ At(p, "old", {"password"})
  /\ On(p, IF userHash[seen[p].user].pwd = req[p].old THEN "pwdCache" ELSE "answer")
  /\ UNCHANGED accounts

ChangePasswordCache(p) ==
  LET u == seen[p].user IN
  /\ At(p, "pwdCache", {"password"}) /\ On(p, "pwdRow")
  /\ userHash' = [userHash EXCEPT ![u].pwd = req[p].pwd] /\ Mark(p, u, "pwd")
  /\ UNCHANGED <<users, nameIndex, studentIndex, invitations, contested, tokenVars>>

\* UPDATE ... WHERE the password is the old one, whether it matches a row or not.
ChangePasswordRow(p) ==
  LET u == seen[p].user IN
  /\ At(p, "pwdRow", {"password"}) /\ On(p, "answer")
  /\ users' = IF users[u].pwd = req[p].old THEN [users EXCEPT ![u].pwd = req[p].pwd] ELSE users
  /\ UNCHANGED <<userHash, nameIndex, studentIndex, invitations, contested, mixed, tokenVars>>

ChangeProfileCache(p) ==
  LET u == seen[p].user IN
  /\ At(p, "nickCache", {"profile"}) /\ On(p, "nickRow")
  /\ userHash' = [userHash EXCEPT ![u].nick = req[p].nick] /\ Mark(p, u, "nick")
  /\ UNCHANGED <<users, nameIndex, studentIndex, invitations, contested, tokenVars>>

\* A mail or a number that is too long is found out only now.
ChangeProfileRow(p) ==
  LET u == seen[p].user IN
  /\ At(p, "nickRow", {"profile"})
  /\ IF req[p].long
     THEN On(p, "answer") /\ mixed' = mixed \union {<<u, "nick">>} /\ UNCHANGED users
     ELSE On(p, "nickSession") /\ users' = [users EXCEPT ![u].nick = req[p].nick] /\ UNCHANGED mixed
  /\ UNCHANGED <<userHash, nameIndex, studentIndex, invitations, contested, tokenVars>>

UpdateSessionNickname(p) ==
  LET u == seen[p].user IN
  /\ At(p, "nickSession", {"profile"}) /\ On(p, "answer")
  /\ session' = [session EXCEPT ![u].nick = req[p].nick]
  /\ UNCHANGED <<userRows, held, displaced>>

\* QueryGdStudentID: from the hash, or from the row, filling one field of the hash; then
\* the Gd server gives the name, or fails to.
QueryGdStudentID(p) ==
  LET u == req[p].user IN
  /\ At(p, "studentOf", {"resync"})
  /\ IF userHash[u].student = None /\ users[u] = None
     THEN On(p, "answer") /\ UNCHANGED userHash
     ELSE /\ (On(p, "remark") \/ On(p, "answer"))
          /\ userHash' = IF userHash[u].student # None THEN userHash
                         ELSE [userHash EXCEPT ![u].student = users[u].student]
  /\ UNCHANGED <<users, nameIndex, studentIndex, invitations, contested, mixed, tokenVars>>

\* The class may have no such member; or one who is no user yet: an id that is made a
\* member is not looked up.
CheckMember(p) ==
  /\ At(p, "class", {"rename"}) /\ (On(p, "remark") \/ On(p, "answer"))
  /\ UNCHANGED accounts

RemarkRow(p) ==
  LET u == Named(p) IN
  /\ At(p, "remark", Renames) /\ On(p, "remarked")
  /\ users' = IF users[u] = None THEN users ELSE [users EXCEPT ![u].nick = req[p].nick]
  /\ Mark(p, u, "nick")
  /\ UNCHANGED <<userHash, nameIndex, studentIndex, invitations, contested, tokenVars>>

RemarkHash(p) ==
  /\ At(p, "remarked", Renames) /\ Finish(p)
  /\ userHash' = [userHash EXCEPT ![Named(p)].nick = req[p].nick]
  /\ UNCHANGED <<users, nameIndex, studentIndex, invitations, contested, mixed, tokenVars>>

-----------------------------------------------------------------------------
(* A statement or a cache command fails and its error is answered, with    *)
(* the new token if there is one.                                          *)

AccountFails(p) ==
  /\ CanFail /\ Busy(p) /\ req[p].op \in UserOps /\ pc[p] \notin {"answer", "session"}
  /\ CASE req[p].op = "loginGd" /\ pc[p] \in {"login", "hash"}       -> With(p, "gd", Nobody)
       [] req[p].op \in Sessioned /\ pc[p] \notin {"check", "rotate"} -> On(p, "answer")
       [] OTHER                                                      -> Return(p)
  /\ mixed' = IF Writes(p) = None THEN mixed ELSE mixed \union {Writes(p)} \X {"pwd", "nick"}
  /\ contested' = IF pc[p] = "index" THEN contested \union {req[p].name} ELSE contested
  /\ UNCHANGED <<users, userHash, nameIndex, studentIndex, invitations, tokenVars>>

AccountsStep(p) ==
  \/ onHttpRegister(p) \/ onHttpLogin(p) \/ onHttpLoginAsGdUser(p) \/ onHttpLoginAsGdStudent(p)
  \/ onHttpChangePassword(p) \/ onHttpChangeProfile(p) \/ onHttpResyncGdStudentName(p)
  \/ onHttpGenerateInvitationToken(p) \/ onHttpDeleteInvitationToken(p)
  \/ onHttpClassAddGdStudent(p) \/ onHttpClassRemarkStudent(p) \/ OtherHandler(p)
  \/ GetHttpSession(p) \/ UpdateHttpSession(p) \/ SetHttpSession(p) \/ Answer(p) \/ LoseAnswer(p)
  \/ LoginIndex(p) \/ LoginHash(p) \/ LoginGd(p)
  \/ StudentHit(p) \/ StudentRow(p) \/ StudentFill(p) \/ StudentNone(p)
  \/ AddStudent(p) \/ AddStudentIndex(p) \/ AddStudentHash(p)
  \/ GenerateInvitationToken(p) \/ DeleteInvitationToken(p)
  \/ CheckName(p) \/ GetInvitation(p) \/ UseInvitationToken(p)
  \/ AddUser(p) \/ AddUserIndex(p) \/ AddUserHash(p)
  \/ CheckOldPassword(p) \/ ChangePasswordCache(p) \/ ChangePasswordRow(p)
  \/ ChangeProfileCache(p) \/ ChangeProfileRow(p) \/ UpdateSessionNickname(p)
  \/ QueryGdStudentID(p) \/ CheckMember(p) \/ RemarkRow(p) \/ RemarkHash(p)
  \/ AccountFails(p)

-----------------------------------------------------------------------------
(* Properties.                                                             *)

\* A client stays logged in: the token of the last answer it got is the one that its
\* next request needs.  It is thrown out only when it sent a request before the answer
\* to another, when an answer was lost, or when another client of the same kind logged
\* in as the same user.
SessionsStay ==
  \A c \in Clients \ displaced :
    (held[c] # None /\ \A p \in Procs : ~Sends(p, c)) =>
      /\ session[held[c].user] # None
      /\ session[held[c].user].token[AppOf[c]] = held[c].token

\* What Login compares and shows is what the row has.  ChangePassword and ChangeProfile
\* write the hash before the row and Remark after it, the UPDATE of the password may
\* match no row: they differ only where two of them overlapped, one failed halfway, or a
\* Remark of an id overlapped the INSERT of its user.
HashFollowsRow ==
  \A u \in Live, f \in {"pwd", "nick"} :
    userHash[u][f] \in {None, users[u][f]} \/ <<u, f>> \in mixed \/ \E p \in Procs : Writes(p) = u

\* A name, a Gd student and an invitation have one user each: none of the three is
\* unique in the table, and each is looked up before the INSERT.  They have two only if
\* two requests looked at the same time, or the INSERT was not followed by the index.
OneUserEach ==
  \A u, v \in Live : u # v =>
    /\ users[u].name = users[v].name       => users[u].name \in contested \union {NotAllowed}
    /\ users[u].student = users[v].student => users[u].student \in contested \union {None}
    /\ users[u].invite = users[v].invite   => users[u].invite \in contested \union {None}
=============================================================================
