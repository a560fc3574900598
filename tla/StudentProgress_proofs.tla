------------------------ MODULE StudentProgress_proofs ------------------------
(* Theorems about StudentProgress, for any users, contents and handlers. *)
EXTENDS StudentProgress, FiniteSetTheorems, TLAPS

(***************************************************************************)
(* What every proof needs: where a handler is, what it may hold there, and *)
(* that the row it will commit is the row that is there and its change.    *)
(***************************************************************************)

Labels == {"idle", "get", "fillMeeting", "look", "fill", "do", "commit", "tally", "cacheSeen",
           "cacheReplay", "cacheMark", "count", "countCache", "feedback", "save", "store", "clear"}

Typed ==
  /\ scene \in DOMAIN Scenes
  /\ row \in [Students -> Progress] /\ meeting \in Counts
  /\ hash \in [Users -> Progress \union {None}] /\ cMeeting \in Counts \union {None}
  /\ temp \in [Users -> SUBSET Questions]
  /\ lockR \in [Students -> Procs \union {None}] /\ lockM \in Procs \union {None}
  /\ pc \in [Procs -> Labels] /\ req \in [Procs -> Request]
  /\ seen \in [Procs -> Progress \union Counts] /\ tx \in [Procs -> Progress]
  /\ answers \in [Procs -> SUBSET Questions]

\* The calls that come to a label, and what they have read.
Fits(p) ==
  /\ pc[p] \in {"get", "fillMeeting"} => req[p].op # "replay"
  /\ pc[p] \in {"get", "fillMeeting", "look", "fill"} => req[p].op # "question"
  /\ pc[p] = "commit" => req[p].op \in {"courseware", "video", "score", "exam"}
  /\ pc[p] \in {"tally", "feedback"} => req[p].op = "score"
  /\ pc[p] = "cacheSeen" => req[p].op = "video" /\ req[p].user \in Students
  /\ pc[p] = "cacheReplay" => req[p].op = "replay"
  /\ pc[p] = "cacheMark" => req[p].op \in {"beat", "leave"}
  /\ pc[p] \in {"count", "countCache"} => req[p].op = "beat" /\ FirstTime(p)
  /\ pc[p] \in {"save", "store", "clear"} => req[p].op = "exam" /\ req[p].user \in Students
  /\ req[p].op = "leave" => req[p].seconds \in {-1, 0}
  /\ IF pc[p] = "fillMeeting" THEN seen[p] \in Counts
     ELSE pc[p] \notin {"commit", "feedback", "save", "store", "clear"} => seen[p] \in Progress

\* Whoever is in a transaction holds the lock of its student's row, and nobody else does.
InRow(p)     == pc[p] \in {"tally", "commit"}
InMeeting(p) == pc[p] = "commit" /\ req[p].op = "score"

Locked ==
  /\ \A p \in Procs : InRow(p) => req[p].user \in Students /\ lockR[req[p].user] = p
  /\ \A u \in Students : \A p \in Procs : lockR[u] = p => InRow(p) /\ req[p].user = u
  /\ \A p \in Procs : InMeeting(p) <=> lockM = p

Changed(p) ==
  LET r == req[p]  old == row[r.user] IN
  CASE r.op = "score" -> [old EXCEPT !.scored = TRUE]
    [] r.op = "exam"  -> [old EXCEPT !.exams = @ \union {r.exam}, !.total = @ + 1]
    [] OTHER          -> [old EXCEPT !.seen = @ \union {r.item}]

Writing ==
  /\ \A p \in Procs : InRow(p) => tx[p] = Changed(p)
  /\ \A p \in Procs : InMeeting(p) => seen[p] = [meeting EXCEPT !.scores = @ + 1]

CallInv == Typed /\ (\A p \in Procs : Fits(p)) /\ Locked /\ Writing
LEMMA Records ==
  /\ AnyRequest \in Request /\ (AnyRequest.op = "leave" => AnyRequest.seconds \in {-1, 0})
  /\ Blank \in Progress /\ NoCounts \in Counts
<1>1. \E r : r \in UNION {Scenes[s].calls : s \in DOMAIN Scenes}
  <2>1. PICK s \in DOMAIN Scenes : Scenes[s].calls # {} BY ScenesAreScenes
  <2> QED BY <2>1
<1>2. AnyRequest \in UNION {Scenes[s].calls : s \in DOMAIN Scenes} BY <1>1 DEF AnyRequest
<1>3. PICK s \in DOMAIN Scenes : AnyRequest \in Scenes[s].calls BY <1>2
<1> QED BY <1>3, ScenesAreScenes DEF Blank, Progress, Marks, NoCounts, Counts

LEMMA CallInit == Init => CallInv
<1> SUFFICES ASSUME Init PROVE CallInv OBVIOUS
<1>1. /\ scene \in DOMAIN Scenes /\ row = [u \in Students |-> Blank] /\ meeting = NoCounts
      /\ temp = [u \in Users |-> {}]
      /\ lockR = [u \in Students |-> None] /\ lockM = None
      /\ pc = [p \in Procs |-> "idle"] /\ req = [p \in Procs |-> AnyRequest]
      /\ seen = [p \in Procs |-> Blank] /\ tx = [p \in Procs |-> Blank] /\ answers = [p \in Procs |-> {}]
  BY DEF Init
<1>2. hash \in [Users -> Progress \union {None}] /\ cMeeting \in Counts \union {None}
  <2>1. PICK C : hash = [u \in Users |-> IF u \in C THEN Blank ELSE None] BY DEF Init
  <2>2. cMeeting \in {None, NoCounts} BY DEF Init
  <2> QED BY <2>1, <2>2, Records
<1>3. Typed BY <1>1, <1>2, Records DEF Typed, Labels
<1>4. \A p \in Procs : Fits(p) BY <1>1, Records DEF Fits
<1>5. Locked /\ Writing BY <1>1, NoneIsNoHash DEF Locked, Writing, InRow, InMeeting
<1> QED BY <1>3, <1>4, <1>5 DEF CallInv

\* A step of one handler leaves the others what they have.
Alone(p) ==
  /\ scene' = scene
  /\ \A q \in Procs \ {p} : /\ pc'[q] = pc[q] /\ req'[q] = req[q] /\ seen'[q] = seen[q]
                            /\ tx'[q] = tx[q] /\ answers'[q] = answers[q]

LEMMA Stepping ==
  ASSUME CallInv, Typed', NEW p \in Procs, Alone(p), Fits(p)',
         \A u \in Students : lockR'[u] # lockR[u] => lockR[u] \in {p, None} /\ lockR'[u] \in {p, None},
         lockM' # lockM => lockM \in {p, None} /\ lockM' \in {p, None},
         \A u \in Students : row'[u] # row[u] => lockR[u] \in {p, None},
         meeting' # meeting => lockM \in {p, None},
         InRow(p)' => (req[p].user \in Students /\ lockR[req[p].user] = p /\ tx[p] = Changed(p))',
         \A u \in Students : lockR'[u] = p => InRow(p)' /\ req'[p].user = u,
         InMeeting(p)' <=> lockM' = p,
         InMeeting(p)' => (seen[p] = [meeting EXCEPT !.scores = @ + 1])'
  PROVE  CallInv'
<1>1. \A q \in Procs \ {p} : /\ pc'[q] = pc[q] /\ req'[q] = req[q] /\ seen'[q] = seen[q] /\ tx'[q] = tx[q]
                             /\ q # None
  BY NoneIsNoHash DEF Alone
<1>2. \A q \in Procs : Fits(q)'
  <2> SUFFICES ASSUME NEW q \in Procs \ {p} PROVE Fits(q)' OBVIOUS
  <2>1. FirstTime(q)' <=> FirstTime(q) BY <1>1 DEF FirstTime, Teaching, Alone
  <2>2. Fits(q) BY DEF CallInv
  <2> QED BY <1>1, <2>1, <2>2 DEF Fits
<1>3. \A q \in Procs \ {p} : (InRow(q)' <=> InRow(q)) /\ (InMeeting(q)' <=> InMeeting(q))
  BY <1>1 DEF InRow, InMeeting
<1>4. \A q \in Procs \ {p} : InRow(q) => req'[q].user \in Students /\ lockR'[req'[q].user] = q
  BY <1>1 DEF CallInv, Locked
<1>5. \A u \in Students : \A q \in Procs \ {p} : lockR'[u] = q => InRow(q) /\ req'[q].user = u
  BY <1>1 DEF CallInv, Locked
<1>6. \A q \in Procs \ {p} : InMeeting(q) <=> lockM' = q BY <1>1 DEF CallInv, Locked
<1>7. Locked'
  <2>1. \A q \in Procs : InRow(q)' => req'[q].user \in Students /\ lockR'[req'[q].user] = q BY <1>3, <1>4
  <2>2. \A u \in Students : \A q \in Procs : lockR'[u] = q => InRow(q)' /\ req'[q].user = u BY <1>3, <1>5
  <2>3. \A q \in Procs : InMeeting(q)' <=> lockM' = q BY <1>3, <1>6
  <2> QED BY <2>1, <2>2, <2>3 DEF Locked
<1>8. ASSUME NEW q \in Procs, InRow(q)' PROVE (tx[q] = Changed(q))'
  <2> SUFFICES ASSUME q # p PROVE (tx[q] = Changed(q))' BY <1>8
  <2>1. InRow(q) /\ tx[q] = Changed(q) BY <1>3, <1>8 DEF CallInv, Writing
  <2>2. req[q].user \in Students /\ lockR[req[q].user] = q BY <2>1 DEF CallInv, Locked
  <2>3. row'[req[q].user] = row[req[q].user] BY <1>1, <2>2
  <2> QED BY <1>1, <2>1, <2>3 DEF Changed
<1>9. ASSUME NEW q \in Procs, InMeeting(q)' PROVE (seen[q] = [meeting EXCEPT !.scores = @ + 1])'
  <2> SUFFICES ASSUME q # p PROVE (seen[q] = [meeting EXCEPT !.scores = @ + 1])' BY <1>9
  <2>1. InMeeting(q) /\ lockM = q BY <1>3, <1>9 DEF CallInv, Locked
  <2>2. meeting' = meeting BY <1>1, <2>1
  <2> QED BY <1>1, <2>1, <2>2 DEF CallInv, Writing
<1>10. Writing' BY <1>8, <1>9 DEF Writing
<1> QED BY <1>2, <1>7, <1>10 DEF CallInv

LEMMA Returning ==
  ASSUME Typed, NEW p \in Procs, Return(p)
  PROVE  /\ pc' \in [Procs -> Labels] /\ req' \in [Procs -> Request]
         /\ seen' \in [Procs -> Progress \union Counts] /\ tx' \in [Procs -> Progress]
         /\ answers' \in [Procs -> SUBSET Questions]
         /\ pc'[p] = "idle" /\ req'[p] = AnyRequest /\ seen'[p] = Blank
         /\ scene' = scene => Alone(p)
         /\ Fits(p)'
<1>1. {} \in SUBSET Questions OBVIOUS
<1>2. /\ pc' = [pc EXCEPT ![p] = "idle"] /\ req' = [req EXCEPT ![p] = AnyRequest]
      /\ seen' = [seen EXCEPT ![p] = Blank] /\ tx' = [tx EXCEPT ![p] = Blank]
      /\ answers' = [answers EXCEPT ![p] = {}]
  BY DEF Return, Goto
<1>3. /\ pc' \in [Procs -> Labels] /\ req' \in [Procs -> Request]
      /\ seen' \in [Procs -> Progress \union Counts] /\ tx' \in [Procs -> Progress]
      /\ answers' \in [Procs -> SUBSET Questions]
  BY <1>1, <1>2, Records DEF Typed, Labels
<1>4. pc'[p] = "idle" /\ req'[p] = AnyRequest /\ seen'[p] = Blank BY <1>2 DEF Typed
<1>5. scene' = scene => Alone(p) BY <1>2 DEF Typed, Alone
<1> QED BY <1>3, <1>4, <1>5, Records DEF Fits

\* A call that ends outside of a transaction.
LEMMA ReturnCall ==
  ASSUME CallInv, NEW p \in Procs, Return(p), ~InRow(p), UNCHANGED <<scene, row, meeting, lockR, lockM>>,
         hash' \in [Users -> Progress \union {None}], cMeeting' \in Counts \union {None},
         temp' \in [Users -> SUBSET Questions]
  PROVE  CallInv'
<1>1. Typed' BY Returning DEF CallInv, Typed
<1>2. Alone(p) /\ Fits(p)' /\ pc'[p] = "idle" BY Returning DEF CallInv
<1>3. ~InRow(p)' /\ ~InMeeting(p)' /\ ~InMeeting(p) BY <1>2 DEF InRow, InMeeting
<1>4. lockM' # p /\ \A u \in Students : lockR'[u] # p BY <1>3 DEF CallInv, Locked
<1> QED BY <1>1, <1>2, <1>3, <1>4, Stepping

\* A call that goes on outside of a transaction, and writes what nobody has locked.
LEMMA GoOnCall ==
  ASSUME CallInv, NEW p \in Procs, NEW l \in Labels \ {"tally", "commit"}, Goto(p, l), ~InRow(p),
         UNCHANGED <<scene, lockR, lockM, req, tx>>,
         row' \in [Students -> Progress], meeting' \in Counts,
         \A u \in Students : row'[u] # row[u] => lockR[u] = None,
         meeting' # meeting => lockM = None,
         hash' \in [Users -> Progress \union {None}], cMeeting' \in Counts \union {None}, UNCHANGED temp,
         UNCHANGED seen \/ \E s \in Progress \union Counts : seen' = [seen EXCEPT ![p] = s],
         UNCHANGED answers \/ \E A \in SUBSET Questions : answers' = [answers EXCEPT ![p] = A],
         pc'[p] = l => Fits(p)'
  PROVE  CallInv'
<1>1. pc' = [pc EXCEPT ![p] = l] BY DEF Goto
<1>2. pc' \in [Procs -> Labels] /\ pc'[p] = l /\ \A q \in Procs \ {p} : pc'[q] = pc[q]
  BY <1>1 DEF CallInv, Typed
<1>3. seen' \in [Procs -> Progress \union Counts] /\ \A q \in Procs \ {p} : seen'[q] = seen[q]
  BY DEF CallInv, Typed
<1>4. answers' \in [Procs -> SUBSET Questions] /\ \A q \in Procs \ {p} : answers'[q] = answers[q]
  BY DEF CallInv, Typed
<1>5. Typed' BY <1>2, <1>3, <1>4 DEF CallInv, Typed
<1>6. Alone(p) BY <1>2, <1>3, <1>4 DEF Alone
<1>7. ~InRow(p)' /\ ~InMeeting(p)' /\ ~InMeeting(p) BY <1>2 DEF InRow, InMeeting
<1>8. lockM' # p /\ \A u \in Students : lockR'[u] # p BY <1>7 DEF CallInv, Locked
<1> QED BY <1>2, <1>5, <1>6, <1>7, <1>8, Stepping

\* What the caches hold once one of their fields is written.
LEMMA SettingFields ==
  ASSUME Typed, NEW u \in Users
  PROVE  /\ \A X \in SUBSET Items : SetField(u, "seen", X) => hash' \in [Users -> Progress \union {None}]
         /\ SetField(u, "replay", TRUE) => hash' \in [Users -> Progress \union {None}]
         /\ SetField(u, "scored", TRUE) => hash' \in [Users -> Progress \union {None}]
         /\ \A m \in Marks : SetField(u, "mark", m) => hash' \in [Users -> Progress \union {None}]
<1>1. hash[u] \in Progress \union {None} BY DEF Typed
<1>2. ASSUME NEW X \in SUBSET Items PROVE Update(hash[u], "seen", X) \in Progress \union {None}
  BY <1>1 DEF Update, Progress
<1>3. /\ Update(hash[u], "replay", TRUE) \in Progress \union {None}
      /\ Update(hash[u], "scored", TRUE) \in Progress \union {None}
  BY <1>1 DEF Update, Progress
<1>4. ASSUME NEW m \in Marks PROVE Update(hash[u], "mark", m) \in Progress \union {None}
  BY <1>1 DEF Update, Progress
<1>5. ASSUME NEW h \in Progress \union {None}, hash' = [hash EXCEPT ![u] = h]
      PROVE  hash' \in [Users -> Progress \union {None}]
  BY <1>5 DEF Typed
<1> QED BY <1>2, <1>3, <1>4, <1>5 DEF SetField

LEMMA GetMeetingCall == ASSUME CallInv, NEW p \in Procs, GetMeeting(p) PROVE CallInv'
<1> USE DEF db, cache, locks, local, history
<1>1. Typed /\ Fits(p) /\ meeting \in Counts /\ req[p].op \in Ops BY DEF CallInv, Typed, Request
<1>2. CASE MeetingHit(p)
  <2>1. PICK l \in {"do", "look"} : Goto(p, l) /\ (l = "look" => req[p].op # "leave")
    BY <1>2 DEF MeetingHit, AfterMeeting
  <2>2. pc'[p] = l => Fits(p)' BY <1>1, <1>2, <2>1 DEF MeetingHit, Fits
  <2> QED BY <1>1, <1>2, <2>1, <2>2, GoOnCall DEF MeetingHit, Labels, Typed, InRow
<1>3. CASE MeetingMiss(p)
  <2>1. Goto(p, "fillMeeting") /\ seen' = [seen EXCEPT ![p] = meeting] BY <1>3 DEF MeetingMiss
  <2>2. seen'[p] = meeting BY <1>1, <2>1 DEF Typed
  <2>3. pc'[p] = "fillMeeting" => Fits(p)' BY <1>1, <1>3, <2>2 DEF MeetingMiss, Fits
  <2> QED BY <1>1, <1>3, <2>1, <2>3, GoOnCall DEF MeetingMiss, Labels, Typed, InRow
<1>4. CASE MeetingFill(p)
  <2>1. PICK l \in {"do", "look"} : Goto(p, l) /\ (l = "look" => req[p].op # "leave")
    BY <1>4 DEF MeetingFill, AfterMeeting
  <2>2. seen'[p] = Blank /\ seen[p] \in Counts BY <1>1, <1>4 DEF MeetingFill, Typed, Fits
  <2>3. pc'[p] = l => Fits(p)' BY <1>1, <1>4, <2>1, <2>2, Records DEF MeetingFill, Fits
  <2> QED BY <1>1, <1>4, <2>1, <2>2, <2>3, Records, GoOnCall DEF MeetingFill, Labels, Typed, InRow
<1>5. CASE Refuse(p) BY <1>1, <1>5, ReturnCall DEF Refuse, Typed, InRow
<1> QED BY <1>2, <1>3, <1>4, <1>5 DEF GetMeeting

LEMMA GetUserProgressCall == ASSUME CallInv, NEW p \in Procs, GetUserProgress(p) PROVE CallInv'
<1> USE DEF db, cache, locks, local, history
<1> DEFINE u == req[p].user
<1>1. Typed /\ Fits(p) /\ u \in Users BY DEF CallInv, Typed, Request
<1>2. ASSUME NEW s \in Progress, NEW l \in {"do", "fill"}, Goto(p, l), pc[p] = "look", UNCHANGED <<req, scene>>,
             seen' = [seen EXCEPT ![p] = s], pc'[p] = l
      PROVE  Fits(p)'
  <2>1. seen'[p] = s BY <1>1, <1>2 DEF Typed
  <2> QED BY <1>1, <1>2, <2>1 DEF Fits
<1>3. CASE ProgressHit(p)
  <2>1. hash[u] \in Progress BY <1>1, <1>3 DEF ProgressHit, Typed
  <2> QED BY <1>1, <1>2, <1>3, <2>1, GoOnCall DEF ProgressHit, Labels, Typed, InRow
<1>4. CASE ProgressGuest(p)
  <2>1. hash' \in [Users -> Progress \union {None}] BY <1>1, <1>4, Records DEF ProgressGuest, Typed
  <2> QED BY <1>1, <1>2, <1>4, <2>1, Records, GoOnCall DEF ProgressGuest, Labels, Typed, InRow
<1>5. CASE ProgressMiss(p)
  <2>1. row[u] \in Progress BY <1>1, <1>5 DEF ProgressMiss, Typed
  <2> QED BY <1>1, <1>2, <1>5, <2>1, GoOnCall DEF ProgressMiss, Labels, Typed, InRow
<1>6. CASE ProgressFill(p)
  <2>1. seen[p] \in Progress BY <1>1, <1>6 DEF ProgressFill, Fits
  <2>2. hash' \in [Users -> Progress \union {None}] BY <1>1, <1>6, <2>1 DEF ProgressFill, Typed
  <2>3. pc'[p] = "do" => Fits(p)' BY <1>1, <1>6 DEF ProgressFill, Fits
  <2> QED BY <1>1, <1>6, <2>2, <2>3, GoOnCall DEF ProgressFill, Labels, Typed, InRow
<1> QED BY <1>3, <1>4, <1>5, <1>6 DEF GetUserProgress

LEMMA StartCall == ASSUME CallInv, NEW p \in Procs, Call(p) PROVE CallInv'
<1> USE DEF db, cache, locks, history
<1>1. Typed /\ pc[p] = "idle" /\ seen[p] \in Progress BY DEF CallInv, Call, Fits
<1>2. PICK r \in Scenes[scene].calls :
        /\ req' = [req EXCEPT ![p] = r]
        /\ pc' = [pc EXCEPT ![p] = CASE r.op = "replay" -> "look" [] r.op = "question" -> "do" [] OTHER -> "get"]
  BY DEF Call, Goto
<1>3. r \in Request /\ (r.op = "leave" => r.seconds \in {-1, 0}) BY <1>1, ScenesAreScenes DEF Typed
<1>4. PICK l \in {"look", "do", "get"} :
        /\ pc' = [pc EXCEPT ![p] = l]
        /\ l = CASE r.op = "replay" -> "look" [] r.op = "question" -> "do" [] OTHER -> "get"
  BY <1>2
<1>5. pc' \in [Procs -> Labels] /\ pc'[p] = l /\ req' \in [Procs -> Request] /\ req'[p] = r
  BY <1>1, <1>2, <1>3, <1>4 DEF Typed, Labels
<1>6. /\ \A q \in Procs \ {p} : pc'[q] = pc[q] /\ req'[q] = req[q]
      /\ UNCHANGED <<scene, row, meeting, hash, cMeeting, temp, lockR, lockM, seen, tx, answers>>
  BY <1>1, <1>2, <1>4 DEF Typed, Call
<1>7. Typed' BY <1>1, <1>5, <1>6 DEF Typed
<1>8. Alone(p) BY <1>6 DEF Alone
<1>9. Fits(p)' BY <1>1, <1>3, <1>4, <1>5, <1>6 DEF Fits
<1>10. ~InRow(p)' /\ ~InMeeting(p)' /\ ~InRow(p) /\ ~InMeeting(p) BY <1>1, <1>5 DEF InRow, InMeeting
<1>11. lockM' # p /\ \A u \in Students : lockR'[u] # p BY <1>6, <1>10 DEF CallInv, Locked
<1> QED BY <1>6, <1>7, <1>8, <1>9, <1>10, <1>11, Stepping

\* Steps of nobody's.
LEMMA QuietCall ==
  ASSUME CallInv, UNCHANGED <<db, cMeeting, temp, locks, pc, local>>, hash' \in [Users -> Progress \union {None}]
  PROVE  CallInv'
<1> USE DEF db, locks, local
<1>1. Typed' BY DEF CallInv, Typed
<1>2. \A p \in Procs : Fits(p)' BY DEF CallInv, Fits, FirstTime, Teaching
<1>3. Locked' /\ Writing' BY DEF CallInv, Locked, Writing, InRow, InMeeting, Changed
<1> QED BY <1>1, <1>2, <1>3 DEF CallInv

\* SELECT ... FOR UPDATE of the student's row.
LEMMA LockRowCall ==
  ASSUME CallInv, NEW p \in Procs, NEW l \in {"tally", "commit"}, Goto(p, l), pc[p] = "do",
         UNCHANGED <<db, cMeeting, temp, lockM, req, seen, answers>>, req[p].user \in Students,
         lockR[req[p].user] = None, lockR' = [lockR EXCEPT ![req[p].user] = p],
         tx' = [tx EXCEPT ![p] = Changed(p)],
         hash' \in [Users -> Progress \union {None}],
         IF l = "tally" THEN req[p].op = "score" ELSE req[p].op \in {"courseware", "video", "exam"}
  PROVE  CallInv'
<1> USE DEF db
<1> PICK u \in Students : u = req[p].user OBVIOUS
<1>1. Typed /\ Fits(p) /\ p # None /\ lockR \in [Students -> Procs \union {None}] BY NoneIsNoHash DEF CallInv, Typed
<1>2. row[u] \in Progress /\ req[p] \in Request BY <1>1 DEF Typed
<1>3. Changed(p) \in Progress
  <2>1. req[p].item \in Items /\ req[p].exam \in Exams BY <1>2 DEF Request
  <2>2. CASE req[p].op = "score" BY <1>2, <2>2 DEF Changed, Progress
  <2>3. CASE req[p].op = "exam"
    <3>1. row[u].exams \union {req[p].exam} \in SUBSET Exams /\ row[u].total + 1 \in Nat
      BY <1>2, <2>1 DEF Progress
    <3>2. Changed(p) = [row[u] EXCEPT !.exams = row[u].exams \union {req[p].exam}, !.total = row[u].total + 1]
      BY <2>3 DEF Changed
    <3> QED BY <1>2, <3>1, <3>2 DEF Progress
  <2>4. CASE req[p].op \notin {"score", "exam"}
    <3>1. row[u].seen \union {req[p].item} \in SUBSET Items BY <1>2, <2>1 DEF Progress
    <3>2. Changed(p) = [row[u] EXCEPT !.seen = row[u].seen \union {req[p].item}] BY <2>4 DEF Changed
    <3> QED BY <1>2, <3>1, <3>2 DEF Progress
  <2> QED BY <2>2, <2>3, <2>4
<1> PICK new : new = Changed(p) OBVIOUS
<1>4. tx' = [tx EXCEPT ![p] = new] /\ tx' \in [Procs -> Progress] /\ tx'[p] = new BY <1>1, <1>3 DEF Typed
<1>5. lockR' \in [Students -> Procs \union {None}] /\ lockR'[u] = p /\ \A v \in Students \ {u} : lockR'[v] = lockR[v]
  BY <1>1
<1>6. pc' = [pc EXCEPT ![p] = l] /\ pc' \in [Procs -> Labels] /\ pc'[p] = l BY <1>1 DEF Goto, Typed, Labels
<1>7. Typed' BY <1>1, <1>4, <1>5, <1>6 DEF Typed
<1>8. Alone(p) BY <1>1, <1>4, <1>6 DEF Alone, Typed
<1>9. Fits(p)' BY <1>1, <1>6 DEF Fits
<1>10. ~InRow(p) /\ ~InMeeting(p) BY DEF InRow, InMeeting
<1>11. InRow(p)' /\ ~InMeeting(p)' BY <1>6 DEF InRow, InMeeting
<1>12. lockM # p /\ \A v \in Students : lockR[v] # p BY <1>10 DEF CallInv, Locked
<1>13. Changed(p)' = Changed(p) BY DEF Changed
<1>14. \A v \in Students : lockR'[v] = p => v = u BY <1>5, <1>12
<1>15. (req[p].user \in Students /\ lockR[req[p].user] = p /\ tx[p] = Changed(p))' BY <1>4, <1>5, <1>13
<1> QED BY <1>5, <1>7, <1>8, <1>9, <1>11, <1>12, <1>14, <1>15, Stepping

\* COMMIT, or ROLLBACK: the lock is free again.
LEMMA UnlockCall ==
  ASSUME CallInv, NEW p \in Procs, InRow(p), Typed', Alone(p), Fits(p)', ~InRow(p)',
         lockR' = [lockR EXCEPT ![req[p].user] = None],
         lockM' = IF lockM = p THEN None ELSE lockM,
         \A u \in Students : row'[u] # row[u] => u = req[p].user,
         meeting' # meeting => lockM = p
  PROVE  CallInv'
<1> PICK u \in Students : u = req[p].user /\ lockR[u] = p BY DEF CallInv, Locked
<1>1. p # None /\ lockR'[u] = None /\ \A v \in Students \ {u} : lockR'[v] = lockR[v]
  BY NoneIsNoHash DEF CallInv, Typed
<1>2. ~InMeeting(p)' BY DEF InRow, InMeeting
<1>3. lockM' # p BY <1>1
<1>4. \A v \in Students : lockR'[v] # p BY <1>1 DEF CallInv, Locked
<1> QED BY <1>1, <1>2, <1>3, <1>4, Stepping

LEMMA CommitsRow ==
  ASSUME Typed, NEW p \in Procs, req[p].user \in Students, CommitRow(p)
  PROVE  /\ row' \in [Students -> Progress] /\ lockR' \in [Students -> Procs \union {None}]
         /\ lockR' = [lockR EXCEPT ![req[p].user] = None]
         /\ row'[req[p].user] = tx[p] /\ \A u \in Students \ {req[p].user} : row'[u] = row[u]
<1> PICK u \in Students : u = req[p].user OBVIOUS
<1>1. row' = [row EXCEPT ![u] = tx[p]] /\ lockR' = [lockR EXCEPT ![u] = None] BY DEF CommitRow
<1> QED BY <1>1 DEF Typed

LEMMA MarkCall == ASSUME CallInv, NEW p \in Procs, Mark(p) PROVE CallInv'
<1> USE DEF db, cache, locks, local, history, Marking, Holds
<1> PICK u \in Users : u = req[p].user BY DEF CallInv, Typed, Request
<1>1. Typed /\ Fits(p) /\ req[p].item \in Items /\ p # None
  BY NoneIsNoHash DEF CallInv, Typed, Request
<1>2. CASE MarkSkip(p) BY <1>1, <1>2, ReturnCall DEF MarkSkip, Typed, InRow
<1>3. CASE MarkGuest(p)
  <2>1. seen[p] \in Progress BY <1>1, <1>3 DEF MarkGuest, Fits
  <2>2. seen[p].seen \union {req[p].item} \in SUBSET Items BY <1>1, <2>1 DEF Progress
  <2>3. hash' \in [Users -> Progress \union {None}] BY <1>1, <1>3, <2>2, SettingFields DEF MarkGuest
  <2> QED BY <1>1, <1>3, <2>3, ReturnCall DEF MarkGuest, Typed, InRow
<1>4. CASE MarkRow(p)
  <2>1. /\ pc[p] = "do" /\ req[p].op \in {"courseware", "video"} /\ u \in Students /\ lockR[u] = None
        /\ UNCHANGED <<db, cMeeting, temp, lockM>>
    BY <1>4 DEF MarkRow
  <2>2. row[u] \in Progress BY <1>1, <2>1 DEF Typed
  <2>3. row[u].seen \union {req[p].item} \in SUBSET Items BY <1>1, <2>2 DEF Progress
  <2>4. hash' \in [Users -> Progress \union {None}] BY <1>1, <1>4, <2>3, SettingFields DEF MarkRow
  <2>5. CASE Return(p) /\ UNCHANGED lockR
    BY <1>1, <2>1, <2>4, <2>5, ReturnCall DEF Typed, InRow
  <2>6. CASE /\ lockR' = [lockR EXCEPT ![u] = p] /\ Goto(p, "commit")
             /\ tx' = [tx EXCEPT ![p] = [row[u] EXCEPT !.seen = row[u].seen \union {req[p].item}]]
             /\ UNCHANGED <<req, seen, answers>>
    <3>1. Changed(p) = [row[u] EXCEPT !.seen = row[u].seen \union {req[p].item}] BY <2>1 DEF Changed
    <3> QED BY <2>1, <2>4, <2>6, <3>1, LockRowCall
  <2> QED BY <1>4, <2>5, <2>6 DEF MarkRow
<1>6. CASE MarkFound(p)
  <2>1. /\ pc[p] = "do" /\ req[p].op = "video" /\ u \in Students /\ Goto(p, "cacheSeen")
        /\ seen' = [seen EXCEPT ![p] = [seen[p] EXCEPT !.seen = row[u].seen]]
        /\ UNCHANGED <<db, cache, locks, req, tx, answers>>
    BY <1>6 DEF MarkFound
  <2>2. row[u] \in Progress /\ seen[p] \in Progress BY <1>1, <2>1 DEF Typed, Fits
  <2>3. PICK s \in Progress : s = [seen[p] EXCEPT !.seen = row[u].seen] BY <2>2 DEF Progress
  <2>4. seen'[p] = s BY <1>1, <2>1, <2>3 DEF Typed
  <2>5. pc'[p] = "cacheSeen" => Fits(p)' BY <1>1, <2>1, <2>4 DEF Fits
  <2>6. "cacheSeen" \in Labels \ {"tally", "commit"} /\ ~InRow(p) BY <2>1 DEF Labels, InRow
  <2> QED BY <1>1, <2>1, <2>3, <2>5, <2>6, GoOnCall DEF Typed
<1>7. CASE MarkCache(p)
  <2>1. pc[p] = "cacheSeen" /\ Return(p) /\ SetField(u, "seen", seen[p].seen) BY <1>7 DEF MarkCache
  <2>2. seen[p] \in Progress BY <1>1, <2>1 DEF Fits
  <2>3. seen[p].seen \in SUBSET Items BY <2>2 DEF Progress
  <2>4. hash' \in [Users -> Progress \union {None}] BY <1>1, <2>1, <2>3, SettingFields
  <2>5. UNCHANGED <<db, cMeeting, temp, locks>> BY <1>7 DEF MarkCache
  <2> QED BY <1>1, <2>1, <2>4, <2>5, ReturnCall DEF Typed, InRow
<1>5. CASE MarkCommit(p)
  <2>1. InRow(p) /\ u \in Students /\ ~InMeeting(p) BY <1>5 DEF MarkCommit, InRow, InMeeting, CallInv, Locked
  <2>2. CommitRow(p) /\ Return(p) /\ UNCHANGED <<scene, meeting, hash, cMeeting, temp, lockM>> BY <1>5 DEF MarkCommit
  <2>3. lockM # p BY <2>1 DEF CallInv, Locked
  <2>4. Typed' BY <1>1, <2>1, <2>2, CommitsRow, Returning DEF Typed
  <2>5. Alone(p) /\ Fits(p)' /\ pc'[p] = "idle" BY <1>1, <2>2, Returning
  <2>6. ~InRow(p)' BY <2>5 DEF InRow
  <2> QED BY <1>1, <2>1, <2>2, <2>3, <2>4, <2>5, <2>6, CommitsRow, UnlockCall
<1> QED BY <1>2, <1>3, <1>4, <1>5, <1>6, <1>7 DEF Mark

LEMMA ReplayCall == ASSUME CallInv, NEW p \in Procs, Replay(p) PROVE CallInv'
<1> USE DEF db, cache, locks, local, history, Holds
<1> PICK u \in Users : u = req[p].user BY DEF CallInv, Typed, Request
<1>1. Typed /\ Fits(p) BY DEF CallInv
<1>2. CASE ReplaySkip(p) BY <1>1, <1>2, ReturnCall DEF ReplaySkip, Typed, InRow
<1>3. CASE ReplayRow(p)
  <2>1. /\ row' \in [Students -> Progress] /\ \A v \in Students : row'[v] # row[v] => lockR[v] = None
    <3>1. CASE u \in Students
      <4>1. lockR[u] = None /\ row' = [row EXCEPT ![u] = [row[u] EXCEPT !.replay = TRUE]]
        BY <1>3, <3>1 DEF ReplayRow
      <4>2. row[u] \in Progress BY <1>1, <3>1 DEF Typed
      <4>3. [row[u] EXCEPT !.replay = TRUE] \in Progress BY <1>1, <4>2 DEF Progress
      <4> QED BY <1>1, <4>1, <4>3 DEF Typed
    <3>2. CASE u \notin Students BY <1>1, <1>3, <3>2 DEF ReplayRow, Typed
    <3> QED BY <3>1, <3>2
  <2>2. pc'[p] = "cacheReplay" => Fits(p)' BY <1>1, <1>3 DEF ReplayRow, Fits
  <2> QED BY <1>1, <1>3, <2>1, <2>2, GoOnCall DEF ReplayRow, Labels, Typed, InRow
<1>4. CASE ReplayCache(p)
  <2>1. hash' \in [Users -> Progress \union {None}] BY <1>1, <1>4, SettingFields DEF ReplayCache
  <2> QED BY <1>1, <1>4, <2>1, ReturnCall DEF ReplayCache, Typed, InRow
<1> QED BY <1>2, <1>3, <1>4 DEF Replay

LEMMA BeatCall == ASSUME CallInv, NEW p \in Procs, Beat(p) PROVE CallInv'
<1> USE DEF db, cache, locks, local, history, Beating, Holds
<1> PICK u \in Users : u = req[p].user BY DEF CallInv, Typed, Request
<1>1. Typed /\ Fits(p) /\ req[p].seconds \in Marks BY DEF CallInv, Typed, Request
<1>2. CASE BeatSkip(p) BY <1>1, <1>2, ReturnCall DEF BeatSkip, Typed, InRow
<1>3. CASE BeatRow(p)
  <2>1. /\ row' \in [Students -> Progress] /\ \A v \in Students : row'[v] # row[v] => lockR[v] = None
    <3>1. CASE u \in Students
      <4>1. lockR[u] = None /\ row' = [row EXCEPT ![u] = [row[u] EXCEPT !.mark = req[p].seconds]]
        BY <1>3, <3>1 DEF BeatRow
      <4>2. row[u] \in Progress BY <1>1, <3>1 DEF Typed
      <4>3. [row[u] EXCEPT !.mark = req[p].seconds] \in Progress BY <1>1, <4>2 DEF Progress
      <4> QED BY <1>1, <4>1, <4>3 DEF Typed
    <3>2. CASE u \notin Students BY <1>1, <1>3, <3>2 DEF BeatRow, Typed
    <3> QED BY <3>1, <3>2
  <2>2. pc'[p] = "cacheMark" => Fits(p)' BY <1>1, <1>3 DEF BeatRow, Fits
  <2>3. /\ pc[p] = "do" /\ Goto(p, "cacheMark")
        /\ UNCHANGED <<scene, meeting, hash, cMeeting, temp, lockR, lockM, req, seen, tx, answers>>
    BY <1>3 DEF BeatRow
  <2> QED BY <1>1, <2>1, <2>2, <2>3, GoOnCall DEF Labels, Typed, InRow
<1>4. CASE BeatCache(p)
  <2>1. hash' \in [Users -> Progress \union {None}] BY <1>1, <1>4, SettingFields DEF BeatCache
  <2>2. /\ pc[p] = "cacheMark" /\ UNCHANGED <<scene, row, meeting, cMeeting, temp, lockR, lockM>>
        /\ \/ FirstTime(p) /\ Goto(p, "count") /\ UNCHANGED <<req, seen, tx, answers>>
           \/ Return(p)
    BY <1>4 DEF BeatCache
  <2>3. CASE FirstTime(p) /\ Goto(p, "count") /\ UNCHANGED <<req, seen, tx, answers>>
    <3>1. pc'[p] = "count" => Fits(p)' BY <1>1, <2>2, <2>3 DEF Fits, FirstTime, Teaching
    <3> QED BY <1>1, <2>1, <2>2, <2>3, <3>1, GoOnCall DEF Labels, Typed, InRow
  <2>4. CASE Return(p) BY <1>1, <2>1, <2>2, <2>4, ReturnCall DEF Typed, InRow
  <2> QED BY <2>2, <2>3, <2>4
<1>5. CASE CountRow(p)
  <2>1. meeting' \in Counts BY <1>1, <1>5 DEF CountRow, Typed, Counts
  <2>2. pc'[p] = "countCache" => Fits(p)' BY <1>1, <1>5 DEF CountRow, Fits, FirstTime, Teaching
  <2> QED BY <1>1, <1>5, <2>1, <2>2, GoOnCall DEF CountRow, Labels, Typed, InRow
<1>6. CASE CountCache(p)
  <2>1. cMeeting' \in Counts \union {None}
    <3>1. CASE cMeeting = None BY <1>6, <3>1 DEF CountCache
    <3>2. CASE cMeeting \in Counts /\ cMeeting # None BY <1>6, <3>2 DEF CountCache, Counts
    <3> QED BY <1>1, <3>1, <3>2 DEF Typed
  <2> QED BY <1>1, <1>6, <2>1, ReturnCall DEF CountCache, Typed, InRow
<1> QED BY <1>2, <1>3, <1>4, <1>5, <1>6 DEF Beat

LEMMA ScoreCall == ASSUME CallInv, NEW p \in Procs, Score(p) PROVE CallInv'
<1> USE DEF db, cache, locks, local, history, Scoring, Holds
<1> PICK u \in Users : u = req[p].user BY DEF CallInv, Typed, Request
<1>1. Typed /\ Fits(p) /\ p # None BY NoneIsNoHash DEF CallInv, Typed
<1>2. CASE ScoreSkip(p) BY <1>1, <1>2, ReturnCall DEF ScoreSkip, Typed, InRow
<1>3. CASE ScoreGuest(p)
  <2>1. pc'[p] = "feedback" => Fits(p)' BY <1>1, <1>3 DEF ScoreGuest, Fits
  <2> QED BY <1>1, <1>3, <2>1, GoOnCall DEF ScoreGuest, Labels, Typed, InRow
<1>4. CASE ScoreRow(p)
  <2>1. hash' \in [Users -> Progress \union {None}] BY <1>1, <1>4, SettingFields DEF ScoreRow
  <2>2. Changed(p) = [row[u] EXCEPT !.scored = TRUE] BY <1>4 DEF ScoreRow, Changed
  <2>3. /\ Goto(p, "tally") /\ pc[p] = "do" /\ UNCHANGED <<db, cMeeting, temp, lockM, req, seen, answers>>
        /\ u \in Students /\ lockR[u] = None /\ lockR' = [lockR EXCEPT ![u] = p]
        /\ tx' = [tx EXCEPT ![p] = [row[u] EXCEPT !.scored = TRUE]] /\ req[p].op = "score"
    BY <1>4 DEF ScoreRow
  <2> QED BY <2>1, <2>2, <2>3, LockRowCall
<1>5. CASE ScoreMeeting(p)
  <2>1. InRow(p) /\ ~InMeeting(p) BY <1>5 DEF ScoreMeeting, InRow, InMeeting
  <2>2. /\ lockM = None /\ lockM' = p /\ pc' = [pc EXCEPT ![p] = "commit"] /\ req[p].op = "score"
        /\ seen' = [seen EXCEPT ![p] = [meeting EXCEPT !.scores = @ + 1]]
        /\ cMeeting' = Update(cMeeting, "scores", meeting.scores + 1)
        /\ UNCHANGED <<db, hash, temp, lockR, req, tx, answers>>
    BY <1>5 DEF ScoreMeeting, Goto
  <2>3. [meeting EXCEPT !.scores = @ + 1] \in Counts /\ meeting.scores + 1 \in Nat BY <1>1 DEF Typed, Counts
  <2>4. cMeeting' \in Counts \union {None}
    <3>1. CASE cMeeting = None BY <2>2, <3>1 DEF Update
    <3>2. CASE cMeeting \in Counts /\ cMeeting # None BY <2>2, <2>3, <3>2 DEF Update, Counts
    <3> QED BY <1>1, <3>1, <3>2 DEF Typed
  <2>5. /\ pc' \in [Procs -> Labels] /\ pc'[p] = "commit" /\ \A q \in Procs \ {p} : pc'[q] = pc[q]
    BY <1>1, <2>2 DEF Typed, Labels
  <2>6. /\ seen' \in [Procs -> Progress \union Counts] /\ seen'[p] = [meeting EXCEPT !.scores = @ + 1]
        /\ \A q \in Procs \ {p} : seen'[q] = seen[q]
    BY <1>1, <2>2, <2>3 DEF Typed
  <2>7. Typed' BY <1>1, <2>2, <2>4, <2>5, <2>6 DEF Typed
  <2>8. Alone(p) BY <2>2, <2>5, <2>6 DEF Alone
  <2>9. Fits(p)' BY <1>1, <2>2, <2>5 DEF Fits
  <2>10. InRow(p)' /\ InMeeting(p)' BY <2>2, <2>5 DEF InRow, InMeeting
  <2>11. (req[p].user \in Students /\ lockR[req[p].user] = p /\ tx[p] = Changed(p))'
    <3>1. req[p].user \in Students /\ lockR[req[p].user] = p /\ tx[p] = Changed(p)
      BY <2>1 DEF CallInv, Locked, Writing
    <3> QED BY <2>2, <3>1 DEF Changed
  <2>12. \A v \in Students : lockR'[v] = p => req'[p].user = v BY <2>2 DEF CallInv, Locked
  <2>13. (seen[p] = [meeting EXCEPT !.scores = @ + 1])' BY <2>2, <2>6
  <2> QED BY <2>2, <2>7, <2>8, <2>9, <2>10, <2>11, <2>12, <2>13, Stepping
<1>6. CASE ScoreCommit(p)
  <2>1. InRow(p) /\ InMeeting(p) /\ u \in Students
    BY <1>6 DEF ScoreCommit, InRow, InMeeting, CallInv, Locked
  <2>2. lockM = p /\ seen[p] = [meeting EXCEPT !.scores = @ + 1] BY <2>1 DEF CallInv, Locked, Writing
  <2>3. /\ CommitRow(p) /\ pc' = [pc EXCEPT ![p] = "feedback"] /\ lockM' = None /\ req[p].op = "score"
        /\ meeting' = [meeting EXCEPT !.scores = seen[p].scores] /\ tx' = [tx EXCEPT ![p] = Blank]
        /\ UNCHANGED <<scene, hash, cMeeting, temp, req, seen, answers>>
    BY <1>6 DEF ScoreCommit, Goto
  <2>4. meeting' \in Counts
    <3>1. seen[p].scores = meeting.scores + 1 /\ meeting.scores \in Nat BY <1>1, <2>2 DEF Typed, Counts
    <3> QED BY <1>1, <2>3, <3>1 DEF Typed, Counts
  <2>5. pc' \in [Procs -> Labels] /\ pc'[p] = "feedback" /\ \A q \in Procs \ {p} : pc'[q] = pc[q]
    BY <1>1, <2>3 DEF Typed, Labels
  <2>6. tx' \in [Procs -> Progress] /\ \A q \in Procs \ {p} : tx'[q] = tx[q] BY <1>1, <2>3, Records DEF Typed
  <2>7. Typed' BY <1>1, <2>1, <2>3, <2>4, <2>5, <2>6, CommitsRow DEF Typed
  <2>8. Alone(p) BY <2>3, <2>5, <2>6 DEF Alone
  <2>9. Fits(p)' BY <1>1, <2>3, <2>5 DEF Fits
  <2>10. ~InRow(p)' BY <2>5 DEF InRow
  <2> QED BY <1>1, <2>1, <2>2, <2>3, <2>7, <2>8, <2>9, <2>10, CommitsRow, UnlockCall
<1>7. CASE Feedback(p) BY <1>1, <1>7, ReturnCall DEF Feedback, Typed, InRow
<1> QED BY <1>2, <1>3, <1>4, <1>5, <1>6, <1>7 DEF Score

LEMMA ExamCall == ASSUME CallInv, NEW p \in Procs, Exam(p) PROVE CallInv'
<1> USE DEF db, cache, locks, local, history, Sitting, Holds
<1> PICK u \in Users : u = req[p].user BY DEF CallInv, Typed, Request
<1>1. Typed /\ Fits(p) /\ req[p].exam \in Exams /\ req[p].question \in Questions /\ p # None
  BY NoneIsNoHash DEF CallInv, Typed, Request
<1>2. CASE ExamSkip(p) BY <1>1, <1>2, ReturnCall DEF ExamSkip, Typed, InRow
<1>3. CASE ExamRow(p)
  <2>1. /\ pc[p] = "do" /\ req[p].op = "exam" /\ u \in Students /\ lockR[u] = None
        /\ UNCHANGED <<db, cMeeting, temp, lockM, req, seen, answers>>
    BY <1>3 DEF ExamRow
  <2>2. row[u] \in Progress BY <1>1, <2>1 DEF Typed
  <2>3. CASE Goto(p, "save") /\ UNCHANGED <<hash, lockR, tx>>
    <3>1. pc'[p] = "save" => Fits(p)' BY <1>1, <2>1 DEF Fits
    <3> QED BY <1>1, <2>1, <2>3, <3>1, GoOnCall DEF Labels, Typed, InRow
  <2>4. CASE /\ lockR' = [lockR EXCEPT ![u] = p] /\ Goto(p, "commit")
             /\ tx' = [tx EXCEPT ![p] = Changed(p)]
             /\ hash' = [hash EXCEPT ![u] = IF @ = None THEN None
                           ELSE [@ EXCEPT !.exams = Changed(p).exams, !.total = Changed(p).total]]
    <3>1. Changed(p) = [row[u] EXCEPT !.exams = row[u].exams \union {req[p].exam}, !.total = row[u].total + 1]
      BY <2>1 DEF Changed
    <3>2. Changed(p).exams \in SUBSET Exams /\ Changed(p).total \in Nat
      <4>1. row[u].exams \union {req[p].exam} \in SUBSET Exams /\ row[u].total + 1 \in Nat
        BY <1>1, <2>2 DEF Progress
      <4> QED BY <2>2, <3>1, <4>1 DEF Progress
    <3> PICK E \in SUBSET Exams, t \in Nat : E = Changed(p).exams /\ t = Changed(p).total BY <3>2
    <3>3. \A h \in Progress : [h EXCEPT !.exams = E, !.total = t] \in Progress BY DEF Progress
    <3>4. hash' = [hash EXCEPT ![u] = IF hash[u] = None THEN None ELSE [hash[u] EXCEPT !.exams = E, !.total = t]]
      BY <2>4
    <3>5. hash' \in [Users -> Progress \union {None}] BY <1>1, <3>3, <3>4 DEF Typed
    <3> QED BY <2>1, <2>4, <3>5, LockRowCall
  <2>5. [row[u] EXCEPT !.exams = @ \union {req[p].exam}, !.total = @ + 1] = Changed(p) BY <2>1 DEF Changed
  <2> QED BY <1>3, <2>3, <2>4, <2>5 DEF ExamRow
<1>4. CASE ExamCommit(p)
  <2>1. InRow(p) /\ ~InMeeting(p) /\ u \in Students
    BY <1>4 DEF ExamCommit, InRow, InMeeting, CallInv, Locked
  <2>2. lockM # p BY <2>1 DEF CallInv, Locked
  <2>3. /\ CommitRow(p) /\ pc' = [pc EXCEPT ![p] = "save"] /\ tx' = [tx EXCEPT ![p] = Blank] /\ req[p].op = "exam"
        /\ UNCHANGED <<scene, meeting, hash, cMeeting, temp, lockM, req, seen, answers>> /\ pc[p] = "commit"
    BY <1>4 DEF ExamCommit, Goto
  <2>4. pc' \in [Procs -> Labels] /\ pc'[p] = "save" /\ \A q \in Procs \ {p} : pc'[q] = pc[q]
    BY <1>1, <2>3 DEF Typed, Labels
  <2>5. tx' \in [Procs -> Progress] /\ \A q \in Procs \ {p} : tx'[q] = tx[q] BY <1>1, <2>3, Records DEF Typed
  <2>6. Typed' BY <1>1, <2>1, <2>3, <2>4, <2>5, CommitsRow DEF Typed
  <2>7. Alone(p) BY <2>3, <2>4, <2>5 DEF Alone
  <2>8. Fits(p)' BY <1>1, <2>1, <2>3, <2>4 DEF Fits
  <2>9. ~InRow(p)' BY <2>4 DEF InRow
  <2> QED BY <1>1, <2>1, <2>2, <2>3, <2>6, <2>7, <2>8, <2>9, CommitsRow, UnlockCall
<1>5. CASE SaveRead(p)
  <2>1. temp[u] \in SUBSET Questions BY <1>1 DEF Typed
  <2>2. pc'[p] = "store" => Fits(p)' BY <1>1, <1>5 DEF SaveRead, Fits
  <2> QED BY <1>1, <1>5, <2>1, <2>2, GoOnCall DEF SaveRead, Labels, Typed, InRow
<1>6. CASE SaveStore(p)
  <2>1. /\ pc[p] = "store" /\ UNCHANGED <<scene, row, meeting, hash, cMeeting, temp, lockR, lockM>>
        /\ Return(p) \/ (Goto(p, "clear") /\ UNCHANGED <<req, seen, tx, answers>>)
    BY <1>6 DEF SaveStore
  <2>2. CASE Return(p) BY <1>1, <2>1, <2>2, ReturnCall DEF Typed, InRow
  <2>3. CASE Goto(p, "clear") /\ UNCHANGED <<req, seen, tx, answers>>
    <3>1. pc'[p] = "clear" => Fits(p)' BY <1>1, <2>1, <2>3 DEF Fits
    <3> QED BY <1>1, <2>1, <2>3, <3>1, GoOnCall DEF Labels, Typed, InRow
  <2> QED BY <2>1, <2>2, <2>3
<1>7. CASE SaveClear(p)
  <2>1. {} \in SUBSET Questions OBVIOUS
  <2>2. temp' \in [Users -> SUBSET Questions] BY <1>1, <1>7, <2>1 DEF SaveClear, Typed
  <2> QED BY <1>1, <1>7, <2>2, ReturnCall DEF SaveClear, Typed, InRow
<1>8. CASE AnswerQuestion(p)
  <2>1. temp' \in [Users -> SUBSET Questions]
    <3>1. temp' = [temp EXCEPT ![u] = temp[u] \union {req[p].question}] BY <1>8 DEF AnswerQuestion
    <3>2. temp[u] \union {req[p].question} \in SUBSET Questions BY <1>1 DEF Typed
    <3> QED BY <1>1, <3>1, <3>2 DEF Typed
  <2> QED BY <1>1, <1>8, <2>1, ReturnCall DEF AnswerQuestion, Typed, InRow
<1> QED BY <1>2, <1>3, <1>4, <1>5, <1>6, <1>7, <1>8 DEF Exam

LEMMA FailureCall == ASSUME CallInv, NEW p \in Procs, Rollback(p) \/ Abandon(p) PROVE CallInv'
<1> USE DEF db, cache, locks, history
<1>1. Typed BY DEF CallInv
<1>2. CASE Rollback(p)
  <2>1. InRow(p) /\ Return(p) /\ UNCHANGED <<scene, row, meeting, hash, cMeeting, temp>> BY <1>2 DEF Rollback, InRow
  <2>2. lockR' = [lockR EXCEPT ![req[p].user] = None] /\ lockM' = IF lockM = p THEN None ELSE lockM
    BY <1>2 DEF Rollback
  <2>3. Typed' BY <1>1, <2>1, <2>2, Returning DEF Typed
  <2>4. Alone(p) /\ Fits(p)' /\ pc'[p] = "idle" BY <1>1, <2>1, Returning
  <2>5. ~InRow(p)' BY <2>4 DEF InRow
  <2> QED BY <2>1, <2>2, <2>3, <2>4, <2>5, UnlockCall
<1>3. CASE Abandon(p) BY <1>1, <1>3, ReturnCall DEF Abandon, Typed, InRow
<1> QED BY <1>2, <1>3

LEMMA CallSteps == ASSUME CallInv, [Next]_vars PROVE CallInv'
<1>1. ASSUME NEW p \in Procs, Call(p) \/ Serve(p) \/ Rollback(p) \/ Abandon(p) PROVE CallInv'
  BY <1>1, StartCall, GetMeetingCall, GetUserProgressCall, MarkCall, ReplayCall, BeatCall, ScoreCall, ExamCall,
     FailureCall DEF Serve
<1>2. ASSUME NEW u \in Guests, Expire(u) PROVE CallInv'
  <2>1. hash' \in [Users -> Progress \union {None}] BY <1>2 DEF Expire, CallInv, Typed
  <2> QED BY <1>2, <2>1, QuietCall DEF Expire, db, local
<1>3. CASE UNCHANGED vars BY <1>3, QuietCall DEF vars, cache, CallInv, Typed
<1> QED BY <1>1, <1>2, <1>3 DEF Next

\* A handler between SELECT ... FOR UPDATE and COMMIT holds the lock of its student's
\* row (ScoreMeeting, of the meeting too), nobody else does, and what it will commit
\* is the row as it is and its one change.
THEOREM CallsHoldTheirRows == Spec => []CallInv
  BY CallInit, CallSteps, PTL DEF Spec

(***************************************************************************)
(* What a student has done is never taken back: a commit writes the row    *)
(* its transaction locked, as it still is, and one change.                 *)
(***************************************************************************)

Kept(u) == /\ row[u].seen \subseteq row'[u].seen /\ row[u].exams \subseteq row'[u].exams
           /\ row[u].replay => row'[u].replay
           /\ row[u].scored => row'[u].scored

\* What a transaction writes.
LEMMA CommitIs ==
  ASSUME CallInv, NEW p \in Procs, InRow(p), CommitRow(p)
  PROVE  /\ req[p].user \in Students /\ lockR[req[p].user] = p
         /\ row'[req[p].user] = Changed(p) /\ \A u \in Students \ {req[p].user} : row'[u] = row[u]
         /\ row[req[p].user] \in Progress /\ req[p].op \in Ops
<1>1. req[p].user \in Students /\ lockR[req[p].user] = p /\ tx[p] = Changed(p) BY DEF CallInv, Locked, Writing
<1>2. req[p] \in Request /\ row[req[p].user] \in Progress BY <1>1 DEF CallInv, Typed
<1>3. req[p].op \in Ops BY <1>2 DEF Request
<1> QED BY <1>1, <1>2, <1>3, CommitsRow DEF CallInv

LEMMA ChangedIs ==
  ASSUME NEW p, row[req[p].user] \in Progress
  PROVE  LET old == row[req[p].user]  new == Changed(p) IN
         /\ new.replay = old.replay /\ new.mark = old.mark
         /\ IF req[p].op = "score" THEN new.scored = TRUE ELSE new.scored = old.scored
         /\ IF req[p].op = "exam" THEN new.exams = old.exams \union {req[p].exam} /\ new.total = old.total + 1
                                  ELSE new.exams = old.exams /\ new.total = old.total
         /\ IF req[p].op \in {"score", "exam"} THEN new.seen = old.seen
                                               ELSE new.seen = old.seen \union {req[p].item}
<1> PICK old \in Progress : old = row[req[p].user] OBVIOUS
<1>1. CASE req[p].op = "score"
  <2>1. Changed(p) = [old EXCEPT !.scored = TRUE] BY <1>1 DEF Changed
  <2> QED BY <1>1, <2>1 DEF Progress
<1>2. CASE req[p].op = "exam"
  <2>1. Changed(p) = [old EXCEPT !.exams = old.exams \union {req[p].exam}, !.total = old.total + 1]
    BY <1>2 DEF Changed
  <2> QED BY <1>2, <2>1 DEF Progress
<1>3. CASE req[p].op \notin {"score", "exam"}
  <2>1. Changed(p) = [old EXCEPT !.seen = old.seen \union {req[p].item}] BY <1>3 DEF Changed
  <2> QED BY <1>3, <2>1 DEF Progress
<1> QED BY <1>1, <1>2, <1>3

LEMMA CommitKeeps ==
  ASSUME CallInv, NEW p \in Procs, InRow(p), CommitRow(p), NEW u \in Students PROVE Kept(u)
<1>1. CASE u # req[p].user BY <1>1, CommitIs DEF Kept
<1>2. CASE u = req[p].user
  <2>1. row'[u] = Changed(p) /\ row[u] \in Progress BY <1>2, CommitIs
  <2> QED BY <1>2, <2>1, ChangedIs DEF Kept
<1> QED BY <1>1, <1>2

\* The rows change at a commit, a replay and a heartbeat.
LEMMA RowChanges ==
  ASSUME [Next]_vars
  PROVE  \/ UNCHANGED row
         \/ \E p \in Procs : \/ MarkCommit(p) \/ ScoreCommit(p) \/ ExamCommit(p)
                             \/ ReplayRow(p) \/ BeatRow(p)
<1> USE DEF db
<1>1. ASSUME NEW p \in Procs, Call(p) \/ Rollback(p) \/ Abandon(p) PROVE UNCHANGED row
  BY <1>1 DEF Call, Rollback, Abandon
<1>2. ASSUME NEW p \in Procs, GetMeeting(p) \/ GetUserProgress(p) PROVE UNCHANGED row
  BY <1>2 DEF GetMeeting, GetUserProgress, MeetingHit, MeetingMiss, MeetingFill, Refuse,
              ProgressHit, ProgressGuest, ProgressMiss, ProgressFill
<1>3. ASSUME NEW p \in Procs, Mark(p) PROVE MarkCommit(p) \/ UNCHANGED row
  BY <1>3 DEF Mark, MarkSkip, MarkGuest, MarkRow, MarkFound, MarkCache
<1>4. ASSUME NEW p \in Procs, Replay(p) \/ Beat(p) PROVE ReplayRow(p) \/ BeatRow(p) \/ UNCHANGED row
  BY <1>4 DEF Replay, Beat, ReplaySkip, ReplayCache, BeatSkip, BeatCache, CountRow, CountCache
<1>5. ASSUME NEW p \in Procs, Score(p) PROVE ScoreCommit(p) \/ UNCHANGED row
  BY <1>5 DEF Score, ScoreSkip, ScoreGuest, ScoreRow, ScoreMeeting, Feedback
<1>6. ASSUME NEW p \in Procs, Exam(p) PROVE ExamCommit(p) \/ UNCHANGED row
  BY <1>6 DEF Exam, ExamSkip, ExamRow, SaveRead, SaveStore, SaveClear, AnswerQuestion
<1>7. ASSUME NEW u \in Guests, Expire(u) PROVE UNCHANGED row BY <1>7 DEF Expire
<1>8. CASE UNCHANGED vars BY <1>8 DEF vars
<1> QED BY <1>1, <1>2, <1>3, <1>4, <1>5, <1>6, <1>7, <1>8 DEF Next, Serve

LEMMA RowsAreKept == ASSUME CallInv, [Next]_vars, NEW u \in Students PROVE Kept(u)
<1>1. CASE UNCHANGED row BY <1>1 DEF Kept
<1>2. ASSUME NEW p \in Procs, MarkCommit(p) \/ ScoreCommit(p) \/ ExamCommit(p) PROVE Kept(u)
  BY <1>2, CommitKeeps DEF MarkCommit, ScoreCommit, ExamCommit, InRow, Marking, Scoring, Sitting, Holds
<1>3. ASSUME NEW p \in Procs, ReplayRow(p) \/ BeatRow(p) PROVE Kept(u)
  <2>1. \/ UNCHANGED row
        \/ row' = [row EXCEPT ![req[p].user].replay = TRUE]
        \/ row' = [row EXCEPT ![req[p].user].mark = req[p].seconds]
    BY <1>3 DEF ReplayRow, BeatRow
  <2>2. row \in [Students -> Progress] /\ row[u] \in Progress BY DEF CallInv, Typed
  <2>3. /\ row'[u].seen = row[u].seen /\ row'[u].exams = row[u].exams /\ row'[u].scored = row[u].scored
        /\ row[u].replay => row'[u].replay
    BY <2>1, <2>2 DEF Progress
  <2> QED BY <2>3 DEF Kept
<1> QED BY <1>1, <1>2, <1>3, RowChanges

\* ProgressIsKept: every UPDATE of the row writes a column from the row itself, under
\* its lock, or one column to what takes nothing back.
THEOREM StudentsKeepProgress == Spec => ProgressIsKept
<1>1. Init => CallInv BY CallInit
<1>2. CallInv /\ [Next]_vars => CallInv' BY CallSteps
<1>3. CallInv /\ [Next]_vars =>
        [\A u \in Students :
           /\ row[u].seen \subseteq row'[u].seen /\ row[u].exams \subseteq row'[u].exams
           /\ row[u].replay => row'[u].replay
           /\ row[u].scored => row'[u].scored]_vars
  BY RowsAreKept DEF Kept
<1> QED BY <1>1, <1>2, <1>3, PTL DEF Spec, ProgressIsKept

\* What is filed, heard and remembered stays so.
LEMMA HistoryGrows ==
  ASSUME [Next]_vars
  PROVE  /\ resat \subseteq resat' /\ rescored \subseteq rescored' /\ missed \subseteq missed'
         /\ unheard \subseteq unheard' /\ unfiled \subseteq unfiled' /\ late \subseteq late' /\ taint \subseteq taint'
         /\ heard \subseteq heard' /\ filed \subseteq filed' /\ kept \subseteq kept'
<1> DEFINE Goal == /\ resat \subseteq resat' /\ rescored \subseteq rescored' /\ missed \subseteq missed'
                   /\ unheard \subseteq unheard' /\ unfiled \subseteq unfiled' /\ late \subseteq late'
                   /\ taint \subseteq taint'
                   /\ heard \subseteq heard' /\ filed \subseteq filed' /\ kept \subseteq kept'
<1> USE DEF db, history
<1>1. ASSUME NEW p \in Procs, Call(p) \/ Rollback(p) \/ Abandon(p) PROVE Goal
  BY <1>1 DEF Call, Rollback, Abandon
<1>2. ASSUME NEW p \in Procs, GetMeeting(p) \/ GetUserProgress(p) PROVE Goal
  BY <1>2 DEF GetMeeting, GetUserProgress, MeetingHit, MeetingMiss, MeetingFill, Refuse,
              ProgressHit, ProgressGuest, ProgressMiss, ProgressFill
<1>3. ASSUME NEW p \in Procs, Mark(p) PROVE Goal
  BY <1>3 DEF Mark, MarkSkip, MarkGuest, MarkRow, MarkFound, MarkCache, MarkCommit
<1>4. ASSUME NEW p \in Procs, Replay(p) \/ Beat(p) PROVE Goal
  BY <1>4 DEF Replay, Beat, ReplaySkip, ReplayRow, ReplayCache, BeatSkip, BeatRow, BeatCache, CountRow, CountCache
<1>5. ASSUME NEW p \in Procs, Score(p) PROVE Goal
  BY <1>5 DEF Score, ScoreSkip, ScoreGuest, ScoreRow, ScoreMeeting, ScoreCommit, Feedback
<1>6. ASSUME NEW p \in Procs, Exam(p) PROVE Goal
  BY <1>6 DEF Exam, ExamSkip, ExamRow, ExamCommit, SaveRead, SaveStore, SaveClear, AnswerQuestion
<1>7. ASSUME NEW u \in Guests, Expire(u) PROVE Goal BY <1>7 DEF Expire
<1>8. CASE UNCHANGED vars BY <1>8 DEF vars
<1> QED BY <1>1, <1>2, <1>3, <1>4, <1>5, <1>6, <1>7, <1>8 DEF Next, Serve

(***************************************************************************)
(* A transaction that adds an exam to a row adds one to its total.         *)
(***************************************************************************)

LEMMA ExamsOf == ASSUME Typed, NEW u \in Students PROVE IsFiniteSet(row[u].exams) /\ Cardinality(row[u].exams) \in Nat
                                                        /\ row[u].exams \subseteq Exams /\ row[u].total \in Nat
<1>1. row[u].exams \subseteq Exams /\ row[u].total \in Nat BY DEF Typed, Progress
<1> QED BY <1>1, FinitelyMany, FS_Subset, FS_CardinalityType

\* Other steps leave the exams and the total of a row alone.
LEMMA ExamsChange ==
  ASSUME CallInv, [Next]_vars, NEW u \in Students
  PROVE  \/ row'[u].exams = row[u].exams /\ row'[u].total = row[u].total
         \/ \E p \in Procs : ExamCommit(p) /\ req[p].user = u
<1>1. row[u] \in Progress /\ row \in [Students -> Progress] BY DEF CallInv, Typed
<1>2. ASSUME NEW p \in Procs, MarkCommit(p) \/ ScoreCommit(p)
      PROVE  row'[u].exams = row[u].exams /\ row'[u].total = row[u].total
  <2>1. InRow(p) /\ CommitRow(p) /\ req[p].op \in {"courseware", "video", "score"}
    BY <1>2 DEF MarkCommit, ScoreCommit, InRow, Marking, Scoring, Holds
  <2>2. CASE u # req[p].user BY <2>1, <2>2, CommitIs
  <2>3. CASE u = req[p].user
    <3>1. row'[u] = Changed(p) /\ row[u] \in Progress /\ req[p].op # "exam" BY <2>1, <2>3, CommitIs
    <3> QED BY <2>3, <3>1, ChangedIs
  <2> QED BY <2>2, <2>3
<1>3. ASSUME NEW p \in Procs, ReplayRow(p) \/ BeatRow(p)
      PROVE  row'[u].exams = row[u].exams /\ row'[u].total = row[u].total
  <2>1. \/ UNCHANGED row
        \/ row' = [row EXCEPT ![req[p].user].replay = TRUE]
        \/ row' = [row EXCEPT ![req[p].user].mark = req[p].seconds]
    BY <1>3 DEF ReplayRow, BeatRow
  <2> QED BY <1>1, <2>1 DEF Progress
<1>4. ASSUME NEW p \in Procs, ExamCommit(p), req[p].user # u PROVE row'[u] = row[u]
  <2>1. InRow(p) /\ CommitRow(p) BY <1>4 DEF ExamCommit, InRow, Sitting, Holds
  <2> QED BY <1>4, <2>1, CommitIs
<1> QED BY <1>2, <1>3, <1>4, RowChanges

LEMMA TotalsInit == Init => TotalsCountExams
<1>1. Cardinality({}) = 0 BY FS_EmptySet
<1> SUFFICES ASSUME Init, NEW u \in Students
             PROVE  /\ row[u].total >= Cardinality(row[u].exams)
                    /\ (\A e \in Exams : <<u, e>> \notin resat) => row[u].total = Cardinality(row[u].exams)
  BY DEF TotalsCountExams
<1>2. row[u] = Blank BY DEF Init
<1>3. row[u].total = 0 /\ row[u].exams = {} BY <1>2 DEF Blank
<1> QED BY <1>1, <1>3

LEMMA TotalsSteps == ASSUME CallInv, [Next]_vars, TotalsCountExams PROVE TotalsCountExams'
<1> SUFFICES ASSUME NEW u \in Students
             PROVE  /\ row'[u].total >= Cardinality(row'[u].exams)
                    /\ (\A e \in Exams : <<u, e>> \notin resat') => row'[u].total = Cardinality(row'[u].exams)
  BY DEF TotalsCountExams
<1>1. /\ row[u].total >= Cardinality(row[u].exams)
      /\ (\A e \in Exams : <<u, e>> \notin resat) => row[u].total = Cardinality(row[u].exams)
  BY DEF TotalsCountExams
<1>2. resat \subseteq resat' BY HistoryGrows
<1>3. ASSUME NEW p \in Procs, ExamCommit(p), req[p].user = u
      PROVE  /\ row'[u].total >= Cardinality(row'[u].exams)
             /\ (\A e \in Exams : <<u, e>> \notin resat') => row'[u].total = Cardinality(row'[u].exams)
  <2>1. InRow(p) /\ CommitRow(p) /\ req[p].op = "exam" BY <1>3 DEF ExamCommit, InRow, Sitting, Holds
  <2>2. req[p].exam \in Exams BY DEF CallInv, Typed, Request
  <2> PICK e \in Exams : e = req[p].exam BY <2>2
  <2>4. row'[u].exams = row[u].exams \union {e} /\ row'[u].total = row[u].total + 1
    BY <1>3, <2>1, CommitIs, ChangedIs, ZenonT(40)
  <2>5. /\ IsFiniteSet(row[u].exams) /\ row[u].total \in Nat /\ Cardinality(row[u].exams) \in Nat
        /\ Cardinality(row[u].exams \union {e}) = IF e \in row[u].exams THEN Cardinality(row[u].exams)
                                                  ELSE Cardinality(row[u].exams) + 1
    BY ExamsOf, FS_AddElement DEF CallInv
  <2>6. e \in row[u].exams => <<u, e>> \in resat' BY <1>3 DEF ExamCommit
  <2> QED BY <1>1, <1>2, <2>4, <2>5, <2>6
<1>4. CASE row'[u].exams = row[u].exams /\ row'[u].total = row[u].total BY <1>1, <1>2, <1>4
<1> QED BY <1>3, <1>4, ExamsChange

\* TotalsCountExams: AnswerExam adds to the total of the row it has locked.
THEOREM TotalsAreCounts == Spec => []TotalsCountExams
<1>1. Init => CallInv /\ TotalsCountExams BY CallInit, TotalsInit
<1>2. CallInv /\ TotalsCountExams /\ [Next]_vars => CallInv' /\ TotalsCountExams' BY CallSteps, TotalsSteps
<1> QED BY <1>1, <1>2, PTL DEF Spec

(***************************************************************************)
(* A score and its place in the tally are committed together, the tally    *)
(* under the meeting's lock.                                               *)
(***************************************************************************)

Scorers == {u \in Students : row[u].scored}

LEMMA ScoresChange ==
  ASSUME CallInv, [Next]_vars
  PROVE  \/ Scorers' = Scorers /\ meeting'.scores = meeting.scores
         \/ \E p \in Procs : /\ ScoreCommit(p) /\ req[p].user \in Students
                             /\ Scorers' = Scorers \union {req[p].user} /\ meeting'.scores = meeting.scores + 1
<1>1. meeting' = meeting \/ meeting' = [meeting EXCEPT !.attendees = @ + 1] \/ \E p \in Procs : ScoreCommit(p)
  <2> USE DEF db
  <2>1. ASSUME NEW p \in Procs, Call(p) \/ Rollback(p) \/ Abandon(p) PROVE UNCHANGED meeting
    BY <2>1 DEF Call, Rollback, Abandon
  <2>2. ASSUME NEW p \in Procs, GetMeeting(p) \/ GetUserProgress(p) PROVE UNCHANGED meeting
    BY <2>2 DEF GetMeeting, GetUserProgress, MeetingHit, MeetingMiss, MeetingFill, Refuse,
                ProgressHit, ProgressGuest, ProgressMiss, ProgressFill
  <2>3. ASSUME NEW p \in Procs, Mark(p) \/ Replay(p) PROVE UNCHANGED meeting
    BY <2>3 DEF Mark, MarkSkip, MarkGuest, MarkRow, MarkFound, MarkCache, MarkCommit, Replay, ReplaySkip, ReplayRow, ReplayCache
  <2>4. ASSUME NEW p \in Procs, Beat(p) PROVE UNCHANGED meeting \/ meeting' = [meeting EXCEPT !.attendees = @ + 1]
    BY <2>4 DEF Beat, BeatSkip, BeatRow, BeatCache, CountRow, CountCache
  <2>5. ASSUME NEW p \in Procs, Score(p) PROVE ScoreCommit(p) \/ UNCHANGED meeting
    BY <2>5 DEF Score, ScoreSkip, ScoreGuest, ScoreRow, ScoreMeeting, Feedback
  <2>6. ASSUME NEW p \in Procs, Exam(p) PROVE UNCHANGED meeting
    BY <2>6 DEF Exam, ExamSkip, ExamRow, ExamCommit, SaveRead, SaveStore, SaveClear, AnswerQuestion
  <2>7. ASSUME NEW u \in Guests, Expire(u) PROVE UNCHANGED meeting BY <2>7 DEF Expire
  <2>8. CASE UNCHANGED vars BY <2>8 DEF vars
  <2> QED BY <2>1, <2>2, <2>3, <2>4, <2>5, <2>6, <2>7, <2>8 DEF Next, Serve
<1>2. row \in [Students -> Progress] /\ meeting \in Counts BY DEF CallInv, Typed
<1>3. ASSUME NEW p \in Procs, ScoreCommit(p)
      PROVE  /\ req[p].user \in Students /\ meeting'.scores = meeting.scores + 1
             /\ Scorers' = Scorers \union {req[p].user}
  <2>1. InRow(p) /\ InMeeting(p) /\ CommitRow(p) /\ req[p].op = "score"
    BY <1>3 DEF ScoreCommit, InRow, InMeeting, Scoring, Holds
  <2>2. req[p].user \in Students /\ \A u \in Students \ {req[p].user} : row'[u] = row[u]
    BY <2>1, CommitIs
  <2>3. row'[req[p].user].scored = TRUE BY <2>1, CommitIs, ChangedIs
  <2>4. seen[p] = [meeting EXCEPT !.scores = @ + 1] BY <2>1 DEF CallInv, Writing
  <2>5. seen[p].scores = meeting.scores + 1 BY <1>2, <2>4 DEF Counts
  <2>6. meeting' = [meeting EXCEPT !.scores = seen[p].scores] BY <1>3 DEF ScoreCommit
  <2>7. meeting'.scores = meeting.scores + 1 BY <1>2, <2>5, <2>6 DEF Counts
  <2> QED BY <2>2, <2>3, <2>7 DEF Scorers
<1>4. ASSUME \A p \in Procs : ~ScoreCommit(p)
      PROVE  \A u \in Students : row'[u].scored = row[u].scored
  <2>1. ASSUME NEW p \in Procs, ReplayRow(p) \/ BeatRow(p), NEW u \in Students PROVE row'[u].scored = row[u].scored
    <3>1. \/ UNCHANGED row
          \/ row' = [row EXCEPT ![req[p].user].replay = TRUE]
          \/ row' = [row EXCEPT ![req[p].user].mark = req[p].seconds]
      BY <2>1 DEF ReplayRow, BeatRow
    <3> QED BY <1>2, <3>1 DEF Progress
  <2>2. ASSUME NEW p \in Procs, MarkCommit(p) \/ ExamCommit(p), NEW u \in Students PROVE row'[u].scored = row[u].scored
    <3>1. InRow(p) /\ CommitRow(p) /\ req[p].op \in {"courseware", "video", "exam"}
      BY <2>2 DEF MarkCommit, ExamCommit, InRow, Marking, Sitting, Holds
    <3>2. CASE u # req[p].user BY <3>1, <3>2, CommitIs
    <3>3. CASE u = req[p].user
      <4>1. row'[u] = Changed(p) /\ row[u] \in Progress /\ req[p].op # "score" BY <3>1, <3>3, CommitIs
      <4> QED BY <3>3, <4>1, ChangedIs
    <3> QED BY <3>2, <3>3
  <2> QED BY <1>4, <2>1, <2>2, RowChanges
<1>5. CASE \E p \in Procs : ScoreCommit(p) BY <1>3, <1>5
<1>6. CASE \A p \in Procs : ~ScoreCommit(p)
  <2>1. Scorers' = Scorers BY <1>4, <1>6 DEF Scorers
  <2>2. meeting'.scores = meeting.scores BY <1>1, <1>2, <1>6 DEF Counts
  <2> QED BY <2>1, <2>2
<1> QED BY <1>5, <1>6

LEMMA ScoresInit == Init => ScoresAreTallied
<1> SUFFICES ASSUME Init PROVE ScoresAreTallied OBVIOUS
<1>1. \A u \in Students : ~row[u].scored BY DEF Init, Blank
<1>2. Scorers = {} BY <1>1 DEF Scorers
<1>3. meeting.scores = 0 BY DEF Init, NoCounts
<1> QED BY <1>2, <1>3, FS_EmptySet DEF ScoresAreTallied, Scorers

LEMMA ScoresSteps == ASSUME CallInv, [Next]_vars, ScoresAreTallied PROVE ScoresAreTallied'
<1>1. meeting.scores >= Cardinality(Scorers) /\ (rescored = {} => meeting.scores = Cardinality(Scorers))
  BY DEF ScoresAreTallied, Scorers
<1>2. IsFiniteSet(Scorers) /\ Cardinality(Scorers) \in Nat /\ meeting.scores \in Nat
  <2>1. IsFiniteSet(Scorers) BY FinitelyMany, FS_Subset DEF Scorers, Users
  <2> QED BY <2>1, FS_CardinalityType DEF CallInv, Typed, Counts
<1>3. rescored \subseteq rescored' BY HistoryGrows
<1>4. ASSUME NEW p \in Procs, ScoreCommit(p), req[p].user \in Students,
             Scorers' = Scorers \union {req[p].user}, meeting'.scores = meeting.scores + 1
      PROVE  meeting'.scores >= Cardinality(Scorers') /\ (rescored' = {} => meeting'.scores = Cardinality(Scorers'))
  <2>1. Cardinality(Scorers \union {req[p].user}) = IF req[p].user \in Scorers THEN Cardinality(Scorers)
                                                    ELSE Cardinality(Scorers) + 1
    BY <1>2, FS_AddElement
  <2>2. req[p].user \in Scorers => rescored' # {} BY <1>4 DEF ScoreCommit, Scorers
  <2> QED BY <1>1, <1>2, <1>3, <1>4, <2>1, <2>2
<1>5. meeting'.scores >= Cardinality(Scorers') /\ (rescored' = {} => meeting'.scores = Cardinality(Scorers'))
  BY <1>1, <1>3, <1>4, ScoresChange
<1> QED BY <1>5 DEF ScoresAreTallied, Scorers

\* ScoresAreTallied: ScoreMeeting reads the meeting's tally under the lock it keeps
\* until both rows are committed.
THEOREM TalliesAreKept == Spec => []ScoresAreTallied
<1>1. Init => CallInv /\ ScoresAreTallied BY CallInit, ScoresInit
<1>2. CallInv /\ ScoresAreTallied /\ [Next]_vars => CallInv' /\ ScoresAreTallied' BY CallSteps, ScoresSteps
<1> QED BY <1>1, <1>2, PTL DEF Spec

(***************************************************************************)
(* What a handler is about to do stays to be done until it does it.        *)
(***************************************************************************)

LEMMA Aloneness ==
  ASSUME Typed, NEW p \in Procs, Call(p) \/ Serve(p) \/ Rollback(p) \/ Abandon(p) PROVE Alone(p)
<1> USE DEF db, local, Alone, Goto
<1>1. Return(p) /\ UNCHANGED scene => Alone(p) BY DEF Return, Typed
<1>2. CASE Call(p) \/ Rollback(p) \/ Abandon(p)
  <2>1. CASE Call(p) BY <2>1 DEF Call, Typed
  <2>2. CASE Rollback(p) \/ Abandon(p) BY <1>1, <2>2 DEF Rollback, Abandon
  <2> QED BY <1>2, <2>1, <2>2
<1>3. CASE GetMeeting(p)
  <2>1. CASE MeetingHit(p) \/ MeetingMiss(p) \/ MeetingFill(p)
    BY <2>1 DEF MeetingHit, MeetingMiss, MeetingFill, AfterMeeting, Typed
  <2>2. CASE Refuse(p) BY <1>1, <2>2 DEF Refuse
  <2> QED BY <1>3, <2>1, <2>2 DEF GetMeeting
<1>4. CASE GetUserProgress(p)
  BY <1>4 DEF GetUserProgress, ProgressHit, ProgressGuest, ProgressMiss, ProgressFill, Typed
<1>5. CASE Mark(p)
  <2>1. CASE MarkSkip(p) \/ MarkGuest(p) \/ MarkCache(p) \/ MarkCommit(p)
    BY <1>1, <2>1 DEF MarkSkip, MarkGuest, MarkCache, MarkCommit
  <2>2. CASE MarkRow(p) BY <1>1, <2>2 DEF MarkRow, Typed
  <2>3. CASE MarkFound(p) BY <2>3 DEF MarkFound, Typed
  <2> QED BY <1>5, <2>1, <2>2, <2>3 DEF Mark
<1>6. CASE Replay(p)
  <2>1. CASE ReplaySkip(p) \/ ReplayCache(p) BY <1>1, <2>1 DEF ReplaySkip, ReplayCache
  <2>2. CASE ReplayRow(p) BY <2>2 DEF ReplayRow, Typed
  <2> QED BY <1>6, <2>1, <2>2 DEF Replay
<1>7. CASE Beat(p)
  <2>1. CASE BeatSkip(p) \/ CountCache(p) BY <1>1, <2>1 DEF BeatSkip, CountCache
  <2>2. CASE BeatCache(p) BY <1>1, <2>2 DEF BeatCache, Typed
  <2>3. CASE BeatRow(p) \/ CountRow(p) BY <2>3 DEF BeatRow, CountRow, Typed
  <2> QED BY <1>7, <2>1, <2>2, <2>3 DEF Beat
<1>8. CASE Score(p)
  <2>1. CASE ScoreSkip(p) \/ Feedback(p) BY <1>1, <2>1 DEF ScoreSkip, Feedback
  <2>2. CASE ScoreGuest(p) \/ ScoreRow(p) \/ ScoreMeeting(p) \/ ScoreCommit(p)
    BY <2>2 DEF ScoreGuest, ScoreRow, ScoreMeeting, ScoreCommit, Typed
  <2> QED BY <1>8, <2>1, <2>2 DEF Score
<1>9. CASE Exam(p)
  <2>1. CASE ExamSkip(p) \/ SaveClear(p) \/ AnswerQuestion(p) BY <1>1, <2>1 DEF ExamSkip, SaveClear, AnswerQuestion
  <2>2. CASE SaveStore(p) BY <1>1, <2>2 DEF SaveStore, Typed
  <2>3. CASE ExamRow(p) \/ ExamCommit(p) \/ SaveRead(p) BY <2>3 DEF ExamRow, ExamCommit, SaveRead, Typed
  <2> QED BY <1>9, <2>1, <2>2, <2>3 DEF Exam
<1> QED BY <1>2, <1>3, <1>4, <1>5, <1>6, <1>7, <1>8, <1>9 DEF Serve

\* After a write, a handler has one way on, and one to fail.
LEMMA OneWayOn ==
  ASSUME NEW p \in Procs, Call(p) \/ Serve(p) \/ Rollback(p) \/ Abandon(p)
  PROVE  /\ pc[p] = "feedback" => Feedback(p) \/ Abandon(p)
         /\ pc[p] = "save" => SaveRead(p) \/ Abandon(p)
         /\ pc[p] = "store" => SaveStore(p) \/ Abandon(p)
         /\ pc[p] = "clear" => SaveClear(p) \/ Abandon(p)
         /\ pc[p] = "cacheReplay" => ReplayCache(p) \/ Abandon(p)
         /\ pc[p] = "cacheMark" => BeatCache(p) \/ Abandon(p)
         /\ pc[p] = "count" => CountRow(p) \/ Abandon(p)
         /\ pc[p] = "countCache" => CountCache(p) \/ Abandon(p)
<1> USE DEF Holds
<1>1. CASE Call(p) \/ Rollback(p) \/ Abandon(p) BY <1>1 DEF Call, Rollback
<1>2. CASE GetMeeting(p) \/ GetUserProgress(p)
  BY <1>2 DEF GetMeeting, GetUserProgress, MeetingHit, MeetingMiss, MeetingFill, Refuse,
              ProgressHit, ProgressGuest, ProgressMiss, ProgressFill
<1>3. CASE Mark(p) BY <1>3 DEF Mark, MarkSkip, MarkGuest, MarkRow, MarkFound, MarkCache, MarkCommit, Marking
<1>4. CASE Replay(p) BY <1>4 DEF Replay, ReplaySkip, ReplayRow, ReplayCache
<1>5. CASE Beat(p) BY <1>5 DEF Beat, BeatSkip, BeatRow, BeatCache, CountRow, CountCache, Beating
<1>6. CASE Score(p) BY <1>6 DEF Score, ScoreSkip, ScoreGuest, ScoreRow, ScoreMeeting, ScoreCommit, Scoring, Feedback
<1>7. CASE Exam(p)
  BY <1>7 DEF Exam, ExamSkip, ExamRow, ExamCommit, SaveRead, SaveStore, SaveClear, AnswerQuestion, Sitting
<1> QED BY <1>1, <1>2, <1>3, <1>4, <1>5, <1>6, <1>7 DEF Serve

\* Until its own next step, a handler stays where it is.
LEMMA Staying ==
  ASSUME CallInv, [Next]_vars, NEW p \in Procs
  PROVE  \/ /\ pc'[p] = pc[p] /\ req'[p] = req[p] /\ seen'[p] = seen[p] /\ tx'[p] = tx[p] /\ answers'[p] = answers[p]
            /\ scene' = scene
         \/ Call(p) \/ Serve(p) \/ Rollback(p) \/ Abandon(p)
<1>1. ASSUME NEW q \in Procs \ {p}, Call(q) \/ Serve(q) \/ Rollback(q) \/ Abandon(q) PROVE Alone(q)
  BY <1>1, Aloneness DEF CallInv
<1>2. ASSUME NEW u \in Guests, Expire(u) PROVE UNCHANGED <<pc, req, seen, tx, answers, scene>>
  BY <1>2 DEF Expire, local, db
<1>3. UNCHANGED vars => UNCHANGED <<pc, req, seen, tx, answers, scene>> BY DEF vars, local, db
<1> QED BY <1>1, <1>2, <1>3 DEF Next, Alone

(***************************************************************************)
(* A score that is committed has its feedback heard, about to be, or lost. *)
(***************************************************************************)

LEMMA BlankRows == ASSUME Init, NEW u \in Students PROVE row[u] = Blank /\ row[u].scored = FALSE /\ row[u].exams = {}
<1>1. row[u] = Blank BY DEF Init
<1> QED BY <1>1 DEF Blank

LEMMA HeardSteps == ASSUME CallInv, [Next]_vars, ScorersAreHeard PROVE ScorersAreHeard'
<1> SUFFICES ASSUME NEW u \in Students, row'[u].scored
             PROVE  u \in heard' \union unheard' \/ \E p \in Procs : pc'[p] = "feedback" /\ req'[p].user = u
  BY DEF ScorersAreHeard
<1>1. CASE row[u].scored
  <2>1. CASE u \in heard \union unheard BY <2>1, HistoryGrows
  <2>2. ASSUME NEW p \in Procs, pc[p] = "feedback", req[p].user = u
        PROVE  u \in heard' \union unheard' \/ (pc'[p] = "feedback" /\ req'[p].user = u)
    <3>1. CASE Feedback(p) \/ Abandon(p) BY <2>2, <3>1 DEF Feedback, Abandon
    <3> QED BY <2>2, <3>1, Staying, OneWayOn
  <2> QED BY <1>1, <2>1, <2>2 DEF ScorersAreHeard
<1>2. CASE ~row[u].scored
  <2>1. u \in Scorers' /\ u \notin Scorers BY <1>2 DEF Scorers
  <2>2. PICK p \in Procs : ScoreCommit(p) /\ req[p].user = u BY <2>1, ScoresChange
  <2>3. pc'[p] = "feedback" /\ req'[p] = req[p] BY <2>2 DEF ScoreCommit, Goto, CallInv, Typed
  <2> QED BY <2>2, <2>3
<1> QED BY <1>1, <1>2

\* ScorersAreHeard: after its commit ScoreMeeting appends the feedback to the row of
\* the meeting, or fails.
THEOREM FeedbackIsHeard == Spec => []ScorersAreHeard
<1>1. Init => CallInv /\ ScorersAreHeard BY CallInit, BlankRows DEF ScorersAreHeard
<1>2. CallInv /\ ScorersAreHeard /\ [Next]_vars => CallInv' /\ ScorersAreHeard' BY CallSteps, HeardSteps
<1> QED BY <1>1, <1>2, PTL DEF Spec

(***************************************************************************)
(* An exam that is graded has its answers filed, about to be, or the call  *)
(* failed.                                                                 *)
(***************************************************************************)

LEMMA FiledSteps == ASSUME CallInv, [Next]_vars, GradedAreFiled PROVE GradedAreFiled'
<1> DEFINE AtIt(p, u, e) == pc[p] \in {"save", "store"} /\ req[p].user = u /\ req[p].exam = e
<1> SUFFICES ASSUME NEW u \in Students, NEW e \in row'[u].exams
             PROVE  <<u, e>> \in filed' \union unfiled' \/ \E p \in Procs : AtIt(p, u, e)'
  BY DEF GradedAreFiled
<1>1. CASE e \in row[u].exams
  <2>1. CASE <<u, e>> \in filed \union unfiled BY <2>1, HistoryGrows
  <2>2. ASSUME NEW p \in Procs, AtIt(p, u, e)
        PROVE  <<u, e>> \in filed' \union unfiled' \/ AtIt(p, u, e)'
    <3>1. CASE Abandon(p) BY <2>2, <3>1 DEF Abandon
    <3>2. CASE SaveRead(p) BY <2>2, <3>2 DEF SaveRead, Goto, CallInv, Typed
    <3>3. CASE SaveStore(p) BY <2>2, <3>3, HistoryGrows DEF SaveStore, db
    <3> QED BY <2>2, <3>1, <3>2, <3>3, Staying, OneWayOn
  <2> QED BY <1>1, <2>1, <2>2 DEF GradedAreFiled
<1>2. CASE e \notin row[u].exams
  <2>1. PICK p \in Procs : ExamCommit(p) /\ req[p].user = u BY <1>2, ExamsChange
  <2>2. InRow(p) /\ CommitRow(p) /\ req[p].op = "exam" BY <2>1 DEF ExamCommit, InRow, Sitting, Holds
  <2>3. row'[u].exams = row[u].exams \union {req[p].exam} BY <2>1, <2>2, CommitIs, ChangedIs
  <2>4. pc'[p] = "save" /\ req'[p] = req[p] BY <2>1 DEF ExamCommit, Goto, CallInv, Typed
  <2> QED BY <1>2, <2>1, <2>3, <2>4
<1> QED BY <1>1, <1>2

\* GradedAreFiled: after its commit AnswerExam goes on to saveExamAnswers, which finds
\* the exam filed, files it, or fails.
THEOREM ExamsAreFiled == Spec => []GradedAreFiled
<1>1. Init => CallInv /\ GradedAreFiled BY CallInit, BlankRows DEF GradedAreFiled
<1>2. CallInv /\ GradedAreFiled /\ [Next]_vars => CallInv' /\ GradedAreFiled' BY CallSteps, FiledSteps
<1> QED BY <1>1, <1>2, PTL DEF Spec

\* How a handler comes to what it is about to do.
LEMMA Arriving ==
  ASSUME Typed, NEW p \in Procs, Call(p) \/ Serve(p) \/ Rollback(p) \/ Abandon(p)
  PROVE  /\ pc'[p] = "fillMeeting" => MeetingMiss(p)
         /\ pc'[p] = "fill" => ProgressMiss(p)
         /\ pc'[p] = "do" => \/ Call(p) \/ MeetingHit(p) \/ MeetingFill(p)
                             \/ ProgressHit(p) \/ ProgressGuest(p) \/ ProgressFill(p)
         /\ pc'[p] = "cacheReplay" => ReplayRow(p)
         /\ pc'[p] = "cacheMark" => BeatRow(p)
         /\ pc'[p] = "count" => BeatCache(p)
         /\ pc'[p] = "countCache" => CountRow(p)
         /\ pc'[p] = "store" => SaveRead(p)
         /\ pc'[p] = "clear" => SaveStore(p)
<1>1. Return(p) => pc'[p] = "idle" BY DEF Return, Goto, Typed
<1>2. \A l : Goto(p, l) => pc'[p] = l BY DEF Goto, Typed
<1>3. CASE Call(p) \/ Rollback(p) \/ Abandon(p)
  <2>1. CASE Rollback(p) \/ Abandon(p) BY <1>1, <2>1 DEF Rollback, Abandon
  <2>2. CASE Call(p)
    <3>1. \E l \in {"look", "do", "get"} : Goto(p, l) BY <2>2 DEF Call
    <3> QED BY <1>2, <2>2, <3>1
  <2> QED BY <1>3, <2>1, <2>2
<1>4. CASE GetMeeting(p)
  BY <1>1, <1>2, <1>4 DEF GetMeeting, MeetingHit, MeetingMiss, MeetingFill, Refuse, AfterMeeting
<1>5. CASE GetUserProgress(p)
  BY <1>2, <1>5 DEF GetUserProgress, ProgressHit, ProgressGuest, ProgressMiss, ProgressFill
<1>6. CASE Mark(p) BY <1>1, <1>2, <1>6 DEF Mark, MarkSkip, MarkGuest, MarkRow, MarkFound, MarkCache, MarkCommit
<1>7. CASE Replay(p) BY <1>1, <1>2, <1>7 DEF Replay, ReplaySkip, ReplayRow, ReplayCache
<1>8. CASE Beat(p) BY <1>1, <1>2, <1>8 DEF Beat, BeatSkip, BeatRow, BeatCache, CountRow, CountCache
<1>9. CASE Score(p)
  BY <1>1, <1>2, <1>9 DEF Score, ScoreSkip, ScoreGuest, ScoreRow, ScoreMeeting, ScoreCommit, Feedback
<1>10. CASE Exam(p)
  BY <1>1, <1>2, <1>10 DEF Exam, ExamSkip, ExamRow, ExamCommit, SaveRead, SaveStore, SaveClear, AnswerQuestion
<1> QED BY <1>3, <1>4, <1>5, <1>6, <1>7, <1>8, <1>9, <1>10 DEF Serve

(***************************************************************************)
(* A submission clears the answers it has read and saved, and those that   *)
(* were given meanwhile.                                                   *)
(***************************************************************************)

Waiting ==
  /\ given \subseteq Users \X Questions
  /\ \A p \in Procs : pc[p] = "store" =>
       \A q \in temp[req[p].user] : <<req[p].user, q>> \in late \union kept \/ q \in answers[p]
  /\ \A p \in Procs : pc[p] = "clear" => \A q \in temp[req[p].user] : <<req[p].user, q>> \in late \union kept

LEMMA TempChanges ==
  ASSUME [Next]_vars
  PROVE  UNCHANGED <<temp, given>> \/ \E p \in Procs : AnswerQuestion(p) \/ SaveClear(p)
<1> USE DEF cache, history
<1>1. ASSUME NEW p \in Procs, Call(p) \/ Rollback(p) \/ Abandon(p) PROVE UNCHANGED <<temp, given>>
  BY <1>1 DEF Call, Rollback, Abandon
<1>2. ASSUME NEW p \in Procs, GetMeeting(p) \/ GetUserProgress(p) PROVE UNCHANGED <<temp, given>>
  BY <1>2 DEF GetMeeting, GetUserProgress, MeetingHit, MeetingMiss, MeetingFill, Refuse,
              ProgressHit, ProgressGuest, ProgressMiss, ProgressFill
<1>3. ASSUME NEW p \in Procs, Mark(p) \/ Replay(p) PROVE UNCHANGED <<temp, given>>
  BY <1>3 DEF Mark, MarkSkip, MarkGuest, MarkRow, MarkFound, MarkCache, MarkCommit, Replay, ReplaySkip, ReplayRow, ReplayCache
<1>4. ASSUME NEW p \in Procs, Beat(p) PROVE UNCHANGED <<temp, given>>
  BY <1>4 DEF Beat, BeatSkip, BeatRow, BeatCache, CountRow, CountCache
<1>5. ASSUME NEW p \in Procs, Score(p) PROVE UNCHANGED <<temp, given>>
  BY <1>5 DEF Score, ScoreSkip, ScoreGuest, ScoreRow, ScoreMeeting, ScoreCommit, Feedback
<1>6. ASSUME NEW p \in Procs, Exam(p) PROVE UNCHANGED <<temp, given>> \/ AnswerQuestion(p) \/ SaveClear(p)
  BY <1>6 DEF Exam, ExamSkip, ExamRow, ExamCommit, SaveRead, SaveStore
<1>7. ASSUME NEW u \in Guests, Expire(u) PROVE UNCHANGED <<temp, given>> BY <1>7 DEF Expire
<1>8. CASE UNCHANGED vars BY <1>8 DEF vars
<1> QED BY <1>1, <1>2, <1>3, <1>4, <1>5, <1>6, <1>7, <1>8 DEF Next, Serve

\* What is added to the answers of a user whose submission is being saved is late.
LEMMA AddedIsLate ==
  ASSUME CallInv, [Next]_vars, NEW p \in Procs, pc[p] \in {"store", "clear"}
  PROVE  \A q \in temp'[req[p].user] : q \in temp[req[p].user] \/ <<req[p].user, q>> \in late'
<1> PICK u \in Users : u = req[p].user BY DEF CallInv, Typed, Request
<1>1. temp \in [Users -> SUBSET Questions] BY DEF CallInv, Typed
<1>2. ASSUME NEW r \in Procs, AnswerQuestion(r)
      PROVE  \A q \in temp'[u] : q \in temp[u] \/ <<u, q>> \in late'
  <2>1. temp' = [temp EXCEPT ![req[r].user] = temp[req[r].user] \union {req[r].question}]
    BY <1>2 DEF AnswerQuestion
  <2>2. CASE req[r].user = u
    <3>1. Submitting(u) BY DEF Submitting
    <3>2. <<u, req[r].question>> \in late' BY <1>2, <2>2, <3>1 DEF AnswerQuestion
    <3> QED BY <1>1, <2>1, <2>2, <3>2
  <2>3. CASE req[r].user # u BY <1>1, <2>1, <2>3
  <2> QED BY <2>2, <2>3
<1>3. ASSUME NEW r \in Procs, SaveClear(r) PROVE \A q \in temp'[u] : q \in temp[u]
  BY <1>1, <1>3 DEF SaveClear
<1> QED BY <1>2, <1>3, TempChanges

LEMMA WaitingSteps == ASSUME CallInv, [Next]_vars, Waiting PROVE Waiting'
<1>1. given' \subseteq Users \X Questions
  <2>1. ASSUME NEW p \in Procs, AnswerQuestion(p) PROVE given' \subseteq Users \X Questions
    <3>1. req[p].user \in Users /\ req[p].question \in Questions BY DEF CallInv, Typed, Request
    <3> QED BY <2>1, <3>1 DEF AnswerQuestion, Waiting
  <2>2. ASSUME NEW p \in Procs, SaveClear(p) PROVE given' = given BY <2>2 DEF SaveClear, history
  <2> QED BY <2>1, <2>2, TempChanges DEF Waiting
<1>2. late \subseteq late' /\ kept \subseteq kept' BY HistoryGrows
<1>3. ASSUME NEW p \in Procs, pc'[p] = "store", NEW q \in temp'[req'[p].user]
      PROVE  <<req'[p].user, q>> \in late' \union kept' \/ q \in answers'[p]
  <2>1. CASE pc'[p] = pc[p] /\ req'[p] = req[p] /\ answers'[p] = answers[p]
    <3>1. q \in temp[req[p].user] \/ <<req[p].user, q>> \in late' BY <1>3, <2>1, AddedIsLate
    <3> QED BY <1>2, <1>3, <2>1, <3>1 DEF Waiting
  <2>2. CASE SaveRead(p)
    <3>1. req' = req /\ answers'[p] = temp[req[p].user] /\ temp' = temp
      BY <2>2 DEF SaveRead, cache, CallInv, Typed
    <3> QED BY <1>3, <3>1
  <2> QED BY <1>3, <2>1, <2>2, Staying, Arriving DEF CallInv
<1>4. ASSUME NEW p \in Procs, pc'[p] = "clear", NEW q \in temp'[req'[p].user]
      PROVE  <<req'[p].user, q>> \in late' \union kept'
  <2>1. CASE pc'[p] = pc[p] /\ req'[p] = req[p]
    <3>1. q \in temp[req[p].user] \/ <<req[p].user, q>> \in late' BY <1>4, <2>1, AddedIsLate
    <3> QED BY <1>2, <1>4, <2>1, <3>1 DEF Waiting
  <2>2. CASE SaveStore(p)
    <3>1. /\ pc[p] = "store" /\ temp' = temp /\ req' = req /\ late' = late
          /\ kept' = kept \union ({req[p].user} \X answers[p])
      BY <1>4, <2>2 DEF SaveStore, cache, local, history, Sitting, Holds, Return, Goto, CallInv, Typed
    <3>2. <<req[p].user, q>> \in late \union kept \/ q \in answers[p] BY <1>4, <3>1 DEF Waiting
    <3> QED BY <3>1, <3>2
  <2> QED BY <1>4, <2>1, <2>2, Staying, Arriving DEF CallInv
<1> QED BY <1>1, <1>3, <1>4 DEF Waiting

LEMMA KeptSteps == ASSUME CallInv, [Next]_vars, Waiting, AnswersAreKept PROVE AnswersAreKept'
<1> SUFFICES ASSUME NEW a \in given' \ late' PROVE a[2] \in temp'[a[1]] \/ a \in kept'
  BY DEF AnswersAreKept
<1>1. late \subseteq late' /\ kept \subseteq kept' BY HistoryGrows
<1>2. temp \in [Users -> SUBSET Questions] BY DEF CallInv, Typed
<1>3. ASSUME NEW p \in Procs, AnswerQuestion(p) PROVE a[2] \in temp'[a[1]] \/ a \in kept'
  <2> PICK u \in Users, q \in Questions : u = req[p].user /\ q = req[p].question BY DEF CallInv, Typed, Request
  <2>1. temp' = [temp EXCEPT ![u] = temp[u] \union {q}] /\ given' = given \union {<<u, q>>}
    BY <1>3 DEF AnswerQuestion
  <2>2. CASE a = <<u, q>> BY <1>2, <2>1, <2>2
  <2>3. CASE a \in given
    <3>1. a[2] \in temp[a[1]] \/ a \in kept BY <1>1, <2>3 DEF AnswersAreKept
    <3>2. a[1] \in Users BY <2>3 DEF Waiting
    <3> QED BY <1>1, <1>2, <2>1, <3>1, <3>2
  <2> QED BY <2>1, <2>2, <2>3
<1>4. ASSUME NEW p \in Procs, SaveClear(p) PROVE a[2] \in temp'[a[1]] \/ a \in kept'
  <2> PICK u \in Users : u = req[p].user BY DEF CallInv, Typed, Request
  <2>1. pc[p] = "clear" /\ temp' = [temp EXCEPT ![u] = {}] /\ given' = given /\ late' = late /\ kept' = kept
    BY <1>4 DEF SaveClear, Sitting, Holds, db, history
  <2>2. a[2] \in temp[a[1]] \/ a \in kept BY <2>1 DEF AnswersAreKept
  <2>3. a[1] \in Users /\ a = <<a[1], a[2]>> BY <2>1 DEF Waiting
  <2>4. CASE a[1] = u /\ a[2] \in temp[u]
    <3>1. <<u, a[2]>> \in late \union kept BY <2>1, <2>4 DEF Waiting
    <3> QED BY <2>1, <2>3, <2>4, <3>1
  <2>5. CASE a[1] # u BY <1>2, <2>1, <2>2, <2>3, <2>5
  <2> QED BY <2>1, <2>2, <2>4, <2>5
<1>5. CASE UNCHANGED <<temp, given>> BY <1>1, <1>5 DEF AnswersAreKept
<1> QED BY <1>3, <1>4, <1>5, TempChanges

\* AnswersAreKept: saveExamAnswers clears the answers it has stored, and those that
\* came after it had read them are in late.
THEOREM SubjectiveAnswersAreKept == Spec => []AnswersAreKept
<1>1. Init => CallInv /\ Waiting /\ AnswersAreKept BY CallInit DEF Init, Waiting, AnswersAreKept
<1>2. CallInv /\ Waiting /\ AnswersAreKept /\ [Next]_vars => CallInv' /\ Waiting' /\ AnswersAreKept'
  BY CallSteps, WaitingSteps, KeptSteps
<1> QED BY <1>1, <1>2, PTL DEF Spec

(***************************************************************************)
(* Why a student's hash is its row: what a transaction will commit is in   *)
(* the hash already, what one UPDATE wrote will be, and whoever fails or   *)
(* comes late in between leaves the key in taint.                          *)
(***************************************************************************)

Later(u, label) == \E p \in Procs : pc[p] = label /\ req[p].user = u

Follows(u) ==
  hash[u] # None =>
    /\ hash[u].seen = Base(u).seen /\ hash[u].scored = Base(u).scored
    /\ hash[u].exams = Base(u).exams /\ hash[u].total = Base(u).total
    /\ hash[u].replay = Base(u).replay \/ Later(u, "cacheReplay")
    /\ hash[u].mark = Base(u).mark \/ Later(u, "cacheMark")

FollowInv ==
  /\ \A p \in Procs : pc[p] = "cacheReplay" /\ req[p].user \in Students => row[req[p].user].replay
  /\ \A u \in Students \ taint : Follows(u)

LEMMA BaseIs ==
  ASSUME CallInv, NEW u \in Students
  PROVE  /\ Base(u) \in Progress /\ row[u] \in Progress /\ u \in Users /\ hash[u] \in Progress \union {None}
         /\ Base(u).replay = row[u].replay /\ Base(u).mark = row[u].mark
         /\ \A p \in Procs : lockR[u] = p => InRow(p) /\ req[p].user = u /\ Base(u) = tx[p] /\ tx[p] = Changed(p)
<1>1. row[u] \in Progress /\ lockR[u] \in Procs \union {None} /\ u \in Users /\ hash[u] \in Progress \union {None}
  BY DEF CallInv, Typed, Users
<1>2. CASE lockR[u] = None
  <2>1. \A p \in Procs : lockR[u] # p BY <1>2, NoneIsNoHash
  <2> QED BY <1>1, <1>2, <2>1 DEF Base
<1>3. CASE lockR[u] # None
  <2> PICK p \in Procs : p = lockR[u] BY <1>1, <1>3
  <2>1. InRow(p) /\ req[p].user = u /\ tx[p] = Changed(p) /\ tx[p] \in Progress
    BY DEF CallInv, Locked, Writing, Typed
  <2>2. Base(u) = tx[p] BY <1>3 DEF Base
  <2>3. tx[p].replay = row[u].replay /\ tx[p].mark = row[u].mark BY <1>1, <2>1, ChangedIs
  <2> QED BY <1>1, <1>3, <2>1, <2>2, <2>3
<1> QED BY <1>2, <1>3

\* A step leaves the rows and hashes of other students alone.
LEMMA Elsewhere ==
  ASSUME CallInv, NEW p \in Procs, Call(p) \/ Serve(p) \/ Rollback(p) \/ Abandon(p),
         NEW u \in Students, req[p].user # u
  PROVE  hash'[u] = hash[u] /\ row'[u] = row[u] /\ lockR'[u] = lockR[u]
<1> USE DEF db, cache, locks
<1>1. /\ hash \in [Users -> Progress \union {None}] /\ row \in [Students -> Progress]
      /\ lockR \in [Students -> Procs \union {None}]
  BY DEF CallInv, Typed
<1> DEFINE Goal == hash'[u] = hash[u] /\ row'[u] = row[u] /\ lockR'[u] = lockR[u]
<1>2. \A x : [hash EXCEPT ![req[p].user] = x][u] = hash[u] BY <1>1 DEF Users
<1>3. \A x : [row EXCEPT ![req[p].user] = x][u] = row[u] BY <1>1
<1>4. \A x : [lockR EXCEPT ![req[p].user] = x][u] = lockR[u] BY <1>1
<1>5. [row EXCEPT ![req[p].user].replay = TRUE][u] = row[u] BY <1>1
<1>6. \A x : [row EXCEPT ![req[p].user].mark = x][u] = row[u] BY <1>1
<1>7. CASE Call(p) BY <1>2, <1>3, <1>4, <1>7 DEF Call
<1>8. CASE Rollback(p) BY <1>2, <1>3, <1>4, <1>8 DEF Rollback
<1>9. CASE Abandon(p) BY <1>2, <1>3, <1>4, <1>9 DEF Abandon
<1>10. CASE GetMeeting(p)
  <2>1. CASE MeetingHit(p) BY <1>2, <1>3, <1>4, <2>1 DEF MeetingHit
  <2>2. CASE MeetingMiss(p) BY <1>2, <1>3, <1>4, <2>2 DEF MeetingMiss
  <2>3. CASE MeetingFill(p) BY <1>2, <1>3, <1>4, <2>3 DEF MeetingFill
  <2>4. CASE Refuse(p) BY <1>2, <1>3, <1>4, <2>4 DEF Refuse
  <2> QED BY <1>10, <2>1, <2>2, <2>3, <2>4 DEF GetMeeting
<1>11. CASE GetUserProgress(p)
  <2>1. CASE ProgressHit(p) BY <1>2, <1>3, <1>4, <2>1 DEF ProgressHit
  <2>2. CASE ProgressGuest(p) BY <1>2, <1>3, <1>4, <2>2 DEF ProgressGuest
  <2>3. CASE ProgressMiss(p) BY <1>2, <1>3, <1>4, <2>3 DEF ProgressMiss
  <2>4. CASE ProgressFill(p) BY <1>2, <1>3, <1>4, <2>4 DEF ProgressFill
  <2> QED BY <1>11, <2>1, <2>2, <2>3, <2>4 DEF GetUserProgress
<1>12. CASE Mark(p)
  <2>1. CASE MarkSkip(p) BY <1>2, <1>3, <1>4, <2>1 DEF MarkSkip
  <2>2. CASE MarkGuest(p) BY <1>2, <1>3, <1>4, <2>2 DEF MarkGuest, SetField
  <2>3. CASE MarkRow(p) BY <1>2, <1>3, <1>4, <2>3 DEF MarkRow, SetField
  <2>4. CASE MarkCommit(p) BY <1>2, <1>3, <1>4, <2>4 DEF MarkCommit, CommitRow
  <2>5. CASE MarkFound(p) BY <1>2, <1>3, <1>4, <2>5 DEF MarkFound
  <2>6. CASE MarkCache(p) BY <1>2, <1>3, <1>4, <2>6 DEF MarkCache, SetField
  <2> QED BY <1>12, <2>1, <2>2, <2>3, <2>4, <2>5, <2>6 DEF Mark
<1>13. CASE Replay(p)
  <2>1. CASE ReplaySkip(p) BY <1>2, <1>3, <1>4, <2>1 DEF ReplaySkip
  <2>2. CASE ReplayRow(p) BY <1>2, <1>3, <1>4, <1>5, <2>2 DEF ReplayRow
  <2>3. CASE ReplayCache(p) BY <1>2, <1>3, <1>4, <2>3 DEF ReplayCache, SetField
  <2> QED BY <1>13, <2>1, <2>2, <2>3 DEF Replay
<1>14. CASE Beat(p)
  <2>1. CASE BeatSkip(p) BY <1>2, <1>3, <1>4, <2>1 DEF BeatSkip
  <2>2. CASE BeatRow(p) BY <1>2, <1>3, <1>4, <1>6, <2>2 DEF BeatRow
  <2>3. CASE BeatCache(p) BY <1>2, <1>3, <1>4, <2>3 DEF BeatCache, SetField
  <2>4. CASE CountRow(p) BY <1>2, <1>3, <1>4, <2>4 DEF CountRow
  <2>5. CASE CountCache(p) BY <1>2, <1>3, <1>4, <2>5 DEF CountCache
  <2> QED BY <1>14, <2>1, <2>2, <2>3, <2>4, <2>5 DEF Beat
<1>15. CASE Score(p)
  <2>1. CASE ScoreSkip(p) BY <1>2, <1>3, <1>4, <2>1 DEF ScoreSkip
  <2>2. CASE ScoreGuest(p) BY <1>2, <1>3, <1>4, <2>2 DEF ScoreGuest
  <2>3. CASE ScoreRow(p) BY <1>2, <1>3, <1>4, <2>3 DEF ScoreRow, SetField
  <2>4. CASE ScoreMeeting(p) BY <1>2, <1>3, <1>4, <2>4 DEF ScoreMeeting
  <2>5. CASE ScoreCommit(p) BY <1>2, <1>3, <1>4, <2>5 DEF ScoreCommit, CommitRow
  <2>6. CASE Feedback(p) BY <1>2, <1>3, <1>4, <2>6 DEF Feedback
  <2> QED BY <1>15, <2>1, <2>2, <2>3, <2>4, <2>5, <2>6 DEF Score
<1>16. CASE Exam(p)
  <2>1. CASE ExamSkip(p) BY <1>2, <1>3, <1>4, <2>1 DEF ExamSkip
  <2>2. CASE ExamRow(p) BY <1>2, <1>3, <1>4, <2>2 DEF ExamRow
  <2>3. CASE ExamCommit(p) BY <1>2, <1>3, <1>4, <2>3 DEF ExamCommit, CommitRow
  <2>4. CASE SaveRead(p) BY <1>2, <1>3, <1>4, <2>4 DEF SaveRead
  <2>5. CASE SaveStore(p) BY <1>2, <1>3, <1>4, <2>5 DEF SaveStore
  <2>6. CASE SaveClear(p) BY <1>2, <1>3, <1>4, <2>6 DEF SaveClear
  <2>7. CASE AnswerQuestion(p) BY <1>2, <1>3, <1>4, <2>7 DEF AnswerQuestion
  <2> QED BY <1>16, <2>1, <2>2, <2>3, <2>4, <2>5, <2>6, <2>7 DEF Exam
<1> QED BY <1>7, <1>8, <1>9, <1>10, <1>11, <1>12, <1>13, <1>14, <1>15, <1>16 DEF Serve

\* A step that changes nothing the statement is about.
LEMMA StillFollows ==
  ASSUME CallInv, NEW p \in Procs, Alone(p), NEW u \in Students, Follows(u),
         hash'[u] = hash[u], row'[u] = row[u], lockR'[u] = lockR[u],
         lockR[u] = p => tx'[p] = tx[p],
         pc[p] \in {"cacheReplay", "cacheMark"} => req[p].user # u
  PROVE  Follows(u)'
<1>1. Base(u)' = Base(u)
  <2>1. lockR[u] \in Procs \union {None} BY DEF CallInv, Typed
  <2> QED BY <2>1 DEF Base, Alone
<1>2. Later(u, "cacheReplay") => Later(u, "cacheReplay")' BY DEF Later, Alone
<1>3. Later(u, "cacheMark") => Later(u, "cacheMark")' BY DEF Later, Alone
<1> QED BY <1>1, <1>2, <1>3 DEF Follows

\* Nobody waits for a write of p's but p.
LEMMA OthersWait ==
  ASSUME NEW p \in Procs, Alone(p), NEW u, NEW label, Later(u, label), pc[p] # label
  PROVE  Later(u, label)'
  BY DEF Later, Alone

LEMMA FollowFrame ==
  ASSUME CallInv, FollowInv, [Next]_vars, NEW p \in Procs, Call(p) \/ Serve(p) \/ Rollback(p) \/ Abandon(p),
         NEW u \in Students \ taint'
  PROVE  /\ Typed /\ Alone(p) /\ Follows(u) /\ u \in Users /\ u \notin Guests /\ u \notin taint
         /\ row \in [Students -> Progress] /\ hash \in [Users -> Progress \union {None}]
         /\ lockR \in [Students -> Procs \union {None}] /\ tx \in [Procs -> Progress]
<1>1. taint \subseteq taint' BY HistoryGrows
<1>2. Typed BY DEF CallInv
<1>3. Alone(p) BY <1>2, Aloneness
<1>4. u \notin taint /\ Follows(u) BY <1>1 DEF FollowInv
<1> QED BY <1>2, <1>3, <1>4, NoGuestIsStudent DEF Typed, Users

\* Reading and filling.
LEMMA FollowReading ==
  ASSUME CallInv, FollowInv, [Next]_vars, NEW p \in Procs, NEW u \in Students \ taint', req[p].user = u,
         Call(p) \/ GetMeeting(p) \/ GetUserProgress(p) \/ Rollback(p) \/ Abandon(p)
  PROVE  Follows(u)'
<1> USE DEF db, cache, locks, local
<1>1. /\ Typed /\ Alone(p) /\ Follows(u) /\ u \in Users /\ u \notin Guests /\ hash \in [Users -> Progress \union {None}]
  BY FollowFrame DEF Serve
<1>2. lockR[u] = p => pc[p] \in {"tally", "commit"} BY DEF CallInv, Locked, InRow
<1>3. ASSUME hash'[u] = hash[u], row'[u] = row[u], lockR'[u] = lockR[u],
             pc[p] \notin {"tally", "commit", "cacheReplay", "cacheMark"}
      PROVE  Follows(u)'
  BY <1>1, <1>2, <1>3, StillFollows
<1>4. CASE Call(p) BY <1>3, <1>4 DEF Call
<1>5. CASE GetMeeting(p)
  <2>1. CASE MeetingHit(p) BY <1>3, <2>1 DEF MeetingHit
  <2>2. CASE MeetingMiss(p) BY <1>3, <2>2 DEF MeetingMiss
  <2>3. CASE MeetingFill(p) BY <1>3, <2>3 DEF MeetingFill
  <2>4. CASE Refuse(p) BY <1>3, <2>4 DEF Refuse
  <2> QED BY <1>5, <2>1, <2>2, <2>3, <2>4 DEF GetMeeting
<1>6. CASE GetUserProgress(p)
  <2>1. CASE ProgressHit(p) BY <1>3, <2>1 DEF ProgressHit
  <2>2. CASE ProgressGuest(p) BY <1>1, <2>2 DEF ProgressGuest
  <2>3. CASE ProgressMiss(p) BY <1>3, <2>3 DEF ProgressMiss
  <2>4. CASE ProgressFill(p)
    <3>1. hash'[u] = seen[p] /\ seen[p] = row[u] /\ lockR[u] = None /\ row' = row /\ lockR' = lockR
      BY <1>1, <2>4 DEF ProgressFill
    <3>2. Base(u)' = hash'[u] BY <3>1 DEF Base
    <3> QED BY <3>2 DEF Follows
  <2> QED BY <1>6, <2>1, <2>2, <2>3, <2>4 DEF GetUserProgress
<1>7. CASE Rollback(p) BY <1>7 DEF Rollback
<1>8. CASE Abandon(p)
  <2>1. pc[p] \notin {"cacheReplay", "cacheMark", "tally", "commit"} BY <1>8 DEF Abandon
  <2> QED BY <1>3, <1>8, <2>1 DEF Abandon
<1> QED BY <1>4, <1>5, <1>6, <1>7, <1>8

\* Transactions on the row.
LEMMA FollowWriting ==
  ASSUME CallInv, FollowInv, [Next]_vars, NEW p \in Procs, NEW u \in Students \ taint', req[p].user = u,
         Mark(p) \/ Score(p) \/ Exam(p)
  PROVE  Follows(u)'
<1> USE DEF db, cache, locks, local
<1>1. /\ Typed /\ Alone(p) /\ Follows(u) /\ u \in Users /\ u \notin Guests /\ hash \in [Users -> Progress \union {None}]
      /\ row \in [Students -> Progress] /\ lockR \in [Students -> Procs \union {None}] /\ tx \in [Procs -> Progress]
      /\ p # None
  BY FollowFrame, NoneIsNoHash DEF Serve
<1>2. lockR[u] = p => pc[p] \in {"tally", "commit"} BY DEF CallInv, Locked, InRow
<1>3. ASSUME hash'[u] = hash[u], row'[u] = row[u], lockR'[u] = lockR[u],
             pc[p] \notin {"cacheReplay", "cacheMark"}, pc[p] \in {"tally", "commit"} => tx' = tx
      PROVE  Follows(u)'
  BY <1>1, <1>2, <1>3, StillFollows
<1>4. ASSUME InRow(p), CommitRow(p), hash'[u] = hash[u] PROVE Follows(u)'
  <2>1. lockR[u] = p BY <1>4 DEF CallInv, Locked
  <2>2. row'[u] = tx[p] /\ lockR'[u] = None BY <1>1, <1>4 DEF CommitRow
  <2>3. Base(u)' = Base(u) BY <1>1, <2>1, <2>2 DEF Base
  <2>4. pc[p] \notin {"cacheReplay", "cacheMark"} BY <1>4 DEF InRow
  <2> QED BY <1>1, <1>4, <2>3, <2>4, OthersWait DEF Follows
<1>5. ASSUME pc[p] = "do", lockR[u] = None, row' = row,
             NEW new \in Progress, new.replay = row[u].replay, new.mark = row[u].mark,
             (lockR'[u] = p /\ tx'[p] = new) \/ (lockR'[u] = None /\ new = row[u]),
             hash'[u] # None => /\ hash[u] # None /\ hash'[u].replay = hash[u].replay /\ hash'[u].mark = hash[u].mark
                                /\ hash'[u].seen = new.seen /\ hash'[u].scored = new.scored
                                /\ hash'[u].exams = new.exams /\ hash'[u].total = new.total
      PROVE  Follows(u)'
  <2>1. Base(u)' = new BY <1>1, <1>5 DEF Base
  <2>2. Base(u) = row[u] BY <1>5 DEF Base
  <2> QED BY <1>1, <1>5, <2>1, <2>2, OthersWait DEF Follows
<1>6. CASE Mark(p)
  <2>1. CASE MarkSkip(p) BY <1>3, <2>1 DEF MarkSkip, Marking, Holds
  <2>2. CASE MarkGuest(p) BY <1>1, <2>2 DEF MarkGuest
  <2>3. CASE MarkRow(p)
    <3> PICK X : X = row[u].seen \union {req[p].item} OBVIOUS
    <3> PICK new : new = [row[u] EXCEPT !.seen = X] OBVIOUS
    <3>1. pc[p] = "do" /\ lockR[u] = None /\ row' = row BY <2>3 DEF MarkRow, Marking, Holds
    <3>2. row[u] \in Progress /\ req[p].item \in Items BY <1>1 DEF Typed, Request
    <3>3. new \in Progress BY <3>2 DEF Progress
    <3>4. /\ new.replay = row[u].replay /\ new.mark = row[u].mark /\ new.scored = row[u].scored
          /\ new.exams = row[u].exams /\ new.total = row[u].total /\ new.seen = X
      BY <3>2 DEF Progress
    <3>5. (lockR'[u] = p /\ tx'[p] = new) \/ (lockR'[u] = None /\ X = row[u].seen)
      <4>1. CASE req[p].item \in row[u].seen /\ UNCHANGED lockR BY <3>1, <4>1
      <4>2. CASE lockR' = [lockR EXCEPT ![u] = p] /\ tx' = [tx EXCEPT ![p] = new] BY <1>1, <4>2
      <4> QED BY <2>3, <4>1, <4>2 DEF MarkRow
    <3>6. X = row[u].seen => new = row[u] BY <3>2 DEF Progress
    <3>7. hash'[u] = Update(hash[u], "seen", X) BY <1>1, <2>3 DEF MarkRow, SetField
    <3>8. hash'[u] # None => hash[u] # None /\ hash'[u] = [hash[u] EXCEPT !.seen = X] BY <3>7 DEF Update
    <3>9. hash[u] \in Progress \union {None} BY <1>1
    <3>10. hash'[u] # None => /\ hash[u] # None /\ hash'[u].replay = hash[u].replay /\ hash'[u].mark = hash[u].mark
                              /\ hash'[u].seen = X /\ hash'[u].scored = hash[u].scored
                              /\ hash'[u].exams = hash[u].exams /\ hash'[u].total = hash[u].total
      BY <3>8, <3>9 DEF Progress
    <3>11. hash[u] # None => hash[u].scored = row[u].scored /\ hash[u].exams = row[u].exams /\ hash[u].total = row[u].total
      BY <1>1, <3>1 DEF Follows, Base
    <3>12. hash'[u] # None => /\ hash[u] # None /\ hash'[u].replay = hash[u].replay /\ hash'[u].mark = hash[u].mark
                            /\ hash'[u].seen = new.seen /\ hash'[u].scored = new.scored
                            /\ hash'[u].exams = new.exams /\ hash'[u].total = new.total
      BY <3>4, <3>10, <3>11
    <3>13. (lockR'[u] = p /\ tx'[p] = new) \/ (lockR'[u] = None /\ new = row[u]) BY <3>5, <3>6
    <3> QED BY <1>5, <3>1, <3>3, <3>4, <3>12, <3>13
  <2>4. CASE MarkCommit(p) BY <1>4, <2>4 DEF MarkCommit, Marking, Holds, InRow
  <2>5. CASE MarkFound(p) BY <1>3, <2>5 DEF MarkFound, Holds
  <2>6. CASE MarkCache(p)
    <3>1. /\ pc[p] = "cacheSeen" /\ row' = row /\ lockR' = lockR /\ seen[p].seen = Base(u).seen
          /\ hash'[u] = Update(hash[u], "seen", seen[p].seen)
      BY <1>1, <2>6 DEF MarkCache, SetField, Holds
    <3>2. hash'[u] # None => hash[u] # None /\ hash'[u] = [hash[u] EXCEPT !.seen = seen[p].seen]
      BY <3>1 DEF Update
    <3>3. hash'[u] # None => /\ hash[u] # None /\ hash'[u].replay = hash[u].replay /\ hash'[u].mark = hash[u].mark
                             /\ hash'[u].seen = seen[p].seen /\ hash'[u].scored = hash[u].scored
                             /\ hash'[u].exams = hash[u].exams /\ hash'[u].total = hash[u].total
      BY <1>1, <3>2 DEF Progress
    <3>4. Base(u)' = Base(u)
      <4>1. lockR[u] = None \/ tx'[lockR[u]] = tx[lockR[u]] BY <1>1, <1>2, <3>1 DEF Alone
      <4> QED BY <3>1, <4>1 DEF Base
    <3>5. Later(u, "cacheReplay") => Later(u, "cacheReplay")' BY <1>1, <3>1, OthersWait
    <3>6. Later(u, "cacheMark") => Later(u, "cacheMark")' BY <1>1, <3>1, OthersWait
    <3> QED BY <1>1, <3>1, <3>3, <3>4, <3>5, <3>6 DEF Follows
  <2> QED BY <1>6, <2>1, <2>2, <2>3, <2>4, <2>5, <2>6 DEF Mark
<1>7. CASE Score(p)
  <2> USE DEF Scoring, Holds
  <2>1. CASE ScoreSkip(p) BY <1>3, <2>1 DEF ScoreSkip
  <2>2. CASE ScoreGuest(p) BY <1>3, <2>2 DEF ScoreGuest
  <2>3. CASE ScoreRow(p)
    <3> PICK new : new = [row[u] EXCEPT !.scored = TRUE] OBVIOUS
    <3>1. pc[p] = "do" /\ lockR[u] = None /\ row' = row /\ lockR'[u] = p /\ tx'[p] = new BY <1>1, <2>3 DEF ScoreRow
    <3>2. row[u] \in Progress BY <1>1
    <3>3. new \in Progress BY <3>2 DEF Progress
    <3>4. /\ new.replay = row[u].replay /\ new.mark = row[u].mark /\ new.seen = row[u].seen
          /\ new.exams = row[u].exams /\ new.total = row[u].total /\ new.scored = TRUE
      BY <3>2 DEF Progress
    <3>7. hash'[u] = Update(hash[u], "scored", TRUE) BY <1>1, <2>3 DEF ScoreRow, SetField
    <3>8. hash'[u] # None => hash[u] # None /\ hash'[u] = [hash[u] EXCEPT !.scored = TRUE] BY <3>7 DEF Update
    <3>9. hash[u] \in Progress \union {None} BY <1>1
    <3>10. hash'[u] # None => /\ hash[u] # None /\ hash'[u].replay = hash[u].replay /\ hash'[u].mark = hash[u].mark
                              /\ hash'[u].scored = TRUE /\ hash'[u].seen = hash[u].seen
                              /\ hash'[u].exams = hash[u].exams /\ hash'[u].total = hash[u].total
      BY <3>8, <3>9 DEF Progress
    <3>11. hash[u] # None => hash[u].seen = row[u].seen /\ hash[u].exams = row[u].exams /\ hash[u].total = row[u].total
      BY <1>1, <3>1 DEF Follows, Base
    <3>12. hash'[u] # None => /\ hash[u] # None /\ hash'[u].replay = hash[u].replay /\ hash'[u].mark = hash[u].mark
                            /\ hash'[u].seen = new.seen /\ hash'[u].scored = new.scored
                            /\ hash'[u].exams = new.exams /\ hash'[u].total = new.total
      BY <3>4, <3>10, <3>11
    <3> QED BY <1>5, <3>1, <3>3, <3>4, <3>12
  <2>4. CASE ScoreMeeting(p) BY <1>3, <2>4 DEF ScoreMeeting
  <2>5. CASE ScoreCommit(p) BY <1>4, <2>5 DEF ScoreCommit, InRow
  <2>6. CASE Feedback(p) BY <1>3, <2>6 DEF Feedback
  <2> QED BY <1>7, <2>1, <2>2, <2>3, <2>4, <2>5, <2>6 DEF Score
<1>8. CASE Exam(p)
  <2> USE DEF Sitting, Holds
  <2>1. CASE ExamSkip(p) BY <1>3, <2>1 DEF ExamSkip
  <2>2. CASE ExamRow(p)
    <3> PICK X, n : X = row[u].exams \union {req[p].exam} /\ n = row[u].total + 1 OBVIOUS
    <3> PICK new : new = [row[u] EXCEPT !.exams = X, !.total = n] OBVIOUS
    <3>1. pc[p] = "do" /\ lockR[u] = None /\ row' = row BY <2>2 DEF ExamRow
    <3>2. row[u] \in Progress /\ req[p].exam \in Exams BY <1>1 DEF Typed, Request
    <3>3. X \in SUBSET Exams /\ n \in Nat BY <3>2 DEF Progress
    <3>4. /\ new \in Progress
          /\ new.replay = row[u].replay /\ new.mark = row[u].mark /\ new.scored = row[u].scored
          /\ new.exams = X /\ new.total = n /\ new.seen = row[u].seen
      BY <3>2, <3>3 DEF Progress
    <3>5. \/ hash' = hash /\ lockR' = lockR
          \/ /\ lockR'[u] = p /\ tx'[p] = new
             /\ hash'[u] = IF hash[u] = None THEN None ELSE [hash[u] EXCEPT !.exams = new.exams, !.total = new.total]
      BY <1>1, <2>2, <3>1 DEF ExamRow
    <3>6. CASE hash' = hash /\ lockR' = lockR BY <1>3, <3>1, <3>6
    <3>7. hash[u] \in Progress \union {None} BY <1>1
    <3>8. CASE /\ lockR'[u] = p /\ tx'[p] = new
               /\ hash'[u] = IF hash[u] = None THEN None ELSE [hash[u] EXCEPT !.exams = new.exams, !.total = new.total]
      <4>1. hash'[u] # None => hash[u] # None /\ hash'[u] = [hash[u] EXCEPT !.exams = X, !.total = n]
        BY <3>4, <3>8
      <4>2. hash'[u] # None => /\ hash[u] # None /\ hash'[u].replay = hash[u].replay /\ hash'[u].mark = hash[u].mark
                               /\ hash'[u].scored = hash[u].scored /\ hash'[u].seen = hash[u].seen
                               /\ hash'[u].exams = X /\ hash'[u].total = n
        BY <3>7, <4>1 DEF Progress
      <4>3. hash[u] # None => hash[u].seen = row[u].seen /\ hash[u].scored = row[u].scored
        BY <1>1, <3>1 DEF Follows, Base
      <4>4. hash'[u] # None => /\ hash[u] # None /\ hash'[u].replay = hash[u].replay /\ hash'[u].mark = hash[u].mark
                              /\ hash'[u].seen = new.seen /\ hash'[u].scored = new.scored
                              /\ hash'[u].exams = new.exams /\ hash'[u].total = new.total
        BY <3>4, <4>2, <4>3
      <4> QED BY <1>5, <3>1, <3>4, <3>8, <4>4
    <3> QED BY <3>5, <3>6, <3>8
  <2>3. CASE ExamCommit(p) BY <1>4, <2>3 DEF ExamCommit, InRow
  <2>4. CASE SaveRead(p) BY <1>3, <2>4 DEF SaveRead
  <2>5. CASE SaveStore(p) BY <1>3, <2>5 DEF SaveStore
  <2>6. CASE SaveClear(p) BY <1>3, <2>6 DEF SaveClear
  <2>7. CASE AnswerQuestion(p) BY <1>3, <2>7 DEF AnswerQuestion
  <2> QED BY <1>8, <2>1, <2>2, <2>3, <2>4, <2>5, <2>6, <2>7 DEF Exam
<1> QED BY <1>6, <1>7, <1>8

\* The columns one UPDATE writes.
LEMMA FollowUpdating ==
  ASSUME CallInv, FollowInv, [Next]_vars, NEW p \in Procs, NEW u \in Students \ taint', req[p].user = u,
         Replay(p) \/ Beat(p)
  PROVE  Follows(u)'
<1> USE DEF db, cache, locks, local
<1>1. /\ Typed /\ Alone(p) /\ Follows(u) /\ u \in Users /\ u \notin Guests /\ hash \in [Users -> Progress \union {None}]
      /\ row \in [Students -> Progress] /\ lockR \in [Students -> Procs \union {None}] /\ pc \in [Procs -> Labels]
  BY FollowFrame DEF Serve, Typed
<1>2. lockR[u] = p => pc[p] \in {"tally", "commit"} BY DEF CallInv, Locked, InRow
<1>3. ASSUME hash'[u] = hash[u], row'[u] = row[u], lockR'[u] = lockR[u],
             pc[p] \notin {"tally", "commit", "cacheReplay", "cacheMark"}
      PROVE  Follows(u)'
  BY <1>1, <1>2, <1>3, StillFollows
<1>4. row[u] \in Progress /\ hash[u] \in Progress \union {None} BY <1>1
<1>5. ASSUME row' = row, lockR' = lockR, tx' = tx \/ lockR[u] # p PROVE Base(u)' = Base(u)
  <2>1. lockR[u] = None \/ tx'[lockR[u]] = tx[lockR[u]] BY <1>1, <1>5 DEF Alone
  <2> QED BY <1>5, <2>1 DEF Base
<1>6. ASSUME lockR[u] = None, lockR' = lockR PROVE Base(u) = row[u] /\ Base(u)' = row'[u] BY <1>6 DEF Base
<1>7. CASE Replay(p)
  <2> USE DEF Holds
  <2>1. CASE ReplaySkip(p) BY <1>3, <2>1 DEF ReplaySkip
  <2>2. CASE ReplayRow(p)
    <3>1. /\ lockR[u] = None /\ row' = [row EXCEPT ![u].replay = TRUE] /\ lockR' = lockR /\ hash' = hash
          /\ req' = req /\ pc[p] = "do" /\ pc' = [pc EXCEPT ![p] = "cacheReplay"]
      BY <2>2 DEF ReplayRow, Goto
    <3>2. row'[u] = [row[u] EXCEPT !.replay = TRUE] BY <1>1, <3>1
    <3>3. /\ row'[u].seen = row[u].seen /\ row'[u].scored = row[u].scored /\ row'[u].exams = row[u].exams
          /\ row'[u].total = row[u].total /\ row'[u].mark = row[u].mark
      BY <1>4, <3>2 DEF Progress
    <3>4. Later(u, "cacheReplay")' BY <1>1, <3>1 DEF Later
    <3>5. Later(u, "cacheMark") => Later(u, "cacheMark")' BY <1>1, <3>1, OthersWait
    <3>6. Base(u) = row[u] /\ Base(u)' = row'[u] BY <1>6, <3>1
    <3>7. hash[u] # None => /\ hash[u].seen = row'[u].seen /\ hash[u].scored = row'[u].scored
                            /\ hash[u].exams = row'[u].exams /\ hash[u].total = row'[u].total
                            /\ hash[u].mark = row'[u].mark \/ Later(u, "cacheMark")'
      BY <1>1, <3>3, <3>5, <3>6 DEF Follows
    <3> QED BY <3>1, <3>4, <3>6, <3>7 DEF Follows
  <2>3. CASE ReplayCache(p)
    <3>1. pc[p] = "cacheReplay" /\ row' = row /\ lockR' = lockR /\ hash'[u] = Update(hash[u], "replay", TRUE)
      BY <1>1, <2>3 DEF ReplayCache, SetField
    <3>2. hash'[u] # None => hash[u] # None /\ hash'[u] = [hash[u] EXCEPT !.replay = TRUE] BY <3>1 DEF Update
    <3>3. hash'[u] # None => /\ hash[u] # None /\ hash'[u].seen = hash[u].seen /\ hash'[u].scored = hash[u].scored
                             /\ hash'[u].exams = hash[u].exams /\ hash'[u].total = hash[u].total
                             /\ hash'[u].mark = hash[u].mark /\ hash'[u].replay = TRUE
      BY <1>4, <3>2 DEF Progress
    <3>4. Base(u)' = Base(u) BY <1>2, <1>5, <3>1
    <3>5. Base(u).replay = row[u].replay BY BaseIs
    <3>6. row[u].replay = TRUE BY <1>4, <3>1 DEF FollowInv, Progress
    <3>7. Later(u, "cacheMark") => Later(u, "cacheMark")' BY <1>1, <3>1, OthersWait
    <3> QED BY <1>1, <3>3, <3>4, <3>5, <3>6, <3>7 DEF Follows
  <2> QED BY <1>7, <2>1, <2>2, <2>3 DEF Replay
<1>8. CASE Beat(p)
  <2> USE DEF Holds, Beating
  <2>1. CASE BeatSkip(p) BY <1>3, <2>1 DEF BeatSkip
  <2>2. CASE BeatRow(p)
    <3>1. /\ lockR[u] = None /\ row' = [row EXCEPT ![u].mark = req[p].seconds] /\ lockR' = lockR /\ hash' = hash
          /\ req' = req /\ pc[p] = "do" /\ pc' = [pc EXCEPT ![p] = "cacheMark"]
      BY <2>2 DEF BeatRow, Goto
    <3>2. row'[u] = [row[u] EXCEPT !.mark = req[p].seconds] BY <1>1, <3>1
    <3>3. /\ row'[u].seen = row[u].seen /\ row'[u].scored = row[u].scored /\ row'[u].exams = row[u].exams
          /\ row'[u].total = row[u].total /\ row'[u].replay = row[u].replay
      BY <1>4, <3>2 DEF Progress
    <3>4. Later(u, "cacheMark")' BY <1>1, <3>1 DEF Later
    <3>5. Later(u, "cacheReplay") => Later(u, "cacheReplay")' BY <1>1, <3>1, OthersWait
    <3>6. Base(u) = row[u] /\ Base(u)' = row'[u] BY <1>6, <3>1
    <3> QED BY <1>1, <3>1, <3>3, <3>4, <3>5, <3>6 DEF Follows
  <2>3. CASE BeatCache(p)
    <3>1. /\ pc[p] = "cacheMark" /\ row' = row /\ lockR' = lockR
          /\ hash'[u] = Update(hash[u], "mark", req[p].seconds) /\ row[u].mark = req[p].seconds
      BY <1>1, <2>3 DEF BeatCache, SetField
    <3>2. hash'[u] # None => hash[u] # None /\ hash'[u] = [hash[u] EXCEPT !.mark = req[p].seconds]
      BY <3>1 DEF Update
    <3>3. hash'[u] # None => /\ hash[u] # None /\ hash'[u].seen = hash[u].seen /\ hash'[u].scored = hash[u].scored
                             /\ hash'[u].exams = hash[u].exams /\ hash'[u].total = hash[u].total
                             /\ hash'[u].replay = hash[u].replay /\ hash'[u].mark = req[p].seconds
      BY <1>4, <3>2 DEF Progress
    <3>4. Base(u)' = Base(u) BY <1>2, <1>5, <3>1
    <3>5. Base(u).mark = row[u].mark BY BaseIs
    <3>7. Later(u, "cacheReplay") => Later(u, "cacheReplay")' BY <1>1, <3>1, OthersWait
    <3> QED BY <1>1, <3>1, <3>3, <3>4, <3>5, <3>7 DEF Follows
  <2>4. CASE CountRow(p) BY <1>3, <2>4 DEF CountRow
  <2>5. CASE CountCache(p) BY <1>3, <2>5 DEF CountCache
  <2> QED BY <1>8, <2>1, <2>2, <2>3, <2>4, <2>5 DEF Beat
<1> QED BY <1>7, <1>8

LEMMA FollowSteps == ASSUME CallInv, FollowInv, [Next]_vars PROVE FollowInv'
<1>1. ASSUME NEW p \in Procs, pc'[p] = "cacheReplay", req'[p].user \in Students PROVE row'[req'[p].user].replay
  <2>1. CASE pc'[p] = pc[p] /\ req'[p] = req[p]
    <3>1. row[req[p].user].replay BY <1>1, <2>1 DEF FollowInv
    <3> QED BY <1>1, <2>1, <3>1, RowsAreKept DEF Kept
  <2>2. CASE ReplayRow(p)
    <3>1. req' = req /\ row' = [row EXCEPT ![req[p].user].replay = TRUE] BY <1>1, <2>2 DEF ReplayRow, local
    <3>2. row \in [Students -> Progress] BY DEF CallInv, Typed
    <3>3. row'[req[p].user] = [row[req[p].user] EXCEPT !.replay = TRUE] BY <1>1, <3>1, <3>2
    <3> QED BY <1>1, <3>1, <3>2, <3>3 DEF Progress
  <2> QED BY <1>1, <2>1, <2>2, Staying, Arriving DEF CallInv
<1>2. ASSUME NEW u \in Students \ taint' PROVE Follows(u)'
  <2>1. ASSUME NEW p \in Procs, Call(p) \/ Serve(p) \/ Rollback(p) \/ Abandon(p) PROVE Follows(u)'
    <3>1. CASE req[p].user = u
      BY <2>1, <3>1, FollowReading, FollowWriting, FollowUpdating DEF Serve
    <3>2. CASE req[p].user # u
      <4>1. hash'[u] = hash[u] /\ row'[u] = row[u] /\ lockR'[u] = lockR[u] BY <2>1, <3>2, Elsewhere
      <4>2. lockR[u] # p BY <3>2 DEF CallInv, Locked
      <4> QED BY <2>1, <3>2, <4>1, <4>2, FollowFrame, StillFollows
    <3> QED BY <3>1, <3>2
  <2>2. ASSUME NEW v \in Guests, Expire(v) PROVE Follows(u)'
    <3>1. u \notin taint /\ u # v /\ hash \in [Users -> Progress \union {None}]
      BY <2>2, HistoryGrows, NoGuestIsStudent DEF CallInv, Typed
    <3>2. hash'[u] = hash[u] /\ UNCHANGED <<row, lockR, tx, pc, req>>
      BY <2>2, <3>1 DEF Expire, db, locks, local, Users
    <3> QED BY <3>1, <3>2 DEF FollowInv, Follows, Base, Later
  <2>3. CASE UNCHANGED vars
    BY <2>3 DEF vars, db, cache, locks, local, history, FollowInv, Follows, Base, Later
  <2> QED BY <2>1, <2>2, <2>3 DEF Next
<1> QED BY <1>1, <1>2 DEF FollowInv

(***************************************************************************)
(* Why the meeting's hash is its row: the score a transaction will commit  *)
(* is in the hash already, and an attendee the row counts is missing there *)
(* as long as its call is at countCache.                                   *)
(***************************************************************************)

Counting == {p \in Procs : pc[p] = "countCache"}

MeetingInv ==
  /\ cMeeting = None =>
       /\ meeting = NoCounts
       /\ \A p \in Procs : pc[p] \in {"idle", "get", "fillMeeting"} \/ req[p].op \in {"replay", "question"}
  /\ \A p \in Procs : pc[p] = "fillMeeting" => seen[p] = NoCounts
  /\ Counting # {} => meeting.attendees > 0
  /\ cMeeting # None /\ "meeting" \notin taint =>
       /\ cMeeting.attendees + Cardinality(Counting) = meeting.attendees
       /\ cMeeting.scores = IF lockM = None THEN meeting.scores ELSE meeting.scores + 1

LEMMA MeetingChanges ==
  ASSUME NEW p \in Procs, Call(p) \/ Serve(p) \/ Rollback(p) \/ Abandon(p)
  PROVE  \/ UNCHANGED <<meeting, cMeeting, lockM>>
         \/ MeetingFill(p) \/ CountRow(p) \/ CountCache(p) \/ ScoreMeeting(p) \/ ScoreCommit(p) \/ Rollback(p)
<1> USE DEF db, cache, locks
<1>1. CASE Call(p) \/ Abandon(p) BY <1>1 DEF Call, Abandon
<1>2. CASE GetMeeting(p) BY <1>2 DEF GetMeeting, MeetingHit, MeetingMiss, Refuse
<1>3. CASE GetUserProgress(p)
  BY <1>3 DEF GetUserProgress, ProgressHit, ProgressGuest, ProgressMiss, ProgressFill
<1>4. CASE Mark(p) BY <1>4 DEF Mark, MarkSkip, MarkGuest, MarkRow, MarkFound, MarkCache, MarkCommit
<1>5. CASE Replay(p) BY <1>5 DEF Replay, ReplaySkip, ReplayRow, ReplayCache
<1>6. CASE Beat(p) BY <1>6 DEF Beat, BeatSkip, BeatRow, BeatCache
<1>7. CASE Score(p) BY <1>7 DEF Score, ScoreSkip, ScoreGuest, ScoreRow, Feedback
<1>8. CASE Exam(p) BY <1>8 DEF Exam, ExamSkip, ExamRow, ExamCommit, SaveRead, SaveStore, SaveClear, AnswerQuestion
<1> QED BY <1>1, <1>2, <1>3, <1>4, <1>5, <1>6, <1>7, <1>8 DEF Serve

\* Past the cached meeting a call stays the call it is, until it returns.
LEMMA PastMeeting ==
  ASSUME CallInv, NEW p \in Procs, Serve(p) \/ Rollback(p) \/ Abandon(p), ~GetMeeting(p)
  PROVE  pc[p] \notin {"idle", "get", "fillMeeting"} /\ (pc'[p] = "idle" \/ req'[p] = req[p])
<1> USE DEF local, Holds
<1>1. Return(p) => pc'[p] = "idle" BY Returning DEF CallInv
<1>3. CASE GetUserProgress(p)
  BY <1>3 DEF GetUserProgress, ProgressHit, ProgressGuest, ProgressMiss, ProgressFill
<1>4. CASE Mark(p) BY <1>1, <1>4 DEF Mark, MarkSkip, MarkGuest, MarkRow, MarkFound, MarkCache, MarkCommit, Marking
<1>5. CASE Replay(p) BY <1>1, <1>5 DEF Replay, ReplaySkip, ReplayRow, ReplayCache
<1>6. CASE Beat(p)
  BY <1>1, <1>6 DEF Beat, BeatSkip, BeatRow, BeatCache, CountRow, CountCache, Beating
<1>7. CASE Score(p)
  BY <1>1, <1>7 DEF Score, ScoreSkip, ScoreGuest, ScoreRow, ScoreMeeting, ScoreCommit, Feedback, Scoring
<1>8. CASE Exam(p)
  BY <1>1, <1>8 DEF Exam, ExamSkip, ExamRow, ExamCommit, SaveRead, SaveStore, SaveClear, AnswerQuestion, Sitting
<1>9. CASE Rollback(p) \/ Abandon(p) BY <1>1, <1>9 DEF Rollback, Abandon
<1> QED BY <1>3, <1>4, <1>5, <1>6, <1>7, <1>8, <1>9 DEF Serve

LEMMA CountingChanges ==
  ASSUME CallInv, NEW p \in Procs, Call(p) \/ Serve(p) \/ Rollback(p) \/ Abandon(p)
  PROVE  /\ IsFiniteSet(Counting) /\ Cardinality(Counting) \in Nat
         /\ CountRow(p) => Cardinality(Counting') = Cardinality(Counting) + 1
         /\ CountCache(p) => Cardinality(Counting') + 1 = Cardinality(Counting)
         /\ CountRow(p) \/ CountCache(p) \/ (Abandon(p) /\ pc[p] = "countCache") \/ Counting' = Counting
<1>1. IsFiniteSet(Counting) /\ Cardinality(Counting) \in Nat
  BY FinitelyMany, FS_Subset, FS_CardinalityType DEF Counting
<1>2. Typed BY DEF CallInv
<1>3. Alone(p) BY <1>2, Aloneness
<1>4. \A q \in Procs \ {p} : pc'[q] = pc[q] BY <1>3 DEF Alone
<1>5. ASSUME CountRow(p) PROVE Cardinality(Counting') = Cardinality(Counting) + 1
  <2>1. pc[p] # "countCache" /\ pc'[p] = "countCache" BY <1>2, <1>5 DEF CountRow, Beating, Holds, Goto, Typed
  <2>2. Counting' = Counting \union {p} /\ p \notin Counting BY <1>4, <2>1 DEF Counting
  <2> QED BY <1>1, <2>2, FS_AddElement
<1>6. ASSUME CountCache(p) PROVE Cardinality(Counting') + 1 = Cardinality(Counting)
  <2>1. pc[p] = "countCache" /\ pc'[p] = "idle" BY <1>2, <1>6, Returning DEF CountCache, Beating, Holds
  <2>2. Counting' = Counting \ {p} /\ p \in Counting BY <1>4, <2>1 DEF Counting
  <2>3. Cardinality(Counting') = Cardinality(Counting) - 1 BY <1>1, <2>2, FS_RemoveElement
  <2> QED BY <1>1, <2>3
<1>7. CountRow(p) \/ CountCache(p) \/ (Abandon(p) /\ pc[p] = "countCache") \/ Counting' = Counting
  <2>1. CASE pc[p] = "countCache" BY <2>1, OneWayOn
  <2>2. CASE pc'[p] = "countCache" BY <1>2, <2>2, Arriving
  <2>3. CASE pc[p] # "countCache" /\ pc'[p] # "countCache" BY <1>4, <2>3 DEF Counting
  <2> QED BY <2>1, <2>2, <2>3
<1> QED BY <1>1, <1>5, <1>6, <1>7

LEMMA CountsChange ==
  ASSUME NEW c \in Counts, NEW n \in Nat
  PROVE  /\ c # None /\ c.attendees \in Nat /\ c.scores \in Nat
         /\ [c EXCEPT !.scores = n] \in Counts /\ [c EXCEPT !.scores = n].scores = n
         /\ [c EXCEPT !.scores = n].attendees = c.attendees /\ [c EXCEPT !.scores = n] # None
         /\ [c EXCEPT !.attendees = n] \in Counts /\ [c EXCEPT !.attendees = n].attendees = n
         /\ [c EXCEPT !.attendees = n].scores = c.scores /\ [c EXCEPT !.attendees = n] # None
<1>1. /\ c.attendees \in Nat /\ c.scores \in Nat
      /\ [c EXCEPT !.scores = n] \in Counts /\ [c EXCEPT !.scores = n].scores = n
      /\ [c EXCEPT !.scores = n].attendees = c.attendees
      /\ [c EXCEPT !.attendees = n] \in Counts /\ [c EXCEPT !.attendees = n].attendees = n
      /\ [c EXCEPT !.attendees = n].scores = c.scores
  BY DEF Counts
<1> QED BY <1>1, NoneIsNoHash

LEMMA MeetingStep ==
  ASSUME CallInv, MeetingInv, [Next]_vars, NEW p \in Procs, Call(p) \/ Serve(p) \/ Rollback(p) \/ Abandon(p)
  PROVE  MeetingInv'
<1>1. /\ Typed /\ Alone(p) /\ Fits(p) /\ meeting \in Counts /\ cMeeting \in Counts \union {None}
      /\ None \notin Counts /\ p # None /\ NoCounts \in Counts /\ taint \subseteq taint'
  BY Aloneness, Records, NoneIsNoHash, HistoryGrows DEF CallInv, Typed
<1>2. /\ pc \in [Procs -> Labels] /\ req \in [Procs -> Request] /\ seen \in [Procs -> Progress \union Counts]
      /\ \A q \in Procs \ {p} : pc'[q] = pc[q] /\ req'[q] = req[q] /\ seen'[q] = seen[q]
  BY <1>1 DEF Typed, Alone
<1>3. /\ \A x \in Counts : x.attendees \in Nat /\ x.scores \in Nat
      /\ NoCounts.attendees = 0 /\ NoCounts.scores = 0
  BY DEF Counts, NoCounts
<1>4. /\ meeting' = meeting \/ (CountRow(p) /\ meeting' = [meeting EXCEPT !.attendees = @ + 1])
         \/ (ScoreCommit(p) /\ meeting' = [meeting EXCEPT !.scores = seen[p].scores])
      /\ \/ cMeeting' = cMeeting
         \/ MeetingFill(p) /\ cMeeting' = seen[p]
         \/ ScoreMeeting(p) /\ cMeeting' = Update(cMeeting, "scores", meeting.scores + 1)
         \/ CountCache(p) /\ cMeeting' = IF cMeeting = None THEN None ELSE [cMeeting EXCEPT !.attendees = @ + 1]
  BY MeetingChanges DEF MeetingFill, CountRow, CountCache, ScoreMeeting, ScoreCommit, Rollback, db, cache
<1>5. MeetingFill(p) => /\ pc[p] = "fillMeeting" /\ seen[p] = NoCounts /\ NoCounts # None
                        /\ seen[p].scores = 0 /\ seen[p].attendees = 0
  BY <1>1, <1>3 DEF MeetingFill, MeetingInv
<1>6. cMeeting' = None => cMeeting = None
  <2>1. CASE ScoreMeeting(p) /\ cMeeting' = Update(cMeeting, "scores", meeting.scores + 1)
    <3>1. meeting.scores + 1 \in Nat BY <1>1, <1>3
    <3> QED BY <1>1, <2>1, <3>1, CountsChange DEF Update
  <2>2. CASE CountCache(p) /\ cMeeting' = IF cMeeting = None THEN None ELSE [cMeeting EXCEPT !.attendees = @ + 1]
    <3>1. cMeeting # None => cMeeting \in Counts /\ cMeeting.attendees + 1 \in Nat BY <1>1, <1>3
    <3> QED BY <2>2, <3>1, CountsChange
  <2> QED BY <1>4, <1>5, <2>1, <2>2
<1>7. ASSUME cMeeting' = None
      PROVE  /\ meeting' = NoCounts
             /\ \A q \in Procs : pc'[q] \in {"idle", "get", "fillMeeting"} \/ req'[q].op \in {"replay", "question"}
  <2>1. /\ cMeeting = None /\ meeting = NoCounts
        /\ \A q \in Procs : pc[q] \in {"idle", "get", "fillMeeting"} \/ req[q].op \in {"replay", "question"}
    BY <1>6, <1>7 DEF MeetingInv
  <2>2. ~CountRow(p) /\ ~ScoreCommit(p)
    BY <1>1, <2>1 DEF CountRow, ScoreCommit, Beating, Scoring, Holds, Fits
  <2>3. pc'[p] \in {"idle", "get", "fillMeeting"} \/ req'[p].op \in {"replay", "question"}
    <3>1. CASE Call(p)
      <4> PICK r : /\ req' = [req EXCEPT ![p] = r]
                   /\ Goto(p, CASE r.op = "replay" -> "look" [] r.op = "question" -> "do" [] OTHER -> "get")
        BY <3>1 DEF Call
      <4>1. CASE r.op \in {"replay", "question"} BY <1>2, <4>1
      <4>2. CASE r.op \notin {"replay", "question"} BY <1>2, <4>2 DEF Goto
      <4> QED BY <4>1, <4>2
    <3>2. CASE GetMeeting(p)
      <4>1. ~MeetingHit(p) /\ ~MeetingFill(p) BY <1>5, <1>7, <2>1 DEF MeetingHit, MeetingFill
      <4>2. CASE MeetingMiss(p) BY <1>2, <4>2 DEF MeetingMiss, Goto
      <4>3. CASE Refuse(p) BY <1>1, <4>3, Returning DEF Refuse
      <4> QED BY <3>2, <4>1, <4>2, <4>3 DEF GetMeeting
    <3>3. CASE ~Call(p) /\ ~GetMeeting(p) BY <2>1, <3>3, PastMeeting
    <3> QED BY <3>1, <3>2, <3>3
  <2> QED BY <1>2, <1>4, <2>1, <2>2, <2>3
<1>8. ASSUME NEW q \in Procs, pc'[q] = "fillMeeting" PROVE seen'[q] = NoCounts
  <2>1. CASE q # p BY <1>2, <1>8, <2>1 DEF MeetingInv
  <2>2. CASE q = p
    <3>1. MeetingMiss(p) BY <1>1, <1>8, <2>2, Arriving
    <3> QED BY <1>2, <2>2, <3>1 DEF MeetingMiss, MeetingInv
  <2> QED BY <2>1, <2>2
<1>10. /\ CountRow(p) => meeting'.attendees = meeting.attendees + 1 /\ meeting'.scores = meeting.scores
       /\ ScoreCommit(p) => meeting'.attendees = meeting.attendees /\ meeting'.scores = meeting.scores + 1
       /\ ~CountRow(p) /\ ~ScoreCommit(p) => meeting' = meeting
  <2>1. meeting.attendees + 1 \in Nat /\ meeting.scores + 1 \in Nat BY <1>1, <1>3
  <2>2. CountRow(p) => meeting' = [meeting EXCEPT !.attendees = meeting.attendees + 1] BY DEF CountRow
  <2>3. ASSUME ScoreCommit(p) PROVE meeting' = [meeting EXCEPT !.scores = meeting.scores + 1]
    <3>1. seen[p] = [meeting EXCEPT !.scores = meeting.scores + 1]
      BY <2>3 DEF CallInv, Writing, InMeeting, ScoreCommit, Scoring, Holds
    <3>2. seen[p].scores = meeting.scores + 1 BY <1>1, <2>1, <3>1, CountsChange
    <3> QED BY <2>3, <3>2 DEF ScoreCommit
  <2>4. /\ [meeting EXCEPT !.attendees = meeting.attendees + 1].attendees = meeting.attendees + 1
        /\ [meeting EXCEPT !.attendees = meeting.attendees + 1].scores = meeting.scores
        /\ [meeting EXCEPT !.scores = meeting.scores + 1].attendees = meeting.attendees
        /\ [meeting EXCEPT !.scores = meeting.scores + 1].scores = meeting.scores + 1
    BY <1>1, <2>1, CountsChange
  <2> QED BY <1>4, <2>2, <2>3, <2>4
<1>9. Counting' # {} => meeting'.attendees > 0
  <2>1. meeting'.attendees \in Nat /\ meeting'.attendees >= meeting.attendees
    <3> QED BY <1>1, <1>3, <1>10
  <2>2. CASE CountRow(p) BY <1>1, <1>3, <1>10, <2>2
  <2>3. Counting' # {} /\ ~CountRow(p) => Counting # {}
    BY <1>1, <1>2, Arriving DEF Counting
  <2> QED BY <1>1, <1>3, <2>1, <2>2, <2>3 DEF MeetingInv
<1>11. ASSUME cMeeting' # None, "meeting" \notin taint'
       PROVE  /\ cMeeting'.attendees + Cardinality(Counting') = meeting'.attendees
              /\ cMeeting'.scores = IF lockM' = None THEN meeting'.scores ELSE meeting'.scores + 1
  <2>1. cMeeting # None => /\ cMeeting \in Counts
                           /\ cMeeting.attendees + Cardinality(Counting) = meeting.attendees
                           /\ cMeeting.scores = IF lockM = None THEN meeting.scores ELSE meeting.scores + 1
    BY <1>1, <1>11 DEF MeetingInv
  <2>2. meeting.attendees \in Nat /\ meeting.scores \in Nat /\ Cardinality(Counting) \in Nat
    BY <1>1, <1>3, CountingChanges
  <2>3. CASE MeetingFill(p)
    <3>1. seen[p] = meeting /\ lockM = None /\ cMeeting' = seen[p] /\ meeting' = meeting /\ lockM' = lockM
      BY <1>11, <2>3 DEF MeetingFill, db, locks
    <3>2. Counting = {} BY <1>5, <2>3, <3>1 DEF MeetingInv
    <3>3. Counting' = {} BY <1>1, <1>2, <1>5, <2>3, <3>2, Arriving DEF Counting, MeetingFill, CountRow, Beating, Holds
    <3> QED BY <1>5, <2>3, <3>1, <3>3, FS_EmptySet
  <2>4. CASE ScoreMeeting(p)
    <3>1. /\ lockM = None /\ lockM' = p /\ meeting' = meeting /\ Counting' = Counting
          /\ cMeeting' = Update(cMeeting, "scores", meeting.scores + 1)
      <4>1. pc[p] = "tally" BY <2>4 DEF ScoreMeeting, Scoring, Holds
      <4>2. ~CountRow(p) /\ ~CountCache(p) /\ pc[p] # "countCache"
        BY <4>1 DEF CountRow, CountCache, Beating, Holds
      <4> QED BY <2>4, <4>2, CountingChanges DEF ScoreMeeting, db
    <3>2. cMeeting # None /\ cMeeting' = [cMeeting EXCEPT !.scores = meeting.scores + 1]
      BY <1>11, <3>1 DEF Update
    <3>3. cMeeting \in Counts /\ meeting.scores + 1 \in Nat BY <2>1, <2>2, <3>2
    <3>4. cMeeting'.attendees = cMeeting.attendees /\ cMeeting'.scores = meeting.scores + 1
      BY <3>2, <3>3, CountsChange
    <3> QED BY <1>1, <2>1, <3>1, <3>2, <3>4
  <2>5. CASE ScoreCommit(p)
    <3>1. lockM = p /\ lockM' = None /\ cMeeting' = cMeeting /\ Counting' = Counting
      <4>1. pc[p] = "commit" /\ req[p].op = "score" BY <2>5 DEF ScoreCommit, Scoring, Holds
      <4>2. ~CountRow(p) /\ ~CountCache(p) /\ pc[p] # "countCache"
        BY <4>1 DEF CountRow, CountCache, Beating, Holds
      <4>3. lockM = p BY <4>1 DEF CallInv, Locked, InMeeting
      <4> QED BY <2>5, <4>2, <4>3, CountingChanges DEF ScoreCommit, cache
    <3> QED BY <1>1, <1>10, <1>11, <2>1, <2>2, <2>5, <3>1
  <2>6. CASE CountRow(p)
    <3>1. lockM = None /\ lockM' = lockM /\ cMeeting' = cMeeting BY <2>6 DEF CountRow, locks, cache
    <3>2. Cardinality(Counting') = Cardinality(Counting) + 1 BY <2>6, CountingChanges
    <3>3. cMeeting.attendees \in Nat BY <1>3, <1>11, <2>1, <3>1
    <3> QED BY <1>10, <1>11, <2>1, <2>2, <2>6, <3>1, <3>2, <3>3
  <2>7. CASE CountCache(p)
    <3>1. lockM' = lockM /\ meeting' = meeting /\ cMeeting # None
          /\ cMeeting' = [cMeeting EXCEPT !.attendees = cMeeting.attendees + 1]
      BY <1>11, <2>7 DEF CountCache, locks, db
    <3>2. Cardinality(Counting') + 1 = Cardinality(Counting) /\ Cardinality(Counting') \in Nat
      BY <2>2, <2>7, CountingChanges, FS_CardinalityType, FinitelyMany, FS_Subset DEF Counting
    <3>3. cMeeting \in Counts /\ cMeeting.attendees + 1 \in Nat BY <1>3, <2>1, <3>1
    <3>4. cMeeting'.attendees = cMeeting.attendees + 1 /\ cMeeting'.scores = cMeeting.scores
      BY <3>1, <3>3, CountsChange
    <3> QED BY <1>3, <2>1, <2>2, <3>1, <3>2, <3>3, <3>4
  <2>8. CASE UNCHANGED <<meeting, cMeeting, lockM>> /\ Counting' = Counting BY <1>11, <2>1, <2>8
  <2>9. CASE Rollback(p)
    <3>1. lockM # p /\ UNCHANGED <<meeting, cMeeting, lockM>> BY <1>1, <1>11, <2>9 DEF Rollback, db, cache
    <3>2. ~CountRow(p) /\ ~CountCache(p) /\ pc[p] # "countCache"
      BY <2>9 DEF Rollback, CountRow, CountCache, Beating, Holds
    <3> QED BY <2>8, <3>1, <3>2, CountingChanges
  <2>10. ~(Abandon(p) /\ pc[p] = "countCache") BY <1>11 DEF Abandon
  <2> QED BY <2>3, <2>4, <2>5, <2>6, <2>7, <2>8, <2>9, <2>10, MeetingChanges, CountingChanges
<1> QED BY <1>7, <1>8, <1>9, <1>11 DEF MeetingInv

LEMMA MeetingSteps == ASSUME CallInv, MeetingInv, [Next]_vars PROVE MeetingInv'
<1>1. ASSUME NEW u \in Guests, Expire(u) PROVE MeetingInv'
  <2>1. UNCHANGED <<meeting, cMeeting, lockM, pc, req, seen, taint>> BY <1>1 DEF Expire, db, locks, local, history
  <2>2. Counting' = Counting BY <2>1 DEF Counting
  <2> QED BY <2>1, <2>2 DEF MeetingInv
<1>2. CASE UNCHANGED vars
  <2>1. UNCHANGED <<meeting, cMeeting, lockM, pc, req, seen, taint>>
    BY <1>2 DEF vars, db, cache, locks, local, history
  <2>2. Counting' = Counting BY <2>1 DEF Counting
  <2> QED BY <2>1, <2>2 DEF MeetingInv
<1> QED BY <1>1, <1>2, MeetingStep DEF Next

\* CacheFollowsDatabase: the hashes are written in the middle of transactions and
\* after single UPDATEs, and agree with the rows outside of them.
THEOREM HashesFollowProgress == Spec => []CacheFollowsDatabase
<1>1. Init => CallInv /\ FollowInv /\ MeetingInv
  <2> SUFFICES ASSUME Init PROVE FollowInv /\ MeetingInv BY CallInit
  <2>1. /\ pc = [p \in Procs |-> "idle"] /\ row = [u \in Students |-> Blank] /\ meeting = NoCounts
        /\ lockR = [u \in Students |-> None] /\ lockM = None /\ cMeeting \in {None, NoCounts}
    BY DEF Init
  <2>2. PICK C : hash = [u \in Users |-> IF u \in C THEN Blank ELSE None] BY DEF Init
  <2>3. FollowInv
    <3>1. ASSUME NEW u \in Students PROVE Follows(u)
      <4>1. row[u] = Blank /\ Base(u) = Blank /\ (hash[u] = Blank \/ hash[u] = None) BY <2>1, <2>2 DEF Base, Users
      <4> QED BY <4>1 DEF Follows
    <3> QED BY <2>1, <3>1 DEF FollowInv
  <2>4. Counting = {} BY <2>1 DEF Counting
  <2>5. MeetingInv
    <3>1. Cardinality(Counting) = 0 BY <2>4, FS_EmptySet
    <3> QED BY <2>1, <2>4, <3>1 DEF MeetingInv, NoCounts
  <2> QED BY <2>3, <2>5
<1>2. CallInv /\ FollowInv /\ MeetingInv /\ [Next]_vars => CallInv' /\ FollowInv' /\ MeetingInv'
  BY CallSteps, FollowSteps, MeetingSteps
<1>3. CallInv /\ FollowInv /\ MeetingInv => CacheFollowsDatabase
  <2> SUFFICES ASSUME CallInv, FollowInv, MeetingInv PROVE CacheFollowsDatabase OBVIOUS
  <2>1. ASSUME NEW u \in Students, hash[u] # None, lockR[u] = None, u \notin taint,
               ~\E p \in Procs : req[p].user = u /\ pc[p] \in {"cacheMark", "cacheReplay"}
        PROVE  hash[u] = row[u]
    <3>1. hash[u] \in Progress /\ row[u] \in Progress BY <2>1, BaseIs
    <3>2. Base(u) = row[u] /\ Follows(u) /\ ~Later(u, "cacheMark") /\ ~Later(u, "cacheReplay")
      BY <2>1 DEF Base, FollowInv, Later
    <3>3. /\ hash[u].seen = row[u].seen /\ hash[u].scored = row[u].scored /\ hash[u].exams = row[u].exams
          /\ hash[u].total = row[u].total /\ hash[u].replay = row[u].replay /\ hash[u].mark = row[u].mark
      BY <2>1, <3>2 DEF Follows
    <3> QED BY <3>1, <3>3 DEF Progress
  <2>2. ASSUME cMeeting # None, lockM = None, "meeting" \notin taint, ~\E p \in Procs : pc[p] = "countCache"
        PROVE  cMeeting = meeting
    <3>1. Counting = {} BY <2>2 DEF Counting
    <3>2. Cardinality(Counting) = 0 BY <3>1, FS_EmptySet
    <3>3. cMeeting \in Counts /\ meeting \in Counts BY <2>2 DEF CallInv, Typed
    <3>4. cMeeting.attendees = meeting.attendees /\ cMeeting.scores = meeting.scores
      BY <2>2, <3>2, <3>3 DEF MeetingInv, Counts
    <3> QED BY <3>3, <3>4 DEF Counts
  <2> QED BY <2>1, <2>2 DEF CacheFollowsDatabase
<1> QED BY <1>1, <1>2, <1>3, PTL DEF Spec

(***************************************************************************)
(* Why attendees are counted: a mark that says that a user attends comes   *)
(* from a heartbeat, and a heartbeat that comes first counts the user.     *)
(***************************************************************************)

Coming == {p \in Procs : pc[p] \in {"cacheMark", "count"} /\ FirstTime(p)}

\* Some row, hash or handler says that u has attended.
Been(u) ==
  \/ Attending(u)
  \/ hash[u] # None /\ Present(hash[u].mark)
  \/ \E p \in Procs : /\ req[p].user = u
                      /\ \/ (pc[p] = "fill" \/ (pc[p] = "do" /\ req[p].op = "beat")) /\ Present(seen[p].mark)
                         \/ pc[p] = "cacheMark" /\ Present(req[p].seconds)

\* The users that have attended and whose count is not on its way, nor lost.
Counted == {u \in Users \ missed : Been(u) /\ \A p \in Coming : req[p].user # u}

CountInv == Cardinality(Counted) <= meeting.attendees

LEMMA MarkOfRow ==
  ASSUME CallInv, [Next]_vars, NEW u \in Students
  PROVE  row'[u].mark = row[u].mark \/ \E p \in Procs : BeatRow(p) /\ req[p].user = u /\ row'[u].mark = req[p].seconds
<1>1. row \in [Students -> Progress] BY DEF CallInv, Typed
<1>2. ASSUME NEW p \in Procs, MarkCommit(p) \/ ScoreCommit(p) \/ ExamCommit(p) PROVE row'[u].mark = row[u].mark
  <2>1. InRow(p) /\ CommitRow(p)
    BY <1>2 DEF MarkCommit, ScoreCommit, ExamCommit, InRow, Marking, Scoring, Sitting, Holds
  <2>2. row[req[p].user] \in Progress BY <2>1, CommitIs
  <2>3. Changed(p).mark = row[req[p].user].mark BY <2>2, ChangedIs
  <2>4. row'[req[p].user] = Changed(p) /\ \A v \in Students \ {req[p].user} : row'[v] = row[v] BY <2>1, CommitIs
  <2> QED BY <2>3, <2>4
<1>3. ASSUME NEW p \in Procs, ReplayRow(p) PROVE row'[u].mark = row[u].mark
  <2>1. UNCHANGED row \/ row' = [row EXCEPT ![req[p].user].replay = TRUE] BY <1>3 DEF ReplayRow
  <2>2. row[u] \in Progress BY <1>1
  <2>3. row'[u] = row[u] \/ row'[u] = [row[u] EXCEPT !.replay = TRUE] BY <1>1, <2>1
  <2> QED BY <2>2, <2>3 DEF Progress
<1>4. ASSUME NEW p \in Procs, BeatRow(p)
      PROVE  row'[u].mark = row[u].mark \/ (req[p].user = u /\ row'[u].mark = req[p].seconds)
  <2>1. UNCHANGED row \/ row' = [row EXCEPT ![req[p].user].mark = req[p].seconds] BY <1>4 DEF BeatRow
  <2>2. row[u] \in Progress BY <1>1
  <2>3. row'[u] = row[u] \/ (req[p].user = u /\ row'[u] = [row[u] EXCEPT !.mark = req[p].seconds]) BY <1>1, <2>1
  <2> QED BY <2>2, <2>3 DEF Progress
<1> QED BY <1>2, <1>3, <1>4, RowChanges

LEMMA MarkOfHash ==
  ASSUME CallInv, NEW p \in Procs, Call(p) \/ Serve(p) \/ Rollback(p) \/ Abandon(p), NEW u \in Users, hash'[u] # None
  PROVE  \/ hash[u] # None /\ hash'[u].mark = hash[u].mark
         \/ hash'[u] = Blank
         \/ /\ req[p].user = u
            /\ \/ ProgressFill(p) /\ hash'[u] = seen[p]
               \/ BeatCache(p) /\ hash'[u].mark = req[p].seconds
<1> USE DEF db, cache
<1>1. hash \in [Users -> Progress \union {None}] /\ hash[u] \in Progress \union {None} BY DEF CallInv, Typed
<1>2. ASSUME NEW f \in {"seen", "replay", "scored"}, NEW x, SetField(req[p].user, f, x)
      PROVE  hash[u] # None /\ hash'[u].mark = hash[u].mark
  <2>1. hash'[u] = hash[u] \/ hash'[u] = Update(hash[u], f, x) BY <1>1, <1>2 DEF SetField
  <2>2. hash'[u] = hash[u] \/ hash'[u] = [hash[u] EXCEPT ![f] = x] BY <2>1 DEF Update
  <2>3. hash[u] # None BY <2>1 DEF Update
  <2> QED BY <1>1, <2>2, <2>3 DEF Progress
<1>3. CASE UNCHANGED hash BY <1>3
<1>4. CASE Call(p) \/ Rollback(p) \/ Abandon(p) BY <1>3, <1>4 DEF Call, Rollback, Abandon
<1>5. CASE GetMeeting(p) BY <1>3, <1>5 DEF GetMeeting, MeetingHit, MeetingMiss, MeetingFill, Refuse
<1>6. CASE GetUserProgress(p)
  <2>1. CASE ProgressHit(p) \/ ProgressMiss(p) BY <1>3, <2>1 DEF ProgressHit, ProgressMiss
  <2>2. CASE ProgressGuest(p) BY <1>1, <2>2 DEF ProgressGuest
  <2>3. CASE ProgressFill(p) BY <1>1, <2>3 DEF ProgressFill
  <2> QED BY <1>6, <2>1, <2>2, <2>3 DEF GetUserProgress
<1>7. CASE Mark(p)
  <2>1. CASE MarkSkip(p) \/ MarkFound(p) \/ MarkCommit(p) BY <1>3, <2>1 DEF MarkSkip, MarkFound, MarkCommit
  <2>2. CASE MarkGuest(p) BY <1>2, <2>2 DEF MarkGuest
  <2>3. CASE MarkRow(p) BY <1>2, <2>3 DEF MarkRow
  <2>4. CASE MarkCache(p) BY <1>2, <2>4 DEF MarkCache
  <2> QED BY <1>7, <2>1, <2>2, <2>3, <2>4 DEF Mark
<1>8. CASE Replay(p)
  <2>1. CASE ReplaySkip(p) \/ ReplayRow(p) BY <1>3, <2>1 DEF ReplaySkip, ReplayRow
  <2>2. CASE ReplayCache(p) BY <1>2, <2>2 DEF ReplayCache
  <2> QED BY <1>8, <2>1, <2>2 DEF Replay
<1>9. CASE Beat(p)
  <2>1. CASE BeatSkip(p) \/ BeatRow(p) \/ CountRow(p) \/ CountCache(p)
    BY <1>3, <2>1 DEF BeatSkip, BeatRow, CountRow, CountCache
  <2>2. CASE BeatCache(p)
    <3>1. hash' = [hash EXCEPT ![req[p].user] = Update(hash[req[p].user], "mark", req[p].seconds)]
      BY <2>2 DEF BeatCache, SetField
    <3>2. CASE req[p].user # u BY <1>1, <3>1, <3>2
    <3>3. CASE req[p].user = u
      <4>1. hash[u] # None /\ hash'[u] = [hash[u] EXCEPT !.mark = req[p].seconds] BY <1>1, <3>1, <3>3 DEF Update
      <4>2. hash'[u].mark = req[p].seconds BY <1>1, <4>1 DEF Progress
      <4> QED BY <2>2, <3>3, <4>2
    <3> QED BY <3>2, <3>3
  <2> QED BY <1>9, <2>1, <2>2 DEF Beat
<1>10. CASE Score(p)
  <2>1. CASE ScoreSkip(p) \/ ScoreGuest(p) \/ ScoreMeeting(p) \/ ScoreCommit(p) \/ Feedback(p)
    BY <1>3, <2>1 DEF ScoreSkip, ScoreGuest, ScoreMeeting, ScoreCommit, Feedback
  <2>2. CASE ScoreRow(p) BY <1>2, <2>2 DEF ScoreRow
  <2> QED BY <1>10, <2>1, <2>2 DEF Score
<1>11. CASE Exam(p)
  <2>1. CASE ExamSkip(p) \/ ExamCommit(p) \/ SaveRead(p) \/ SaveStore(p) \/ SaveClear(p) \/ AnswerQuestion(p)
    BY <1>3, <2>1 DEF ExamSkip, ExamCommit, SaveRead, SaveStore, SaveClear, AnswerQuestion
  <2>2. CASE ExamRow(p)
    <3>1. UNCHANGED hash \/ \E X, n : hash' = [hash EXCEPT ![req[p].user] =
              IF hash[req[p].user] = None THEN None ELSE [hash[req[p].user] EXCEPT !.exams = X, !.total = n]]
      BY <2>2 DEF ExamRow
    <3>2. ASSUME NEW X, NEW n, hash' = [hash EXCEPT ![req[p].user] =
              IF hash[req[p].user] = None THEN None ELSE [hash[req[p].user] EXCEPT !.exams = X, !.total = n]]
          PROVE  hash[u] # None /\ hash'[u].mark = hash[u].mark
      <4>1. hash'[u] = hash[u] \/ (hash[u] # None /\ hash'[u] = [hash[u] EXCEPT !.exams = X, !.total = n])
        BY <1>1, <3>2
      <4> QED BY <1>1, <4>1 DEF Progress
    <3> QED BY <1>3, <3>1, <3>2
  <2> QED BY <1>11, <2>1, <2>2 DEF Exam
<1> QED BY <1>4, <1>5, <1>6, <1>7, <1>8, <1>9, <1>10, <1>11 DEF Serve

LEMMA NotPresent == Blank.mark = 0 /\ ~Present(Blank.mark) /\ ~Present(-1) /\ ~Present(0)
BY DEF Blank, Present

\* Who attends has attended before, or is about to be counted.
LEMMA BeenBefore ==
  ASSUME CallInv, [Next]_vars, NEW p \in Procs, Call(p) \/ Serve(p) \/ Rollback(p) \/ Abandon(p),
         NEW u \in Users, Been(u)', \A q \in Coming' : req'[q].user # u
  PROVE  Been(u)
<1>1. /\ Typed /\ Alone(p) /\ Fits(p) /\ scene' = scene
      /\ pc \in [Procs -> Labels] /\ req \in [Procs -> Request] /\ seen \in [Procs -> Progress \union Counts]
      /\ hash \in [Users -> Progress \union {None}]
      /\ \A q \in Procs \ {p} : pc'[q] = pc[q] /\ req'[q] = req[q] /\ seen'[q] = seen[q]
  BY Aloneness DEF CallInv, Typed, Alone
<1>2. \A m : Present(m)' <=> Present(m) BY <1>1 DEF Present, Teaching
<1>3. ASSUME NEW q \in Procs, BeatRow(q), req[q].user = u, Present(req[q].seconds) PROVE Been(u)
  <2>1. q = p
    <3>1. pc[q] = "do" /\ pc'[q] = "cacheMark" BY <1>1, <1>3 DEF BeatRow, Beating, Holds, Goto
    <3> QED BY <1>1, <3>1
  <2>2. /\ pc[p] = "do" /\ req[p].op \in {"beat", "leave"} /\ pc'[p] = "cacheMark" /\ req' = req /\ seen' = seen
    BY <1>1, <1>3, <2>1 DEF BeatRow, Beating, Holds, Goto, local
  <2>3. req[p].op = "beat" BY <1>1, <1>3, <2>1, <2>2, NotPresent DEF Fits
  <2>4. ~FirstTime(p)'
    <3>1. p \notin Coming' BY <1>3, <2>1, <2>2
    <3> QED BY <2>2, <3>1 DEF Coming
  <2>5. ~FirstTime(p) BY <1>1, <2>2, <2>4 DEF FirstTime, Teaching
  <2>6. req[p].seconds \in Int /\ seen[p].mark \in Int
    <3>1. seen[p] \in Progress BY <1>1, <2>2 DEF Fits
    <3>2. Marks \subseteq Int BY SecondsAreIntegers DEF Marks
    <3>3. seen[p].mark \in Marks BY <3>1 DEF Progress
    <3>4. req[p].seconds \in Marks BY <1>1 DEF Request
    <3> QED BY <3>2, <3>3, <3>4
  <2>7. IF Teaching THEN req[p].seconds > 0 ELSE req[p].seconds < -1 \/ req[p].seconds > 0
    BY <1>3, <2>1, <2>6 DEF Present
  <2>8. seen[p].mark > 0 BY <2>3, <2>5, <2>6, <2>7 DEF FirstTime
  <2>9. Present(seen[p].mark) BY <2>8 DEF Present
  <2> QED BY <1>3, <2>1, <2>2, <2>3, <2>9 DEF Been
<1>4. ASSUME hash'[u] # None, Present(hash'[u].mark) PROVE Been(u)
  <2>1. CASE hash[u] # None /\ hash'[u].mark = hash[u].mark BY <1>4, <2>1 DEF Been
  <2>2. hash'[u] # Blank BY <1>4, NotPresent
  <2>3. CASE req[p].user = u /\ ProgressFill(p) /\ hash'[u] = seen[p] BY <1>4, <2>3 DEF ProgressFill, Been
  <2>4. CASE req[p].user = u /\ BeatCache(p) /\ hash'[u].mark = req[p].seconds
    BY <1>4, <2>4 DEF BeatCache, Beating, Holds, Been
  <2> QED BY <1>4, <2>1, <2>2, <2>3, <2>4, MarkOfHash
<1>5. CASE Attending(u)'
  <2>1. CASE u \in Students
    <3>1. Present(row'[u].mark) BY <1>2, <1>5, <2>1 DEF Attending
    <3>2. CASE row'[u].mark = row[u].mark BY <2>1, <3>1, <3>2 DEF Been, Attending
    <3>3. CASE \E q \in Procs : BeatRow(q) /\ req[q].user = u /\ row'[u].mark = req[q].seconds
      BY <1>3, <3>1, <3>3
    <3> QED BY <2>1, <3>2, <3>3, MarkOfRow
  <2>2. CASE u \notin Students BY <1>2, <1>4, <1>5, <2>2 DEF Attending
  <2> QED BY <2>1, <2>2
<1>6. CASE hash'[u] # None /\ Present(hash'[u].mark) BY <1>4, <1>6
<1>7. ASSUME NEW q \in Procs, req'[q].user = u,
             pc'[q] = "fill" \/ (pc'[q] = "do" /\ req'[q].op = "beat"), Present(seen'[q].mark)
      PROVE  Been(u)
  <2>1. CASE q # p BY <1>1, <1>7, <2>1 DEF Been
  <2>2. CASE q = p /\ pc'[p] = "fill"
    <3>1. ProgressMiss(p) BY <1>1, <2>2, Arriving
    <3>2. req' = req /\ req[p].user \in Students /\ seen'[p] = row[u] BY <1>1, <1>7, <2>2, <3>1 DEF ProgressMiss
    <3> QED BY <1>7, <2>2, <3>2 DEF Been, Attending
  <2>3. CASE q = p /\ pc'[p] = "do"
    <3>1. req'[p].op = "beat" BY <1>7, <2>3
    <3>2. ~Call(p)
      <4>1. SUFFICES ASSUME Call(p) PROVE FALSE OBVIOUS
      <4> PICK r : /\ req' = [req EXCEPT ![p] = r]
                   /\ Goto(p, CASE r.op = "replay" -> "look" [] r.op = "question" -> "do" [] OTHER -> "get")
        BY <4>1 DEF Call
      <4>2. r.op = "beat" BY <1>1, <3>1
      <4> QED BY <1>1, <2>3, <4>2 DEF Goto
    <3>3. ~MeetingHit(p) /\ ~MeetingFill(p)
      BY <1>1, <2>3, <3>1 DEF MeetingHit, MeetingFill, AfterMeeting, Goto, local
    <3>4. CASE ProgressHit(p) BY <1>1, <1>7, <2>3, <3>4 DEF ProgressHit, Been
    <3>5. CASE ProgressGuest(p)
      <4>1. seen'[p] = Blank BY <1>1, <3>5 DEF ProgressGuest
      <4> QED BY <1>7, <2>3, <4>1, NotPresent
    <3>6. CASE ProgressFill(p) BY <1>1, <1>7, <2>3, <3>6 DEF ProgressFill, Been, local
    <3> QED BY <1>1, <2>3, <3>2, <3>3, <3>4, <3>5, <3>6, Arriving
  <2> QED BY <1>7, <2>1, <2>2, <2>3
<1>8. ASSUME NEW q \in Procs, req'[q].user = u, pc'[q] = "cacheMark", Present(req'[q].seconds) PROVE Been(u)
  <2>1. CASE q # p BY <1>1, <1>8, <2>1 DEF Been
  <2>2. CASE q = p
    <3>1. BeatRow(p) /\ req' = req BY <1>1, <1>8, <2>2, Arriving DEF BeatRow, local
    <3> QED BY <1>3, <1>8, <2>2, <3>1
  <2> QED BY <2>1, <2>2
<1> QED BY <1>2, <1>5, <1>6, <1>7, <1>8 DEF Been

LEMMA CountedIsFinite == IsFiniteSet(Counted) /\ Cardinality(Counted) \in Nat /\ IsFiniteSet(Coming) /\ Cardinality(Coming) \in Nat
<1>1. Counted \in SUBSET Users /\ Coming \in SUBSET Procs BY DEF Counted, Coming
<1> QED BY <1>1, FinitelyMany, FS_Subset, FS_CardinalityType

LEMMA CountStep ==
  ASSUME CallInv, CountInv, [Next]_vars, NEW p \in Procs, Call(p) \/ Serve(p) \/ Rollback(p) \/ Abandon(p)
  PROVE  CountInv'
<1>1. /\ Typed /\ Alone(p) /\ scene' = scene /\ missed \subseteq missed'
      /\ \A q \in Procs \ {p} : pc'[q] = pc[q] /\ req'[q] = req[q] /\ seen'[q] = seen[q]
  BY Aloneness, HistoryGrows DEF CallInv, Alone
<1>2. \A q \in Procs : req'[q] = req[q] /\ seen'[q] = seen[q] => (FirstTime(q)' <=> FirstTime(q))
  BY <1>1 DEF FirstTime, Teaching
\* A call that counts its user goes on to do so, or the count is lost.
<1>3. ASSUME NEW q \in Coming, ~CountRow(p) \/ req[p].user # req[q].user
      PROVE  req[q].user \in missed' \/ (q \in Coming' /\ req'[q].user = req[q].user)
  <2>1. q \in Procs /\ pc[q] \in {"cacheMark", "count"} /\ FirstTime(q) BY DEF Coming
  <2>2. CASE q # p BY <1>1, <1>2, <2>1, <2>2 DEF Coming
  <2>3. CASE q = p
    <3>1. BeatCache(p) \/ Abandon(p) BY <1>3, <2>1, <2>3, OneWayOn
    <3>2. CASE Abandon(p) BY <2>1, <2>3, <3>2 DEF Abandon
    <3>3. CASE BeatCache(p)
      <4>1. Goto(p, "count") /\ UNCHANGED <<req, seen>> BY <2>1, <2>3, <3>3 DEF BeatCache, local
      <4>2. pc'[p] = "count" BY <1>1, <4>1 DEF Goto, Typed
      <4> QED BY <1>2, <2>1, <2>3, <4>1, <4>2 DEF Coming
    <3> QED BY <3>1, <3>2, <3>3
  <2> QED BY <2>2, <2>3
<1>4. ASSUME NEW u \in Counted', ~CountRow(p) \/ req[p].user # u PROVE u \in Counted
  <2>1. u \in Users /\ u \notin missed' /\ Been(u)' /\ \A q \in Coming' : req'[q].user # u BY DEF Counted
  <2>2. Been(u) BY <2>1, BeenBefore
  <2>3. \A q \in Coming : req[q].user # u BY <1>3, <1>4, <2>1
  <2> QED BY <1>1, <2>1, <2>2, <2>3 DEF Counted
<1>5. meeting \in Counts /\ meeting.attendees \in Nat /\ meeting.scores + 1 \in Nat /\ meeting.attendees + 1 \in Nat
  BY DEF CallInv, Typed, Counts
<1>6. CASE CountRow(p)
  <2>1. meeting' = [meeting EXCEPT !.attendees = meeting.attendees + 1] BY <1>6 DEF CountRow
  <2>2. meeting'.attendees = meeting.attendees + 1 BY <1>5, <2>1, CountsChange
  <2>3. Counted' \subseteq Counted \union {req[p].user} BY <1>4
  <2>4. /\ IsFiniteSet(Counted \union {req[p].user})
        /\ Cardinality(Counted \union {req[p].user}) \in {Cardinality(Counted), Cardinality(Counted) + 1}
    BY CountedIsFinite, FS_AddElement
  <2>5. Cardinality(Counted') <= Cardinality(Counted \union {req[p].user}) BY <2>3, <2>4, FS_Subset
  <2>6. Cardinality(Counted') \in Nat BY <2>3, <2>4, FS_Subset, FS_CardinalityType
  <2> QED BY <1>5, <2>2, <2>4, <2>5, <2>6, CountedIsFinite DEF CountInv
<1>7. CASE ~CountRow(p)
  <2>1. meeting'.attendees = meeting.attendees
    <3>1. ASSUME ScoreCommit(p) PROVE meeting'.attendees = meeting.attendees
      <4>1. seen[p] = [meeting EXCEPT !.scores = meeting.scores + 1]
        BY <3>1 DEF CallInv, Writing, InMeeting, ScoreCommit, Scoring, Holds
      <4>2. seen[p].scores \in Nat BY <1>5, <4>1, CountsChange
      <4> QED BY <1>5, <3>1, <4>2, CountsChange DEF ScoreCommit
    <3> QED BY <1>7, <3>1, MeetingChanges DEF MeetingFill, CountCache, ScoreMeeting, Rollback, db
  <2>2. Counted' \subseteq Counted BY <1>4, <1>7
  <2>3. Cardinality(Counted') <= Cardinality(Counted) /\ Cardinality(Counted') \in Nat
    BY <2>2, CountedIsFinite, FS_Subset, FS_CardinalityType
  <2> QED BY <1>5, <2>1, <2>3, CountedIsFinite DEF CountInv
<1> QED BY <1>6, <1>7

LEMMA CountSteps == ASSUME CallInv, CountInv, [Next]_vars PROVE CountInv'
<1>1. ASSUME NEW v \in Guests, Expire(v) PROVE CountInv'
  <2>1. UNCHANGED <<scene, row, meeting, pc, req, seen, missed>> BY <1>1 DEF Expire, db, locks, local, history
  <2>2. \A u \in Users : hash'[u] = None \/ hash'[u] = hash[u] BY <1>1 DEF Expire, CallInv, Typed
  <2>3. Coming' = Coming BY <2>1 DEF Coming, FirstTime, Teaching
  <2>4. \A u \in Users : Been(u)' => Been(u) BY <2>1, <2>2 DEF Been, Attending, Present, Teaching
  <2>5. Counted' \subseteq Counted BY <2>1, <2>3, <2>4 DEF Counted
  <2>6. Cardinality(Counted') <= Cardinality(Counted) /\ Cardinality(Counted') \in Nat
    BY <2>5, CountedIsFinite, FS_Subset, FS_CardinalityType
  <2>7. meeting.attendees \in Nat BY DEF CallInv, Typed, Counts
  <2> QED BY <2>1, <2>6, <2>7, CountedIsFinite DEF CountInv
<1>2. CASE UNCHANGED vars
  BY <1>2 DEF vars, db, cache, locks, local, history, CountInv, Counted, Coming, Been, Attending, Present, Teaching, FirstTime
<1> QED BY <1>1, <1>2, CountStep DEF Next

\* AttendeesAreCounted: a user is counted after its first heartbeat is written, and
\* what GetUserProgress has read decides whether it is the first.
THEOREM AttendeesGetCounted == Spec => []AttendeesAreCounted
<1>1. Init => CallInv /\ CountInv
  <2> SUFFICES ASSUME Init PROVE CountInv BY CallInit
  <2>1. /\ pc = [p \in Procs |-> "idle"] /\ row = [u \in Students |-> Blank] /\ meeting = NoCounts BY DEF Init
  <2>2. PICK C : hash = [u \in Users |-> IF u \in C THEN Blank ELSE None] BY DEF Init
  <2>3. \A u \in Users : ~Been(u) BY <2>1, <2>2, NotPresent DEF Been, Attending
  <2>4. Counted = {} BY <2>3 DEF Counted
  <2> QED BY <2>1, <2>4, FS_EmptySet DEF CountInv, NoCounts
<1>2. CallInv /\ CountInv /\ [Next]_vars => CallInv' /\ CountInv' BY CallSteps, CountSteps
<1>3. CallInv /\ CountInv => AttendeesAreCounted
  <2> SUFFICES ASSUME CallInv, CountInv PROVE AttendeesAreCounted OBVIOUS
  <2> DEFINE Attendees == {u \in Users \ missed : Attending(u)}
             f == [p \in Coming |-> req[p].user]
             T == {f[p] : p \in Coming}
  <2>1. f \in Surjection(Coming, T) BY DEF Surjection
  <2>2. IsFiniteSet(T) /\ Cardinality(T) <= Cardinality(Coming) /\ Cardinality(T) \in Nat
    BY <2>1, CountedIsFinite, FS_Surjection, FS_CardinalityType
  <2>3. Attendees \subseteq Counted \union T BY DEF Counted, Been
  <2>4. /\ IsFiniteSet(Counted \union T)
        /\ Cardinality(Counted \union T) = Cardinality(Counted) + Cardinality(T) - Cardinality(Counted \intersect T)
    BY <2>2, CountedIsFinite, FS_Union
  <2>5. Cardinality(Counted \intersect T) \in Nat
    BY <2>2, FS_Subset, FS_CardinalityType
  <2>6. Cardinality(Attendees) <= Cardinality(Counted \union T) /\ Cardinality(Attendees) \in Nat
    BY <2>3, <2>4, FS_Subset, FS_CardinalityType
  <2>7. meeting.attendees \in Nat BY DEF CallInv, Typed, Counts
  <2>8. Cardinality(Attendees) <= meeting.attendees + Cardinality(Coming)
    <3> HIDE DEF Attendees, T, f
    <3> QED BY <2>2, <2>4, <2>5, <2>6, <2>7, CountedIsFinite DEF CountInv
  <2> QED BY <2>8 DEF AttendeesAreCounted, Coming
<1> QED BY <1>1, <1>2, <1>3, PTL DEF Spec
=============================================================================
