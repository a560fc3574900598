--------------------------- MODULE MCBackOffice ---------------------------
(* Small instances of BackOffice: the requests that come in each scene.     *)
EXTENDS BackOffice, TLC

CONSTANTS d1, d2, p1, p2, n1, n2, s1, i1, i2, f1, f2, c1, c2, t1, g1, g2,
  k1, k2, w1, w2

DeviceOf == (d1 :> "web") @@ (d2 :> "app")

Root == User(n1, "w1", "k1", "system", None, None)

Login(c, n, w)        == [op |-> "login", client |-> c, name |-> n, pwd |-> w]
LoginGdWith(c, n, w, s) == [op |-> "loginGd", client |-> c, name |-> n, pwd |-> w, student |-> s]
Pass(c, s)            == [op |-> "pass", client |-> c, student |-> s]
Register(n, w, i)     == [op |-> "register", name |-> n, pwd |-> w, invite |-> i]
Use(c, role)          == [op |-> "use", client |-> c, role |-> role]
Password(c, old, pwd) == [op |-> "password", client |-> c, old |-> old, pwd |-> pwd]
Profile(c, k, long)   == [op |-> "profile", client |-> c, nick |-> k, long |-> long]
Rename(op, c, u, k)   == [op |-> op, client |-> c, user |-> u, nick |-> k]
Invite(c, g)          == [op |-> "invite", client |-> c, group |-> g]
Uninvite(c, i)        == [op |-> "uninvite", client |-> c, invite |-> i]
Enrol(c, s, k)        == [op |-> "enrol", client |-> c, student |-> s, nick |-> k]
EnrolLan(s, k)        == [op |-> "enrolLan", student |-> s, nick |-> k]

Offer(k, e, d)        == [op |-> "generate", key |-> k, end |-> e, duration |-> d]
Offers(l)             == [op |-> "tokens", kind |-> l]
Try(c, f, k, e)       == [op |-> "try", client |-> c, phone |-> f, teacher |-> IF k = t1 THEN t1 ELSE None,
                          token |-> IF k = t1 THEN None ELSE k, end |-> e]
TryBoth(c, f, t, k, e) == [Try(c, f, t, e) EXCEPT !.token = k]
Enter(c, f)           == [op |-> "enter", client |-> c, phone |-> f]

AddEntry(op, n)       == [op |-> op, name |-> n]
Retitle(op, i, n)     == [op |-> op, id |-> i, name |-> n]
Drop(i)               == [op |-> "dropGroup", id |-> i]
Show(op)              == [op |-> op]
Put(g, i, add)        == [op |-> "list", group |-> g, subject |-> i, add |-> add]
ShowList(g)           == [op |-> "listing", group |-> g]

Question                  == [op |-> "ask"]
Reply(i, a)           == [op |-> "reply", issue |-> i, answer |-> a]

Import(g)             == [op |-> "import", gd |-> g]
Reimport(e, g)        == [op |-> "reimport", exam |-> e, gd |-> g]
OfExam(op, e)         == [op |-> op, exam |-> e]

Charge(op, k, w)        == [op |-> op, keeper |-> k, ward |-> w]
FirstCharges == (k1 :> {w1}) @@ (k2 :> None)

Scene(calls, ids, fails) == [calls |-> calls, users |-> ids, fails |-> fails, time |-> 0,
   revisions |-> 0, hands |-> 2]
Visit(calls, guests, time, fails) == [calls |-> calls, users |-> 1, guests |-> guests, fails |-> fails, time |-> time,
   revisions |-> 0, hands |-> 2]

Shelf(calls, entries, fails) == [calls |-> calls, users |-> 1, entries |-> entries, fails |-> fails, time |-> 0,
   revisions |-> 0, hands |-> 2]

Desk(calls, revisions, fails) == [calls |-> calls, users |-> 1, fails |-> fails, time |-> 0, revisions |-> revisions, hands |-> 2]

Tabs == Scene({Login(d1, n1, "w1"), Login(d2, n1, "w1"), Use(d2, "teacher")}, 2, FALSE)
Secrets == Scene({Login(d1, n1, "w1"), Password(d1, "w1", "w2"), Password(d1, "w2", "w1"),
                       Password(d1, "w1", "w3")}, 2, FALSE)
Slips == [Scene({Login(d1, n1, "w1"), Password(d1, "w1", "w2"), Password(d1, "w2", "w1"), Profile(d1, "k2", FALSE)}, 2, TRUE) EXCEPT !.hands = 1]
Nicks == Scene({Login(d1, n1, "w1"), Profile(d1, "k2", FALSE), Profile(d1, "k1", TRUE),
                     Rename("rename", d1, 1, "k2")}, 2, FALSE)
Guestlist == Scene({Login(d1, n1, "w1"), Invite(d1, "teacher"), Uninvite(d1, i1),
                         Register(n2, "w1", i1)}, 3, FALSE)
Doubles == Scene({Login(d1, n1, "w1"), Invite(d1, "teacher"), Register(n2, "w1", i1),
                       Register(n2, "w1", i2)}, 3, FALSE)
Pupils == Scene({EnrolLan(s1, "k1"), EnrolLan(s1, None), Pass(d1, s1)}, 3, FALSE)
Resyncs == Scene({EnrolLan(s1, None), Login(d2, n1, "w1"), Rename("resync", d2, 2, "k2"),
                       Rename("rename", d2, 2, "k2")}, 2, FALSE)
Clerks == Scene({Login(d1, n1, "w1"), Enrol(d1, s1, "k1"), EnrolLan(s1, None)}, 2, FALSE)
Lost == [Scene({EnrolLan(s1, "k1"), LoginGdWith(d1, n1, "w1", s1)}, 2, TRUE) EXCEPT !.hands = 1]
Halved == [Scene({Login(d1, n1, "w1"), Invite(d1, "teacher"), Register(n2, "w1", i1)}, 3, TRUE) EXCEPT !.hands = 1]

Trials == Visit({Offer(c1, 1, 0), Try(d1, f1, c1, 1), Try(d1, f2, c1, 1)}, 2, 1, FALSE)
Guided == Visit({Offer(t1, 1, 0), Try(d1, f1, t1, 1), Try(d1, f2, t1, 1)}, 2, 0, FALSE)
Renewals == Visit({Offer(t1, 2, 1), Offer(c1, 2, 0), TryBoth(d1, f1, t1, c1, 2), Offers("channel")}, 1, 2, FALSE)
Returns == Visit({Offer(t1, 1, 0), Try(d1, f1, t1, 1), Enter(d1, f1), Use(d1, "student")}, 1, 1, FALSE)
Shut == [Visit({Offer(c1, 1, 0), Try(d1, f1, c1, 1), Enter(d1, f1)}, 0, 0, TRUE) EXCEPT !.hands = 1]
Closed == [Visit({Offer(c1, 1, 0), Try(d1, f1, c1, 1)}, 1, 0, TRUE) EXCEPT !.hands = 1]

Faculties == Shelf({AddEntry("addGroup", "a"), Drop(1), Drop(2), Show("groups")}, 3, FALSE)
Faculties2 == Shelf({AddEntry("addGroup", "a"), Drop(2), Show("groups")}, 2, TRUE)
Labels == Shelf({AddEntry("addTag", "a"), Retitle("changeTag", 1, "b"), Show("tags")}, 2, FALSE)
Labels2 == Shelf({AddEntry("addTag", "a"), Retitle("changeTag", 1, "b"), Show("tags")}, 2, TRUE)
Topics == Shelf({AddEntry("addSubject", "a"), Retitle("changeSubject", 1, "b"), Show("subjects")}, 2, TRUE)
Syllabus == Shelf({Put(1, 1, TRUE), Put(1, 2, TRUE), Put(1, 1, FALSE), ShowList(1), Drop(1)}, 1, FALSE)
Syllabus2 == Shelf({AddEntry("addSubject", "a"), Put(1, 1, TRUE), Put(1, 2, TRUE), Put(1, 1, FALSE), ShowList(1)}, 2, TRUE)

Replies == Desk({Question, Reply(1, "yes"), Reply(1, NoAnswer), Reply(2, "yes")}, 0, FALSE)
Unanswered == Desk({Question, Reply(1, "yes"), Reply(1, "no")}, 0, TRUE)
Papers == Desk({Import(g1), OfExam("resyncExam", 1), OfExam("item", 1)}, 2, FALSE)
Reprints == Desk({Import(g1), Reimport(1, g2), Reimport(1, g1), OfExam("resyncExam", 1)}, 1, FALSE)
Misprints == Desk({Import(g1), OfExam("resyncExam", 1), OfExam("look", 1)}, 1, TRUE)

Charging == Desk({Charge("associate", k1, w2), Charge("disassociate", k1, w1),
                  Charge("associate", k2, w1), Charge("wards", k1, None)}, 0, FALSE)
Charging2 == [Desk({Charge("associate", k1, w2), Charge("disassociate", k2, w2), Charge("wards", k2, None)},
                   0, TRUE) EXCEPT !.hands = 1]

AllScenes ==
  [tabs |-> Tabs, secrets |-> Secrets, slips |-> Slips, nicks |-> Nicks, guests |-> Guestlist, doubles |-> Doubles,
   pupils |-> Pupils, resyncs |-> Resyncs, clerks |-> Clerks, lost |-> Lost, halved |-> Halved,
   trials |-> Trials, guided |-> Guided, renewals |-> Renewals, returns |-> Returns, shut |-> Shut, closed |-> Closed,
   groups |-> Faculties, groupsFail |-> Faculties2, tags |-> Labels, tagsFail |-> Labels2,
   subjects |-> Topics, lists |-> Syllabus, listsFail |-> Syllabus2, issues |-> Replies, issuesFail |-> Unanswered,
   exams |-> Papers, reimports |-> Reprints, examsFail |-> Misprints,
   keepers |-> Charging, keepersFail |-> Charging2]
Symmetric == Permutations(Procs)
=============================================================================
