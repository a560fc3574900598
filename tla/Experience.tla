----------------------------- MODULE Experience -----------------------------
(***************************************************************************)
(* Visitors of a class who have no account: they register with a token or  *)
(* through the channel of a teacher, enter with their phone number, and    *)
(* are let in until a time.  All of it is in the cache only.  The keys     *)
(* below are those of one class; of the phone numbers, of all classes.     *)
(***************************************************************************)
EXTENDS Accounts

CONSTANTS Coupons, Teachers, Phones

Log  == {"token", "channel"}
Keys == Coupons \union Teachers

VARIABLES
  clock,
  offers,    \* by token or teacher: the end of the invitation and its duration, or None
  phoneId,   \* the guest's id of each phone number, None if it is not known
  counter,   \* how many ids were handed out
  until,     \* by guest: when his visits end, None if he has no entry
  log,       \* of each kind of invitation: who registered with what, None if nobody
  visits,    \* phone numbers that have a time and a count of logins
  promised,  \* history: when the visits of each phone number end by its last registration
  registered, \* history: what was logged, and with which of the tokens
  fumbled    \* history: phone numbers, tokens and logs two requests met at, or a failure

offering == <<clock, offers>>
guestIds == <<phoneId, counter>>
visiting == <<until, log, visits, promised, registered>>
visitors == <<offering, guestIds, visiting, fumbled>>

\* Ids are handed out in their order.
Rank(g)  == Cardinality({h \in Guests : h < g})
Kind(k)  == IF k \in Coupons THEN "token" ELSE "channel"

ExperienceInit ==
  /\ clock = 0 /\ offers = [k \in Keys |-> None]
  /\ phoneId = [f \in Phones |-> None] /\ counter = 0
  /\ until = [g \in Guests |-> None]
  /\ log = [l \in Log |-> None]
  /\ visits = [time |-> {}, count |-> {}]
  /\ promised = [f \in Phones |-> None] /\ registered = {} /\ fumbled = {}

\* A token or the number of a teacher comes with a registration.  A session of a guest
\* shows his phone number.
SessionInfo == [group : Groups, nick : AnyNick \union Phones, token : [Apps -> Tokens \union {None}]]

ASSUME NoneIsNoSession    == None \notin SessionInfo \union Phones
ASSUME NoneIsNoLog        == \A l \in SUBSET [phone : Phones, key : Keys] : l # None
ASSUME RequestsOfVisitors ==
  \A s \in DOMAIN Scenes : \A r \in Scenes[s].calls :
    /\ r.op \in Visits => r.phone \in Phones
    /\ r.op = "try"    => /\ r.teacher \in Teachers \union {None}
                          /\ r.token \in Coupons \union {None}
                          /\ r.teacher = None => r.token \in Coupons
    /\ r.op = "generate" => r.key \in Keys

\* The session of a teacher who makes or lists invitations is checked first, see
\* OtherHandler.
Arrive(p, op, label) == Come(p, op, label) /\ UNCHANGED visitors

onHttpGenerateClassInvitationToken(p) == Arrive(p, "generate", "put")
onHttpQueryClassInvitationToken(p)    == Arrive(p, "tokens", "list")
onHttpExperienceRegister(p)           == Arrive(p, "try", "offer")
onHttpExperienceLogin(p)              == Arrive(p, "enter", "phone")

\* One that is past a step and has not come to another, with the same of something.
Meets(p, labels, field) ==
  \E q \in Procs \ {p} : pc[q] \in labels /\ req[q].op \in Visits /\ req[q][field] = req[p][field]

Fumble(met, what) == fumbled' = IF met THEN fumbled \union {what} ELSE fumbled

-----------------------------------------------------------------------------
(* Invitations of the class.                                               *)

IsNew(k) ==
  /\ offers[k] = None /\ \A e \in registered : e.key # k
  /\ \A q \in Procs : Busy(q) /\ req[q].op = "try" => req[q].token # k

\* Tokens are new ones; of the channel of a teacher the later replaces the earlier.
GenerateInvitation(p) ==
  LET r == req[p] IN
  /\ At(p, "put", {"generate"}) /\ Return(p)
  /\ r.key \in Coupons => IsNew(r.key)
  /\ offers' = [offers EXCEPT ![r.key] = [end |-> r.end, duration |-> r.duration]]
  /\ UNCHANGED <<accounts, clock, guestIds, visiting, fumbled>>

Expired(k) == offers[k] # None /\ offers[k].end <= clock

QueryInvitations(p) ==
  /\ At(p, "list", {"tokens"})
  /\ With(p, "listed", [expired |-> {k \in Keys : Kind(k) = req[p].kind /\ Expired(k)}])
  /\ UNCHANGED <<accounts, visitors>>

\* What was read as expired is deleted, renewed or not.
DeleteExpired(p) ==
  /\ At(p, "listed", {"tokens"}) /\ Return(p)
  /\ offers' = [k \in Keys |-> IF k \in seen[p].expired THEN None ELSE offers[k]]
  /\ UNCHANGED <<accounts, clock, guestIds, visiting, fumbled>>

-----------------------------------------------------------------------------
(* getClassInvitationInfo.  A request brings a teacher or a token, and the *)
(* end that the invitation has; the verification code is not checked.      *)

Key(r) == IF r.teacher = None THEN r.token ELSE r.teacher

Matches(o, r) == o # None /\ o.end = r.end

GetOffer(p) ==
  LET r == req[p]
      o == offers[Key(r)]
  IN
  /\ At(p, "offer", {"try"})
  /\ IF ~Matches(o, r) \/ clock >= o.end
     THEN UNCHANGED fumbled /\ IF Matches(o, r) THEN On(p, "drop") ELSE Return(p)
     ELSE /\ With(p, IF r.teacher = None THEN "take" ELSE "phone",
                  [seen[p] EXCEPT !.info = IF o.duration = 0 THEN o.end ELSE clock + o.duration])
          /\ Fumble(r.teacher = None /\ Meets(p, {"take"}, "token"), r.token)
  /\ UNCHANGED <<accounts, offering, guestIds, visiting>>

\* The fields deleted are those of the other kind: the channel of teacher 0, which is
\* none, or the token that came with the number of a teacher.
DropOffer(p) ==
  LET r == req[p] IN
  /\ At(p, "drop", {"try"}) /\ Return(p)
  /\ offers' = IF r.teacher # None /\ r.token # None THEN [offers EXCEPT ![r.token] = None] ELSE offers
  /\ UNCHANGED <<accounts, clock, guestIds, visiting, fumbled>>

\* A token is for one registration.  That it cannot be deleted is ignored.
TakeOffer(p) ==
  /\ At(p, "take", {"try"}) /\ On(p, "phone")
  /\ \/ offers' = [offers EXCEPT ![req[p].token] = None] /\ UNCHANGED fumbled
     \/ CanFail /\ Fumble(TRUE, req[p].token) /\ UNCHANGED offers
  /\ UNCHANGED <<accounts, clock, guestIds, visiting>>

-----------------------------------------------------------------------------
(* getOrCreateIDForExperienceUser.                                         *)

GetPhone(p) ==
  LET f == req[p].phone IN
  /\ At(p, "phone", Visits)
  /\ \/ /\ phoneId[f] # None
        /\ With(p, "build", [seen[p] EXCEPT !.user = phoneId[f]]) /\ UNCHANGED fumbled
     \/ /\ phoneId[f] = None \/ CanFail
        /\ On(p, "incr") /\ Fumble(phoneId[f] # None \/ Meets(p, {"incr", "setPhone"}, "phone"), f)
  /\ UNCHANGED <<accounts, offering, guestIds, visiting>>

\* Without the counter, everybody gets the lowest id.
NewGuest(p) ==
  /\ At(p, "incr", Visits)
  /\ \/ /\ counter < Scenes[scene].guests /\ counter' = counter + 1
        /\ \E g \in Guests : Rank(g) = counter + 1 /\ With(p, "setPhone", [seen[p] EXCEPT !.user = g])
        /\ UNCHANGED fumbled
     \/ /\ CanFail /\ UNCHANGED counter /\ Fumble(TRUE, req[p].phone)
        /\ \E g \in Guests : Rank(g) = 0 /\ With(p, "setPhone", [seen[p] EXCEPT !.user = g])
  /\ UNCHANGED <<accounts, offering, phoneId, visiting>>

SetPhone(p) ==
  LET f == req[p].phone IN
  /\ At(p, "setPhone", Visits) /\ On(p, "build")
  /\ \/ phoneId' = [phoneId EXCEPT ![f] = seen[p].user] /\ UNCHANGED fumbled
     \/ CanFail /\ Fumble(TRUE, f) /\ UNCHANGED phoneId
  /\ UNCHANGED <<accounts, offering, counter, visiting>>

\* Without the token of browsers: those who came in with the same number are thrown out,
\* before it is known whether this one may come in.
BuildInfo(p) ==
  LET u == seen[p].user IN
  /\ At(p, "build", Visits)
  /\ With(p, IF req[p].op = "try" THEN "authorize" ELSE "authority", [seen[p] EXCEPT !.nick = req[p].phone])
  /\ \/ /\ session' = [session EXCEPT ![u] =
             [group |-> "student", nick |-> req[p].phone,
              token |-> [a \in Apps |-> IF a = "web" \/ @ = None THEN None ELSE @.token[a]]]]
        /\ displaced' = displaced \union As(u, "web")
     \/ CanFail /\ UNCHANGED <<session, displaced>>
  /\ UNCHANGED <<userRows, held, visitors>>

-----------------------------------------------------------------------------
(* RegisterExperienceUser and LoginAsExperienceUser.                       *)

\* A later invitation replaces what an earlier one promised, be it less.
Authorize(p) ==
  LET t == seen[p].info IN
  /\ At(p, "authorize", {"try"})
  /\ IF clock >= t
     THEN Return(p) /\ UNCHANGED <<until, promised>>
     ELSE /\ On(p, "exists")
          /\ until' = [until EXCEPT ![seen[p].user] = t]
          /\ promised' = [promised EXCEPT ![req[p].phone] = t]
  /\ UNCHANGED <<accounts, offering, guestIds, log, visits, registered, fumbled>>

Entry(p) == [phone |-> req[p].phone, key |-> Key(req[p])]

LogExists(p) ==
  LET l == Kind(Key(req[p])) IN
  /\ At(p, "exists", {"try"}) /\ On(p, IF log[l] = None THEN "logFirst" ELSE "logNext")
  /\ Fumble(log[l] = None /\ \E q \in Procs \ {p} : pc[q] = "logFirst" /\ Kind(Key(req[q])) = l, l)
  /\ UNCHANGED <<accounts, offering, guestIds, visiting>>

LogFirst(p) ==
  /\ At(p, "logFirst", {"try"}) /\ On(p, "session")
  /\ log' = [log EXCEPT ![Kind(Key(req[p]))] = {Entry(p)}]
  /\ registered' = registered \union {Entry(p)}
  /\ UNCHANGED <<accounts, offering, guestIds, until, visits, promised, fumbled>>

\* Mutant: the log is written anew.
LogNextAnew(p) ==
  /\ At(p, "logNext", {"try"}) /\ On(p, "session")
  /\ log' = [log EXCEPT ![Kind(Key(req[p]))] = {Entry(p)}]
  /\ registered' = registered \union {Entry(p)}
  /\ UNCHANGED <<accounts, offering, guestIds, until, visits, promised, fumbled>>

LogNext(p) ==
  LET l == Kind(Key(req[p])) IN
  /\ At(p, "logNext", {"try"}) /\ On(p, "session")
  /\ log' = [log EXCEPT ![l] = IF @ = None THEN {Entry(p)} ELSE @ \union {Entry(p)}]
  /\ registered' = registered \union {Entry(p)}
  /\ UNCHANGED <<accounts, offering, guestIds, until, visits, promised, fumbled>>

CheckAuthority(p) ==
  LET t == until[seen[p].user] IN
  /\ At(p, "authority", {"enter"})
  /\ IF t = None \/ clock >= t THEN Return(p) ELSE On(p, "stamp")
  /\ UNCHANGED <<accounts, visitors>>

\* Errors of the two are ignored.
StampLogin(p) ==
  /\ At(p, "stamp", {"enter"}) /\ On(p, "count")
  /\ \/ visits' = [visits EXCEPT !.time = @ \union {req[p].phone}]
     \/ CanFail /\ UNCHANGED visits
  /\ UNCHANGED <<accounts, offering, guestIds, until, log, promised, registered, fumbled>>

CountLogin(p) ==
  /\ At(p, "count", {"enter"}) /\ On(p, "session")
  /\ \/ visits' = [visits EXCEPT !.count = @ \union {req[p].phone}]
     \/ CanFail /\ UNCHANGED visits
  /\ UNCHANGED <<accounts, offering, guestIds, until, log, promised, registered, fumbled>>

\* The invitation or the log cannot be had, or the class is not in the cache, which is
\* found out last: a visitor who is not let in may be registered.
VisitFails(p) ==
  /\ CanFail /\ Busy(p) /\ req[p].op \in Visits \union {"tokens"}
  /\ pc[p] \in {"offer", "authorize", "exists", "logFirst", "logNext", "authority", "session", "list"}
  /\ Return(p) /\ UNCHANGED <<accounts, visitors>>

Tick ==
  /\ clock < Scenes[scene].time /\ clock' = clock + 1
  /\ UNCHANGED <<scene, local, accounts, offers, guestIds, visiting, fumbled>>

ExperienceStep(p) ==
  \/ onHttpGenerateClassInvitationToken(p) \/ onHttpQueryClassInvitationToken(p)
  \/ onHttpExperienceRegister(p) \/ onHttpExperienceLogin(p)
  \/ GenerateInvitation(p) \/ QueryInvitations(p) \/ DeleteExpired(p)
  \/ GetOffer(p) \/ DropOffer(p) \/ TakeOffer(p)
  \/ GetPhone(p) \/ NewGuest(p) \/ SetPhone(p) \/ BuildInfo(p)
  \/ Authorize(p) \/ LogExists(p) \/ LogFirst(p) \/ LogNext(p)
  \/ CheckAuthority(p) \/ StampLogin(p) \/ CountLogin(p) \/ VisitFails(p)

-----------------------------------------------------------------------------

\* A registration holds: the phone number leads to a guest whose visits end when the last
\* registration of the number said, the log keeps who registered, and nobody else came in
\* with the same token.  Two requests for a number, a token or the first entry of a log
\* must meet, or a command fail, for it not to.
RegistrationsHold ==
  /\ \A f \in Phones \ fumbled : promised[f] # None =>
       phoneId[f] # None /\ until[phoneId[f]] = promised[f]
  /\ \A e \in registered : Kind(e.key) \notin fumbled =>
       log[Kind(e.key)] # None /\ e \in log[Kind(e.key)]
  /\ \A d, e \in registered : d # e /\ d.key = e.key => d.key \in Teachers \union fumbled
=============================================================================
