----------------------------- MODULE Enrollment -----------------------------
(***************************************************************************)
(* What the class service promises about its rosters, with no database,    *)
(* cache or lock in sight: every change of a roster takes effect in one    *)
(* step, on one class, for one user or one meeting, and touches nobody     *)
(* else.  ClassRoster implements it.                                       *)
(***************************************************************************)
CONSTANTS Users, Classes, Meetings, None

VARIABLES roster  \* [class -> its users and meetings, or None once deleted]

Fields == {"teacher", "student", "meetings"}
Members(f) == IF f = "meetings" THEN Meetings ELSE Users

Open(c) == roster[c] # None

Init == roster = [c \in Classes |-> [teacher |-> {}, student |-> {}, meetings |-> {}]]

\* x becomes a teacher, a student or a meeting of class c.
Enter(c, f, x) ==
  Open(c) /\ roster' = [roster EXCEPT ![c][f] = @ \union {x}]

Withdraw(c, f, u) ==
  Open(c) /\ f # "meetings" /\ roster' = [roster EXCEPT ![c][f] = @ \ {u}]

Close(c) == roster' = [roster EXCEPT ![c] = None]

Next ==
  \E c \in Classes :
    \/ \E f \in Fields : \E x \in Members(f) : Enter(c, f, x) \/ Withdraw(c, f, x)
    \/ Close(c)

Spec == Init /\ [][Next]_roster
=============================================================================
