----------------------------- MODULE BackOffice -----------------------------
(***************************************************************************)
(* The handlers of the back office that work on what has no class: users   *)
(* and sessions, visitors without an account, the catalogues, issues and   *)
(* exams; and the keepers of a class.  They share the handlers'            *)
(* goroutines, and the first two the sessions.                             *)
(***************************************************************************)
EXTENDS Experience, Directory, Issues, Exams, Keepers

vars == <<scene, local, accounts, visitors, directory, issues, exams, keepers>>

Init == HandlersInit /\ AccountsInit /\ ExperienceInit /\ DirectoryInit
        /\ IssuesInit /\ ExamsInit /\ KeepersInit

\* A handler that is busy goes on with the request it has, one that is idle takes one that comes.
Comes(ops)  == ops \intersect {r.op : r \in Calls} # {}
May(p, ops) ==
  /\ Busy(p) => req[p].op \in ops
  /\ Busy(p) \/ (Idle(p) /\ Comes(ops))

Step(p) ==
  \/ /\ May(p, UserOps \union Visits) /\ AccountsStep(p)
     /\ UNCHANGED <<visitors, directory, issues, exams, keepers>>
  \/ /\ May(p, Visits \union {"generate", "tokens"}) /\ ExperienceStep(p)
     /\ UNCHANGED <<directory, issues, exams, keepers>>
  \/ /\ May(p, DirectoryOps) /\ DirectoryStep(p)
     /\ UNCHANGED <<accounts, visitors, issues, exams, keepers>>
  \/ /\ May(p, IssueOps) /\ IssuesStep(p)
     /\ UNCHANGED <<accounts, visitors, directory, exams, keepers>>
  \/ /\ May(p, ExamOps) /\ ExamsStep(p)
     /\ UNCHANGED <<accounts, visitors, directory, issues, keepers>>
  \/ /\ May(p, KeeperOps) /\ KeepersStep(p)
     /\ UNCHANGED <<accounts, visitors, directory, issues, exams>>

Next ==
  \/ Tick      /\ UNCHANGED <<directory, issues, exams, keepers>>
  \/ GdRevises /\ UNCHANGED <<accounts, visitors, directory, issues, keepers>>
  \/ UNCHANGED scene /\ \E p \in Procs : Step(p)

Spec == Init /\ [][Next]_vars
=============================================================================
