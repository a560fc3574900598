------------------------------ MODULE Handlers ------------------------------
(***************************************************************************)
(* What the back office's request handlers have in common, whatever they   *)
(* work on: each is a goroutine that takes a request and goes from one     *)
(* statement or cache command to the next, with what it read in its local  *)
(* variables.                                                              *)
(***************************************************************************)
EXTENDS Integers, FiniteSets

CONSTANTS
  Procs,    \* request handlers
  Scenes,   \* by name: the requests that come, how many at once, whether commands may fail,
            \* and bounds on what is made
  None

VARIABLES
  scene,
  pc, req,
  seen      \* what the handler read or computed, None if nothing

local == <<pc, req, seen>>

Calls     == Scenes[scene].calls
CanFail   == Scenes[scene].fails
Busy(p)   == pc[p] # "idle"
Idle(p)   == ~Busy(p) /\ Cardinality({q \in Procs : Busy(q)}) < Scenes[scene].hands
At(p, label, ops) == pc[p] = label /\ req[p].op \in ops

Goto(p, label) == pc' = [pc EXCEPT ![p] = label]

\* On with what was read.
With(p, label, value) == Goto(p, label) /\ seen' = [seen EXCEPT ![p] = value] /\ UNCHANGED req
On(p, label)          == Goto(p, label) /\ UNCHANGED <<req, seen>>

Return(p) ==
  /\ Goto(p, "idle")
  /\ req'  = [req EXCEPT ![p] = None]
  /\ seen' = [seen EXCEPT ![p] = None]

\* A request comes, and the handler goes to its first step.
Start(p, op, label, value) ==
  /\ Idle(p) /\ Goto(p, label)
  /\ \E r \in Calls : r.op = op /\ req' = [req EXCEPT ![p] = r]
  /\ seen' = [seen EXCEPT ![p] = value]

HandlersInit ==
  /\ scene \in DOMAIN Scenes
  /\ pc   = [p \in Procs |-> "idle"]
  /\ req  = [p \in Procs |-> None]
  /\ seen = [p \in Procs |-> None]
=============================================================================
