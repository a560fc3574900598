---------------------------- MODULE IdGenerator ----------------------------
(***************************************************************************)
(* smrpc's SQLIdGenerator: processes take batches of ids from one row of   *)
(* the id_space table, by an UPDATE that succeeds only if the seed is the  *)
(* one that was read, and give the ids of their batch out from memory,     *)
(* under one mutex per process.  A process that stops loses its batch.     *)
(*                                                                         *)
(* The code says of Reload that it must not give a number out again after  *)
(* a stop at a boundary: NeverTwice.                                       *)
(***************************************************************************)
EXTENDS Integers

CONSTANTS
  Hosts,      \* processes that share the table
  Threads,    \* goroutines that ask for ids
  home,       \* the process of each
  BatchSize,  \* of the row
  MaxSeed,    \* bound on the seed
  Mishaps,    \* whether statements and processes may fail
  Free        \* no goroutine: what a free mutex has

ASSUME HomesAreHosts   == home \in [Threads -> Hosts]
ASSUME BatchIsPositive == BatchSize \in Nat \ {0}
ASSUME BoundIsNatural  == MaxSeed \in Nat
ASSUME MishapsIsFlag   == Mishaps \in BOOLEAN
ASSUME FreeIsNoThread  == Free \notin Threads

VARIABLES
  seed,      \* the committed seed of the row
  gen,       \* the map of a process: nil, empty, or with the space loaded
  start, end, read,  \* the IDSpace of a process: start, end, Seed
  lock,      \* the mutex of a process
  at,        \* where each goroutine is
  failed,    \* history: processes whose first load found no rows
  issued,    \* history: the ids given out
  twice      \* history: those given out again

space  == <<start, end, read>>
idVars == <<seed, gen, space, lock, at, failed, issued, twice>>

Held   == {"load", "loadFind", "loadCas", "find", "cas"}
Labels == {"idle", "instance", "want"} \union Held

IdInit ==
  /\ seed \in 0..MaxSeed /\ gen = [p \in Hosts |-> "nil"]
  /\ start = [p \in Hosts |-> 0] /\ end = [p \in Hosts |-> 0] /\ read = [p \in Hosts |-> 0]
  /\ lock = [p \in Hosts |-> Free] /\ at = [t \in Threads |-> "idle"]
  /\ failed = {} /\ issued = {} /\ twice = {}

Pass(t, label) == at' = [at EXCEPT ![t] = label]

Acquire(t) == lock[home[t]] = Free /\ lock' = [lock EXCEPT ![home[t]] = t]
Release(t) == lock' = [lock EXCEPT ![home[t]] = Free]

Issue(n) ==
  /\ issued' = issued \union {n}
  /\ twice'  = IF n \in issued THEN twice \union {n} ELSE twice

-----------------------------------------------------------------------------
(* newSQLIdGenerator: the map is made and filled once, under the mutex.    *)

\* The first of the two checks, without the mutex.
Instance(t) ==
  /\ at[t] = "idle"
  /\ Pass(t, IF gen[home[t]] = "nil" THEN "instance" ELSE "want")
  /\ UNCHANGED <<seed, gen, space, lock, failed, issued, twice>>

\* Mutant: the mutex is released before the map is filled.
CreateUnlocked(t) ==
  /\ at[t] = "instance" /\ gen[home[t]] = "nil" /\ lock[home[t]] = Free /\ Pass(t, "load")
  /\ gen' = [gen EXCEPT ![home[t]] = "empty"]
  /\ UNCHANGED <<seed, space, lock, failed, issued, twice>>

\* The second check: the others see a map from here on.
Create(t) ==
  /\ at[t] = "instance" /\ gen[home[t]] = "nil" /\ Acquire(t) /\ Pass(t, "load")
  /\ gen' = [gen EXCEPT ![home[t]] = "empty"]
  /\ UNCHANGED <<seed, space, failed, issued, twice>>

Created(t) ==
  /\ at[t] = "instance" /\ gen[home[t]] # "nil" /\ lock[home[t]] = Free /\ Pass(t, "want")
  /\ UNCHANGED <<seed, gen, space, lock, failed, issued, twice>>

\* Init lists the spaces and reloads each.
LoadSpaces(t) ==
  /\ at[t] = "load" /\ Pass(t, "loadFind")
  /\ UNCHANGED <<seed, gen, space, lock, failed, issued, twice>>

\* The list could not be read, and nothing will read it again.
LoadNothing(t) ==
  /\ Mishaps /\ at[t] = "load" /\ Release(t) /\ Pass(t, "want")
  /\ failed' = failed \union {home[t]}
  /\ UNCHANGED <<seed, gen, space, issued, twice>>

-----------------------------------------------------------------------------
(* Reload: read the row, then take a batch if the seed has not moved.      *)

AfterFind(t) == Pass(t, IF at[t] = "loadFind" THEN "loadCas" ELSE "cas")
FindAgain(t) == Pass(t, IF at[t] = "loadCas" THEN "loadFind" ELSE "find")

Find(t) ==
  /\ at[t] \in {"loadFind", "find"} /\ AfterFind(t)
  /\ read' = [read EXCEPT ![home[t]] = seed]
  /\ UNCHANGED <<seed, gen, start, end, lock, failed, issued, twice>>

\* The error of Find is not looked at: the IDSpace keeps the seed it had.
FindFails(t) ==
  /\ Mishaps /\ at[t] = "find" /\ AfterFind(t)
  /\ UNCHANGED <<seed, gen, space, lock, failed, issued, twice>>

Moved(t) ==
  /\ at[t] \in {"loadCas", "cas"} /\ seed # read[home[t]] /\ FindAgain(t)
  /\ UNCHANGED <<seed, gen, space, lock, failed, issued, twice>>

First(p) == IF start[p] < read[p] THEN read[p] + 1 ELSE start[p] + 1

\* Mutant: the UPDATE does not ask for the seed that was read.
TakeBatchAnyway(t) ==
  LET p == home[t] IN
  /\ read[p] + BatchSize <= MaxSeed
  /\ seed'  = read[p] + BatchSize
  /\ start' = [start EXCEPT ![p] = First(p)]
  /\ end'   = [end EXCEPT ![p] = read[p] + BatchSize]
  /\ Release(t) /\ UNCHANGED <<read, failed>>

\* The UPDATE found the seed that was read; start and end are those of the batch.
TakeBatch(t) ==
  LET p == home[t] IN
  /\ seed = read[p] /\ seed + BatchSize <= MaxSeed
  /\ seed'  = seed + BatchSize
  /\ start' = [start EXCEPT ![p] = First(p)]
  /\ end'   = [end EXCEPT ![p] = read[p] + BatchSize]
  /\ Release(t) /\ UNCHANGED <<read, failed>>

Load(t) ==
  /\ at[t] = "loadCas" /\ TakeBatch(t) /\ Pass(t, "want")
  /\ gen' = [gen EXCEPT ![home[t]] = "loaded"]
  /\ UNCHANGED <<issued, twice>>

\* The generator that took the batch gives out its first id.
GiveFirst(t) ==
  /\ at[t] = "cas" /\ TakeBatch(t) /\ Pass(t, "idle") /\ Issue(First(home[t]))
  /\ UNCHANGED gen

\* The UPDATE is carried out but its answer is lost: no rows, so read again.
AnswerLost(t) ==
  /\ Mishaps /\ at[t] \in {"loadCas", "cas"} /\ seed = read[home[t]]
  /\ seed + BatchSize <= MaxSeed /\ seed' = seed + BatchSize /\ FindAgain(t)
  /\ UNCHANGED <<gen, space, lock, failed, issued, twice>>

-----------------------------------------------------------------------------
(* GenerateStringID, GenerateLongID, GenerateGuardID, under the mutex.     *)

\* Panic("space name not found"), which the deferred Unlock survives.
Panic(t) ==
  /\ at[t] = "want" /\ lock[home[t]] = Free /\ gen[home[t]] # "loaded" /\ Pass(t, "idle")
  /\ UNCHANGED <<seed, gen, space, lock, failed, issued, twice>>

Give(t) ==
  LET p == home[t] IN
  /\ at[t] = "want" /\ lock[p] = Free /\ gen[p] = "loaded" /\ start[p] < end[p] /\ Pass(t, "idle")
  /\ start' = [start EXCEPT ![p] = @ + 1] /\ Issue(start[p] + 1)
  /\ UNCHANGED <<seed, gen, end, read, lock, failed>>

Exhausted(t) ==
  LET p == home[t] IN
  /\ at[t] = "want" /\ gen[p] = "loaded" /\ start[p] >= end[p] /\ Acquire(t) /\ Pass(t, "find")
  /\ UNCHANGED <<seed, gen, space, failed, issued, twice>>

-----------------------------------------------------------------------------

\* A process stops and starts again: what it had in memory is gone.
Restart(p) ==
  /\ Mishaps
  /\ gen'   = [gen EXCEPT ![p] = "nil"] /\ lock' = [lock EXCEPT ![p] = Free]
  /\ start' = [start EXCEPT ![p] = 0]   /\ end' = [end EXCEPT ![p] = 0]
  /\ read'  = [read EXCEPT ![p] = 0]    /\ failed' = failed \ {p}
  /\ at' = [t \in Threads |-> IF home[t] = p THEN "idle" ELSE at[t]]
  /\ UNCHANGED <<seed, issued, twice>>

Step(t) ==
  \/ Instance(t) \/ Create(t) \/ Created(t) \/ LoadSpaces(t) \/ LoadNothing(t)
  \/ Find(t) \/ FindFails(t) \/ Moved(t) \/ Load(t) \/ GiveFirst(t) \/ AnswerLost(t)
  \/ Panic(t) \/ Give(t) \/ Exhausted(t)

IdNext == (\E t \in Threads : Step(t)) \/ (\E p \in Hosts : Restart(p))

IdSpec == IdInit /\ [][IdNext]_idVars

-----------------------------------------------------------------------------
(* Properties                                                              *)

\* Shape of the row, the processes' memory and the history.
TypeOK ==
  /\ seed  \in 0..MaxSeed
  /\ gen   \in [Hosts -> {"nil", "empty", "loaded"}]
  /\ start \in [Hosts -> Nat] /\ end \in [Hosts -> Nat] /\ read \in [Hosts -> Nat]
  /\ lock  \in [Hosts -> Threads \union {Free}]
  /\ at    \in [Threads -> Labels]
  /\ failed \in SUBSET Hosts /\ issued \in SUBSET (1..MaxSeed) /\ twice \in SUBSET issued

\* No id is given out twice, by whatever processes and across restarts: what
\* the comment on Reload's boundary case asks for.
NeverTwice == twice = {}

\* What a process still has in memory is reserved in the row, was never given
\* out, and is no other process's, so that nobody can give it out again.
Remaining(p) == IF gen[p] = "loaded" THEN {n \in 1..MaxSeed : start[p] < n /\ n <= end[p]} ELSE {}

BatchesAreReserved ==
  /\ \A n \in issued : n <= seed
  /\ \A p \in Hosts :
       /\ Remaining(p) \intersect issued = {} /\ \A n \in Remaining(p) : n <= seed
       /\ \A q \in Hosts \ {p} : Remaining(p) \intersect Remaining(q) = {}

\* Nobody who asks for an id finds its space missing while another goroutine
\* is loading it, although the first check is made without the mutex.
SpaceIsLoaded ==
  \A t \in Threads :
    at[t] = "want" /\ lock[home[t]] = Free => gen[home[t]] = "loaded" \/ home[t] \in failed

=============================================================================
