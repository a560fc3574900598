-------------------------- MODULE IdsAndLists_proofs --------------------------
(***************************************************************************)
(* Theorems about IdGenerator, for any services, goroutines and batch      *)
(* size, and about MeetingResources, for any resources, handlers and       *)
(* calls.  The two models have nothing to do with each other.              *)
(***************************************************************************)
EXTENDS IdGenerator, MeetingResources, FiniteSetTheorems, TLAPS

-----------------------------------------------------------------------------
(* Ids.                                                                    *)

(***************************************************************************)
(* Why ids are unique: the seed is above every batch, batches do not       *)
(* overlap, and what is left of a batch has not been given out.            *)
(***************************************************************************)

\* What a process holds in memory lies below the seed of the row.
BelowSeed == \A p \in Hosts : start[p] <= end[p] /\ end[p] <= seed /\ read[p] <= seed

\* Of two batches in memory one ends before the other starts.
Apart ==
  \A p, q \in Hosts :
    p # q /\ gen[p] = "loaded" /\ gen[q] = "loaded" => end[p] < start[q] \/ end[q] < start[p]

\* An id that was given out lies below the seed and in nobody's remaining batch.
NoneLeft ==
  \A n \in issued :
    n <= seed /\ \A p \in Hosts : gen[p] = "loaded" => n <= start[p] \/ end[p] < n

UniqueInv == TypeOK /\ BelowSeed /\ Apart /\ NoneLeft /\ NeverTwice

LEMMA InitUnique == IdInit => UniqueInv
  BY HomesAreHosts, BoundIsNatural
  DEF IdInit, UniqueInv, TypeOK, Labels, Held, BelowSeed, Apart, NoneLeft, NeverTwice

\* The batch starts right above the seed, whether the last one was this process's or not.
LEMMA FirstIsNext ==
  ASSUME UniqueInv, NEW p \in Hosts, seed = read[p]
  PROVE  First(p) = seed + 1
  BY BoundIsNatural DEF First, UniqueInv, TypeOK, BelowSeed

LEMMA BatchKeepsUnique ==
  ASSUME UniqueInv, NEW t \in Threads, TakeBatch(t)
  PROVE  /\ seed' \in 0..MaxSeed /\ seed' > seed
         /\ seed + 1 \in 1..MaxSeed /\ seed + 1 <= seed'
         /\ start' = [start EXCEPT ![home[t]] = seed + 1]
         /\ end' = [end EXCEPT ![home[t]] = seed'] /\ read' = read
         /\ start' \in [Hosts -> Nat] /\ end' \in [Hosts -> Nat]
         /\ lock' \in [Hosts -> Threads \union {Free}]
         /\ BelowSeed'
         /\ \A p \in Hosts : p # home[t] => end'[p] < start'[home[t]]
         /\ failed' = failed
<1> USE HomesAreHosts, BatchIsPositive, BoundIsNatural
<1> DEFINE p == home[t]
<1>1. p \in Hosts /\ seed = read[p] BY DEF TakeBatch
<1>2. First(p) = seed + 1 BY <1>1, FirstIsNext
<1>3. seed \in Nat /\ seed <= MaxSeed BY DEF UniqueInv, TypeOK
<1>4. /\ seed' = seed + BatchSize /\ seed' <= MaxSeed
      /\ start' = [start EXCEPT ![p] = seed + 1] /\ end' = [end EXCEPT ![p] = seed']
      /\ read' = read /\ failed' = failed
  BY <1>1, <1>2 DEF TakeBatch
<1>5. seed' \in 0..MaxSeed /\ seed' > seed /\ seed + 1 \in 1..MaxSeed /\ seed + 1 <= seed'
  BY <1>3, <1>4
<1>6. /\ start' \in [Hosts -> Nat] /\ end' \in [Hosts -> Nat]
      /\ lock' \in [Hosts -> Threads \union {Free}]
  BY <1>1, <1>3, <1>4, <1>5 DEF UniqueInv, TypeOK, TakeBatch, Release
<1>7. BelowSeed'
  <2> SUFFICES ASSUME NEW q \in Hosts
               PROVE  start'[q] <= end'[q] /\ end'[q] <= seed' /\ read'[q] <= seed'
    BY DEF BelowSeed
  <2>1. /\ start[q] \in Nat /\ end[q] \in Nat /\ read[q] \in Nat
        /\ start[q] <= end[q] /\ end[q] <= seed /\ read[q] <= seed
    BY DEF UniqueInv, TypeOK, BelowSeed
  <2>2. CASE q = p
    BY <2>1, <2>2, <1>1, <1>3, <1>4, <1>5 DEF UniqueInv, TypeOK
  <2>3. CASE q # p
    BY <2>1, <2>3, <1>3, <1>4, <1>5 DEF UniqueInv, TypeOK
  <2> QED BY <2>2, <2>3
<1>8. ASSUME NEW q \in Hosts, q # p PROVE end'[q] < start'[p]
  <2>1. end'[q] = end[q] /\ start'[p] = seed + 1
    BY <1>1, <1>4, <1>8 DEF UniqueInv, TypeOK
  <2> QED BY <2>1, <1>3 DEF UniqueInv, TypeOK, BelowSeed
<1> QED BY <1>4, <1>5, <1>6, <1>7, <1>8

\* The new batch is apart from the others and wholly above what was given out.
LEMMA BatchIsApart ==
  ASSUME UniqueInv, NEW t \in Threads, TakeBatch(t),
         gen' = gen \/ gen' = [gen EXCEPT ![home[t]] = "loaded"]
  PROVE  Apart'
<1> USE HomesAreHosts
<1>1. /\ start' = [start EXCEPT ![home[t]] = seed + 1]
      /\ end' = [end EXCEPT ![home[t]] = seed']
      /\ \A p \in Hosts : p # home[t] => end'[p] < start'[home[t]]
  BY BatchKeepsUnique
<1> SUFFICES ASSUME NEW p \in Hosts, NEW q \in Hosts, p # q,
                    gen'[p] = "loaded", gen'[q] = "loaded"
             PROVE  end'[p] < start'[q] \/ end'[q] < start'[p]
  BY DEF Apart
<1>2. CASE p = home[t] BY <1>1, <1>2
<1>3. CASE q = home[t] BY <1>1, <1>3
<1>4. CASE p # home[t] /\ q # home[t]
  <2>1. gen[p] = "loaded" /\ gen[q] = "loaded" BY <1>4 DEF UniqueInv, TypeOK
  <2>2. start'[p] = start[p] /\ start'[q] = start[q] /\ end'[p] = end[p] /\ end'[q] = end[q]
    BY <1>1, <1>4 DEF UniqueInv, TypeOK
  <2> QED BY <2>1, <2>2 DEF UniqueInv, Apart
<1> QED BY <1>2, <1>3, <1>4

LEMMA LoadUnique ==
  ASSUME UniqueInv, NEW t \in Threads, Load(t)
  PROVE  UniqueInv'
<1> USE HomesAreHosts, BoundIsNatural
<1>1. TakeBatch(t) /\ gen' = [gen EXCEPT ![home[t]] = "loaded"] BY DEF Load
<1>2. BelowSeed' /\ Apart' BY <1>1, BatchKeepsUnique, BatchIsApart
<1>3. TypeOK' BY <1>1, BatchKeepsUnique DEF Load, Pass, UniqueInv, TypeOK, Labels
<1>4. NoneLeft'
  <2> SUFFICES ASSUME NEW n \in issued, NEW p \in Hosts, gen'[p] = "loaded"
               PROVE  n <= seed' /\ (n <= start'[p] \/ end'[p] < n)
    <3>1. issued' = issued BY DEF Load
    <3>2. \A n \in issued : n <= seed'
      BY BatchKeepsUnique, <1>1 DEF UniqueInv, NoneLeft, TypeOK
    <3> QED BY <3>1, <3>2 DEF NoneLeft
  <2>1. n \in Nat /\ n <= seed /\ seed \in Nat BY DEF UniqueInv, NoneLeft, TypeOK
  <2>2. n <= seed' BY <2>1, <1>1, BatchKeepsUnique
  <2>3. CASE p = home[t]
    <3>1. start'[p] = seed + 1 BY <2>3, <1>1, BatchKeepsUnique DEF UniqueInv, TypeOK
    <3> QED BY <3>1, <2>1, <2>2
  <2>4. CASE p # home[t]
    <3>1. gen[p] = "loaded" /\ start'[p] = start[p] /\ end'[p] = end[p]
      BY <2>4, <1>1, BatchKeepsUnique DEF UniqueInv, TypeOK
    <3> QED BY <3>1, <2>2 DEF UniqueInv, NoneLeft
  <2> QED BY <2>3, <2>4
<1>5. NeverTwice' BY DEF Load, UniqueInv, NeverTwice
<1> QED BY <1>2, <1>3, <1>4, <1>5 DEF UniqueInv

LEMMA GiveFirstUnique ==
  ASSUME UniqueInv, NEW t \in Threads, GiveFirst(t)
  PROVE  UniqueInv'
<1> USE HomesAreHosts, BoundIsNatural
<1> DEFINE p == home[t]
<1>1. TakeBatch(t) /\ gen' = gen /\ p \in Hosts BY DEF GiveFirst
<1>2. BelowSeed' /\ Apart' BY <1>1, BatchKeepsUnique, BatchIsApart
<1>3. First(p) = seed + 1 BY <1>1, FirstIsNext DEF TakeBatch
<1>4. seed + 1 \notin issued BY DEF UniqueInv, NoneLeft, TypeOK
<1>5. issued' = issued \union {seed + 1} /\ twice' = twice BY <1>3, <1>4 DEF GiveFirst, Issue
<1>6. TypeOK' BY <1>1, <1>5, BatchKeepsUnique DEF GiveFirst, Pass, UniqueInv, TypeOK, Labels
<1>7. NoneLeft'
  <2> SUFFICES ASSUME NEW n \in issued', NEW q \in Hosts
               PROVE  n <= seed' /\ (gen[q] = "loaded" => n <= start'[q] \/ end'[q] < n)
    BY <1>1 DEF NoneLeft
  <2>1. seed \in Nat /\ n \in Nat /\ n <= seed + 1 /\ seed + 1 <= seed'
    BY <1>1, <1>5, BatchKeepsUnique DEF UniqueInv, NoneLeft, TypeOK
  <2>2. seed' \in Nat BY <1>1, BatchKeepsUnique
  <2>3. CASE q = p
    <3>1. start'[q] = seed + 1 BY <2>3, <1>1, BatchKeepsUnique DEF UniqueInv, TypeOK
    <3> QED BY <3>1, <2>1, <2>2
  <2>4. CASE q # p
    <3>1. start'[q] = start[q] /\ end'[q] = end[q]
      BY <2>4, <1>1, BatchKeepsUnique DEF UniqueInv, TypeOK
    <3>2. CASE n = seed + 1
      <4>1. end[q] \in Nat /\ end[q] <= seed BY DEF UniqueInv, TypeOK, BelowSeed
      <4> QED BY <4>1, <3>1, <3>2, <2>1, <2>2
    <3>3. CASE n \in issued BY <3>3, <3>1, <2>1, <2>2 DEF UniqueInv, NoneLeft
    <3> QED BY <3>2, <3>3, <1>5
  <2> QED BY <2>3, <2>4
<1>8. NeverTwice' BY <1>5 DEF UniqueInv, NeverTwice
<1> QED BY <1>2, <1>6, <1>7, <1>8 DEF UniqueInv

LEMMA GiveUnique ==
  ASSUME UniqueInv, NEW t \in Threads, Give(t)
  PROVE  UniqueInv'
<1> USE HomesAreHosts, BoundIsNatural
<1> DEFINE p == home[t]  n == start[p] + 1
<1>1. /\ p \in Hosts /\ gen[p] = "loaded" /\ start[p] \in Nat /\ end[p] \in Nat
      /\ start[p] < end[p] /\ end[p] <= seed /\ seed \in 0..MaxSeed
  BY DEF Give, UniqueInv, TypeOK, BelowSeed
<1>2. n \in 1..MaxSeed /\ n <= end[p] BY <1>1
<1>3. n \notin issued
  <2> SUFFICES ASSUME n \in issued PROVE FALSE OBVIOUS
  <2>1. n <= start[p] \/ end[p] < n BY <1>1 DEF UniqueInv, NoneLeft
  <2> QED BY <2>1, <1>1
<1>4. /\ issued' = issued \union {n} /\ twice' = twice /\ start' = [start EXCEPT ![p] = n]
      /\ seed' = seed /\ gen' = gen /\ end' = end /\ read' = read /\ lock' = lock /\ failed' = failed
  BY <1>3 DEF Give, Issue
<1>5. TypeOK'
  <2>1. at' \in [Threads -> Labels] BY DEF Give, Pass, UniqueInv, TypeOK, Labels
  <2>2. issued' \in SUBSET (1..MaxSeed) /\ twice' \in SUBSET issued'
    BY <1>2, <1>4 DEF UniqueInv, TypeOK
  <2>3. start' \in [Hosts -> Nat] BY <1>1, <1>2, <1>4 DEF UniqueInv, TypeOK
  <2> QED BY <1>4, <2>1, <2>2, <2>3 DEF UniqueInv, TypeOK
<1>6. BelowSeed'
  BY <1>1, <1>2, <1>4 DEF UniqueInv, TypeOK, BelowSeed
<1>7. Apart'
  <2> SUFFICES ASSUME NEW q \in Hosts, NEW r \in Hosts, q # r, gen[q] = "loaded", gen[r] = "loaded"
               PROVE  end[q] < start'[r] \/ end[r] < start'[q]
    BY <1>4 DEF Apart
  <2>1. \A s \in Hosts : start[s] <= start'[s] /\ start[s] \in Nat /\ start'[s] \in Nat /\ end[s] \in Nat
    BY <1>1, <1>4 DEF UniqueInv, TypeOK
  <2>2. end[q] < start[r] \/ end[r] < start[q] BY DEF UniqueInv, Apart
  <2> QED BY <2>1, <2>2
<1>8. NoneLeft'
  <2> SUFFICES ASSUME NEW m \in issued \union {n}, NEW q \in Hosts
               PROVE  m <= seed /\ (gen[q] = "loaded" => m <= start'[q] \/ end[q] < m)
    BY <1>4 DEF NoneLeft
  <2>1. start[q] \in Nat /\ end[q] \in Nat /\ m \in Nat BY <1>2 DEF UniqueInv, TypeOK
  <2>2. CASE m = n /\ q = p
    <3>1. start'[q] = n BY <2>2, <1>1, <1>4 DEF UniqueInv, TypeOK
    <3> QED BY <3>1, <2>2, <1>1, <1>2
  <2>3. CASE m = n /\ q # p
    <3>1. start'[q] = start[q] BY <2>3, <1>4 DEF UniqueInv, TypeOK
    <3>2. gen[q] = "loaded" => end[p] < start[q] \/ end[q] < start[p]
      BY <2>3, <1>1 DEF UniqueInv, Apart
    <3> QED BY <3>1, <3>2, <2>1, <2>3, <1>1, <1>2
  <2>4. CASE m \in issued
    <3>1. m <= seed /\ (gen[q] = "loaded" => m <= start[q] \/ end[q] < m)
      BY <2>4 DEF UniqueInv, NoneLeft
    <3>2. start[q] <= start'[q] /\ start'[q] \in Nat BY <1>1, <1>4, <2>1 DEF UniqueInv, TypeOK
    <3> QED BY <3>1, <3>2, <2>1
  <2> QED BY <2>2, <2>3, <2>4
<1>9. NeverTwice' BY <1>4 DEF UniqueInv, NeverTwice
<1> QED BY <1>5, <1>6, <1>7, <1>8, <1>9 DEF UniqueInv
\* A step that takes no batch and gives no id may raise the seed, and forget batches.
LEMMA OthersUnique ==
  ASSUME UniqueInv, TypeOK', seed' >= seed, issued' = issued, twice' = twice,
         \A p \in Hosts : \/ start'[p] = start[p] /\ end'[p] = end[p]
                          \/ start'[p] = 0 /\ end'[p] = 0,
         \A p \in Hosts : gen'[p] = "loaded" =>
           gen[p] = "loaded" /\ start'[p] = start[p] /\ end'[p] = end[p],
         \A p \in Hosts : read'[p] <= seed'
  PROVE  UniqueInv'
<1> USE BoundIsNatural
<1>1. BelowSeed'
  <2> SUFFICES ASSUME NEW p \in Hosts PROVE start'[p] <= end'[p] /\ end'[p] <= seed'
    BY DEF BelowSeed
  <2>1. start[p] <= end[p] /\ end[p] <= seed /\ end[p] \in Nat /\ seed \in Nat /\ seed' \in Nat
    BY DEF UniqueInv, BelowSeed, TypeOK
  <2> QED BY <2>1
<1>2. Apart' BY DEF UniqueInv, Apart
<1>3. NoneLeft'
  <2> SUFFICES ASSUME NEW n \in issued
               PROVE  n <= seed' /\ \A p \in Hosts : gen'[p] = "loaded" => n <= start'[p] \/ end'[p] < n
    BY DEF NoneLeft
  <2>1. n \in Nat /\ n <= seed /\ seed \in Nat /\ seed' \in Nat BY DEF UniqueInv, NoneLeft, TypeOK
  <2>2. n <= seed' BY <2>1
  <2>3. \A p \in Hosts : gen[p] = "loaded" => n <= start[p] \/ end[p] < n BY DEF UniqueInv, NoneLeft
  <2> QED BY <2>2, <2>3
<1>4. NeverTwice' BY DEF UniqueInv, NeverTwice
<1> QED BY <1>1, <1>2, <1>3, <1>4 DEF UniqueInv

LEMMA StepUnique ==
  ASSUME UniqueInv, NEW t \in Threads, Step(t)
  PROVE  UniqueInv'
<1> USE HomesAreHosts, BatchIsPositive, BoundIsNatural
<1>0. /\ TypeOK /\ seed \in Nat /\ home[t] \in Hosts
      /\ \A p \in Hosts : read[p] \in Nat /\ read[p] <= seed
  BY DEF UniqueInv, TypeOK, BelowSeed
<1>1. CASE Load(t)      BY <1>1, LoadUnique
<1>2. CASE GiveFirst(t) BY <1>2, GiveFirstUnique
<1>3. CASE Give(t)      BY <1>3, GiveUnique
<1>4. CASE Instance(t) \/ Created(t) \/ LoadSpaces(t) \/ FindFails(t) \/ Moved(t) \/ Panic(t)
  <2>1. /\ seed' = seed /\ gen' = gen /\ start' = start /\ end' = end /\ read' = read
        /\ lock' = lock /\ failed' = failed /\ issued' = issued /\ twice' = twice
        /\ \E l \in Labels : at' = [at EXCEPT ![t] = l]
    BY <1>4 DEF Instance, Created, LoadSpaces, FindFails, Moved, Panic, space, Pass, AfterFind,
                FindAgain, Labels, Held
  <2>2. TypeOK' BY <2>1, <1>0 DEF TypeOK
  <2> QED BY <2>1, <2>2, <1>0, OthersUnique
<1>5. CASE Create(t) \/ LoadNothing(t) \/ Exhausted(t)
  <2>1. /\ seed' = seed /\ start' = start /\ end' = end /\ read' = read
        /\ issued' = issued /\ twice' = twice
        /\ gen' = gen \/ gen' = [gen EXCEPT ![home[t]] = "empty"]
        /\ \E x \in Threads \union {Free} : lock' = [lock EXCEPT ![home[t]] = x]
        /\ \E l \in Labels : at' = [at EXCEPT ![t] = l]
        /\ failed' \in SUBSET Hosts
    BY <1>5, <1>0 DEF Create, LoadNothing, Exhausted, space, Pass, Acquire, Release, Labels, Held, TypeOK
  <2>2. TypeOK' BY <2>1, <1>0 DEF TypeOK
  <2>3. \A p \in Hosts : gen'[p] = "loaded" => gen[p] = "loaded" BY <2>1, <1>0 DEF TypeOK
  <2> QED BY <2>1, <2>2, <2>3, <1>0, OthersUnique
<1>6. CASE Find(t)
  <2>1. /\ seed' = seed /\ gen' = gen /\ start' = start /\ end' = end
        /\ read' = [read EXCEPT ![home[t]] = seed]
        /\ lock' = lock /\ failed' = failed /\ issued' = issued /\ twice' = twice
        /\ \E l \in Labels : at' = [at EXCEPT ![t] = l]
    BY <1>6 DEF Find, Pass, AfterFind, Labels, Held
  <2>2. TypeOK' BY <2>1, <1>0 DEF TypeOK
  <2>3. \A p \in Hosts : read'[p] <= seed' BY <2>1, <1>0 DEF TypeOK
  <2> QED BY <2>1, <2>2, <2>3, <1>0, OthersUnique
<1>7. CASE AnswerLost(t)
  <2>1. /\ seed' = seed + BatchSize /\ seed' <= MaxSeed
        /\ gen' = gen /\ start' = start /\ end' = end /\ read' = read
        /\ lock' = lock /\ failed' = failed /\ issued' = issued /\ twice' = twice
        /\ \E l \in Labels : at' = [at EXCEPT ![t] = l]
    BY <1>7 DEF AnswerLost, space, Pass, FindAgain, Labels, Held
  <2>2. seed' \in 0..MaxSeed /\ seed' >= seed BY <2>1, <1>0
  <2>3. TypeOK' BY <2>1, <2>2, <1>0 DEF TypeOK
  <2>4. \A p \in Hosts : read'[p] <= seed' BY <2>1, <2>2, <1>0
  <2> QED BY <2>1, <2>2, <2>3, <2>4, OthersUnique
<1> QED BY <1>1, <1>2, <1>3, <1>4, <1>5, <1>6, <1>7 DEF Step

LEMMA RestartUnique ==
  ASSUME UniqueInv, NEW p \in Hosts, Restart(p)
  PROVE  UniqueInv'
<1> USE BoundIsNatural
<1>1. TypeOK' BY DEF Restart, UniqueInv, TypeOK, Labels
<1>2. seed' = seed /\ seed \in Nat /\ issued' = issued /\ twice' = twice
  BY DEF Restart, UniqueInv, TypeOK
<1>3. \A q \in Hosts : \/ start'[q] = start[q] /\ end'[q] = end[q]
                       \/ start'[q] = 0 /\ end'[q] = 0
  BY DEF Restart, UniqueInv, TypeOK
<1>4. \A q \in Hosts : gen'[q] = "loaded" =>
        gen[q] = "loaded" /\ start'[q] = start[q] /\ end'[q] = end[q]
  BY DEF Restart, UniqueInv, TypeOK
<1>5. \A q \in Hosts : read'[q] <= seed'
  BY <1>2 DEF Restart, UniqueInv, TypeOK, BelowSeed
<1> QED BY <1>1, <1>2, <1>3, <1>4, <1>5, OthersUnique

LEMMA UniqueInvariant == IdSpec => []UniqueInv
<1>1. IdInit => UniqueInv BY InitUnique
<1>2. UniqueInv /\ [IdNext]_idVars => UniqueInv'
  <2> SUFFICES ASSUME UniqueInv, [IdNext]_idVars PROVE UniqueInv' OBVIOUS
  <2>1. ASSUME NEW t \in Threads, Step(t) PROVE UniqueInv' BY <2>1, StepUnique
  <2>2. ASSUME NEW p \in Hosts, Restart(p) PROVE UniqueInv' BY <2>2, RestartUnique
  <2>3. CASE UNCHANGED idVars
    BY <2>3 DEF idVars, space, UniqueInv, TypeOK, BelowSeed, Apart, NoneLeft, NeverTwice
  <2> QED BY <2>1, <2>2, <2>3 DEF IdNext
<1> QED BY <1>1, <1>2, PTL DEF IdSpec

\* The generator's variables keep their types: seeds within the bound, and
\* ids given out between 1 and it.
THEOREM IdsAreTyped == IdSpec => []TypeOK
<1>1. UniqueInv => TypeOK BY DEF UniqueInv
<1> QED BY <1>1, UniqueInvariant, PTL

\* No id is given out twice, by however many processes, with whatever batch
\* size, statements failing and processes restarting anywhere.
THEOREM IdsAreUnique == IdSpec => []NeverTwice
<1>1. UniqueInv => NeverTwice BY DEF UniqueInv
<1> QED BY <1>1, UniqueInvariant, PTL

\* What a process still holds is below the seed, was not given out, and is no
\* other process's.
THEOREM BatchesAreSafe == IdSpec => []BatchesAreReserved
<1>1. ASSUME UniqueInv PROVE BatchesAreReserved
  <2> USE BoundIsNatural
  <2>1. /\ seed \in Nat /\ \A p \in Hosts : start[p] \in Nat /\ end[p] \in Nat /\ end[p] <= seed
    BY <1>1 DEF UniqueInv, TypeOK, BelowSeed
  <2>2. \A n \in issued : n <= seed BY <1>1 DEF UniqueInv, NoneLeft
  <2>3. ASSUME NEW p \in Hosts PROVE Remaining(p) \intersect issued = {}
    <3> SUFFICES ASSUME NEW n \in issued, gen[p] = "loaded", n \in 1..MaxSeed,
                        start[p] < n, n <= end[p]
                 PROVE  FALSE
      BY DEF Remaining
    <3>1. n <= start[p] \/ end[p] < n BY <1>1 DEF UniqueInv, NoneLeft
    <3> QED BY <3>1, <2>1
  <2>4. ASSUME NEW p \in Hosts PROVE \A n \in Remaining(p) : n <= seed
    BY <2>1 DEF Remaining
  <2>5. ASSUME NEW p \in Hosts, NEW q \in Hosts \ {p}
        PROVE  Remaining(p) \intersect Remaining(q) = {}
    <3> SUFFICES ASSUME NEW n \in 1..MaxSeed, gen[p] = "loaded", gen[q] = "loaded",
                        start[p] < n, n <= end[p], start[q] < n, n <= end[q]
                 PROVE  FALSE
      BY DEF Remaining
    <3>1. end[p] < start[q] \/ end[q] < start[p] BY <1>1 DEF UniqueInv, Apart
    <3> QED BY <3>1, <2>1
  <2> QED BY <2>2, <2>3, <2>4, <2>5 DEF BatchesAreReserved
<1> QED BY <1>1, UniqueInvariant, PTL

(***************************************************************************)
(* Why the unlocked first check is safe: a map that others can see is full *)
(* or is being filled by the goroutine that holds the mutex.               *)
(***************************************************************************)

LoadingPcs == {"load", "loadFind", "loadCas"}

\* Whoever is past Lock holds the mutex of its process.
HoldersHold == \A t \in Threads : at[t] \in Held => lock[home[t]] = t

\* An empty map is being filled, unless the load found nothing.
EmptyIsLoading ==
  \A p \in Hosts : gen[p] = "empty" /\ p \notin failed =>
    \E t \in Threads : home[t] = p /\ lock[p] = t /\ at[t] \in LoadingPcs

\* Nobody gets past the first check before there is a map.
WantersHaveMap == \A t \in Threads : at[t] \in Held \union {"want"} => gen[home[t]] # "nil"

LockTypes ==
  /\ gen  \in [Hosts -> {"nil", "empty", "loaded"}]
  /\ lock \in [Hosts -> Threads \union {Free}]
  /\ at   \in [Threads -> Labels]

MutexInv == LockTypes /\ HoldersHold /\ EmptyIsLoading /\ WantersHaveMap

LEMMA InitMutex == IdInit => MutexInv
  BY HomesAreHosts
  DEF IdInit, MutexInv, LockTypes, Labels, Held, HoldersHold, EmptyIsLoading, WantersHaveMap

\* Steps that leave the mutex and the map alone, and keep the goroutine on its
\* side of Lock and in the load if it was loading.
LEMMA QuietMutex ==
  ASSUME MutexInv, NEW t \in Threads, NEW l \in Labels, Pass(t, l),
         gen' = gen, lock' = lock, failed' = failed,
         l \in Held => at[t] \in Held,
         at[t] \in LoadingPcs => l \in LoadingPcs,
         l = "want" => gen[home[t]] # "nil"
  PROVE  MutexInv'
<1> USE HomesAreHosts
<1>1. LockTypes' BY DEF MutexInv, LockTypes, Pass
<1>2. HoldersHold' BY DEF MutexInv, LockTypes, HoldersHold, Pass
<1>3. EmptyIsLoading' BY DEF MutexInv, LockTypes, EmptyIsLoading, Pass
<1>4. WantersHaveMap' BY DEF MutexInv, LockTypes, WantersHaveMap, Pass
<1> QED BY <1>1, <1>2, <1>3, <1>4 DEF MutexInv

\* A goroutine takes the free mutex: to fill the map it has just made, or to
\* fetch a batch for a map that is loaded.
LEMMA AcquireMutex ==
  ASSUME MutexInv, NEW t \in Threads, NEW l \in Held, Pass(t, l), Acquire(t), failed' = failed,
         \/ l \in LoadingPcs /\ gen' = [gen EXCEPT ![home[t]] = "empty"]
         \/ gen[home[t]] = "loaded" /\ gen' = gen
  PROVE  MutexInv'
<1> USE HomesAreHosts, FreeIsNoThread
<1>1. LockTypes' BY DEF MutexInv, LockTypes, Pass, Acquire, Labels
<1>2. \A u \in Threads : home[u] = home[t] => at[u] \notin Held
  BY DEF MutexInv, HoldersHold, Acquire
<1>3. HoldersHold' BY <1>2 DEF MutexInv, LockTypes, HoldersHold, Pass, Acquire
<1>4. EmptyIsLoading'
  <2> SUFFICES ASSUME NEW p \in Hosts, gen'[p] = "empty", p \notin failed
               PROVE  \E u \in Threads : home[u] = p /\ lock'[p] = u /\ at'[u] \in LoadingPcs
    BY DEF EmptyIsLoading
  <2>1. CASE p = home[t] BY <2>1 DEF MutexInv, LockTypes, Pass, Acquire
  <2>2. CASE p # home[t]
    <3>1. gen[p] = "empty" /\ lock'[p] = lock[p] BY <2>2 DEF MutexInv, LockTypes, Acquire
    <3>2. PICK u \in Threads : home[u] = p /\ lock[p] = u /\ at[u] \in LoadingPcs
      BY <3>1 DEF MutexInv, EmptyIsLoading
    <3>3. at'[u] = at[u] BY <2>2, <3>2 DEF MutexInv, LockTypes, Pass
    <3> QED BY <3>1, <3>2, <3>3
  <2> QED BY <2>1, <2>2
<1>5. WantersHaveMap' BY DEF MutexInv, LockTypes, WantersHaveMap, Pass, Held
<1> QED BY <1>1, <1>3, <1>4, <1>5 DEF MutexInv

\* The holder releases the mutex: the map is loaded, or its load has failed, or
\* it was not the one that was filling it.
LEMMA ReleaseMutex ==
  ASSUME MutexInv, NEW t \in Threads, NEW l \in Labels \ Held, Pass(t, l), Release(t),
         at[t] \in Held,
         \/ gen' = [gen EXCEPT ![home[t]] = "loaded"] /\ failed' = failed
         \/ gen' = gen /\ failed' = failed \union {home[t]}
         \/ gen' = gen /\ failed' = failed /\ at[t] \notin LoadingPcs
  PROVE  MutexInv'
<1> USE HomesAreHosts, FreeIsNoThread
<1>1. LockTypes' BY DEF MutexInv, LockTypes, Pass, Release
<1>2. lock[home[t]] = t BY DEF MutexInv, HoldersHold
<1>3. HoldersHold' BY <1>2 DEF MutexInv, LockTypes, HoldersHold, Pass, Release
<1>4. EmptyIsLoading'
  <2> SUFFICES ASSUME NEW p \in Hosts, gen'[p] = "empty", p \notin failed'
               PROVE  \E u \in Threads : home[u] = p /\ lock'[p] = u /\ at'[u] \in LoadingPcs
    BY DEF EmptyIsLoading
  <2>1. gen[p] = "empty" /\ p \notin failed BY DEF MutexInv, LockTypes
  <2>2. PICK u \in Threads : home[u] = p /\ lock[p] = u /\ at[u] \in LoadingPcs
    BY <2>1 DEF MutexInv, EmptyIsLoading
  <2>3. p # home[t] BY <1>2, <2>2 DEF MutexInv, LockTypes
  <2>4. at'[u] = at[u] /\ lock'[p] = lock[p] BY <2>2, <2>3 DEF MutexInv, LockTypes, Pass, Release
  <2> QED BY <2>2, <2>4
<1>5. WantersHaveMap' BY DEF MutexInv, LockTypes, WantersHaveMap, Pass
<1> QED BY <1>1, <1>3, <1>4, <1>5 DEF MutexInv

LEMMA StepMutex ==
  ASSUME MutexInv, NEW t \in Threads, Step(t)
  PROVE  MutexInv'
<1>1. CASE Instance(t)
  BY <1>1, QuietMutex DEF Instance, Pass, Labels, Held, LoadingPcs
<1>2. CASE Create(t)
  <2>1. Pass(t, "load") /\ Acquire(t) /\ failed' = failed /\ gen' = [gen EXCEPT ![home[t]] = "empty"]
    BY <1>2 DEF Create
  <2>2. "load" \in Held /\ "load" \in LoadingPcs BY DEF Held, LoadingPcs
  <2> QED BY <2>1, <2>2, AcquireMutex
<1>3. CASE Created(t)
  BY <1>3, QuietMutex DEF Created, Labels, Held, LoadingPcs
<1>4. CASE LoadSpaces(t)
  BY <1>4, QuietMutex DEF LoadSpaces, Labels, Held, LoadingPcs
<1>5. CASE LoadNothing(t)
  BY <1>5, ReleaseMutex DEF LoadNothing, Labels, Held
<1>6. CASE Find(t) \/ FindFails(t)
  BY <1>6, QuietMutex DEF Find, FindFails, AfterFind, Labels, Held, LoadingPcs
<1>7. CASE Moved(t) \/ AnswerLost(t)
  BY <1>7, QuietMutex DEF Moved, AnswerLost, FindAgain, Labels, Held, LoadingPcs
<1>8. CASE Load(t)
  BY <1>8, ReleaseMutex DEF Load, TakeBatch, Labels, Held
<1>9. CASE GiveFirst(t)
  BY <1>9, ReleaseMutex DEF GiveFirst, TakeBatch, Labels, Held, LoadingPcs
<1>10. CASE Panic(t) \/ Give(t)
  BY <1>10, QuietMutex DEF Panic, Give, Labels, Held, LoadingPcs
<1>11. CASE Exhausted(t)
  <2>1. Pass(t, "find") /\ Acquire(t) /\ failed' = failed /\ gen[home[t]] = "loaded" /\ gen' = gen
    BY <1>11 DEF Exhausted
  <2>2. "find" \in Held BY DEF Held
  <2> QED BY <2>1, <2>2, AcquireMutex
<1> QED BY <1>1, <1>2, <1>3, <1>4, <1>5, <1>6, <1>7, <1>8, <1>9, <1>10, <1>11 DEF Step

LEMMA RestartMutex ==
  ASSUME MutexInv, NEW p \in Hosts, Restart(p)
  PROVE  MutexInv'
<1> USE HomesAreHosts
<1>1. LockTypes' BY DEF MutexInv, LockTypes, Restart, Labels
<1>2. HoldersHold' BY DEF MutexInv, LockTypes, HoldersHold, Restart, Held
<1>3. EmptyIsLoading'
  <2> SUFFICES ASSUME NEW q \in Hosts, gen'[q] = "empty", q \notin failed'
               PROVE  \E u \in Threads : home[u] = q /\ lock'[q] = u /\ at'[u] \in LoadingPcs
    BY DEF EmptyIsLoading
  <2>1. q # p /\ gen[q] = "empty" /\ q \notin failed /\ lock'[q] = lock[q]
    BY DEF MutexInv, LockTypes, Restart
  <2>2. PICK u \in Threads : home[u] = q /\ lock[q] = u /\ at[u] \in LoadingPcs
    BY <2>1 DEF MutexInv, EmptyIsLoading
  <2>3. at'[u] = at[u] BY <2>1, <2>2 DEF Restart
  <2> QED BY <2>1, <2>2, <2>3
<1>4. WantersHaveMap' BY DEF MutexInv, LockTypes, WantersHaveMap, Restart, Held
<1> QED BY <1>1, <1>2, <1>3, <1>4 DEF MutexInv

\* Whoever gets past the unlocked check finds the space loaded once the mutex is
\* free, unless the one load of the process found no rows.
THEOREM SpaceIsFound == IdSpec => []SpaceIsLoaded
<1>1. IdInit => MutexInv BY InitMutex
<1>2. MutexInv /\ [IdNext]_idVars => MutexInv'
  <2> SUFFICES ASSUME MutexInv, [IdNext]_idVars PROVE MutexInv' OBVIOUS
  <2>1. ASSUME NEW t \in Threads, Step(t) PROVE MutexInv' BY <2>1, StepMutex
  <2>2. ASSUME NEW p \in Hosts, Restart(p) PROVE MutexInv' BY <2>2, RestartMutex
  <2>3. CASE UNCHANGED idVars
    BY <2>3 DEF idVars, space, MutexInv, LockTypes, HoldersHold, EmptyIsLoading, WantersHaveMap
  <2> QED BY <2>1, <2>2, <2>3 DEF IdNext
<1>3. ASSUME MutexInv PROVE SpaceIsLoaded
  <2> SUFFICES ASSUME NEW t \in Threads, at[t] = "want", lock[home[t]] = Free,
                      home[t] \notin failed
               PROVE  gen[home[t]] = "loaded"
    BY DEF SpaceIsLoaded
  <2>1. gen[home[t]] \in {"empty", "loaded"}
    BY <1>3, HomesAreHosts DEF MutexInv, LockTypes, WantersHaveMap
  <2>2. gen[home[t]] # "empty"
    BY <1>3, HomesAreHosts, FreeIsNoThread DEF MutexInv, EmptyIsLoading
  <2> QED BY <2>1, <2>2
<1> QED BY <1>1, <1>2, <1>3, PTL DEF IdSpec

-----------------------------------------------------------------------------
(* The resource lists of a meeting.                                        *)

(***************************************************************************)
(* Why the hash follows the row: only the handler that holds the row can   *)
(* be between its UPDATE and its COMMIT, so that whatever another writes   *)
(* to the list meanwhile is recorded as out of order, and the list that it *)
(* wrote itself is the one that it commits.                                *)
(***************************************************************************)

\* What the steps need of the variables' types: every list has an entry for each kind.
Shape ==
  /\ scene \in DOMAIN Scenes
  /\ DOMAIN row = Kinds /\ (hash # None => DOMAIN hash = Kinds)
  /\ DOMAIN pc = Procs /\ DOMAIN req = Procs /\ DOMAIN list = Procs /\ DOMAIN seen = Procs
  /\ \A p \in Procs : req[p].kind \in Kinds /\ DOMAIN seen[p] = Kinds

\* The row is held by the handler that is about to commit, by a leaked transaction, or by nobody.
HolderCommits ==
  /\ holder \in Procs => pc[holder] = "commit"
  /\ \A p \in Procs : pc[p] = "commit" => holder = p

Arranging(k) == \E p \in Procs : pc[p] = "arranged" /\ req[p].kind = k

\* CacheFollowsDatabase, with the hash ahead of the row exactly while a transaction is open.
Follows ==
  hash # None => \A k \in Kinds \ taint :
    IF k \in Changing THEN hash[k] = list[holder] ELSE hash[k] = row[k] \/ Arranging(k)

FollowInv == Shape /\ HolderCommits /\ Follows

LEMMA AnyKind == AnyCall.kind \in Kinds
  BY KindsAreLists DEF AnyCall

LEMMA FollowInit == Init => FollowInv
<1> SUFFICES ASSUME Init PROVE FollowInv OBVIOUS
<1>1. Shape BY AnyKind DEF Init, Shape, NoLists
<1>2. HolderCommits BY NoneIsOther DEF Init, HolderCommits
<1>3. Follows BY DEF Init, Follows, Changing, NoLists
<1> QED BY <1>1, <1>2, <1>3 DEF FollowInv

\* A step that returns or goes on, and leaves the row, its holder and the hash.
LEMMA Bystander ==
  ASSUME FollowInv, NEW p \in Procs, NEW l, Goto(p, l), l # "commit", pc[p] # "commit",
         pc[p] # "arranged", UNCHANGED <<scene, row, holder, hash, taint>>,
         \A q \in Procs \ {p} : req'[q] = req[q] /\ list'[q] = list[q],
         Shape'
  PROVE  FollowInv'
<1>1. HolderCommits' BY DEF FollowInv, Shape, HolderCommits, Goto
<1>2. Follows'
  <2> SUFFICES ASSUME hash # None, NEW k \in Kinds \ taint
               PROVE  IF k \in Changing' THEN hash[k] = list'[holder] ELSE hash[k] = row[k] \/ Arranging(k)'
    BY DEF Follows
  <2>1. holder # p BY DEF FollowInv, HolderCommits
  <2>2. Changing' = Changing BY <2>1 DEF Changing
  <2>3. CASE k \in Changing
    BY <2>1, <2>2, <2>3 DEF FollowInv, Follows, Changing
  <2>4. CASE k \notin Changing
    <3>1. Arranging(k) => Arranging(k)' BY DEF Arranging, FollowInv, Shape, Goto
    <3> QED BY <2>2, <2>4, <3>1 DEF FollowInv, Follows
  <2> QED BY <2>3, <2>4
<1> QED BY <1>1, <1>2 DEF FollowInv

LEMMA ReturnShape ==
  ASSUME Shape, NEW p \in Procs, Return(p), scene' = scene,
         DOMAIN row' = Kinds, hash' # None => DOMAIN hash' = Kinds
  PROVE  Shape' /\ pc'[p] = "idle" /\ \A q \in Procs \ {p} : req'[q] = req[q] /\ list'[q] = list[q] /\ pc'[q] = pc[q]
  BY AnyKind DEF Return, Goto, Shape, NoLists

\* Whoever returns from a step that is neither of a transaction nor of an arrangement.
LEMMA LeaveFollows ==
  ASSUME FollowInv, NEW p \in Procs, Return(p), pc[p] # "commit", pc[p] # "arranged",
         UNCHANGED <<scene, row, holder, hash, taint>>
  PROVE  FollowInv'
<1>1. Shape' /\ \A q \in Procs \ {p} : req'[q] = req[q] /\ list'[q] = list[q]
  BY ReturnShape DEF FollowInv, Shape
<1> QED BY <1>1, Bystander DEF Return

\* GetMeeting, and what is decided by what it returned.
LEMMA ReadFollows ==
  ASSUME FollowInv, NEW p \in Procs,
         \/ Call(p) \/ GetMeetingHit(p) \/ GetMeetingMiss(p)
         \/ NotYetThere(p) \/ StillThere(p) \/ Unchanged(p)
  PROVE  FollowInv'
<1> USE DEF FollowInv, Shape, Goto
<1>1. CASE Call(p)
  <2>1. \A r \in Scenes[scene] : r.kind \in Kinds BY ScenesAreCalls DEF Request
  <2>2. Shape' BY <1>1, <2>1 DEF Call
  <2> QED BY <1>1, <2>2, Bystander DEF Call
<1>2. CASE GetMeetingHit(p)
  <2>1. Shape' BY <1>2 DEF GetMeetingHit
  <2> QED BY <1>2, <2>1, Bystander DEF GetMeetingHit
<1>3. CASE GetMeetingMiss(p)
  <2>1. Shape' BY <1>3 DEF GetMeetingMiss
  <2> QED BY <1>3, <2>1, Bystander DEF GetMeetingMiss, history
<1>4. CASE NotYetThere(p)
  <2>1. Shape' BY <1>4 DEF NotYetThere, local
  <2> QED BY <1>4, <2>1, Bystander DEF NotYetThere, At, local, history
<1>5. CASE StillThere(p)
  <2>1. Shape' BY <1>5 DEF StillThere, local
  <2> QED BY <1>5, <2>1, Bystander DEF StillThere, At, local, history
<1>6. CASE Unchanged(p)
  <2>1. Shape' BY <1>6 DEF Unchanged
  <2> QED BY <1>6, <2>1, Bystander DEF Unchanged, history
<1> QED BY <1>1, <1>2, <1>3, <1>4, <1>5, <1>6

\* The fill records every list that differs from the row, or is about to.
LEMMA FillFollows ==
  ASSUME FollowInv, NEW p \in Procs, GetMeetingFill(p)
  PROVE  FollowInv'
<1> USE DEF FollowInv, Shape, Goto, GetMeetingFill, local
<1>1. Shape' OBVIOUS
<1>2. HolderCommits' BY DEF HolderCommits
<1>3. Changing' = Changing BY DEF Changing
<1>4. Follows' BY <1>3 DEF Follows
<1> QED BY <1>1, <1>2, <1>4

\* The transaction opens, with its list in the hash.
LEMMA ChangeFollows ==
  ASSUME FollowInv, NEW p \in Procs, Change(p)
  PROVE  FollowInv'
<1> DEFINE r == req[p]  new == NewList(r, row[r.kind])
<1> HIDE DEF new
<1>0. /\ pc[p] = "lock" /\ holder = None /\ Goto(p, "commit") /\ holder' = p
      /\ list' = [list EXCEPT ![p] = new] /\ SetField(r.kind, new)
      /\ taint' = IF hash = None THEN taint ELSE taint \ {r.kind}
      /\ UNCHANGED <<scene, row, req, seen>>
  BY DEF Change, new
<1> USE DEF FollowInv, Shape, Goto
<1>1. Shape' BY <1>0 DEF SetField
<1>2. HolderCommits'
  <2>1. \A q \in Procs : pc[q] # "commit" BY <1>0, NoneIsOther DEF HolderCommits
  <2> QED BY <1>0, <2>1 DEF HolderCommits
<1>3. Changing = {} /\ Changing' = {r.kind} BY <1>0, NoneIsOther DEF Changing
<1>4. Follows'
  <2> SUFFICES ASSUME hash' # None, NEW k \in Kinds \ taint'
               PROVE  IF k \in Changing' THEN hash'[k] = list'[holder'] ELSE hash'[k] = row'[k] \/ Arranging(k)'
    BY DEF Follows
  <2>1. hash # None /\ hash' = [hash EXCEPT ![r.kind] = new] BY <1>0 DEF SetField
  <2>2. CASE k = r.kind BY <1>0, <1>3, <2>1, <2>2
  <2>3. CASE k # r.kind
    <3>1. k \notin taint BY <1>0, <2>1, <2>3
    <3>2. hash[k] = row[k] \/ Arranging(k) BY <1>3, <2>1, <3>1 DEF Follows
    <3>3. Arranging(k) => Arranging(k)' BY <1>0 DEF Arranging
    <3> QED BY <1>0, <1>3, <2>1, <2>3, <3>2, <3>3
  <2> QED BY <2>2, <2>3
<1> QED BY <1>1, <1>2, <1>4

\* The transaction ends: its list is in the row, or its list in the hash is out of order.
LEMMA CommitFollows ==
  ASSUME FollowInv, NEW p \in Procs, Commit(p) \/ CommitFails(p)
  PROVE  FollowInv'
<1> DEFINE r == req[p]
<1>0. /\ pc[p] = "commit" /\ holder' = None /\ Return(p) /\ UNCHANGED <<scene, hash>>
      /\ \/ row' = [row EXCEPT ![r.kind] = list[p]] /\ taint' = taint
         \/ row' = row /\ taint' = taint \union {r.kind}
  BY DEF Commit, CommitFails, Succeed, Fail
<1>1. holder = p BY <1>0 DEF FollowInv, HolderCommits
<1>2. Shape' /\ pc'[p] = "idle" /\ \A q \in Procs \ {p} : req'[q] = req[q] /\ pc'[q] = pc[q]
  BY <1>0, ReturnShape DEF FollowInv, Shape
<1>3. HolderCommits' BY <1>0, <1>1, <1>2, NoneIsOther DEF FollowInv, HolderCommits
<1>4. Changing = {r.kind} /\ Changing' = {} BY <1>0, <1>1, NoneIsOther DEF Changing
<1>5. Follows'
  <2> SUFFICES ASSUME hash # None, NEW k \in Kinds \ taint' PROVE hash[k] = row'[k] \/ Arranging(k)'
    BY <1>0, <1>4 DEF Follows
  <2>1. k \notin taint BY <1>0
  <2>2. CASE k = r.kind BY <1>0, <1>1, <1>4, <2>1, <2>2 DEF FollowInv, Follows, Shape
  <2>3. CASE k # r.kind
    <3>1. hash[k] = row[k] \/ Arranging(k) BY <1>4, <2>1, <2>3 DEF FollowInv, Follows
    <3>2. row'[k] = row[k] BY <1>0, <2>3 DEF FollowInv, Shape
    <3>3. Arranging(k) => Arranging(k)' BY <1>0, <1>2 DEF Arranging
    <3> QED BY <3>1, <3>2, <3>3
  <2> QED BY <2>2, <2>3
<1> QED BY <1>2, <1>3, <1>5 DEF FollowInv

\* A list that is written to the hash outside a transaction is the row's, or recorded.
LEMMA CacheFollows ==
  ASSUME FollowInv, NEW p \in Procs, Recache(p) \/ ArrangeCache(p)
  PROVE  FollowInv'
<1> DEFINE kind == req[p].kind
<1>0. /\ pc[p] \in {"recache", "arranged"} /\ Return(p) /\ SetField(kind, list[p])
      /\ taint' = IF hash = None THEN taint
                  ELSE IF list[p] = row[kind] /\ kind \notin Changing THEN taint \ {kind}
                  ELSE taint \union {kind}
      /\ UNCHANGED <<scene, row, holder>>
  BY DEF Recache, ArrangeCache, Succeed
<1>1. hash' # None => DOMAIN hash' = Kinds BY <1>0 DEF FollowInv, Shape, SetField
<1>2. Shape' /\ pc'[p] = "idle"
      /\ \A q \in Procs \ {p} : req'[q] = req[q] /\ list'[q] = list[q] /\ pc'[q] = pc[q]
  BY <1>0, <1>1, ReturnShape DEF FollowInv, Shape
<1>3. holder # p BY <1>0 DEF FollowInv, HolderCommits
<1>4. HolderCommits' BY <1>0, <1>2, <1>3 DEF FollowInv, HolderCommits
<1>5. Changing' = Changing BY <1>0, <1>2, <1>3 DEF Changing
<1>6. Follows'
  <2> SUFFICES ASSUME hash' # None, NEW k \in Kinds \ taint'
               PROVE  IF k \in Changing THEN hash'[k] = list'[holder] ELSE hash'[k] = row[k] \/ Arranging(k)'
    BY <1>0, <1>5 DEF Follows
  <2>1. hash # None /\ hash' = [hash EXCEPT ![kind] = list[p]] BY <1>0 DEF SetField
  <2>2. CASE k = kind BY <1>0, <2>1, <2>2 DEF FollowInv, Shape
  <2>3. CASE k # kind
    <3>1. k \notin taint /\ hash'[k] = hash[k] BY <1>0, <2>1, <2>3 DEF FollowInv, Shape
    <3>2. IF k \in Changing THEN hash[k] = list[holder] ELSE hash[k] = row[k] \/ Arranging(k)
      BY <2>1, <3>1 DEF FollowInv, Follows
    <3>3. Arranging(k) => Arranging(k)' BY <1>0, <1>2, <2>3 DEF Arranging
    <3>4. k \in Changing => list'[holder] = list[holder] BY <1>2, <1>3 DEF Changing
    <3> QED BY <3>1, <3>2, <3>3, <3>4
  <2> QED BY <2>2, <2>3
<1> QED BY <1>2, <1>4, <1>6 DEF FollowInv

\* ArrangeResource's UPDATE: the hash is behind until the handler has written it.
LEMMA ArrangeFollows ==
  ASSUME FollowInv, NEW p \in Procs, ArrangeRow(p)
  PROVE  FollowInv'
<1> DEFINE kind == req[p].kind
<1>0. /\ pc[p] = "do" /\ holder = None /\ Goto(p, "arranged")
      /\ \E new : row' = [row EXCEPT ![kind] = new]
      /\ \E new : list' = [list EXCEPT ![p] = new]
      /\ UNCHANGED <<scene, holder, hash, req, seen, taint>>
  BY DEF ArrangeRow, At, history
<1> USE DEF FollowInv, Shape, Goto
<1>1. Shape' BY <1>0
<1>2. HolderCommits' BY <1>0, NoneIsOther DEF HolderCommits
<1>3. Changing = {} /\ Changing' = {} BY <1>0, NoneIsOther DEF Changing
<1>4. \A k \in Kinds : Arranging(k) \/ k = kind => Arranging(k)' BY <1>0 DEF Arranging
<1>5. \A k \in Kinds \ {kind} : row'[k] = row[k] BY <1>0
<1>6. Follows' BY <1>0, <1>3, <1>4, <1>5 DEF Follows
<1> QED BY <1>1, <1>2, <1>6

\* SetFields failed: the transaction is rolled back, or left open.
LEMMA CacheErrorFollows ==
  ASSUME FollowInv, NEW p \in Procs, CacheError(p)
  PROVE  FollowInv'
<1> DEFINE kind == req[p].kind
<1>0. /\ pc[p] = "lock" /\ holder = None /\ Return(p) /\ holder' \in {"leaked", None}
      /\ \/ UNCHANGED <<hash, taint>>
         \/ (\E new : SetField(kind, new)) /\ taint' = taint \union {kind}
      /\ UNCHANGED <<scene, row>>
  BY DEF CacheError, Fail
<1>1. hash' # None => DOMAIN hash' = Kinds BY <1>0 DEF FollowInv, Shape, SetField
<1>2. Shape' /\ pc'[p] = "idle" /\ \A q \in Procs \ {p} : req'[q] = req[q] /\ pc'[q] = pc[q]
  BY <1>0, <1>1, ReturnShape DEF FollowInv, Shape
<1>3. HolderCommits' BY <1>0, <1>2, NoneIsOther, LeakedIsNoProc DEF FollowInv, HolderCommits
<1>4. Changing = {} /\ Changing' = {} BY <1>0, NoneIsOther, LeakedIsNoProc DEF Changing
<1>5. Follows'
  <2> SUFFICES ASSUME hash' # None, NEW k \in Kinds \ taint' PROVE hash'[k] = row[k] \/ Arranging(k)'
    BY <1>0, <1>4 DEF Follows
  <2>1. hash # None /\ k \notin taint /\ hash'[k] = hash[k] BY <1>0 DEF SetField, FollowInv, Shape
  <2>2. hash[k] = row[k] \/ Arranging(k) BY <1>4, <2>1 DEF FollowInv, Follows
  <2>3. Arranging(k) => Arranging(k)' BY <1>0, <1>2 DEF Arranging
  <2> QED BY <2>1, <2>2, <2>3
<1> QED BY <1>2, <1>3, <1>5 DEF FollowInv

\* A handler that dies outside a transaction; what it was about to write is recorded.
LEMMA AbandonFollows ==
  ASSUME FollowInv, NEW p \in Procs, Abandon(p)
  PROVE  FollowInv'
<1> DEFINE kind == req[p].kind
<1>0. /\ Return(p) /\ pc[p] # "commit" /\ UNCHANGED <<scene, row, holder, hash>>
      /\ taint' = IF pc[p] = "arranged" THEN taint \union {kind} ELSE taint
  BY DEF Abandon, Fail
<1>1. CASE pc[p] # "arranged" BY <1>0, <1>1, LeaveFollows
<1>2. CASE pc[p] = "arranged"
  <2>1. Shape' /\ pc'[p] = "idle"
        /\ \A q \in Procs \ {p} : req'[q] = req[q] /\ list'[q] = list[q] /\ pc'[q] = pc[q]
    BY <1>0, ReturnShape DEF FollowInv, Shape
  <2>2. holder # p BY <1>0 DEF FollowInv, HolderCommits
  <2>3. HolderCommits' BY <1>0, <2>1, <2>2 DEF FollowInv, HolderCommits
  <2>4. Changing' = Changing BY <1>0, <2>1, <2>2 DEF Changing
  <2>5. \A k \in Kinds \ {kind} : Arranging(k) => Arranging(k)' BY <2>1 DEF Arranging
  <2>6. holder \in Procs => list'[holder] = list[holder] BY <2>1, <2>2
  <2>7. Follows' BY <1>0, <1>2, <2>4, <2>5, <2>6 DEF FollowInv, Follows, Changing
  <2> QED BY <2>1, <2>3, <2>7 DEF FollowInv
<1> QED BY <1>1, <1>2

LEMMA FollowStep == FollowInv /\ [Next]_vars => FollowInv'
<1> SUFFICES ASSUME FollowInv, [Next]_vars PROVE FollowInv' OBVIOUS
<1>1. CASE UNCHANGED vars
  BY <1>1 DEF vars, local, history, FollowInv, Shape, HolderCommits, Follows, Changing, Arranging
<1>2. CASE ConnectionCloses
  BY <1>2, NoneIsOther, LeakedIsNoProc
  DEF ConnectionCloses, local, history, FollowInv, Shape, HolderCommits, Follows, Changing, Arranging
<1>3. ASSUME NEW p \in Procs, Call(p) \/ GetMeeting(p) \/ AddResource(p) \/ DeleteResource(p)
                              \/ Transaction(p) \/ ArrangeResource(p) \/ Failure(p)
      PROVE  FollowInv'
  <2>1. CASE Refuse(p) \/ AlreadyThere(p) \/ NotThere(p) \/ GoneMeanwhile(p) \/ LockWaitTimeout(p)
    BY <2>1, LeaveFollows DEF Refuse, AlreadyThere, NotThere, GoneMeanwhile, LockWaitTimeout,
                              Fail, Succeed, At
  <2>2. CASE \/ Call(p) \/ GetMeetingHit(p) \/ GetMeetingMiss(p)
             \/ NotYetThere(p) \/ StillThere(p) \/ Unchanged(p)
    BY <2>2, ReadFollows
  <2>3. CASE GetMeetingFill(p) BY <2>3, FillFollows
  <2>4. CASE Change(p) BY <2>4, ChangeFollows
  <2>5. CASE Commit(p) \/ CommitFails(p) BY <2>5, CommitFollows
  <2>6. CASE Recache(p) \/ ArrangeCache(p) BY <2>6, CacheFollows
  <2>7. CASE ArrangeRow(p) BY <2>7, ArrangeFollows
  <2>8. CASE CacheError(p) BY <2>8, CacheErrorFollows
  <2>9. CASE Abandon(p) BY <2>9, AbandonFollows
  <2> QED BY <1>3, <2>1, <2>2, <2>3, <2>4, <2>5, <2>6, <2>7, <2>8, <2>9
          DEF GetMeeting, AddResource, DeleteResource, Transaction, ArrangeResource, Failure
<1> QED BY <1>1, <1>2, <1>3 DEF Next

LEMMA FollowEnough == FollowInv => CacheFollowsDatabase
<1> SUFFICES ASSUME FollowInv, hash # None, NEW k \in Kinds \ taint
             PROVE  \/ hash[k] = row[k]
                    \/ k \in Changing /\ hash[k] = list[holder]
                    \/ \E p \in Procs : pc[p] = "arranged" /\ req[p].kind = k
  BY DEF CacheFollowsDatabase
<1> QED BY DEF FollowInv, Follows, Arranging

\* The lists in the hash are the row's, or those that a transaction or an arrangement is
\* about to write, unless a list was written out of order: by a fill, a recache or an
\* arrangement while a transaction was open, or by one that then failed.
THEOREM HashFollowsRow == Spec => []CacheFollowsDatabase
<1>1. Spec => []FollowInv BY FollowInit, FollowStep, PTL DEF Spec
<1> QED BY <1>1, FollowEnough, PTL

\* A row is held by the handler that is about to commit, so that no two transactions
\* change the lists of the meeting at once.
THEOREM OneHolder == Spec => []HolderCommits
<1>1. Spec => []FollowInv BY FollowInit, FollowStep, PTL DEF Spec
<1>2. FollowInv => HolderCommits BY DEF FollowInv
<1> QED BY <1>1, <1>2, PTL

-----------------------------------------------------------------------------
(* What the lists hold.                                                    *)

\* The picked places, numbered in their order.
Places(S) == [m \in 1..Cardinality(S) |-> CHOOSE i \in S : Cardinality({j \in S : j <= i}) = m]

LEMMA Numbered ==
  ASSUME NEW n \in Nat, NEW S \in SUBSET (1..n)
  PROVE  /\ Cardinality(S) \in Nat /\ Places(S) \in [1..Cardinality(S) -> S]
         /\ \A a, b \in 1..Cardinality(S) : Places(S)[a] = Places(S)[b] => a = b
         /\ \A i \in S : \E m \in 1..Cardinality(S) : Places(S)[m] = i
<1> DEFINE f == Places(S)
           Upto(i) == {j \in S : j <= i}
           c == Cardinality(S)
           rank == [i \in S |-> Cardinality(Upto(i))]
<1>1. IsFiniteSet(S) /\ c \in Nat
  <2>1. IsFiniteSet(1..n) BY FS_Interval
  <2>2. IsFiniteSet(S) BY <2>1, FS_Subset
  <2> QED BY <2>2, FS_CardinalityType
<1>2. ASSUME NEW i \in S PROVE rank[i] \in 1..c
  <2>1. Upto(i) \in SUBSET S /\ i \in Upto(i) OBVIOUS
  <2>2. IsFiniteSet(Upto(i)) /\ Cardinality(Upto(i)) <= c BY <1>1, <2>1, FS_Subset
  <2>3. Cardinality(Upto(i)) \in Nat /\ Cardinality(Upto(i)) # 0 BY <2>1, <2>2, FS_CardinalityType, FS_EmptySet
  <2> QED BY <1>1, <2>2, <2>3
<1>3. ASSUME NEW i \in S, NEW k \in S, i < k PROVE rank[i] # rank[k]
  <2>1. IsFiniteSet(Upto(k)) BY <1>1, FS_Subset
  <2>2. Upto(i) \in SUBSET Upto(k) /\ k \in Upto(k) /\ k \notin Upto(i)
    <3>1. \A j \in S : j \in Int OBVIOUS
    <3>2. \A j \in S : j <= i => j <= k BY <1>3, <3>1
    <3>3. k <= k /\ ~(k <= i) BY <1>3, <3>1
    <3> QED BY <3>2, <3>3
  <2> QED BY <2>1, <2>2, FS_Subset
<1>4. rank \in [S -> 1..c] /\ \A i, k \in S : rank[i] = rank[k] => i = k
  <2>1. \A i, k \in S : i < k \/ k < i \/ i = k OBVIOUS
  <2> HIDE DEF rank, c
  <2>2. \A i, k \in S : rank[i] = rank[k] => i = k BY <1>3, <2>1
  <2> QED BY <1>2, <2>2 DEF rank
<1>5. \A m \in 1..c : \E i \in S : rank[i] = m
  <2>1. IsFiniteSet(1..c) /\ Cardinality(1..c) = c BY <1>1, FS_Interval
  <2> HIDE DEF rank, c
  <2>2. rank \in Injection(S, 1..c) BY <1>4 DEF Injection, IsInjective
  <2>3. rank \in Surjection(S, 1..c) BY <2>1, <2>2, FS_Injection DEF c
  <2> QED BY <2>3 DEF Surjection
<1>6. \A m \in 1..c : f[m] \in S /\ rank[f[m]] = m BY <1>5 DEF Places
<1>7. f \in [1..c -> S] BY <1>6 DEF Places
<1> HIDE DEF rank, c, f
<1>8. \A a, b \in 1..c : f[a] = f[b] => a = b BY <1>6
<1>9. ASSUME NEW i \in S PROVE \E m \in 1..c : f[m] = i
  <2>1. rank[i] \in 1..c BY <1>4
  <2>2. f[rank[i]] \in S /\ rank[f[rank[i]]] = rank[i] BY <1>6, <2>1
  <2>3. f[rank[i]] = i BY <1>4, <2>2
  <2> QED BY <2>1, <2>3
<1> QED BY <1>1, <1>7, <1>8, <1>9 DEF c, f

LEMMA PickedItems ==
  ASSUME NEW T, NEW s \in Seq(T), NEW S \in SUBSET DOMAIN s
  PROVE  /\ Picked(s, S) \in Seq(T)
         /\ \A n \in DOMAIN Picked(s, S) : \E i \in S : Picked(s, S)[n] = s[i]
         /\ \A i \in S : \E n \in DOMAIN Picked(s, S) : Picked(s, S)[n] = s[i]
         /\ \A a, b \in DOMAIN Picked(s, S) :
              a # b => \E i, j \in S : i # j /\ Picked(s, S)[a] = s[i] /\ Picked(s, S)[b] = s[j]
<1> DEFINE c == Cardinality(S)
           f == Places(S)
<1>1. /\ c \in Nat /\ f \in [1..c -> S] /\ \A a, b \in 1..c : f[a] = f[b] => a = b
      /\ \A i \in S : \E m \in 1..c : f[m] = i
  <2>1. Len(s) \in Nat /\ S \in SUBSET (1..Len(s)) OBVIOUS
  <2> QED BY <2>1, Numbered
<1>2. Picked(s, S) = [m \in 1..c |-> s[f[m]]] BY DEF Picked, Places
<1> HIDE DEF c, f
<1>3. \A i \in S : s[i] \in T OBVIOUS
<1>4. Picked(s, S) \in Seq(T) /\ DOMAIN Picked(s, S) = 1..c BY <1>1, <1>2, <1>3
<1>5. \A n \in 1..c : f[n] \in S /\ Picked(s, S)[n] = s[f[n]] BY <1>1, <1>2
<1>6. \A n \in 1..c : \E i \in S : Picked(s, S)[n] = s[i] BY <1>5
<1>7. \A i \in S : \E n \in 1..c : Picked(s, S)[n] = s[i]
  <2> TAKE i \in S
  <2>1. PICK m \in 1..c : f[m] = i BY <1>1
  <2> QED BY <1>5, <2>1
<1>8. \A a, b \in 1..c : a # b => f[a] # f[b] BY <1>1
<1>9. \A a, b \in 1..c : a # b => \E i, j \in S : i # j /\ Picked(s, S)[a] = s[i] /\ Picked(s, S)[b] = s[j]
  <2> TAKE a, b \in 1..c
  <2> HAVE a # b
  <2>1. f[a] \in S /\ f[b] \in S /\ f[a] # f[b] /\ Picked(s, S)[a] = s[f[a]] /\ Picked(s, S)[b] = s[f[b]]
    BY <1>5, <1>8
  <2> QED BY <2>1, Zenon
<1>10. DOMAIN Picked(s, S) = 1..c BY <1>4
<1>11. \A n \in DOMAIN Picked(s, S) : \E i \in S : Picked(s, S)[n] = s[i] BY <1>6, <1>10
<1>12. \A i \in S : \E n \in DOMAIN Picked(s, S) : Picked(s, S)[n] = s[i] BY <1>7, <1>10
<1>13. \A a, b \in DOMAIN Picked(s, S) :
         a # b => \E i, j \in S : i # j /\ Picked(s, S)[a] = s[i] /\ Picked(s, S)[b] = s[j]
  BY <1>9, <1>10
<1> QED BY <1>4, <1>11, <1>12, <1>13

\* The values that a list has for a key.
Told(s, k) == {s[i].value : i \in {j \in DOMAIN s : s[j].key = k}}

\* A list in which an item is repeated only for the keys of D, and then as it is.
Single(s, D) ==
  \A i, j \in DOMAIN s : s[i].key = s[j].key => s[i] = s[j] /\ (s[i].key \notin D => i = j)
Plain(s, D)  == s \in Seq(Item) /\ Single(s, D)

LEMMA HoldsIsTold ==
  ASSUME NEW s \in Seq(Item), NEW k \in Keys
  PROVE  /\ \A v \in Values : Holds(s, [key |-> k, value |-> v]) <=> v \in Told(s, k)
         /\ Has(s, k) <=> Told(s, k) # {}
         /\ \A it \in Item : it.key = k => (Holds(s, it) <=> it.value \in Told(s, k))
<1>1. \A i \in DOMAIN s : s[i] \in Item OBVIOUS
<1>2. \A it \in Item, jt \in Item : it = jt <=> it.key = jt.key /\ it.value = jt.value BY DEF Item
<1>3. ASSUME NEW it \in Item, it.key = k PROVE Holds(s, it) <=> it.value \in Told(s, k)
  <2>1. \A i \in DOMAIN s : s[i] = it <=> s[i].key = k /\ s[i].value = it.value BY <1>1, <1>2, <1>3
  <2> QED BY <2>1 DEF Holds, Told
<1>4. ASSUME NEW v \in Values PROVE Holds(s, [key |-> k, value |-> v]) <=> v \in Told(s, k)
  <2>1. [key |-> k, value |-> v] \in Item BY DEF Item
  <2> QED BY <1>3, <2>1
<1>5. Has(s, k) <=> Told(s, k) # {} BY DEF Has, Told
<1> QED BY <1>3, <1>4, <1>5

LEMMA DeleteTells ==
  ASSUME NEW s, NEW D, Plain(s, D), NEW k
  PROVE  /\ Plain(DeleteFromMap(s, k), D) /\ Told(DeleteFromMap(s, k), k) = {}
         /\ \A h : h # k => Told(DeleteFromMap(s, k), h) = Told(s, h)
<1> DEFINE S == {i \in DOMAIN s : s[i].key # k}
<1> PICK t : t = Picked(s, S) OBVIOUS
<1>1. s \in Seq(Item) /\ Single(s, D) /\ S \in SUBSET DOMAIN s BY DEF Plain
<1>2. /\ t \in Seq(Item) /\ \A n \in DOMAIN t : \E i \in S : t[n] = s[i]
      /\ \A i \in S : \E n \in DOMAIN t : t[n] = s[i]
      /\ \A a, b \in DOMAIN t : a # b => \E i, j \in S : i # j /\ t[a] = s[i] /\ t[b] = s[j]
  <2> HIDE DEF S
  <2> QED BY <1>1, PickedItems
<1>3. ASSUME NEW a \in DOMAIN t, NEW b \in DOMAIN t, t[a].key = t[b].key
      PROVE  t[a] = t[b] /\ (t[a].key \notin D => a = b)
  <2>1. t[a] = t[b]
    <3>1. PICK i \in S : t[a] = s[i] BY <1>2
    <3>2. PICK j \in S : t[b] = s[j] BY <1>2
    <3> QED BY <1>1, <1>3, <3>1, <3>2 DEF Single
  <2>2. CASE a # b
    <3>1. PICK i \in S, j \in S : i # j /\ t[a] = s[i] /\ t[b] = s[j] BY <1>2, <2>2
    <3> QED BY <1>1, <1>3, <2>1, <3>1 DEF Single
  <2> QED BY <2>1, <2>2
<1>5. Told(t, k) = {} BY <1>2 DEF Told
<1>6. ASSUME NEW h, h # k PROVE Told(t, h) = Told(s, h)
  <2>1. \A i \in DOMAIN s : s[i].key = h => i \in S BY <1>6
  <2> HIDE DEF S
  <2>2. ASSUME NEW v, v \in Told(t, h) PROVE v \in Told(s, h)
    <3>1. PICK n \in DOMAIN t : t[n].key = h /\ v = t[n].value BY <2>2 DEF Told
    <3>2. PICK i \in S : t[n] = s[i] BY <1>2
    <3> QED BY <1>1, <3>1, <3>2 DEF Told
  <2>3. ASSUME NEW v, v \in Told(s, h) PROVE v \in Told(t, h)
    <3>1. PICK i \in DOMAIN s : s[i].key = h /\ v = s[i].value BY <2>3 DEF Told
    <3>2. PICK n \in DOMAIN t : t[n] = s[i] BY <1>2, <2>1, <3>1
    <3> QED BY <3>1, <3>2 DEF Told
  <2> QED BY <2>2, <2>3
<1>7. DeleteFromMap(s, k) = t BY DEF DeleteFromMap
<1> QED BY <1>2, <1>3, <1>5, <1>6, <1>7 DEF Plain, Single

LEMMA AddTells ==
  ASSUME NEW s, NEW D, Plain(s, D), NEW it \in Item
  PROVE  /\ Plain(AddResourceToMap(s, it), D) /\ it.value \in Told(AddResourceToMap(s, it), it.key)
         /\ \A h : h # it.key => Told(AddResourceToMap(s, it), h) = Told(s, h)
<1> PICK t : t = AddResourceToMap(s, it) OBVIOUS
<1>0. s \in Seq(Item) /\ Single(s, D) BY DEF Plain
<1>1. CASE Has(s, it.key)
  <2>1. t = [i \in DOMAIN s |-> IF s[i].key = it.key THEN it ELSE s[i]] BY <1>1 DEF AddResourceToMap
  <2>2. t \in Seq(Item) /\ DOMAIN t = DOMAIN s BY <1>0, <2>1
  <2>3. \A i \in DOMAIN s : t[i].key = s[i].key /\ t[i] = IF s[i].key = it.key THEN it ELSE s[i] BY <2>1
  <2>4. Single(t, D) BY <1>0, <2>2, <2>3 DEF Single
  <2>5. PICK i \in DOMAIN s : s[i].key = it.key BY <1>1 DEF Has
  <2>6. t[i] = it BY <2>1, <2>5
  <2>7. it.value \in Told(t, it.key) BY <2>2, <2>6 DEF Told
  <2>8. ASSUME NEW h, h # it.key PROVE Told(t, h) = Told(s, h)
    <3>1. \A j \in DOMAIN s : (t[j].key = h <=> s[j].key = h) /\ (s[j].key = h => t[j] = s[j]) BY <2>1, <2>8
    <3> QED BY <2>2, <3>1 DEF Told
  <2> QED BY <2>2, <2>4, <2>7, <2>8 DEF Plain
<1>2. CASE ~Has(s, it.key)
  <2>1. t = Append(s, it) BY <1>2 DEF AddResourceToMap
  <2>2. /\ t \in Seq(Item) /\ Len(s) \in Nat /\ DOMAIN s = 1..Len(s) /\ DOMAIN t = 1..(Len(s) + 1)
        /\ t[Len(s) + 1] = it /\ \A i \in 1..Len(s) : t[i] = s[i]
    BY <1>0, <2>1
  <2>3. \A i \in DOMAIN s : s[i].key # it.key BY <1>2 DEF Has
  <2>4. \A i \in DOMAIN t : i \in DOMAIN s \/ i = Len(s) + 1 BY <2>2
  <2>5. Single(t, D)
    <3> SUFFICES ASSUME NEW i \in DOMAIN t, NEW j \in DOMAIN t, t[i].key = t[j].key
                 PROVE  t[i] = t[j] /\ (t[i].key \notin D => i = j)
      BY DEF Single
    <3>1. CASE i \in DOMAIN s /\ j \in DOMAIN s BY <1>0, <2>2, <3>1 DEF Single
    <3>2. CASE i = Len(s) + 1 \/ j = Len(s) + 1 BY <2>2, <2>3, <2>4, <3>2
    <3> QED BY <2>4, <3>1, <3>2
  <2>6. it.value \in Told(t, it.key) BY <2>2 DEF Told
  <2>7. ASSUME NEW h, h # it.key PROVE Told(t, h) = Told(s, h)
    <3>1. {j \in DOMAIN t : t[j].key = h} = {j \in DOMAIN s : s[j].key = h} BY <2>2, <2>4, <2>7
    <3>2. \A j \in {j \in DOMAIN s : s[j].key = h} : t[j] = s[j] BY <2>2
    <3> QED BY <3>1, <3>2 DEF Told
  <2> QED BY <2>2, <2>5, <2>6, <2>7 DEF Plain
<1> QED BY <1>1, <1>2

LEMMA ArrangedTells ==
  ASSUME NEW s, NEW D, Plain(s, D), NEW o \in Seq(Keys)
  PROVE  /\ Plain(Arranged(s, o), D \union Repeated(o))
         /\ \A k : Told(Arranged(s, o), k) = IF \E i \in DOMAIN o : o[i] = k THEN Told(s, k) ELSE {}
<1> DEFINE S == {i \in DOMAIN o : Has(s, o[i])}
<1> PICK keys : keys = Picked(o, S) OBVIOUS
<1> PICK t : t = Arranged(s, o) OBVIOUS
<1>1. s \in Seq(Item) /\ Single(s, D) BY DEF Plain
<1>3. /\ keys \in Seq(Keys) /\ \A n \in DOMAIN keys : \E i \in S : keys[n] = o[i]
      /\ \A i \in S : \E n \in DOMAIN keys : keys[n] = o[i]
      /\ \A a, b \in DOMAIN keys : a # b => \E i, j \in S : i # j /\ keys[a] = o[i] /\ keys[b] = o[j]
  <2>1. S \in SUBSET DOMAIN o OBVIOUS
  <2> HIDE DEF S
  <2> QED BY <2>1, PickedItems
<1>2. \A a, b \in DOMAIN keys : keys[a] = keys[b] /\ a # b => keys[a] \in Repeated(o)
  <2> SUFFICES ASSUME NEW a \in DOMAIN keys, NEW b \in DOMAIN keys, keys[a] = keys[b], a # b
               PROVE  keys[a] \in Repeated(o)
    OBVIOUS
  <2>1. PICK i \in S, j \in S : i # j /\ keys[a] = o[i] /\ keys[b] = o[j] BY <1>3
  <2> QED BY <2>1 DEF Repeated
<1>4. t = [n \in DOMAIN keys |-> ItemOf(s, keys[n])] BY DEF Arranged
<1>5. \A n \in DOMAIN keys : Has(s, keys[n]) /\ \E i \in DOMAIN o : o[i] = keys[n] BY <1>3
<1>6. ASSUME NEW k, Has(s, k) PROVE ItemOf(s, k) \in Item /\ ItemOf(s, k).key = k /\ Told(s, k) = {ItemOf(s, k).value}
  <2>1. PICK j \in DOMAIN s : s[j].key = k /\ ItemOf(s, k) = s[j] BY <1>6 DEF Has, ItemOf
  <2>2. \A i \in DOMAIN s : s[i].key = k => s[i] = s[j] BY <1>1, <2>1 DEF Single
  <2> QED BY <1>1, <2>1, <2>2 DEF Told
<1>7. \A n \in DOMAIN t : t[n] \in Item /\ t[n].key = keys[n] /\ Told(s, keys[n]) = {t[n].value} BY <1>4, <1>5, <1>6
<1>8. DOMAIN t = DOMAIN keys /\ t \in Seq(Item) BY <1>3, <1>4, <1>7
<1> HIDE DEF S
<1>9. Plain(t, D \union Repeated(o))
  <2>1. \A a, b \in DOMAIN t : t[a].key = t[b].key => t[a] = t[b] BY <1>4, <1>7, <1>8
  <2>2. \A a, b \in DOMAIN t : t[a].key = t[b].key /\ a # b => t[a].key \in Repeated(o) BY <1>2, <1>7, <1>8
  <2> QED BY <1>8, <2>1, <2>2 DEF Plain, Single
<1>10. ASSUME NEW k PROVE Told(t, k) = IF \E i \in DOMAIN o : o[i] = k THEN Told(s, k) ELSE {}
  <2>1. CASE ~\E i \in DOMAIN o : o[i] = k
    <3>1. \A n \in DOMAIN t : t[n].key # k BY <1>5, <1>7, <1>8, <2>1
    <3> QED BY <2>1, <3>1 DEF Told
  <2>2. CASE (\E i \in DOMAIN o : o[i] = k) /\ Has(s, k)
    <3>1. PICK i \in S : o[i] = k BY <2>2 DEF S
    <3>2. PICK n \in DOMAIN keys : keys[n] = k BY <1>3, <3>1
    <3>3. t[n].key = k /\ \A m \in DOMAIN t : t[m].key = k => t[m] = t[n] BY <1>4, <1>7, <1>8, <3>2
    <3>4. Told(t, k) = {t[n].value} BY <1>8, <3>2, <3>3 DEF Told
    <3> QED BY <1>7, <1>8, <2>2, <3>2, <3>4
  <2>3. CASE (\E i \in DOMAIN o : o[i] = k) /\ ~Has(s, k)
    <3>1. \A n \in DOMAIN t : t[n].key # k BY <1>5, <1>7, <1>8, <2>3
    <3>2. Told(t, k) = {} BY <3>1 DEF Told
    <3>3. Told(s, k) = {} BY <2>3 DEF Told, Has
    <3> QED BY <2>3, <3>2, <3>3
  <2> QED BY <2>1, <2>2, <2>3
<1> QED BY <1>9, <1>10

-----------------------------------------------------------------------------
(***************************************************************************)
(* Why a resource is listed once: every list that is written was made from *)
(* one without repetitions, but those that an arrangement asked for, by a  *)
(* change that adds none, and the lists that the handlers hold meanwhile   *)
(* come from the row or from the hash.                                     *)
(***************************************************************************)

\* The list is as the call wants it.
Outcome(r, s) == IF r.op = "add" THEN r.item.value \in Told(s, r.item.key) ELSE Told(s, r.item.key) = {}

\* What adding or deleting a resource does to a list.
LEMMA NewTells ==
  ASSUME NEW r \in Request, r.op # "arrange", NEW s, NEW D, Plain(s, D)
  PROVE  /\ Plain(NewList(r, s), D) /\ Outcome(r, NewList(r, s))
         /\ \A h : h # r.item.key => Told(NewList(r, s), h) = Told(s, h)
<1>1. r.op \in {"add", "delete"} /\ r.item \in Item BY DEF Request
<1>2. CASE r.op = "add" BY <1>1, <1>2, AddTells DEF NewList, Outcome
<1>3. CASE r.op = "delete" BY <1>1, <1>3, DeleteTells DEF NewList, Outcome
<1> QED BY <1>1, <1>2, <1>3

\* The resources of a list that an arrangement named twice.
Twice(kind) == {k \in Keys : <<kind, k>> \in doubled}

\* Every list that a handler has, the hash or the row repeats only what an arrangement named
\* twice, and only additions and deletions lock the row.
StoredPlain ==
  \A k \in Kinds : Plain(row[k], Twice(k)) /\ (hash # None => Plain(hash[k], Twice(k)))

PlainInv ==
  /\ StoredPlain
  /\ \A p \in Procs : /\ IF pc[p] = "idle" THEN list[p] = <<>> ELSE Plain(list[p], Twice(req[p].kind))
                      /\ \A k \in Kinds : Plain(seen[p][k], Twice(k))
                      /\ pc[p] # "idle" => req[p] \in Request
                      /\ pc[p] \in {"lock", "recache", "commit"} => req[p].op # "arrange"
                      /\ pc[p] = "arranged" => req[p].op = "arrange"

LEMMA NothingIsPlain == \A D : Plain(<<>>, D) BY DEF Plain, Single

LEMMA PlainInit == Init => PlainInv
  BY NothingIsPlain DEF Init, PlainInv, StoredPlain, NoLists

\* A handler that returns keeps no lists.
LEMMA ReturnPlain ==
  ASSUME Shape, PlainInv, NEW p \in Procs, Return(p), doubled' = doubled, StoredPlain'
  PROVE  PlainInv'
<1>1. /\ pc' = [pc EXCEPT ![p] = "idle"] /\ req' = [req EXCEPT ![p] = AnyCall]
      /\ seen' = [seen EXCEPT ![p] = NoLists] /\ list' = [list EXCEPT ![p] = <<>>]
  BY DEF Return, Goto
<1>2. \A D : Plain(list'[p], D) /\ \A k \in Kinds : Plain(seen'[p][k], D) BY <1>1, NothingIsPlain DEF Shape, NoLists
<1>3. \A k : Twice(k)' = Twice(k) BY DEF Twice
<1> QED BY <1>1, <1>2, <1>3 DEF Shape, PlainInv

\* A handler that goes on with plain lists.
LEMMA GoOnPlain ==
  ASSUME Shape, PlainInv, NEW p \in Procs, NEW l, Goto(p, l), pc[p] # "idle", UNCHANGED <<req, doubled>>,
         l \in {"lock", "recache", "commit"} => req[p].op # "arrange",
         l = "arranged" => req[p].op = "arrange", l # "idle",
         StoredPlain',
         \E s : Plain(s, Twice(req[p].kind)) /\ list' \in {list, [list EXCEPT ![p] = s]},
         \E t : (\A k \in Kinds : Plain(t[k], Twice(k))) /\ seen' \in {seen, [seen EXCEPT ![p] = t]}
  PROVE  PlainInv'
<1>1. Plain(list'[p], Twice(req[p].kind)) /\ l # "idle" /\ \A k \in Kinds : Plain(seen'[p][k], Twice(k)) BY DEF Shape, PlainInv
<1>2. \A k : Twice(k)' = Twice(k) BY DEF Twice
<1> QED BY <1>1, <1>2 DEF Shape, PlainInv, Goto

LEMMA SetPlain ==
  ASSUME Shape, PlainInv, NEW kind \in Kinds, NEW s, Plain(s, Twice(kind)), SetField(kind, s), UNCHANGED <<row, doubled>>
  PROVE  StoredPlain'
<1>1. \A k : Twice(k)' = Twice(k) BY DEF Twice
<1> QED BY <1>1 DEF Shape, PlainInv, StoredPlain, SetField

\* What an arrangement names twice is forgiven in every list.
LEMMA MorePlain ==
  ASSUME NEW s, NEW C, NEW D, Plain(s, C), C \subseteq D
  PROVE  Plain(s, D)
  BY DEF Plain, Single

LEMMA PlainStep ==
  ASSUME FollowInv, PlainInv, [Next]_vars PROVE PlainInv'
<1>0. Shape BY DEF FollowInv
<1>1. CASE UNCHANGED vars BY <1>1 DEF vars, local, history, PlainInv, StoredPlain, Twice
<1>2. CASE ConnectionCloses BY <1>2 DEF ConnectionCloses, local, history, PlainInv, StoredPlain, Twice
<1>3. ASSUME NEW p \in Procs PROVE
        /\ pc[p] # "idle" => req[p] \in Request /\ Plain(list[p], Twice(req[p].kind))
        /\ req[p].kind \in Kinds
        /\ pc[p] # "idle" /\ req[p].op # "arrange" => Plain(NewList(req[p], row[req[p].kind]), Twice(req[p].kind))
  BY <1>0, NewTells DEF Shape, PlainInv, StoredPlain
<1>4. ASSUME NEW p \in Procs, Call(p) PROVE PlainInv'
  <2>1. \A r \in Scenes[scene] : r \in Request /\ r.kind \in Kinds BY <1>0, ScenesAreCalls DEF Shape, Request
  <2>2. /\ pc[p] = "idle" /\ Goto(p, "get") /\ UNCHANGED <<row, hash, seen, list, doubled>>
        /\ \E r \in Scenes[scene] : req' = [req EXCEPT ![p] = r]
    BY <1>4 DEF Call
  <2>3. \A k : Twice(k)' = Twice(k) BY <2>2 DEF Twice
  <2>4. StoredPlain' BY <2>2, <2>3 DEF PlainInv, StoredPlain
  <2>5. \A D : Plain(list'[p], D) BY <2>2, NothingIsPlain DEF PlainInv
  <2>6. PICK r \in Request : req' = [req EXCEPT ![p] = r] BY <2>1, <2>2
  <2> QED BY <1>0, <2>2, <2>3, <2>4, <2>5, <2>6 DEF Goto, Shape, PlainInv
<1>5. ASSUME NEW p \in Procs, Return(p), UNCHANGED <<row, hash, doubled>> PROVE PlainInv'
  <2>1. \A k : Twice(k)' = Twice(k) BY <1>5 DEF Twice
  <2>2. StoredPlain' BY <1>5, <2>1 DEF PlainInv, StoredPlain
  <2> QED BY <1>0, <1>5, <2>2, ReturnPlain
<1>6. ASSUME NEW p \in Procs, GetMeetingHit(p) \/ GetMeetingMiss(p) \/ GetMeetingFill(p) PROVE PlainInv'
  <2>1. pc[p] # "idle" /\ \E l \in {"do", "fill"} : Goto(p, l) BY <1>6 DEF GetMeetingHit, GetMeetingMiss, GetMeetingFill
  <2>2. UNCHANGED <<req, row, list, doubled>>
    BY <1>6 DEF GetMeetingHit, GetMeetingMiss, GetMeetingFill, local, history
  <2>3. \/ hash' = hash /\ hash # None /\ seen' = [seen EXCEPT ![p] = hash]
        \/ hash' = hash /\ seen' = [seen EXCEPT ![p] = row]
        \/ hash' = seen[p] /\ seen' = seen
    BY <1>6 DEF GetMeetingHit, GetMeetingMiss, GetMeetingFill, local
  <2>4. \A k : Twice(k)' = Twice(k) BY <2>2 DEF Twice
  <2>5. StoredPlain' BY <2>2, <2>3, <2>4 DEF PlainInv, StoredPlain
  <2>6. \E t : (\A k \in Kinds : Plain(t[k], Twice(k))) /\ seen' \in {seen, [seen EXCEPT ![p] = t]}
    BY <2>3 DEF PlainInv, StoredPlain
  <2> QED BY <1>0, <2>1, <2>2, <2>5, <2>6, NothingIsPlain, GoOnPlain
<1>7. ASSUME NEW p \in Procs, NotYetThere(p) \/ StillThere(p) \/ Unchanged(p) PROVE PlainInv'
  <2>1. /\ pc[p] # "idle" /\ \E l \in {"lock", "recache"} : Goto(p, l)
        /\ req[p].op # "arrange"
    BY <1>7 DEF NotYetThere, StillThere, Unchanged, At, PlainInv
  <2>2. UNCHANGED <<req, row, hash, seen, doubled>> BY <1>7 DEF NotYetThere, StillThere, Unchanged, local, history
  <2>3. list' = list \/ list' = [list EXCEPT ![p] = row[req[p].kind]]
    BY <1>7 DEF NotYetThere, StillThere, Unchanged, local
  <2>4. \E s : Plain(s, Twice(req[p].kind)) /\ list' \in {list, [list EXCEPT ![p] = s]}
    BY <1>3, <2>3 DEF PlainInv, StoredPlain
  <2>5. \E t : (\A k \in Kinds : Plain(t[k], Twice(k))) /\ seen' \in {seen, [seen EXCEPT ![p] = t]} BY <2>2 DEF PlainInv
  <2>6. \A k : Twice(k)' = Twice(k) BY <2>2 DEF Twice
  <2>7. StoredPlain' BY <2>2, <2>6 DEF PlainInv, StoredPlain
  <2> QED BY <1>0, <2>1, <2>2, <2>4, <2>5, <2>7, GoOnPlain
<1>8. ASSUME NEW p \in Procs, Change(p) PROVE PlainInv'
  <2> DEFINE new == NewList(req[p], row[req[p].kind])
  <2>1. /\ pc[p] = "lock" /\ Goto(p, "commit") /\ list' = [list EXCEPT ![p] = new]
        /\ SetField(req[p].kind, new) /\ UNCHANGED <<row, req, seen, doubled>>
    BY <1>8 DEF Change
  <2>2. Plain(new, Twice(req[p].kind)) /\ req[p].op # "arrange" BY <1>3, <2>1 DEF PlainInv
  <2> HIDE DEF new
  <2>3. StoredPlain' BY <1>0, <1>3, <2>1, <2>2, SetPlain
  <2>4. \E t : (\A k \in Kinds : Plain(t[k], Twice(k))) /\ seen' \in {seen, [seen EXCEPT ![p] = t]} BY <2>1 DEF PlainInv
  <2> QED BY <1>0, <2>1, <2>2, <2>3, <2>4, GoOnPlain
<1>9. ASSUME NEW p \in Procs, Commit(p) PROVE PlainInv'
  <2>1. pc[p] = "commit" /\ Return(p) /\ row' = [row EXCEPT ![req[p].kind] = list[p]] /\ UNCHANGED <<hash, doubled>>
    BY <1>9 DEF Commit, Succeed
  <2>2. \A k : Twice(k)' = Twice(k) BY <2>1 DEF Twice
  <2>3. StoredPlain' BY <1>0, <1>3, <2>1, <2>2 DEF Shape, PlainInv, StoredPlain
  <2> QED BY <1>0, <2>1, <2>3, ReturnPlain
<1>10. ASSUME NEW p \in Procs, Recache(p) \/ ArrangeCache(p) PROVE PlainInv'
  <2>1. pc[p] # "idle" /\ Return(p) /\ UNCHANGED <<row, doubled>> /\ SetField(req[p].kind, list[p])
    BY <1>10 DEF Recache, ArrangeCache, Succeed
  <2>2. StoredPlain' BY <1>0, <1>3, <2>1, SetPlain
  <2> QED BY <1>0, <2>1, <2>2, ReturnPlain
<1>11. ASSUME NEW p \in Procs, ArrangeRow(p) PROVE PlainInv'
  <2> DEFINE kind == req[p].kind  new == Arranged(seen[p][kind], req[p].order)
  <2>1. /\ pc[p] = "do" /\ req[p].op = "arrange" /\ Goto(p, "arranged") /\ row' = [row EXCEPT ![kind] = new]
        /\ list' = [list EXCEPT ![p] = new] /\ UNCHANGED <<hash, req, seen>>
        /\ doubled' = doubled \union ({kind} \X Repeated(req[p].order))
    BY <1>11 DEF ArrangeRow, At
  <2>2. req[p].order \in Seq(Keys) /\ kind \in Kinds BY <1>3, <2>1 DEF Request
  <2>3. Plain(seen[p][kind], Twice(kind)) BY <1>3 DEF PlainInv
  <2>4. Plain(new, Twice(kind) \union Repeated(req[p].order)) BY <2>2, <2>3, ArrangedTells
  <2>5. Repeated(req[p].order) \in SUBSET Keys BY <2>2 DEF Repeated
  <2>6. Twice(kind)' = Twice(kind) \union Repeated(req[p].order) /\ \A k : Twice(k) \subseteq Twice(k)'
    <3> PICK K, R : K = kind /\ R = Repeated(req[p].order) OBVIOUS
    <3>1. doubled' = doubled \union ({K} \X R) /\ R \in SUBSET Keys BY <2>1, <2>5
    <3>2. \A k, r : <<k, r>> \in {K} \X R <=> k = K /\ r \in R OBVIOUS
    <3>3. \A k, r : <<k, r>> \in doubled' <=> <<k, r>> \in doubled \/ (k = K /\ r \in R) BY <3>1, <3>2
    <3>4. \A k : Twice(k)' = {r \in Keys : <<k, r>> \in doubled'} BY DEF Twice
    <3>5. Twice(K)' = Twice(K) \union R BY <3>1, <3>3, <3>4 DEF Twice
    <3>6. \A k : Twice(k) \subseteq Twice(k)' BY <3>3, <3>4 DEF Twice
    <3>7. kind' = K BY <2>1
    <3> HIDE DEF kind
    <3> QED BY <3>5, <3>6, <3>7
  <2> HIDE DEF new
  <2>7. \A k, s : Plain(s, Twice(k)) => Plain(s, Twice(k)') BY <2>6, MorePlain
  <2>8. Plain(new, Twice(kind)') BY <2>4, <2>6
  <2>9. StoredPlain' BY <1>0, <2>1, <2>2, <2>7, <2>8 DEF Shape, PlainInv, StoredPlain
  <2> QED BY <1>0, <2>1, <2>7, <2>8, <2>9 DEF Shape, PlainInv, Goto
<1>12. ASSUME NEW p \in Procs, CacheError(p) PROVE PlainInv'
  <2> DEFINE new == NewList(req[p], row[req[p].kind])
  <2>1. pc[p] = "lock" /\ Return(p) /\ UNCHANGED <<row, doubled>> /\ (hash' = hash \/ SetField(req[p].kind, new))
    BY <1>12 DEF CacheError, Fail
  <2>2. Plain(new, Twice(req[p].kind)) BY <1>3, <2>1 DEF PlainInv
  <2> HIDE DEF new
  <2>3. CASE hash' = hash BY <1>5, <2>1, <2>3
  <2>4. CASE SetField(req[p].kind, new)
    <3>1. StoredPlain' BY <1>0, <1>3, <2>1, <2>2, <2>4, SetPlain
    <3> QED BY <1>0, <2>1, <3>1, ReturnPlain
  <2> QED BY <2>1, <2>3, <2>4
<1>13. ASSUME NEW p \in Procs, Call(p) \/ GetMeeting(p) \/ AddResource(p) \/ DeleteResource(p)
                               \/ Transaction(p) \/ ArrangeResource(p) \/ Failure(p)
       PROVE  PlainInv'
  <2>1. CASE \/ Refuse(p) \/ AlreadyThere(p) \/ NotThere(p) \/ GoneMeanwhile(p)
             \/ LockWaitTimeout(p) \/ CommitFails(p) \/ Abandon(p)
    <3>1. Return(p) /\ UNCHANGED <<row, hash, doubled>>
      BY <2>1 DEF Refuse, AlreadyThere, NotThere, GoneMeanwhile, LockWaitTimeout, CommitFails, Abandon, Fail, Succeed
    <3> QED BY <1>5, <3>1
  <2> QED BY <1>4, <1>6, <1>7, <1>8, <1>9, <1>10, <1>11, <1>12, <1>13, <2>1
          DEF GetMeeting, AddResource, DeleteResource, Transaction, ArrangeResource, Failure
<1> QED BY <1>1, <1>2, <1>13 DEF Next

LEMMA PlainEnough == PlainInv => ListedOnce
<1> SUFFICES ASSUME PlainInv, NEW kind \in Kinds, NEW s, Plain(s, Twice(kind)),
                    NEW i \in DOMAIN s, NEW j \in DOMAIN s, s[i].key = s[j].key, <<kind, s[i].key>> \notin doubled
             PROVE  i = j
  BY DEF PlainInv, StoredPlain, ListedOnce
<1>1. s[i].key \notin Twice(kind) BY DEF Twice
<1> QED BY <1>1 DEF Plain, Single

\* A resource is never in a list twice, in the row or in the hash, unless an arrangement named
\* it twice, which ArrangeResource does not look for: the list that a transaction changes is
\* searched for the key under the lock, and every list that is cached was one of these.
THEOREM ResourcesListedOnce == Spec => []ListedOnce
<1>1. FollowInv /\ PlainInv /\ [Next]_vars => (FollowInv /\ PlainInv)' BY FollowStep, PlainStep
<1>2. Init => FollowInv /\ PlainInv BY FollowInit, PlainInit
<1>3. Spec => [](FollowInv /\ PlainInv) BY <1>1, <1>2, PTL DEF Spec
<1>4. FollowInv /\ PlainInv => ListedOnce BY PlainEnough
<1> QED BY <1>3, <1>4, PTL

-----------------------------------------------------------------------------
(***************************************************************************)
(* Why answers hold: a call takes back what was answered of the resources  *)
(* that it may change, and is alone only while no other may change them,   *)
(* so that what it has read of its resource is what the row has.  Another  *)
(* call alone on another resource of the list changes nothing of it, under *)
(* the row's lock.  An arrangement overlaps with every call on the list:   *)
(* what it read keeps all that is answered until it writes.                *)
(***************************************************************************)

\* A list has what the last calls on its resources answered.
Says(s, k, a)  == (a \in Values => a \in Told(s, k)) /\ (a = "gone" => Told(s, k) = {})
Tells(s, kind) == \A k \in Keys : Says(s, k, answer[kind][k])

\* A call takes back the answers for the keys that it may change.
TakesBack(r, k) == IF r.op = "arrange" THEN \A i \in DOMAIN r.order : r.order[i] # k ELSE k = r.item.key

\* What a handler knows: an arrangement will keep what was answered; a call that no other
\* conflicts with has read of its resource what the row has; what a transaction commits is
\* made from the row.
Part(p) ==
  LET r == req[p]  s == row[r.kind]  t == seen[p][r.kind] IN
  pc[p] # "idle" =>
    /\ \A k \in Keys : TakesBack(r, k) => answer[r.kind][k] = None
    /\ pc[p] \in {"fill", "do"} =>
         IF r.op = "arrange" THEN Tells(t, r.kind)
         ELSE alone[p] => Told(t, r.item.key) = Told(s, r.item.key)
    /\ pc[p] = "recache" => (alone[p] => Outcome(r, s))
    /\ pc[p] = "commit" => list[p] = NewList(r, s)

\* Of two calls that conflict, neither is alone.
Rivalry ==
  \A p, q \in Procs : p # q /\ pc[p] # "idle" /\ pc[q] # "idle" /\ Conflict(req[p], req[q]) => ~alone[p]

Answers == Values \union {"gone", None}
AnswerTypes ==
  /\ alone \in [Procs -> BOOLEAN]
  /\ answer \in [Kinds -> [Keys -> Answers]]

AnswerInv ==
  /\ AnswerTypes /\ Rivalry
  /\ \A k \in Kinds : Tells(row[k], k) /\ (hash # None /\ k \notin taint => Tells(hash[k], k))
  /\ \A p \in Procs : Part(p)

LEMMA SaysNothing ==
  ASSUME NEW s, NEW k PROVE Says(s, k, None)
  BY NoneIsOther, GoneIsNoValue DEF Says

LEMMA AnswerInit == Init => AnswerInv
<1> SUFFICES ASSUME Init PROVE AnswerInv OBVIOUS
<1>1. AnswerTypes BY DEF Init, AnswerTypes, Answers
<1>2. \A p \in Procs : pc[p] = "idle" BY DEF Init
<1>3. \A s, k : k \in Kinds => Tells(s, k) BY SaysNothing DEF Init, Tells
<1> QED BY <1>1, <1>2, <1>3 DEF AnswerInv, Rivalry, Part

LEMMA ConflictsBoth ==
  ASSUME NEW r, NEW s PROVE Conflict(r, s) <=> Conflict(s, r)
  BY DEF Conflict

\* What another's step leaves of what a handler knows: a step that changes the row, or answers,
\* for the handler's resource is of a call that conflicts with it.
LEMMA OthersKeep ==
  ASSUME PlainInv, AnswerInv, NEW p \in Procs, NEW q \in Procs \ {p},
         pc'[q] = pc[q], req'[q] = req[q], seen'[q] = seen[q], list'[q] = list[q], alone'[q] => alone[q],
         \A m \in Kinds : \A k \in Keys :
           \/ answer'[m][k] \in {answer[m][k], None}
           \/ pc[p] # "idle" /\ alone[p] /\ req[p].op # "arrange" /\ m = req[p].kind /\ k = req[p].item.key,
         \A m \in Kinds :
           \/ row'[m] = row[m]
           \/ /\ pc[p] # "idle" /\ m = req[p].kind /\ pc[q] # "commit"
              /\ req[p].op # "arrange" => \A h : h # req[p].item.key => Told(row'[m], h) = Told(row[m], h)
  PROVE  Part(q)'
<1> SUFFICES ASSUME pc[q] # "idle" PROVE Part(q)' BY DEF Part
<1> DEFINE r == req[q]
<1>1. r \in Request /\ r.kind \in Kinds /\ (r.op # "arrange" => r.item.key \in Keys) BY DEF PlainInv, Request, Item
<1>2. Part(q) /\ (pc[p] # "idle" /\ Conflict(req[p], r) => ~alone[p] /\ ~alone[q])
  BY ConflictsBoth DEF AnswerInv, Rivalry
<1>3. Part(q)' = LET s == row'[r.kind]  t == seen[q][r.kind] IN
        pc[q] # "idle" =>
          /\ \A k \in Keys : TakesBack(r, k) => answer'[r.kind][k] = None
          /\ pc[q] \in {"fill", "do"} =>
               IF r.op = "arrange" THEN \A k \in Keys : Says(t, k, answer'[r.kind][k])
               ELSE alone'[q] => Told(t, r.item.key) = Told(s, r.item.key)
          /\ pc[q] = "recache" => (alone'[q] => Outcome(r, s))
          /\ pc[q] = "commit" => list[q] = NewList(r, s)
  BY DEF Part, Tells
<1>4. \A k \in Keys : TakesBack(r, k) => answer'[r.kind][k] = None
  <2> SUFFICES ASSUME NEW k \in Keys, TakesBack(r, k) PROVE answer'[r.kind][k] = None OBVIOUS
  <2>1. answer[r.kind][k] = None BY <1>2 DEF Part
  <2>2. ASSUME pc[p] # "idle", alone[p], req[p].op # "arrange", r.kind = req[p].kind, k = req[p].item.key PROVE FALSE
    BY <1>2, <2>2 DEF TakesBack, Conflict
  <2> QED BY <1>1, <2>1, <2>2
<1>5. ASSUME pc[q] \in {"fill", "do"}, r.op = "arrange", NEW k \in Keys PROVE Says(seen[q][r.kind], k, answer'[r.kind][k])
  <2>1. Says(seen[q][r.kind], k, answer[r.kind][k]) BY <1>2, <1>5 DEF Part, Tells
  <2>2. ASSUME pc[p] # "idle", alone[p], r.kind = req[p].kind PROVE FALSE BY <1>2, <1>5, <2>2 DEF Conflict
  <2>3. answer'[r.kind][k] \in {answer[r.kind][k], None} BY <1>1, <2>2
  <2> QED BY <2>1, <2>3, SaysNothing
<1>6. ASSUME r.op # "arrange", alone[q] PROVE Told(row'[r.kind], r.item.key) = Told(row[r.kind], r.item.key)
  BY <1>1, <1>2, <1>6 DEF Conflict
<1>7. pc[q] \in {"recache", "commit"} => r.op # "arrange" BY DEF PlainInv
<1>8. pc[q] = "commit" => row'[r.kind] = row[r.kind] BY <1>1
<1>9. ASSUME pc[q] \in {"fill", "do"}, r.op # "arrange", alone'[q]
      PROVE  Told(seen[q][r.kind], r.item.key) = Told(row'[r.kind], r.item.key)
  BY <1>2, <1>6, <1>9 DEF Part
<1>10. ASSUME pc[q] = "recache", alone'[q] PROVE Outcome(r, row'[r.kind])
  BY <1>2, <1>6, <1>7, <1>10 DEF Part, Outcome
<1>11. pc[q] = "commit" => list[q] = NewList(r, row'[r.kind]) BY <1>2, <1>8 DEF Part
<1> QED BY <1>3, <1>4, <1>5, <1>9, <1>10, <1>11

\* A step of a handler's call, but for what the handler, the row and the hash then say.
LEMMA Keeps ==
  ASSUME PlainInv, AnswerInv, NEW p \in Procs, pc[p] # "idle",
         \A q \in Procs \ {p} : /\ pc'[q] = pc[q] /\ req'[q] = req[q] /\ seen'[q] = seen[q]
                                /\ list'[q] = list[q] /\ alone'[q] = alone[q],
         pc'[p] = "idle" \/ (req'[p] = req[p] /\ (alone'[p] => alone[p])),
         AnswerTypes', Part(p)',
         \A m \in Kinds : \A k \in Keys :
           \/ answer'[m][k] \in {answer[m][k], None}
           \/ alone[p] /\ req[p].op # "arrange" /\ m = req[p].kind /\ k = req[p].item.key,
         \A m \in Kinds :
           \/ row'[m] = row[m]
           \/ /\ m = req[p].kind /\ \A q \in Procs \ {p} : pc[q] # "commit"
              /\ req[p].op # "arrange" => \A h : h # req[p].item.key => Told(row'[m], h) = Told(row[m], h),
         \A m \in Kinds : \A k \in Keys :
           /\ Says(row'[m], k, answer'[m][k])
           /\ hash' # None /\ m \notin taint' => Says(hash'[m], k, answer'[m][k])
  PROVE  AnswerInv'
<1>1. ASSUME NEW q \in Procs \ {p} PROVE Part(q)'
  <2>1. /\ pc'[q] = pc[q] /\ req'[q] = req[q] /\ seen'[q] = seen[q] /\ list'[q] = list[q]
        /\ alone'[q] => alone[q]
    OBVIOUS
  <2>2. \A m \in Kinds : \A k \in Keys :
          \/ answer'[m][k] \in {answer[m][k], None}
          \/ pc[p] # "idle" /\ alone[p] /\ req[p].op # "arrange" /\ m = req[p].kind /\ k = req[p].item.key
    OBVIOUS
  <2>3. \A m \in Kinds :
          \/ row'[m] = row[m]
          \/ /\ pc[p] # "idle" /\ m = req[p].kind /\ pc[q] # "commit"
             /\ req[p].op # "arrange" => \A h : h # req[p].item.key => Told(row'[m], h) = Told(row[m], h)
    OBVIOUS
  <2> QED BY <2>1, <2>2, <2>3, OthersKeep
<1>2. Rivalry'
  <2>1. \A a, b \in Procs : a # b /\ pc[a] # "idle" /\ pc[b] # "idle" /\ Conflict(req[a], req[b]) => ~alone[a]
    BY DEF AnswerInv, Rivalry
  <2>2. \A a \in Procs : pc'[a] # "idle" => pc[a] # "idle" /\ req'[a] = req[a] /\ (alone'[a] => alone[a]) OBVIOUS
  <2>3. \A a, b \in Procs : a # b /\ pc'[a] # "idle" /\ pc'[b] # "idle" /\ Conflict(req'[a], req'[b]) => ~alone'[a]
    BY <2>1, <2>2
  <2> QED BY <2>3 DEF Rivalry, Conflict
<1>3. \A m \in Kinds : Tells(row[m], m)' /\ (hash' # None /\ m \notin taint' => Tells(hash[m], m)')
  BY DEF Tells
<1> QED BY <1>1, <1>2, <1>3 DEF AnswerInv

\* A call that no other conflicts with finds its resource in the hash as it is in the row.
LEMMA HashAgrees ==
  ASSUME FollowInv, PlainInv, AnswerInv, NEW p \in Procs, pc[p] \notin {"idle", "commit"}, alone[p],
         req[p].op # "arrange", hash # None, req[p].kind \notin taint
  PROVE  Told(hash[req[p].kind], req[p].item.key) = Told(row[req[p].kind], req[p].item.key)
<1> DEFINE r == req[p]  kind == r.kind
<1>1. r \in Request /\ kind \in Kinds BY DEF FollowInv, Shape, PlainInv
<1>2. \A q \in Procs \ {p} : pc[q] # "idle" /\ req[q].kind = kind =>
        req[q].op # "arrange" /\ req[q].item.key # r.item.key
  BY DEF AnswerInv, Rivalry, Conflict
<1>3. CASE kind \in Changing
  <2> DEFINE q == holder
  <2>1. q \in Procs /\ req[q].kind = kind BY <1>3 DEF Changing
  <2>2. pc[q] = "commit" /\ q # p BY <2>1 DEF FollowInv, HolderCommits
  <2>3. hash[kind] = list[q] /\ list[q] = NewList(req[q], row[kind])
    BY <1>1, <1>3, <2>1, <2>2 DEF FollowInv, Follows, AnswerInv, Part
  <2>4. req[q] \in Request /\ req[q].op # "arrange" /\ req[q].item.key # r.item.key /\ Plain(row[kind], Twice(kind))
    BY <1>1, <1>2, <2>1, <2>2 DEF PlainInv, StoredPlain
  <2> HIDE DEF q
  <2> QED BY <2>3, <2>4, NewTells
<1>4. CASE kind \notin Changing
  <2>1. hash[kind] = row[kind] \/ Arranging(kind) BY <1>1, <1>4 DEF FollowInv, Follows
  <2>2. ~Arranging(kind) BY <1>2 DEF Arranging, PlainInv
  <2> QED BY <2>1, <2>2
<1> QED BY <1>3, <1>4

LEMMA Returned ==
  ASSUME Shape, AnswerTypes, NEW p \in Procs, Return(p)
  PROVE  /\ pc'[p] = "idle" /\ Part(p)' /\ alone' \in [Procs -> BOOLEAN]
         /\ \A q \in Procs \ {p} : /\ pc'[q] = pc[q] /\ req'[q] = req[q] /\ seen'[q] = seen[q]
                                   /\ list'[q] = list[q] /\ alone'[q] = alone[q]
<1>1. pc'[p] = "idle" BY DEF Return, Goto, Shape
<1>2. Part(p)' BY <1>1 DEF Part
<1> QED BY <1>1, <1>2 DEF Return, Goto, Shape, AnswerTypes

\* A call that ends without an answer.
LEMMA Leaves ==
  ASSUME Shape, PlainInv, AnswerInv, NEW p \in Procs, pc[p] # "idle", Return(p), UNCHANGED <<row, answer>>,
         \A m \in Kinds : hash' # None /\ m \notin taint' =>
           hash'[m] = row[m] \/ (hash # None /\ m \notin taint /\ hash'[m] = hash[m])
  PROVE  AnswerInv'
<1>1. /\ pc'[p] = "idle" /\ Part(p)' /\ alone' \in [Procs -> BOOLEAN]
      /\ \A q \in Procs \ {p} : /\ pc'[q] = pc[q] /\ req'[q] = req[q] /\ seen'[q] = seen[q]
                                /\ list'[q] = list[q] /\ alone'[q] = alone[q]
  BY Returned DEF AnswerInv
<1>2. AnswerTypes' BY <1>1 DEF AnswerInv, AnswerTypes
<1>3. \A m \in Kinds : \A k \in Keys :
        /\ Says(row'[m], k, answer'[m][k])
        /\ hash' # None /\ m \notin taint' => Says(hash'[m], k, answer'[m][k])
  BY DEF AnswerInv, Tells
<1>4. /\ \A m \in Kinds : \A k \in Keys : answer'[m][k] \in {answer[m][k], None}
      /\ \A m \in Kinds : row'[m] = row[m]
  OBVIOUS
<1> QED BY <1>1, <1>2, <1>3, <1>4, Keeps

\* A call that goes on.
LEMMA GoesOn ==
  ASSUME Shape, PlainInv, AnswerInv, NEW p \in Procs, NEW l, Goto(p, l), pc[p] # "idle",
         UNCHANGED <<req, row, answer, alone>>,
         \A q \in Procs \ {p} : seen'[q] = seen[q] /\ list'[q] = list[q],
         l \in {"fill", "do"} =>
           IF req[p].op = "arrange" THEN Tells(seen'[p][req[p].kind], req[p].kind)
           ELSE alone[p] => Told(seen'[p][req[p].kind], req[p].item.key) = Told(row[req[p].kind], req[p].item.key),
         l = "recache" => (alone[p] => Outcome(req[p], row[req[p].kind])),
         l = "commit" => list'[p] = NewList(req[p], row[req[p].kind]),
         \A m \in Kinds : hash' # None /\ m \notin taint' => Tells(hash'[m], m)
  PROVE  AnswerInv'
<1>1. pc'[p] = l /\ \A q \in Procs \ {p} : pc'[q] = pc[q] BY DEF Goto, Shape
<1>2. Part(p)' BY <1>1 DEF AnswerInv, Part, Tells
<1>3. AnswerTypes' BY DEF AnswerInv, AnswerTypes
<1>4. \A m \in Kinds : \A k \in Keys :
        /\ Says(row'[m], k, answer'[m][k])
        /\ hash' # None /\ m \notin taint' => Says(hash'[m], k, answer'[m][k])
  BY DEF AnswerInv, Tells
<1>5. /\ \A m \in Kinds : \A k \in Keys : answer'[m][k] \in {answer[m][k], None}
      /\ \A m \in Kinds : row'[m] = row[m]
      /\ req'[p] = req[p] /\ alone'[p] = alone[p]
      /\ \A q \in Procs \ {p} : req'[q] = req[q] /\ alone'[q] = alone[q]
  OBVIOUS
<1> QED BY <1>1, <1>2, <1>3, <1>4, <1>5, Keeps

\* An addition or a deletion that answers: alone, it leaves its resource as it answered, in the
\* row and in a list of the hash that is not out of order.
LEMMA Succeeds ==
  ASSUME Shape, PlainInv, AnswerInv, NEW p \in Procs, pc[p] # "idle", req[p].op # "arrange", Succeed(p),
         \A m \in Kinds \ {req[p].kind} : row'[m] = row[m],
         \A h : h # req[p].item.key => Told(row'[req[p].kind], h) = Told(row[req[p].kind], h),
         row' # row => \A q \in Procs \ {p} : pc[q] # "commit",
         alone[p] => Outcome(req[p], row'[req[p].kind]),
         \A m \in Kinds : hash' # None /\ m \notin taint' =>
           \/ hash'[m] = row'[m]
           \/ /\ hash # None /\ m \notin taint /\ hash'[m] = hash[m]
              /\ m = req[p].kind /\ alone[p] =>
                   Told(hash[m], req[p].item.key) = Told(row'[m], req[p].item.key)
  PROVE  AnswerInv'
<1> DEFINE r == req[p]  kind == r.kind  key == r.item.key
           v == IF r.op = "add" THEN r.item.value ELSE "gone"
<1>1. r \in Request /\ kind \in Kinds /\ key \in Keys /\ v \in Answers
  BY DEF PlainInv, Shape, Request, Item, Answers
<1>2. /\ pc'[p] = "idle" /\ Part(p)' /\ alone' \in [Procs -> BOOLEAN]
      /\ \A q \in Procs \ {p} : /\ pc'[q] = pc[q] /\ req'[q] = req[q] /\ seen'[q] = seen[q]
                                /\ list'[q] = list[q] /\ alone'[q] = alone[q]
  BY Returned DEF AnswerInv, Succeed
<1>3. answer' = IF alone[p] THEN [answer EXCEPT ![kind][key] = v] ELSE answer BY DEF Succeed
<1>4. answer \in [Kinds -> [Keys -> Answers]] BY DEF AnswerInv, AnswerTypes
<1> HIDE DEF v
<1>5. \A m \in Kinds : \A k \in Keys :
        answer'[m][k] = IF alone[p] /\ m = kind /\ k = key THEN v ELSE answer[m][k]
  BY <1>1, <1>3, <1>4
<1>6. AnswerTypes'
  <2>1. answer' \in [Kinds -> [Keys -> Answers]] BY <1>1, <1>3, <1>4
  <2> QED BY <1>2, <2>1 DEF AnswerTypes
<1>7. answer[kind][key] = None BY <1>1 DEF AnswerInv, Part, TakesBack
<1>8. \A s : Outcome(r, s) => Says(s, key, v)
  BY <1>1, GoneIsNoValue DEF Outcome, Says, v, Request, Item
<1>9. ASSUME NEW m \in Kinds, NEW k \in Keys PROVE Says(row'[m], k, answer'[m][k])
  <2>1. Says(row[m], k, answer[m][k]) BY DEF AnswerInv, Tells
  <2>2. CASE m # kind BY <1>5, <2>1, <2>2
  <2>3. CASE m = kind /\ k # key
    <3>1. Told(row'[m], k) = Told(row[m], k) /\ answer'[m][k] = answer[m][k] BY <1>5, <2>3
    <3> QED BY <2>1, <3>1 DEF Says
  <2>4. CASE m = kind /\ k = key
    <3>1. CASE alone[p] BY <1>5, <1>8, <2>4, <3>1
    <3>2. CASE ~alone[p] BY <1>5, <1>7, <2>4, <3>2, SaysNothing
    <3> QED BY <3>1, <3>2
  <2> QED BY <2>2, <2>3, <2>4
<1>10. ASSUME NEW m \in Kinds, NEW k \in Keys, hash' # None, m \notin taint' PROVE Says(hash'[m], k, answer'[m][k])
  <2>1. CASE hash'[m] = row'[m] BY <1>9, <2>1
  <2>2. CASE hash # None /\ m \notin taint /\ hash'[m] = hash[m]
             /\ (m = kind /\ alone[p] => Told(hash[m], key) = Told(row'[m], key))
    <3>1. Says(hash[m], k, answer[m][k]) BY <2>2 DEF AnswerInv, Tells
    <3>2. CASE ~(alone[p] /\ m = kind /\ k = key) BY <1>5, <2>2, <3>1, <3>2
    <3>3. CASE alone[p] /\ m = kind /\ k = key
      <4>1. Told(hash'[m], k) = Told(row'[m], k) BY <2>2, <3>3
      <4> QED BY <1>9, <4>1 DEF Says
    <3> QED BY <3>2, <3>3
  <2> QED BY <1>10, <2>1, <2>2
<1>11. \A m \in Kinds : \A k \in Keys :
         \/ answer'[m][k] \in {answer[m][k], None}
         \/ alone[p] /\ req[p].op # "arrange" /\ m = req[p].kind /\ k = req[p].item.key
  BY <1>5
<1>12. \A m \in Kinds :
         \/ row'[m] = row[m]
         \/ /\ m = req[p].kind /\ \A q \in Procs \ {p} : pc[q] # "commit"
            /\ req[p].op # "arrange" => \A h : h # req[p].item.key => Told(row'[m], h) = Told(row[m], h)
  OBVIOUS
<1> QED BY <1>2, <1>6, <1>9, <1>10, <1>11, <1>12, Keeps

\* A call takes back what it may change, and disturbs the calls that it conflicts with.
LEMMA CallAnswers ==
  ASSUME Shape, PlainInv, AnswerInv, NEW p \in Procs, Call(p)
  PROVE  AnswerInv'
<1>1. PICK r \in Scenes[scene] :
        LET rivals == {q \in Procs : pc[q] # "idle" /\ Conflict(r, req[q])}
            named  == IF r.op = "arrange" THEN {r.order[i] : i \in DOMAIN r.order} ELSE {}
            kept   == IF r.op = "arrange" THEN named ELSE Keys \ {r.item.key}
        IN  /\ req'    = [req EXCEPT ![p] = r]
            /\ alone'  = [q \in Procs |-> IF q = p THEN rivals = {} ELSE alone[q] /\ q \notin rivals]
            /\ answer' = [answer EXCEPT ![r.kind] = [k \in Keys |-> IF k \in kept THEN @[k] ELSE None]]
  BY DEF Call
<1> DEFINE rivals == {q \in Procs : pc[q] # "idle" /\ Conflict(r, req[q])}
           named  == IF r.op = "arrange" THEN {r.order[i] : i \in DOMAIN r.order} ELSE {}
           kept   == IF r.op = "arrange" THEN named ELSE Keys \ {r.item.key}
<1>2. r \in Request /\ r.kind \in Kinds BY ScenesAreCalls DEF Shape, Request
<1>3. pc[p] = "idle" /\ Goto(p, "get") /\ UNCHANGED <<row, hash, seen, list, taint>> BY DEF Call
<1>4. /\ pc'[p] = "get" /\ req'[p] = r /\ (alone'[p] <=> rivals = {})
      /\ \A q \in Procs \ {p} : /\ pc'[q] = pc[q] /\ req'[q] = req[q]
                                /\ (alone'[q] <=> alone[q] /\ q \notin rivals)
  BY <1>1, <1>3 DEF Goto, Shape, AnswerInv, AnswerTypes
<1> HIDE DEF kept, named, rivals
<1>5. answer \in [Kinds -> [Keys -> Answers]] BY DEF AnswerInv, AnswerTypes
<1>6. answer' = [answer EXCEPT ![r.kind] = [k \in Keys |-> IF k \in kept THEN answer[r.kind][k] ELSE None]]
  BY <1>1, <1>2, <1>5 DEF kept, named
<1>7. \A m \in Kinds : \A k \in Keys :
        answer'[m][k] = IF m = r.kind /\ k \notin kept THEN None ELSE answer[m][k]
  BY <1>2, <1>5, <1>6
<1>8. AnswerTypes'
  <2>1. answer' \in [Kinds -> [Keys -> Answers]] BY <1>2, <1>5, <1>6 DEF Answers
  <2>2. alone' \in [Procs -> BOOLEAN]
    <3>1. \A q \in Procs : alone[q] \in BOOLEAN BY DEF AnswerInv, AnswerTypes
    <3>2. alone' = [q \in Procs |-> IF q = p THEN rivals = {} ELSE alone[q] /\ q \notin rivals]
      BY <1>1 DEF rivals
    <3> QED BY <3>2
  <2> QED BY <2>1, <2>2 DEF AnswerTypes
<1>9. Rivalry'
  <2>1. \A a, b \in Procs : a # b /\ pc[a] # "idle" /\ pc[b] # "idle" /\ Conflict(req[a], req[b]) => ~alone[a]
    BY DEF AnswerInv, Rivalry
  <2>2. ASSUME NEW a \in Procs, NEW b \in Procs, a # b, pc'[a] # "idle", pc'[b] # "idle", Conflict(req'[a], req'[b])
        PROVE  ~alone'[a]
    <3>1. CASE a = p
      <4>1. b \in rivals BY <1>4, <2>2, <3>1 DEF rivals
      <4> QED BY <1>4, <3>1, <4>1
    <3>2. CASE b = p
      <4>1. a \in rivals BY <1>4, <2>2, <3>2, ConflictsBoth DEF rivals
      <4> QED BY <1>4, <2>2, <3>2, <4>1
    <3>3. CASE a # p /\ b # p BY <1>4, <2>1, <2>2, <3>3
    <3> QED BY <3>1, <3>2, <3>3
  <2> QED BY <2>2 DEF Rivalry, Conflict
<1>10. ASSUME NEW m \in Kinds PROVE Tells(row[m], m)' /\ (hash' # None /\ m \notin taint' => Tells(hash[m], m)')
  <2>1. Tells(row[m], m) /\ (hash # None /\ m \notin taint => Tells(hash[m], m)) BY DEF AnswerInv
  <2> QED BY <1>3, <1>7, <2>1, SaysNothing DEF Tells
<1>11. Part(p)'
  <2>1. \A k \in Keys : TakesBack(r, k) => k \notin kept BY DEF TakesBack, kept, named
  <2>2. \A k \in Keys : TakesBack(r, k) => answer'[r.kind][k] = None BY <1>2, <1>7, <2>1
  <2> QED BY <1>4, <2>2 DEF Part, TakesBack
<1>12. ASSUME NEW q \in Procs \ {p} PROVE Part(q)'
  <2>1. \A m \in Kinds : \A k \in Keys : answer'[m][k] \in {answer[m][k], None} BY <1>7
  <2>2. \A m \in Kinds : row'[m] = row[m] BY <1>3
  <2>3. /\ pc'[q] = pc[q] /\ req'[q] = req[q] /\ seen'[q] = seen[q] /\ list'[q] = list[q]
        /\ alone'[q] => alone[q]
    BY <1>3, <1>4
  <2> QED BY <2>1, <2>2, <2>3, OthersKeep
<1> QED BY <1>8, <1>9, <1>10, <1>11, <1>12 DEF AnswerInv

\* What GetMeeting returns from the hash.
LEMMA HitAnswers ==
  ASSUME FollowInv, PlainInv, AnswerInv, NEW p \in Procs, GetMeetingHit(p)
  PROVE  AnswerInv'
<1> DEFINE r == req[p]  kind == r.kind
<1>1. Shape /\ r \in Request /\ kind \in Kinds BY DEF FollowInv, Shape, PlainInv, GetMeetingHit
<1>2. /\ pc[p] = "get" /\ hash # None /\ Goto(p, "do") /\ seen' = [seen EXCEPT ![p] = hash]
      /\ alone' = [alone EXCEPT ![p] = @ /\ kind \notin taint]
      /\ answer' = IF r.op = "arrange" /\ kind \in taint
                   THEN [answer EXCEPT ![kind] = [k \in Keys |-> None]] ELSE answer
      /\ UNCHANGED <<row, hash, req, list, taint>>
  BY DEF GetMeetingHit
<1>3. alone \in [Procs -> BOOLEAN] /\ answer \in [Kinds -> [Keys -> Answers]] BY DEF AnswerInv, AnswerTypes
<1>4. /\ pc'[p] = "do" /\ req'[p] = r /\ seen'[p] = hash /\ (alone'[p] <=> alone[p] /\ kind \notin taint)
      /\ \A q \in Procs \ {p} : /\ pc'[q] = pc[q] /\ req'[q] = req[q] /\ seen'[q] = seen[q]
                                /\ list'[q] = list[q] /\ alone'[q] = alone[q]
  BY <1>1, <1>2, <1>3 DEF Goto, Shape
<1>5. \A m \in Kinds : \A k \in Keys :
        answer'[m][k] = IF m = kind /\ r.op = "arrange" /\ kind \in taint THEN None ELSE answer[m][k]
  BY <1>1, <1>2, <1>3
<1>6. AnswerTypes'
  <2>1. answer' \in [Kinds -> [Keys -> Answers]] BY <1>1, <1>2, <1>3 DEF Answers
  <2>2. alone' \in [Procs -> BOOLEAN] BY <1>2, <1>3
  <2> QED BY <2>1, <2>2 DEF AnswerTypes
<1>7. \A m \in Kinds : \A k \in Keys :
        /\ Says(row'[m], k, answer'[m][k])
        /\ hash' # None /\ m \notin taint' => Says(hash'[m], k, answer'[m][k])
  BY <1>2, <1>5, SaysNothing DEF AnswerInv, Tells
<1>8. Part(p)'
  <2>1. \A k \in Keys : TakesBack(r, k) => answer'[kind][k] = None BY <1>1, <1>2, <1>5 DEF AnswerInv, Part
  <2>2. ASSUME r.op = "arrange", NEW k \in Keys PROVE Says(hash[kind], k, answer'[kind][k])
    <3>1. CASE kind \in taint BY <1>1, <1>5, <2>2, <3>1, SaysNothing
    <3>2. CASE kind \notin taint BY <1>1, <1>2, <1>5, <2>2, <3>2 DEF AnswerInv, Tells
    <3> QED BY <3>1, <3>2
  <2>3. ASSUME r.op # "arrange", alone'[p] PROVE Told(hash[kind], r.item.key) = Told(row[kind], r.item.key)
    BY <1>2, <1>4, <2>3, HashAgrees
  <2> QED BY <1>2, <1>4, <2>1, <2>2, <2>3 DEF Part, Tells, TakesBack
<1>9. /\ \A m \in Kinds : \A k \in Keys : answer'[m][k] \in {answer[m][k], None}
      /\ \A m \in Kinds : row'[m] = row[m]
  BY <1>2, <1>5
<1>10. pc[p] # "idle" BY <1>2
<1> QED BY <1>4, <1>6, <1>7, <1>8, <1>9, <1>10, Keeps

\* What GetMeeting returns from the row, and what it writes to the hash.
LEMMA MissAnswers ==
  ASSUME Shape, PlainInv, AnswerInv, NEW p \in Procs, GetMeetingMiss(p) \/ GetMeetingFill(p)
  PROVE  AnswerInv'
<1>1. req[p].kind \in Kinds BY DEF Shape
<1>2. CASE GetMeetingMiss(p)
  <2>1. /\ pc[p] = "get" /\ Goto(p, "fill") /\ seen' = [seen EXCEPT ![p] = row]
        /\ UNCHANGED <<req, row, answer, alone, hash, taint, list>>
    BY <1>2 DEF GetMeetingMiss, history
  <2>2. seen'[p] = row /\ \A q \in Procs \ {p} : seen'[q] = seen[q] /\ list'[q] = list[q] BY <2>1 DEF Shape
  <2>3. Tells(row[req[p].kind], req[p].kind) BY <1>1 DEF AnswerInv
  <2>4. \A m \in Kinds : hash' # None /\ m \notin taint' => Tells(hash'[m], m) BY <2>1 DEF AnswerInv
  <2> QED BY <2>1, <2>2, <2>3, <2>4, GoesOn
<1>3. CASE GetMeetingFill(p)
  <2>1. /\ pc[p] = "fill" /\ Goto(p, "do") /\ hash' = seen[p]
        /\ \A m \in Kinds : m \notin taint' => seen[p][m] = row[m]
        /\ UNCHANGED <<req, row, answer, alone, seen, list>>
    BY <1>3 DEF GetMeetingFill, local
  <2>2. \A m \in Kinds : hash' # None /\ m \notin taint' => Tells(hash'[m], m) BY <2>1 DEF AnswerInv
  <2>3. IF req[p].op = "arrange" THEN Tells(seen[p][req[p].kind], req[p].kind)
        ELSE alone[p] => Told(seen[p][req[p].kind], req[p].item.key) = Told(row[req[p].kind], req[p].item.key)
    BY <2>1 DEF AnswerInv, Part
  <2> QED BY <2>1, <2>2, <2>3, GoesOn
<1> QED BY <1>2, <1>3

\* The way to the row's lock, and what is found there.
LEMMA LockAnswers ==
  ASSUME Shape, PlainInv, AnswerInv, NEW p \in Procs,
         NotYetThere(p) \/ StillThere(p) \/ Unchanged(p) \/ Change(p)
  PROVE  AnswerInv'
<1> DEFINE r == req[p]  kind == r.kind  s == row[kind]  new == NewList(r, s)
<1>1. CASE NotYetThere(p) \/ StillThere(p)
  <2>1. pc[p] = "do" /\ Goto(p, "lock") /\ UNCHANGED <<req, row, answer, alone, hash, taint, seen, list>>
    BY <1>1 DEF NotYetThere, StillThere, At, local, history
  <2>2. \A m \in Kinds : hash' # None /\ m \notin taint' => Tells(hash'[m], m) BY <2>1 DEF AnswerInv
  <2> QED BY <2>1, <2>2, GoesOn
<1>2. ASSUME pc[p] = "lock"
      PROVE  r \in Request /\ r.op # "arrange" /\ kind \in Kinds /\ Plain(s, Twice(kind))
  BY <1>2 DEF Shape, PlainInv, StoredPlain
<1>3. CASE Unchanged(p)
  <2>1. /\ pc[p] = "lock" /\ Goto(p, "recache") /\ Skips(r, s) /\ list' = [list EXCEPT ![p] = s]
        /\ UNCHANGED <<req, row, answer, alone, hash, taint, seen>>
    BY <1>3 DEF Unchanged, history
  <2>2. Outcome(r, s) BY <1>2, <2>1, NewTells DEF Skips
  <2>3. \A m \in Kinds : hash' # None /\ m \notin taint' => Tells(hash'[m], m) BY <2>1 DEF AnswerInv
  <2>4. \A q \in Procs \ {p} : seen'[q] = seen[q] /\ list'[q] = list[q] BY <2>1 DEF Shape
  <2> QED BY <2>1, <2>2, <2>3, <2>4, GoesOn
<1>4. CASE Change(p)
  <2>1. /\ pc[p] = "lock" /\ Goto(p, "commit") /\ list' = [list EXCEPT ![p] = new] /\ SetField(kind, new)
        /\ taint' = IF hash = None THEN taint ELSE taint \ {kind}
        /\ UNCHANGED <<req, row, answer, alone, seen>>
    BY <1>4 DEF Change
  <2>2. Outcome(r, new) /\ \A h : h # r.item.key => Told(new, h) = Told(s, h) BY <1>2, <2>1, NewTells
  <2>3. list'[p] = new /\ \A q \in Procs \ {p} : seen'[q] = seen[q] /\ list'[q] = list[q] BY <2>1 DEF Shape
  <2>4. Tells(new, kind)
    <3> SUFFICES ASSUME NEW k \in Keys PROVE Says(new, k, answer[kind][k]) BY DEF Tells
    <3>1. CASE k = r.item.key
      <4>1. answer[kind][k] = None BY <1>2, <2>1, <3>1 DEF AnswerInv, Part, TakesBack
      <4> QED BY <4>1, SaysNothing
    <3>2. CASE k # r.item.key
      <4>1. Told(new, k) = Told(s, k) BY <2>2, <3>2
      <4>2. Says(s, k, answer[kind][k]) BY <1>2, <2>1 DEF AnswerInv, Tells
      <4> QED BY <4>1, <4>2 DEF Says
    <3> QED BY <3>1, <3>2
  <2> HIDE DEF new
  <2>5. ASSUME NEW m \in Kinds, hash' # None, m \notin taint' PROVE Tells(hash'[m], m)
    <3>1. hash # None /\ hash' = [hash EXCEPT ![kind] = new] BY <2>1, <2>5 DEF SetField
    <3>2. CASE m = kind
      <4>1. hash'[m] = new BY <3>1, <3>2 DEF Shape
      <4> QED BY <2>4, <3>2, <4>1
    <3>3. CASE m # kind
      <4>1. hash'[m] = hash[m] /\ m \notin taint BY <2>1, <2>5, <3>1, <3>3 DEF Shape
      <4> QED BY <3>1, <4>1 DEF AnswerInv
    <3> QED BY <3>2, <3>3
  <2>6. list'[p] = NewList(req[p], row[req[p].kind]) BY <2>3 DEF new
  <2> QED BY <2>1, <2>3, <2>5, <2>6, GoesOn
<1> QED BY <1>1, <1>3, <1>4

\* The answers of additions and deletions.
LEMMA ReplyAnswers ==
  ASSUME FollowInv, PlainInv, AnswerInv, NEW p \in Procs, pc[p] # "idle", req[p].op # "arrange",
         AlreadyThere(p) \/ (NotThere(p) /\ Succeed(p)) \/ Commit(p) \/ Recache(p)
  PROVE  AnswerInv'
<1> DEFINE r == req[p]  kind == r.kind  key == r.item.key  s == row[kind]
<1>1. Shape /\ r \in Request /\ kind \in Kinds /\ key \in Keys /\ r.item \in Item /\ Plain(s, Twice(kind))
  BY DEF FollowInv, Shape, PlainInv, StoredPlain, Request, Item
<1>2. CASE AlreadyThere(p) \/ (NotThere(p) /\ Succeed(p))
  <2>1. pc[p] = "do" /\ Succeed(p) /\ UNCHANGED <<row, hash, taint>>
    BY <1>2 DEF AlreadyThere, NotThere, At
  <2>2. Outcome(r, seen[p][kind])
    <3>1. seen[p][kind] \in Seq(Item) BY <1>1 DEF PlainInv, Plain
    <3>2. \/ r.op = "add" /\ Holds(seen[p][kind], r.item)
          \/ r.op = "delete" /\ ~Has(seen[p][kind], key)
      BY <1>2 DEF AlreadyThere, NotThere, At
    <3>3. Holds(seen[p][kind], r.item) <=> r.item.value \in Told(seen[p][kind], key) BY <1>1, <3>1, HoldsIsTold
    <3>4. Has(seen[p][kind], key) <=> Told(seen[p][kind], key) # {} BY <1>1, <3>1, HoldsIsTold
    <3> QED BY <3>2, <3>3, <3>4 DEF Outcome
  <2>3. alone[p] => Outcome(r, s) BY <1>1, <2>1, <2>2 DEF AnswerInv, Part, Outcome
  <2>4. ASSUME hash # None, kind \notin taint, alone[p] PROVE Told(hash[kind], key) = Told(row[kind], key)
    BY <2>1, <2>4, HashAgrees
  <2>5. ASSUME NEW m \in Kinds, hash' # None, m \notin taint'
        PROVE  \/ hash'[m] = row'[m]
               \/ /\ hash # None /\ m \notin taint /\ hash'[m] = hash[m]
                  /\ m = kind /\ alone[p] => Told(hash[m], key) = Told(row'[m], key)
    BY <2>1, <2>5, <2>4
  <2>6. /\ \A m \in Kinds \ {kind} : row'[m] = row[m]
        /\ \A h : h # key => Told(row'[kind], h) = Told(row[kind], h)
        /\ row' # row => \A q \in Procs \ {p} : pc[q] # "commit"
        /\ alone[p] => Outcome(r, row'[kind])
    BY <2>1, <2>3
  <2> QED BY <1>1, <2>1, <2>5, <2>6, Succeeds
<1>3. CASE Recache(p)
  <2>1. /\ pc[p] = "recache" /\ Succeed(p) /\ row' = row /\ SetField(kind, list[p])
        /\ taint' = IF hash = None THEN taint
                    ELSE IF list[p] = row[kind] /\ kind \notin Changing THEN taint \ {kind}
                    ELSE taint \union {kind}
    BY <1>3 DEF Recache
  <2>2. alone[p] => Outcome(r, s) BY <2>1 DEF AnswerInv, Part
  <2>3. ASSUME NEW m \in Kinds, hash' # None, m \notin taint'
        PROVE  \/ hash'[m] = row'[m]
               \/ /\ hash # None /\ m \notin taint /\ hash'[m] = hash[m]
                  /\ m = kind /\ alone[p] => Told(hash[m], key) = Told(row'[m], key)
    BY <1>1, <2>1, <2>3 DEF SetField, Shape
  <2>4. /\ \A m \in Kinds \ {kind} : row'[m] = row[m]
        /\ \A h : h # key => Told(row'[kind], h) = Told(row[kind], h)
        /\ row' # row => \A q \in Procs \ {p} : pc[q] # "commit"
        /\ alone[p] => Outcome(r, row'[kind])
    BY <2>1, <2>2
  <2> QED BY <1>1, <2>1, <2>3, <2>4, Succeeds
<1>4. CASE Commit(p)
  <2>1. /\ pc[p] = "commit" /\ Succeed(p) /\ row' = [row EXCEPT ![kind] = list[p]]
        /\ UNCHANGED <<hash, taint>>
    BY <1>4 DEF Commit
  <2>2. list[p] = NewList(r, s) BY <2>1 DEF AnswerInv, Part
  <2>3. Outcome(r, list[p]) /\ \A h : h # key => Told(list[p], h) = Told(s, h) BY <1>1, <2>2, NewTells
  <2>4. row'[kind] = list[p] /\ \A m \in Kinds \ {kind} : row'[m] = row[m] BY <1>1, <2>1 DEF Shape
  <2>5. holder = p BY <2>1 DEF FollowInv, HolderCommits
  <2>6. \A q \in Procs \ {p} : pc[q] # "commit" BY <2>5 DEF FollowInv, HolderCommits
  <2>7. hash # None /\ kind \notin taint => hash[kind] = list[p]
    BY <1>1, <2>5 DEF FollowInv, Follows, Changing
  <2>8. \A m \in Kinds : hash' # None /\ m \notin taint' =>
          \/ hash'[m] = row'[m]
          \/ /\ hash # None /\ m \notin taint /\ hash'[m] = hash[m]
             /\ m = kind /\ alone[p] => Told(hash[m], key) = Told(row'[m], key)
    BY <2>1, <2>4, <2>7
  <2>9. /\ \A h : h # key => Told(row'[kind], h) = Told(row[kind], h)
        /\ alone[p] => Outcome(r, row'[kind])
    BY <2>3, <2>4
  <2> QED BY <1>1, <2>1, <2>4, <2>6, <2>8, <2>9, Succeeds
<1> QED BY <1>2, <1>3, <1>4

\* ArrangeResource's UPDATE keeps what was answered of the resources that it names, and nothing
\* is answered of the others.
LEMMA ArrangeAnswers ==
  ASSUME FollowInv, PlainInv, AnswerInv, NEW p \in Procs, ArrangeRow(p)
  PROVE  AnswerInv'
<1> DEFINE r == req[p]  kind == r.kind  t == seen[p][kind]  new == Arranged(t, r.order)
<1>1. /\ pc[p] = "do" /\ r.op = "arrange" /\ holder = None /\ Goto(p, "arranged")
      /\ row' = [row EXCEPT ![kind] = new] /\ list' = [list EXCEPT ![p] = new]
      /\ UNCHANGED <<hash, req, seen, alone, answer, taint>>
  BY DEF ArrangeRow, At, history
<1>2. Shape /\ r \in Request /\ kind \in Kinds /\ r.order \in Seq(Keys) /\ Plain(t, Twice(kind))
  BY <1>1 DEF FollowInv, Shape, PlainInv, Request
<1>3. \A k : Told(new, k) = IF \E i \in DOMAIN r.order : r.order[i] = k THEN Told(t, k) ELSE {}
  BY <1>2, ArrangedTells
<1> HIDE DEF new
<1>4. row'[kind] = new /\ \A m \in Kinds \ {kind} : row'[m] = row[m] BY <1>1, <1>2 DEF Shape
<1>5. /\ pc'[p] = "arranged" /\ req'[p] = r /\ alone'[p] = alone[p]
      /\ \A q \in Procs \ {p} : /\ pc'[q] = pc[q] /\ req'[q] = req[q] /\ seen'[q] = seen[q]
                                /\ list'[q] = list[q] /\ alone'[q] = alone[q]
  BY <1>1, <1>2 DEF Goto, Shape
<1>6. \A q \in Procs \ {p} : pc[q] # "commit" BY <1>1, NoneIsOther DEF FollowInv, HolderCommits
<1>7. AnswerTypes' BY <1>1 DEF AnswerInv, AnswerTypes
<1>8. \A k \in Keys : TakesBack(r, k) => answer[kind][k] = None BY <1>1 DEF AnswerInv, Part
<1>9. Part(p)' BY <1>1, <1>5, <1>8 DEF Part, TakesBack
<1>10. ASSUME NEW k \in Keys PROVE Says(new, k, answer[kind][k])
  <2>1. CASE TakesBack(r, k) BY <1>8, <2>1, SaysNothing
  <2>2. CASE ~TakesBack(r, k)
    <3>1. Told(new, k) = Told(t, k) BY <1>1, <1>3, <2>2 DEF TakesBack
    <3>2. Says(t, k, answer[kind][k]) BY <1>1 DEF AnswerInv, Part, Tells
    <3> QED BY <3>1, <3>2 DEF Says
  <2> QED BY <2>1, <2>2
<1>11. \A m \in Kinds : \A k \in Keys :
         /\ Says(row'[m], k, answer'[m][k])
         /\ hash' # None /\ m \notin taint' => Says(hash'[m], k, answer'[m][k])
  BY <1>1, <1>4, <1>10 DEF AnswerInv, Tells
<1>12. /\ \A m \in Kinds : \A k \in Keys : answer'[m][k] \in {answer[m][k], None}
       /\ \A m \in Kinds :
            \/ row'[m] = row[m]
            \/ /\ m = req[p].kind /\ \A q \in Procs \ {p} : pc[q] # "commit"
               /\ req[p].op # "arrange" => \A h : h # req[p].item.key => Told(row'[m], h) = Told(row[m], h)
  BY <1>1, <1>4, <1>6
<1>13. pc[p] # "idle" BY <1>1
<1> QED BY <1>5, <1>7, <1>9, <1>11, <1>12, <1>13, Keeps

\* The calls that end without an answer, and an arrangement's list in the hash.
LEMMA EndAnswers ==
  ASSUME FollowInv, PlainInv, AnswerInv, NEW p \in Procs,
         \/ Refuse(p) \/ (NotThere(p) /\ Fail(p)) \/ GoneMeanwhile(p) \/ ArrangeCache(p)
         \/ CacheError(p) \/ CommitFails(p) \/ LockWaitTimeout(p) \/ Abandon(p)
  PROVE  AnswerInv'
<1> DEFINE kind == req[p].kind
<1>1. Shape /\ kind \in Kinds BY DEF FollowInv, Shape
<1>2. CASE \/ Refuse(p) \/ (NotThere(p) /\ Fail(p)) \/ GoneMeanwhile(p)
           \/ CommitFails(p) \/ LockWaitTimeout(p) \/ Abandon(p)
  <2>1. /\ pc[p] # "idle" /\ Return(p) /\ UNCHANGED <<row, answer, hash>>
        /\ taint' = taint \/ taint' = taint \union {kind}
    BY <1>2 DEF Refuse, NotThere, GoneMeanwhile, CommitFails, LockWaitTimeout, Abandon, Fail, At
  <2> QED BY <1>1, <2>1, Leaves
<1>3. CASE ArrangeCache(p)
  <2>1. /\ pc[p] = "arranged" /\ Return(p) /\ UNCHANGED <<row, answer>> /\ SetField(kind, list[p])
        /\ taint' = IF hash = None THEN taint
                    ELSE IF list[p] = row[kind] /\ kind \notin Changing THEN taint \ {kind}
                    ELSE taint \union {kind}
    BY <1>3 DEF ArrangeCache, Succeed, PlainInv
  <2>2. \A m \in Kinds : hash' # None /\ m \notin taint' =>
          hash'[m] = row[m] \/ (hash # None /\ m \notin taint /\ hash'[m] = hash[m])
    BY <1>1, <2>1 DEF SetField, Shape
  <2> QED BY <1>1, <2>1, <2>2, Leaves
<1>4. CASE CacheError(p)
  <2> DEFINE new == NewList(req[p], row[kind])
  <2>1. /\ pc[p] = "lock" /\ Return(p) /\ UNCHANGED <<row, answer>>
        /\ \/ UNCHANGED <<hash, taint>>
           \/ SetField(kind, new) /\ taint' = taint \union {kind}
    BY <1>4 DEF CacheError, Fail
  <2> HIDE DEF new
  <2>2. \A m \in Kinds : hash' # None /\ m \notin taint' =>
          hash'[m] = row[m] \/ (hash # None /\ m \notin taint /\ hash'[m] = hash[m])
    BY <1>1, <2>1 DEF SetField, Shape
  <2> QED BY <1>1, <2>1, <2>2, Leaves
<1> QED BY <1>2, <1>3, <1>4

LEMMA AnswerStep ==
  ASSUME FollowInv, PlainInv, AnswerInv, [Next]_vars PROVE AnswerInv'
<1>0. Shape BY DEF FollowInv
<1>1. CASE UNCHANGED <<row, hash, pc, local, history>>
  BY <1>1 DEF local, history, AnswerInv, AnswerTypes, Rivalry, Part, Tells
<1>2. CASE UNCHANGED vars BY <1>1, <1>2 DEF vars
<1>3. CASE ConnectionCloses BY <1>1, <1>3 DEF ConnectionCloses
<1>4. ASSUME NEW p \in Procs, Call(p) \/ GetMeeting(p) \/ AddResource(p) \/ DeleteResource(p)
                              \/ Transaction(p) \/ ArrangeResource(p) \/ Failure(p)
      PROVE  AnswerInv'
  <2>1. CASE AlreadyThere(p) \/ (NotThere(p) /\ Succeed(p)) \/ Commit(p) \/ Recache(p)
    <3>1. pc[p] # "idle" /\ req[p].op # "arrange"
      BY <2>1 DEF AlreadyThere, NotThere, At, Commit, Recache, PlainInv
    <3> QED BY <2>1, <3>1, ReplyAnswers
  <2>2. CASE NotThere(p) \/ Refuse(p) \/ GoneMeanwhile(p) \/ ArrangeCache(p) \/ Failure(p)
    BY <2>1, <2>2, EndAnswers DEF NotThere, Failure
  <2>3. CASE Call(p) BY <1>0, <2>3, CallAnswers
  <2>4. CASE GetMeetingHit(p) BY <2>4, HitAnswers
  <2>5. CASE GetMeetingMiss(p) \/ GetMeetingFill(p) BY <1>0, <2>5, MissAnswers
  <2>6. CASE NotYetThere(p) \/ StillThere(p) \/ Unchanged(p) \/ Change(p) BY <1>0, <2>6, LockAnswers
  <2>7. CASE ArrangeRow(p) BY <2>7, ArrangeAnswers
  <2> QED BY <1>4, <2>1, <2>2, <2>3, <2>4, <2>5, <2>6, <2>7
          DEF GetMeeting, AddResource, DeleteResource, Transaction, ArrangeResource
<1> QED BY <1>2, <1>3, <1>4 DEF Next

LEMMA AnswerEnough == PlainInv /\ AnswerInv => AnswersHold
<1> SUFFICES ASSUME PlainInv, AnswerInv, NEW kind \in Kinds, NEW k \in Keys
             PROVE  LET a == answer[kind][k] IN
                    /\ a \in Values  => Holds(row[kind], [key |-> k, value |-> a])
                    /\ a = "gone" => ~Has(row[kind], k)
  BY DEF AnswersHold
<1>1. row[kind] \in Seq(Item) BY DEF PlainInv, StoredPlain, Plain
<1>2. Says(row[kind], k, answer[kind][k]) BY DEF AnswerInv, Tells
<1> QED BY <1>1, <1>2, HoldsIsTold DEF Says

\* What a call answered of a resource stays true of the row until the next call on it starts:
\* neither a call on another resource of the list nor an arrangement that names the resource
\* loses it or brings it back.
THEOREM AnswersStand == Spec => []AnswersHold
<1>1. FollowInv /\ PlainInv /\ AnswerInv /\ [Next]_vars => (FollowInv /\ PlainInv /\ AnswerInv)'
  BY FollowStep, PlainStep, AnswerStep
<1>2. Init => FollowInv /\ PlainInv /\ AnswerInv BY FollowInit, PlainInit, AnswerInit
<1>3. Spec => [](FollowInv /\ PlainInv /\ AnswerInv) BY <1>1, <1>2, PTL DEF Spec
<1>4. FollowInv /\ PlainInv /\ AnswerInv => AnswersHold BY AnswerEnough
<1> QED BY <1>3, <1>4, PTL
=============================================================================
