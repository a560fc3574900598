-------------------------- MODULE NoteService_proofs --------------------------
(* Theorems about NoteService, for any notes, lists, servers and handlers. *)
EXTENDS NoteService, TLAPS

(***************************************************************************)
(* Why answered notes are saved: what a transaction has read of a row is   *)
(* what the row holds until it stores it, although two that find no row    *)
(* hold its gap together, and a worker that appends to the second row has  *)
(* appended to the first.                                                  *)
(***************************************************************************)

Workers ==
  /\ tasks \in [Servers -> Seq(Task)] /\ work \in [Servers -> Task]
  /\ step  \in [Servers -> {"take", "mine", "of", "erase"}]
  /\ read  \in [Servers -> (SUBSET Notes) \union {None}]
  /\ rows  \in [Lists -> (SUBSET Notes) \union {None}]
  /\ req   \in [Handlers -> Notes] /\ DOMAIN pc = Handlers
  /\ answered \subseteq Notes

Appending(s) == step[s] \in {"mine", "of"}

\* A transaction is open only while the worker appends, two on one list find no row,
\* and what each has read is what there is.
Locks ==
  /\ \A s \in Servers : read[s] # None => Appending(s) /\ read[s] = Contents(List(s))
  /\ \A s, t \in Servers : read[s] # None /\ read[t] # None /\ s # t /\ List(s) = List(t) => rows[List(s)] = None

HalfSaved == \A s \in Servers : step[s] = "of" => work[s].n \in Contents(mine[work[s].n])

SaveInv == Workers /\ Locks /\ HalfSaved /\ AnsweredAreSaved

LEMMA NoTaskIsTask == SomeNote \in Notes /\ NoTask \in Task /\ NoTask.isAdd
  BY SomeNotes DEF SomeNote, NoTask, Task

LEMMA SaveInit == Init => SaveInv
<1> SUFFICES ASSUME Init PROVE SaveInv OBVIOUS
<1>1. tasks \in [Servers -> Seq(Task)]
  <2>1. <<>> \in Seq(Task) OBVIOUS
  <2> QED BY <2>1 DEF Init
<1>2. rows \in [Lists -> (SUBSET Notes) \union {None}]
  <2>1. {} \in SUBSET Notes OBVIOUS
  <2>2. rows = [l \in Lists |-> IF l \in Scenes[scene].kept THEN {} ELSE None] BY DEF Init
  <2>3. \A l \in Lists : (IF l \in Scenes[scene].kept THEN {} ELSE None) \in (SUBSET Notes) \union {None}
    BY <2>1
  <2> QED BY <2>2, <2>3
<1>3. Workers
  <2>1. /\ work = [s \in Servers |-> NoTask] /\ step = [s \in Servers |-> "take"]
        /\ read = [s \in Servers |-> None]
        /\ pc = [h \in Handlers |-> "idle"] /\ req = [h \in Handlers |-> SomeNote] /\ answered = {}
    BY DEF Init
  <2> QED BY <1>1, <1>2, <2>1, NoTaskIsTask DEF Workers
<1>4. Locks BY DEF Init, Locks
<1> QED BY <1>3, <1>4 DEF Init, SaveInv, HalfSaved, AnsweredAreSaved

LEMMA PendingIs ==
  ASSUME NEW s, NEW n
  PROVE  n \in Pending(s) <=> \/ \E i \in DOMAIN tasks[s] : tasks[s][i].isAdd /\ tasks[s][i].n = n
                              \/ Appending(s) /\ work[s].n = n
  BY DEF Pending, Appending

\* Steps that leave the workers alone and keep what is in the channels.
LEMMA QuietSave ==
  ASSUME SaveInv, Workers', UNCHANGED <<work, step, read, rows, answered, lost>>,
         \A s \in Servers : Pending(s) \subseteq Pending(s)'
  PROVE  SaveInv'
<1>1. Locks' BY DEF SaveInv, Locks, Appending, Contents, List
<1>2. HalfSaved' BY DEF SaveInv, HalfSaved, Contents
<1>3. AnsweredAreSaved' BY DEF SaveInv, AnsweredAreSaved, Saved, Contents
<1> QED BY <1>1, <1>2, <1>3 DEF SaveInv

\* A task that is sent comes after those that are in the channel.
LEMMA SendKeeps ==
  ASSUME Workers, NEW h \in Handlers, NEW isAdd \in BOOLEAN, Send(h, isAdd), Home(h) \in Servers,
         UNCHANGED <<work, step>>
  PROVE  /\ tasks' \in [Servers -> Seq(Task)] /\ req' \in [Handlers -> Notes] /\ DOMAIN pc' = Handlers
         /\ \A s \in Servers : Pending(s) \subseteq Pending(s)'
         /\ isAdd => \E s \in Servers : req[h] \in Pending(s)'
<1> PICK s \in Servers : s = Home(h) OBVIOUS
<1> DEFINE t == [isAdd |-> isAdd, n |-> req[h]]
<1>1. t \in Task /\ tasks[s] \in Seq(Task) BY DEF Workers, Task
<1>2. tasks' = [tasks EXCEPT ![s] = Append(tasks[s], t)] BY DEF Send
<1>3. tasks'[s] = Append(tasks[s], t) /\ \A r \in Servers \ {s} : tasks'[r] = tasks[r] BY <1>2 DEF Workers
<1> HIDE DEF t
<1>4. Append(tasks[s], t) \in Seq(Task) BY <1>1
<1>5. /\ DOMAIN tasks'[s] = 1..(Len(tasks[s]) + 1) /\ DOMAIN tasks[s] = 1..Len(tasks[s]) /\ Len(tasks[s]) \in Nat
      /\ tasks'[s][Len(tasks[s]) + 1] = t /\ \A i \in DOMAIN tasks[s] : tasks'[s][i] = tasks[s][i]
  BY <1>1, <1>3
<1>6. tasks' \in [Servers -> Seq(Task)] BY <1>2, <1>4 DEF Workers
<1>7. ASSUME NEW r \in Servers, NEW n \in Pending(r) PROVE n \in Pending(r)'
  <2>1. \/ \E i \in DOMAIN tasks[r] : tasks[r][i].isAdd /\ tasks[r][i].n = n
        \/ Appending(r) /\ work[r].n = n
    BY <1>7, PendingIs
  <2>2. \/ \E i \in DOMAIN tasks'[r] : tasks'[r][i].isAdd /\ tasks'[r][i].n = n
        \/ Appending(r) /\ work[r].n = n
    BY <1>3, <1>5, <2>1
  <2> QED BY <2>2 DEF Pending, Appending
<1>8. ASSUME isAdd PROVE req[h] \in Pending(s)'
  <2>1. Len(tasks[s]) + 1 \in DOMAIN tasks'[s] BY <1>5
  <2>2. tasks'[s][Len(tasks[s]) + 1].isAdd /\ tasks'[s][Len(tasks[s]) + 1].n = req[h] BY <1>5, <1>8 DEF t
  <2> QED BY <2>1, <2>2 DEF Pending
<1>9. req' \in [Handlers -> Notes] /\ DOMAIN pc' = Handlers
  BY NoTaskIsTask DEF Send, Return, Goto, Workers
<1> QED BY <1>6, <1>7, <1>8, <1>9

LEMMA HomesAreServers == ASSUME scene \in DOMAIN Scenes, NEW h \in Handlers PROVE Home(h) \in Servers
  BY ScenesAreScenes DEF Home

\* Handlers: they change what they ask for, and the channels they send to.
LEMMA HandlerSave ==
  ASSUME SaveInv, scene \in DOMAIN Scenes, NEW h \in Handlers, AddNote(h) \/ DeleteNote(h)
  PROVE  SaveInv'
<1> USE DEF redis, worker, history
<1>1. ASSUME UNCHANGED <<tasks, work, step, read, rows, answered, lost>>,
             req' \in [Handlers -> Notes], DOMAIN pc' = Handlers
      PROVE  SaveInv'
  <2>1. Workers' BY <1>1 DEF SaveInv, Workers
  <2>2. \A s \in Servers : Pending(s)' = Pending(s) BY <1>1 DEF Pending
  <2> QED BY <1>1, <2>1, <2>2, QuietSave
<1>2. CASE Add(h) BY <1>1, <1>2 DEF Add, SaveInv, Workers, Goto
<1>3. CASE PutMine(h) \/ PutOf(h) BY <1>1, <1>3 DEF PutMine, PutOf, SaveInv, Workers, Goto
<1>4. CASE PutFails(h) BY <1>1, <1>4, NoTaskIsTask DEF PutFails, SaveInv, Workers, Return, Goto
<1>5. CASE SendAdd(h)
  <2>1. /\ tasks' \in [Servers -> Seq(Task)] /\ req' \in [Handlers -> Notes] /\ DOMAIN pc' = Handlers
        /\ \A s \in Servers : Pending(s) \subseteq Pending(s)'
        /\ \E s \in Servers : req[h] \in Pending(s)'
    BY <1>5, HomesAreServers, SendKeeps DEF SendAdd, SaveInv
  <2>2. UNCHANGED <<work, step, read, rows, lost>> /\ answered' = answered \union {req[h]} BY <1>5 DEF SendAdd
  <2>3. Workers' BY <2>1, <2>2 DEF SaveInv, Workers
  <2>4. Locks' BY <2>2 DEF SaveInv, Locks, Appending, Contents, List
  <2>5. HalfSaved' BY <2>2 DEF SaveInv, HalfSaved, Contents
  <2>6. AnsweredAreSaved'
    <3> SUFFICES ASSUME NEW n \in answered' \ lost'
                 PROVE  Saved(n)' \/ \E s \in Servers : n \in Pending(s)'
      BY DEF AnsweredAreSaved
    <3>1. CASE n = req[h] BY <2>1, <3>1
    <3>2. CASE n # req[h]
      <4>1. Saved(n) \/ \E s \in Servers : n \in Pending(s) BY <2>2, <3>2 DEF SaveInv, AnsweredAreSaved
      <4> QED BY <2>1, <2>2, <4>1 DEF Saved, Contents
    <3> QED BY <3>1, <3>2
  <2> QED BY <2>3, <2>4, <2>5, <2>6 DEF SaveInv
<1>6. CASE Delete(h) BY <1>1, <1>6 DEF Delete, SaveInv, Workers, Goto
<1>7. CASE DropMine(h) \/ DropOf(h) BY <1>1, <1>7 DEF DropMine, DropOf, SaveInv, Workers, Goto
<1>8. CASE Renumber(h) BY <1>1, <1>8 DEF Renumber, SaveInv, Workers, Goto
<1>9. CASE SendDelete(h)
  <2>1. /\ tasks' \in [Servers -> Seq(Task)] /\ req' \in [Handlers -> Notes] /\ DOMAIN pc' = Handlers
        /\ \A s \in Servers : Pending(s) \subseteq Pending(s)'
    BY <1>9, HomesAreServers, SendKeeps DEF SendDelete, SaveInv
  <2> QED BY <1>9, <2>1, QuietSave DEF SendDelete, SaveInv, Workers
<1> QED BY <1>2, <1>3, <1>4, <1>5, <1>6, <1>7, <1>8, <1>9 DEF AddNote, DeleteNote

\* The worker of s has done with its task, or goes on with another.
LEMMA WorkerSave ==
  ASSUME SaveInv, NEW s \in Servers, Workers', UNCHANGED answered, lost \subseteq lost',
         \A t \in Servers \ {s} : /\ work'[t] = work[t] /\ step'[t] = step[t] /\ read'[t] = read[t]
                                  /\ tasks'[t] = tasks[t],
         read'[s] # None => Appending(s)' /\ read'[s] = Contents(List(s))',
         \A l \in Lists : Contents(l) \subseteq Contents(l)',
         \A l \in Lists : rows'[l] # rows[l] => \A t \in Servers \ {s} : read[t] = None \/ List(t) # l,
         \A t \in Servers \ {s} : read'[s] # None /\ read[t] # None /\ List(t) = List(s)' => rows'[List(t)] = None,
         (step[s] = "of" => work[s].n \in Contents(mine[work[s].n]))',
         \A n \in Pending(s) : n \in Pending(s)' \/ n \in lost' \/ Saved(n)'
  PROVE  SaveInv'
<1>1. \A t \in Servers : List(t) \in Lists
  BY ListsOfNotes DEF SaveInv, Workers, Task, List
<1>2. \A t \in Servers \ {s} : List(t)' = List(t) /\ Appending(t)' = Appending(t) BY DEF List, Appending
<1>3. Locks'
  <2>1. ASSUME NEW t \in Servers \ {s}, read'[t] # None
        PROVE  /\ Appending(t)' /\ read'[t] = Contents(List(t))' /\ rows'[List(t)] = rows[List(t)]
    <3>1. read[t] # None /\ Appending(t) /\ read[t] = Contents(List(t)) BY <2>1 DEF SaveInv, Locks
    <3>2. rows'[List(t)] = rows[List(t)] BY <1>1, <3>1
    <3> QED BY <1>2, <2>1, <3>1, <3>2 DEF Contents
  <2>2. \A t \in Servers : read'[t] # None => Appending(t)' /\ read'[t] = Contents(List(t))' BY <2>1
  <2>3. ASSUME NEW t \in Servers, NEW u \in Servers, read'[t] # None, read'[u] # None, t # u, List(t)' = List(u)'
        PROVE  rows'[List(t)'] = None
    <3>1. CASE t # s /\ u # s
      <4>1. read[t] # None /\ read[u] # None /\ List(t) = List(u) BY <1>2, <2>3, <3>1
      <4>2. rows[List(t)] = None BY <2>3, <4>1 DEF SaveInv, Locks
      <4> QED BY <1>2, <2>1, <2>3, <3>1, <4>2
    <3>2. CASE t = s BY <1>2, <2>3, <3>2
    <3>3. CASE u = s BY <1>2, <2>3, <3>3
    <3> QED BY <3>1, <3>2, <3>3
  <2>4. \A t, u \in Servers :
          read'[t] # None /\ read'[u] # None /\ t # u /\ List(t)' = List(u)' => rows'[List(t)'] = None
    BY <2>3
  <2> QED BY <2>2, <2>4 DEF Locks
<1>4. \A n \in Notes : mine[n] \in Lists /\ of[n] \in Lists BY ListsOfNotes
<1>5. HalfSaved'
  <2>1. ASSUME NEW t \in Servers \ {s}, step[t] = "of" PROVE work[t].n \in Contents(mine[work[t].n])'
    <3>1. work[t].n \in Contents(mine[work[t].n]) /\ work[t].n \in Notes
      BY <2>1 DEF SaveInv, HalfSaved, Workers, Task
    <3> QED BY <1>4, <3>1
  <2> QED BY <2>1 DEF HalfSaved, Contents
<1>6. AnsweredAreSaved'
  <2> SUFFICES ASSUME NEW n \in answered \ lost'
               PROVE  Saved(n)' \/ \E t \in Servers : n \in Pending(t)'
    BY DEF AnsweredAreSaved
  <2>1. Saved(n) \/ \E t \in Servers : n \in Pending(t) BY DEF SaveInv, AnsweredAreSaved
  <2>2. CASE Saved(n)
    <3>1. \A l : n \in Contents(l) /\ l \in Lists => n \in Contents(l)' OBVIOUS
    <3>2. n \in Notes => Saved(n)' BY <1>4, <2>2, <3>1 DEF Saved, Contents
    <3>3. CASE mine[n] \in Lists /\ of[n] \in Lists BY <2>2, <3>1, <3>3 DEF Saved, Contents
    <3>4. n \in Notes
      <4>1. n \in Contents(mine[n]) BY <2>2 DEF Saved
      <4> QED BY <4>1 DEF Contents, SaveInv, Workers
    <3> QED BY <3>2, <3>4
  <2>3. ASSUME NEW t \in Servers, n \in Pending(t) PROVE Saved(n)' \/ n \in Pending(t)'
    <3>1. CASE t = s BY <2>3, <3>1
    <3>2. CASE t # s
      <4>1. Pending(t)' = Pending(t) BY <3>2 DEF Pending
      <4> QED BY <2>3, <4>1
    <3> QED BY <3>1, <3>2
  <2> QED BY <2>1, <2>2, <2>3
<1> QED BY <1>3, <1>5, <1>6 DEF SaveInv

\* A worker takes the first of its tasks.
LEMMA TakeSave == ASSUME SaveInv, NEW s \in Servers, Take(s) PROVE SaveInv'
<1> DEFINE t == Head(tasks[s])
<1>1. tasks[s] \in Seq(Task) /\ tasks[s] # <<>> BY DEF SaveInv, Workers, Take
<1>2. t \in Task /\ Tail(tasks[s]) \in Seq(Task) /\ t = tasks[s][1] /\ Len(tasks[s]) \in Nat /\ DOMAIN tasks[s] = 1..Len(tasks[s])
  BY <1>1
<1>3. /\ DOMAIN Tail(tasks[s]) = 1..(Len(tasks[s]) - 1)
      /\ \A i \in 1..(Len(tasks[s]) - 1) : Tail(tasks[s])[i] = tasks[s][i + 1]
  BY <1>1
<1> HIDE DEF t
<1>4. /\ step[s] = "take" /\ UNCHANGED <<read, rows, answered, lost, req, pc>>
      /\ work' = [work EXCEPT ![s] = t] /\ tasks' = [tasks EXCEPT ![s] = Tail(tasks[s])]
      /\ step' = [step EXCEPT ![s] = IF t.isAdd THEN "mine" ELSE "erase"]
  BY DEF Take, handler, history, t
<1>5. /\ work'[s] = t /\ tasks'[s] = Tail(tasks[s]) /\ step'[s] = IF t.isAdd THEN "mine" ELSE "erase"
      /\ \A r \in Servers \ {s} : work'[r] = work[r] /\ tasks'[r] = tasks[r] /\ step'[r] = step[r]
  BY <1>4 DEF SaveInv, Workers
<1>6. Workers'
  <2>1. tasks' \in [Servers -> Seq(Task)] BY <1>2, <1>4 DEF SaveInv, Workers
  <2>2. work' \in [Servers -> Task] BY <1>2, <1>4 DEF SaveInv, Workers
  <2>3. step' \in [Servers -> {"take", "mine", "of", "erase"}] BY <1>4 DEF SaveInv, Workers
  <2> QED BY <1>4, <2>1, <2>2, <2>3 DEF SaveInv, Workers
<1>7. read[s] = None /\ read'[s] = None BY <1>4 DEF SaveInv, Locks, Appending
<1>8. ASSUME NEW n \in Pending(s) PROVE n \in Pending(s)'
  <2>1. PICK i \in DOMAIN tasks[s] : tasks[s][i].isAdd /\ tasks[s][i].n = n
    BY <1>4, PendingIs DEF Appending
  <2>2. CASE i = 1
    <3>1. t.isAdd /\ t.n = n BY <1>2, <2>1, <2>2
    <3> QED BY <1>5, <3>1 DEF Pending
  <2>3. CASE i # 1
    <3>1. i - 1 \in 1..(Len(tasks[s]) - 1) /\ (i - 1) + 1 = i BY <1>2, <2>1, <2>3
    <3>2. tasks'[s][i - 1] = tasks[s][i] BY <1>3, <1>5, <3>1
    <3>3. i - 1 \in DOMAIN tasks'[s] BY <1>3, <1>5, <3>1
    <3> QED BY <2>1, <3>2, <3>3 DEF Pending
  <2> QED BY <2>2, <2>3
<1>9. \A l : Contents(l)' = Contents(l) BY <1>4 DEF Contents
<1>10. (step[s] = "of" => work[s].n \in Contents(mine[work[s].n]))' BY <1>5
<1> QED BY <1>4, <1>5, <1>6, <1>7, <1>8, <1>9, <1>10, WorkerSave

\* It reads the row of its list, which no other transaction holds unless there is none.
LEMMA SelectSave == ASSUME SaveInv, NEW s \in Servers, Select(s) PROVE SaveInv'
<1>1. /\ Appending(s) /\ ~Locked(s, List(s)) /\ read' = [read EXCEPT ![s] = Contents(List(s))]
      /\ UNCHANGED <<tasks, work, step, rows, answered, lost, req, pc>>
  BY DEF Select, Appending, handler, history
<1>2. List(s) \in Lists BY ListsOfNotes DEF SaveInv, Workers, Task, List
<1>3. Contents(List(s)) \in SUBSET Notes /\ {} # None BY <1>2, NoneIsNone DEF SaveInv, Workers, Contents
<1>4. Workers' BY <1>1, <1>3 DEF SaveInv, Workers
<1>5. read'[s] = Contents(List(s)) /\ \A r \in Servers \ {s} : read'[r] = read[r] BY <1>1 DEF SaveInv, Workers
<1>6. Pending(s)' = Pending(s) /\ List(s)' = List(s) /\ Appending(s)' BY <1>1 DEF Pending, List, Appending
<1>7. \A l : Contents(l)' = Contents(l) BY <1>1 DEF Contents
<1>8. (step[s] = "of" => work[s].n \in Contents(mine[work[s].n]))'
  BY <1>1 DEF SaveInv, HalfSaved, Contents
<1>9. \A t \in Servers \ {s} : read'[s] # None /\ read[t] # None /\ List(t) = List(s)' => rows'[List(t)] = None
  BY <1>1, <1>6 DEF Locked, Holds
<1> QED BY <1>1, <1>4, <1>5, <1>6, <1>7, <1>8, <1>9, WorkerSave

\* It writes the row it has read, with its note.
LEMMA StoreSave == ASSUME SaveInv, NEW s \in Servers, Store(s) PROVE SaveInv'
<1> PICK l : l = List(s) OBVIOUS
<1> PICK n : n = work[s].n OBVIOUS
<1>1. /\ read[s] # None /\ (rows[l] = None => ~Gapped(s, l))
      /\ rows' = [rows EXCEPT ![l] = read[s] \union {n}] /\ read' = [read EXCEPT ![s] = None]
      /\ UNCHANGED <<tasks, answered, lost, req, pc>>
      /\ \/ step[s] = "mine" /\ step' = [step EXCEPT ![s] = "of"] /\ UNCHANGED work
         \/ step[s] # "mine" /\ step' = [step EXCEPT ![s] = "take"] /\ work' = [work EXCEPT ![s] = NoTask]
  BY DEF Store, Another, handler, history
<1>2. /\ n \in Notes /\ l \in Lists /\ Appending(s) /\ read[s] = Contents(l) /\ Contents(l) \in SUBSET Notes
      /\ mine[n] \in Lists /\ of[n] \in Lists
  <2>1. n \in Notes BY DEF SaveInv, Workers, Task
  <2>2. l \in Lists BY <2>1, ListsOfNotes DEF List
  <2> QED BY <1>1, <2>1, <2>2, ListsOfNotes DEF SaveInv, Locks, Workers, Contents
<1>3. l = IF step[s] = "mine" THEN mine[n] ELSE of[n] BY DEF List
<1>4. /\ rows'[l] = Contents(l) \union {n} /\ rows'[l] # None /\ \A k \in Lists \ {l} : rows'[k] = rows[k]
      /\ rows' \in [Lists -> (SUBSET Notes) \union {None}]
  <2>1. Contents(l) \union {n} \in SUBSET Notes BY <1>2
  <2> QED BY <1>1, <1>2, <2>1, NoneIsNone DEF SaveInv, Workers
<1>5. /\ \A k \in Lists : Contents(k) \subseteq Contents(k)'
      /\ n \in Contents(l)'
  BY <1>4 DEF Contents
<1>6. read'[s] = None /\ \A r \in Servers \ {s} : read'[r] = read[r] /\ step'[r] = step[r] /\ work'[r] = work[r]
  BY <1>1 DEF SaveInv, Workers
<1>7. Workers'
  <2>1. work' \in [Servers -> Task] BY <1>1, NoTaskIsTask DEF SaveInv, Workers
  <2>2. step' \in [Servers -> {"take", "mine", "of", "erase"}] BY <1>1 DEF SaveInv, Workers
  <2> QED BY <1>1, <1>4, <2>1, <2>2 DEF SaveInv, Workers
\* No other transaction has read the row: of two that have, neither found one.
<1>8. ASSUME NEW k \in Lists, rows'[k] # rows[k], NEW t \in Servers \ {s}, read[t] # None, List(t) = k PROVE FALSE
  <2>1. k = l BY <1>4, <1>8
  <2>2. rows[l] = None BY <1>1, <1>8, <2>1 DEF SaveInv, Locks
  <2>3. Gapped(s, l) BY <1>8, <2>1 DEF Gapped, Holds
  <2> QED BY <1>1, <2>2, <2>3
<1>9. /\ UNCHANGED answered /\ lost \subseteq lost' /\ read'[s] = None
      /\ \A t \in Servers \ {s} : /\ work'[t] = work[t] /\ step'[t] = step[t] /\ read'[t] = read[t]
                                  /\ tasks'[t] = tasks[t]
      /\ \A k \in Lists : rows'[k] # rows[k] => \A t \in Servers \ {s} : read[t] = None \/ List(t) # k
  BY <1>1, <1>6, <1>8
<1>10. CASE step[s] = "mine"
  <2>1. work'[s] = work[s] /\ step'[s] = "of" /\ l = mine[n] BY <1>1, <1>3, <1>10 DEF SaveInv, Workers
  <2>2. (step[s] = "of" => work[s].n \in Contents(mine[work[s].n]))' BY <1>5, <2>1 DEF Contents
  <2>3. \A m \in Pending(s) : m \in Pending(s)' BY <1>1, <2>1 DEF Pending
  <2> QED BY <1>5, <1>7, <1>9, <2>2, <2>3, WorkerSave
<1>11. CASE step[s] # "mine"
  <2>1. step[s] = "of" /\ step'[s] = "take" BY <1>1, <1>2, <1>11 DEF SaveInv, Workers, Appending
  <2>2. l = of[n] /\ n \in Contents(mine[n]) BY <1>3, <2>1 DEF SaveInv, HalfSaved
  <2>3. Saved(n)' BY <1>2, <1>5, <2>2 DEF Saved, Contents
  <2>4. ASSUME NEW m \in Pending(s) PROVE m \in Pending(s)' \/ Saved(m)'
    <3>1. CASE m = n BY <2>3, <3>1
    <3>2. CASE m # n BY <1>1, <2>4, <3>2 DEF Pending
    <3> QED BY <3>1, <3>2
  <2>5. (step[s] = "of" => work[s].n \in Contents(mine[work[s].n]))' BY <2>1
  <2> QED BY <1>5, <1>7, <1>9, <2>4, <2>5, WorkerSave
<1> QED BY <1>10, <1>11

\* It leaves its task for another: the note it would have appended is lost.
LEMMA AnotherSave ==
  ASSUME SaveInv, NEW s \in Servers, Another(s), UNCHANGED <<tasks, rows, answered, req, pc>>, lost \subseteq lost',
         read' = [read EXCEPT ![s] = None] \/ (UNCHANGED read /\ ~Appending(s)),
         Appending(s) => work[s].n \in lost'
  PROVE  SaveInv'
<1>1. step' = [step EXCEPT ![s] = "take"] /\ work' = [work EXCEPT ![s] = NoTask] BY DEF Another
<1>2. Workers'
  <2>1. work' \in [Servers -> Task] BY <1>1, NoTaskIsTask DEF SaveInv, Workers
  <2>2. step' \in [Servers -> {"take", "mine", "of", "erase"}] BY <1>1 DEF SaveInv, Workers
  <2>3. read' \in [Servers -> (SUBSET Notes) \union {None}] BY DEF SaveInv, Workers
  <2> QED BY <2>1, <2>2, <2>3 DEF SaveInv, Workers
<1>3. /\ step'[s] = "take" /\ read'[s] = None
      /\ \A r \in Servers \ {s} : read'[r] = read[r] /\ step'[r] = step[r] /\ work'[r] = work[r]
  BY <1>1 DEF SaveInv, Workers, Locks
<1>4. \A l : Contents(l)' = Contents(l) BY DEF Contents
<1>5. \A n \in Pending(s) : n \in Pending(s)' \/ n \in lost' BY DEF Pending, Appending
<1>6. (step[s] = "of" => work[s].n \in Contents(mine[work[s].n]))' BY <1>3
<1> QED BY <1>2, <1>3, <1>4, <1>5, <1>6, WorkerSave

\* A server that stops loses what its channel and its worker hold.
LEMMA RestartSave == ASSUME SaveInv, NEW s \in Servers, Restart(s) PROVE SaveInv'
<1>1. /\ tasks' = [tasks EXCEPT ![s] = <<>>] /\ Another(s) /\ read' = [read EXCEPT ![s] = None]
      /\ lost \subseteq lost' /\ Pending(s) \subseteq lost' /\ UNCHANGED <<rows, answered>>
  BY DEF Restart
<1>2. step' = [step EXCEPT ![s] = "take"] /\ work' = [work EXCEPT ![s] = NoTask] BY <1>1 DEF Another
<1>3. Workers'
  <2>1. work' \in [Servers -> Task] BY <1>2, NoTaskIsTask DEF SaveInv, Workers
  <2>2. step' \in [Servers -> {"take", "mine", "of", "erase"}] BY <1>2 DEF SaveInv, Workers
  <2>3. read' \in [Servers -> (SUBSET Notes) \union {None}] BY <1>1 DEF SaveInv, Workers
  <2>4. tasks' \in [Servers -> Seq(Task)]
    <3>1. <<>> \in Seq(Task) OBVIOUS
    <3> QED BY <1>1, <3>1 DEF SaveInv, Workers
  <2>5. req' \in [Handlers -> Notes] /\ DOMAIN pc' = Handlers BY NoTaskIsTask DEF Restart, SaveInv, Workers
  <2> QED BY <1>1, <2>1, <2>2, <2>3, <2>4, <2>5 DEF SaveInv, Workers
<1>4. /\ step'[s] = "take" /\ read'[s] = None
      /\ \A r \in Servers \ {s} : /\ read'[r] = read[r] /\ step'[r] = step[r] /\ work'[r] = work[r]
                                  /\ tasks'[r] = tasks[r]
  BY <1>1, <1>2 DEF SaveInv, Workers
<1>5. \A l : Contents(l)' = Contents(l) BY <1>1 DEF Contents
<1>6. (step[s] = "of" => work[s].n \in Contents(mine[work[s].n]))' BY <1>4
<1> QED BY <1>1, <1>3, <1>4, <1>5, <1>6, WorkerSave

LEMMA SaveSteps == ASSUME SaveInv, scene \in DOMAIN Scenes, [Next]_vars PROVE SaveInv'
<1>1. ASSUME NEW h \in Handlers, AddNote(h) \/ DeleteNote(h) PROVE SaveInv' BY <1>1, HandlerSave
<1>2. ASSUME NEW s \in Servers, GiveUp(s) PROVE SaveInv'
  BY <1>2, AnotherSave DEF GiveUp, handler, Appending
<1>3. ASSUME NEW s \in Servers, Worker(s) \/ StatementFails(s) PROVE SaveInv'
  <2>1. CASE Take(s) BY <2>1, TakeSave
  <2>2. CASE Select(s) BY <2>2, SelectSave
  <2>3. CASE Store(s) BY <2>3, StoreSave
  <2>4. CASE Deadlock(s) \/ StatementFails(s) BY <1>2, <2>4 DEF Deadlock, StatementFails
  <2>5. CASE Erase(s)
    <3>1. /\ step[s] = "erase" /\ Another(s) /\ UNCHANGED <<tasks, rows, answered, req, pc, lost, read>>
      BY <2>5 DEF Erase, handler
    <3>2. ~Appending(s) BY <3>1 DEF Appending
    <3> QED BY <3>1, <3>2, AnotherSave
  <2> QED BY <1>3, <2>1, <2>2, <2>3, <2>4, <2>5 DEF Worker
<1>4. ASSUME NEW s \in Servers, EraseFails(s) PROVE SaveInv'
  <2>1. /\ step[s] = "erase" /\ Another(s) /\ UNCHANGED <<tasks, rows, answered, req, pc, lost, read>>
    BY <1>4 DEF EraseFails, handler, history
  <2>2. ~Appending(s) BY <2>1 DEF Appending
  <2> QED BY <2>1, <2>2, AnotherSave
<1>5. CASE UNCHANGED vars
  <2>1. UNCHANGED <<tasks, work, step, read, rows, answered, lost, req, pc>>
    BY <1>5 DEF vars, worker, handler, history
  <2>2. Workers' BY <2>1 DEF SaveInv, Workers
  <2>3. \A s : Pending(s)' = Pending(s) BY <2>1 DEF Pending
  <2> QED BY <2>1, <2>2, <2>3, QuietSave
<1> QED BY <1>1, <1>3, <1>4, <1>5, RestartSave DEF Next

\* The scene of a behaviour stays what it is.
LEMMA SceneStays == ASSUME [Next]_vars PROVE scene' = scene
  BY DEF Next, vars, AddNote, DeleteNote, Worker, Add, PutMine, PutOf, PutFails, SendAdd, Delete,
         DropMine, DropOf, Renumber, SendDelete, Take, Select, Store, Deadlock, Erase,
         StatementFails, EraseFails, GiveUp, Restart

(***************************************************************************)
(* A note that AddNote has answered is in both rows, in a channel, or in   *)
(* the hands of a worker, unless a failure lost it: appendNote's SELECT    *)
(* ... FOR UPDATE keeps every row a transaction has read as it was.        *)
(***************************************************************************)
THEOREM AnsweredGetSaved == Spec => []AnsweredAreSaved
<1>1. Init => SaveInv /\ scene \in DOMAIN Scenes BY SaveInit DEF Init
<1>2. SaveInv /\ scene \in DOMAIN Scenes /\ [Next]_vars => SaveInv' /\ (scene \in DOMAIN Scenes)'
  BY SaveSteps, SceneStays
<1>3. SaveInv => AnsweredAreSaved BY DEF SaveInv
<1> QED BY <1>1, <1>2, <1>3, PTL DEF Spec

(***************************************************************************)
(* Why the hashes agree: a field holds the note whose id it is; a note     *)
(* that shares its id with no other is written by its own handlers alone,  *)
(* and while nothing has torn it there is one handler at it, whose step    *)
(* says which of the two fields show it.                                   *)
(***************************************************************************)

Labels == {"idle", "putMine", "putOf", "sendAdd", "dropMine", "dropOf", "sendDelete", "sendTask"}

Fields ==
  /\ hash \in [Lists -> [Ids -> Notes \union {None}]] /\ id \in [Notes -> Ids \union {None}]
  /\ pc \in [Handlers -> Labels] /\ req \in [Handlers -> Notes] /\ cnt \in [Servers -> Ids]
  /\ \A l \in Lists, i \in Ids : hash[l][i] # None => id[hash[l][i]] = i

\* Redis counts, and gives each id once.
Numbers ==
  /\ counter \in Ids
  /\ \A n \in Notes \ offline : id[n] # None => id[n] \in 1..counter
  /\ \A n, o \in Notes \ offline : id[n] # None /\ n # o => id[n] # id[o]

At(h, n) == pc[h] # "idle" /\ req[h] = n

\* A note without an id has not been seen.
Known == \A n \in Notes : id[n] = None => n \notin answered \union deleted /\ \A h \in Handlers : ~At(h, n)

Own(n) == id[n] # None /\ \A o \in Notes \ {n} : id[o] # id[n]

\* What both fields show of a note at each step of its handler.
Midway(p, n) ==
  /\ Shown(mine[n], n) <=> p \in {"putOf", "sendAdd", "dropMine"}
  /\ Shown(of[n], n)   <=> p \in {"sendAdd", "dropMine", "dropOf"}
  /\ n \in deleted     <=> p \in {"dropMine", "dropOf", "sendDelete", "sendTask"}

Agree(n) ==
  /\ Shown(mine[n], n) <=> n \in answered \ deleted
  /\ Shown(of[n], n)   <=> n \in answered \ deleted

Settled(n) ==
  /\ \A g, h \in Handlers : At(g, n) /\ At(h, n) => g = h
  /\ \A h \in Handlers : At(h, n) => Midway(pc[h], n)
  /\ (\A h \in Handlers : ~At(h, n)) => Agree(n)

Settling == \A n \in Notes \ torn : Own(n) => Settled(n)

HashInv == Fields /\ Numbers /\ Known /\ Settling

LEMMA HashInit == Init => HashInv
<1> SUFFICES ASSUME Init PROVE HashInv OBVIOUS
<1>1. /\ hash = [l \in Lists |-> [i \in Ids |-> None]] /\ id = [n \in Notes |-> None] /\ counter = 0
      /\ cnt = [s \in Servers |-> 0] /\ pc = [h \in Handlers |-> "idle"] /\ req = [h \in Handlers |-> SomeNote]
      /\ answered = {} /\ deleted = {}
  BY DEF Init
<1>2. 0 \in Ids BY BoundsAreBounds DEF Ids
<1>3. [i \in Ids |-> None] \in [Ids -> Notes \union {None}] OBVIOUS
<1>4. hash \in [Lists -> [Ids -> Notes \union {None}]] BY <1>1, <1>3
<1>5. \A l \in Lists, i \in Ids : hash[l][i] = None BY <1>1
<1>6. Fields BY <1>1, <1>2, <1>4, <1>5, NoTaskIsTask DEF Fields, Labels
<1>7. Numbers /\ Known /\ Settling BY <1>1, <1>2 DEF Numbers, Known, Settling, At, Own
<1> QED BY <1>6, <1>7 DEF HashInv

\* The ids of the others, and what shows them, stay.
LEMMA Touching ==
  ASSUME HashInv, NEW h \in Handlers, NEW n \in Notes, id' \in [Notes -> Ids \union {None}], torn \subseteq torn',
         \A o \in Notes \ {n} : /\ id'[o] = id[o]
                                /\ o \in answered' <=> o \in answered
                                /\ o \in deleted' <=> o \in deleted,
         \A g \in Handlers \ {h} : pc'[g] = pc[g] /\ req'[g] = req[g],
         At(h, n) \/ pc[h] = "idle",
         At(h, n)' \/ pc'[h] = "idle",
         \A l \in Lists : \A i \in Ids : i # id'[n] => hash'[l][i] = hash[l][i],
         id[n] = None \/ id'[n] = id[n],
         n \notin torn' => (Own(n) => Settled(n))'
  PROVE  Settling'
<1> SUFFICES ASSUME NEW o \in Notes \ torn', Own(o)', o # n PROVE Settled(o)'
  BY DEF Settling
<1>1. id'[o] = id[o] /\ id[o] # None /\ id[o] \in Ids /\ id'[o] # id'[n] BY DEF Own, HashInv, Fields
<1>2. Own(o)
  <2>1. ASSUME NEW p \in Notes \ {o} PROVE id[p] # id[o]
    <3>1. id'[p] # id'[o] BY DEF Own
    <3>2. p = n \/ id'[p] = id[p] OBVIOUS
    <3> QED BY <1>1, <3>1, <3>2
  <2> QED BY <1>1, <2>1 DEF Own
<1>3. Settled(o) BY <1>2 DEF HashInv, Settling
<1>4. \A g \in Handlers : At(g, o)' <=> At(g, o) BY DEF At
<1>5. \A g \in Handlers : At(g, o) => pc'[g] = pc[g] BY DEF At
<1>6. mine[o] \in Lists /\ of[o] \in Lists BY ListsOfNotes
<1>7. /\ Shown(mine[o], o)' <=> Shown(mine[o], o)
      /\ Shown(of[o], o)' <=> Shown(of[o], o)
  BY <1>1, <1>6 DEF Shown
<1>8. Agree(o) => Agree(o)' BY <1>7 DEF Agree
<1>9. \A g \in Handlers : At(g, o)' => Midway(pc[g], o)'
  <2> SUFFICES ASSUME NEW g \in Handlers, At(g, o)' PROVE Midway(pc[g], o)' OBVIOUS
  <2>1. pc'[g] = pc[g] /\ At(g, o) BY <1>4, <1>5
  <2> QED BY <1>3, <1>7, <2>1 DEF Settled, Midway
<1>10. (\A g \in Handlers : ~At(g, o)') => Agree(o)' BY <1>3, <1>4, <1>8 DEF Settled
<1>11. \A f, g \in Handlers : At(f, o)' /\ At(g, o)' => f = g BY <1>3, <1>4 DEF Settled
<1> QED BY <1>9, <1>10, <1>11 DEF Settled

\* A field that is written holds the note, or nothing.
LEMMA Writing ==
  ASSUME Fields, NEW n \in Notes, id[n] \in Ids, NEW l \in Lists, NEW v \in {n, None},
         hash' = [hash EXCEPT ![l][id[n]] = v]
  PROVE  /\ hash' \in [Lists -> [Ids -> Notes \union {None}]]
         /\ \A k \in Lists, i \in Ids : hash'[k][i] # None => id[hash'[k][i]] = i
         /\ \A k \in Lists : \A i \in Ids : i # id[n] => hash'[k][i] = hash[k][i]
         /\ hash'[l][id[n]] = v
         /\ \A k \in Lists \ {l} : hash'[k] = hash[k]
<1>1. hash \in [Lists -> [Ids -> Notes \union {None}]] BY DEF Fields
<1>2. hash' = [hash EXCEPT ![l] = [hash[l] EXCEPT ![id[n]] = v]] BY <1>1
<1>3. [hash[l] EXCEPT ![id[n]] = v] \in [Ids -> Notes \union {None}] BY <1>1
<1>4. hash'[l] = [hash[l] EXCEPT ![id[n]] = v] /\ \A k \in Lists \ {l} : hash'[k] = hash[k] BY <1>1, <1>2
<1>5. \A i \in Ids : hash'[l][i] = IF i = id[n] THEN v ELSE hash[l][i] BY <1>1, <1>4
<1>6. hash' \in [Lists -> [Ids -> Notes \union {None}]] BY <1>1, <1>2, <1>3
<1>7. \A k \in Lists, i \in Ids : hash'[k][i] # None => id[hash'[k][i]] = i
  BY <1>4, <1>5, NoneIsNone DEF Fields
<1> QED BY <1>4, <1>5, <1>6, <1>7

LEMMA Handling ==
  ASSUME HashInv, NEW h \in Handlers, NEW n \in Notes, At(h, n), NEW p \in Labels, UNCHANGED <<id, deleted, offline>>,
         counter' \in Ids, counter' >= counter, cnt' \in [Servers -> Ids],
         pc' = [pc EXCEPT ![h] = p],
         req' = req \/ (p = "idle" /\ req' = [req EXCEPT ![h] = SomeNote]),
         UNCHANGED hash \/ \E l \in Lists, v \in {n, None} : hash' = [hash EXCEPT ![l][id[n]] = v],
         answered' = answered \/ answered' = answered \union {n},
         torn \subseteq torn',
         n \notin torn' /\ Midway(pc[h], n) => IF p = "idle" THEN Agree(n)' ELSE Midway(p, n)'
  PROVE  HashInv'
<1>1. id[n] # None /\ id[n] \in Ids BY DEF HashInv, Known, Fields
<1>2. /\ hash' \in [Lists -> [Ids -> Notes \union {None}]]
      /\ \A k \in Lists, i \in Ids : hash'[k][i] # None => id[hash'[k][i]] = i
      /\ \A k \in Lists : \A i \in Ids : i # id[n] => hash'[k][i] = hash[k][i]
  <2>1. CASE UNCHANGED hash BY <2>1 DEF HashInv, Fields
  <2>2. CASE \E l \in Lists, v \in {n, None} : hash' = [hash EXCEPT ![l][id[n]] = v]
    <3>1. PICK l \in Lists, v \in {n, None} : hash' = [hash EXCEPT ![l][id[n]] = v] BY <2>2
    <3> QED BY <1>1, <3>1, Writing DEF HashInv
  <2> QED BY <2>1, <2>2
<1>3. pc' \in [Handlers -> Labels] /\ req' \in [Handlers -> Notes] BY NoTaskIsTask DEF HashInv, Fields
<1>4. Fields' BY <1>2, <1>3 DEF HashInv, Fields
<1>5. Numbers' BY DEF HashInv, Numbers, Ids
<1>6. /\ pc'[h] = p /\ \A g \in Handlers \ {h} : pc'[g] = pc[g] /\ req'[g] = req[g]
      /\ At(h, n)' \/ pc'[h] = "idle"
  BY DEF HashInv, Fields, At
<1>7. \A g \in Handlers : \A o \in Notes : At(g, o)' => At(g, o) BY <1>6 DEF At
<1>8. Known' BY <1>1, <1>7 DEF HashInv, Known
<1>9. ASSUME n \notin torn', Own(n)' PROVE Settled(n)'
  <2>1. Own(n) /\ n \notin torn BY <1>9 DEF Own
  <2>2. Settled(n) BY <2>1 DEF HashInv, Settling
  <2>3. Midway(pc[h], n) /\ \A g \in Handlers : At(g, n) => g = h BY <2>2 DEF Settled
  <2>4. \A g \in Handlers : At(g, n)' => g = h /\ p # "idle" BY <1>6, <1>7, <2>3 DEF At
  <2>5. IF p = "idle" THEN Agree(n)' ELSE Midway(p, n)' BY <1>9, <2>3
  <2>6. CASE p = "idle" BY <2>4, <2>5, <2>6 DEF Settled
  <2>7. CASE p # "idle"
    <3>1. At(h, n)' BY <1>6, <2>7
    <3>2. Midway(pc[h], n)' BY <1>6, <2>5, <2>7 DEF Midway
    <3>3. \A g \in Handlers : At(g, n)' => Midway(pc[g], n)'
      <4> SUFFICES ASSUME NEW g \in Handlers, At(g, n)' PROVE Midway(pc[g], n)' OBVIOUS
      <4>1. g = h BY <2>4
      <4> QED BY <3>2, <4>1
    <3> QED BY <2>4, <3>1, <3>3 DEF Settled
  <2> QED BY <2>6, <2>7
<1>10. \A o \in Notes \ {n} : o \in answered' <=> o \in answered OBVIOUS
<1>11. Settling'
  BY <1>2, <1>4, <1>6, <1>9, <1>10, Touching DEF HashInv, Fields
<1> QED BY <1>4, <1>5, <1>8, <1>11 DEF HashInv

LEMMA Assigning ==
  ASSUME HashInv, NEW h \in Handlers, AssignFromRedis \/ AssignFromServer(Home(h)), Home(h) \in Servers
  PROVE  counter' \in Ids /\ counter' >= counter /\ cnt' \in [Servers -> Ids]
<1>1. counter \in 0..MaxId /\ MaxId \in Nat /\ cnt \in [Servers -> 0..MaxId]
  BY BoundsAreBounds DEF HashInv, Numbers, Fields, Ids
<1>2. CASE AssignFromRedis BY <1>1, <1>2 DEF AssignFromRedis, Ids
<1>3. CASE AssignFromServer(Home(h))
  <2>1. cnt[Home(h)] + 1 \in 0..MaxId BY <1>1, <1>3 DEF AssignFromServer
  <2> QED BY <1>1, <1>3, <2>1 DEF AssignFromServer, Ids
<1> QED BY <1>2, <1>3

\* A step of a handler that is at its note.
LEMMA HandlerHash ==
  ASSUME HashInv, scene \in DOMAIN Scenes, NEW h \in Handlers, pc[h] # "idle", AddNote(h) \/ DeleteNote(h)
  PROVE  HashInv'
<1> USE DEF redis, worker, history
<1> PICK n \in Notes : n = req[h] BY DEF HashInv, Fields
<1>1. /\ At(h, n) /\ n # None /\ id[n] \in Ids /\ mine[n] \in Lists /\ of[n] \in Lists /\ mine[n] # of[n]
      /\ counter \in Ids /\ cnt \in [Servers -> Ids] /\ counter >= counter
  <2>1. At(h, n) BY DEF At
  <2>2. id[n] # None BY <2>1 DEF HashInv, Known
  <2> QED BY <2>1, <2>2, ListsOfNotes, NoneIsNone, BoundsAreBounds DEF HashInv, Fields, Numbers, Ids
<1>2. CASE PutMine(h)
  <2>1. /\ pc[h] = "putMine" /\ hash' = [hash EXCEPT ![mine[n]][id[n]] = n] /\ pc' = [pc EXCEPT ![h] = "putOf"]
        /\ UNCHANGED <<id, deleted, offline, counter, cnt, req, answered, torn>>
    BY <1>2 DEF PutMine, Put, Goto
  <2>2. hash'[mine[n]][id[n]] = n /\ hash'[of[n]][id[n]] = hash[of[n]][id[n]]
    BY <1>1, <2>1, Writing DEF HashInv
  <2>3. Midway(pc[h], n) => Midway("putOf", n)' BY <2>1, <2>2 DEF Midway, Shown
  <2> QED BY <1>1, <2>1, <2>3, Handling DEF Labels
<1>3. CASE PutOf(h)
  <2>1. /\ pc[h] = "putOf" /\ hash' = [hash EXCEPT ![of[n]][id[n]] = n] /\ pc' = [pc EXCEPT ![h] = "sendAdd"]
        /\ UNCHANGED <<id, deleted, offline, counter, cnt, req, answered, torn>>
    BY <1>3 DEF PutOf, Put, Goto
  <2>2. hash'[of[n]][id[n]] = n /\ hash'[mine[n]][id[n]] = hash[mine[n]][id[n]]
    BY <1>1, <2>1, Writing DEF HashInv
  <2>3. Midway(pc[h], n) => Midway("sendAdd", n)' BY <2>1, <2>2 DEF Midway, Shown
  <2> QED BY <1>1, <2>1, <2>3, Handling DEF Labels
<1>4. CASE PutFails(h)
  <2>1. /\ pc' = [pc EXCEPT ![h] = "idle"] /\ req' = [req EXCEPT ![h] = SomeNote] /\ n \in torn' /\ torn \subseteq torn'
        /\ UNCHANGED <<id, deleted, offline, counter, cnt, answered>>
    BY <1>4 DEF PutFails, Return, Goto
  <2>2. UNCHANGED hash \/ \E l \in Lists : hash' = [hash EXCEPT ![l][id[n]] = n] BY <1>1, <1>4 DEF PutFails, Put
  <2> QED BY <1>1, <2>1, <2>2, Handling DEF Labels
<1>5. CASE SendAdd(h)
  <2>1. /\ pc[h] = "sendAdd" /\ pc' = [pc EXCEPT ![h] = "idle"] /\ req' = [req EXCEPT ![h] = SomeNote]
        /\ answered' = answered \union {n} /\ UNCHANGED <<hash, id, deleted, offline, counter, cnt, torn>>
    BY <1>5 DEF SendAdd, Send, Return, Goto
  <2>2. Midway(pc[h], n) => Agree(n)' BY <2>1 DEF Midway, Agree, Shown
  <2> QED BY <1>1, <2>1, <2>2, Handling DEF Labels
<1>6. CASE DropMine(h)
  <2>1. /\ pc[h] = "dropMine" /\ pc' = [pc EXCEPT ![h] = "dropOf"]
        /\ UNCHANGED <<id, deleted, offline, counter, cnt, req, answered>>
    BY <1>6 DEF DropMine, Goto
  <2>2. CASE hash' = [hash EXCEPT ![mine[n]][id[n]] = None] /\ UNCHANGED torn
    <3>1. hash'[mine[n]][id[n]] = None /\ hash'[of[n]][id[n]] = hash[of[n]][id[n]]
      BY <1>1, <2>2, Writing DEF HashInv
    <3>2. Midway(pc[h], n) => Midway("dropOf", n)' BY <1>1, <2>1, <3>1 DEF Midway, Shown
    <3> QED BY <1>1, <2>1, <2>2, <3>2, Handling DEF Labels
  <2>3. CASE UNCHANGED hash /\ torn' = torn \union {n} BY <1>1, <2>1, <2>3, Handling DEF Labels
  <2> QED BY <1>6, <2>2, <2>3 DEF DropMine, Drop, DropFails
<1>7. CASE DropOf(h)
  <2>1. /\ pc[h] = "dropOf" /\ pc' = [pc EXCEPT ![h] = "sendDelete"]
        /\ UNCHANGED <<id, deleted, offline, counter, cnt, req, answered>>
    BY <1>7 DEF DropOf, Goto
  <2>2. CASE hash' = [hash EXCEPT ![of[n]][id[n]] = None] /\ UNCHANGED torn
    <3>1. hash'[of[n]][id[n]] = None /\ hash'[mine[n]][id[n]] = hash[mine[n]][id[n]]
      BY <1>1, <2>2, Writing DEF HashInv
    <3>2. Midway(pc[h], n) => Midway("sendDelete", n)' BY <1>1, <2>1, <3>1 DEF Midway, Shown
    <3> QED BY <1>1, <2>1, <2>2, <3>2, Handling DEF Labels
  <2>3. CASE UNCHANGED hash /\ torn' = torn \union {n} BY <1>1, <2>1, <2>3, Handling DEF Labels
  <2> QED BY <1>7, <2>2, <2>3 DEF DropOf, Drop, DropFails
<1>8. CASE Renumber(h)
  <2>1. /\ pc[h] = "sendDelete" /\ pc' = [pc EXCEPT ![h] = "sendTask"]
        /\ UNCHANGED <<hash, id, deleted, offline, req, answered, torn>>
    BY <1>8 DEF Renumber, Goto
  <2>2. counter' \in Ids /\ counter' >= counter /\ cnt' \in [Servers -> Ids]
    BY <1>1, <1>8, Assigning, HomesAreServers DEF Renumber
  <2>3. Midway(pc[h], n) => Midway("sendTask", n)' BY <2>1 DEF Midway, Shown
  <2> QED BY <1>1, <2>1, <2>2, <2>3, Handling DEF Labels
<1>9. CASE SendDelete(h)
  <2>1. /\ pc[h] = "sendTask" /\ pc' = [pc EXCEPT ![h] = "idle"] /\ req' = [req EXCEPT ![h] = SomeNote]
        /\ UNCHANGED <<answered, hash, id, deleted, offline, counter, cnt, torn>>
    BY <1>9 DEF SendDelete, Send, Return, Goto
  <2>2. Midway(pc[h], n) => Agree(n)' BY <2>1 DEF Midway, Agree, Shown
  <2> QED BY <1>1, <2>1, <2>2, Handling DEF Labels
<1> QED BY <1>2, <1>3, <1>4, <1>5, <1>6, <1>7, <1>8, <1>9 DEF AddNote, DeleteNote, Add, Delete

\* A note is added under an id no field has shown it with.
LEMMA AddHash == ASSUME HashInv, scene \in DOMAIN Scenes, NEW h \in Handlers, Add(h) PROVE HashInv'
<1>1. PICK n \in Notes :
        /\ id[n] = None /\ req' = [req EXCEPT ![h] = n]
        /\ \/ AssignFromRedis /\ id' = [id EXCEPT ![n] = counter + 1] /\ UNCHANGED offline
           \/ /\ AssignFromServer(Home(h))
              /\ id' = [id EXCEPT ![n] = cnt[Home(h)]] /\ offline' = offline \union {n}
  BY DEF Add, Fresh
<1>2. /\ pc[h] = "idle" /\ pc' = [pc EXCEPT ![h] = "putMine"] /\ UNCHANGED <<hash, answered, deleted, torn>>
  BY DEF Add, Goto
<1>3. Home(h) \in Servers BY HomesAreServers
<1>4. counter' \in Ids /\ counter' >= counter /\ cnt' \in [Servers -> Ids] BY <1>1, <1>3, Assigning
<1>5. /\ id'[n] \in Ids /\ id' \in [Notes -> Ids \union {None}] /\ id'[n] # None
      /\ \A o \in Notes \ {n} : id'[o] = id[o]
  <2>1. CASE AssignFromRedis /\ id' = [id EXCEPT ![n] = counter + 1]
    <3>1. counter + 1 \in Ids BY <1>4, <2>1 DEF AssignFromRedis
    <3> QED BY <2>1, <3>1, NoneIsNone DEF HashInv, Fields, Ids
  <2>2. CASE id' = [id EXCEPT ![n] = cnt[Home(h)]]
    <3>1. cnt[Home(h)] \in Ids BY <1>3 DEF HashInv, Fields
    <3> QED BY <2>2, <3>1, NoneIsNone DEF HashInv, Fields, Ids
  <2> QED BY <1>1, <2>1, <2>2
<1>6. \A l \in Lists, i \in Ids : hash[l][i] # n /\ (hash[l][i] # None => hash[l][i] \in Notes \ {n})
  <2> SUFFICES ASSUME NEW l \in Lists, NEW i \in Ids
               PROVE  hash[l][i] # n /\ (hash[l][i] # None => hash[l][i] \in Notes \ {n})
    OBVIOUS
  <2>1. hash[l][i] \in Notes \union {None} BY DEF HashInv, Fields
  <2>2. hash[l][i] # None => id[hash[l][i]] = i BY DEF HashInv, Fields
  <2> QED BY <1>1, <2>1, <2>2, NoneIsNone DEF Ids
<1>7. Fields'
  <2>1. pc' \in [Handlers -> Labels] /\ req' \in [Handlers -> Notes] BY <1>1, <1>2 DEF HashInv, Fields, Labels
  <2>2. \A l \in Lists, i \in Ids : hash'[l][i] # None => id'[hash'[l][i]] = i
    BY <1>2, <1>5, <1>6 DEF HashInv, Fields
  <2> QED BY <1>2, <1>4, <1>5, <2>1, <2>2 DEF HashInv, Fields
<1>8. Numbers'
  <2>1. CASE AssignFromRedis /\ id' = [id EXCEPT ![n] = counter + 1] /\ UNCHANGED offline
    <3>1. counter' = counter + 1 /\ id'[n] = counter + 1 /\ counter \in Nat
      BY <2>1, BoundsAreBounds DEF AssignFromRedis, HashInv, Fields, Numbers, Ids
    <3>2. \A o \in Notes \ offline : o # n /\ id[o] # None => id'[o] \in 1..counter /\ id'[o] # id'[n]
      BY <1>5, <3>1 DEF HashInv, Numbers
    <3>3. \A o \in Notes \ offline' : id'[o] # None => id'[o] \in 1..counter' BY <1>5, <2>1, <3>1, <3>2
    <3>4. \A m, o \in Notes \ offline' : id'[m] # None /\ m # o => id'[m] # id'[o]
      BY <1>5, <2>1, <3>2 DEF HashInv, Numbers
    <3> QED BY <1>4, <3>3, <3>4 DEF Numbers
  <2>2. CASE offline' = offline \union {n} /\ AssignFromServer(Home(h))
    BY <1>5, <2>2 DEF HashInv, Numbers, AssignFromServer
  <2> QED BY <1>1, <2>1, <2>2
<1>9. \A g \in Handlers : ~At(g, n) BY <1>1 DEF HashInv, Known
<1>10. \A g \in Handlers \ {h} : pc'[g] = pc[g] /\ req'[g] = req[g] BY <1>1, <1>2 DEF HashInv, Fields
<1>11. pc'[h] = "putMine" /\ req'[h] = n BY <1>1, <1>2 DEF HashInv, Fields
<1>12. Known'
  <2>1. \A o \in Notes : \A g \in Handlers : At(g, o)' => At(g, o) \/ o = n BY <1>10, <1>11 DEF At
  <2> QED BY <1>2, <1>5, <2>1 DEF HashInv, Known
<1>13. Settled(n)'
  <2>1. \A g \in Handlers : At(g, n)' <=> g = h BY <1>9, <1>10, <1>11 DEF At
  <2>2. mine[n] \in Lists /\ of[n] \in Lists BY ListsOfNotes
  <2>3. ~Shown(mine[n], n)' /\ ~Shown(of[n], n)' BY <1>2, <1>5, <1>6, <2>2 DEF Shown
  <2>4. n \notin deleted' BY <1>1, <1>2 DEF HashInv, Known
  <2>5. Midway(pc[h], n)' BY <1>11, <2>3, <2>4 DEF Midway
  <2>6. \A g \in Handlers : At(g, n)' => Midway(pc[g], n)'
    <3> SUFFICES ASSUME NEW g \in Handlers, At(g, n)' PROVE Midway(pc[g], n)' OBVIOUS
    <3>1. g = h BY <2>1
    <3> QED BY <2>5, <3>1
  <2> QED BY <2>1, <2>6 DEF Settled
<1>14. Settling'
  <2>1. At(h, n)' BY <1>11 DEF At
  <2> QED BY <1>1, <1>2, <1>5, <1>10, <1>13, <2>1, Touching
<1> QED BY <1>7, <1>8, <1>12, <1>14 DEF HashInv

\* A note is deleted that its user has seen: unless somebody is at it, both fields show it.
LEMMA DeleteHash == ASSUME HashInv, NEW h \in Handlers, Delete(h) PROVE HashInv'
<1>1. PICK n \in Notes :
        /\ id[n] # None /\ Shown(mine[n], n) /\ req' = [req EXCEPT ![h] = n] /\ deleted' = deleted \union {n}
        /\ torn' = IF n \in Busy THEN torn \union {n} ELSE torn
  BY DEF Delete, Shown
<1>2. /\ pc[h] = "idle" /\ pc' = [pc EXCEPT ![h] = "dropMine"]
      /\ UNCHANGED <<hash, id, answered, offline, counter, cnt>>
  BY DEF Delete, Goto, redis
<1>3. Fields' BY <1>1, <1>2 DEF HashInv, Fields, Labels
<1>4. Numbers' BY <1>2 DEF HashInv, Numbers
<1>5. \A g \in Handlers \ {h} : pc'[g] = pc[g] /\ req'[g] = req[g] BY <1>1, <1>2 DEF HashInv, Fields
<1>6. pc'[h] = "dropMine" /\ req'[h] = n BY <1>1, <1>2 DEF HashInv, Fields
<1>7. Known'
  <2>1. \A o \in Notes : \A g \in Handlers : At(g, o)' => At(g, o) \/ o = n BY <1>5, <1>6 DEF At
  <2> QED BY <1>1, <1>2, <2>1 DEF HashInv, Known
<1>8. ASSUME n \notin torn', Own(n)' PROVE Settled(n)'
  <2>1. n \notin Busy /\ n \notin torn /\ Own(n) BY <1>1, <1>2, <1>8 DEF Own
  <2>2. \A g \in Handlers : ~At(g, n) BY <2>1 DEF Busy, At
  <2>3. Agree(n) BY <2>1, <2>2 DEF HashInv, Settling, Settled
  <2>4. Midway(pc[h], n)' BY <1>1, <1>2, <1>6, <2>3 DEF Agree, Midway, Shown
  <2>5. \A g \in Handlers : At(g, n)' <=> g = h BY <1>5, <1>6, <2>2 DEF At
  <2>6. \A g \in Handlers : At(g, n)' => Midway(pc[g], n)'
    <3> SUFFICES ASSUME NEW g \in Handlers, At(g, n)' PROVE Midway(pc[g], n)' OBVIOUS
    <3>1. g = h BY <2>5
    <3> QED BY <2>4, <3>1
  <2> QED BY <2>5, <2>6 DEF Settled
<1>9. Settling'
  <2>1. At(h, n)' BY <1>6 DEF At
  <2>2. id' \in [Notes -> Ids \union {None}] BY <1>2 DEF HashInv, Fields
  <2>3. torn \subseteq torn' BY <1>1
  <2>4. \A o \in Notes \ {n} : o \in deleted' <=> o \in deleted BY <1>1
  <2> QED BY <1>2, <1>5, <1>8, <2>1, <2>2, <2>3, <2>4, Touching
<1> QED BY <1>3, <1>4, <1>7, <1>9 DEF HashInv

\* Steps that leave the hashes and the handlers alone, or end what handlers do that
\* have not torn their notes.
LEMMA EndingHash ==
  ASSUME HashInv, UNCHANGED <<hash, id, answered, deleted, offline, counter>>, torn \subseteq torn',
         cnt' \in [Servers -> Ids], pc' \in [Handlers -> Labels], req' \in [Handlers -> Notes],
         \A h \in Handlers : \/ pc'[h] = pc[h] /\ req'[h] = req[h]
                             \/ pc'[h] = "idle" /\ (pc[h] = "sendTask" \/ req[h] \in torn')
  PROVE  HashInv'
<1>1. \A n \in Notes : \A h \in Handlers : At(h, n)' => At(h, n) /\ pc'[h] = pc[h] BY DEF At
<1>2. Fields' /\ Numbers' BY DEF HashInv, Fields, Numbers
<1>3. Known' BY <1>1 DEF HashInv, Known
<1>4. ASSUME NEW n \in Notes \ torn', Own(n)' PROVE Settled(n)'
  <2>1. Own(n) /\ Settled(n) BY <1>4 DEF Own, HashInv, Settling
  <2>2. \A h \in Handlers : At(h, n)' => Midway(pc[h], n)'
    <3> SUFFICES ASSUME NEW h \in Handlers, At(h, n)' PROVE Midway(pc[h], n)' OBVIOUS
    <3>1. Midway(pc[h], n) /\ pc'[h] = pc[h] BY <1>1, <2>1 DEF Settled
    <3> QED BY <3>1 DEF Midway, Shown
  <2>3. ASSUME \A h \in Handlers : ~At(h, n)' PROVE Agree(n)'
    <3>1. CASE \A h \in Handlers : ~At(h, n) BY <2>1, <3>1 DEF Settled, Agree, Shown
    <3>2. CASE \E h \in Handlers : At(h, n)
      <4>1. PICK h \in Handlers : At(h, n) BY <3>2
      <4>2. pc[h] = "sendTask" BY <1>4, <2>3, <4>1 DEF At
      <4>3. Midway("sendTask", n) BY <2>1, <4>1, <4>2 DEF Settled
      <4> QED BY <4>3 DEF Midway, Agree, Shown
    <3> QED BY <3>1, <3>2
  <2>4. \A g, h \in Handlers : At(g, n)' /\ At(h, n)' => g = h BY <1>1, <2>1 DEF Settled
  <2> QED BY <2>2, <2>3, <2>4 DEF Settled
<1> QED BY <1>2, <1>3, <1>4 DEF HashInv, Settling

LEMMA RestartHash == ASSUME HashInv, NEW s \in Servers, Restart(s) PROVE HashInv'
<1> DEFINE dead == {h \in Handlers : Home(h) = s /\ pc[h] # "idle"}
<1>1. /\ req' = [h \in Handlers |-> IF h \in dead THEN SomeNote ELSE req[h]]
      /\ pc'  = [h \in Handlers |-> IF h \in dead THEN "idle" ELSE pc[h]]
      /\ torn' = torn \union {req[h] : h \in {g \in dead : pc[g] # "sendTask"}}
      /\ cnt' = [cnt EXCEPT ![s] = 0] /\ UNCHANGED <<hash, id, answered, deleted, offline, counter>>
  BY DEF Restart, redis
<1> HIDE DEF dead
<1>2. cnt' \in [Servers -> Ids] BY <1>1, BoundsAreBounds DEF HashInv, Fields, Ids
<1>3. pc' \in [Handlers -> Labels] /\ req' \in [Handlers -> Notes]
  BY <1>1, NoTaskIsTask DEF HashInv, Fields, Labels
<1>4. \A h \in Handlers : \/ pc'[h] = pc[h] /\ req'[h] = req[h]
                          \/ pc'[h] = "idle" /\ (pc[h] = "sendTask" \/ req[h] \in torn')
  BY <1>1
<1> QED BY <1>1, <1>2, <1>3, <1>4, EndingHash

LEMMA HashSteps == ASSUME HashInv, scene \in DOMAIN Scenes, [Next]_vars PROVE HashInv'
<1>1. ASSUME NEW h \in Handlers, AddNote(h) \/ DeleteNote(h) PROVE HashInv'
  <2>1. CASE pc[h] # "idle" BY <1>1, <2>1, HandlerHash
  <2>2. CASE pc[h] = "idle"
    <3>1. Add(h) \/ Delete(h)
      BY <1>1, <2>2 DEF AddNote, DeleteNote, PutMine, PutOf, PutFails, SendAdd, DropMine, DropOf, Renumber, SendDelete
    <3> QED BY <3>1, AddHash, DeleteHash
  <2> QED BY <2>1, <2>2
<1>2. ASSUME UNCHANGED <<hash, id, answered, deleted, offline, counter, torn, cnt, pc, req>> PROVE HashInv'
  BY <1>2, EndingHash DEF HashInv, Fields
<1>3. ASSUME NEW s \in Servers, Worker(s) \/ StatementFails(s) \/ EraseFails(s) PROVE HashInv'
  BY <1>2, <1>3 DEF Worker, StatementFails, EraseFails, Take, Select, Store, Deadlock, GiveUp, Erase,
                    redis, handler, history
<1>4. CASE UNCHANGED vars BY <1>2, <1>4 DEF vars, redis, handler, history
<1> QED BY <1>1, <1>3, <1>4, RestartHash DEF Next

\* A note no id of a server's own may collide with shares its id with no other.
LEMMA OwnIds == ASSUME HashInv, NEW n \in Notes, id[n] # None, ~Overwritten(n) PROVE Own(n)
<1>1. ASSUME NEW o \in Notes \ {n}, id[o] = id[n] PROVE FALSE
  <2>1. n \notin offline /\ o \notin offline BY <1>1 DEF Overwritten
  <2> QED BY <1>1, <2>1 DEF HashInv, Numbers
<1> QED BY <1>1 DEF Own

(***************************************************************************)
(* Once nobody is at a note, its user's hash and its resource's both show  *)
(* it, if it was answered and not deleted, or neither does, unless a       *)
(* failure, an overlapping deletion or an id of a server's own tore it:    *)
(* AddNote and DeleteNote write the two fields one after the other.        *)
(***************************************************************************)
THEOREM HashesGetToAgree == Spec => []HashesAgree
<1>1. Init => HashInv /\ scene \in DOMAIN Scenes BY HashInit DEF Init
<1>2. HashInv /\ scene \in DOMAIN Scenes /\ [Next]_vars => HashInv' /\ (scene \in DOMAIN Scenes)'
  BY HashSteps, SceneStays
<1>3. HashInv => HashesAgree
  <2> SUFFICES ASSUME HashInv, NEW n \in Notes \ (Busy \union torn), id[n] # None, ~Overwritten(n)
               PROVE  /\ Shown(mine[n], n) = (n \in answered \ deleted)
                      /\ Shown(of[n], n)   = (n \in answered \ deleted)
    BY DEF HashesAgree
  <2>1. \A h \in Handlers : ~At(h, n) BY DEF Busy, At
  <2>2. Agree(n) BY <2>1, OwnIds DEF HashInv, Settling, Settled
  <2> QED BY <2>2 DEF Agree, Shown
<1> QED BY <1>1, <1>2, <1>3, PTL DEF Spec
=============================================================================
