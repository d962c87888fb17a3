------------------------- MODULE SendExecutorProofs -------------------------
(***************************************************************************)
(* The proofs about SendExecutor: for any tasks, any number of drivers and *)
(* any use, no task and no wake-up is lost, some driver serves the queue   *)
(* of the woken, and neither the slots nor the list of wakers grow.        *)
(***************************************************************************)
EXTENDS SendExecutor, SequenceTheorems, FiniteSetTheorems, TLAPS

-----------------------------------------------------------------------------
(* Sequences and the free slot.                                            *)

LEMMA OccursInTail ==
    ASSUME NEW S, NEW s \in Seq(S), s # <<>>, NEW x, x # Head(s), Occurs(x, s)
    PROVE  Occurs(x, Tail(s))
<1>1. PICK i \in DOMAIN s : s[i] = x
  BY DEF Occurs
<1>2. i \in 1 .. Len(s) /\ Len(s) \in Nat /\ i # 1
  BY <1>1
<1>3. Len(Tail(s)) = Len(s) - 1 /\ \A j \in 1 .. Len(Tail(s)) : Tail(s)[j] = s[j + 1]
  BY HeadTailProperties
<1>4. i - 1 \in 1 .. Len(Tail(s)) /\ Tail(s)[i - 1] = x
  BY <1>1, <1>2, <1>3
<1>5. DOMAIN Tail(s) = 1 .. Len(Tail(s))
  BY HeadTailProperties, LenProperties
<1>q. QED
  BY <1>4, <1>5 DEF Occurs

LEMMA OccursInAppend ==
    ASSUME NEW S, NEW s \in Seq(S), NEW e \in S
    PROVE  /\ Occurs(e, Append(s, e))
           /\ \A x : Occurs(x, s) => Occurs(x, Append(s, e))
<1>1. /\ Append(s, e) \in Seq(S) /\ Len(Append(s, e)) = Len(s) + 1
      /\ \A i \in 1 .. Len(s) : Append(s, e)[i] = s[i]
      /\ Append(s, e)[Len(s) + 1] = e
  BY AppendProperties
<1>2. DOMAIN s = 1 .. Len(s) /\ DOMAIN Append(s, e) = 1 .. (Len(s) + 1) /\ Len(s) \in Nat
  BY <1>1, LenProperties
<1>q. QED
  BY <1>1, <1>2 DEF Occurs

\* A set of numbers that is not empty has a smallest element.
LEMMA Smallest ==
    ASSUME NEW T, T \subseteq Nat, T # {}
    PROVE  \E i \in T : \A j \in T : i <= j
<1> DEFINE R == {ss \in Nat \X Nat : ss[1] < ss[2]}
<1>1. IsWellFoundedOn(R, Nat)
  BY NatLessThanWellFounded, Zenon DEF OpToRel
<1>2. \A x, y \in Nat : <<y, x>> \in R <=> y < x
  OBVIOUS
<1> HIDE DEF R
<1>3. PICK x \in T : \A y \in T : ~(<<y, x>> \in R)
  BY <1>1, WFMin, Zenon
<1>4. ASSUME NEW y \in T PROVE x <= y
  <2>1. x \in Nat /\ y \in Nat /\ ~(y < x)
    BY <1>2, <1>3, Zenon
  <2>q. QED
    BY <2>1
<1>q. QED
  BY <1>4
-----------------------------------------------------------------------------
(* The inductive invariant.                                                *)

Types ==
    /\ tasks \in Seq(Tasks \cup {None}) /\ task_queue \in Seq(Tasks)
    /\ wake_queue \in Seq(Nat) /\ todo \in [Drivers -> Seq(Nat)]
    /\ pc \in [Drivers -> Locations] /\ after \in [Drivers -> Locations]
    /\ armed \subseteq Tasks \X DOMAIN tasks
    /\ done \subseteq spawned /\ spawned \subseteq Tasks /\ woken \subseteq Tasks

\* Nothing is left to poll outside of the rounds of polls.
RoundsEnd ==
    \A d \in Drivers : pc[d] \notin {"poll_each", "spawning"} => todo[d] = <<>>

Live == spawned \ done

\* The tasks in `live`, and no others, are each in one slot of ts or at one place
\* of q.
PlacedIn(ts, q, live) ==
    /\ \A i, j \in DOMAIN ts : ts[i] = ts[j] /\ ts[i] # None => i = j
    /\ \A i, j \in DOMAIN q : q[i] = q[j] => i = j
    /\ \A i \in DOMAIN ts, j \in DOMAIN q : ts[i] # q[j]
    /\ \A t \in Tasks : t \in live <=> Occurs(t, ts) \/ Occurs(t, q)

Placed == PlacedIn(tasks, task_queue, Live)

ExecutorInv == Types /\ RoundsEnd /\ Placed /\ WokenIsQueued
-----------------------------------------------------------------------------
(* push_task and poll_future.                                              *)

LEMMA SlotIsFree ==
    ASSUME tasks \in Seq(Tasks \cup {None})
    PROVE  \/ SlotFor = Len(tasks) + 1
           \/ SlotFor \in DOMAIN tasks /\ tasks[SlotFor] = None
<1>1. CASE FreeSlots = {}
  BY <1>1 DEF SlotFor
<1>2. CASE FreeSlots # {}
  <2>1. FreeSlots \subseteq Nat
    BY LenProperties DEF FreeSlots
  <2>2. \E i \in FreeSlots : \A j \in FreeSlots : i <= j
    BY <1>2, <2>1, Smallest, Zenon
  <2>3. SlotFor \in FreeSlots
    BY <1>2, <2>2 DEF SlotFor
  <2>q. QED
    BY <2>3 DEF FreeSlots
<1>q. QED
  BY <1>1, <1>2

\* push_task moves the first task of the queue to a slot that was free.
LEMMA PlaceMoves ==
    ASSUME Types, Placed, task_queue # <<>>,
           NEW ts, ts = Place(Head(task_queue))
    PROVE  /\ ts \in Seq(Tasks \cup {None})
           /\ SlotFor \in DOMAIN ts /\ ts[SlotFor] = Head(task_queue)
           /\ DOMAIN tasks \subseteq DOMAIN ts
           /\ \A j \in DOMAIN ts \ {SlotFor} : j \in DOMAIN tasks /\ ts[j] = tasks[j]
           /\ PlacedIn(ts, Tail(task_queue), Live)
<1> DEFINE h == Head(task_queue)
           q == Tail(task_queue)
<1>1. /\ h \in Tasks /\ q \in Seq(Tasks) /\ Len(q) = Len(task_queue) - 1
      /\ \A i \in 1 .. Len(q) : q[i] = task_queue[i + 1]
      /\ Len(task_queue) \in Nat /\ DOMAIN task_queue = 1 .. Len(task_queue)
      /\ DOMAIN q = 1 .. Len(q)
  BY HeadTailProperties, LenProperties DEF Types
<1>2. h = task_queue[1] /\ 1 \in DOMAIN task_queue
  BY EmptySeq, <1>1 DEF Types
<1>3. Len(tasks) \in Nat /\ DOMAIN tasks = 1 .. Len(tasks)
  BY LenProperties DEF Types
<1>4. \/ SlotFor = Len(tasks) + 1
      \/ SlotFor \in DOMAIN tasks /\ tasks[SlotFor] = None
  BY SlotIsFree DEF Types
<1>5. DOMAIN ts = DOMAIN tasks \cup {SlotFor}
  BY DEF Place
<1>6. \A j \in DOMAIN ts : ts[j] = IF j = SlotFor THEN h ELSE tasks[j]
  BY DEF Place
<1>7. \E n \in Nat : DOMAIN ts = 1 .. n
  <2>1. CASE SlotFor = Len(tasks) + 1
    <3>1. \A n \in Nat : (1 .. n) \cup {n + 1} = 1 .. (n + 1)
      OBVIOUS
    <3>2. DOMAIN ts = 1 .. (Len(tasks) + 1)
      BY <1>3, <1>5, <2>1, <3>1, Zenon
    <3>q. QED
      BY <1>3, <3>2
  <2>2. CASE SlotFor \in DOMAIN tasks
    <3>1. DOMAIN ts = 1 .. Len(tasks)
      BY <1>3, <1>5, <2>2, Zenon
    <3>q. QED
      BY <1>3, <3>1
  <2>q. QED
    BY <1>4, <2>1, <2>2
<1>8. ts \in Seq(Tasks \cup {None})
  <2>1. PICK n \in Nat : DOMAIN ts = 1 .. n
    BY <1>7
  <2>2. \A j \in 1 .. n : ts[j] \in Tasks \cup {None}
    BY <1>1, <1>3, <1>5, <1>6, <2>1 DEF Types
  <2>3. ts \in [1 .. n -> Tasks \cup {None}]
    BY <2>1, <2>2, Zenon DEF Place
  <2>q. QED
    BY <2>3
<1>9. None \notin Tasks
  BY ConstantsOK
<1> HIDE DEF h, q
<1>10. \A i \in DOMAIN q : q[i] # h
  BY <1>1, <1>2 DEF Placed, PlacedIn
<1>11. \A i \in DOMAIN tasks : tasks[i] # h
  BY <1>2 DEF Placed, PlacedIn
<1>12. ASSUME NEW i \in DOMAIN ts, NEW j \in DOMAIN ts, ts[i] = ts[j], ts[i] # None
       PROVE  i = j
  BY <1>5, <1>6, <1>11, <1>12 DEF Placed, PlacedIn
<1>13. ASSUME NEW i \in DOMAIN q, NEW j \in DOMAIN q, q[i] = q[j] PROVE i = j
  <2>1. i + 1 \in DOMAIN task_queue /\ j + 1 \in DOMAIN task_queue
    BY <1>1
  <2>2. i + 1 = j + 1
    BY <1>1, <1>13, <2>1 DEF Placed, PlacedIn
  <2>q. QED
    BY <1>1, <2>2
<1>14. ASSUME NEW i \in DOMAIN ts, NEW j \in DOMAIN q PROVE ts[i] # q[j]
  <2>1. j + 1 \in DOMAIN task_queue /\ q[j] = task_queue[j + 1]
    BY <1>1
  <2>q. QED
    BY <1>5, <1>6, <1>10, <2>1 DEF Placed, PlacedIn
<1>15. ASSUME NEW t \in Tasks
       PROVE  t \in Live <=> Occurs(t, ts) \/ Occurs(t, q)
  <2>1. t \in Live <=> Occurs(t, tasks) \/ Occurs(t, task_queue)
    BY DEF Placed, PlacedIn
  <2>2. Occurs(t, tasks) => Occurs(t, ts)
    BY <1>4, <1>3, <1>5, <1>6, <1>9 DEF Occurs
  <2>3. Occurs(t, task_queue) => Occurs(t, ts) \/ Occurs(t, q)
    <3>1. CASE t = h
      BY <1>5, <1>6, <3>1 DEF Occurs
    <3>2. CASE t # h
      BY <3>2, OccursInTail DEF Types, h, q
    <3>q. QED
      BY <3>1, <3>2
  <2>4. Occurs(t, ts) => Occurs(t, tasks) \/ Occurs(t, task_queue)
    BY <1>2, <1>5, <1>6 DEF Occurs
  <2>5. Occurs(t, q) => Occurs(t, task_queue)
    BY <1>1 DEF Occurs
  <2>q. QED
    BY <2>1, <2>2, <2>3, <2>4, <2>5
<1>16. PlacedIn(ts, q, Live)
  BY <1>12, <1>13, <1>14, <1>15 DEF PlacedIn
<1>q. QED
  BY <1>5, <1>6, <1>8, <1>16 DEF h, q
\* poll_future on a table in which every live task has one place: the task that
\* is polled is not woken any more, and stays where it is or is done.
LEMMA PollKeeps ==
    ASSUME Types, NEW d \in Drivers, NEW i, NEW STATE ts, NEW loc \in Locations,
           ts \in Seq(Tasks \cup {None}), DOMAIN tasks \subseteq DOMAIN ts,
           task_queue' \in Seq(Tasks), PlacedIn(ts, task_queue', Live),
           UNCHANGED spawned,
           PollFuture(d, i, ts, loc)
    PROVE  /\ tasks' \in Seq(Tasks \cup {None}) /\ DOMAIN tasks' = DOMAIN ts
           /\ armed' \subseteq Tasks \X DOMAIN tasks'
           /\ done' \subseteq spawned' /\ woken' \subseteq Tasks
           /\ PlacedIn(tasks', task_queue', Live')
           /\ \A j \in DOMAIN ts : tasks'[j] \in woken' => j # i /\ ts[j] \in woken
           /\ pc' = [pc EXCEPT ![d] = loc] \/ pc' = [pc EXCEPT ![d] = "spawning"]
<1>1. None \notin Tasks
  BY ConstantsOK
<1>2. Len(ts) \in Nat /\ DOMAIN ts = 1 .. Len(ts)
  BY LenProperties
<1>3. CASE ~(i \in DOMAIN ts /\ ts[i] # None)
  <2>1. tasks' = ts /\ UNCHANGED <<woken, armed, done>> /\ pc' = [pc EXCEPT ![d] = loc]
    BY <1>3 DEF PollFuture, Goto
  <2>2. Live' = Live
    BY <2>1 DEF Live
  <2>q. QED
    BY <1>1, <1>3, <2>1, <2>2 DEF Types
<1>4. CASE i \in DOMAIN ts /\ ts[i] # None
  <2>1. woken' = woken \ {ts[i]} /\ ts[i] \in Tasks
    BY <1>2, <1>4 DEF PollFuture
  <2>2. pc' = [pc EXCEPT ![d] = loc] \/ pc' = [pc EXCEPT ![d] = "spawning"]
    BY <1>4 DEF PollFuture, Goto
  <2>3. ts[i] \in Live
    BY <1>4, <2>1 DEF PlacedIn, Occurs
  <2>4. CASE tasks' = [ts EXCEPT ![i] = None] /\ done' = done \cup {ts[i]} /\ armed' = armed
    <3>1. tasks' \in Seq(Tasks \cup {None}) /\ DOMAIN tasks' = DOMAIN ts
      BY <1>2, <1>4, <2>4, ExceptSeq
    <3>2. \A j \in DOMAIN ts : tasks'[j] = IF j = i THEN None ELSE ts[j]
      BY <1>4, <2>4
    <3>3. Live' = Live \ {ts[i]} /\ done' \subseteq spawned'
      BY <2>3, <2>4 DEF Live, Types
    <3>4. ASSUME NEW t \in Tasks
          PROVE  t \in Live' <=> Occurs(t, tasks') \/ Occurs(t, task_queue')
      <4>1. t \in Live <=> Occurs(t, ts) \/ Occurs(t, task_queue')
        BY DEF PlacedIn
      <4>2. CASE t = ts[i]
        <5>1. ~Occurs(t, tasks')
          BY <1>1, <1>4, <3>1, <3>2, <4>2 DEF PlacedIn, Occurs
        <5>2. ~Occurs(t, task_queue')
          BY <1>4, <4>2 DEF PlacedIn, Occurs
        <5>q. QED
          BY <3>3, <4>2, <5>1, <5>2
      <4>3. CASE t # ts[i]
        <5>1. Occurs(t, tasks') <=> Occurs(t, ts)
          BY <1>1, <3>1, <3>2, <4>3 DEF Occurs
        <5>q. QED
          BY <3>3, <4>1, <4>3, <5>1
      <4>q. QED
        BY <4>2, <4>3
    <3>5. \A k \in DOMAIN task_queue' : task_queue'[k] \in Tasks
      BY LenProperties
    <3>6. PlacedIn(tasks', task_queue', Live')
      BY <1>1, <3>1, <3>2, <3>4, <3>5 DEF PlacedIn
    <3>7. \A j \in DOMAIN ts : tasks'[j] \in woken' => j # i /\ ts[j] \in woken
      BY <1>1, <2>1, <3>2 DEF Types
    <3>8. armed' \subseteq Tasks \X DOMAIN tasks' /\ woken' \subseteq Tasks
      BY <2>1, <2>4, <3>1 DEF Types
    <3>q. QED
      BY <2>2, <3>1, <3>3, <3>6, <3>7, <3>8
  <2>5. CASE tasks' = ts /\ done' = done /\ armed' = armed \cup {<<ts[i], i>>}
    <3>1. Live' = Live
      BY <2>5 DEF Live
    <3>2. \A j \in DOMAIN ts : ts[j] \in woken' => j # i /\ ts[j] \in woken
      BY <2>1
    <3>3. armed' \subseteq Tasks \X DOMAIN ts /\ woken' \subseteq Tasks
      BY <1>4, <2>1, <2>5 DEF Types
    <3>q. QED
      BY <2>2, <2>5, <3>1, <3>2, <3>3 DEF Types
  <2>q. QED
    BY <1>4, <2>4, <2>5 DEF PollFuture
<1>q. QED
  BY <1>3, <1>4
-----------------------------------------------------------------------------
(* Each step keeps the invariant.                                          *)

LEMMA InitExecutorInv == Init => ExecutorInv
<1> SUFFICES ASSUME Init PROVE ExecutorInv
  OBVIOUS
<1>1. <<>> \in Seq(Tasks \cup {None}) /\ <<>> \in Seq(Tasks) /\ <<>> \in Seq(Nat)
  BY EmptySeq
<1>2. Types
  BY <1>1 DEF Init, Types, Locations
<1>3. RoundsEnd /\ WokenIsQueued
  BY DEF Init, RoundsEnd, WokenIsQueued
<1>4. \A i : i \notin DOMAIN tasks /\ i \notin DOMAIN task_queue
  BY DEF Init
<1>5. Placed
  BY <1>4 DEF Init, Placed, PlacedIn, Occurs, Live
<1>q. QED
  BY <1>2, <1>3, <1>5 DEF ExecutorInv

\* A step that touches no task, in a loop or a round of polls.
LEMMA TasksUntouched ==
    ASSUME Types, Placed, UNCHANGED <<taskVars, task_queue, spawned>>,
           wake_queue' \in Seq(Nat), todo' \in [Drivers -> Seq(Nat)],
           pc' \in [Drivers -> Locations], after' \in [Drivers -> Locations]
    PROVE  Types' /\ Placed'
BY DEF Types, Placed, PlacedIn, Live, Occurs, taskVars

LEMMA LoopKeeps ==
    ASSUME ExecutorInv, NEW d \in Drivers, NEW loc \in Locations,
           UNCHANGED <<taskVars, task_queue, spawned, wake_queue, todo>>,
           after' \in [Drivers -> Locations],
           pc' = pc \/ (pc' = [pc EXCEPT ![d] = loc] /\ todo[d] = <<>>)
    PROVE  ExecutorInv'
<1>1. Types /\ RoundsEnd /\ Placed /\ WokenIsQueued
  BY DEF ExecutorInv
<1>2. pc' \in [Drivers -> Locations]
  BY <1>1, Zenon DEF Types
<1>3. Types' /\ Placed'
  BY <1>1, <1>2, TasksUntouched DEF Types
<1>4. RoundsEnd'
  BY <1>1, Zenon DEF RoundsEnd, Types
<1>5. WokenIsQueued'
  BY <1>1 DEF WokenIsQueued, Occurs, taskVars
<1>q. QED
  BY <1>3, <1>4, <1>5 DEF ExecutorInv

LEMMA LoopStepsKeep ==
    ASSUME ExecutorInv, NEW d \in Drivers,
           StartPoll(d) \/ PollEachEnd(d) \/ LockQueue(d) \/ UnlockQueue(d)
               \/ RegisterDriver(d) \/ Return(d)
    PROVE  ExecutorInv'
<1>1. Types /\ RoundsEnd
  BY DEF ExecutorInv
<1>2. CASE StartPoll(d)
  <2>1. "poll_all" \in Locations /\ todo[d] = <<>>
    BY <1>1, <1>2 DEF StartPoll, RoundsEnd, Locations
  <2>q. QED
    BY <1>1, <1>2, <2>1, LoopKeeps, Zenon DEF StartPoll, Goto, Types
<1>3. CASE PollEachEnd(d)
  <2>1. after[d] \in Locations /\ "idle" \in Locations /\ after' \in [Drivers -> Locations]
    BY <1>1, <1>3 DEF PollEachEnd, Types, Locations
  <2>q. QED
    BY <1>3, <2>1, LoopKeeps, Zenon DEF PollEachEnd, Goto
<1>4. CASE LockQueue(d)
  <2>1. "idle" \in Locations
    BY DEF Locations
  <2>q. QED
    BY <1>1, <1>4, <2>1, LoopKeeps DEF LockQueue, driverVars, Types
<1>5. CASE UnlockQueue(d)
  <2>1. "register" \in Locations /\ "idle" \in Locations /\ todo[d] = <<>>
    BY <1>1, <1>5 DEF UnlockQueue, RoundsEnd, Locations
  <2>q. QED
    BY <1>1, <1>5, <2>1, LoopKeeps, Zenon DEF UnlockQueue, Goto, Types
<1>6. CASE RegisterDriver(d)
  <2>1. "wake_pending" \in Locations /\ todo[d] = <<>>
    BY <1>1, <1>6 DEF RegisterDriver, RoundsEnd, Locations
  <2>q. QED
    BY <1>1, <1>6, <2>1, LoopKeeps, Zenon DEF RegisterDriver, Goto, Types
<1>7. CASE Return(d)
  <2>1. "finished" \in Locations /\ "idle" \in Locations /\ todo[d] = <<>>
    BY <1>1, <1>7 DEF Return, RoundsEnd, Locations
  <2>q. QED
    BY <1>1, <1>7, <2>1, LoopKeeps, Zenon DEF Return, Goto, Types
<1>q. QED
  BY <1>2, <1>3, <1>4, <1>5, <1>6, <1>7

\* poll_all takes up every index there is.
LEMMA PollAllKeeps ==
    ASSUME ExecutorInv, NEW d \in Drivers, PollAll(d)
    PROVE  ExecutorInv'
<1>1. Types /\ RoundsEnd /\ Placed /\ WokenIsQueued
  BY DEF ExecutorInv
<1> DEFINE s == [i \in 1 .. Len(tasks) |-> i]
<1>2. Len(tasks) \in Nat /\ DOMAIN tasks = 1 .. Len(tasks)
  BY <1>1, LenProperties DEF Types
<1>3. s \in Seq(Nat) /\ DOMAIN s = DOMAIN tasks /\ \A i \in DOMAIN s : s[i] = i
  BY <1>2
<1>4. todo' = [todo EXCEPT ![d] = s] /\ pc' = [pc EXCEPT ![d] = "poll_each"]
  BY DEF PollAll, Goto
<1> HIDE DEF s
<1>5. todo' \in [Drivers -> Seq(Nat)] /\ todo'[d] = s
  BY <1>1, <1>3, <1>4 DEF Types
<1>6. pc' \in [Drivers -> Locations] /\ after' \in [Drivers -> Locations]
  BY <1>1, <1>4 DEF PollAll, Types, Locations
<1>7. Types' /\ Placed'
  BY <1>1, <1>5, <1>6, TasksUntouched DEF PollAll, Types
<1>8. RoundsEnd'
  BY <1>1, <1>4 DEF RoundsEnd, Types
<1>9. WokenIsQueued'
  BY <1>3, <1>5 DEF PollAll, WokenIsQueued, Occurs, taskVars
<1>q. QED
  BY <1>7, <1>8, <1>9 DEF ExecutorInv

\* wake_pending takes up the whole queue, and this driver has nothing else to do.
LEMMA WakePendingKeeps ==
    ASSUME ExecutorInv, NEW d \in Drivers, WakePending(d)
    PROVE  ExecutorInv'
<1>1. Types /\ RoundsEnd /\ Placed /\ WokenIsQueued
  BY DEF ExecutorInv
<1>2. /\ todo' = [todo EXCEPT ![d] = wake_queue] /\ wake_queue' = <<>>
      /\ pc' = [pc EXCEPT ![d] = "poll_each"] /\ todo[d] = <<>>
  BY <1>1 DEF WakePending, Pending, Goto, RoundsEnd
<1>3. wake_queue' \in Seq(Nat) /\ todo' \in [Drivers -> Seq(Nat)]
  BY <1>1, <1>2 DEF Types
<1>4. pc' \in [Drivers -> Locations] /\ after' \in [Drivers -> Locations]
  BY <1>1, <1>2 DEF WakePending, Types, Locations
<1>5. Types' /\ Placed'
  BY <1>1, <1>3, <1>4, TasksUntouched DEF WakePending
<1>6. RoundsEnd'
  BY <1>1, <1>2 DEF RoundsEnd, Types
<1>7. ASSUME NEW i \in DOMAIN tasks, tasks[i] \in woken
      PROVE  \E e \in Drivers : Occurs(i, todo'[e])
  <2>1. CASE Occurs(i, wake_queue)
    BY <1>1, <1>2, <2>1 DEF Types
  <2>2. ASSUME NEW e \in Drivers, Occurs(i, todo[e]) PROVE Occurs(i, todo'[e])
    <3>1. e # d
      BY <1>2, <2>2 DEF Occurs
    <3>q. QED
      BY <1>1, <1>2, <2>2, <3>1 DEF Types
  <2>q. QED
    BY <1>1, <1>7, <2>1, <2>2 DEF WokenIsQueued
<1>8. WokenIsQueued'
  BY <1>7 DEF WakePending, WokenIsQueued, taskVars
<1>q. QED
  BY <1>5, <1>6, <1>8 DEF ExecutorInv
\* A poll takes an index out of the round, and the task in that slot is no longer
\* woken.
LEMMA PollEachKeeps ==
    ASSUME ExecutorInv, NEW d \in Drivers, PollEach(d)
    PROVE  ExecutorInv'
<1>1. Types /\ RoundsEnd /\ Placed /\ WokenIsQueued
  BY DEF ExecutorInv
<1> DEFINE i == Head(todo[d])
<1>2. PollFuture(d, i, tasks, "poll_each") /\ "poll_each" \in Locations
  BY DEF PollEach, Locations
<1>3. /\ todo[d] \in Seq(Nat) /\ todo[d] # <<>> /\ pc[d] = "poll_each"
      /\ todo' = [todo EXCEPT ![d] = Tail(todo[d])]
  BY <1>1 DEF PollEach, Types
<1>4. UNCHANGED <<after, wake_queue, task_queue, spawned>>
  BY DEF PollEach
<1>5. PlacedIn(tasks, task_queue', Live) /\ task_queue' \in Seq(Tasks)
  BY <1>1, <1>4 DEF Placed, Types
<1> HIDE DEF i
<1>6. /\ tasks' \in Seq(Tasks \cup {None}) /\ DOMAIN tasks' = DOMAIN tasks
      /\ armed' \subseteq Tasks \X DOMAIN tasks'
      /\ done' \subseteq spawned' /\ woken' \subseteq Tasks
      /\ PlacedIn(tasks', task_queue', Live')
      /\ \A j \in DOMAIN tasks : tasks'[j] \in woken' => j # i /\ tasks[j] \in woken
      /\ pc' = [pc EXCEPT ![d] = "poll_each"] \/ pc' = [pc EXCEPT ![d] = "spawning"]
  BY <1>1, <1>2, <1>4, <1>5, PollKeeps DEF Types
<1>7. Tail(todo[d]) \in Seq(Nat)
  BY <1>3, HeadTailProperties
<1>8. todo' \in [Drivers -> Seq(Nat)] /\ pc' \in [Drivers -> Locations]
  BY <1>1, <1>3, <1>6, <1>7, Zenon DEF Types, Locations
<1>9. Types' /\ Placed'
  BY <1>1, <1>4, <1>5, <1>6, <1>8 DEF Types, Placed
<1>10. RoundsEnd'
  BY <1>1, <1>3, <1>6 DEF RoundsEnd, Types
<1>11. ASSUME NEW j \in DOMAIN tasks, tasks'[j] \in woken'
       PROVE  Occurs(j, wake_queue) \/ \E e \in Drivers : Occurs(j, todo'[e])
  <2>1. j # i /\ tasks[j] \in woken
    BY <1>6, <1>11
  <2>2. ASSUME NEW e \in Drivers, Occurs(j, todo[e]) PROVE Occurs(j, todo'[e])
    <3>1. CASE e = d
      <4>1. Occurs(j, Tail(todo[d]))
        BY <1>3, <2>1, <2>2, <3>1, OccursInTail DEF i
      <4>q. QED
        BY <1>1, <1>3, <3>1, <4>1 DEF Types
    <3>2. CASE e # d
      BY <1>1, <1>3, <2>2, <3>2 DEF Types
    <3>q. QED
      BY <3>1, <3>2
  <2>q. QED
    BY <1>1, <2>1, <2>2 DEF WokenIsQueued
<1>12. WokenIsQueued'
  BY <1>4, <1>6, <1>11 DEF WokenIsQueued
<1>q. QED
  BY <1>9, <1>10, <1>12 DEF ExecutorInv

\* push_task moves a task from the queue to its slot and polls it there.
LEMMA PushTaskKeeps ==
    ASSUME ExecutorInv, NEW d \in Drivers, PushTask(d)
    PROVE  ExecutorInv'
<1>1. Types /\ RoundsEnd /\ Placed /\ WokenIsQueued
  BY DEF ExecutorInv
<1> DEFINE ts == Place(Head(task_queue))
<1>2. PollFuture(d, SlotFor, ts, pc[d]) /\ pc[d] \in Locations
  BY <1>1 DEF PushTask, Types
<1>3. /\ task_queue # <<>> /\ task_queue' = Tail(task_queue)
      /\ pc[d] \in {"drain1", "drain2"}
      /\ UNCHANGED <<todo, after, wake_queue, spawned>>
  BY DEF PushTask
<1>4. task_queue' \in Seq(Tasks)
  BY <1>1, <1>3, HeadTailProperties DEF Types
<1> HIDE DEF ts
<1>5. /\ ts \in Seq(Tasks \cup {None})
      /\ SlotFor \in DOMAIN ts /\ ts[SlotFor] = Head(task_queue)
      /\ DOMAIN tasks \subseteq DOMAIN ts
      /\ \A j \in DOMAIN ts \ {SlotFor} : j \in DOMAIN tasks /\ ts[j] = tasks[j]
      /\ PlacedIn(ts, task_queue', Live)
  BY <1>1, <1>3, PlaceMoves DEF ts
<1>6. /\ tasks' \in Seq(Tasks \cup {None}) /\ DOMAIN tasks' = DOMAIN ts
      /\ armed' \subseteq Tasks \X DOMAIN tasks'
      /\ done' \subseteq spawned' /\ woken' \subseteq Tasks
      /\ PlacedIn(tasks', task_queue', Live')
      /\ \A j \in DOMAIN ts : tasks'[j] \in woken' => j # SlotFor /\ ts[j] \in woken
      /\ pc' = [pc EXCEPT ![d] = pc[d]] \/ pc' = [pc EXCEPT ![d] = "spawning"]
  BY <1>1, <1>2, <1>3, <1>4, <1>5, PollKeeps
<1>7. pc' \in [Drivers -> Locations]
  BY <1>1, <1>6, Zenon DEF Types, Locations
<1>8. Types' /\ Placed'
  BY <1>1, <1>3, <1>4, <1>6, <1>7 DEF Types, Placed
<1>9. RoundsEnd'
  BY <1>1, <1>3, <1>6 DEF RoundsEnd, Types
<1>10. \A j \in DOMAIN tasks' :
          tasks'[j] \in woken' => j \in DOMAIN tasks /\ tasks[j] \in woken
  BY <1>5, <1>6
<1>11. WokenIsQueued'
  BY <1>1, <1>3, <1>10 DEF WokenIsQueued
<1>q. QED
  BY <1>8, <1>9, <1>11 DEF ExecutorInv

\* A task that was never spawned is nowhere yet.
LEMMA AppendPlaces ==
    ASSUME Types, Placed, NEW t \in Tasks, t \notin spawned, UNCHANGED <<tasks, done>>,
           task_queue' = Append(task_queue, t), spawned' = spawned \cup {t}
    PROVE  Placed' /\ task_queue' \in Seq(Tasks) /\ done' \subseteq spawned' /\ spawned' \subseteq Tasks
<1> DEFINE q == task_queue'
<1>1. /\ q \in Seq(Tasks) /\ Len(q) = Len(task_queue) + 1
      /\ \A i \in 1 .. Len(task_queue) : q[i] = task_queue[i]
      /\ q[Len(task_queue) + 1] = t
  BY AppendProperties DEF Types
<1>2. /\ Len(task_queue) \in Nat /\ DOMAIN task_queue = 1 .. Len(task_queue)
      /\ DOMAIN q = 1 .. (Len(task_queue) + 1)
  BY <1>1, LenProperties DEF Types
<1>3. ~Occurs(t, tasks) /\ ~Occurs(t, task_queue)
  BY DEF Placed, PlacedIn, Live
<1>4. Live' = Live \cup {t}
  BY DEF Live, Types
<1> HIDE DEF q
<1>5. \A i \in DOMAIN q :
          \/ i \in DOMAIN task_queue /\ q[i] = task_queue[i]
          \/ i = Len(task_queue) + 1 /\ q[i] = t
  BY <1>1, <1>2
<1>6. \A i, j \in DOMAIN q : q[i] = q[j] => i = j
  BY <1>3, <1>5 DEF Placed, PlacedIn, Occurs
<1>7. \A i \in DOMAIN tasks, j \in DOMAIN q : tasks[i] # q[j]
  BY <1>3, <1>5 DEF Placed, PlacedIn, Occurs
<1>8. ASSUME NEW u \in Tasks PROVE u \in Live' <=> Occurs(u, tasks) \/ Occurs(u, q)
  <2>1. Occurs(u, q) <=> u = t \/ Occurs(u, task_queue)
    BY <1>1, <1>2, <1>5 DEF Occurs
  <2>q. QED
    BY <1>4, <2>1 DEF Placed, PlacedIn
<1>9. PlacedIn(tasks, q, Live')
  BY <1>6, <1>7, <1>8 DEF Placed, PlacedIn
<1>q. QED
  BY <1>1, <1>9 DEF Placed, Types, q

LEMMA SpawnKeeps ==
    ASSUME ExecutorInv, NEW t \in Tasks, Spawn(t)
    PROVE  ExecutorInv'
<1>1. Types /\ RoundsEnd /\ Placed /\ WokenIsQueued
  BY DEF ExecutorInv
<1>2. /\ Placed' /\ task_queue' \in Seq(Tasks)
      /\ done' \subseteq spawned' /\ spawned' \subseteq Tasks
  BY <1>1, AppendPlaces DEF Spawn, taskVars
<1>3. Types'
  BY <1>1, <1>2 DEF Spawn, Types, taskVars, driverVars
<1>4. RoundsEnd' /\ WokenIsQueued'
  BY <1>1 DEF Spawn, RoundsEnd, WokenIsQueued, Occurs, taskVars, driverVars
<1>q. QED
  BY <1>2, <1>3, <1>4 DEF ExecutorInv

LEMMA SpawnFromPollKeeps ==
    ASSUME ExecutorInv, NEW d \in Drivers, SpawnFromPoll(d)
    PROVE  ExecutorInv'
<1>1. Types /\ RoundsEnd /\ Placed /\ WokenIsQueued
  BY DEF ExecutorInv
<1>2. /\ Placed' /\ task_queue' \in Seq(Tasks)
      /\ done' \subseteq spawned' /\ spawned' \subseteq Tasks
  <2>1. UNCHANGED <<tasks, done>>
    BY DEF SpawnFromPoll, taskVars
  <2>2. ASSUME NEW t \in Tasks \ spawned,
               task_queue' = Append(task_queue, t), spawned' = spawned \cup {t}
        PROVE  /\ Placed' /\ task_queue' \in Seq(Tasks)
               /\ done' \subseteq spawned' /\ spawned' \subseteq Tasks
    BY <1>1, <2>1, <2>2, AppendPlaces
  <2>3. CASE UNCHANGED <<task_queue, spawned>>
    BY <1>1, <2>1, <2>3 DEF Types, Placed, PlacedIn, Live, Occurs
  <2>q. QED
    BY <2>2, <2>3 DEF SpawnFromPoll
<1>3. pc' = [pc EXCEPT ![d] = "poll_each"] /\ "poll_each" \in Locations
  BY DEF SpawnFromPoll, Goto, Locations
<1>4. Types'
  BY <1>1, <1>2, <1>3 DEF SpawnFromPoll, Types, taskVars
<1>5. RoundsEnd'
  BY <1>1, <1>3 DEF SpawnFromPoll, RoundsEnd, Types
<1>6. WokenIsQueued'
  BY <1>1 DEF SpawnFromPoll, WokenIsQueued, Occurs, taskVars
<1>q. QED
  BY <1>2, <1>4, <1>5, <1>6 DEF ExecutorInv

\* The task that is woken is in the one slot whose index is pushed, or it has left
\* that slot and nobody is woken.
LEMMA WakePushKeeps ==
    ASSUME ExecutorInv, NEW t, NEW i, WakePush(t, i)
    PROVE  ExecutorInv'
<1>1. Types /\ RoundsEnd /\ Placed /\ WokenIsQueued
  BY DEF ExecutorInv
<1>2. t \in Tasks /\ i \in DOMAIN tasks /\ i \in Nat
  <2>1. <<t, i>> \in Tasks \X DOMAIN tasks
    BY <1>1 DEF WakePush, Types
  <2>2. DOMAIN tasks \subseteq Nat
    BY <1>1, LenProperties DEF Types
  <2>q. QED
    BY <2>1, <2>2
<1>3. /\ wake_queue' = Append(wake_queue, i) /\ wake_queue' \in Seq(Nat)
      /\ Occurs(i, wake_queue') /\ \A x : Occurs(x, wake_queue) => Occurs(x, wake_queue')
  BY <1>1, <1>2, OccursInAppend, AppendProperties DEF WakePush, PushIndex, Types
<1>4. UNCHANGED <<tasks, task_queue, spawned, done, todo, pc, after>> /\ armed' \subseteq armed
  BY DEF WakePush, driverVars
<1>5. woken' = woken \/ (tasks[i] = t /\ woken' = woken \cup {t})
  BY DEF WakePush
<1>6. Types'
  BY <1>1, <1>2, <1>3, <1>4, <1>5 DEF Types
<1>7. Placed'
  BY <1>1, <1>4 DEF Placed, PlacedIn, Live, Occurs
<1>8. RoundsEnd'
  BY <1>1, <1>4 DEF RoundsEnd
<1>9. t # None
  BY <1>2, ConstantsOK
<1>10. \A j \in DOMAIN tasks : tasks[j] \in woken' => j = i \/ tasks[j] \in woken
  BY <1>1, <1>2, <1>5, <1>9 DEF Placed, PlacedIn
<1>11. WokenIsQueued'
  BY <1>1, <1>3, <1>4, <1>10 DEF WokenIsQueued
<1>q. QED
  BY <1>6, <1>7, <1>8, <1>11 DEF ExecutorInv
\* Waking the drivers changes nothing the invariant speaks of.
LEMMA ElsewhereKeeps ==
    ASSUME ExecutorInv,
           UNCHANGED <<taskVars, task_queue, spawned, wake_queue, todo, pc, after>>
    PROVE  ExecutorInv'
<1>1. Types /\ RoundsEnd /\ Placed /\ WokenIsQueued
  BY DEF ExecutorInv
<1>2. Types' /\ Placed'
  BY <1>1, TasksUntouched DEF Types
<1>3. RoundsEnd' /\ WokenIsQueued'
  BY <1>1 DEF RoundsEnd, WokenIsQueued, Occurs, taskVars
<1>q. QED
  BY <1>2, <1>3 DEF ExecutorInv

LEMMA NextExecutorInv == ExecutorInv /\ [Next]_vars => ExecutorInv'
<1> SUFFICES ASSUME ExecutorInv, [Next]_vars PROVE ExecutorInv'
  OBVIOUS
<1>1. ASSUME NEW t \in Tasks, Spawn(t) PROVE ExecutorInv'
  BY <1>1, SpawnKeeps
<1>2. ASSUME NEW a \in armed, WakePush(a[1], a[2]) PROVE ExecutorInv'
  BY <1>2, WakePushKeeps
<1>3. CASE WakeDrivers
  BY <1>3, ElsewhereKeeps DEF WakeDrivers
<1>4. ASSUME NEW d \in Drivers, Drive(d) PROVE ExecutorInv'
  BY <1>4, LoopStepsKeep, PollAllKeeps, PollEachKeeps, PushTaskKeeps,
     WakePendingKeeps, SpawnFromPollKeeps
  DEF Drive
<1>5. CASE UNCHANGED vars
  BY <1>5, ElsewhereKeeps DEF vars, taskVars
<1>q. QED
  BY <1>1, <1>2, <1>3, <1>4, <1>5 DEF Next

LEMMA ExecutorInvHolds == Spec => []ExecutorInv
BY InitExecutorInv, NextExecutorInv, PTL DEF Spec

-----------------------------------------------------------------------------
(* The drivers: a second invariant, over the first.                        *)

\* The driver has yet to register in this poll of the handle.
BeforeRegister(loc, next) ==
    \/ loc \in {"poll_all", "drain1", "register"}
    \/ loc \in {"poll_each", "spawning"} /\ next = "drain1"

DriverTypes ==
    /\ use \in Uses
    /\ ready_flag \in [Drivers -> BOOLEAN] /\ r \in [Drivers -> BOOLEAN]
    /\ wakers \in [Drivers -> 0 .. use.maxRegistered]
    /\ executor \in Drivers \cup {None} /\ queue \in Drivers \cup {None}
    /\ waking \in 0 .. use.maxWaking

\* What follows a round of polls, and nothing outside of the rounds.
AfterRounds ==
    \A d \in Drivers :
        /\ after[d] \in {"idle", "drain1", "drain2", "return"}
        /\ pc[d] \notin {"poll_each", "spawning"} => after[d] = "idle"

\* Every index there is names a slot, and there are no more slots than tasks.
IndexTypes ==
    /\ Len(tasks) <= Cardinality(Tasks)
    /\ wake_queue \in Seq(Indices) /\ todo \in [Drivers -> Seq(Indices)]

\* A driver that has registered in its poll, or sleeps, has a waker in the list or
\* was woken since.
ServedAt(d) ==
    \/ BeforeRegister(pc[d], after[d]) \/ pc[d] = "finished"
    \/ pc[d] = "spawning" /\ queue = d
    \/ ready_flag[d] \/ wakers[d] > 0

\* One that is polled only when it was woken has no waker in the list when it
\* registers.
SingleAt(d) ==
    /\ wakers[d] <= 1
    /\ ready_flag[d] => wakers[d] = 0
    /\ BeforeRegister(pc[d], after[d]) => ~ready_flag[d] /\ wakers[d] = 0

DriverInv ==
    /\ \A d \in use.drivers : ServedAt(d)
    /\ ~use.redriven => \A d \in Drivers : SingleAt(d)
    /\ armed # {} => use.drivers # {}
    /\ \A d \in Drivers \ use.drivers : pc[d] = "idle" /\ ~ready_flag[d] /\ wakers[d] = 0

ServiceInv == DriverTypes /\ IndexTypes /\ AfterRounds /\ DriverInv /\ QueueIsServed

\* What QueueIsServed says of a driver.
ServesAt(d) ==
    \/ pc[d] \in BeforeWakePending \cup {"finished"}
    \/ pc[d] \in {"poll_each", "spawning"} /\ after[d] = "drain1"
    \/ pc[d] = "spawning" /\ queue = d
    \/ ready_flag[d]
    \/ waking > 0 /\ wakers[d] > 0

LEMMA ServedIs == QueueIsServed <=> (wake_queue # <<>> => \E d \in Drivers : ServesAt(d))
BY DEF QueueIsServed, ServesAt

LEMMA UseIsOK ==
    ASSUME DriverTypes
    PROVE  /\ use.drivers \subseteq Drivers /\ use.redriven \in BOOLEAN
           /\ use.maxQueue \in Nat /\ use.maxWaking \in Nat /\ use.maxRegistered \in Nat \ {0}
           /\ \A d \in Drivers : wakers[d] \in Nat /\ wakers[d] <= use.maxRegistered
BY ConstantsOK DEF DriverTypes, UseOK

\* Only the harts of the use take steps of the loop.
LEMMA DriverIsUsed ==
    ASSUME DriverInv, NEW d \in Drivers, Drive(d)
    PROVE  d \in use.drivers
<1>1. pc[d] # "idle" \/ ready_flag[d]
  BY Zenon DEF Drive, StartPoll, PollAll, PollEach, PollEachEnd, LockQueue, PushTask, UnlockQueue,
         RegisterDriver, WakePending, Return, SpawnFromPoll
<1>q. QED
  BY <1>1 DEF DriverInv

\* A step of one driver leaves the others as they are.
LEMMA DriverMoves ==
    ASSUME DriverInv, QueueIsServed, NEW d \in Drivers, d \in use.drivers,
           use.drivers \subseteq Drivers, UNCHANGED <<use, waking>>,
           \A e \in Drivers \ {d} : /\ pc'[e] = pc[e] /\ after'[e] = after[e]
                                    /\ ready_flag'[e] = ready_flag[e] /\ wakers'[e] = wakers[e]
                                    /\ queue = e => queue' = e,
           ServedAt(d)', ~use.redriven => SingleAt(d)',
           wake_queue' # <<>> => wake_queue # <<>> /\ (ServesAt(d) => ServesAt(d)')
    PROVE  DriverInv' /\ QueueIsServed'
<1>1. ASSUME NEW e \in use.drivers PROVE ServedAt(e)'
  <2>1. CASE e = d
    BY <2>1, Zenon
  <2>2. CASE e # d
    BY <2>2 DEF DriverInv, ServedAt
  <2>q. QED
    BY <2>1, <2>2, Zenon
<1>2. ASSUME ~use.redriven, NEW e \in Drivers PROVE SingleAt(e)'
  <2>1. CASE e = d
    BY <1>2, <2>1
  <2>2. CASE e # d
    BY <1>2, <2>2 DEF DriverInv, SingleAt
  <2>q. QED
    BY <2>1, <2>2
<1>3. \A e \in Drivers \ use.drivers : pc'[e] = "idle" /\ ~ready_flag'[e] /\ wakers'[e] = 0
  BY Zenon DEF DriverInv
<1>4. DriverInv'
  BY <1>1, <1>2, <1>3 DEF DriverInv
<1>5. ASSUME wake_queue' # <<>> PROVE \E e \in Drivers : ServesAt(e)'
  <2>1. PICK e \in Drivers : ServesAt(e)
    BY <1>5, ServedIs
  <2>2. CASE e = d
    BY <1>5, <2>1, <2>2
  <2>3. CASE e # d
    BY <2>1, <2>3 DEF ServesAt
  <2>q. QED
    BY <2>2, <2>3, Zenon
<1>6. QueueIsServed'
  BY <1>5 DEF QueueIsServed, ServesAt
<1>q. QED
  BY <1>4, <1>6

LEMMA LoopServes ==
    ASSUME Types, DriverTypes, AfterRounds, DriverInv, QueueIsServed, NEW d \in Drivers,
           StartPoll(d) \/ PollAll(d) \/ PollEachEnd(d) \/ LockQueue(d) \/ UnlockQueue(d)
               \/ Return(d)
    PROVE  DriverInv' /\ QueueIsServed'
<1>1. d \in use.drivers /\ use.drivers \subseteq Drivers /\ None \notin Drivers
  BY DriverIsUsed, UseIsOK, ConstantsOK DEF Drive
<1>2. ServedAt(d) /\ (~use.redriven => SingleAt(d))
  BY <1>1 DEF DriverInv
<1>3. /\ DOMAIN pc = Drivers /\ DOMAIN after = Drivers /\ DOMAIN ready_flag = Drivers
      /\ DOMAIN wakers = Drivers
  BY DEF Types, DriverTypes
<1>4. UNCHANGED <<use, waking, wake_queue, wakers>>
  BY DEF StartPoll, PollAll, PollEachEnd, LockQueue, UnlockQueue, Return
<1>5. \A e \in Drivers \ {d} : /\ pc'[e] = pc[e] /\ after'[e] = after[e]
                               /\ ready_flag'[e] = ready_flag[e] /\ wakers'[e] = wakers[e]
                               /\ queue = e => queue' = e
  BY <1>1, <1>3 DEF StartPoll, PollAll, PollEachEnd, LockQueue, UnlockQueue, Return, Goto,
                    DropQueue, driverVars
<1>6. CASE StartPoll(d)
  <2>1. pc'[d] = "poll_all" /\ ready_flag[d] /\ ~ready_flag'[d] /\ UNCHANGED <<after, queue>>
    BY <1>3, <1>6 DEF StartPoll, Goto
  <2>2. ServedAt(d)' /\ ServesAt(d)'
    BY <2>1 DEF ServedAt, BeforeRegister, ServesAt, BeforeWakePending
  <2>3. ~use.redriven => SingleAt(d)'
    BY <1>2, <1>4, <2>1 DEF SingleAt
  <2>q. QED
    BY <1>1, <1>4, <1>5, <2>2, <2>3, DriverMoves, Zenon
<1>7. CASE PollAll(d)
  <2>1. /\ pc[d] = "poll_all" /\ pc'[d] = "poll_each" /\ after'[d] = "drain1"
        /\ UNCHANGED <<ready_flag, queue>>
    BY <1>3, <1>7 DEF PollAll, Goto
  <2>2. ServedAt(d)' /\ ServesAt(d)'
    BY <2>1 DEF ServedAt, BeforeRegister, ServesAt
  <2>3. ~use.redriven => SingleAt(d)'
    BY <1>2, <1>4, <2>1 DEF SingleAt, BeforeRegister
  <2>q. QED
    BY <1>1, <1>4, <1>5, <2>2, <2>3, DriverMoves
<1>8. CASE PollEachEnd(d)
  <2>1. /\ pc[d] = "poll_each" /\ pc'[d] = after[d] /\ after'[d] = "idle"
        /\ after[d] \in {"idle", "drain1", "drain2", "return"} /\ UNCHANGED <<ready_flag, queue>>
    BY <1>3, <1>8 DEF PollEachEnd, Goto, AfterRounds
  <2>2. ServedAt(d)' /\ (ServesAt(d) => ServesAt(d)')
    BY <1>2, <1>4, <2>1 DEF ServedAt, BeforeRegister, ServesAt, BeforeWakePending
  <2>3. ~use.redriven => SingleAt(d)'
    BY <1>2, <1>4, <2>1, Zenon DEF SingleAt, BeforeRegister
  <2>q. QED
    BY <1>1, <1>4, <1>5, <2>2, <2>3, DriverMoves
<1>9. CASE LockQueue(d)
  <2>1. pc[d] # "spawning" /\ UNCHANGED <<pc, after, ready_flag>>
    BY <1>9 DEF LockQueue, driverVars
  <2>2. ServedAt(d)' /\ (ServesAt(d) => ServesAt(d)') /\ (~use.redriven => SingleAt(d)')
    BY <1>2, <1>4, <2>1, Zenon DEF ServedAt, ServesAt, SingleAt
  <2>q. QED
    BY <1>1, <1>4, <1>5, <2>2, DriverMoves
<1>10. CASE UnlockQueue(d)
  <2>1. /\ \/ pc[d] = "drain1" /\ pc'[d] = "register"
           \/ pc[d] = "drain2" /\ pc'[d] = "idle"
        /\ UNCHANGED <<after, ready_flag>>
    BY <1>3, <1>10, Zenon DEF UnlockQueue, Goto
  <2>2. ServedAt(d)' /\ (ServesAt(d) => ServesAt(d)')
    BY <1>2, <1>4, <2>1 DEF ServedAt, BeforeRegister, ServesAt, BeforeWakePending
  <2>3. ~use.redriven => SingleAt(d)'
    BY <1>2, <1>4, <2>1 DEF SingleAt, BeforeRegister
  <2>q. QED
    BY <1>1, <1>4, <1>5, <2>2, <2>3, DriverMoves
<1>11. CASE Return(d)
  <2>1. /\ pc[d] = "return" /\ pc'[d] \in {"finished", "idle"} /\ UNCHANGED <<after, queue>>
        /\ ready_flag'[d] = (ready_flag[d] \/ (r[d] /\ use.redriven))
    BY <1>3, <1>11 DEF Return, Goto
  <2>2. ServedAt(d)' /\ (ServesAt(d) => ServesAt(d)')
    BY <1>2, <1>4, <2>1, Zenon DEF ServedAt, BeforeRegister, ServesAt, BeforeWakePending
  <2>3. ~use.redriven => SingleAt(d)'
    BY <1>2, <1>4, <2>1, Zenon DEF SingleAt, BeforeRegister
  <2>q. QED
    BY <1>1, <1>4, <1>5, <2>2, <2>3, DriverMoves
<1>q. QED
  BY <1>6, <1>7, <1>8, <1>9, <1>10, <1>11

\* poll_future leaves the driver where it is, or in a call of spawn.
LEMMA PollGoes ==
    ASSUME NEW d, NEW i, NEW STATE ts, NEW loc, PollFuture(d, i, ts, loc)
    PROVE  pc' = [pc EXCEPT ![d] = loc] \/ pc' = [pc EXCEPT ![d] = "spawning"]
BY DEF PollFuture, Goto

LEMMA PollsServe ==
    ASSUME Types, DriverTypes, AfterRounds, DriverInv, QueueIsServed, NEW d \in Drivers,
           PollEach(d) \/ PushTask(d) \/ SpawnFromPoll(d) \/ WakePending(d) \/ RegisterDriver(d)
    PROVE  DriverInv' /\ QueueIsServed'
<1>1. d \in use.drivers /\ use.drivers \subseteq Drivers /\ None \notin Drivers
  BY DriverIsUsed, UseIsOK, ConstantsOK DEF Drive
<1>2. ServedAt(d) /\ (~use.redriven => SingleAt(d))
  BY <1>1 DEF DriverInv
<1>3. DOMAIN pc = Drivers /\ DOMAIN after = Drivers /\ DOMAIN wakers = Drivers
  BY DEF Types, DriverTypes
<1>4. UNCHANGED <<use, waking, ready_flag, queue>>
  BY DEF PollEach, PushTask, SpawnFromPoll, WakePending, RegisterDriver
<1>5. CASE PollEach(d) \/ PushTask(d)
  <2>1. /\ pc[d] \in {"poll_each", "drain1", "drain2"} /\ UNCHANGED <<after, wakers, wake_queue>>
        /\ pc[d] # "poll_each" => queue = d /\ after[d] = "idle"
    BY <1>5 DEF PollEach, PushTask, AfterRounds
  <2>2. pc' = [pc EXCEPT ![d] = pc[d]] \/ pc' = [pc EXCEPT ![d] = "spawning"]
    <3>1. CASE PollEach(d)
      BY <3>1, PollGoes DEF PollEach
    <3>2. CASE PushTask(d)
      BY <3>2, PollGoes DEF PushTask
    <3>q. QED
      BY <1>5, <3>1, <3>2
  <2>3. /\ pc'[d] = pc[d] \/ pc'[d] = "spawning"
        /\ \A e \in Drivers \ {d} : pc'[e] = pc[e]
    BY <1>3, <2>2
  <2>4. ServedAt(d)' /\ (ServesAt(d) => ServesAt(d)')
    BY <1>2, <1>4, <2>1, <2>3 DEF ServedAt, BeforeRegister, ServesAt, BeforeWakePending
  <2>5. ~use.redriven => SingleAt(d)'
    BY <1>2, <1>4, <2>1, <2>3 DEF SingleAt, BeforeRegister
  <2>6. \A e \in Drivers \ {d} : /\ pc'[e] = pc[e] /\ after'[e] = after[e]
                                 /\ ready_flag'[e] = ready_flag[e] /\ wakers'[e] = wakers[e]
                                 /\ queue = e => queue' = e
    BY <1>4, <2>1, <2>3
  <2>q. QED
    BY <1>1, <1>4, <2>1, <2>4, <2>5, <2>6, DriverMoves, Zenon
<1>6. CASE SpawnFromPoll(d) \/ WakePending(d) \/ RegisterDriver(d)
  <2>1. \A e \in Drivers \ {d} : /\ pc'[e] = pc[e] /\ after'[e] = after[e]
                                 /\ ready_flag'[e] = ready_flag[e] /\ wakers'[e] = wakers[e]
                                 /\ queue = e => queue' = e
    BY <1>3, <1>4, <1>6 DEF SpawnFromPoll, WakePending, RegisterDriver, Goto
  <2>2. CASE SpawnFromPoll(d)
    <3>1. /\ pc[d] = "spawning" /\ pc'[d] = "poll_each" /\ queue # d
          /\ UNCHANGED <<after, wakers, wake_queue>>
      BY <1>1, <1>3, <2>2 DEF SpawnFromPoll, Goto
    <3>2. ServedAt(d)' /\ (ServesAt(d) => ServesAt(d)')
      BY <1>2, <1>4, <3>1 DEF ServedAt, BeforeRegister, ServesAt, BeforeWakePending
    <3>3. ~use.redriven => SingleAt(d)'
      BY <1>2, <1>4, <3>1 DEF SingleAt, BeforeRegister
    <3>q. QED
      BY <1>1, <1>4, <2>1, <3>1, <3>2, <3>3, DriverMoves, Zenon
  <2>3. CASE WakePending(d)
    <3>1. /\ pc[d] = "wake_pending" /\ pc'[d] = "poll_each" /\ after'[d] \in {"return", "drain2"}
          /\ UNCHANGED wakers /\ wake_queue' = <<>>
      BY <1>3, <2>3 DEF WakePending, Goto
    <3>2. ServedAt(d)'
      BY <1>2, <1>4, <3>1 DEF ServedAt, BeforeRegister
    <3>3. ~use.redriven => SingleAt(d)'
      BY <1>2, <1>4, <3>1 DEF SingleAt, BeforeRegister
    <3>q. QED
      BY <1>1, <1>4, <2>1, <3>1, <3>2, <3>3, DriverMoves
  <2>4. CASE RegisterDriver(d)
    <3>1. /\ pc[d] = "register" /\ pc'[d] = "wake_pending" /\ UNCHANGED <<after, wake_queue>>
          /\ wakers'[d] = IF wakers[d] < use.maxRegistered THEN wakers[d] + 1 ELSE wakers[d]
      BY <1>3, <2>4 DEF RegisterDriver, Goto
    <3>2. wakers[d] \in Nat /\ use.maxRegistered \in Nat \ {0}
      BY UseIsOK
    <3>3. wakers'[d] > 0 /\ (wakers[d] = 0 => wakers'[d] <= 1)
      BY <3>1, <3>2
    <3>4. ServedAt(d)' /\ ServesAt(d)'
      BY <3>1, <3>3 DEF ServedAt, ServesAt, BeforeWakePending
    <3>5. ASSUME ~use.redriven PROVE SingleAt(d)'
      <4>1. ~ready_flag[d] /\ wakers[d] = 0
        BY <1>2, <3>1, <3>5 DEF SingleAt, BeforeRegister
      <4>2. ~ready_flag'[d] /\ wakers'[d] <= 1 /\ ~BeforeRegister(pc'[d], after'[d])
        BY <1>4, <3>1, <3>3, <4>1 DEF BeforeRegister
      <4>q. QED
        BY <4>2 DEF SingleAt
    <3>q. QED
      BY <1>1, <1>4, <2>1, <3>1, <3>4, <3>5, DriverMoves
  <2>q. QED
    BY <1>6, <2>2, <2>3, <2>4
<1>q. QED
  BY <1>5, <1>6

\* A wake hands its entry of the list to the flags, and nothing else is lost.
LEMMA WakeDriversServes ==
    ASSUME DriverTypes, DriverInv, QueueIsServed, WakeDrivers
    PROVE  DriverInv' /\ QueueIsServed'
<1>1. UNCHANGED <<use, pc, after, queue, armed, wake_queue>>
  BY DEF WakeDrivers, taskVars
<1>2. \A d \in Drivers : /\ ready_flag'[d] <=> ready_flag[d] \/ wakers[d] > 0
                         /\ wakers'[d] = 0 /\ wakers[d] \in Nat
  BY UseIsOK, Zenon DEF WakeDrivers, WakeAll
<1>3. use.drivers \subseteq Drivers
  BY UseIsOK
<1>4. \A d \in use.drivers : ServedAt(d)'
  BY <1>1, <1>2, <1>3 DEF DriverInv, ServedAt
<1>5. ASSUME ~use.redriven, NEW d \in Drivers PROVE SingleAt(d)'
  <2>1. SingleAt(d)
    BY <1>5 DEF DriverInv
  <2>q. QED
    BY <1>1, <1>2, <2>1 DEF SingleAt
<1>6. DriverInv'
  BY <1>1, <1>2, <1>4, <1>5 DEF DriverInv
<1>7. \A d \in Drivers : ServesAt(d) => ServesAt(d)'
  BY <1>1, <1>2 DEF ServesAt
<1>8. QueueIsServed'
  <2>1. wake_queue' # <<>> => \E d \in Drivers : ServesAt(d)'
    BY <1>1, <1>7, ServedIs
  <2>q. QED
    BY <2>1 DEF QueueIsServed, ServesAt
<1>q. QED
  BY <1>6, <1>8

\* An index is pushed by a waker that some driver has handed out, and every driver
\* of the use still serves the queue.
LEMMA WakePushServes ==
    ASSUME DriverTypes, DriverInv, NEW t, NEW i, WakePush(t, i)
    PROVE  DriverInv' /\ QueueIsServed'
<1>1. UNCHANGED <<use, pc, after, queue, ready_flag, wakers>> /\ armed' \subseteq armed
  BY DEF WakePush, driverVars
<1>2. armed # {} /\ waking' > 0
  BY DEF WakePush, DriverTypes
<1>3. DriverInv'
  BY <1>1, Zenon DEF DriverInv, ServedAt, SingleAt
<1>4. PICK d \in use.drivers : ServedAt(d)
  BY <1>2 DEF DriverInv
<1>5. ServesAt(d)' /\ d \in Drivers
  BY <1>1, <1>2, <1>4, UseIsOK DEF ServedAt, BeforeRegister, ServesAt, BeforeWakePending
<1>6. QueueIsServed'
  BY <1>5, Zenon DEF QueueIsServed, ServesAt
<1>q. QED
  BY <1>3, <1>6

LEMMA ElsewhereServes ==
    ASSUME DriverInv, QueueIsServed,
           UNCHANGED <<use, driverVars, armed, wakers, wake_queue, queue, waking>>
    PROVE  DriverInv' /\ QueueIsServed'
<1>1. DriverInv'
  BY DEF DriverInv, ServedAt, SingleAt, driverVars
<1>q. QED
  BY <1>1 DEF QueueIsServed, driverVars

LEMMA DriverTypesKept ==
    ASSUME DriverTypes, Types, [Next]_vars
    PROVE  DriverTypes'
<1>1. use' = use /\ use.maxRegistered \in Nat /\ use.maxWaking \in Nat
  BY UseIsOK, Zenon DEF Next, Drive, Spawn, WakePush, WakeDrivers, StartPoll, PollAll, PollEach,
     PollEachEnd, LockQueue, PushTask, UnlockQueue, RegisterDriver, WakePending, Return,
     SpawnFromPoll, vars
<1>2. ASSUME NEW t \in Tasks, Spawn(t) PROVE DriverTypes'
  BY <1>2 DEF Spawn, DriverTypes, driverVars
<1>3. ASSUME NEW a \in armed, WakePush(a[1], a[2]) PROVE DriverTypes'
  <2>1. waking' \in 0 .. use.maxWaking
    BY <1>1, <1>3 DEF WakePush, DriverTypes
  <2>q. QED
    BY <1>3, <2>1 DEF WakePush, DriverTypes, driverVars
<1>4. CASE WakeDrivers
  <2>1. waking' \in 0 .. use.maxWaking /\ wakers' \in [Drivers -> 0 .. use.maxRegistered]
    BY <1>1, <1>4 DEF WakeDrivers, WakeAll, DriverTypes
  <2>2. ready_flag' \in [Drivers -> BOOLEAN]
    BY <1>4 DEF WakeDrivers, WakeAll, DriverTypes
  <2>q. QED
    BY <1>4, <2>1, <2>2 DEF WakeDrivers, DriverTypes
<1>5. ASSUME NEW d \in Drivers, Drive(d) PROVE DriverTypes'
  <2>1. CASE StartPoll(d) \/ PollAll(d) \/ PollEachEnd(d) \/ LockQueue(d) \/ WakePending(d)
             \/ SpawnFromPoll(d)
    BY <2>1, Zenon DEF StartPoll, PollAll, PollEachEnd, DropExecutor, LockQueue, WakePending,
                SpawnFromPoll, DriverTypes, driverVars
  <2>2. CASE PollEach(d) \/ PushTask(d)
    <3>1. executor' = executor \/ executor' = d
      BY <2>2 DEF PollEach, PushTask, PollFuture
    <3>q. QED
      BY <2>2, <3>1 DEF PollEach, PushTask, DriverTypes
  <2>3. CASE UnlockQueue(d)
    BY <2>3 DEF UnlockQueue, DropQueue, DriverTypes
  <2>4. CASE RegisterDriver(d)
    <3>1. wakers' \in [Drivers -> 0 .. use.maxRegistered]
      BY <1>1, <2>4 DEF RegisterDriver, DriverTypes
    <3>2. r' \in [Drivers -> BOOLEAN]
      BY <2>4 DEF RegisterDriver, DriverTypes
    <3>q. QED
      BY <2>4, <3>1, <3>2 DEF RegisterDriver, DriverTypes
  <2>5. CASE Return(d)
    <3>1. ready_flag' \in [Drivers -> BOOLEAN] /\ r' \in [Drivers -> BOOLEAN]
      BY <2>5 DEF Return, DriverTypes
    <3>q. QED
      BY <2>5, <3>1 DEF Return, DriverTypes
  <2>q. QED
    BY <1>5, <2>1, <2>2, <2>3, <2>4, <2>5 DEF Drive
<1>6. CASE UNCHANGED vars
  BY <1>6 DEF vars, DriverTypes
<1>q. QED
  BY <1>2, <1>3, <1>4, <1>5, <1>6 DEF Next

LEMMA AfterRoundsKept ==
    ASSUME Types, AfterRounds, [Next]_vars
    PROVE  AfterRounds'
<1>1. DOMAIN pc = Drivers /\ DOMAIN after = Drivers
  BY DEF Types
<1>2. CASE UNCHANGED <<pc, after>>
  BY <1>2 DEF AfterRounds
<1>3. ASSUME NEW d \in Drivers,
             StartPoll(d) \/ PollAll(d) \/ PollEachEnd(d) \/ UnlockQueue(d)
                 \/ RegisterDriver(d) \/ WakePending(d) \/ Return(d) \/ SpawnFromPoll(d)
      PROVE  AfterRounds'
  BY <1>1, <1>3, Zenon
  DEF AfterRounds, StartPoll, PollAll, PollEachEnd, UnlockQueue, RegisterDriver,
                    WakePending, Return, SpawnFromPoll, Goto
<1>4. ASSUME NEW d \in Drivers, PollEach(d) \/ PushTask(d) PROVE AfterRounds'
  <2>1. pc' = [pc EXCEPT ![d] = pc[d]] \/ pc' = [pc EXCEPT ![d] = "spawning"]
    <3>1. CASE PollEach(d)
      BY <3>1, PollGoes DEF PollEach
    <3>2. CASE PushTask(d)
      BY <3>2, PollGoes DEF PushTask
    <3>q. QED
      BY <1>4, <3>1, <3>2
  <2>2. UNCHANGED after
    BY <1>4 DEF PollEach, PushTask
  <2>q. QED
    BY <1>1, <2>1, <2>2 DEF AfterRounds
<1>q. QED
  BY <1>2, <1>3, <1>4, Zenon
  DEF Next, Drive, Spawn, WakePush, WakeDrivers, LockQueue, driverVars, vars

\* push_task adds a slot only when every slot has a task: the tasks in the slots,
\* with the one that is pushed, are different tasks.
LEMMA TableIsBounded ==
    ASSUME Types, Placed, IndexTypes, task_queue # <<>>,
           NEW ts, ts = Place(Head(task_queue))
    PROVE  Len(ts) <= Cardinality(Tasks)
<1>1. /\ ts \in Seq(Tasks \cup {None})
      /\ SlotFor \in DOMAIN ts /\ ts[SlotFor] = Head(task_queue)
      /\ \A j \in DOMAIN ts \ {SlotFor} : j \in DOMAIN tasks /\ ts[j] = tasks[j]
      /\ PlacedIn(ts, Tail(task_queue), Live)
  BY PlaceMoves
<1>2. /\ Len(ts) \in Nat /\ DOMAIN ts = 1 .. Len(ts)
      /\ Len(tasks) \in Nat /\ DOMAIN tasks = 1 .. Len(tasks)
  BY <1>1, LenProperties DEF Types
<1>3. Cardinality(Tasks) \in Nat /\ IsFiniteSet(Tasks) /\ None \notin Tasks
  BY ConstantsOK, FS_CardinalityType
<1>4. CASE FreeSlots # {}
  <2>1. \E i \in FreeSlots : \A j \in FreeSlots : i <= j
    <3>1. FreeSlots \subseteq Nat
      BY <1>2 DEF FreeSlots
    <3>q. QED
      BY <1>4, <3>1, Smallest, Zenon
  <2>2. SlotFor \in DOMAIN tasks
    BY <1>4, <2>1 DEF SlotFor, FreeSlots
  <2>3. DOMAIN ts = DOMAIN tasks
    BY <2>2 DEF Place
  <2>4. Len(ts) = Len(tasks)
    BY <1>2, <2>3
  <2>q. QED
    BY <2>4 DEF IndexTypes
<1>5. CASE FreeSlots = {}
  <2>1. Head(task_queue) \in Tasks
    BY HeadTailProperties DEF Types
  <2>2. \A j \in DOMAIN ts : ts[j] \in Tasks
    <3>1. \A j \in DOMAIN tasks : tasks[j] \in Tasks \cup {None}
      BY LenProperties DEF Types
    <3>2. \A j \in DOMAIN tasks : tasks[j] \in Tasks
      BY <1>5, <3>1 DEF FreeSlots
    <3>q. QED
      BY <1>1, <2>1, <3>2
  <2>3. ts \in [1 .. Len(ts) -> Tasks]
    BY <1>1, <1>2, <2>2
  <2>4. \A i, j \in 1 .. Len(ts) : ts[i] = ts[j] => i = j
    BY <1>1, <1>2, <1>3, <2>2 DEF PlacedIn
  <2>5. ts \in Injection(1 .. Len(ts), Tasks)
    BY <2>3, <2>4 DEF Injection, IsInjective
  <2>6. Cardinality(1 .. Len(ts)) <= Cardinality(Tasks)
    BY <1>3, <2>5, FS_Injection
  <2>7. 1 \in Int /\ Len(ts) \in Int
    BY <1>2
  <2>8. Cardinality(1 .. Len(ts)) = IF 1 > Len(ts) THEN 0 ELSE Len(ts) - 1 + 1
    BY <2>7, FS_Interval, Zenon
  <2>q. QED
    BY <1>2, <2>6, <2>8
<1>q. QED
  BY <1>4, <1>5

LEMMA PollKeepsLength ==
    ASSUME NEW d, NEW i, NEW STATE ts, NEW loc, ts \in Seq(Tasks \cup {None}),
           PollFuture(d, i, ts, loc)
    PROVE  Len(tasks') = Len(ts)
<1>1. tasks' = ts \/ (i \in DOMAIN ts /\ tasks' = [ts EXCEPT ![i] = None])
  BY DEF PollFuture
<1>2. CASE i \in DOMAIN ts /\ tasks' = [ts EXCEPT ![i] = None]
  <2>1. i \in 1 .. Len(ts) /\ None \in Tasks \cup {None}
    BY <1>2, LenProperties
  <2>q. QED
    BY <1>2, <2>1, ExceptSeq
<1>q. QED
  BY <1>1, <1>2

LEMMA IndexTypesKept ==
    ASSUME ExecutorInv, IndexTypes, [Next]_vars
    PROVE  IndexTypes'
<1>1. Types /\ Placed
  BY DEF ExecutorInv
<1>2. Cardinality(Tasks) \in Nat
  BY ConstantsOK, FS_CardinalityType
<1>3. Len(tasks) \in Nat /\ DOMAIN tasks = 1 .. Len(tasks) /\ 1 .. Len(tasks) \subseteq Indices
  BY <1>1, <1>2, LenProperties DEF Types, IndexTypes, Indices
<1>4. CASE UNCHANGED <<tasks, wake_queue, todo>>
  BY <1>4 DEF IndexTypes, Indices
<1>5. ASSUME NEW a \in armed, WakePush(a[1], a[2]) PROVE IndexTypes'
  <2>1. a[2] \in Indices
    BY <1>1, <1>3 DEF Types
  <2>2. wake_queue' \in Seq(Indices)
    BY <1>5, <2>1, AppendProperties DEF WakePush, PushIndex, IndexTypes
  <2>q. QED
    BY <1>5, <2>2 DEF WakePush, driverVars, IndexTypes, Indices
<1>6. ASSUME NEW d \in Drivers, PollAll(d) PROVE IndexTypes'
  <2> DEFINE s == [i \in 1 .. Len(tasks) |-> i]
  <2>1. s \in Seq(Indices)
    BY <1>3
  <2>2. todo' = [todo EXCEPT ![d] = s] /\ UNCHANGED <<tasks, wake_queue>>
    BY <1>6 DEF PollAll, taskVars
  <2> HIDE DEF s
  <2>q. QED
    BY <2>1, <2>2 DEF IndexTypes, Indices
<1>7. ASSUME NEW d \in Drivers, WakePending(d) PROVE IndexTypes'
  <2>1. /\ todo' = [todo EXCEPT ![d] = wake_queue] /\ wake_queue' = <<>> /\ UNCHANGED tasks
    BY <1>7 DEF WakePending, Pending, taskVars
  <2>2. wake_queue' \in Seq(Indices) /\ todo' \in [Drivers -> Seq(Indices)]
    BY <2>1 DEF IndexTypes
  <2>q. QED
    BY <2>1, <2>2 DEF IndexTypes, Indices
<1>8. ASSUME NEW d \in Drivers, PollEach(d) PROVE IndexTypes'
  <2>1. Len(tasks') = Len(tasks)
    BY <1>1, <1>8, PollKeepsLength DEF PollEach, Types
  <2>2. todo[d] \in Seq(Indices) /\ todo[d] # <<>>
    BY <1>8 DEF PollEach, IndexTypes
  <2>3. Tail(todo[d]) \in Seq(Indices)
    BY <2>2, HeadTailProperties
  <2>4. todo' \in [Drivers -> Seq(Indices)]
    BY <1>8, <2>3 DEF PollEach, IndexTypes
  <2>q. QED
    BY <1>8, <2>1, <2>4 DEF PollEach, IndexTypes, Indices
<1>9. ASSUME NEW d \in Drivers, PushTask(d) PROVE IndexTypes'
  <2> DEFINE ts == Place(Head(task_queue))
  <2>1. PollFuture(d, SlotFor, ts, pc[d]) /\ task_queue # <<>> /\ UNCHANGED <<todo, wake_queue>>
    BY <1>9 DEF PushTask
  <2> HIDE DEF ts
  <2>2. ts \in Seq(Tasks \cup {None}) /\ Len(ts) <= Cardinality(Tasks)
    BY <1>1, <2>1, PlaceMoves, TableIsBounded DEF ts
  <2>3. Len(tasks') = Len(ts)
    BY <2>1, <2>2, PollKeepsLength
  <2>q. QED
    BY <2>1, <2>2, <2>3 DEF IndexTypes, Indices
<1>10. ASSUME NEW d \in Drivers,
              StartPoll(d) \/ PollEachEnd(d) \/ LockQueue(d) \/ UnlockQueue(d)
                  \/ RegisterDriver(d) \/ Return(d) \/ SpawnFromPoll(d)
       PROVE  UNCHANGED <<tasks, wake_queue, todo>>
  BY <1>10, Zenon DEF StartPoll, PollEachEnd, LockQueue, UnlockQueue, RegisterDriver, Return,
               SpawnFromPoll, taskVars, driverVars
<1>11. ASSUME NEW d \in Drivers, Drive(d) PROVE IndexTypes'
  BY <1>4, <1>6, <1>7, <1>8, <1>9, <1>10, <1>11 DEF Drive
<1>12. CASE WakeDrivers \/ UNCHANGED vars \/ \E t \in Tasks : Spawn(t)
  BY <1>4, <1>12 DEF WakeDrivers, Spawn, vars, taskVars, driverVars
<1>q. QED
  BY <1>5, <1>11, <1>12 DEF Next

LEMMA NextServiceInv == ExecutorInv /\ ServiceInv /\ [Next]_vars => ServiceInv'
<1> SUFFICES ASSUME ExecutorInv, ServiceInv, [Next]_vars PROVE ServiceInv'
  OBVIOUS
<1>1. Types /\ DriverTypes /\ IndexTypes /\ AfterRounds /\ DriverInv /\ QueueIsServed
  BY DEF ExecutorInv, ServiceInv
<1>2. DriverTypes' /\ IndexTypes' /\ AfterRounds'
  BY <1>1, DriverTypesKept, IndexTypesKept, AfterRoundsKept
<1>3. ASSUME NEW d \in Drivers, Drive(d) PROVE DriverInv' /\ QueueIsServed'
  BY <1>1, <1>3, LoopServes, PollsServe DEF Drive
<1>4. ASSUME NEW a \in armed, WakePush(a[1], a[2]) PROVE DriverInv' /\ QueueIsServed'
  BY <1>1, <1>4, WakePushServes
<1>5. CASE WakeDrivers
  BY <1>1, <1>2, <1>5, WakeDriversServes DEF ServiceInv
<1>6. CASE UNCHANGED vars \/ \E t \in Tasks : Spawn(t)
  <2>1. UNCHANGED <<use, driverVars, armed, wakers, wake_queue, queue, waking>>
    BY <1>6 DEF vars, Spawn, taskVars, driverVars
  <2>q. QED
    BY <1>1, <1>2, <2>1, ElsewhereServes DEF ServiceInv
<1>q. QED
  BY <1>2, <1>3, <1>4, <1>5, <1>6 DEF Next, ServiceInv

LEMMA InitServiceInv == Init => ServiceInv
<1> SUFFICES ASSUME Init PROVE ServiceInv
  OBVIOUS
<1>1. UseOK(use) /\ use \in Uses
  BY ConstantsOK DEF Init
<1>2. 0 \in 0 .. use.maxRegistered /\ 0 \in 0 .. use.maxWaking
  BY <1>1 DEF UseOK
<1>3. DriverTypes
  BY <1>1, <1>2 DEF Init, DriverTypes
<1>4. Cardinality(Tasks) \in Nat
  BY ConstantsOK, FS_CardinalityType
<1>5. IndexTypes
  <2>1. <<>> \in Seq(Indices) /\ Len(tasks) = 0
    BY EmptySeq DEF Init
  <2>2. Len(tasks) <= Cardinality(Tasks)
    BY <1>4, <2>1
  <2>3. wake_queue \in Seq(Indices) /\ todo \in [Drivers -> Seq(Indices)]
    BY <2>1 DEF Init
  <2>q. QED
    BY <2>2, <2>3 DEF IndexTypes
<1>6. AfterRounds /\ QueueIsServed
  BY DEF Init, AfterRounds, QueueIsServed
<1>7. \A d \in Drivers : /\ pc[d] = "idle" /\ wakers[d] = 0
                         /\ ready_flag[d] <=> d \in use.drivers
  BY Zenon DEF Init
<1>8. \A d \in use.drivers : ServedAt(d)
  BY <1>1, <1>7 DEF UseOK, ServedAt
<1>9. \A d \in Drivers : SingleAt(d)
  BY <1>7 DEF SingleAt, BeforeRegister
<1>10. armed = {}
  BY DEF Init
<1>11. DriverInv
  BY <1>7, <1>8, <1>9, <1>10 DEF DriverInv
<1>q. QED
  BY <1>3, <1>5, <1>6, <1>11 DEF ServiceInv

LEMMA ServiceInvHolds == Spec => [](ExecutorInv /\ ServiceInv)
<1>1. ExecutorInv /\ ServiceInv /\ [Next]_vars => (ExecutorInv /\ ServiceInv)'
  BY NextExecutorInv, NextServiceInv
<1>q. QED
  BY <1>1, InitExecutorInv, InitServiceInv, PTL DEF Spec

-----------------------------------------------------------------------------
(* The theorems.                                                           *)

\* spawn, push_task and the reuse of slots by poll_future lose and duplicate no
\* task, for any tasks and any harts that drive the executor.
THEOREM TasksAreKept == Spec => []TasksKept
<1>1. ExecutorInv => TasksKept
  <2> SUFFICES ASSUME ExecutorInv, NEW t \in Tasks
               PROVE  Cardinality(Places(t)) = IF t \in spawned \ done THEN 1 ELSE 0
    BY DEF TasksKept
  <2>1. Placed /\ t # None
    BY ConstantsOK DEF ExecutorInv
  <2> DEFINE slots == {j \in DOMAIN tasks : tasks[j] = t}
             queued == {j \in DOMAIN task_queue : task_queue[j] = t}
  <2>2. CASE t \notin spawned \ done
    <3>1. slots = {} /\ queued = {}
      BY <2>1, <2>2 DEF Placed, PlacedIn, Live, Occurs
    <3>2. Places(t) = {}
      BY <3>1 DEF Places
    <3>q. QED
      BY <2>2, <3>2, FS_EmptySet
  <2>3. CASE t \in spawned \ done
    <3>1. \E x : Places(t) = {x}
      <4>1. CASE Occurs(t, tasks)
        <5>1. PICK i \in DOMAIN tasks : tasks[i] = t
          BY <4>1 DEF Occurs
        <5>2. slots = {i} /\ queued = {}
          BY <2>1, <5>1 DEF Placed, PlacedIn
        <5>3. Places(t) = {<<"slot", i>>}
          BY <5>2 DEF Places
        <5>q. QED
          BY <5>3, Zenon
      <4>2. CASE Occurs(t, task_queue)
        <5>1. PICK i \in DOMAIN task_queue : task_queue[i] = t
          BY <4>2 DEF Occurs
        <5>2. queued = {i} /\ slots = {}
          BY <2>1, <5>1 DEF Placed, PlacedIn
        <5>3. Places(t) = {<<"queue", i>>}
          BY <5>2 DEF Places
        <5>q. QED
          BY <5>3, Zenon
      <4>q. QED
        BY <2>1, <2>3, <4>1, <4>2 DEF Placed, PlacedIn, Live
    <3>q. QED
      BY <2>3, <3>1, FS_Singleton
  <2>q. QED
    BY <2>2, <2>3
<1>q. QED
  BY <1>1, ExecutorInvHolds, PTL

\* wake, poll_all and wake_pending lose no wake-up, for any tasks and any harts
\* that drive the executor: a task that was woken is in the queue or in a round of
\* polls, although old wakers name slots that other tasks have got.
THEOREM WokenAreQueued == Spec => []WokenIsQueued
<1>1. ExecutorInv => WokenIsQueued
  BY DEF ExecutorInv
<1>q. QED
  BY <1>1, ExecutorInvHolds, PTL

\* With an index in wake_queue some driver is awake or about to be woken, whichever
\* harts drive the executor and whenever wakes and polls meet; those whose handle is
\* Ready, and those that wait for themselves, are excepted.
THEOREM QueueIsServedAlways == Spec => []QueueIsServed
<1>1. ServiceInv => QueueIsServed
  BY DEF ServiceInv
<1>q. QED
  BY <1>1, ServiceInvHolds, PTL

\* A driver that is polled when it was woken has at most one waker in the list, there
\* are no more slots than tasks, and every index names a slot that can exist.
THEOREM WakersAreBounded == Spec => []WakersBounded
<1>1. ExecutorInv /\ ServiceInv => WakersBounded
  <2> SUFFICES ASSUME ExecutorInv, ServiceInv PROVE WakersBounded
    OBVIOUS
  <2>1. Types /\ DriverTypes /\ IndexTypes /\ DriverInv
    BY DEF ExecutorInv, ServiceInv
  <2>2. Cardinality(Tasks) \in Nat
    BY ConstantsOK, FS_CardinalityType
  <2>3. DOMAIN tasks \subseteq Indices
    BY <2>1, <2>2, LenProperties DEF Types, IndexTypes, Indices
  <2>4. armed \subseteq Tasks \X Indices
    BY <2>1, <2>3 DEF Types
  <2>5. TypeOK
    BY <2>1, <2>4 DEF Types, DriverTypes, IndexTypes, TypeOK
  <2>q. QED
    BY <2>1, <2>5 DEF WakersBounded, DriverInv, SingleAt
<1>q. QED
  BY <1>1, ServiceInvHolds, PTL
=============================================================================
