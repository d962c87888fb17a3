------------------------- MODULE LocalExecutorProofs -------------------------
(****************************************************************************)
(* The proofs that the executor of one hart does not panic, forgets no wake *)
(* and no notification, and starts what was spawned, for any tasks.         *)
(*                                                                          *)
(* The invariants are stated of a memory s, so that they also speak of the  *)
(* memory between the placing of a task and its first poll.                 *)
(****************************************************************************)
EXTENDS LocalExecutor, FiniteSetTheorems, NaturalsInduction, WellFoundedInduction, TLAPS

\* What the memory may hold.
Memory ==
    [tasks : Seq(TaskNames \cup {"none"}), task_queue : Seq(TaskNames),
     wake_queue : Seq(Nat), wakers : 0..MaxWakers,
     ready_flag : BOOLEAN, sends : Nat, yielded : SUBSET Spawners, panic : BOOLEAN,
     transmit : [flag : BOOLEAN, waker : Nat], receive : [flag : BOOLEAN, waker : Nat]]

Locations == {"idle", "poll_all", "push_first", "wake_pending", "push_second",
              "return", "finished", "panic"}

Polling == pc \in {"poll_all", "wake_pending"}

Pushing == pc \in {"push_first", "push_second"}

\* What the handle has in hand at each location.  In push_task the queue is
\* borrowed, and nothing has been spawned since it was drained.
Types ==
    /\ use \in Uses /\ m \in Memory /\ pc \in Locations
    /\ queue \in BOOLEAN /\ r \in BOOLEAN
    /\ Pushing => queue
    /\ queue => Pushing \/ pc = "panic"
    /\ pc # "panic" => ~m.panic
    /\ Polling => todo \in Seq(DOMAIN m.tasks)
    /\ Pushing => todo \in Seq(TaskNames)
    /\ Pushing \/ pc = "return" => m.task_queue = <<>>

\* A waker names a slot there is.
WakersName(s) ==
    /\ {s.transmit.waker, s.receive.waker} \subseteq {None} \cup DOMAIN s.tasks
    /\ Range(s.wake_queue) \subseteq DOMAIN s.tasks

\* No two slots have the same task.
Apart(s) ==
    \A i, j \in DOMAIN s.tasks : s.tasks[i] = s.tasks[j] /\ s.tasks[i] # "none" => i = j

\* The tasks that have no slot yet: those left to push, or those in the queue.
Unplaced == IF Pushing THEN todo ELSE m.task_queue

\* A task that has no slot yet is in one place and has never been polled.
Placed(s, unplaced) ==
    /\ \A i, j \in DOMAIN unplaced : unplaced[i] = unplaced[j] => i = j
    /\ Range(s.tasks) \cap Range(unplaced) = {}
    /\ s.yielded \cap Range(unplaced) = {}

\* A child comes when its spawner goes.
ChildrenCome(s, unplaced) ==
    \A t \in Spawners : t \in Range(s.tasks) \cup Range(unplaced) =>
        Child[t] \notin Range(s.tasks) \cup Range(unplaced)

\* A sender finds the waker of a receiver, and so does a notification when a
\* receiver waits in one of the slots.
Known(s, slots) ==
    /\ s.transmit.flag => s.receive.waker # None
    /\ \A i \in slots : s.tasks[i] \in Receivers => s.receive.waker # None

\* Up to the registration of the driver: if a receiver waits in one of the slots,
\* which have been polled, then one of them has left the waker, and a notification
\* has queued it.
FirstHalf(s, slots) ==
    \A i \in slots : s.tasks[i] \in Receivers =>
        /\ s.receive.waker \in slots /\ s.tasks[s.receive.waker] \in Receivers
        /\ s.receive.flag => s.receive.waker \in Range(s.wake_queue)

\* From there on: a wake finds the driver registered or awake, and a notification
\* that a receiver waits for has woken the driver, or wakes the slot of a receiver
\* that is one of the rest.
SecondHalf(s, slots, rest) ==
    /\ s.wakers > 0 \/ s.ready_flag
    /\ s.wake_queue # <<>> => s.ready_flag
    /\ s.receive.flag /\ (\E i \in slots : s.tasks[i] \in Receivers) =>
           \/ s.ready_flag
           \/ /\ s.receive.waker \in rest \cap DOMAIN s.tasks
              /\ s.tasks[s.receive.waker] \in Receivers

\* poll_all takes the slots in their order.
InOrder == \A j \in DOMAIN todo : todo[j] = Len(m.tasks) - Len(todo) + j

NotificationInv ==
    /\ pc = "poll_all" => InOrder /\ FirstHalf(m, 1..(Len(m.tasks) - Len(todo)))
    /\ pc = "push_first" => FirstHalf(m, DOMAIN m.tasks)
    /\ pc = "wake_pending" => SecondHalf(m, DOMAIN m.tasks, Range(todo))
    /\ pc \in {"push_second", "return", "idle"} => SecondHalf(m, DOMAIN m.tasks, {})

LocalInv ==
    /\ Types /\ WakersName(m) /\ Apart(m)
    /\ pc # "panic" =>
        /\ Placed(m, Unplaced) /\ ChildrenCome(m, Unplaced)
        /\ Known(m, DOMAIN m.tasks) /\ NotificationInv
    /\ NoPanic /\ SpawnedIsStarted

-----------------------------------------------------------------------------
\* What the tasks' names and the bounds are.
LEMMA Constants ==
    /\ "none" \notin TaskNames
    /\ Senders \cap Receivers = {} /\ (Senders \cup Receivers) \cap Spawners = {}
    /\ Children \cap (Senders \cup Receivers \cup Spawners) = {}
    /\ \A t, u \in Spawners : Child[t] = Child[u] => t = u
    /\ \A t \in Spawners : Child[t] \in Children
    /\ MaxWakers \in Nat \ {0}
BY ConstantsOK DEF Children

\* A driver that was registered, or awake already, is awake.
Woke(s, t) == s.ready_flag \/ s.wakers > 0 => t.ready_flag

Sleeps(s, t) ==
    t.wake_queue = s.wake_queue /\ t.wakers = s.wakers /\ t.ready_flag = s.ready_flag

Queued(s, t, slots) ==
    /\ Sleeps(s, t) \/ Woke(s, t)
    /\ Range(s.wake_queue) \subseteq Range(t.wake_queue)
    /\ Range(t.wake_queue) \subseteq Range(s.wake_queue) \cup slots

KeepsTasks(s, t) ==
    t.tasks = s.tasks /\ t.task_queue = s.task_queue /\ t.yielded = s.yielded

\* The fields a wake writes keep their types.
LEMMA StoredWake ==
    ASSUME NEW s \in Memory, NEW v \in Seq(Nat), NEW b \in BOOLEAN, NEW n \in 0..MaxWakers
    PROVE  [s EXCEPT !.wake_queue = v, !.ready_flag = b, !.wakers = n] \in Memory
BY DEF Memory

\* rc_wake_by_ref queues the slot and wakes the drivers that are registered.
LEMMA WakeIs ==
    ASSUME NEW s \in Memory, NEW i \in Nat
    PROVE  /\ Wake(s, i) \in Memory /\ KeepsTasks(s, Wake(s, i))
           /\ Woke(s, Wake(s, i)) /\ Queued(s, Wake(s, i), {i})
           /\ i \in Range(Wake(s, i).wake_queue)
           /\ Wake(s, i).sends = s.sends /\ Wake(s, i).panic = s.panic
           /\ Wake(s, i).transmit = s.transmit /\ Wake(s, i).receive = s.receive
<1> DEFINE t == Wake(s, i)
<1>1. /\ s.wake_queue \in Seq(Nat) /\ s.wakers \in 0..MaxWakers /\ s.ready_flag \in BOOLEAN
      /\ MaxWakers \in Nat
  BY Constants DEF Memory
<1>2. t = [s EXCEPT !.wake_queue = Append(s.wake_queue, i),
                    !.ready_flag = s.ready_flag \/ s.wakers > 0, !.wakers = 0]
  BY DEF Wake
<1>3. /\ t.wake_queue = Append(s.wake_queue, i) /\ t.wakers = 0
      /\ t.ready_flag = (s.ready_flag \/ s.wakers > 0)
      /\ t.tasks = s.tasks /\ t.task_queue = s.task_queue /\ t.sends = s.sends
      /\ t.yielded = s.yielded /\ t.panic = s.panic
      /\ t.transmit = s.transmit /\ t.receive = s.receive
  BY <1>2 DEF Memory
<1>4. t \in Memory
  <2>1. Append(s.wake_queue, i) \in Seq(Nat) /\ 0 \in 0..MaxWakers
    BY <1>1
  <2>2. PICK b \in BOOLEAN : t = [s EXCEPT !.wake_queue = Append(s.wake_queue, i),
                                           !.ready_flag = b, !.wakers = 0]
    BY <1>2, Zenon
  <2>3. [s EXCEPT !.wake_queue = Append(s.wake_queue, i), !.ready_flag = b, !.wakers = 0]
            \in Memory
    BY <2>1, StoredWake, Zenon
  <2>q. QED
    BY <2>2, <2>3, Zenon
<1>5. /\ DOMAIN t.wake_queue = 1..(Len(s.wake_queue) + 1)
      /\ t.wake_queue[Len(s.wake_queue) + 1] = i
      /\ \A k \in DOMAIN s.wake_queue : t.wake_queue[k] = s.wake_queue[k]
      /\ DOMAIN s.wake_queue = 1..Len(s.wake_queue) /\ Len(s.wake_queue) \in Nat
  BY <1>1, <1>3
<1>6. Range(t.wake_queue) = Range(s.wake_queue) \cup {i}
  BY <1>5 DEF Range
<1>7. Woke(s, t)
  BY <1>3 DEF Woke
<1>q. QED
  BY <1>3, <1>4, <1>6, <1>7 DEF Queued, KeepsTasks

\* try_wake_tx wakes at most the slot that the transmit half names.
LEMMA TryWakeTxIs ==
    ASSUME NEW s \in Memory
    PROVE  /\ TryWakeTx(s) \in Memory /\ KeepsTasks(s, TryWakeTx(s))
           /\ Queued(s, TryWakeTx(s), {s.transmit.waker} \ {None})
           /\ TryWakeTx(s).transmit.waker = s.transmit.waker
           /\ TryWakeTx(s).receive = s.receive /\ TryWakeTx(s).panic = s.panic
<1> DEFINE t == [s EXCEPT !.transmit.flag = TRUE]
<1>1. /\ t \in Memory /\ KeepsTasks(s, t) /\ Sleeps(s, t)
      /\ t.transmit.waker = s.transmit.waker /\ t.transmit.waker \in Nat
      /\ t.receive = s.receive /\ t.panic = s.panic
  BY DEF Memory, KeepsTasks, Sleeps
<1> HIDE DEF t
<1>2. CASE t.transmit.waker = None
  <2>1. TryWakeTx(s) = t
    BY <1>2 DEF TryWakeTx, t
  <2>q. QED
    BY <1>1, <2>1 DEF Queued, Sleeps
<1>3. CASE t.transmit.waker # None
  <2>1. TryWakeTx(s) = Wake(t, t.transmit.waker)
    BY <1>3 DEF TryWakeTx, t
  <2>2. PICK u : u = Wake(t, t.transmit.waker)
    OBVIOUS
  <2>3. /\ u \in Memory /\ KeepsTasks(t, u)
        /\ Woke(t, u) /\ Queued(t, u, {t.transmit.waker})
        /\ u.transmit = t.transmit /\ u.receive = t.receive /\ u.panic = t.panic
    BY <1>1, <2>2, WakeIs, Zenon
  <2>4. Woke(s, u) /\ KeepsTasks(s, u)
    BY <1>1, <2>3 DEF Sleeps, Woke, KeepsTasks
  <2>5. Queued(s, u, {s.transmit.waker} \ {None})
    BY <1>1, <1>3, <2>3, <2>4 DEF Queued, Sleeps
  <2>q. QED
    BY <1>1, <2>1, <2>2, <2>3, <2>4, <2>5
<1>q. QED
  BY <1>2, <1>3

\* try_wake_rx wakes the slot that the receive half names, if it names one.
LEMMA TryWakeRxIs ==
    ASSUME NEW s \in Memory
    PROVE  /\ TryWakeRx(s) \in Memory /\ KeepsTasks(s, TryWakeRx(s))
           /\ Queued(s, TryWakeRx(s), {s.receive.waker} \ {None})
           /\ TryWakeRx(s).receive.waker = s.receive.waker
           /\ s.receive.waker # None => /\ Woke(s, TryWakeRx(s))
                                        /\ s.receive.waker \in Range(TryWakeRx(s).wake_queue)
           /\ TryWakeRx(s).transmit = s.transmit /\ TryWakeRx(s).panic = s.panic
<1> DEFINE t == [s EXCEPT !.receive.flag = TRUE]
<1>1. /\ t \in Memory /\ KeepsTasks(s, t) /\ Sleeps(s, t)
      /\ t.receive.waker = s.receive.waker /\ t.receive.waker \in Nat
      /\ t.transmit = s.transmit /\ t.panic = s.panic
  BY DEF Memory, KeepsTasks, Sleeps
<1> HIDE DEF t
<1>2. CASE t.receive.waker = None
  <2>1. TryWakeRx(s) = t
    BY <1>2 DEF TryWakeRx, t
  <2>q. QED
    BY <1>1, <1>2, <2>1 DEF Queued, Sleeps
<1>3. CASE t.receive.waker # None
  <2>1. TryWakeRx(s) = Wake(t, t.receive.waker)
    BY <1>3 DEF TryWakeRx, t
  <2>2. PICK u : u = Wake(t, t.receive.waker)
    OBVIOUS
  <2>3. /\ u \in Memory /\ KeepsTasks(t, u)
        /\ Woke(t, u) /\ Queued(t, u, {t.receive.waker})
        /\ t.receive.waker \in Range(u.wake_queue)
        /\ u.transmit = t.transmit /\ u.receive = t.receive /\ u.panic = t.panic
    BY <1>1, <2>2, WakeIs, Zenon
  <2>4. Woke(s, u) /\ KeepsTasks(s, u)
    BY <1>1, <2>3 DEF Sleeps, Woke, KeepsTasks
  <2>5. Queued(s, u, {s.receive.waker} \ {None})
    BY <1>1, <1>3, <2>3, <2>4 DEF Queued, Sleeps
  <2>q. QED
    BY <1>1, <2>1, <2>2, <2>3, <2>4, <2>5
<1>q. QED
  BY <1>2, <1>3

-----------------------------------------------------------------------------
(* What a poll does.                                                       *)

ReceiveEffect(s, t, i) ==
    IF s.tasks[i] \in Receivers
    THEN /\ ~t.receive.flag
         /\ \/ t.receive.waker = i /\ t.tasks = s.tasks
            \/ t.receive.waker = s.receive.waker /\ t.tasks[i] = "none"
    ELSE /\ t.receive.waker = s.receive.waker
         /\ \/ t.receive.flag = s.receive.flag
            \/ t.panic
            \/ t.receive.waker \in Range(t.wake_queue) /\ Woke(s, t)

Spawns(s, i) == s.tasks[i] \in Spawners /\ (use.first \/ s.tasks[i] \in s.yielded)

SpawnEffect(s, t, i) ==
    \/ t.task_queue = s.task_queue /\ t.yielded \subseteq s.yielded \cup {s.tasks[i]}
    \/ /\ Spawns(s, i) /\ t.tasks[i] = "none" /\ t.panic = queue
       /\ t.task_queue = Append(s.task_queue, Child[s.tasks[i]]) /\ t.yielded = s.yielded

Effect(s, t, i) ==
    /\ t \in Memory
    /\ t.tasks = s.tasks \/ t.tasks = [s.tasks EXCEPT ![i] = "none"]
    /\ Queued(s, t, {i, s.receive.waker, s.transmit.waker} \ {None})
    /\ t.transmit.waker \in {s.transmit.waker, i}
    /\ t.transmit.flag => s.transmit.flag \/ t.receive.waker = i
    /\ ReceiveEffect(s, t, i) /\ SpawnEffect(s, t, i)
    /\ t.panic => \/ s.panic
                  \/ queue /\ Spawns(s, i)
                  \/ s.transmit.flag /\ s.receive.waker = None

\* A task that is Ready leaves its slot empty and touches nothing else.
LEMMA FinishIs ==
    ASSUME NEW s \in Memory, NEW i \in DOMAIN s.tasks
    PROVE  /\ Finish(s, i) \in Memory /\ Sleeps(s, Finish(s, i))
           /\ Finish(s, i).tasks = [s.tasks EXCEPT ![i] = "none"]
           /\ Finish(s, i).tasks[i] = "none"
           /\ Finish(s, i).task_queue = s.task_queue /\ Finish(s, i).yielded = s.yielded
           /\ Finish(s, i).sends = s.sends /\ Finish(s, i).panic = s.panic
           /\ Finish(s, i).transmit = s.transmit /\ Finish(s, i).receive = s.receive
<1>1. /\ s.tasks \in Seq(TaskNames \cup {"none"})
      /\ Finish(s, i) = [s EXCEPT !.tasks = [s.tasks EXCEPT ![i] = "none"]]
  BY DEF Memory, Finish
<1>2. /\ [s.tasks EXCEPT ![i] = "none"] \in Seq(TaskNames \cup {"none"})
      /\ [s.tasks EXCEPT ![i] = "none"][i] = "none"
  BY <1>1
<1>q. QED
  BY <1>1, <1>2 DEF Memory, Sleeps

\* A receiver takes the notification, and ends or leaves its waker.
LEMMA PollReceiverIs ==
    ASSUME NEW s \in Memory, NEW i \in DOMAIN s.tasks, s.tasks[i] \in Receivers,
           NEW t \in PollReceiver(s, i)
    PROVE  Effect(s, t, i)
<1>t. i \in Nat /\ i # None
  BY DEF Memory, None
<1> DEFINE s1 == [s EXCEPT !.receive.flag = FALSE]
<1>1. /\ s1 \in Memory /\ KeepsTasks(s, s1) /\ Sleeps(s, s1)
      /\ ~s1.receive.flag /\ s1.receive.waker = s.receive.waker
      /\ s1.transmit = s.transmit /\ s1.panic = s.panic
  BY DEF Memory, KeepsTasks, Sleeps
<1> HIDE DEF s1
<1>2. ASSUME t = Finish(s1, i) PROVE Effect(s, t, i)
  <2>1. i \in DOMAIN s1.tasks
    BY <1>1 DEF KeepsTasks
  <2>2. /\ t \in Memory /\ Sleeps(s1, t) /\ t.tasks = [s1.tasks EXCEPT ![i] = "none"]
        /\ t.tasks[i] = "none" /\ t.task_queue = s1.task_queue /\ t.yielded = s1.yielded
        /\ t.panic = s1.panic /\ t.transmit = s1.transmit /\ t.receive = s1.receive
    BY <1>1, <1>2, <2>1, FinishIs, Zenon
  <2>3. Sleeps(s, t)
    BY <1>1, <2>2 DEF Sleeps
  <2>4. Queued(s, t, {i, s.receive.waker, s.transmit.waker} \ {None})
    BY <2>3 DEF Queued, Sleeps
  <2>5. ReceiveEffect(s, t, i) /\ SpawnEffect(s, t, i)
    BY <1>1, <2>2 DEF ReceiveEffect, SpawnEffect, KeepsTasks
  <2>q. QED
    BY <1>1, <2>2, <2>4, <2>5 DEF Effect, KeepsTasks
<1>3. ASSUME NEW u \in Memory, KeepsTasks(s, u), Sleeps(s, u), ~u.receive.flag,
             u.transmit = s.transmit, u.panic = s.panic, t = RegisterRx(u, i)
      PROVE  Effect(s, t, i)
  <2>1. PICK v : v = [u EXCEPT !.receive.waker = i]
    OBVIOUS
  <2>2. /\ v \in Memory /\ KeepsTasks(s, v) /\ Sleeps(s, v)
        /\ ~v.receive.flag /\ v.receive.waker = i
        /\ v.transmit = s.transmit /\ v.panic = s.panic
    BY <1>t, <1>3, <2>1 DEF Memory, KeepsTasks, Sleeps
  <2>3. t = TryWakeTx(v)
    BY <1>3, <2>1 DEF RegisterRx
  <2>4. /\ t \in Memory /\ KeepsTasks(v, t) /\ Queued(v, t, {v.transmit.waker} \ {None})
        /\ t.transmit.waker = v.transmit.waker
        /\ t.receive = v.receive /\ t.panic = v.panic
    BY <2>2, <2>3, TryWakeTxIs, Zenon
  <2>5. Sleeps(s, t) \/ Woke(s, t)
    BY <2>2, <2>4 DEF Queued, Sleeps, Woke
  <2>6. Queued(s, t, {i, s.receive.waker, s.transmit.waker} \ {None})
    BY <2>2, <2>4, <2>5 DEF Queued, Sleeps
  <2>7. ReceiveEffect(s, t, i) /\ SpawnEffect(s, t, i)
    BY <2>2, <2>4 DEF ReceiveEffect, SpawnEffect, KeepsTasks
  <2>q. QED
    BY <2>2, <2>4, <2>6, <2>7 DEF Effect, KeepsTasks
<1>4. CASE s.receive.flag
  <2>1. t = Finish(s1, i) \/ t = RegisterRx(s1, i)
    BY <1>4 DEF PollReceiver, s1
  <2>q. QED
    BY <1>1, <1>2, <1>3, <2>1
<1>5. CASE ~s.receive.flag
  <2>1. t = RegisterRx(s, i)
    BY <1>5 DEF PollReceiver
  <2>2. KeepsTasks(s, s) /\ Sleeps(s, s)
    BY DEF KeepsTasks, Sleeps
  <2>q. QED
    BY <1>3, <1>5, <2>1, <2>2
<1>q. QED
  BY <1>4, <1>5

\* A child ends.
LEMMA PollChildIs ==
    ASSUME NEW s \in Memory, NEW i \in DOMAIN s.tasks, s.tasks[i] \notin Receivers,
           NEW t \in PollChild(s, i)
    PROVE  Effect(s, t, i)
<1>1. t = Finish(s, i)
  BY DEF PollChild
<1>2. /\ t \in Memory /\ Sleeps(s, t) /\ t.tasks = [s.tasks EXCEPT ![i] = "none"]
      /\ t.task_queue = s.task_queue /\ t.yielded = s.yielded
      /\ t.panic = s.panic /\ t.transmit = s.transmit /\ t.receive = s.receive
  BY <1>1, FinishIs, Zenon
<1>3. Queued(s, t, {i, s.receive.waker, s.transmit.waker} \ {None})
  BY <1>2 DEF Queued, Sleeps
<1>4. ReceiveEffect(s, t, i) /\ SpawnEffect(s, t, i)
  BY <1>2 DEF ReceiveEffect, SpawnEffect
<1>q. QED
  BY <1>2, <1>3, <1>4 DEF Effect

\* A sender leaves its waker, or notifies the receiver that has left its own.
LEMMA PollSenderIs ==
    ASSUME NEW s \in Memory, NEW i \in DOMAIN s.tasks, s.tasks[i] \in Senders,
           NEW t \in PollSender(s, i)
    PROVE  Effect(s, t, i)
<1>t. i \in Nat /\ i # None /\ s.tasks[i] \notin Receivers
  BY Constants DEF Memory, None
<1>1. CASE ~s.transmit.flag
  <2>1. t = [s EXCEPT !.transmit.waker = i]
    BY <1>1 DEF PollSender, RegisterTx
  <2>2. /\ t \in Memory /\ KeepsTasks(s, t) /\ Sleeps(s, t)
        /\ t.transmit.waker = i /\ t.transmit.flag = s.transmit.flag
        /\ t.receive = s.receive /\ t.panic = s.panic
    BY <1>t, <2>1 DEF Memory, KeepsTasks, Sleeps
  <2>3. Queued(s, t, {i, s.receive.waker, s.transmit.waker} \ {None})
    BY <2>2 DEF Queued, Sleeps
  <2>4. ReceiveEffect(s, t, i) /\ SpawnEffect(s, t, i)
    BY <1>t, <2>2 DEF ReceiveEffect, SpawnEffect, KeepsTasks
  <2>q. QED
    BY <2>2, <2>3, <2>4 DEF Effect, KeepsTasks
<1>2. CASE s.transmit.flag
  <2>1. PICK u : u = TryWakeRx(s)
    OBVIOUS
  <2>2. /\ u \in Memory /\ KeepsTasks(s, u) /\ Queued(s, u, {s.receive.waker} \ {None})
        /\ u.receive.waker = s.receive.waker
        /\ s.receive.waker # None => Woke(s, u) /\ s.receive.waker \in Range(u.wake_queue)
        /\ u.transmit = s.transmit /\ u.panic = s.panic
    BY <2>1, TryWakeRxIs, Zenon
  <2>3. PICK v : v = [WakeRx(s) EXCEPT !.sends = @ + 1]
    OBVIOUS
  <2>4. PICK b \in BOOLEAN : /\ b => u.panic \/ s.receive.waker = None
                             /\ s.receive.waker = None => b
                             /\ v = [[u EXCEPT !.panic = b] EXCEPT !.sends = @ + 1]
    BY <2>1, <2>3, Zenon DEF WakeRx
  <2>5. /\ v \in Memory /\ KeepsTasks(u, v) /\ Sleeps(u, v)
        /\ v.receive = u.receive /\ v.transmit = u.transmit /\ v.panic = b
    <3>1. PICK w : w = [u EXCEPT !.panic = b]
      OBVIOUS
    <3>2. /\ w \in Memory /\ KeepsTasks(u, w) /\ Sleeps(u, w)
          /\ w.receive = u.receive /\ w.transmit = u.transmit /\ w.panic = b
      BY <2>2, <3>1 DEF Memory, KeepsTasks, Sleeps
    <3>3. PICK n \in Nat : v = [w EXCEPT !.sends = n]
      <4>1. v = [w EXCEPT !.sends = w.sends + 1]
        BY <2>4, <3>1
      <4>2. w.sends + 1 \in Nat
        BY <3>2 DEF Memory
      <4>q. QED
        BY <4>1, <4>2
    <3>4. /\ v \in Memory /\ KeepsTasks(w, v) /\ Sleeps(w, v)
          /\ v.receive = w.receive /\ v.transmit = w.transmit /\ v.panic = w.panic
      BY <3>2, <3>3 DEF Memory, KeepsTasks, Sleeps
    <3>q. QED
      BY <3>2, <3>4 DEF KeepsTasks, Sleeps
  <2>6. /\ KeepsTasks(s, v) /\ Queued(s, v, {s.receive.waker} \ {None})
        /\ v.receive.waker = s.receive.waker /\ v.transmit = s.transmit
        /\ s.receive.waker # None => Woke(s, v) /\ s.receive.waker \in Range(v.wake_queue)
        /\ v.panic => s.panic \/ s.receive.waker = None
        /\ s.receive.waker = None => v.panic
    <3>1. KeepsTasks(s, v) /\ v.receive.waker = s.receive.waker /\ v.transmit = s.transmit
      BY <2>2, <2>5 DEF KeepsTasks
    <3>2. (v.panic => s.panic \/ s.receive.waker = None) /\ (s.receive.waker = None => v.panic)
      BY <2>2, <2>4, <2>5, Zenon
    <3>3. Sleeps(s, u) => Sleeps(s, v)
      BY <2>5 DEF Sleeps
    <3>4. Woke(s, u) => Woke(s, v)
      BY <2>5 DEF Sleeps, Woke
    <3>5. v.wake_queue = u.wake_queue
      BY <2>5 DEF Sleeps
    <3>q. QED
      BY <2>2, <3>1, <3>2, <3>3, <3>4, <3>5, Zenon DEF Queued
  <2>7. t = Finish(v, i) \/ t = Wake(v, i)
    BY <1>2, <2>3 DEF PollSender
  <2>8. CASE t = Finish(v, i)
    <3>1. i \in DOMAIN v.tasks
      BY <2>6 DEF KeepsTasks
    <3>2. /\ t \in Memory /\ Sleeps(v, t) /\ t.tasks = [v.tasks EXCEPT ![i] = "none"]
          /\ t.task_queue = v.task_queue /\ t.yielded = v.yielded
          /\ t.panic = v.panic /\ t.transmit = v.transmit /\ t.receive = v.receive
      BY <2>5, <2>8, <3>1, FinishIs, Zenon
    <3>3. /\ Queued(s, t, {s.receive.waker} \ {None})
          /\ s.receive.waker # None => Woke(s, t) /\ s.receive.waker \in Range(t.wake_queue)
      BY <2>6, <3>2 DEF Queued, Sleeps, Woke
    <3>4. Queued(s, t, {i, s.receive.waker, s.transmit.waker} \ {None})
      BY <3>3 DEF Queued
    <3>5. ReceiveEffect(s, t, i)
      BY <1>t, <2>6, <3>2, <3>3, Zenon DEF ReceiveEffect
    <3>6. SpawnEffect(s, t, i)
      BY <2>6, <3>2 DEF SpawnEffect, KeepsTasks
    <3>7. t.panic => s.panic \/ (s.transmit.flag /\ s.receive.waker = None)
      BY <1>2, <2>6, <3>2, Zenon
    <3>q. QED
      BY <1>2, <2>6, <3>2, <3>4, <3>5, <3>6, <3>7 DEF Effect, KeepsTasks
  <2>9. CASE t = Wake(v, i)
    <3>1. /\ t \in Memory /\ KeepsTasks(v, t) /\ Woke(v, t) /\ Queued(v, t, {i})
          /\ t.panic = v.panic /\ t.transmit = v.transmit /\ t.receive = v.receive
      BY <1>t, <2>5, <2>9, WakeIs, Zenon
    <3>2. Woke(s, t)
      BY <2>6, <3>1 DEF Queued, Sleeps, Woke
    <3>3. Queued(s, t, {i, s.receive.waker, s.transmit.waker} \ {None})
      BY <1>t, <2>6, <3>1, <3>2 DEF Queued
    <3>4. s.receive.waker # None => s.receive.waker \in Range(t.wake_queue)
      BY <2>6, <3>1 DEF Queued
    <3>5. ReceiveEffect(s, t, i)
      BY <1>t, <2>6, <3>1, <3>2, <3>4, Zenon DEF ReceiveEffect
    <3>6. SpawnEffect(s, t, i)
      BY <2>6, <3>1 DEF SpawnEffect, KeepsTasks
    <3>7. t.panic => s.panic \/ (s.transmit.flag /\ s.receive.waker = None)
      BY <1>2, <2>6, <3>1, Zenon
    <3>q. QED
      BY <1>2, <2>6, <3>1, <3>3, <3>5, <3>6, <3>7 DEF Effect, KeepsTasks
  <2>q. QED
    BY <2>7, <2>8, <2>9
<1>q. QED
  BY <1>1, <1>2

\* A spawner yields once, or queues its child and ends.
LEMMA PollSpawnerIs ==
    ASSUME NEW s \in Memory, NEW i \in DOMAIN s.tasks, s.tasks[i] \in Spawners,
           queue \in BOOLEAN, NEW t \in PollSpawner(s, i)
    PROVE  Effect(s, t, i)
<1>t. i \in Nat /\ i # None /\ s.tasks[i] \notin Receivers /\ Child[s.tasks[i]] \in TaskNames
  BY Constants DEF Memory, None, TaskNames
<1>1. CASE Spawns(s, i)
  <2>1. PICK u : u = Finish(s, i)
    OBVIOUS
  <2>2. /\ u \in Memory /\ Sleeps(s, u) /\ u.tasks = [s.tasks EXCEPT ![i] = "none"]
        /\ u.tasks[i] = "none" /\ u.task_queue = s.task_queue /\ u.yielded = s.yielded
        /\ u.panic = s.panic /\ u.transmit = s.transmit /\ u.receive = s.receive
    BY <2>1, FinishIs, Zenon
  <2>3. t = [u EXCEPT !.task_queue = Append(@, Child[s.tasks[i]]), !.panic = queue]
    BY <1>1, <2>1 DEF PollSpawner, Spawns
  <2>4. /\ t \in Memory /\ Sleeps(s, t) /\ t.tasks = u.tasks /\ t.yielded = s.yielded
        /\ t.task_queue = Append(s.task_queue, Child[s.tasks[i]]) /\ t.panic = queue
        /\ t.transmit = s.transmit /\ t.receive = s.receive
    <3>1. u \in Memory /\ queue \in BOOLEAN /\ Child[s.tasks[i]] \in TaskNames
      BY <1>t, <2>2
    <3>2. u.task_queue \in Seq(TaskNames)
      BY <3>1 DEF Memory
    <3>3. Append(u.task_queue, Child[s.tasks[i]]) \in Seq(TaskNames)
      BY <3>1, <3>2
    <3>4. PICK c : c = Append(u.task_queue, Child[s.tasks[i]])
      OBVIOUS
    <3>5. c \in Seq(TaskNames) /\ t = [u EXCEPT !.task_queue = c, !.panic = queue]
      BY <2>3, <3>3, <3>4
    <3>6. /\ t \in Memory /\ Sleeps(u, t) /\ t.tasks = u.tasks /\ t.yielded = u.yielded
          /\ t.task_queue = c /\ t.panic = queue
          /\ t.transmit = u.transmit /\ t.receive = u.receive
      BY <3>1, <3>5 DEF Memory, Sleeps
    <3>q. QED
      BY <2>2, <3>4, <3>6 DEF Sleeps
  <2>5. Queued(s, t, {i, s.receive.waker, s.transmit.waker} \ {None})
    BY <2>4 DEF Queued, Sleeps
  <2>6. ReceiveEffect(s, t, i)
    BY <1>t, <2>4 DEF ReceiveEffect
  <2>7. SpawnEffect(s, t, i)
    BY <1>1, <2>2, <2>4 DEF SpawnEffect
  <2>8. t.panic => queue /\ Spawns(s, i)
    BY <1>1, <2>4
  <2>q. QED
    BY <2>2, <2>4, <2>5, <2>6, <2>7, <2>8 DEF Effect
<1>2. CASE ~Spawns(s, i)
  <2>1. PICK u : u = Wake(s, i)
    OBVIOUS
  <2>2. /\ u \in Memory /\ KeepsTasks(s, u) /\ Woke(s, u) /\ Queued(s, u, {i})
        /\ u.panic = s.panic /\ u.transmit = s.transmit /\ u.receive = s.receive
    BY <1>t, <2>1, WakeIs, Zenon
  <2>3. t = [u EXCEPT !.yielded = @ \cup {s.tasks[i]}]
    BY <1>2, <2>1 DEF PollSpawner, Spawns
  <2>4. /\ t \in Memory /\ Sleeps(u, t) /\ t.tasks = s.tasks /\ t.task_queue = s.task_queue
        /\ t.yielded = s.yielded \cup {s.tasks[i]} /\ t.panic = s.panic
        /\ t.transmit = s.transmit /\ t.receive = s.receive
    BY <2>2, <2>3 DEF Memory, Sleeps, KeepsTasks
  <2>5. Queued(s, t, {i, s.receive.waker, s.transmit.waker} \ {None})
    BY <1>t, <2>2, <2>4 DEF Queued, Sleeps, Woke
  <2>6. ReceiveEffect(s, t, i) /\ SpawnEffect(s, t, i)
    BY <1>t, <2>4 DEF ReceiveEffect, SpawnEffect
  <2>q. QED
    BY <2>4, <2>5, <2>6 DEF Effect
<1>q. QED
  BY <1>1, <1>2

\* A poll of any slot there is; one that is empty stays as it is.
LEMMA PollFutureIs ==
    ASSUME NEW s \in Memory, NEW i \in DOMAIN s.tasks, queue \in BOOLEAN,
           NEW t \in PollFuture(s, i)
    PROVE  Effect(s, t, i)
<1>1. s.tasks[i] \in TaskNames \cup {"none"}
  BY DEF Memory
<1>2. CASE s.tasks[i] \in Receivers
  <2>1. t \in PollReceiver(s, i)
    BY <1>2, Constants DEF PollFuture, TaskNames
  <2>q. QED
    BY <1>2, <2>1, PollReceiverIs
<1>3. CASE s.tasks[i] \in Senders
  <2>1. t \in PollSender(s, i)
    BY <1>3, Constants DEF PollFuture, TaskNames
  <2>q. QED
    BY <1>3, <2>1, PollSenderIs
<1>4. CASE s.tasks[i] \in Spawners
  <2>1. t \in PollSpawner(s, i)
    BY <1>4, Constants DEF PollFuture, TaskNames
  <2>q. QED
    BY <1>4, <2>1, PollSpawnerIs
<1>5. CASE s.tasks[i] \in Children
  <2>1. t \in PollChild(s, i) /\ s.tasks[i] \notin Receivers
    BY <1>5, Constants DEF PollFuture, TaskNames
  <2>q. QED
    BY <2>1, PollChildIs
<1>6. CASE s.tasks[i] = "none"
  <2>1. t = s /\ s.tasks[i] \notin Receivers
    BY <1>6, Constants DEF PollFuture, TaskNames
  <2>2. /\ Queued(s, s, {i, s.receive.waker, s.transmit.waker} \ {None})
        /\ ReceiveEffect(s, s, i) /\ SpawnEffect(s, s, i)
    BY <2>1 DEF Queued, Sleeps, ReceiveEffect, SpawnEffect
  <2>q. QED
    BY <2>1, <2>2 DEF Effect
<1>q. QED
  BY <1>1, <1>2, <1>3, <1>4, <1>5, <1>6 DEF TaskNames

-----------------------------------------------------------------------------
(* What a poll preserves.                                                   *)

\* A poll empties at most the slot that it polls.
LEMMA SlotsKept ==
    ASSUME NEW s \in Memory, NEW i \in DOMAIN s.tasks, NEW t, Effect(s, t, i)
    PROVE  /\ t \in Memory /\ DOMAIN t.tasks = DOMAIN s.tasks /\ i \in Nat \ {None}
           /\ DOMAIN s.tasks \subseteq Nat \ {None}
           /\ \A j \in DOMAIN s.tasks : j # i => t.tasks[j] = s.tasks[j]
           /\ t.tasks[i] \in {s.tasks[i], "none"}
<1>1. s.tasks \in Seq(TaskNames \cup {"none"})
  BY DEF Memory
<1>2. t \in Memory /\ (t.tasks = s.tasks \/ t.tasks = [s.tasks EXCEPT ![i] = "none"])
  BY DEF Effect
<1>q. QED
  BY <1>1, <1>2 DEF None

\* A waker that a poll leaves or queues names a slot there is.
LEMMA WakersKept ==
    ASSUME NEW s \in Memory, NEW i \in DOMAIN s.tasks, NEW t, Effect(s, t, i),
           WakersName(s), Apart(s)
    PROVE  WakersName(t) /\ Apart(t)
<1>1. /\ DOMAIN t.tasks = DOMAIN s.tasks
      /\ \A j \in DOMAIN s.tasks : j # i => t.tasks[j] = s.tasks[j]
      /\ t.tasks[i] \in {s.tasks[i], "none"}
  BY SlotsKept
<1>2. Apart(t)
  BY <1>1 DEF Apart
<1>3. /\ Range(t.wake_queue) \subseteq Range(s.wake_queue)
             \cup ({i, s.receive.waker, s.transmit.waker} \ {None})
      /\ t.transmit.waker \in {s.transmit.waker, i}
      /\ t.receive.waker \in {s.receive.waker, i}
  BY DEF Effect, Queued, ReceiveEffect
<1>q. QED
  BY <1>1, <1>2, <1>3 DEF WakersName

\* A receiver has left a waker when it waits, and a sender is told of it only then.
LEMMA KnownKept ==
    ASSUME NEW s \in Memory, NEW i \in DOMAIN s.tasks, NEW t, Effect(s, t, i),
           Known(s, DOMAIN s.tasks \ {i})
    PROVE  Known(t, DOMAIN t.tasks)
<1>1. /\ DOMAIN t.tasks = DOMAIN s.tasks /\ i # None
      /\ \A j \in DOMAIN s.tasks : j # i => t.tasks[j] = s.tasks[j]
      /\ t.tasks[i] \in {s.tasks[i], "none"}
  BY SlotsKept
<1>2. /\ t.transmit.flag => s.transmit.flag \/ t.receive.waker = i
      /\ t.receive.waker \in {s.receive.waker, i}
      /\ s.tasks[i] \in Receivers => t.receive.waker = i \/ t.tasks[i] = "none"
  BY DEF Effect, ReceiveEffect
<1>3. "none" \notin Receivers
  BY Constants DEF TaskNames
<1>q. QED
  BY <1>1, <1>2, <1>3 DEF Known

\* A poll before the registration of the driver adds its slot to the polled ones.
LEMMA FirstHalfKept ==
    ASSUME NEW s \in Memory, NEW i \in DOMAIN s.tasks, NEW t, Effect(s, t, i), ~t.panic,
           NEW P \in SUBSET DOMAIN s.tasks, i \notin P, FirstHalf(s, P)
    PROVE  FirstHalf(t, P \cup {i})
<1>1. /\ \A j \in DOMAIN s.tasks : j # i => t.tasks[j] = s.tasks[j]
      /\ t.tasks[i] \in {s.tasks[i], "none"}
  BY SlotsKept
<1>2. "none" \notin Receivers
  BY Constants DEF TaskNames
<1>3. CASE s.tasks[i] \in Receivers
  <2>1. /\ ~t.receive.flag
        /\ \/ t.receive.waker = i /\ t.tasks = s.tasks
           \/ t.receive.waker = s.receive.waker /\ t.tasks[i] = "none"
    BY <1>3 DEF Effect, ReceiveEffect
  <2>2. CASE t.receive.waker = i /\ t.tasks = s.tasks
    BY <1>3, <2>1, <2>2 DEF FirstHalf
  <2>3. CASE t.receive.waker = s.receive.waker /\ t.tasks[i] = "none"
    BY <1>1, <1>2, <2>1, <2>3 DEF FirstHalf
  <2>q. QED
    BY <2>1, <2>2, <2>3
<1>4. CASE s.tasks[i] \notin Receivers
  <2>1. /\ t.receive.waker = s.receive.waker
        /\ t.receive.flag => s.receive.flag \/ t.receive.waker \in Range(t.wake_queue)
        /\ Range(s.wake_queue) \subseteq Range(t.wake_queue)
    BY <1>4 DEF Effect, ReceiveEffect, Queued
  <2>q. QED
    BY <1>1, <1>2, <1>4, <2>1 DEF FirstHalf
<1>q. QED
  BY <1>3, <1>4

\* A poll after it takes its slot from the rest: a receiver takes the notification.
LEMMA SecondHalfKept ==
    ASSUME NEW s \in Memory, NEW i \in DOMAIN s.tasks, NEW t, Effect(s, t, i), ~t.panic,
           NEW rest, SecondHalf(s, DOMAIN s.tasks \ {i}, rest)
    PROVE  SecondHalf(t, DOMAIN t.tasks, rest \ {i})
<1>1. /\ \A j \in DOMAIN s.tasks : j # i => t.tasks[j] = s.tasks[j]
      /\ t.tasks[i] \in {s.tasks[i], "none"} /\ DOMAIN t.tasks = DOMAIN s.tasks
  BY SlotsKept
<1>2. "none" \notin Receivers
  BY Constants DEF TaskNames
<1>3. /\ Sleeps(s, t) \/ t.ready_flag
      /\ s.ready_flag => t.ready_flag
  BY DEF Effect, Queued, Sleeps, Woke, SecondHalf
<1>4. /\ t.wakers > 0 \/ t.ready_flag
      /\ t.wake_queue # <<>> => t.ready_flag
  BY <1>3 DEF Sleeps, SecondHalf
<1>5. CASE s.tasks[i] \in Receivers
  <2>1. ~t.receive.flag
    BY <1>5 DEF Effect, ReceiveEffect
  <2>q. QED
    BY <1>4, <2>1 DEF SecondHalf
<1>6. CASE s.tasks[i] \notin Receivers
  <2>1. /\ t.receive.waker = s.receive.waker
        /\ t.receive.flag => s.receive.flag \/ t.ready_flag
    BY <1>6 DEF Effect, ReceiveEffect, Woke, SecondHalf
  <2>2. ASSUME t.receive.flag, ~t.ready_flag,
               NEW j \in DOMAIN t.tasks, t.tasks[j] \in Receivers
        PROVE  /\ t.receive.waker \in (rest \ {i}) \cap DOMAIN t.tasks
               /\ t.tasks[t.receive.waker] \in Receivers
    <3>1. j \in DOMAIN s.tasks \ {i} /\ s.tasks[j] \in Receivers
      BY <1>1, <1>2, <1>6, <2>2
    <3>2. /\ s.receive.waker \in rest \cap DOMAIN s.tasks
          /\ s.tasks[s.receive.waker] \in Receivers
      BY <1>3, <2>1, <2>2, <3>1 DEF SecondHalf
    <3>q. QED
      BY <1>1, <1>6, <2>1, <3>2
  <2>q. QED
    BY <1>4, <2>2 DEF SecondHalf
<1>q. QED
  BY <1>5, <1>6

\* A child is queued when its spawner leaves its slot, hence in one place only.
LEMMA PlacedKept ==
    ASSUME NEW s \in Memory, NEW i \in DOMAIN s.tasks, NEW t, Effect(s, t, i), Apart(s),
           NEW q \in Seq(TaskNames), NEW q2,
           Placed(s, q), ChildrenCome(s, q),
           \/ q2 = q /\ t.yielded \subseteq s.yielded \cup {s.tasks[i]}
           \/ /\ Spawns(s, i) /\ t.tasks[i] = "none"
              /\ q2 = Append(q, Child[s.tasks[i]]) /\ t.yielded = s.yielded
    PROVE  Placed(t, q2) /\ ChildrenCome(t, q2)
<1>1. /\ DOMAIN t.tasks = DOMAIN s.tasks
      /\ \A j \in DOMAIN s.tasks : j # i => t.tasks[j] = s.tasks[j]
      /\ t.tasks[i] \in {s.tasks[i], "none"}
  BY SlotsKept
<1>2. Range(t.tasks) \subseteq Range(s.tasks) \cup {"none"} /\ s.tasks[i] \in Range(s.tasks)
  BY <1>1 DEF Range
<1>3. "none" \notin TaskNames /\ Children \subseteq TaskNames /\ Spawners \subseteq TaskNames
  BY Constants DEF TaskNames
<1>4. Range(q) \subseteq TaskNames
  BY DEF Range
<1>5. CASE q2 = q /\ t.yielded \subseteq s.yielded \cup {s.tasks[i]}
  <2>1. Placed(t, q2)
    BY <1>2, <1>3, <1>4, <1>5 DEF Placed
  <2>2. ChildrenCome(t, q2)
    BY <1>2, <1>3, <1>5, Constants DEF ChildrenCome
  <2>q. QED
    BY <2>1, <2>2
<1>6. CASE /\ Spawns(s, i) /\ t.tasks[i] = "none"
           /\ q2 = Append(q, Child[s.tasks[i]]) /\ t.yielded = s.yielded
  <2> DEFINE c == Child[s.tasks[i]]
  <2>1. /\ s.tasks[i] \in Spawners /\ s.tasks[i] # "none"
        /\ c \in Children /\ c \notin Spawners /\ c # "none"
    BY <1>3, <1>6, Constants DEF Spawns
  <2>2. c \notin Range(s.tasks) \cup Range(q) \cup s.yielded
    BY <1>2, <2>1 DEF ChildrenCome, Memory
  <2>3. s.tasks[i] \notin Range(t.tasks) \cup Range(q)
    BY <1>1, <1>2, <1>6, <2>1 DEF Apart, Placed, Range
  <2>4. /\ DOMAIN q2 = 1..(Len(q) + 1) /\ q2[Len(q) + 1] = c
        /\ \A k \in DOMAIN q : q2[k] = q[k] /\ q[k] # c
        /\ DOMAIN q = 1..Len(q) /\ Len(q) \in Nat
    BY <1>6, <2>2 DEF Range
  <2>5. Range(q2) = Range(q) \cup {c}
    BY <2>4 DEF Range
  <2>6. \A j, k \in DOMAIN q2 : q2[j] = q2[k] => j = k
    BY <2>4 DEF Placed
  <2> HIDE DEF c
  <2>7. Placed(t, q2)
    BY <1>2, <1>3, <1>4, <1>6, <2>1, <2>2, <2>5, <2>6 DEF Placed
  <2>8. ASSUME NEW u \in Spawners, u \in Range(t.tasks) \cup Range(q2)
        PROVE  Child[u] \notin Range(t.tasks) \cup Range(q2)
    <3>1. u # "none" /\ u # c /\ Child[u] # "none" /\ Child[u] \in Children
      BY <1>3, <2>1, Constants
    <3>2. u \in Range(t.tasks) \cup Range(q) /\ u \in Range(s.tasks) \cup Range(q)
      BY <1>2, <2>5, <2>8, <3>1
    <3>3. Child[u] \notin Range(s.tasks) \cup Range(q)
      BY <3>2 DEF ChildrenCome
    <3>4. Child[u] # c
      BY <2>1, <2>3, <3>2, Constants DEF c
    <3>q. QED
      BY <1>2, <2>5, <3>1, <3>3, <3>4
  <2>q. QED
    BY <2>7, <2>8 DEF ChildrenCome
<1>q. QED
  BY <1>5, <1>6

-----------------------------------------------------------------------------
(* push_task, up to its poll.                                               *)

\* Slot n was empty or is new, and has the task.
Placing(s, u, n, task) ==
    /\ u \in Memory /\ Sleeps(s, u)
    /\ n \in DOMAIN u.tasks /\ u.tasks[n] = task
    /\ DOMAIN s.tasks \subseteq DOMAIN u.tasks
    /\ DOMAIN u.tasks \subseteq DOMAIN s.tasks \cup {n}
    /\ \A j \in DOMAIN s.tasks : IF j = n THEN s.tasks[j] = "none" ELSE u.tasks[j] = s.tasks[j]
    /\ u.task_queue = s.task_queue /\ u.yielded = s.yielded /\ u.panic = s.panic
    /\ u.transmit = s.transmit /\ u.receive = s.receive

\* A set of numbers that is not empty has a smallest element.
LEMMA Smallest ==
    ASSUME NEW T, T \subseteq Nat, T # {}
    PROVE  Min(T) \in T
<1> DEFINE R == {ss \in Nat \X Nat : ss[1] < ss[2]}
<1>1. IsWellFoundedOn(R, Nat)
  BY NatLessThanWellFounded, Zenon DEF OpToRel
<1>2. \A x, y \in Nat : <<y, x>> \in R <=> y < x
  OBVIOUS
<1> HIDE DEF R
<1>3. PICK x \in T : \A y \in T : ~(<<y, x>> \in R)
  BY <1>1, WFMin, Zenon
<1>4. ASSUME NEW y \in T PROVE x =< y
  <2>1. x \in Nat /\ y \in Nat /\ ~(y < x)
    BY <1>2, <1>3, Zenon
  <2>q. QED
    BY <2>1
<1>q. QED
  BY <1>4 DEF Min

\* push_task finds the first empty slot, or makes a new one.
LEMMA PlaceIs ==
    ASSUME NEW s \in Memory, NEW task \in TaskNames
    PROVE  Placing(s, Place(s, task)[2], Place(s, task)[1], task)
<1> DEFINE I == {i \in 1..Len(s.tasks) : s.tasks[i] = "none"}
           i == SelectInSeq(s.tasks, LAMBDA x : x = "none")
<1>1. /\ s.tasks \in Seq(TaskNames \cup {"none"}) /\ Len(s.tasks) \in Nat
      /\ DOMAIN s.tasks = 1..Len(s.tasks)
  BY DEF Memory
<1>2. i = IF I # {} THEN Min(I) ELSE 0
  BY DEF SelectInSeq
<1>3. I \subseteq Nat
  OBVIOUS
<1>4. i = 0 \/ i \in I
  BY <1>2, <1>3, Smallest
<1>5. Place(s, task) = IF i = 0
        THEN <<Len(s.tasks) + 1, [s EXCEPT !.tasks = Append(s.tasks, task)]>>
        ELSE <<i, [s EXCEPT !.tasks = [s.tasks EXCEPT ![i] = task]]>>
  BY DEF Place
<1> HIDE DEF i
<1>6. ASSUME NEW v \in Seq(TaskNames \cup {"none"}), NEW u, u = [s EXCEPT !.tasks = v]
      PROVE  /\ u \in Memory /\ Sleeps(s, u) /\ u.tasks = v
             /\ u.task_queue = s.task_queue /\ u.yielded = s.yielded /\ u.panic = s.panic
             /\ u.transmit = s.transmit /\ u.receive = s.receive
  BY <1>6 DEF Memory, Sleeps
<1>7. CASE i = 0
  <2>1. PICK v : v = Append(s.tasks, task)
    OBVIOUS
  <2>2. /\ v \in Seq(TaskNames \cup {"none"}) /\ DOMAIN v = 1..(Len(s.tasks) + 1)
        /\ v[Len(s.tasks) + 1] = task /\ \A j \in DOMAIN s.tasks : v[j] = s.tasks[j]
    BY <1>1, <2>1
  <2>3. PICK u : u = [s EXCEPT !.tasks = v]
    OBVIOUS
  <2>4. Place(s, task)[1] = Len(s.tasks) + 1 /\ Place(s, task)[2] = u
    BY <1>5, <1>7, <2>1, <2>3
  <2>5. Placing(s, u, Len(s.tasks) + 1, task)
    <3>1. /\ u \in Memory /\ Sleeps(s, u) /\ u.tasks = v
          /\ u.task_queue = s.task_queue /\ u.yielded = s.yielded /\ u.panic = s.panic
          /\ u.transmit = s.transmit /\ u.receive = s.receive
      BY <1>6, <2>2, <2>3
    <3>2. /\ Len(s.tasks) + 1 \in DOMAIN v /\ DOMAIN s.tasks \subseteq DOMAIN v
          /\ DOMAIN v \subseteq DOMAIN s.tasks \cup {Len(s.tasks) + 1}
          /\ \A j \in DOMAIN s.tasks : j # Len(s.tasks) + 1
      BY <1>1, <2>2
    <3>q. QED
      BY <2>2, <3>1, <3>2 DEF Placing
  <2>q. QED
    BY <2>4, <2>5
<1>8. CASE i # 0
  <2>1. i \in DOMAIN s.tasks /\ s.tasks[i] = "none"
    BY <1>1, <1>4, <1>8
  <2>2. PICK v : v = [s.tasks EXCEPT ![i] = task]
    OBVIOUS
  <2>3. /\ v \in Seq(TaskNames \cup {"none"}) /\ DOMAIN v = DOMAIN s.tasks
        /\ v[i] = task /\ \A j \in DOMAIN s.tasks : j # i => v[j] = s.tasks[j]
    BY <1>1, <2>1, <2>2
  <2>4. PICK u : u = [s EXCEPT !.tasks = v]
    OBVIOUS
  <2>5. Place(s, task)[1] = i /\ Place(s, task)[2] = u
    BY <1>5, <1>8, <2>2, <2>4
  <2>6. Placing(s, u, i, task)
    BY <1>6, <2>1, <2>3, <2>4 DEF Placing
  <2>q. QED
    BY <2>5, <2>6
<1>q. QED
  BY <1>7, <1>8

\* The head of the unplaced tasks is placed, and slot n is left out of what is
\* known of the slots until it has been polled.
LEMMA PlacingKeeps ==
    ASSUME NEW s \in Memory, NEW q \in Seq(TaskNames), q # <<>>, NEW u, NEW n,
           Placing(s, u, n, Head(q)),
           WakersName(s), Apart(s), Placed(s, q), ChildrenCome(s, q),
           Known(s, DOMAIN s.tasks)
    PROVE  /\ WakersName(u) /\ Apart(u) /\ Placed(u, Tail(q)) /\ ChildrenCome(u, Tail(q))
           /\ Known(u, DOMAIN u.tasks \ {n}) /\ Head(q) \notin u.yielded
           /\ FirstHalf(s, DOMAIN s.tasks) => FirstHalf(u, DOMAIN u.tasks \ {n})
           /\ SecondHalf(s, DOMAIN s.tasks, {}) => SecondHalf(u, DOMAIN u.tasks \ {n}, {})
<1>1. /\ \A k \in DOMAIN Tail(q) :
            k + 1 \in DOMAIN q /\ Tail(q)[k] = q[k + 1] /\ k \in Nat \ {0}
      /\ 1 \in DOMAIN q /\ Head(q) = q[1] /\ Head(q) \in TaskNames
  OBVIOUS
<1>2. /\ Head(q) \in Range(q) /\ Range(Tail(q)) \subseteq Range(q) \ {Head(q)}
      /\ \A j, k \in DOMAIN Tail(q) : Tail(q)[j] = Tail(q)[k] => j = k
  BY <1>1 DEF Range, Placed
<1>3. "none" \notin TaskNames /\ "none" \notin Receivers /\ "none" \notin Spawners
  BY Constants DEF TaskNames
<1>4. Range(u.tasks) \subseteq Range(s.tasks) \cup {Head(q)}
  BY DEF Range, Placing
<1>5. Range(s.tasks) \subseteq Range(u.tasks) \cup {"none"}
  BY DEF Range, Placing
<1>6. Head(q) \notin Range(s.tasks) /\ Head(q) \notin s.yielded
  BY <1>2 DEF Placed
<1>7. Apart(u)
  <2>1. \A j \in DOMAIN s.tasks : s.tasks[j] # Head(q)
    BY <1>6 DEF Range
  <2>q. QED
    BY <2>1 DEF Apart, Placing
<1>8. WakersName(u)
  BY DEF WakersName, Placing, Sleeps
<1>9. Placed(u, Tail(q))
  BY <1>2, <1>4 DEF Placed, Placing
<1>10. ChildrenCome(u, Tail(q))
  BY <1>2, <1>4 DEF ChildrenCome
<1>11. Known(u, DOMAIN u.tasks \ {n})
  BY DEF Known, Placing
<1>12. FirstHalf(s, DOMAIN s.tasks) => FirstHalf(u, DOMAIN u.tasks \ {n})
  BY <1>3 DEF FirstHalf, Placing, Sleeps
<1>13. SecondHalf(s, DOMAIN s.tasks, {}) => SecondHalf(u, DOMAIN u.tasks \ {n}, {})
  BY DEF SecondHalf, Placing, Sleeps
<1>14. Head(q) \notin u.yielded
  BY <1>6 DEF Placing
<1>q. QED
  BY <1>7, <1>8, <1>9, <1>10, <1>11, <1>12, <1>13, <1>14

-----------------------------------------------------------------------------
(* Every step preserves the invariant.                                      *)

\* At the start every task is in task_queue, once.
LEMMA InitInv == Init => LocalInv
<1> SUFFICES ASSUME Init PROVE LocalInv
  OBVIOUS
<1> DEFINE S == Senders \cup Receivers \cup Spawners
<1>1. PICK order \in SetToSeqs(S) :
          m = [tasks |-> <<>>, task_queue |-> order, wake_queue |-> <<>>, wakers |-> 0,
               ready_flag |-> TRUE, sends |-> 0, yielded |-> {}, panic |-> FALSE,
               transmit |-> [flag |-> FALSE, waker |-> None],
               receive  |-> [flag |-> FALSE, waker |-> None]]
  BY DEF Init
<1>2. IsFiniteSet(S)
  BY ConstantsOK, FS_Union
<1>3. Cardinality(S) \in Nat
  BY <1>2, FS_CardinalityType
<1>4. /\ order \in [1..Cardinality(S) -> S]
      /\ \A i, j \in 1..Cardinality(S) : i # j => order[i] # order[j]
  BY DEF SetToSeqs
<1>5. S \subseteq TaskNames
  BY DEF TaskNames
<1>6. /\ order \in Seq(TaskNames) /\ DOMAIN order = 1..Cardinality(S)
      /\ Range(order) \subseteq S
  <2>1. PICK n \in Nat : n = Cardinality(S)
    BY <1>3
  <2> HIDE DEF S
  <2>2. order \in [1..n -> S]
    BY <1>4, <2>1
  <2>3. order \in Seq(TaskNames) /\ DOMAIN order = 1..n
    BY <1>5, <2>2
  <2>4. Range(order) \subseteq S
    BY <2>2 DEF Range
  <2>q. QED
    BY <2>1, <2>3, <2>4
<1>7. m \in Memory
  BY <1>1, <1>6, Constants DEF Memory, None
<1>8. /\ m.tasks = <<>> /\ DOMAIN m.tasks = {} /\ m.task_queue = order /\ m.yielded = {}
      /\ m.wake_queue = <<>> /\ m.ready_flag /\ ~m.panic /\ ~m.transmit.flag
      /\ ~m.receive.flag /\ m.transmit.waker = None /\ m.receive.waker = None
  BY <1>1
<1>9. Range(m.tasks) = {} /\ Range(m.wake_queue) = {}
  BY <1>8 DEF Range
<1>10. /\ use \in Uses /\ pc = "idle" /\ todo = <<>> /\ queue = FALSE /\ r = FALSE
  BY DEF Init
<1>11. Types
  BY <1>7, <1>8, <1>10 DEF Types, Locations, Polling, Pushing
<1>12. WakersName(m) /\ Apart(m)
  BY <1>8, <1>9 DEF WakersName, Apart
<1>13. Unplaced = order
  BY <1>8, <1>10 DEF Unplaced, Pushing
<1>14. Placed(m, order)
  BY <1>4, <1>6, <1>8, <1>9 DEF Placed
<1>15. ChildrenCome(m, order)
  BY <1>6, <1>9, Constants DEF ChildrenCome
<1>16. Known(m, DOMAIN m.tasks) /\ NotificationInv
  BY <1>8, <1>10 DEF Known, NotificationInv, SecondHalf
<1>17. NoPanic /\ SpawnedIsStarted
  BY <1>8, <1>10 DEF NoPanic, SpawnedIsStarted
<1>q. QED
  BY <1>11, <1>12, <1>13, <1>14, <1>15, <1>16, <1>17 DEF LocalInv

\* The driver clears its flag: poll_all has every slot before it.
LEMMA StartPollInv == LocalInv /\ StartPoll => LocalInv'
<1> SUFFICES ASSUME LocalInv, StartPoll PROVE LocalInv'
  OBVIOUS
<1>1. /\ pc = "idle" /\ pc' = "poll_all" /\ use' = use /\ queue' = queue /\ r' = r
      /\ m' = [m EXCEPT !.ready_flag = FALSE] /\ todo' = [i \in DOMAIN m.tasks |-> i]
  BY DEF StartPoll
<1>2. /\ Types /\ WakersName(m) /\ Apart(m) /\ Known(m, DOMAIN m.tasks)
      /\ Placed(m, m.task_queue) /\ ChildrenCome(m, m.task_queue) /\ m \in Memory
  BY <1>1 DEF LocalInv, Unplaced, Pushing, Types
<1>3. /\ m' \in Memory /\ KeepsTasks(m, m') /\ m'.wake_queue = m.wake_queue
      /\ m'.panic = m.panic /\ m'.transmit = m.transmit /\ m'.receive = m.receive
  BY <1>1, <1>2 DEF Memory, KeepsTasks
<1>4. /\ todo' \in Seq(DOMAIN m.tasks) /\ DOMAIN todo' = DOMAIN m.tasks
      /\ Len(todo') = Len(m.tasks) /\ Len(m.tasks) \in Nat /\ DOMAIN m.tasks = 1..Len(m.tasks)
  BY <1>1, <1>2 DEF Memory
<1>5. Types'
  BY <1>1, <1>2, <1>3, <1>4 DEF Types, Locations, Polling, Pushing, KeepsTasks
<1>6. WakersName(m') /\ Apart(m') /\ Known(m', DOMAIN m'.tasks)
  BY <1>2, <1>3 DEF WakersName, Apart, Known, KeepsTasks
<1>7. Unplaced' = m.task_queue
  BY <1>1, <1>3 DEF Unplaced, Pushing, KeepsTasks
<1>8. Placed(m', m.task_queue) /\ ChildrenCome(m', m.task_queue)
  BY <1>2, <1>3 DEF Placed, ChildrenCome, KeepsTasks
<1>9. InOrder' /\ FirstHalf(m', 1..(Len(m'.tasks) - Len(todo')))
  BY <1>1, <1>3, <1>4 DEF InOrder, FirstHalf, KeepsTasks
<1>10. NotificationInv' /\ NoPanic' /\ SpawnedIsStarted'
  BY <1>1, <1>9 DEF NotificationInv, NoPanic, SpawnedIsStarted
<1>q. QED
  BY <1>5, <1>6, <1>7, <1>8, <1>10 DEF LocalInv

\* No poll under poll_all or wake_pending panics, for the queue is not borrowed.
LEMMA PollEachInv == LocalInv /\ PollEach => LocalInv'
<1> SUFFICES ASSUME LocalInv, PollEach PROVE LocalInv'
  OBVIOUS
<1>0. \A a, b, k \in Nat : a - b + (k + 1) = a - (b - 1) + k
  OBVIOUS
<1> DEFINE i == Head(todo)
<1>1. /\ pc \in {"poll_all", "wake_pending"} /\ todo # <<>> /\ m' \in PollFuture(m, i)
      /\ todo' = Tail(todo) /\ pc' = IF m'.panic THEN "panic" ELSE pc
      /\ use' = use /\ queue' = queue /\ r' = r
  BY DEF PollEach
<1>2. /\ Types /\ WakersName(m) /\ Apart(m) /\ Known(m, DOMAIN m.tasks) /\ NotificationInv
      /\ Placed(m, m.task_queue) /\ ChildrenCome(m, m.task_queue) /\ m \in Memory
      /\ ~queue /\ ~m.panic /\ todo \in Seq(DOMAIN m.tasks)
  BY <1>1 DEF LocalInv, Unplaced, Pushing, Polling, Types
<1>3. /\ i \in DOMAIN m.tasks /\ Tail(todo) \in Seq(DOMAIN m.tasks) /\ i = todo[1]
      /\ Len(todo) \in Nat \ {0} /\ Len(Tail(todo)) = Len(todo) - 1
      /\ DOMAIN todo = 1..Len(todo) /\ DOMAIN Tail(todo) = 1..(Len(todo) - 1)
      /\ \A k \in DOMAIN Tail(todo) : Tail(todo)[k] = todo[k + 1]
  BY <1>1, <1>2
<1> HIDE DEF i
<1>4. Effect(m, m', i)
  BY <1>1, <1>2, <1>3, PollFutureIs DEF Types
<1>5. /\ m' \in Memory /\ DOMAIN m'.tasks = DOMAIN m.tasks
  BY <1>2, <1>3, <1>4, SlotsKept
<1>6. WakersName(m') /\ Apart(m')
  BY <1>2, <1>3, <1>4, WakersKept
<1>7. Known(m', DOMAIN m'.tasks)
  <2>1. Known(m, DOMAIN m.tasks \ {i})
    BY <1>2 DEF Known
  <2>q. QED
    BY <1>2, <1>3, <1>4, <2>1, KnownKept
<1>8. ~m'.panic
  BY <1>2, <1>4 DEF Effect, Known
<1>9. pc' = pc
  BY <1>1, <1>8
<1>10. Types'
  BY <1>1, <1>2, <1>3, <1>5, <1>8, <1>9 DEF Types, Locations, Polling, Pushing
<1>11. Unplaced' = m'.task_queue
  BY <1>1, <1>9 DEF Unplaced, Pushing
<1>12. Placed(m', m'.task_queue) /\ ChildrenCome(m', m'.task_queue)
  <2>1. m.task_queue \in Seq(TaskNames)
    BY <1>2 DEF Memory
  <2>2. SpawnEffect(m, m', i)
    BY <1>4 DEF Effect
  <2>3. \/ m'.task_queue = m.task_queue /\ m'.yielded \subseteq m.yielded \cup {m.tasks[i]}
        \/ /\ Spawns(m, i) /\ m'.tasks[i] = "none"
           /\ m'.task_queue = Append(m.task_queue, Child[m.tasks[i]]) /\ m'.yielded = m.yielded
    BY <2>2 DEF SpawnEffect
  <2>q. QED
    BY <1>2, <1>3, <1>4, <2>1, <2>3, PlacedKept
<1>13. NotificationInv'
  <2>1. CASE pc = "poll_all"
    <3> DEFINE n == Len(m.tasks) - Len(todo)
    <3>1. InOrder /\ FirstHalf(m, 1..n)
      BY <1>2, <2>1 DEF NotificationInv
    <3>2. /\ m.tasks \in Seq(TaskNames \cup {"none"})
          /\ m'.tasks \in Seq(TaskNames \cup {"none"})
          /\ DOMAIN m.tasks = 1..Len(m.tasks) /\ Len(m.tasks) \in Nat
      BY <1>2, <1>5 DEF Memory
    <3>3. Len(m'.tasks) = Len(m.tasks)
      BY <1>5, <3>2
    <3>4. todo[1] = n + 1
      BY <1>3, <3>1 DEF InOrder
    <3>5. n \in Int /\ i = n + 1 /\ i \in 1..Len(m.tasks)
      BY <1>3, <3>2, <3>4
    <3>6. 1..n \in SUBSET DOMAIN m.tasks /\ i \notin 1..n
      BY <1>3, <3>2, <3>5
    <3>7. FirstHalf(m', 1..n \cup {i})
      BY <1>2, <1>3, <1>4, <1>8, <3>1, <3>6, FirstHalfKept
    <3>8. 1..n \cup {i} = 1..(Len(m'.tasks) - Len(todo'))
      BY <1>1, <1>3, <3>2, <3>3, <3>5
    <3>9. InOrder'
      <4>1. ASSUME NEW k \in DOMAIN Tail(todo)
            PROVE  Tail(todo)[k] = Len(m.tasks) - Len(Tail(todo)) + k
        <5>1. k \in Nat /\ k + 1 \in DOMAIN todo /\ Tail(todo)[k] = todo[k + 1]
          BY <1>3
        <5>2. todo[k + 1] = Len(m.tasks) - Len(todo) + (k + 1)
          BY <3>1, <5>1 DEF InOrder
        <5>3. Len(m.tasks) \in Nat /\ Len(todo) \in Nat /\ Len(Tail(todo)) = Len(todo) - 1
          BY <1>3, <3>2
        <5>4. PICK a \in Nat, b \in Nat : a = Len(m.tasks) /\ b = Len(todo)
          BY <5>3, Zenon
        <5>5. a - b + (k + 1) = a - (b - 1) + k
          BY <1>0, <5>1, Zenon
        <5>q. QED
          BY <5>1, <5>2, <5>3, <5>4, <5>5
      <4>q. QED
        BY <1>1, <3>3, <4>1 DEF InOrder
    <3>q. QED
      BY <1>9, <2>1, <3>7, <3>8, <3>9 DEF NotificationInv
  <2>2. CASE pc = "wake_pending"
    <3>1. SecondHalf(m, DOMAIN m.tasks \ {i}, Range(todo))
      BY <1>2, <2>2 DEF NotificationInv, SecondHalf
    <3>2. SecondHalf(m', DOMAIN m'.tasks, Range(todo) \ {i})
      BY <1>2, <1>3, <1>4, <1>8, <3>1, SecondHalfKept
    <3>3. Range(todo) \ {i} \subseteq Range(todo')
      <4>1. ASSUME NEW k \in DOMAIN todo, todo[k] # i PROVE todo[k] \in Range(todo')
        <5>1. k - 1 \in DOMAIN Tail(todo) /\ Tail(todo)[k - 1] = todo[k]
          BY <1>3, <4>1
        <5>q. QED
          BY <1>1, <5>1 DEF Range
      <4>q. QED
        BY <4>1 DEF Range
    <3>4. SecondHalf(m', DOMAIN m'.tasks, Range(todo'))
      BY <3>2, <3>3 DEF SecondHalf
    <3>q. QED
      BY <1>9, <2>2, <3>4 DEF NotificationInv
  <2>q. QED
    BY <1>1, <2>1, <2>2
<1>14. NoPanic' /\ SpawnedIsStarted'
  BY <1>1, <1>9 DEF NoPanic, SpawnedIsStarted
<1>q. QED
  BY <1>6, <1>7, <1>10, <1>11, <1>12, <1>13, <1>14 DEF LocalInv

\* The tasks that were queued become those left to push.
LEMMA DrainInv == LocalInv /\ Drain => LocalInv'
<1> SUFFICES ASSUME LocalInv, Drain PROVE LocalInv'
  OBVIOUS
<1>1. /\ pc \in {"poll_all", "wake_pending"} /\ todo = <<>> /\ todo' = m.task_queue
      /\ m' = [m EXCEPT !.task_queue = <<>>] /\ queue' = TRUE
      /\ pc' = IF pc = "poll_all" THEN "push_first" ELSE "push_second"
      /\ use' = use /\ r' = r
  BY DEF Drain
<1>2. /\ Types /\ WakersName(m) /\ Apart(m) /\ Known(m, DOMAIN m.tasks) /\ NotificationInv
      /\ Placed(m, m.task_queue) /\ ChildrenCome(m, m.task_queue) /\ m \in Memory
      /\ ~m.panic /\ m.task_queue \in Seq(TaskNames)
  BY <1>1 DEF LocalInv, Unplaced, Pushing, Types, Memory
<1>3. /\ m' \in Memory /\ Sleeps(m, m') /\ m'.tasks = m.tasks /\ m'.yielded = m.yielded
      /\ m'.task_queue = <<>> /\ m'.panic = m.panic
      /\ m'.transmit = m.transmit /\ m'.receive = m.receive
  <2>0. <<>> \in Seq(TaskNames)
    OBVIOUS
  <2>1. PICK q \in Seq(TaskNames) : q = <<>>
    BY <2>0, Zenon
  <2>2. m' = [m EXCEPT !.task_queue = q]
    BY <1>1, <2>1
  <2>3. /\ m' \in Memory /\ Sleeps(m, m') /\ m'.tasks = m.tasks /\ m'.yielded = m.yielded
        /\ m'.task_queue = q /\ m'.panic = m.panic
        /\ m'.transmit = m.transmit /\ m'.receive = m.receive
    BY <1>2, <2>2 DEF Memory, Sleeps
  <2>q. QED
    BY <2>1, <2>3
<1>4. Types'
  BY <1>1, <1>2, <1>3 DEF Types, Locations, Polling, Pushing
<1>5. WakersName(m') /\ Apart(m') /\ Known(m', DOMAIN m'.tasks)
  BY <1>2, <1>3 DEF WakersName, Apart, Known, Sleeps
<1>6. Unplaced' = m.task_queue
  BY <1>1 DEF Unplaced, Pushing
<1>7. Placed(m', m.task_queue) /\ ChildrenCome(m', m.task_queue)
  BY <1>2, <1>3 DEF Placed, ChildrenCome
<1>8. NotificationInv'
  <2>1. CASE pc = "poll_all"
    <3>1. FirstHalf(m, 1..(Len(m.tasks) - Len(todo)))
      BY <1>2, <2>1 DEF NotificationInv
    <3>2. 1..(Len(m.tasks) - Len(todo)) = DOMAIN m.tasks
      BY <1>1, <1>2 DEF Memory
    <3>3. FirstHalf(m', DOMAIN m'.tasks)
      BY <1>3, <3>1, <3>2 DEF FirstHalf, Sleeps
    <3>q. QED
      BY <1>1, <2>1, <3>3 DEF NotificationInv
  <2>2. CASE pc = "wake_pending"
    <3>1. Range(todo) = {}
      BY <1>1 DEF Range
    <3>2. SecondHalf(m', DOMAIN m'.tasks, {})
      BY <1>2, <1>3, <2>2, <3>1 DEF NotificationInv, SecondHalf, Sleeps
    <3>q. QED
      BY <1>1, <2>2, <3>2 DEF NotificationInv
  <2>q. QED
    BY <1>1, <2>1, <2>2
<1>9. NoPanic' /\ SpawnedIsStarted'
  BY <1>1 DEF NoPanic, SpawnedIsStarted
<1>q. QED
  BY <1>4, <1>5, <1>6, <1>7, <1>8, <1>9 DEF LocalInv

\* A task is placed and polled; it panics only when it spawns at once.
LEMMA PushTaskInv == LocalInv /\ PushTask => LocalInv'
<1> SUFFICES ASSUME LocalInv, PushTask PROVE LocalInv'
  OBVIOUS
<1>1. /\ pc \in {"push_first", "push_second"} /\ todo # <<>>
      /\ m' \in PollFuture(Place(m, Head(todo))[2], Place(m, Head(todo))[1])
      /\ todo' = Tail(todo) /\ pc' = IF m'.panic THEN "panic" ELSE pc
      /\ use' = use /\ queue' = queue /\ r' = r
  BY DEF PushTask
<1>2. /\ Types /\ WakersName(m) /\ Apart(m) /\ Known(m, DOMAIN m.tasks) /\ NotificationInv
      /\ Placed(m, todo) /\ ChildrenCome(m, todo) /\ m \in Memory
      /\ queue /\ queue \in BOOLEAN /\ ~m.panic
      /\ todo \in Seq(TaskNames) /\ m.task_queue = <<>>
  BY <1>1 DEF LocalInv, Unplaced, Pushing, Types
<1>3. Head(todo) \in TaskNames /\ Tail(todo) \in Seq(TaskNames)
  BY <1>1, <1>2
<1>4. PICK u, n : u = Place(m, Head(todo))[2] /\ n = Place(m, Head(todo))[1]
  OBVIOUS
<1>5. Placing(m, u, n, Head(todo))
  BY <1>2, <1>3, <1>4, PlaceIs
<1>6. /\ WakersName(u) /\ Apart(u) /\ Placed(u, Tail(todo)) /\ ChildrenCome(u, Tail(todo))
      /\ Known(u, DOMAIN u.tasks \ {n}) /\ Head(todo) \notin u.yielded
      /\ FirstHalf(m, DOMAIN m.tasks) => FirstHalf(u, DOMAIN u.tasks \ {n})
      /\ SecondHalf(m, DOMAIN m.tasks, {}) => SecondHalf(u, DOMAIN u.tasks \ {n}, {})
  BY <1>1, <1>2, <1>5, PlacingKeeps
<1>7. /\ u \in Memory /\ n \in DOMAIN u.tasks /\ u.tasks[n] = Head(todo)
      /\ u.task_queue = <<>> /\ ~u.panic
  BY <1>2, <1>5 DEF Placing
<1>8. Effect(u, m', n)
  BY <1>1, <1>2, <1>4, <1>7, PollFutureIs
<1>9. m' \in Memory /\ DOMAIN m'.tasks = DOMAIN u.tasks
  BY <1>7, <1>8, SlotsKept
<1>10. WakersName(m') /\ Apart(m')
  BY <1>6, <1>7, <1>8, WakersKept
<1>11. Known(m', DOMAIN m'.tasks)
  BY <1>6, <1>7, <1>8, KnownKept
<1>12. m'.panic => use.first
  BY <1>6, <1>7, <1>8 DEF Effect, Known, Spawns
<1>13. CASE m'.panic
  <2>1. pc' = "panic"
    BY <1>1, <1>13
  <2>2. Types'
    BY <1>1, <1>2, <1>9, <2>1 DEF Types, Locations, Polling, Pushing
  <2>3. NoPanic' /\ SpawnedIsStarted'
    BY <1>1, <1>12, <1>13, <2>1 DEF NoPanic, SpawnedIsStarted
  <2>q. QED
    BY <1>10, <2>1, <2>2, <2>3 DEF LocalInv
<1>14. CASE ~m'.panic
  <2>1. pc' = pc
    BY <1>1, <1>14
  <2>2. m'.task_queue = <<>> /\ m'.yielded \subseteq u.yielded \cup {u.tasks[n]}
    BY <1>2, <1>7, <1>8, <1>14 DEF Effect, SpawnEffect
  <2>3. Types'
    BY <1>1, <1>2, <1>3, <1>9, <1>14, <2>1, <2>2 DEF Types, Locations, Polling, Pushing
  <2>4. Unplaced' = Tail(todo)
    BY <1>1, <2>1 DEF Unplaced, Pushing
  <2>5. Placed(m', Tail(todo)) /\ ChildrenCome(m', Tail(todo))
    BY <1>3, <1>6, <1>7, <1>8, <2>2, PlacedKept
  <2>6. NotificationInv'
    <3>1. CASE pc = "push_first"
      <4>1. FirstHalf(u, DOMAIN u.tasks \ {n})
        BY <1>2, <1>6, <3>1 DEF NotificationInv
      <4>2. FirstHalf(m', (DOMAIN u.tasks \ {n}) \cup {n})
        BY <1>7, <1>8, <1>14, <4>1, FirstHalfKept
      <4>3. (DOMAIN u.tasks \ {n}) \cup {n} = DOMAIN m'.tasks
        BY <1>7, <1>9
      <4>q. QED
        BY <2>1, <3>1, <4>2, <4>3 DEF NotificationInv
    <3>2. CASE pc = "push_second"
      <4>1. SecondHalf(u, DOMAIN u.tasks \ {n}, {})
        BY <1>2, <1>6, <3>2 DEF NotificationInv
      <4>2. SecondHalf(m', DOMAIN m'.tasks, {} \ {n})
        BY <1>7, <1>8, <1>14, <4>1, SecondHalfKept
      <4>3. {} \ {n} = {}
        OBVIOUS
      <4>q. QED
        BY <2>1, <3>2, <4>2, <4>3 DEF NotificationInv
    <3>q. QED
      BY <1>1, <3>1, <3>2
  <2>7. NoPanic' /\ SpawnedIsStarted'
    BY <1>1, <2>1 DEF NoPanic, SpawnedIsStarted
  <2>q. QED
    BY <1>10, <1>11, <2>3, <2>4, <2>5, <2>6, <2>7 DEF LocalInv
<1>q. QED
  BY <1>13, <1>14

\* From here on a wake finds the driver: what was queued before is polled next.
LEMMA RegisterInv == LocalInv /\ Register => LocalInv'
<1> SUFFICES ASSUME LocalInv, Register PROVE LocalInv'
  OBVIOUS
<1>1. /\ pc = "push_first" /\ todo = <<>> /\ todo' = m.wake_queue /\ queue' = FALSE
      /\ m' = [m EXCEPT !.wakers = IF @ < MaxWakers THEN @ + 1 ELSE @, !.wake_queue = <<>>]
      /\ r' \in BOOLEAN /\ use' = use
      /\ pc' = IF m.wake_queue = <<>> THEN "return" ELSE "wake_pending"
  BY DEF Register
<1>2. /\ Types /\ WakersName(m) /\ Apart(m) /\ Known(m, DOMAIN m.tasks)
      /\ FirstHalf(m, DOMAIN m.tasks)
      /\ Placed(m, <<>>) /\ ChildrenCome(m, <<>>) /\ m \in Memory
      /\ ~m.panic /\ m.task_queue = <<>> /\ m.wake_queue \in Seq(Nat)
  BY <1>1 DEF LocalInv, Unplaced, Pushing, Types, Memory, NotificationInv
<1>3. /\ m' \in Memory /\ m'.wakers > 0 /\ m'.wake_queue = <<>>
      /\ KeepsTasks(m, m') /\ m'.panic = m.panic
      /\ m'.transmit = m.transmit /\ m'.receive = m.receive
  <2>1. m.wakers \in 0..MaxWakers /\ MaxWakers \in Nat \ {0}
    BY <1>2, Constants DEF Memory
  <2>2. PICK n \in 0..MaxWakers :
          n > 0 /\ n = IF m.wakers < MaxWakers THEN m.wakers + 1 ELSE m.wakers
    BY <2>1
  <2>0. <<>> \in Seq(Nat)
    OBVIOUS
  <2>3. PICK w \in Seq(Nat) : w = <<>>
    BY <2>0, Zenon
  <2>4. m' = [m EXCEPT !.wakers = n, !.wake_queue = w]
    BY <1>1, <2>2, <2>3
  <2>5. /\ m' \in Memory /\ m'.wakers = n /\ m'.wake_queue = w
        /\ KeepsTasks(m, m') /\ m'.panic = m.panic
        /\ m'.transmit = m.transmit /\ m'.receive = m.receive
    BY <1>2, <2>4 DEF Memory, KeepsTasks
  <2>q. QED
    BY <2>2, <2>3, <2>5
<1>4. todo' \in Seq(DOMAIN m'.tasks)
  <2>1. Range(m.wake_queue) \subseteq DOMAIN m.tasks
    BY <1>2 DEF WakersName
  <2>2. \A k \in DOMAIN m.wake_queue : m.wake_queue[k] \in DOMAIN m.tasks
    BY <2>1 DEF Range
  <2>q. QED
    BY <1>1, <1>2, <1>3, <2>2 DEF KeepsTasks
<1>5. Types'
  BY <1>1, <1>2, <1>3, <1>4 DEF Types, Locations, Polling, Pushing, KeepsTasks
<1>6. Range(m'.wake_queue) = {}
  BY <1>3 DEF Range
<1>7. WakersName(m') /\ Apart(m') /\ Known(m', DOMAIN m'.tasks)
  BY <1>2, <1>3, <1>6 DEF WakersName, Apart, Known, KeepsTasks
<1>8. Unplaced' = <<>>
  BY <1>1, <1>2, <1>3 DEF Unplaced, Pushing, KeepsTasks
<1>9. Placed(m', <<>>) /\ ChildrenCome(m', <<>>)
  BY <1>2, <1>3 DEF Placed, ChildrenCome, KeepsTasks
<1>10. SecondHalf(m', DOMAIN m'.tasks, Range(m.wake_queue))
  BY <1>2, <1>3 DEF FirstHalf, SecondHalf, KeepsTasks, WakersName
<1>11. m.wake_queue = <<>> => Range(m.wake_queue) = {}
  BY DEF Range
<1>12. NotificationInv'
  BY <1>1, <1>10, <1>11 DEF NotificationInv
<1>13. NoPanic' /\ SpawnedIsStarted'
  BY <1>1 DEF NoPanic, SpawnedIsStarted
<1>q. QED
  BY <1>5, <1>7, <1>8, <1>9, <1>12, <1>13 DEF LocalInv

\* The poll returns with no task left in the queue.
LEMMA ReturnInv == LocalInv /\ Return => LocalInv'
<1> SUFFICES ASSUME LocalInv, Return PROVE LocalInv'
  OBVIOUS
<1>1. /\ \/ pc = "push_second" /\ todo = <<>>
         \/ pc = "return"
      /\ pc' \in {"finished", "idle"} /\ queue' = FALSE
      /\ use' = use /\ todo' = todo /\ r' = r
  BY DEF Return
<1>2. /\ Types /\ WakersName(m) /\ Apart(m) /\ Known(m, DOMAIN m.tasks)
      /\ SecondHalf(m, DOMAIN m.tasks, {})
      /\ Placed(m, <<>>) /\ ChildrenCome(m, <<>>) /\ m \in Memory
      /\ ~m.panic /\ m.task_queue = <<>>
  BY <1>1 DEF LocalInv, Unplaced, Pushing, Types, NotificationInv
<1>3. /\ m' \in Memory /\ m'.wakers = m.wakers /\ m'.wake_queue = m.wake_queue
      /\ m.ready_flag => m'.ready_flag
      /\ KeepsTasks(m, m') /\ m'.panic = m.panic
      /\ m'.transmit = m.transmit /\ m'.receive = m.receive
  <2>1. PICK b \in BOOLEAN : (m.ready_flag => b) /\ m' = [m EXCEPT !.ready_flag = b]
    BY Zenon DEF Return
  <2>q. QED
    BY <1>2, <2>1 DEF Memory, KeepsTasks
<1>4. Types'
  BY <1>1, <1>2, <1>3 DEF Types, Locations, Polling, Pushing, KeepsTasks
<1>5. WakersName(m') /\ Apart(m') /\ Known(m', DOMAIN m'.tasks)
  BY <1>2, <1>3 DEF WakersName, Apart, Known, KeepsTasks
<1>6. Unplaced' = <<>>
  BY <1>1, <1>2, <1>3 DEF Unplaced, Pushing, KeepsTasks
<1>7. Placed(m', <<>>) /\ ChildrenCome(m', <<>>)
  BY <1>2, <1>3 DEF Placed, ChildrenCome, KeepsTasks
<1>8. SecondHalf(m', DOMAIN m'.tasks, {})
  BY <1>2, <1>3 DEF SecondHalf, KeepsTasks
<1>9. NotificationInv'
  BY <1>1, <1>8 DEF NotificationInv
<1>10. NoPanic' /\ SpawnedIsStarted'
  BY <1>1, <1>2, <1>3 DEF NoPanic, SpawnedIsStarted, KeepsTasks
<1>q. QED
  BY <1>4, <1>5, <1>6, <1>7, <1>9, <1>10 DEF LocalInv

\* A notification between two polls wakes the driver if a receiver waits.
LEMMA OutsideWakeRxInv == LocalInv /\ OutsideWakeRx => LocalInv'
<1> SUFFICES ASSUME LocalInv, OutsideWakeRx PROVE LocalInv'
  OBVIOUS
<1>1. /\ pc = "idle" /\ m' = TryWakeRx(m) /\ use' = use /\ pc' = pc /\ todo' = todo
      /\ queue' = queue /\ r' = r
  BY DEF OutsideWakeRx
<1>2. /\ Types /\ WakersName(m) /\ Apart(m) /\ Known(m, DOMAIN m.tasks)
      /\ SecondHalf(m, DOMAIN m.tasks, {}) /\ SpawnedIsStarted
      /\ Placed(m, m.task_queue) /\ ChildrenCome(m, m.task_queue) /\ m \in Memory
      /\ ~m.panic
  BY <1>1 DEF LocalInv, Unplaced, Pushing, Types, NotificationInv
<1>3. /\ m' \in Memory /\ KeepsTasks(m, m')
      /\ Queued(m, m', {m.receive.waker} \ {None})
      /\ m'.receive.waker = m.receive.waker
      /\ m.receive.waker # None => Woke(m, m')
      /\ m'.transmit = m.transmit /\ m'.panic = m.panic
  BY <1>1, <1>2, TryWakeRxIs
<1>4. Types'
  BY <1>1, <1>2, <1>3 DEF Types, Locations, Polling, Pushing, KeepsTasks
<1>5. WakersName(m') /\ Apart(m') /\ Known(m', DOMAIN m'.tasks)
  BY <1>2, <1>3 DEF WakersName, Apart, Known, KeepsTasks, Queued
<1>6. Unplaced' = m.task_queue
  BY <1>1, <1>3 DEF Unplaced, Pushing, KeepsTasks
<1>7. Placed(m', m.task_queue) /\ ChildrenCome(m', m.task_queue)
  BY <1>2, <1>3 DEF Placed, ChildrenCome, KeepsTasks
<1>8. m.ready_flag => m'.ready_flag
  BY <1>3 DEF Queued, Sleeps, Woke
<1>9. SecondHalf(m', DOMAIN m'.tasks, {})
  <2>1. /\ m'.wakers > 0 \/ m'.ready_flag
        /\ m'.wake_queue # <<>> => m'.ready_flag
    BY <1>2, <1>3 DEF SecondHalf, Queued, Sleeps, Woke
  <2>2. (\E i \in DOMAIN m'.tasks : m'.tasks[i] \in Receivers) => m'.ready_flag
    BY <1>2, <1>3 DEF SecondHalf, Known, KeepsTasks, Woke
  <2>q. QED
    BY <2>1, <2>2 DEF SecondHalf
<1>10. NotificationInv'
  BY <1>1, <1>9 DEF NotificationInv
<1>11. NoPanic' /\ SpawnedIsStarted'
  BY <1>1, <1>2, <1>3, <1>8 DEF NoPanic, SpawnedIsStarted, KeepsTasks
<1>q. QED
  BY <1>4, <1>5, <1>6, <1>7, <1>10, <1>11 DEF LocalInv

\* A step that changes nothing.
LEMMA StutterInv == LocalInv /\ UNCHANGED vars => LocalInv'
<1> SUFFICES ASSUME LocalInv, UNCHANGED vars PROVE LocalInv'
  OBVIOUS
<1>1. use' = use /\ m' = m /\ pc' = pc /\ todo' = todo /\ queue' = queue /\ r' = r
  BY DEF vars
<1>2. Types' <=> Types
  BY <1>1 DEF Types, Polling, Pushing
<1>3. Unplaced' = Unplaced
  BY <1>1 DEF Unplaced, Pushing
<1>4. NotificationInv' <=> NotificationInv
  BY <1>1 DEF NotificationInv, InOrder
<1>5. (NoPanic' <=> NoPanic) /\ (SpawnedIsStarted' <=> SpawnedIsStarted)
  BY <1>1 DEF NoPanic, SpawnedIsStarted
<1>q. QED
  BY <1>1, <1>2, <1>3, <1>4, <1>5 DEF LocalInv

\* The invariant on which the theorems rest.
THEOREM LocalInvHolds == Spec => []LocalInv
<1>1. LocalInv /\ [Next]_vars => LocalInv'
  BY StartPollInv, PollEachInv, DrainInv, PushTaskInv, RegisterInv, ReturnInv,
     OutsideWakeRxInv, StutterInv DEF Next, Drive
<1>q. QED
  BY InitInv, <1>1, PTL DEF Spec

\* No poll panics unless spawners spawn in their first poll: with any tasks, a
\* sender of Notify finds the waker of a receiver when it calls wake_rx(), and a
\* task that spawns in a later poll finds the RefCell of task_queue free.
THEOREM PanicsOnlyAtFirst == Spec => []NoPanic
<1>1. LocalInv => NoPanic
  BY DEF LocalInv
<1>q. QED
  BY LocalInvHolds, <1>1, PTL

\* What was spawned has a slot and has been polled when the driver sleeps: the
\* handle drains task_queue again after wake_pending.
THEOREM SpawnedAreStarted == Spec => []SpawnedIsStarted
<1>1. LocalInv => SpawnedIsStarted
  BY DEF LocalInv
<1>q. QED
  BY LocalInvHolds, <1>1, PTL

\* run_neverending_future sleeps neither on a wake that is queued nor on a
\* notification of Notify that a receiver waits for, whichever part of the poll it
\* came in; no task has two slots, and every waker names a slot there is.
THEOREM NoWakeIsLost == Spec => []NoWakeLost
<1>1. LocalInv => TypeOK
  <2> SUFFICES ASSUME LocalInv PROVE TypeOK
    OBVIOUS
  <2>1. /\ m.tasks \in Seq(TaskNames \cup {"none"}) /\ pc \in Locations
        /\ WakersName(m) /\ Apart(m)
    BY DEF LocalInv, Types, Memory
  <2>2. ASSUME NEW t \in TaskNames
        PROVE  Cardinality({i \in DOMAIN m.tasks : m.tasks[i] = t}) <= 1
    <3> DEFINE S == {i \in DOMAIN m.tasks : m.tasks[i] = t}
    <3>1. CASE S = {}
      BY <3>1, FS_EmptySet
    <3>2. CASE S # {}
      <4>1. PICK i : i \in S
        BY <3>2
      <4>2. S = {i}
        BY <2>1, <4>1, Constants DEF Apart
      <4>3. Cardinality(S) = 1
        BY <4>2, FS_Singleton, Zenon
      <4>q. QED
        BY <4>3
    <3>q. QED
      BY <3>1, <3>2
  <2>3. {m.transmit.waker, m.receive.waker} \cup Range(m.wake_queue)
            \subseteq {None} \cup DOMAIN m.tasks
    BY <2>1 DEF WakersName
  <2>q. QED
    BY <2>1, <2>2, <2>3 DEF TypeOK, Locations
<1>2. LocalInv => (pc = "idle" /\ (m.wake_queue # <<>> \/ (m.receive.flag /\ Waiting))
                       => m.ready_flag)
  BY DEF LocalInv, NotificationInv, SecondHalf, Waiting
<1>3. LocalInv => NoWakeLost
  BY <1>1, <1>2 DEF NoWakeLost
<1>q. QED
  BY LocalInvHolds, <1>3, PTL
=============================================================================
