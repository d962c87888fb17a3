---------------------------- MODULE LocalExecutor ----------------------------
(****************************************************************************)
(* kernel_executor::LocalExecutor, the executor of one hart, driven by      *)
(* run_neverending_future, and tasks that wait for one another with a       *)
(* local_notify::Notify.  Everything runs on one hart, so the poll of a     *)
(* task is one step; what it does is a function from the memory m before    *)
(* the poll to the memories after it.  RefCells that stay borrowed while    *)
(* tasks are polled are state: to borrow one of them again is a panic.      *)
(* Slots of tasks are numbered from 1, a waker is the number of its slot.   *)
(****************************************************************************)
EXTENDS Naturals, Sequences, FiniteSets, SequencesExt

CONSTANTS Senders, Receivers, Spawners,  \* the tasks there are at the start
          Child,                         \* spawner -> the task that it spawns
          Uses,      \* [redriven, first]: is the handle awaited again once it
                     \* is Ready, do spawners spawn in their first poll
          MaxQueue,  \* bound: entries of wake_queue when code outside wakes
          MaxWakers, \* bound: entries of wakers told apart
          MaxSends   \* bound: notifications sent by the senders

None == 0

Children == {Child[t] : t \in Spawners}

TaskNames == Senders \cup Receivers \cup Spawners \cup Children

\* Each task there is is of one kind and is spawned by one spawner or at the start.
ASSUME ConstantsOK ==
    /\ IsFiniteSet(Senders) /\ IsFiniteSet(Receivers) /\ IsFiniteSet(Spawners)
    /\ Senders \cap Receivers = {} /\ (Senders \cup Receivers) \cap Spawners = {}
    /\ \A t \in Spawners : Child[t] \notin Senders \cup Receivers \cup Spawners
    /\ \A t, u \in Spawners : Child[t] = Child[u] => t = u
    /\ "none" \notin TaskNames
    /\ \A u \in Uses : u.redriven \in BOOLEAN /\ u.first \in BOOLEAN
    /\ MaxQueue \in Nat /\ MaxSends \in Nat /\ MaxWakers \in Nat \ {0}

VARIABLES use,
          m,      \* the memory: see Init
          pc,     \* where LocalExecutorHandle::poll is
          todo,   \* indices left to poll, or tasks left to push
          queue,  \* is the RefCell of task_queue borrowed by the loop of poll
          r       \* what LocalExecutor::poll returned: TRUE is Ready

vars == <<use, m, pc, todo, queue, r>>

----------------------------------------------------------------------------
(* Wakers and Notify.                                                       *)

\* LocalWaker::rc_wake_by_ref: the wakers of the drivers are those of
\* never_waker, which set the flag of run_neverending_future.
Wake(s, i) == [s EXCEPT !.wake_queue = Append(@, i),
                        !.ready_flag = @ \/ s.wakers > 0,
                        !.wakers     = 0]

TryWakeTx(s) == LET t == [s EXCEPT !.transmit.flag = TRUE]
                IN IF t.transmit.waker = None THEN t ELSE Wake(t, t.transmit.waker)

TryWakeRx(s) == LET t == [s EXCEPT !.receive.flag = TRUE]
                IN IF t.receive.waker = None THEN t ELSE Wake(t, t.receive.waker)

\* wake_rx: try_wake_rx().unwrap()
WakeRx(s) == [TryWakeRx(s) EXCEPT !.panic = @ \/ s.receive.waker = None]

\* Mutant: the sender is told of a receiver that has not left its waker.
RegisterRxLate(s, i) == TryWakeTx(s)

RegisterRx(s, i) == TryWakeTx([s EXCEPT !.receive.waker = i])

RegisterTx(s, i) == [s EXCEPT !.transmit.waker = i]

----------------------------------------------------------------------------
(* Polls.  A task has run to its end (Ready: its slot is emptied) or waits. *)

Finish(s, i) == [s EXCEPT !.tasks[i] = "none"]

\* A task that awaits tx_ready() and may go on to await it again.
PollReceiver(s, i) ==
    IF s.receive.flag
    THEN LET t == [s EXCEPT !.receive.flag = FALSE]
         IN {Finish(t, i), RegisterRx(t, i)}
    ELSE {RegisterRx(s, i)}

\* A task that awaits rx_ready(), then calls wake_rx() and ends or yields.
PollSender(s, i) ==
    LET t == [WakeRx(s) EXCEPT !.sends = @ + 1]
    IN IF s.transmit.flag
       THEN {Finish(t, i)} \cup (IF t.sends < MaxSends THEN {Wake(t, i)} ELSE {})
       ELSE {RegisterTx(s, i)}

\* A task that spawns another one, at once or after it has yielded once.
PollSpawner(s, i) ==
    LET t == s.tasks[i]
    IN IF use.first \/ t \in s.yielded
       THEN {[Finish(s, i) EXCEPT !.task_queue = Append(@, Child[t]), !.panic = queue]}
       ELSE {[Wake(s, i) EXCEPT !.yielded = @ \cup {t}]}

PollChild(s, i) == {Finish(s, i)}

\* poll_future
PollFuture(s, i) ==
    LET t == IF i \in DOMAIN s.tasks THEN s.tasks[i] ELSE "none"
    IN CASE t \in Receivers -> PollReceiver(s, i)
         [] t \in Senders   -> PollSender(s, i)
         [] t \in Spawners  -> PollSpawner(s, i)
         [] t \in Children  -> PollChild(s, i)
         [] t = "none"      -> {s}

\* push_task, up to its poll: the first empty slot, or else a new one.
Place(s, t) ==
    LET i == SelectInSeq(s.tasks, LAMBDA x : x = "none")
        n == IF i = 0 THEN Len(s.tasks) + 1 ELSE i
    IN <<n, [s EXCEPT !.tasks = IF i = 0 THEN Append(@, t) ELSE [@ EXCEPT ![i] = t]]>>

----------------------------------------------------------------------------
(* LocalExecutorHandle::poll.                                               *)

StartPoll ==
    /\ pc = "idle" /\ m.ready_flag
    /\ m' = [m EXCEPT !.ready_flag = FALSE]
    /\ todo' = [i \in DOMAIN m.tasks |-> i]
    /\ pc' = "poll_all"
    /\ UNCHANGED <<use, queue, r>>

\* Mutant: the loop does not go on to the next index.
PollEachStuck ==
    /\ pc \in {"poll_all", "wake_pending"} /\ todo # <<>>
    /\ m' \in PollFuture(m, Head(todo))
    /\ pc' = IF m'.panic THEN "panic" ELSE pc
    /\ UNCHANGED <<use, todo, queue, r>>

\* One index of poll_all or of wake_pending, under the borrow of the executor.
PollEach ==
    /\ pc \in {"poll_all", "wake_pending"} /\ todo # <<>>
    /\ m' \in PollFuture(m, Head(todo))
    /\ todo' = Tail(todo)
    /\ pc' = IF m'.panic THEN "panic" ELSE pc
    /\ UNCHANGED <<use, queue, r>>

\* Mutant: the queue is not drained after wake_pending.
DrainOnce ==
    /\ pc \in {"poll_all", "wake_pending"} /\ todo = <<>>
    /\ LET first == pc = "poll_all"
       IN /\ todo' = IF first THEN m.task_queue ELSE <<>>
          /\ m' = IF first THEN [m EXCEPT !.task_queue = <<>>] ELSE m
          /\ pc' = IF first THEN "push_first" ELSE "push_second"
    /\ queue' = TRUE
    /\ UNCHANGED <<use, r>>

\* for i in self.queue.borrow_mut().drain(..), which keeps the borrow.
Drain ==
    /\ pc \in {"poll_all", "wake_pending"} /\ todo = <<>>
    /\ todo' = m.task_queue /\ m' = [m EXCEPT !.task_queue = <<>>]
    /\ queue' = TRUE
    /\ pc' = IF pc = "poll_all" THEN "push_first" ELSE "push_second"
    /\ UNCHANGED <<use, r>>

PushTask ==
    /\ pc \in {"push_first", "push_second"} /\ todo # <<>>
    /\ LET placed == Place(m, Head(todo)) IN m' \in PollFuture(placed[2], placed[1])
    /\ todo' = Tail(todo)
    /\ pc' = IF m'.panic THEN "panic" ELSE pc
    /\ UNCHANGED <<use, queue, r>>

\* Mutant: the waker of the driver is not registered.
RegisterNothing ==
    /\ pc = "push_first" /\ todo = <<>>
    /\ m' = [m EXCEPT !.wake_queue = <<>>]
    /\ r' = \E i \in DOMAIN m.tasks : m.tasks[i] # "none"
    /\ todo' = m.wake_queue /\ queue' = FALSE
    /\ pc' = IF m.wake_queue = <<>> THEN "return" ELSE "wake_pending"
    /\ UNCHANGED use

\* LocalExecutor::poll registers the waker of the driver before wake_pending
\* takes the queue; it is Ready when there still are tasks.
Register ==
    /\ pc = "push_first" /\ todo = <<>>
    /\ m' = [m EXCEPT !.wakers = IF @ < MaxWakers THEN @ + 1 ELSE @, !.wake_queue = <<>>]
    /\ r' = \E i \in DOMAIN m.tasks : m.tasks[i] # "none"
    /\ todo' = m.wake_queue /\ queue' = FALSE
    /\ pc' = IF m.wake_queue = <<>> THEN "return" ELSE "wake_pending"
    /\ UNCHANGED use

\* Poll::Pending after wake_pending has polled; r after it has not.
Return ==
    /\ \/ pc = "push_second" /\ todo = <<>>
       \/ pc = "return"
    /\ LET ready == pc = "return" /\ r
       IN /\ pc' = IF ready /\ ~use.redriven THEN "finished" ELSE "idle"
          /\ m' = [m EXCEPT !.ready_flag = @ \/ (ready /\ use.redriven)]
    /\ queue' = FALSE
    /\ UNCHANGED <<use, todo, r>>

\* Other code of the hart, between two polls of the handle.
OutsideWakeRx ==
    /\ pc = "idle" /\ Len(m.wake_queue) < MaxQueue
    /\ m' = TryWakeRx(m)
    /\ UNCHANGED <<use, pc, todo, queue, r>>

Init ==
    /\ use \in Uses
    /\ \E order \in SetToSeqs(Senders \cup Receivers \cup Spawners) :
          m = [tasks |-> <<>>, task_queue |-> order, wake_queue |-> <<>>, wakers |-> 0,
               ready_flag |-> TRUE, sends |-> 0, yielded |-> {}, panic |-> FALSE,
               transmit |-> [flag |-> FALSE, waker |-> None],
               receive  |-> [flag |-> FALSE, waker |-> None]]
    /\ pc = "idle" /\ todo = <<>> /\ queue = FALSE /\ r = FALSE

Drive == StartPoll \/ PollEach \/ Drain \/ PushTask \/ Register \/ Return

Next == Drive \/ OutsideWakeRx

\* The hart goes on with the loop of run_neverending_future.
Spec == Init /\ [][Next]_vars /\ WF_vars(Drive)

----------------------------------------------------------------------------
(* Properties.                                                              *)

\* No task is in two places, and every waker names a slot there is.
TypeOK ==
    /\ m.tasks \in Seq(TaskNames \cup {"none"})
    /\ \A t \in TaskNames : Cardinality({i \in DOMAIN m.tasks : m.tasks[i] = t}) <= 1
    /\ {m.transmit.waker, m.receive.waker} \cup Range(m.wake_queue)
           \subseteq {None} \cup DOMAIN m.tasks
    /\ pc \in {"idle", "poll_all", "push_first", "wake_pending", "push_second",
               "return", "finished", "panic"}

\* No RefCell is borrowed twice and no unwrap() fails: a sender that awaits
\* rx_ready() first finds the receiver's waker when it calls wake_rx(), and a
\* spawn in a poll finds task_queue free, except in the first poll of a task.
NoPanic == pc = "panic" => use.first

Waiting == \E i \in DOMAIN m.tasks : m.tasks[i] \in Receivers

\* The hart goes idle only with an empty wake queue or with the flag set, so
\* that no wake is lost, in whichever part of the poll it came; and neither is a
\* notification, with a receiver waiting and the flag of try_wake_rx set.  The
\* state is well-formed.
NoWakeLost ==
    /\ TypeOK
    /\ pc = "idle" /\ (m.wake_queue # <<>> \/ (m.receive.flag /\ Waiting))
           => m.ready_flag

\* What a task spawned while the handle was polled has been started when the
\* poll returns: the queue is drained again after wake_pending.
SpawnedIsStarted == pc = "idle" /\ ~m.ready_flag => m.task_queue = <<>>

\* A notification is taken by a receiver that waits, as long as the handle is
\* polled again when it was Ready.
NotificationReceived ==
    use.redriven /\ ~use.first =>
        ((m.receive.flag /\ Waiting) ~> (~m.receive.flag \/ ~Waiting))
=============================================================================
