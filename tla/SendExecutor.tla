---------------------------- MODULE SendExecutor ----------------------------
(***************************************************************************)
(* kernel_executor::SendExecutor, its handle, its wakers, and the loop of  *)
(* run_neverending_future that drives a handle on a hart.                  *)
(*                                                                         *)
(* A step is a piece of code that touches shared state once or under one   *)
(* guard.  The guard of the executor is held over whole rounds of polls    *)
(* and the guard of the task queue while it is drained, so these two are   *)
(* state.  A poll of a task is one step, unless the task spawns another    *)
(* one and waits for the task queue.  Indices start at 1.                  *)
(***************************************************************************)
EXTENDS Naturals, Sequences, FiniteSets

CONSTANTS
    Tasks,
    Drivers,  \* harts that may poll a handle of the executor
    Uses      \* the ways the executor is used, see UseOK

None == "none"

\* drivers: the harts that do poll a handle; redriven: a driver polls the handle
\* again after Ready; spawns: tasks spawn others in their polls, never, not in the
\* first one, or in any.  Bounds: the entries of wake_queue, the calls of wake in progress, and the entries of
\* `wakers` that are told apart per driver.
UseOK(u) ==
    /\ u.drivers \subseteq Drivers
    /\ u.redriven \in BOOLEAN /\ u.spawns \in {"never", "later", "any"}
    /\ {u.maxQueue, u.maxWaking} \subseteq Nat /\ u.maxRegistered \in Nat \ {0}

ASSUME ConstantsOK ==
    /\ IsFiniteSet(Tasks) /\ None \notin Tasks \cup Drivers
    /\ \A u \in Uses : UseOK(u)

VARIABLES
    use,
    ready_flag, \* of run_neverending_future, per driver
    tasks,      \* SendExecutor.tasks, None for an empty slot
    wakers,     \* SendExecutor.wakers, as the number of wakers per driver
    wake_queue, \* SendExecutor.wake_queue
    task_queue, \* SendExecutor.task_queue
    executor,   \* the driver with the guard of the executor
    queue,      \* the driver with the guard of the task queue
    pc, todo,   \* per driver: next step, indices left to poll
    after,      \* per driver: next step after the polls, "idle" outside of them
    r,          \* per driver: what SendExecutor::poll returned, TRUE is Ready;
                \* FALSE outside of the lines that use it
    armed,      \* <<task, index>>: wakers that tasks have handed out
    waking,     \* calls of wake between their two guards
    done,       \* tasks that have returned Ready
    spawned,    \* history: tasks given to spawn
    woken       \* history: tasks woken since their last poll began

vars == <<use, ready_flag, tasks, wakers, wake_queue, task_queue, executor, queue,
          pc, todo, after, r, armed, waking, done, spawned, woken>>
driverVars == <<ready_flag, pc, todo, after, r>>
taskVars == <<tasks, armed, done, woken>>

Locations == {"idle", "poll_all", "poll_each", "drain1", "register",
              "wake_pending", "drain2", "return", "spawning", "finished"}

Goto(d, loc) == pc' = [pc EXCEPT ![d] = loc]

Occurs(x, s) == \E i \in DOMAIN s : s[i] = x

Init ==
    /\ use \in Uses
    /\ ready_flag = [d \in Drivers |-> d \in use.drivers]
    /\ tasks = <<>>
    /\ wakers = [d \in Drivers |-> 0]
    /\ wake_queue = <<>> /\ task_queue = <<>>
    /\ executor = None /\ queue = None
    /\ pc = [d \in Drivers |-> "idle"]
    /\ todo = [d \in Drivers |-> <<>>]
    /\ after = [d \in Drivers |-> "idle"]
    /\ r = [d \in Drivers |-> FALSE]
    /\ armed = {} /\ waking = 0
    /\ done = {} /\ spawned = {} /\ woken = {}

-----------------------------------------------------------------------------
(* Spawning and waking, from any hart.                                     *)

\* SendExecutorHandle::spawn
Spawn(t) ==
    /\ t \notin spawned /\ queue = None
    /\ task_queue' = Append(task_queue, t)
    /\ spawned' = spawned \cup {t}
    /\ UNCHANGED <<use, driverVars, taskVars, wakers, wake_queue, executor, queue, waking>>

PushIndex(i) == wake_queue' = Append(wake_queue, i)

\* SendWaker::wake up to the end of the push; the waker may outlive its task
\* and name a slot that another task has got since.
WakePush(t, i) ==
    /\ <<t, i>> \in armed
    /\ waking < use.maxWaking /\ Len(wake_queue) < use.maxQueue
    /\ armed' = armed \ {<<t, i>>}
    /\ PushIndex(i)
    /\ woken' = IF tasks[i] = t THEN woken \cup {t} ELSE woken
    /\ waking' = waking + 1
    /\ UNCHANGED <<use, driverVars, tasks, done, wakers, task_queue, executor, queue, spawned>>

\* Mutants: the wakers stay in the list, or are dropped.
WakeAndKeep ==
    /\ ready_flag' = [d \in Drivers |-> ready_flag[d] \/ wakers[d] > 0]
    /\ UNCHANGED wakers

DropWakers == wakers' = [d \in Drivers |-> 0] /\ UNCHANGED ready_flag

\* wakers.drain(..).for_each(|s| s.wake()), the waker of run_neverending_future.
WakeAll ==
    /\ ready_flag' = [d \in Drivers |-> ready_flag[d] \/ wakers[d] > 0]
    /\ wakers' = [d \in Drivers |-> 0]

\* The rest of it, under the guard of `wakers`.
WakeDrivers ==
    /\ waking > 0
    /\ waking' = waking - 1
    /\ WakeAll
    /\ UNCHANGED <<use, pc, todo, after, r, taskVars, wake_queue, task_queue,
                   executor, queue, spawned>>

-----------------------------------------------------------------------------
(* Polls of tasks.                                                         *)

\* poll_future(i) on the table ts: the driver goes to loc, or waits for the task
\* queue on behalf of the task with the guard of the executor in hand.
PollFuture(d, i, ts, loc) ==
    IF i \in DOMAIN ts /\ ts[i] # None
    THEN /\ woken' = woken \ {ts[i]}
         /\ \/ /\ tasks' = [ts EXCEPT ![i] = None]
               /\ done' = done \cup {ts[i]}
               /\ Goto(d, loc)
               /\ UNCHANGED <<armed, executor>>
            \/ /\ tasks' = ts
               /\ armed' = armed \cup {<<ts[i], i>>}
               /\ Goto(d, loc)
               /\ UNCHANGED <<done, executor>>
            \/ /\ use.spawns = "any" \/ (use.spawns = "later" /\ loc = "poll_each")
               /\ tasks' = ts
               /\ armed' = armed \cup {<<ts[i], i>>}
               /\ executor' = d
               /\ Goto(d, "spawning")
               /\ UNCHANGED done
    ELSE tasks' = ts /\ Goto(d, loc) /\ UNCHANGED <<woken, armed, done, executor>>

\* spawn, called from the poll of a task under poll_all or wake_pending; under
\* push_task this driver itself has the guard and the wait never ends.
SpawnFromPoll(d) ==
    /\ pc[d] = "spawning" /\ queue = None
    /\ \/ \E t \in Tasks \ spawned :
             task_queue' = Append(task_queue, t) /\ spawned' = spawned \cup {t}
       \/ Tasks = spawned /\ UNCHANGED <<task_queue, spawned>>
    /\ Goto(d, "poll_each")
    /\ UNCHANGED <<use, ready_flag, todo, after, r, taskVars, wakers, wake_queue,
                   executor, queue, waking>>

PollEach(d) ==
    /\ pc[d] = "poll_each" /\ todo[d] # <<>>
    /\ PollFuture(d, Head(todo[d]), tasks, "poll_each")
    /\ todo' = [todo EXCEPT ![d] = Tail(@)]
    /\ UNCHANGED <<use, ready_flag, after, r, wakers, wake_queue, task_queue, queue, waking, spawned>>

\* Mutant: the guard of wake_pending is not dropped.
KeepExecutor(d) == executor' = IF after[d] = "drain2" THEN d ELSE None

DropExecutor(d) == executor' = None

\* The guard of the executor is dropped after the round.
PollEachEnd(d) ==
    /\ pc[d] = "poll_each" /\ todo[d] = <<>>
    /\ DropExecutor(d)
    /\ Goto(d, after[d])
    /\ after' = [after EXCEPT ![d] = "idle"]
    /\ UNCHANGED <<use, ready_flag, todo, r, taskVars, wakers, wake_queue,
                   task_queue, queue, waking, spawned>>

-----------------------------------------------------------------------------
(* SendExecutorHandle::poll.                                               *)

\* run_neverending_future: ready_flag.swap(false), then poll.
StartPoll(d) ==
    /\ pc[d] = "idle" /\ ready_flag[d]
    /\ ready_flag' = [ready_flag EXCEPT ![d] = FALSE]
    /\ Goto(d, "poll_all")
    /\ UNCHANGED <<use, todo, after, r, taskVars, wakers, wake_queue, task_queue,
                   executor, queue, waking, spawned>>

PollAll(d) ==
    /\ pc[d] = "poll_all" /\ executor = None
    /\ executor' = d
    /\ todo' = [todo EXCEPT ![d] = [i \in 1 .. Len(tasks) |-> i]]
    /\ after' = [after EXCEPT ![d] = "drain1"]
    /\ Goto(d, "poll_each")
    /\ UNCHANGED <<use, ready_flag, r, taskVars, wakers, wake_queue, task_queue, queue, waking, spawned>>

LockQueue(d) ==
    /\ pc[d] \in {"drain1", "drain2"} /\ queue = None
    /\ queue' = d
    /\ UNCHANGED <<use, driverVars, taskVars, wakers, wake_queue, task_queue, executor, waking, spawned>>

FreeSlots == {i \in DOMAIN tasks : tasks[i] = None}

\* Mutant: an occupied slot is taken for a free one.
SlotForOccupied == IF tasks = <<>> THEN 1 ELSE Len(tasks)

\* The first free slot, or a new one.
SlotFor ==
    IF FreeSlots = {} THEN Len(tasks) + 1
    ELSE CHOOSE i \in FreeSlots : \A j \in FreeSlots : i <= j

Place(t) == [i \in DOMAIN tasks \cup {SlotFor} |-> IF i = SlotFor THEN t ELSE tasks[i]]

\* push_task, for the next task of the queue.
PushTask(d) ==
    /\ pc[d] \in {"drain1", "drain2"} /\ queue = d
    /\ task_queue # <<>> /\ executor = None
    /\ task_queue' = Tail(task_queue)
    /\ PollFuture(d, SlotFor, Place(Head(task_queue)), pc[d])
    /\ UNCHANGED <<use, ready_flag, todo, after, r, wakers, wake_queue, queue, waking, spawned>>

\* Mutants: the guard outlives the drain, or one task is left in the queue.
KeepQueue(d) == queue' = d

QueueLeft == Len(task_queue) <= 1

DropQueue(d) == queue' = None

QueueDrained == task_queue = <<>>

UnlockQueue(d) ==
    /\ pc[d] \in {"drain1", "drain2"} /\ queue = d
    /\ QueueDrained
    /\ DropQueue(d)
    /\ Goto(d, IF pc[d] = "drain1" THEN "register" ELSE "idle")
    /\ r' = [r EXCEPT ![d] = FALSE]
    /\ UNCHANGED <<use, ready_flag, todo, after, taskVars, wakers, wake_queue,
                   task_queue, executor, waking, spawned>>

\* SendExecutor::poll: register the driver's waker; Pending if every slot is
\* empty, Ready if one is not.
RegisterDriver(d) ==
    /\ pc[d] = "register" /\ executor = None
    /\ wakers' = [wakers EXCEPT ![d] = IF @ < use.maxRegistered THEN @ + 1 ELSE @]
    /\ r' = [r EXCEPT ![d] = \E i \in DOMAIN tasks : tasks[i] # None]
    /\ Goto(d, "wake_pending")
    /\ UNCHANGED <<use, ready_flag, todo, after, taskVars, wake_queue, task_queue,
                   executor, queue, waking, spawned>>

\* Mutant: the last index is lost.
AllButLast == SubSeq(wake_queue, 1, Len(wake_queue) - 1)

\* wake_queue.drain(..).collect()
Pending == wake_queue

WakePending(d) ==
    /\ pc[d] = "wake_pending" /\ executor = None
    /\ executor' = d
    /\ todo' = [todo EXCEPT ![d] = Pending]
    /\ wake_queue' = <<>>
    /\ after' = [after EXCEPT ![d] = IF wake_queue = <<>> THEN "return" ELSE "drain2"]
    /\ Goto(d, "poll_each")
    /\ UNCHANGED <<use, ready_flag, r, taskVars, wakers, task_queue, queue, waking, spawned>>

\* The handle returns r.  It is awaited once, as common_hart_code awaits the handle
\* of the local executor, or again and again.
Return(d) ==
    /\ pc[d] = "return"
    /\ Goto(d, IF r[d] /\ ~use.redriven THEN "finished" ELSE "idle")
    /\ ready_flag' = [ready_flag EXCEPT ![d] = @ \/ (r[d] /\ use.redriven)]
    /\ r' = [r EXCEPT ![d] = FALSE]
    /\ UNCHANGED <<use, todo, after, taskVars, wakers, wake_queue, task_queue,
                   executor, queue, waking, spawned>>

-----------------------------------------------------------------------------

Drive(d) ==
    \/ StartPoll(d) \/ PollAll(d) \/ PollEach(d) \/ PollEachEnd(d)
    \/ LockQueue(d) \/ PushTask(d) \/ UnlockQueue(d)
    \/ RegisterDriver(d) \/ WakePending(d) \/ Return(d)
    \/ SpawnFromPoll(d)

Next ==
    \/ \E t \in Tasks : Spawn(t)
    \/ \E a \in armed : WakePush(a[1], a[2])
    \/ WakeDrivers
    \/ \E d \in Drivers : Drive(d)

Spec == Init /\ [][Next]_vars

\* A hart executes the loop and the calls it is in; tasks are spawned and woken
\* at will.
FairSpec == Spec /\ WF_vars(WakeDrivers) /\ \A d \in Drivers : WF_vars(Drive(d))

-----------------------------------------------------------------------------
(* Properties.                                                             *)

Indices == 1 .. Cardinality(Tasks)

TypeOK ==
    /\ ready_flag \in [Drivers -> BOOLEAN] /\ r \in [Drivers -> BOOLEAN]
    /\ tasks \in Seq(Tasks \cup {None}) /\ task_queue \in Seq(Tasks)
    /\ wakers \in [Drivers -> 0 .. use.maxRegistered]
    /\ wake_queue \in Seq(Indices) /\ todo \in [Drivers -> Seq(Indices)]
    /\ {executor, queue} \subseteq Drivers \cup {None}
    /\ pc \in [Drivers -> Locations] /\ after \in [Drivers -> Locations]
    /\ armed \subseteq Tasks \X Indices
    /\ waking \in 0 .. use.maxWaking
    /\ done \subseteq spawned /\ spawned \subseteq Tasks /\ woken \subseteq Tasks

Places(t) ==
    {<<"slot", i>> : i \in {j \in DOMAIN tasks : tasks[j] = t}}
        \cup {<<"queue", i>> : i \in {j \in DOMAIN task_queue : task_queue[j] = t}}

\* push_task and the reuse of slots lose and duplicate no task: one that was
\* spawned and has not returned Ready is in one place of the queue or the slots.
TasksKept ==
    \A t \in Tasks :
        Cardinality(Places(t)) = IF t \in spawned \ done THEN 1 ELSE 0

\* wake and wake_pending lose no index: a task that was woken after its last
\* poll began is in the wake queue or in the round of polls somebody is in, even
\* when other drivers poll and slots change hands.
WokenIsQueued ==
    \A i \in DOMAIN tasks :
        tasks[i] \in woken =>
            Occurs(i, wake_queue) \/ \E d \in Drivers : Occurs(i, todo[d])

BeforeWakePending == {"poll_all", "drain1", "register", "wake_pending"}

\* The driver sleeps only when nothing is queued: with an entry in wake_queue it
\* has yet to reach wake_pending, its flag is up, or a wake in progress is about
\* to find its waker.  Once the handle is Ready nobody polls it any more, and a
\* driver whose task spawns in its first poll waits for itself.
QueueIsServed ==
    wake_queue # <<>> =>
        \E d \in Drivers :
            \/ pc[d] \in BeforeWakePending \cup {"finished"}
            \/ pc[d] \in {"poll_each", "spawning"} /\ after[d] = "drain1"
            \/ pc[d] = "spawning" /\ queue = d
            \/ ready_flag[d]
            \/ waking > 0 /\ wakers[d] > 0

\* A driver that is polled again only when it was woken registers in every poll
\* and still has at most one waker in the list: the list does not grow, as it does
\* for one that is polled again at once.  Nor does the table of tasks beyond their
\* number; the state is well-formed.
WakersBounded == TypeOK /\ (~use.redriven => \A d \in Drivers : wakers[d] <= 1)

\* A single driver that polls the handle again when it was Ready.
OneDriver == use.redriven /\ Cardinality(use.drivers) = 1

\* A task that was woken is polled, if no task waits for the task queue in its
\* first poll.
WokenIsPolled ==
    (OneDriver /\ use.spawns # "any") => \A t \in Tasks : (t \in woken) ~> (t \notin woken)

\* SendExecutorHandle::poll takes the task queue and the executor in both orders:
\* push_task the one in the other, a task that spawns the other in the one.  With
\* one driver, and tasks that spawn in their first poll excepted, neither wait
\* lasts and the poll returns.
HandleReturns ==
    (OneDriver /\ use.spawns # "any") =>
        (\E d \in use.drivers : pc[d] = "poll_all") ~> (\A d \in use.drivers : pc[d] = "idle")

\* spawn wakes nobody, but every wake-up of the driver serves the task queue: what
\* was spawned before gets a slot and its first poll.
SpawnedIsPushed ==
    (OneDriver /\ use.spawns # "any") =>
        (task_queue # <<>> /\ \E d \in use.drivers : ready_flag[d]) ~> (task_queue = <<>>)
=============================================================================
