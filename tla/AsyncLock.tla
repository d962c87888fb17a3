----------------------------- MODULE AsyncLock -----------------------------
(***************************************************************************)
(* kernel_lock::future: one AsyncMutex or AsyncRwLock with the tasks that  *)
(* await it.  Either is a spinlock, used at the level of RwLockAbs (a      *)
(* Mutex has writers only), and a list of wakers under a shared::Mutex; a  *)
(* poll and a guard's drop touch the two in separate steps.  A hart        *)
(* executes one poll or drop at a time, other harts run in between.        *)
(*                                                                         *)
(* Or else what is awaited is a WaitForFunctionCallFuture: `ready` is its  *)
(* result, `wakers` its ready_waker, and the calls of its function come    *)
(* from other contexts.  It has one waiter at a time.                      *)
(***************************************************************************)
EXTENDS Naturals, Sequences

CONSTANTS
    Tasks,
    Uses,       \* the locks and the ways they may be used, see UseOK
    MaxWakers   \* bound: length of the list of wakers

\* harts: each hart is the set of tasks its executor owns; spurious: executors
\* poll tasks nobody has woken (poll_all); asked: the function is called by
\* those whom enable() has asked to, or else enable is null_fn and calls come at
\* will.
UseOK(u) ==
    /\ u.kind \in {"mutex", "rwlock", "call"}
    /\ UNION u.harts = Tasks /\ \A h, k \in u.harts : h = k \/ h \cap k = {}
    /\ u.spurious \in BOOLEAN /\ u.asked \in BOOLEAN

ASSUME ConstantsOK == MaxWakers \in Nat \ {0} /\ \A u \in Uses : UseOK(u)

VARIABLES
    use,
    readers, writers, \* tasks with a guard of `locked`
    wakers,           \* the list of wakers
    woken,            \* tasks the executor has to poll
    want,             \* the future a task awaits, see Futures
    pc,
    ready,            \* the result of the call is there
    enabled,          \* enable() has asked for a call
    calling           \* a call is between its two guards

vars == <<use, readers, writers, wakers, woken, want, pc, ready, enabled, calling>>
callVars == <<ready, enabled, calling>>

Guards == readers \cup writers

Futures == [kind \in {"mutex", "rwlock", "call"} |->
               CASE kind = "mutex" -> {"lock"}
                 [] kind = "rwlock" -> {"read", "write"}
                 [] kind = "call" -> {"result"}]

Locations == {"idle", "waiting", "register", "enable", "holding", "wake", "clear", "panicked"}

\* Inside of a poll or a drop; a panic never returns.
Busy(t) == pc[t] \in {"register", "enable", "wake", "clear", "panicked"}

HartFree(t) == \A h \in use.harts : t \in h => \A u \in h : ~Busy(u)

Goto(t, loc) == pc' = [pc EXCEPT ![t] = loc]

Registered(t) == \E i \in DOMAIN wakers : wakers[i] = t

Init ==
    /\ use \in Uses
    /\ readers = {} /\ writers = {}
    /\ wakers = <<>>
    /\ woken = {}
    /\ want \in {[t \in Tasks |-> w] : w \in {"read", "lock", "result"} \cap Futures[use.kind]}
    /\ pc = [t \in Tasks |-> "idle"]
    /\ ready = FALSE /\ enabled = FALSE /\ calling = FALSE

-----------------------------------------------------------------------------
(* Awaiting the lock.                                                      *)

\* lock(), read(), write() and wait(): the new future has not been polled yet.
Await(t, w) ==
    /\ pc[t] = "idle" /\ HartFree(t) /\ w \in Futures[use.kind]
    /\ use.kind = "call" => \A u \in Tasks : pc[u] = "idle"
    /\ want' = [want EXCEPT ![t] = w]
    /\ woken' = woken \cup {t}
    /\ Goto(t, "waiting")
    /\ UNCHANGED <<use, callVars, readers, writers, wakers>>

MayPoll(t, w) ==
    /\ pc[t] = "waiting" /\ HartFree(t) /\ want[t] = w
    /\ t \in woken \/ use.spurious

\* RwLockReadFuture::poll up to the end of try_lock_shared.
PollRead(t) ==
    /\ MayPoll(t, "read")
    /\ woken' = woken \ {t}
    /\ \/ writers = {} /\ readers' = readers \cup {t} /\ Goto(t, "holding")
       \/ writers # {} /\ Goto(t, "register") /\ UNCHANGED readers
    /\ UNCHANGED <<use, callVars, writers, wakers, want>>

PollExclusive(t, w) ==
    /\ MayPoll(t, w)
    /\ woken' = woken \ {t}
    /\ \/ Guards = {} /\ writers' = {t} /\ Goto(t, "holding")
       \/ Guards # {} /\ Goto(t, "register") /\ UNCHANGED writers
    /\ UNCHANGED <<use, callVars, readers, wakers, want>>

\* RwLockWriteFuture::poll up to the end of try_lock_exclusive.
PollWrite(t) == PollExclusive(t, "write")

\* MutexLockFuture::poll up to the end of try_lock.
PollLock(t) == PollExclusive(t, "lock")

\* Mutant: the waker is not pushed.
PushNothing(t) == wakers

Push(t) == Append(wakers, t)

\* The waker is pushed and the poll returns Pending.  A release of an RwLock
\* goes through the whole list, so a second entry of a task makes no difference
\* there and is left out.
Register(t) ==
    /\ pc[t] = "register" /\ use.kind # "call"
    /\ \/ /\ use.kind = "rwlock" /\ Registered(t)
          /\ UNCHANGED wakers
       \/ /\ use.kind = "mutex" \/ ~Registered(t)
          /\ Len(wakers) < MaxWakers
          /\ wakers' = Push(t)
    /\ Goto(t, "waiting")
    /\ UNCHANGED <<use, callVars, readers, writers, woken, want>>

-----------------------------------------------------------------------------
(* Dropping a guard.                                                       *)

\* force_unlock_shared up to the end of the unlock.
DropReadGuard(t) ==
    /\ t \in readers /\ pc[t] = "holding" /\ HartFree(t)
    /\ readers' = readers \ {t}
    /\ Goto(t, "wake")
    /\ UNCHANGED <<use, callVars, writers, wakers, woken, want>>

\* force_unlock_exclusive, and force_unlock of the Mutex, likewise.
DropExclusiveGuard(t) ==
    /\ t \in writers /\ pc[t] = "holding" /\ HartFree(t)
    /\ writers' = writers \ {t}
    /\ Goto(t, "wake")
    /\ UNCHANGED <<use, callVars, readers, wakers, woken, want>>

\* Mutant: the last waker of the list is left out.
AllButLastWaiter == {u \in Tasks : \E i \in 1 .. Len(wakers) - 1 : wakers[i] = u}

EveryWaiter == {u \in Tasks : Registered(u)}

\* RwLock: the loop that wakes, under one guard of the list.
WakeAll(t) ==
    /\ pc[t] = "wake" /\ use.kind = "rwlock"
    /\ woken' = woken \cup EveryWaiter
    /\ Goto(t, "clear")
    /\ UNCHANGED <<use, callVars, readers, writers, wakers, want>>

\* RwLock: the clear, under another guard of the list.
ClearWakers(t) ==
    /\ pc[t] = "clear"
    /\ wakers' = <<>>
    /\ Goto(t, "idle")
    /\ UNCHANGED <<use, callVars, readers, writers, woken, want>>

\* Mutex: wakers.remove(0) panics when there is no waker; or else that one is
\* woken.
WakeFirst(t) ==
    /\ pc[t] = "wake" /\ use.kind = "mutex"
    /\ \/ /\ wakers = <<>>
          /\ Goto(t, "panicked")
          /\ UNCHANGED <<wakers, woken>>
       \/ /\ wakers # <<>>
          /\ wakers' = Tail(wakers)
          /\ woken' = woken \cup {Head(wakers)}
          /\ Goto(t, "idle")
    /\ UNCHANGED <<use, callVars, readers, writers, want>>

-----------------------------------------------------------------------------
(* WaitForFunctionCallFuture.                                              *)

\* poll: ready.take(); nobody ever sets waiting_waker or reads someone_waiting.
PollCall(t) ==
    /\ MayPoll(t, "result")
    /\ woken' = woken \ {t}
    /\ ready' = FALSE
    /\ Goto(t, IF ready THEN "idle" ELSE "register")
    /\ UNCHANGED <<use, readers, writers, wakers, want, enabled, calling>>

\* ready_waker.replace(...)
RegisterCall(t) ==
    /\ pc[t] = "register" /\ use.kind = "call"
    /\ wakers' = <<t>>
    /\ Goto(t, "enable")
    /\ UNCHANGED <<use, readers, writers, woken, want, callVars>>

\* (self.enable)(), then Pending.
EnableCall(t) ==
    /\ pc[t] = "enable"
    /\ enabled' = use.asked
    /\ Goto(t, "waiting")
    /\ UNCHANGED <<use, readers, writers, wakers, woken, want, ready, calling>>

\* WaitForFunctionCallFuture::wake: the result is stored; whoever was enabled may
\* call once or more often.
CallReady ==
    /\ use.kind = "call" /\ ~calling
    /\ use.asked => enabled
    /\ ready' = TRUE /\ calling' = TRUE
    /\ enabled' \in {enabled, FALSE}
    /\ UNCHANGED <<use, readers, writers, wakers, woken, want, pc>>

\* Mutant: the waker is not looked at.
NoWaker == {}

\* ready_waker, which the call leaves where it is.
ReadyWaker == {t \in Tasks : Registered(t)}

\* The rest of it.
CallWake ==
    /\ calling
    /\ calling' = FALSE
    /\ woken' = woken \cup ReadyWaker
    /\ UNCHANGED <<use, readers, writers, wakers, want, pc, ready, enabled>>

-----------------------------------------------------------------------------

Poll(t) == PollRead(t) \/ PollWrite(t) \/ PollLock(t) \/ PollCall(t)
Continue(t) ==
    \/ Register(t) \/ WakeAll(t) \/ ClearWakers(t) \/ WakeFirst(t)
    \/ RegisterCall(t) \/ EnableCall(t)
DropGuard(t) == DropReadGuard(t) \/ DropExclusiveGuard(t)

Next ==
    \/ \E t \in Tasks :
          \/ \E w \in UNION {Futures[k] : k \in DOMAIN Futures} : Await(t, w)
          \/ Poll(t) \/ Continue(t) \/ DropGuard(t)
    \/ CallReady \/ CallWake

Spec == Init /\ [][Next]_vars

\* An executor polls a task that was woken, a hart finishes the poll or drop it
\* is in, a guard is dropped in the end, and who was enabled calls.  Awaiting is
\* optional.
FairSpec ==
    /\ Spec
    /\ WF_vars(enabled /\ CallReady) /\ WF_vars(CallWake)
    /\ \A t \in Tasks :
          /\ WF_vars(t \in woken /\ Poll(t))
          /\ WF_vars(Continue(t)) /\ WF_vars(DropGuard(t))

-----------------------------------------------------------------------------
(* Properties.                                                             *)

TypeOK ==
    /\ use \in Uses
    /\ readers \subseteq Tasks /\ writers \subseteq Tasks
    /\ wakers \in Seq(Tasks) /\ Len(wakers) <= MaxWakers
    /\ woken \subseteq Tasks
    /\ want \in [Tasks -> Futures[use.kind]]
    /\ pc \in [Tasks -> Locations]
    /\ {ready, enabled, calling} \subseteq BOOLEAN

\* The polls of future/mutex.rs and future/rwlock.rs: "Locking not successful",
\* "Register the waker".  A task that got Pending and was not woken since is in
\* the list, and somebody is left who will go to the list: a guard exists or its
\* drop has yet to wake, or, since a Mutex wakes one task only, a task that was
\* woken will lock and unlock in its turn.  wait_future.rs calls enable() after it
\* has stored the waker, so that a call made between the look at `ready` and the
\* store is made again.
NoWaiterStranded ==
    \A t \in Tasks :
        (pc[t] = "waiting" /\ t \notin woken) =>
            /\ Registered(t)
            /\ \/ Guards # {}
               \/ \E u \in Tasks : pc[u] = "wake"
               \/ use.kind = "mutex" /\ \E u \in woken : pc[u] = "waiting"
               \/ use.kind = "call" /\ (enabled \/ calling)

OneHart == use.harts = {Tasks}

\* The same where it holds: for a lock among the tasks of one hart, which a Mutex
\* has to poll only when they were woken; for a call on any hart, if enable() asks
\* for it.  The state is well-formed in every use.
WaiterWillBeWoken ==
    /\ TypeOK
    /\ (\/ use.kind = "rwlock" /\ OneHart
        \/ use.kind = "mutex" /\ OneHart /\ ~use.spurious
        \/ use.kind = "call" /\ use.asked) => NoWaiterStranded

\* An RwLock among the tasks of one hart that is free while somebody waits for it
\* is taken.
FreeLockIsTaken ==
    (/\ OneHart /\ use.kind = "rwlock"
     /\ Guards = {} /\ \E t \in Tasks : pc[t] = "waiting") ~> (Guards # {})

\* A call that enable() asks for ends the wait, although it may come while the
\* waker of an earlier wait is still stored, and the waiter may be polled between
\* the result and the wake-up.
CallIsReceived ==
    (use.kind = "call" /\ use.asked /\ \E t \in Tasks : pc[t] = "waiting")
        ~> (\A t \in Tasks : pc[t] = "idle")
=============================================================================
