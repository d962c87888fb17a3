----------------------------- MODULE SpinRwLock -----------------------------
(***************************************************************************)
(* kernel_lock::spin::rwlock::RawSpinRwLock, one atomic memory access per  *)
(* step.  The lock is one AtomicUsize: every shared guard adds SHARED to   *)
(* it, an exclusive guard adds WRITER.  An acquisition is a load and a     *)
(* compare-exchange of the value that was loaded, so another thread can    *)
(* run between the two.                                                    *)
(***************************************************************************)
EXTENDS Naturals, FiniteSets

CONSTANT Threads    \* the contexts that may hold or want a guard

ASSUME ThreadsFinite == IsFiniteSet(Threads)

SHARED == 2
WRITER == 1

VARIABLES
    value,          \* RawSpinRwLock.value
    outdated_value, \* the local of that name, per thread
    spins,          \* called through lock_* (TRUE) or through try_lock_* (FALSE)
    pc              \* the next access of the call the thread is in

vars == <<value, outdated_value, spins, pc>>

Locations == {"idle", "load_shared", "cas_shared", "reading",
              "load_exclusive", "cas_exclusive", "writing"}

Readers == {t \in Threads : pc[t] = "reading"}
Writers == {t \in Threads : pc[t] = "writing"}

HasWriter(v) == v % SHARED = WRITER

Init ==
    /\ value = 0
    /\ outdated_value = [t \in Threads |-> 0]
    /\ spins = [t \in Threads |-> FALSE]
    /\ pc = [t \in Threads |-> "idle"]

Goto(t, loc) == pc' = [pc EXCEPT ![t] = loc]

\* try_lock_* returns false: lock_* calls it again, a bare try_lock_* is over.
Refuse(t) ==
    /\ Goto(t, IF spins[t] THEN pc[t] ELSE "idle")
    /\ UNCHANGED <<value, outdated_value, spins>>

-----------------------------------------------------------------------------
(* Shared guards.                                                          *)

LockShared(t) ==
    /\ pc[t] = "idle"
    /\ Goto(t, "load_shared")
    /\ \E b \in BOOLEAN : spins' = [spins EXCEPT ![t] = b]
    /\ UNCHANGED <<value, outdated_value>>

\* Mutant: the writer bit is not tested.
TryLockSharedLoadNoTest(t) ==
    /\ pc[t] = "load_shared"
    /\ outdated_value' = [outdated_value EXCEPT ![t] = value]
    /\ Goto(t, "cas_shared")
    /\ UNCHANGED <<value, spins>>

TryLockSharedLoad(t) ==
    /\ pc[t] = "load_shared"
    /\ \/ HasWriter(value) /\ Refuse(t)
       \/ /\ ~HasWriter(value)
          /\ outdated_value' = [outdated_value EXCEPT ![t] = value]
          /\ Goto(t, "cas_shared")
          /\ UNCHANGED <<value, spins>>

\* Mutant: a store in place of the compare_exchange.
TryLockSharedStore(t) ==
    /\ pc[t] = "cas_shared"
    /\ value' = outdated_value[t] + SHARED
    /\ Goto(t, "reading")
    /\ UNCHANGED <<outdated_value, spins>>

\* Mutant: a failed compare_exchange is retried without a new load.
TryLockSharedNoReload(t) ==
    /\ pc[t] = "cas_shared"
    /\ \/ /\ value = outdated_value[t]
          /\ value' = outdated_value[t] + SHARED
          /\ Goto(t, "reading")
       \/ value # outdated_value[t] /\ UNCHANGED <<value, pc>>
    /\ UNCHANGED <<outdated_value, spins>>

TryLockSharedCas(t) ==
    /\ pc[t] = "cas_shared"
    /\ \/ /\ value = outdated_value[t]
          /\ value' = outdated_value[t] + SHARED
          /\ Goto(t, "reading")
       \/ /\ value # outdated_value[t]
          /\ Goto(t, "load_shared")
          /\ UNCHANGED value
    /\ UNCHANGED <<outdated_value, spins>>

UnlockShared(t) ==
    /\ pc[t] = "reading"
    /\ value' = value - SHARED
    /\ Goto(t, "idle")
    /\ UNCHANGED <<outdated_value, spins>>

-----------------------------------------------------------------------------
(* The exclusive guard.                                                    *)

LockExclusive(t) ==
    /\ pc[t] = "idle"
    /\ Goto(t, "load_exclusive")
    /\ \E b \in BOOLEAN : spins' = [spins EXCEPT ![t] = b]
    /\ UNCHANGED <<value, outdated_value>>

\* Mutant: only another writer keeps a writer out.
TryLockExclusiveLoadWriterOnly(t) ==
    /\ pc[t] = "load_exclusive"
    /\ \/ HasWriter(value) /\ Refuse(t)
       \/ /\ ~HasWriter(value)
          /\ outdated_value' = [outdated_value EXCEPT ![t] = value]
          /\ Goto(t, "cas_exclusive")
          /\ UNCHANGED <<value, spins>>

TryLockExclusiveLoad(t) ==
    /\ pc[t] = "load_exclusive"
    /\ \/ value # 0 /\ Refuse(t)
       \/ /\ value = 0
          /\ outdated_value' = [outdated_value EXCEPT ![t] = value]
          /\ Goto(t, "cas_exclusive")
          /\ UNCHANGED <<value, spins>>

TryLockExclusiveCas(t) ==
    /\ pc[t] = "cas_exclusive"
    /\ \/ /\ value = outdated_value[t]
          /\ value' = outdated_value[t] + WRITER
          /\ Goto(t, "writing")
       \/ /\ value # outdated_value[t]
          /\ Goto(t, "load_exclusive")
          /\ UNCHANGED value
    /\ UNCHANGED <<outdated_value, spins>>

UnlockExclusive(t) ==
    /\ pc[t] = "writing"
    /\ value' = value - WRITER
    /\ Goto(t, "idle")
    /\ UNCHANGED <<outdated_value, spins>>

-----------------------------------------------------------------------------
(* GuardMarker = GuardSend: the guard moves to an idle thread, the lock    *)
(* word is not touched.                                                    *)

SendGuard(t, u) ==
    /\ pc[t] \in {"reading", "writing"}
    /\ pc[u] = "idle"
    /\ pc' = [pc EXCEPT ![t] = "idle", ![u] = pc[t]]
    /\ UNCHANGED <<value, outdated_value, spins>>

-----------------------------------------------------------------------------

\* The accesses of a call in progress, and the drop of a guard.
Step(t) ==
    \/ TryLockSharedLoad(t)
    \/ TryLockSharedCas(t)
    \/ UnlockShared(t)
    \/ TryLockExclusiveLoad(t)
    \/ TryLockExclusiveCas(t)
    \/ UnlockExclusive(t)

Next ==
    \E t \in Threads :
        \/ LockShared(t)
        \/ LockExclusive(t)
        \/ Step(t)
        \/ \E u \in Threads : SendGuard(t, u)

Spec == Init /\ [][Next]_vars

\* A hart inside a call keeps executing it and a guard is dropped in the end;
\* nothing obliges a thread to start a call.
FairSpec == Spec /\ \A t \in Threads : WF_vars(Step(t))

-----------------------------------------------------------------------------
(* Properties.                                                             *)

TypeOK ==
    /\ value \in Nat
    /\ outdated_value \in [Threads -> Nat]
    /\ spins \in [Threads -> BOOLEAN]
    /\ pc \in [Threads -> Locations]

\* The lock word is the exact account of the guards that exist: no path of
\* try_lock_*, unlock_* or a guard sent elsewhere adds or forgets one.
ValueCountsGuards ==
    value = SHARED * Cardinality(Readers) + WRITER * Cardinality(Writers)

\* The exclusive guard excludes every other guard, although the test of the
\* word (load) and its update (compare_exchange) are separate accesses.
Exclusion ==
    \A w \in Writers : Readers = {} /\ Writers = {w}

\* What the two properties above rest on: a compare_exchange that can still
\* succeed expects a word its caller's own test has admitted.
CasExpectsTested ==
    \A t \in Threads :
        /\ pc[t] = "cas_shared" => ~HasWriter(outdated_value[t])
        /\ pc[t] = "cas_exclusive" => outdated_value[t] = 0

InductiveInv == TypeOK /\ ValueCountsGuards /\ Exclusion /\ CasExpectsTested

Abs == INSTANCE RwLockAbs WITH readers <- Readers, writers <- Writers

\* The atomic accesses together are the abstract lock: a guard is granted in
\* the step of the successful compare_exchange and released in the step of the
\* fetch_sub.
RefinesAbs == Abs!AbsSpec

Spinning(t) == spins[t] /\ pc[t] \notin {"idle", "reading", "writing"}

\* A free lock somebody spins on is taken: failed compare_exchanges and their
\* reloads cannot keep all spinners out.
FreeLockIsTaken ==
    (value = 0 /\ \E t \in Threads : Spinning(t)) ~> (value # 0)
=============================================================================
