----------------------------- MODULE SharedLock -----------------------------
(***************************************************************************)
(* kernel_lock::shared: the Mutex and RwLock that are used both in         *)
(* interrupt contexts and outside of them.  Outside of an interrupt        *)
(* context an acquisition also masks the hart's interrupts (sie := 0) and  *)
(* counts itself in HART_LOCK_COUNT[hartid]; the release that brings the   *)
(* count back to zero unmasks them (sie := 0x222).                         *)
(*                                                                         *)
(* Every hart has two contexts that can use the locks: "proc" runs on a    *)
(* trap frame whose interrupt-context flag is clear, "intr" on one whose   *)
(* flag is set, and gets the hart when an unmasked interrupt is taken.     *)
(* An operation of an internal spinlock is one step, as SpinRwLock shows,  *)
(* and so is an access to HART_LOCK_COUNT under its own spin RwLock.       *)
(*                                                                         *)
(* Two families of locks do without the count: a simple_shared::Mutex      *)
(* keeps the mask it found in the lock (old_sie), and the locks of         *)
(* kernel_lock::interrupt assert that they are in an interrupt context and *)
(* mask nothing.  simple_shared::RwLock has the steps of shared::RwLock    *)
(* and guards that are not sent.                                           *)
(***************************************************************************)
EXTENDS Naturals, Sequences, FiniteSets

CONSTANTS
    N,          \* number of harts; the hart ids are 0 .. N-1
    Mutexes,    \* the shared::Mutex locks
    RwLocks,    \* the shared::RwLock locks
    SimpleMutexes,    \* the simple_shared::Mutex locks
    InterruptMutexes, \* the interrupt::Mutex locks
    InterruptRwLocks, \* the interrupt::RwLock locks
    Uses,       \* the ways the locks may be used, see UseType
    Usize,      \* bound: stands for 2^64, the modulus of HART_LOCK_COUNT
    MaxWord     \* bound: the word of a spinlock

Harts == 0 .. N-1
CountingLocks == Mutexes \cup RwLocks
InterruptLocks == InterruptMutexes \cup InterruptRwLocks
Locks == CountingLocks \cup SimpleMutexes \cup InterruptLocks
Ctx   == Harts \X {"proc", "intr"}
Proc(h) == <<h, "proc">>
Intr(h) == <<h, "intr">>

\* len: length of HART_LOCK_COUNT, 0 at boot and larger once harts have locked;
\* try: callers use the try_lock operations; send: RwLock guards (GuardSend) are
\* sent to other harts; held: bound, guards one context holds at a time; locks: the
\* locks in use; write: lock_exclusive is called on an interrupt::RwLock; ids: the
\* trap frames have the id of their hart, which those of new_supervisor do not.
UseType == [len : 0 .. N, try : BOOLEAN, send : BOOLEAN, held : Nat \ {0},
            locks : SUBSET Locks, write : BOOLEAN, ids : BOOLEAN]

\* Locks are numbered and contexts nest them in ascending order, so that no
\* two callers wait for each other's guards.
ASSUME ConstantsOK ==
    /\ N \in Nat \ {0} /\ Uses \subseteq UseType
    /\ Locks \subseteq Nat /\ Locks # {} /\ IsFiniteSet(Locks) /\ MaxWord \in Nat
    /\ {} = (Mutexes \cap RwLocks) \cup (CountingLocks \cap SimpleMutexes)
               \cup (InterruptMutexes \cap InterruptRwLocks)
               \cup (InterruptLocks \cap (CountingLocks \cup SimpleMutexes))
    /\ Usize \in Nat /\ \A u \in Uses : Usize > u.held + 1

VARIABLES
    use,             \* the way the locks are used in this behaviour
    sie,             \* per hart: TRUE is 0x222, FALSE is 0
    hart_lock_count, \* HART_LOCK_COUNT, entry h at position h + 1
    taken,           \* per hart: the interrupt context has the hart
    word,            \* per lock: the word of its spinlock
    readers,         \* per lock: contexts with a shared guard
    writers,         \* per lock: contexts with an exclusive guard
    old_sie,         \* per simple_shared::Mutex: the mask its holder found
    pc, call         \* per context: next step, and the call it belongs to

vars == <<use, sie, hart_lock_count, taken, word, readers, writers, old_sie, pc, call>>
spinVars == <<word, readers, writers>>
lockVars == <<spinVars, old_sie>>

Locations == {"idle", "mask", "len", "resize", "add", "spin", "try",
              "sub", "unmask", "save", "restore", "panicked"}
Calls == [lock : Locks, mode : {"shared", "exclusive"}, try : BOOLEAN]

HeldBy(c) == {l \in Locks : c \in readers[l] \cup writers[l]}

\* The context that executes on its hart.
Runs(c) == taken[c[1]] <=> (c[2] = "intr")

\* in_interrupt_context(): the flag of the trap frame in sscratch.
InInterruptContext(c) == c[2] = "intr"

\* load_hartid(): from the trap frame in sscratch.
LoadHartid(c) == IF use.ids THEN c[1] ELSE 0

\* A context that is in no lock call.
NoCall == [lock |-> CHOOSE l \in Locks : TRUE, mode |-> "exclusive", try |-> FALSE]

Goto(c, loc) == pc' = [pc EXCEPT ![c] = loc]

Return(c) ==
    /\ Goto(c, "idle")
    /\ call' = [call EXCEPT ![c] = NoCall]

Init ==
    /\ use \in Uses
    /\ sie = [h \in Harts |-> TRUE]
    /\ hart_lock_count = [i \in 1 .. use.len |-> 0]
    /\ taken = [h \in Harts |-> FALSE]
    /\ word = [l \in Locks |-> 0]
    /\ old_sie = [l \in SimpleMutexes |-> FALSE]
    /\ readers = [l \in Locks |-> {}]
    /\ writers = [l \in Locks |-> {}]
    /\ pc = [c \in Ctx |-> "idle"]
    /\ call = [c \in Ctx |-> NoCall]

-----------------------------------------------------------------------------
(* The internal spinlock: spin::RwLock, of which a spin::Mutex is the part *)
(* with exclusive guards only.                                             *)

Weight(m) == IF m = "shared" THEN 2 ELSE 1

\* Mutant: readers do not keep a writer out.
GrantableDespiteReaders(l, m) == word[l] % 2 = 0

\* The tests of try_lock_shared and try_lock_exclusive.
Grantable(l, m) == IF m = "shared" THEN word[l] % 2 = 0 ELSE word[l] = 0

\* The spinlock is taken in mode `inner`, the caller gets a guard of mode m.
Grant(c, l, m, inner) ==
    /\ Grantable(l, inner) /\ word[l] + Weight(inner) <= MaxWord
    /\ word' = [word EXCEPT ![l] = @ + Weight(inner)]
    /\ readers' = [readers EXCEPT ![l] = IF m = "shared" THEN @ \cup {c} ELSE @]
    /\ writers' = [writers EXCEPT ![l] = IF m = "shared" THEN @ ELSE @ \cup {c}]

Release(c, l) ==
    /\ word' = [word EXCEPT ![l] = @ - Weight(IF c \in readers[l] THEN "shared" ELSE "exclusive")]
    /\ readers' = [readers EXCEPT ![l] = @ \ {c}]
    /\ writers' = [writers EXCEPT ![l] = @ \ {c}]

-----------------------------------------------------------------------------
(* lock_and_disable_interrupts, outside of an interrupt context.           *)

\* write_sie(0)
MaskInterrupts(c) ==
    /\ Runs(c) /\ pc[c] = "mask"
    /\ sie' = [sie EXCEPT ![c[1]] = FALSE]
    /\ \/ call[c].lock \notin SimpleMutexes /\ Goto(c, "len") /\ UNCHANGED call
       \/ call[c].lock \in SimpleMutexes /\ Return(c)
    /\ UNCHANGED <<use, hart_lock_count, taken, lockVars>>

\* create_hart_lock_count_entry_if_necessary: the length is read under a guard
\* that is dropped before the write guard is asked for.
ReadLen(c) ==
    /\ Runs(c) /\ pc[c] = "len"
    /\ Goto(c, IF LoadHartid(c) < Len(hart_lock_count) THEN "add" ELSE "resize")
    /\ UNCHANGED <<use, sie, hart_lock_count, taken, lockVars, call>>

\* Vec::resize_with: sets the length, whichever way that is.
ResizeWith(s, n) == [i \in 1 .. n |-> IF i <= Len(s) THEN s[i] ELSE 0]

NewLen(c) == LoadHartid(c) + 1

Resize(c) ==
    /\ Runs(c) /\ pc[c] = "resize"
    /\ hart_lock_count' = ResizeWith(hart_lock_count, NewLen(c))
    /\ Goto(c, "add")
    /\ UNCHANGED <<use, sie, taken, lockVars, call>>

\* HART_LOCK_COUNT.read()[load_hartid()] panics when the entry is missing.
EntryMissing(c) ==
    /\ LoadHartid(c) >= Len(hart_lock_count)
    /\ Goto(c, "panicked")
    /\ UNCHANGED <<hart_lock_count, call>>

CountUp(c) ==
    /\ Runs(c) /\ pc[c] = "add"
    /\ \/ EntryMissing(c)
       \/ /\ LoadHartid(c) < Len(hart_lock_count)
          /\ hart_lock_count' = [hart_lock_count EXCEPT ![LoadHartid(c) + 1] = (@ + 1) % Usize]
          /\ \/ call[c].try /\ Return(c)
             \/ ~call[c].try /\ Goto(c, "spin") /\ UNCHANGED call
    /\ UNCHANGED <<use, sie, taken, lockVars>>

-----------------------------------------------------------------------------
(* unlock_and_enable_interrupts_if_necessary.                              *)

\* Mutants: what fetch_sub returns is compared with another number than 1, or
\* with nothing.
IsLastZero(old) == old = 0
IsLastAlways(old) == TRUE

IsLast(old) == old = 1

CountDown(c) ==
    /\ Runs(c) /\ pc[c] = "sub"
    /\ \/ EntryMissing(c)
       \/ /\ LoadHartid(c) < Len(hart_lock_count)
          /\ hart_lock_count' =
                [hart_lock_count EXCEPT ![LoadHartid(c) + 1] = (@ + Usize - 1) % Usize]
          /\ Goto(c, IF IsLast(hart_lock_count[LoadHartid(c) + 1]) THEN "unmask" ELSE "idle")
          /\ UNCHANGED call
    /\ UNCHANGED <<use, sie, taken, lockVars>>

\* write_sie(0x222)
UnmaskInterrupts(c) ==
    /\ Runs(c) /\ pc[c] = "unmask"
    /\ sie' = [sie EXCEPT ![c[1]] = TRUE]
    /\ Goto(c, "idle")
    /\ UNCHANGED <<use, hart_lock_count, taken, lockVars, call>>

-----------------------------------------------------------------------------
(* The lock operations.                                                    *)

MayCall(c, l) ==
    /\ Runs(c) /\ pc[c] = "idle" /\ l \in use.locks
    /\ Cardinality(HeldBy(c)) < use.held
    /\ \A k \in HeldBy(c) : k < l

\* Mutant: interrupts are not masked.
FirstStepUnmasked(c, l) == IF InInterruptContext(c) THEN "spin" ELSE "len"

\* A shared lock masks and counts first, then spins; a simple_shared::Mutex spins
\* on try_lock; an interrupt lock asserts in_interrupt_context.
FirstStep(c, l) ==
    IF l \in SimpleMutexes \/ InInterruptContext(c) THEN "spin"
    ELSE IF l \in InterruptLocks THEN "panicked" ELSE "mask"

\* lock, lock_shared, lock_exclusive.
BeginLock(c, l, m) ==
    /\ MayCall(c, l)
    /\ Goto(c, FirstStep(c, l))
    /\ call' = [call EXCEPT ![c] = [lock |-> l, mode |-> m, try |-> FALSE]]
    /\ UNCHANGED <<use, sie, hart_lock_count, taken, lockVars>>

\* lock_exclusive of interrupt::RwLock calls internal.lock_shared().
InnerMode(l, m) == IF l \in InterruptRwLocks THEN "shared" ELSE m

\* internal.lock(): the spin ends in the step that gets the lock.
SpinAcquire(c) ==
    /\ Runs(c) /\ pc[c] = "spin"
    /\ Grant(c, call[c].lock, call[c].mode, InnerMode(call[c].lock, call[c].mode))
    /\ \/ call[c].lock \in SimpleMutexes /\ Goto(c, "save") /\ UNCHANGED call
       \/ call[c].lock \notin SimpleMutexes /\ Return(c)
    /\ UNCHANGED <<use, sie, hart_lock_count, taken, old_sie>>

\* What a try_lock does once it has the spinlock.
AfterTry(c, l) ==
    IF l \in SimpleMutexes THEN "save"
    ELSE IF l \in InterruptLocks \/ InInterruptContext(c) THEN "idle" ELSE "mask"

\* try_lock*: the spinlock is taken first, then interrupts are masked.
BeginTry(c, l, m) ==
    /\ use.try
    /\ MayCall(c, l)
    /\ \/ ~Grantable(l, m) /\ UNCHANGED <<pc, call, spinVars>>
       \/ /\ Grant(c, l, m, m)
          /\ Goto(c, AfterTry(c, l))
          /\ call' = [call EXCEPT ![c] = IF AfterTry(c, l) = "idle" THEN NoCall
                                        ELSE [lock |-> l, mode |-> m, try |-> TRUE]]
    /\ UNCHANGED <<use, sie, hart_lock_count, taken, old_sie>>

\* Mutant: the interrupt context is not tested.
AfterUnlockUntested(c, l) == IF l \in SimpleMutexes THEN "restore" ELSE "sub"

AfterUnlock(c, l) ==
    IF l \in SimpleMutexes THEN "restore"
    ELSE IF l \in InterruptLocks \/ InInterruptContext(c) THEN "idle" ELSE "sub"

\* unlock of interrupt::Mutex and unlock_exclusive of interrupt::RwLock assert
\* that they are in an interrupt context.
AssertFails(c, l) ==
    /\ ~InInterruptContext(c)
    /\ l \in InterruptMutexes \/ (l \in InterruptRwLocks /\ c \in writers[l])

\* unlock*: the spinlock is released first, then the count goes down.
BeginUnlock(c, l) ==
    /\ Runs(c) /\ pc[c] = "idle"
    /\ l \in HeldBy(c)
    /\ \/ AssertFails(c, l) /\ Goto(c, "panicked") /\ UNCHANGED <<spinVars, call>>
       \/ /\ ~AssertFails(c, l)
          /\ Release(c, l)
          /\ Goto(c, AfterUnlock(c, l))
          /\ call' = [call EXCEPT ![c].lock = IF l \in SimpleMutexes THEN l ELSE @]
    /\ UNCHANGED <<use, sie, hart_lock_count, taken, old_sie>>

\* simple_shared::Mutex::try_lock: old_sie.store(read_sie()), then write_sie(0).
SaveSie(c) ==
    /\ Runs(c) /\ pc[c] = "save"
    /\ old_sie' = [old_sie EXCEPT ![call[c].lock] = sie[c[1]]]
    /\ Goto(c, "mask")
    /\ UNCHANGED <<use, sie, hart_lock_count, taken, spinVars, call>>

\* simple_shared::Mutex::unlock: write_sie(old_sie.load()), after the release.
RestoreSie(c) ==
    /\ Runs(c) /\ pc[c] = "restore"
    /\ sie' = [sie EXCEPT ![c[1]] = old_sie[call[c].lock]]
    /\ Return(c)
    /\ UNCHANGED <<use, hart_lock_count, taken, lockVars>>

Lock(c, l)             == l \in Mutexes /\ BeginLock(c, l, "exclusive")
TryLock(c, l)          == l \in Mutexes /\ BeginTry(c, l, "exclusive")
Unlock(c, l)           == l \in Mutexes /\ BeginUnlock(c, l)
LockShared(c, l)       == l \in RwLocks /\ BeginLock(c, l, "shared")
TryLockShared(c, l)    == l \in RwLocks /\ BeginTry(c, l, "shared")
UnlockShared(c, l)     == l \in RwLocks /\ c \in readers[l] /\ BeginUnlock(c, l)
LockExclusive(c, l)    == l \in RwLocks /\ BeginLock(c, l, "exclusive")
TryLockExclusive(c, l) == l \in RwLocks /\ BeginTry(c, l, "exclusive")
UnlockExclusive(c, l)  == l \in RwLocks /\ c \in writers[l] /\ BeginUnlock(c, l)

SimpleLock(c, l)    == l \in SimpleMutexes /\ BeginLock(c, l, "exclusive")
SimpleTryLock(c, l) == l \in SimpleMutexes /\ BeginTry(c, l, "exclusive")
SimpleUnlock(c, l)  == l \in SimpleMutexes /\ BeginUnlock(c, l)

InterruptLock(c, l)    == l \in InterruptMutexes /\ BeginLock(c, l, "exclusive")
InterruptTryLock(c, l) == l \in InterruptMutexes /\ BeginTry(c, l, "exclusive")
InterruptUnlock(c, l)  == l \in InterruptMutexes /\ BeginUnlock(c, l)

InterruptLockShared(c, l)       == l \in InterruptRwLocks /\ BeginLock(c, l, "shared")
InterruptTryLockShared(c, l)    == l \in InterruptRwLocks /\ BeginTry(c, l, "shared")
InterruptUnlockShared(c, l)     ==
    l \in InterruptRwLocks /\ c \in readers[l] /\ BeginUnlock(c, l)
InterruptLockExclusive(c, l)    ==
    l \in InterruptRwLocks /\ use.write /\ BeginLock(c, l, "exclusive")
InterruptTryLockExclusive(c, l) == l \in InterruptRwLocks /\ BeginTry(c, l, "exclusive")
InterruptUnlockExclusive(c, l)  ==
    l \in InterruptRwLocks /\ c \in writers[l] /\ BeginUnlock(c, l)

\* RawSharedRwLock::GuardMarker = GuardSend: a guard may be dropped elsewhere.
SendGuard(h, k, l) ==
    /\ use.send /\ h # k
    /\ l \in RwLocks \cap (HeldBy(Proc(h)) \ HeldBy(Proc(k)))
    /\ \A c \in {Proc(h), Proc(k)} : Runs(c) /\ pc[c] = "idle"
    /\ Cardinality(HeldBy(Proc(k))) < use.held
    /\ \/ /\ Proc(h) \in readers[l]
          /\ readers' = [readers EXCEPT ![l] = (@ \ {Proc(h)}) \cup {Proc(k)}]
          /\ UNCHANGED writers
       \/ /\ Proc(h) \in writers[l]
          /\ writers' = [writers EXCEPT ![l] = {Proc(k)}]
          /\ UNCHANGED readers
    /\ UNCHANGED <<use, sie, hart_lock_count, taken, word, old_sie, pc, call>>

-----------------------------------------------------------------------------
(* Interrupts.                                                             *)

\* An unmasked interrupt takes the hart from the process: trap_handler enters
\* the restore_context, whose frame has the interrupt-context flag.
Interrupt(h) ==
    /\ sie[h] /\ ~taken[h] /\ pc[Proc(h)] # "panicked"
    /\ taken' = [taken EXCEPT ![h] = TRUE]
    /\ UNCHANGED <<use, sie, hart_lock_count, lockVars, pc, call>>

\* switch_to_supervisor_frame gives the hart back and writes 0x222 to sie.  The
\* kernel loop may keep guards while the process runs, as it keeps the one of
\* process.lock() in process.lock().switch_to_and_come_back().
Resume(h) ==
    /\ taken[h] /\ pc[Intr(h)] = "idle"
    /\ taken' = [taken EXCEPT ![h] = FALSE]
    /\ sie' = [sie EXCEPT ![h] = TRUE]
    /\ UNCHANGED <<use, hart_lock_count, lockVars, pc, call>>

-----------------------------------------------------------------------------

\* The steps of a call in progress.
Continue(c) ==
    \/ MaskInterrupts(c) \/ ReadLen(c) \/ Resize(c) \/ CountUp(c)
    \/ SpinAcquire(c)
    \/ CountDown(c) \/ UnmaskInterrupts(c)
    \/ SaveSie(c) \/ RestoreSie(c)

Call(c, l) ==
    \/ Lock(c, l) \/ LockShared(c, l) \/ LockExclusive(c, l)
    \/ TryLock(c, l) \/ TryLockShared(c, l) \/ TryLockExclusive(c, l)
    \/ SimpleLock(c, l) \/ SimpleTryLock(c, l)
    \/ InterruptLock(c, l) \/ InterruptLockShared(c, l) \/ InterruptLockExclusive(c, l)
    \/ InterruptTryLock(c, l) \/ InterruptTryLockShared(c, l) \/ InterruptTryLockExclusive(c, l)

Drop(c, l) ==
    \/ Unlock(c, l) \/ UnlockShared(c, l) \/ UnlockExclusive(c, l)
    \/ SimpleUnlock(c, l) \/ InterruptUnlock(c, l)
    \/ InterruptUnlockShared(c, l) \/ InterruptUnlockExclusive(c, l)

Next ==
    \/ \E c \in Ctx : Continue(c)
    \/ \E c \in Ctx, l \in Locks : Call(c, l) \/ Drop(c, l)
    \/ \E h, k \in Harts, l \in Locks : SendGuard(h, k, l)
    \/ \E h \in Harts : Interrupt(h) \/ Resume(h)

Spec == Init /\ [][Next]_vars

\* A hart executes the call it is in and a guard is dropped in the end, by the
\* kernel loop of common_hart_code in one of its turns.  The loop sets the timer
\* before it enters the process, so an interrupt comes once the hart is unmasked.
FairSpec ==
    /\ Spec
    /\ \A h \in Harts :
          /\ WF_vars(Continue(Proc(h)) \/ Continue(Intr(h)))
          /\ WF_vars(\E l \in Locks : Drop(Proc(h), l))
          /\ SF_vars(\E l \in Locks : Drop(Intr(h), l))
          /\ SF_vars(Interrupt(h))

-----------------------------------------------------------------------------
(* Properties.                                                             *)

TypeOK ==
    /\ use \in Uses
    /\ sie \in [Harts -> BOOLEAN]
    /\ hart_lock_count \in Seq(0 .. Usize - 1) /\ Len(hart_lock_count) <= N
    /\ taken \in [Harts -> BOOLEAN]
    /\ word \in [Locks -> 0 .. MaxWord] /\ old_sie \in [SimpleMutexes -> BOOLEAN]
    /\ readers \in [Locks -> SUBSET Ctx] /\ writers \in [Locks -> SUBSET Ctx]
    /\ pc \in [Ctx -> Locations]
    /\ call \in [Ctx -> Calls]

\* No guard is sent, at most one hart has yet to make its entry of HART_LOCK_COUNT
\* (EntriesStay is what goes wrong with two), and a simple_shared::Mutex is not
\* nested with other locks: what it restores may be what another hart found.  Harts
\* that run processes of new_supervisor share the entry of hart 0.
Regular ==
    /\ ~use.send /\ use.len >= N - 1 /\ use.ids
    /\ use.locks \cap SimpleMutexes = {} \/ use.held = 1

\* The locks held outside of interrupt contexts that have to mask interrupts.
Masking(h) == HeldBy(Proc(h)) \ InterruptLocks

\* Guards the hart's count has to stand for at this point of a call: a call
\* counts before it spins, a try_lock takes the lock before it counts, and an
\* unlock releases before it counts down.
Accounted(h) ==
    LET p == Proc(h)
        held == Cardinality(HeldBy(p) \cap CountingLocks)
        counts == call[p].lock \in CountingLocks IN
    CASE pc[p] = "sub" \/ (pc[p] = "spin" /\ counts) -> held + 1
      [] pc[p] \in {"mask", "len", "resize", "add"} /\ call[p].try /\ counts -> held - 1
      [] OTHER -> held

Count(h) == IF h < Len(hart_lock_count) THEN hart_lock_count[h + 1] ELSE 0

\* lock_and_disable_interrupts and its counterpart keep HART_LOCK_COUNT equal to
\* the guards the hart holds outside of interrupt contexts, whatever interrupts
\* and the other harts do in between, in a state that is well-formed.
CountMatchesGuards ==
    /\ TypeOK
    /\ Regular => \A h \in Harts : Count(h) = Accounted(h)

\* What the masking is for: an interrupt is never taken while the code it
\* preempts holds a shared lock, so the interrupt context cannot spin on a lock
\* that only the preempted code can release.  The exception is the window of
\* try_lock, and of every acquisition of a simple_shared::Mutex, between the
\* spinlock and the mask, which lets an interrupt in when the hart holds no other
\* guard.
PreemptedHoldsNothing ==
    Regular =>
        \A h \in Harts :
            taken[h] =>
                \/ Masking(h) = {}
                \/ /\ pc[Proc(h)] \in {"save", "mask"}
                   /\ call[Proc(h)].try \/ call[Proc(h)].lock \in SimpleMutexes
                   /\ Masking(h) = {call[Proc(h)].lock}

\* Once lock or try_lock has returned, interrupts stay masked until the guards
\* are dropped.
MaskedWhileHolding ==
    Regular =>
        \A h \in Harts :
            (pc[Proc(h)] = "idle" /\ Masking(h) # {}) => ~sie[h]

\* A process that holds nothing and is in no call has its interrupts on: the
\* release of the last guard never forgets to unmask.
UnmaskedWhenFree ==
    Regular =>
        \A h \in Harts :
            (~taken[h] /\ pc[Proc(h)] = "idle" /\ Masking(h) = {}) => sie[h]

\* shared/mod.rs on create_hart_lock_count_entry_if_necessary: "Resizes
\* HART_LOCK_COUNT up to idx + 1"; an entry, once made, is never taken away.
EntriesStay ==
    [][Len(hart_lock_count') >= Len(hart_lock_count)]_vars

\* The exclusive guard of every lock excludes all other guards and the word of the
\* spinlock counts them, in both kinds of context, with sent guards and with calls
\* that panicked half way.  lock_exclusive of interrupt::RwLock, which takes the
\* spinlock shared and releases it exclusive, is the exception.
GuardsExclusive ==
    ~use.write =>
        \A l \in Locks :
            /\ \A w \in writers[l] : writers[l] = {w} /\ readers[l] = {}
            /\ word[l] = 2 * Cardinality(readers[l]) + Cardinality(writers[l])

\* One guard per context, and nobody takes a spinlock outside of interrupt
\* contexts before it has masked interrupts, as try_lock and simple_shared do.
MaskedFirst ==
    Regular /\ ~use.try /\ use.held = 1 /\ use.locks \cap SimpleMutexes = {}

\* No process panics, or waits for a guard that a kernel loop keeps while its own
\* process runs: in both cases the loop may never get its hart back, in the second
\* because the process that waits has masked the interrupts.
KeptApart ==
    \A h, k \in Harts :
        /\ pc[Proc(k)] # "panicked"
        /\ ~taken[h] /\ pc[Proc(k)] = "spin" => call[Proc(k)].lock \notin HeldBy(Intr(h))

\* The process waits for ever for a lock that is free again and again: a spinlock
\* has no queue, so that the other harts may overtake for ever.
Starved(h) ==
    /\ <>[](pc[Proc(h)] = "spin")
    /\ []<>Grantable(call[Proc(h)].lock, call[Proc(h)].mode)

\* Every guard is given back, also the one that a kernel loop keeps while its
\* process runs, as long as no process asks for that lock: no holder waits for a
\* context that waits for it, although interrupt contexts spin on the locks of
\* the code they preempt and a process masks the interrupts the loop waits for.
GuardsReturned ==
    []KeptApart =>
        \A h \in Harts :
            /\ []<>(MaskedFirst => HeldBy(Proc(h)) = {})
            /\ []<>(MaskedFirst => HeldBy(Intr(h)) = {}) \/ Starved(h)
=============================================================================
