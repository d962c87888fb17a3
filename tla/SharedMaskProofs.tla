-------------------------- MODULE SharedMaskProofs --------------------------
(***************************************************************************)
(* The proofs that interrupts are masked while the guards need it, and no  *)
(* longer, in the Regular uses of SharedLock and for any number of harts.  *)
(***************************************************************************)
EXTENDS SharedLockProofs

-----------------------------------------------------------------------------
(* Interrupts are masked while the guards need it.                         *)

\* The process has the spinlock and has not masked interrupts yet.
WindowAt(loc, k, masking) ==
    /\ loc \in {"save", "mask"}
    /\ k.try \/ k.lock \in SimpleMutexes
    /\ masking = {k.lock}

\* The process has masked interrupts, and goes on with it.
MaskedAt(loc, k) ==
    \/ loc \in {"len", "resize", "add", "sub", "unmask"}
    \/ loc = "spin" /\ k.lock \in CountingLocks

MaskAt(enabled, loc, k, masking) ==
    /\ enabled => masking = {} \/ WindowAt(loc, k, masking)
    /\ MaskedAt(loc, k) => ~enabled
    /\ loc = "unmask" => masking = {}

MaskInv ==
    \A h \in Harts : MaskAt(sie[h] \/ taken[h], pc[Proc(h)], call[Proc(h)], Masking(h))

\* A hart whose process stays where it is, and gets no more interrupts than before.
LEMMA MaskStays ==
    ASSUME MaskInv, NEW h \in Harts, sie'[h] \/ taken'[h] => sie[h] \/ taken[h],
           pc'[Proc(h)] = pc[Proc(h)], call'[Proc(h)] = call[Proc(h)],
           HeldBy(Proc(h))' = HeldBy(Proc(h))
    PROVE  MaskAt(sie'[h] \/ taken'[h], pc'[Proc(h)], call'[Proc(h)], Masking(h)')
<1>1. Masking(h)' = Masking(h)
  BY DEF Masking
<1>2. MaskAt(sie[h] \/ taken[h], pc[Proc(h)], call[Proc(h)], Masking(h))
  BY DEF MaskInv
<1>q. QED
  BY <1>1, <1>2 DEF MaskAt

\* One context goes on; what is to be shown if it is the process of its hart.
LEMMA MaskingStep ==
    ASSUME TypeOK, MaskInv, NEW c \in Ctx, NEW loc, NEW k, NEW held,
           Runs(c), UNCHANGED taken, \A h \in Harts \ {c[1]} : sie'[h] = sie[h],
           pc' = [pc EXCEPT ![c] = loc], call' = [call EXCEPT ![c] = k], HeldBy(c)' = held,
           \A d \in Ctx \ {c} : HeldBy(d)' = HeldBy(d),
           c[2] = "proc" => MaskAt(sie'[c[1]], loc, k, held \ InterruptLocks)
    PROVE  MaskInv'
<1> SUFFICES ASSUME NEW h \in Harts
             PROVE  MaskAt(sie'[h] \/ taken'[h], pc'[Proc(h)], call'[Proc(h)], Masking(h)')
  BY Zenon DEF MaskInv, MaskAt, MaskedAt, WindowAt, Proc
<1>1. \A d \in Ctx : /\ pc'[d] = IF d = c THEN loc ELSE pc[d]
                     /\ call'[d] = IF d = c THEN k ELSE call[d]
  BY DEF TypeOK
<1>2. CASE Proc(h) = c
  <2>1. /\ pc'[Proc(h)] = loc /\ call'[Proc(h)] = k /\ HeldBy(Proc(h))' = held
        /\ c[1] = h /\ c[2] = "proc"
    BY <1>1, <1>2, AccountedIs DEF Proc
  <2>2. ~taken'[h] /\ Masking(h)' = held \ InterruptLocks
    BY <2>1 DEF Runs, Masking
  <2>q. QED
    BY <2>1, <2>2 DEF MaskAt
<1>3. CASE Proc(h) # c
  <2>1. /\ pc'[Proc(h)] = pc[Proc(h)] /\ call'[Proc(h)] = call[Proc(h)]
        /\ HeldBy(Proc(h))' = HeldBy(Proc(h))
    BY <1>1, <1>3, AccountedIs DEF Proc
  <2>2. sie'[h] \/ taken'[h] => sie[h] \/ taken[h]
    <3>1. CASE c[1] = h
      BY <1>3, <3>1, CtxIs DEF Runs, Ctx, Proc
    <3>q. QED
      BY <3>1
  <2>q. QED
    BY <2>1, <2>2, MaskStays
<1>q. QED
  BY <1>2, <1>3

\* What is known of the process of a hart that runs.
LEMMA MaskIs ==
    ASSUME MaskInv, NEW c \in Ctx, c[2] = "proc", Runs(c)
    PROVE  MaskAt(sie[c[1]], pc[c], call[c], HeldBy(c) \ InterruptLocks)
<1>1. c[1] \in Harts /\ c = Proc(c[1])
  BY CtxIs
<1>2. ~taken[c[1]]
  BY DEF Runs
<1>3. MaskAt(sie[c[1]] \/ taken[c[1]], pc[c], call[c], Masking(c[1]))
  BY <1>1 DEF MaskInv
<1>4. Masking(c[1]) = HeldBy(c) \ InterruptLocks
  BY <1>1 DEF Masking
<1>q. QED
  BY <1>2, <1>3, <1>4 DEF MaskAt

\* The mask goes back only when nothing needs it.
LEMMA LastHasNothing ==
    ASSUME LockInv, Regular, CountInv, NEW c \in Ctx,
           \/ pc[c] = "sub" /\ HeldBy(c) \cap CountingLocks = {}
           \/ pc[c] = "restore"
    PROVE  HeldBy(c) \ InterruptLocks = {}
<1>1. /\ HeldBy(c) \subseteq use.locks /\ Cardinality(HeldBy(c)) < use.held
      /\ pc[c] = "restore" => call[c].lock \in use.locks \cap SimpleMutexes
  BY DEF CountInv, CountsAt, LockInv, CallsMatch
<1>2. HeldBy(c) \in SUBSET Locks /\ Cardinality(HeldBy(c)) \in Nat /\ IsFiniteSet(HeldBy(c))
  BY HeldIs, LocksFinite, Zenon
<1>3. CASE use.held = 1
  <2>1. HeldBy(c) = {}
    BY <1>1, <1>2, <1>3, FS_EmptySet
  <2>q. QED
    BY <2>1
<1>4. CASE use.locks \cap SimpleMutexes = {}
  BY <1>1, <1>2, <1>4, KindsApart
<1>q. QED
  BY <1>3, <1>4 DEF Regular

LEMMA MaskContinues ==
    ASSUME LockInv, Regular, CountInv, MaskInv, NEW c \in Ctx,
           \/ MaskInterrupts(c) \/ ReadLen(c) \/ UnmaskInterrupts(c) \/ SaveSie(c) \/ RestoreSie(c)
           \/ Resize(c) \/ CountUp(c) \/ CountDown(c)
    PROVE  MaskInv'
<1> USE DEF lockVars
<1> DEFINE masking == HeldBy(c) \ InterruptLocks
<1>t. /\ TypeOK /\ call = [call EXCEPT ![c] = call[c]] /\ c[1] \in Harts
      /\ pc[c] \in Locations /\ sie \in [Harts -> BOOLEAN]
  BY CallTypes, CtxIs DEF LockInv, TypeOK
<1>r. /\ Runs(c) /\ UNCHANGED <<taken, spinVars>>
      /\ \A h \in Harts \ {c[1]} : sie'[h] = sie[h]
  BY <1>t DEF MaskInterrupts, ReadLen, UnmaskInterrupts, SaveSie, RestoreSie, Resize, CountUp, CountDown
<1>h. HeldBy(c)' = HeldBy(c) /\ \A d \in Ctx \ {c} : HeldBy(d)' = HeldBy(d)
  BY <1>r, SameGuards
<1>m. c[2] = "proc" => MaskAt(sie[c[1]], pc[c], call[c], masking)
  BY <1>r, MaskIs
<1>s. ASSUME NEW loc, NEW k, pc' = [pc EXCEPT ![c] = loc], call' = [call EXCEPT ![c] = k],
             c[2] = "proc" => MaskAt(sie'[c[1]], loc, k, masking)
      PROVE  MaskInv'
  BY <1>t, <1>r, <1>h, <1>s, MaskingStep, Zenon
<1> HIDE DEF masking
<1>1. CASE MaskInterrupts(c)
  <2>1. /\ sie'[c[1]] = FALSE
        /\ \/ pc' = [pc EXCEPT ![c] = "len"] /\ call' = [call EXCEPT ![c] = call[c]]
           \/ pc' = [pc EXCEPT ![c] = "idle"] /\ call' = [call EXCEPT ![c] = NoCall]
    BY <1>1, <1>t DEF MaskInterrupts, Goto, Return
  <2>2. MaskAt(sie'[c[1]], "len", call[c], masking) /\ MaskAt(sie'[c[1]], "idle", NoCall, masking)
    BY <2>1 DEF MaskAt
  <2>q. QED
    BY <1>s, <2>1, <2>2
<1>2. CASE ReadLen(c) \/ Resize(c) \/ CountUp(c)
  <2>1. pc[c] \in {"len", "resize", "add"} /\ sie' = sie
    BY <1>2 DEF ReadLen, Resize, CountUp
  <2>2. PICK loc \in {"add", "resize", "spin", "idle", "panicked"}, k \in {call[c], NoCall} :
            pc' = [pc EXCEPT ![c] = loc] /\ call' = [call EXCEPT ![c] = k]
    <3>1. CASE ReadLen(c) \/ Resize(c)
      BY <1>t, <3>1 DEF ReadLen, Resize, Goto
    <3>2. CASE CountUp(c)
      BY <1>t, <3>2 DEF CountUp, EntryMissing, Goto, Return
    <3>q. QED
      BY <1>2, <3>1, <3>2
  <2>3. c[2] = "proc" => MaskAt(sie'[c[1]], loc, k, masking)
    BY <1>m, <2>1 DEF MaskAt, MaskedAt
  <2>q. QED
    BY <1>s, <2>2, <2>3, Zenon
<1>3. CASE CountDown(c)
  <2>1. /\ pc[c] = "sub" /\ sie' = sie /\ pc'[c] \in {"idle", "unmask"}
        /\ pc'[c] = "unmask" => HeldBy(c) \cap CountingLocks = {}
    BY <1>3, CountGoesDown DEF CountDown
  <2>2. PICK loc \in {"idle", "unmask", "panicked"} :
            pc' = [pc EXCEPT ![c] = loc] /\ call' = [call EXCEPT ![c] = call[c]]
    BY <1>t, <1>3 DEF CountDown, EntryMissing, Goto
  <2>3. loc = "unmask" => masking = {}
    <3>1. pc'[c] = loc
      BY <1>t, <2>2 DEF TypeOK
    <3>q. QED
      BY <2>1, <3>1, LastHasNothing DEF masking
  <2>4. c[2] = "proc" => MaskAt(sie'[c[1]], loc, call[c], masking)
    BY <1>m, <2>1, <2>3 DEF MaskAt, MaskedAt
  <2>q. QED
    BY <1>s, <2>2, <2>4, Zenon
<1>4. CASE UnmaskInterrupts(c)
  <2>1. pc[c] = "unmask" /\ pc' = [pc EXCEPT ![c] = "idle"] /\ call' = [call EXCEPT ![c] = call[c]]
    BY <1>t, <1>4 DEF UnmaskInterrupts, Goto
  <2>2. c[2] = "proc" => MaskAt(sie'[c[1]], "idle", call[c], masking)
    BY <1>m, <2>1 DEF MaskAt, MaskedAt
  <2>q. QED
    BY <1>s, <2>1, <2>2, Zenon
<1>5. CASE SaveSie(c)
  <2>1. /\ pc[c] = "save" /\ pc' = [pc EXCEPT ![c] = "mask"] /\ call' = [call EXCEPT ![c] = call[c]]
        /\ sie' = sie
    BY <1>t, <1>5 DEF SaveSie, Goto
  <2>2. c[2] = "proc" => MaskAt(sie'[c[1]], "mask", call[c], masking)
    BY <1>m, <2>1 DEF MaskAt, MaskedAt, WindowAt
  <2>q. QED
    BY <1>s, <2>1, <2>2, Zenon
<1>6. CASE RestoreSie(c)
  <2>1. pc[c] = "restore" /\ pc' = [pc EXCEPT ![c] = "idle"] /\ call' = [call EXCEPT ![c] = NoCall]
    BY <1>6 DEF RestoreSie, Goto, Return
  <2>2. masking = {}
    BY <2>1, LastHasNothing DEF masking
  <2>3. MaskAt(sie'[c[1]], "idle", NoCall, masking)
    BY <2>2 DEF MaskAt, MaskedAt
  <2>q. QED
    BY <1>s, <2>1, <2>3, Zenon
<1>q. QED
  BY <1>1, <1>2, <1>3, <1>4, <1>5, <1>6

LEMMA MaskAcquires ==
    ASSUME LockInv, CountInv, MaskInv, NEW c \in Ctx, SpinAcquire(c)
    PROVE  MaskInv'
<1> DEFINE l == call[c].lock
           held == HeldBy(c)
<1>t. /\ TypeOK /\ CallsMatch /\ pc[c] = "spin" /\ Runs(c) /\ UNCHANGED <<sie, taken>>
      /\ call = [call EXCEPT ![c] = call[c]]
  BY CallTypes DEF SpinAcquire, LockInv
<1>1. /\ l \in Locks /\ l \notin held
      /\ call[c].mode \in Modes /\ InnerMode(l, call[c].mode) \in Modes
  BY <1>t, CallTypes DEF CallsMatch, Acquiring, InnerMode, Modes
<1>2. HeldBy(c)' = held \cup {l} /\ \A d \in Ctx \ {c} : HeldBy(d)' = HeldBy(d)
  BY <1>t, <1>1, Granted DEF SpinAcquire
<1>3. c[2] = "proc" => MaskAt(sie[c[1]], "spin", call[c], held \ InterruptLocks)
  BY <1>t, MaskIs
<1>4. CASE l \in SimpleMutexes
  <2>1. pc' = [pc EXCEPT ![c] = "save"] /\ call' = [call EXCEPT ![c] = call[c]]
    BY <1>t, <1>4 DEF SpinAcquire, Goto
  <2>2. held \ InterruptLocks = {} => (held \cup {l}) \ InterruptLocks = {l}
    BY <1>4, KindsApart
  <2>3. c[2] = "proc" => MaskAt(sie'[c[1]], "save", call[c], (held \cup {l}) \ InterruptLocks)
    BY <1>t, <1>3, <1>4, <2>2 DEF MaskAt, MaskedAt, WindowAt
  <2>q. QED
    BY <1>t, <1>2, <2>1, <2>3, MaskingStep, Zenon
<1>5. CASE l \notin SimpleMutexes
  <2>1. pc' = [pc EXCEPT ![c] = "idle"] /\ call' = [call EXCEPT ![c] = NoCall]
    BY <1>5 DEF SpinAcquire, Goto, Return
  <2>2. l \notin CountingLocks => (held \cup {l}) \ InterruptLocks = held \ InterruptLocks
    BY <1>1, <1>5, KindsApart
  <2>3. c[2] = "proc" => MaskAt(sie'[c[1]], "idle", NoCall, (held \cup {l}) \ InterruptLocks)
    BY <1>t, <1>3, <2>2 DEF MaskAt, MaskedAt, WindowAt
  <2>q. QED
    BY <1>t, <1>2, <2>1, <2>3, MaskingStep, Zenon
<1>q. QED
  BY <1>4, <1>5

\* Nothing but interrupts happens, and no more of them than before.
LEMMA MaskQuiet ==
    ASSUME MaskInv, UNCHANGED <<spinVars, pc, call>>,
           \A h \in Harts : sie'[h] \/ taken'[h] => sie[h] \/ taken[h]
    PROVE  MaskInv'
<1> SUFFICES ASSUME NEW h \in Harts
             PROVE  MaskAt(sie'[h] \/ taken'[h], pc'[Proc(h)], call'[Proc(h)], Masking(h)')
  BY Zenon DEF MaskInv, MaskAt, MaskedAt, WindowAt, Proc
<1>1. HeldBy(Proc(h))' = HeldBy(Proc(h))
  BY DEF spinVars, HeldBy, Proc
<1>q. QED
  BY <1>1, MaskStays

LEMMA MaskCalls ==
    ASSUME LockInv, MaskInv, NEW c \in Ctx, NEW l \in Locks, NEW m \in Modes, BeginLock(c, l, m)
    PROVE  MaskInv'
<1> DEFINE k == [lock |-> l, mode |-> m, try |-> FALSE]
           loc == FirstStep(c, l)
<1>t. TypeOK /\ pc[c] = "idle" /\ Runs(c) /\ UNCHANGED <<sie, taken, spinVars>>
  BY CalledIsFree DEF BeginLock, LockInv, lockVars
<1>1. pc' = [pc EXCEPT ![c] = loc] /\ call' = [call EXCEPT ![c] = k] /\ k.lock = l
  BY DEF BeginLock, Goto
<1>2. /\ loc \in {"spin", "panicked", "mask"}
      /\ loc = "spin" /\ c[2] = "proc" => l \notin CountingLocks
  BY KindsApart DEF FirstStep, InInterruptContext
<1>3. HeldBy(c)' = HeldBy(c) /\ \A d \in Ctx \ {c} : HeldBy(d)' = HeldBy(d)
  BY <1>t, SameGuards
<1>4. c[2] = "proc" => MaskAt(sie[c[1]], "idle", call[c], HeldBy(c) \ InterruptLocks)
  BY <1>t, MaskIs
<1> HIDE DEF k, loc
<1>5. c[2] = "proc" => MaskAt(sie'[c[1]], loc, k, HeldBy(c) \ InterruptLocks)
  BY <1>t, <1>1, <1>2, <1>4 DEF MaskAt, MaskedAt, WindowAt
<1>q. QED
  BY <1>t, <1>1, <1>3, <1>5, MaskingStep, Zenon

LEMMA MaskTries ==
    ASSUME LockInv, MaskInv, NEW c \in Ctx, NEW l \in Locks, NEW m \in Modes, BeginTry(c, l, m)
    PROVE  MaskInv'
<1> DEFINE loc == AfterTry(c, l)
           k == IF loc = "idle" THEN NoCall ELSE [lock |-> l, mode |-> m, try |-> TRUE]
           held == HeldBy(c)
<1>t. TypeOK /\ l \notin held /\ pc[c] = "idle" /\ Runs(c) /\ UNCHANGED <<sie, taken>>
  BY CalledIsFree DEF BeginTry, LockInv
<1>1. CASE UNCHANGED <<pc, call, spinVars>>
  BY <1>1, <1>t, MaskQuiet
<1>2. CASE Grant(c, l, m, m) /\ Goto(c, loc) /\ call' = [call EXCEPT ![c] = k]
  <2>1. HeldBy(c)' = held \cup {l} /\ \A d \in Ctx \ {c} : HeldBy(d)' = HeldBy(d)
    BY <1>t, <1>2, Granted
  <2>2. /\ loc \in {"save", "idle", "mask"}
        /\ loc # "idle" => l \notin InterruptLocks
        /\ loc = "idle" /\ c[2] = "proc" => l \in InterruptLocks
    BY KindsApart DEF AfterTry, InInterruptContext
  <2>3. loc # "idle" => k.lock = l /\ k.try
    OBVIOUS
  <2>4. pc' = [pc EXCEPT ![c] = loc] /\ call' = [call EXCEPT ![c] = k]
    BY <1>2 DEF Goto
  <2>5. c[2] = "proc" => MaskAt(sie[c[1]], "idle", call[c], held \ InterruptLocks)
    BY <1>t, MaskIs
  <2> HIDE DEF loc, k
  <2>6. CASE loc = "idle"
    <3>1. c[2] = "proc" => (held \cup {l}) \ InterruptLocks = held \ InterruptLocks
      BY <2>2, <2>6
    <3>2. c[2] = "proc" => MaskAt(sie'[c[1]], loc, k, (held \cup {l}) \ InterruptLocks)
      BY <1>t, <2>5, <2>6, <3>1 DEF MaskAt, MaskedAt, WindowAt
    <3>q. QED
      BY <1>t, <2>1, <2>4, <3>2, MaskingStep, Zenon
  <2>7. CASE loc # "idle"
    <3>1. held \ InterruptLocks = {} => (held \cup {l}) \ InterruptLocks = {l}
      BY <2>2, <2>7
    <3>2. c[2] = "proc" => MaskAt(sie'[c[1]], loc, k, (held \cup {l}) \ InterruptLocks)
      BY <1>t, <2>2, <2>3, <2>5, <2>7, <3>1 DEF MaskAt, MaskedAt, WindowAt
    <3>q. QED
      BY <1>t, <2>1, <2>4, <3>2, MaskingStep, Zenon
  <2>q. QED
    BY <2>6, <2>7
<1>q. QED
  BY <1>1, <1>2 DEF BeginTry

LEMMA MaskReleases ==
    ASSUME LockInv, MaskInv, NEW c \in Ctx, NEW l \in Locks, BeginUnlock(c, l)
    PROVE  MaskInv'
<1> DEFINE held == HeldBy(c)
<1>t. /\ TypeOK /\ WordCovers /\ pc[c] = "idle" /\ Runs(c) /\ l \in held
      /\ UNCHANGED <<sie, taken>> /\ call = [call EXCEPT ![c] = call[c]]
  BY CallTypes DEF BeginUnlock, LockInv
<1>m. c[2] = "proc" => MaskAt(sie[c[1]], "idle", call[c], held \ InterruptLocks)
  BY <1>t, MaskIs
<1>1. CASE AssertFails(c, l)
  <2>1. /\ pc' = [pc EXCEPT ![c] = "panicked"] /\ call' = [call EXCEPT ![c] = call[c]]
        /\ UNCHANGED spinVars
    BY <1>t, <1>1 DEF BeginUnlock, Goto
  <2>2. HeldBy(c)' = held /\ \A d \in Ctx \ {c} : HeldBy(d)' = HeldBy(d)
    BY <2>1, SameGuards
  <2>3. c[2] = "proc" => MaskAt(sie'[c[1]], "panicked", call[c], held \ InterruptLocks)
    BY <1>t, <1>m DEF MaskAt, MaskedAt, WindowAt
  <2>q. QED
    BY <1>t, <2>1, <2>2, <2>3, MaskingStep, Zenon
<1>2. CASE ~AssertFails(c, l)
  <2> DEFINE loc == AfterUnlock(c, l)
             k == [call[c] EXCEPT !.lock = IF l \in SimpleMutexes THEN l ELSE @]
  <2>1. /\ Release(c, l) /\ pc' = [pc EXCEPT ![c] = loc] /\ call' = [call EXCEPT ![c] = k]
    BY <1>2 DEF BeginUnlock, Goto
  <2>2. HeldBy(c)' = held \ {l} /\ \A d \in Ctx \ {c} : HeldBy(d)' = HeldBy(d)
    BY <1>t, <2>1, Released
  <2>3. /\ loc \in {"restore", "idle", "sub"}
        /\ loc = "sub" => l \notin InterruptLocks
    BY KindsApart DEF AfterUnlock
  <2>4. /\ held \ InterruptLocks = {} => (held \ {l}) \ InterruptLocks = {}
        /\ l \notin InterruptLocks => held \ InterruptLocks # {}
    BY <1>t
  <2> HIDE DEF loc, k, held
  <2>5. c[2] = "proc" => MaskAt(sie'[c[1]], loc, k, (held \ {l}) \ InterruptLocks)
    BY <1>t, <1>m, <2>3, <2>4 DEF MaskAt, MaskedAt, WindowAt
  <2>q. QED
    BY <1>t, <2>1, <2>2, <2>5, MaskingStep, Zenon
<1>q. QED
  BY <1>1, <1>2

LEMMA MaskStep ==
    ASSUME LockInv, Regular, CountInv, MaskInv, [Next]_vars
    PROVE  MaskInv'
<1>1. CASE \E c \in Ctx : Continue(c)
  BY <1>1, MaskContinues, MaskAcquires DEF Continue
<1>2. CASE \E c \in Ctx, l \in Locks : Call(c, l) \/ Drop(c, l)
  BY <1>2, CallIs, DropIs, MaskCalls, MaskTries, MaskReleases
<1>3. ASSUME NEW h \in Harts, NEW k \in Harts, NEW l \in Locks, SendGuard(h, k, l) PROVE MaskInv'
  BY <1>3 DEF SendGuard, Regular
<1>4. ASSUME NEW h \in Harts, Interrupt(h) \/ Resume(h) PROVE MaskInv'
  <2>1. UNCHANGED <<spinVars, pc, call>>
    BY <1>4 DEF Interrupt, Resume, lockVars
  <2>2. \A x \in Harts : sie'[x] \/ taken'[x] => sie[x] \/ taken[x]
    BY <1>4, Zenon DEF Interrupt, Resume, LockInv, TypeOK
  <2>q. QED
    BY <2>1, <2>2, MaskQuiet
<1>5. CASE UNCHANGED vars
  BY <1>5, MaskQuiet DEF vars, spinVars
<1>q. QED
  BY <1>1, <1>2, <1>3, <1>4, <1>5 DEF Next

LEMMA MaskInit == Init => MaskInv
<1> SUFFICES ASSUME Init, NEW h \in Harts
             PROVE  MaskAt(sie[h] \/ taken[h], pc[Proc(h)], call[Proc(h)], Masking(h))
  BY DEF MaskInv
<1>1. pc[Proc(h)] = "idle" /\ Masking(h) = {}
  BY AccountedIs, Zenon DEF Init, Masking, HeldBy
<1>q. QED
  BY <1>1 DEF MaskAt, MaskedAt

-----------------------------------------------------------------------------
(* Interrupts are on where no guard needs the mask.                        *)

\* Where a context that runs has interrupts on.
OnAt(c, loc, k, held) ==
    \/ loc = "save"
    \/ c[2] = "proc" /\ loc = "idle" /\ held \ InterruptLocks = {}
    \/ c[2] = "proc" /\ loc = "spin" /\ k.lock \notin CountingLocks
    \/ c[2] = "intr" /\ loc \in {"idle", "spin"} /\ held \cap SimpleMutexes = {}

\* What a simple_shared::Mutex has saved is 0x222.
SavedAt(loc, k, held, saved) ==
    /\ \A l \in held \cap SimpleMutexes : saved[l] \/ (loc = "save" /\ k.lock = l)
    /\ loc = "restore" => saved[k.lock]

UnmaskInv ==
    /\ \A c \in Ctx : Runs(c) /\ OnAt(c, pc[c], call[c], HeldBy(c)) => sie[c[1]]
    /\ \A c \in Ctx : SavedAt(pc[c], call[c], HeldBy(c), old_sie)

LEMMA UnmaskingStep ==
    ASSUME TypeOK, UnmaskInv, NEW c \in Ctx, NEW loc, NEW k \in Calls, NEW held,
           Runs(c), UNCHANGED taken, \A h \in Harts \ {c[1]} : sie'[h] = sie[h],
           \A l \in SimpleMutexes : old_sie[l] => old_sie'[l],
           \A d \in Ctx \ {c} : pc[d] = "restore" => call[d].lock \in SimpleMutexes,
           pc' = [pc EXCEPT ![c] = loc], call' = [call EXCEPT ![c] = k], HeldBy(c)' = held,
           \A d \in Ctx \ {c} : HeldBy(d)' = HeldBy(d),
           OnAt(c, loc, k, held) => sie'[c[1]], SavedAt(loc, k, held, old_sie')
    PROVE  UnmaskInv'
<1>1. \A d \in Ctx : /\ pc'[d] = IF d = c THEN loc ELSE pc[d]
                     /\ call'[d] = IF d = c THEN k ELSE call[d]
  BY DEF TypeOK
<1>2. ASSUME NEW d \in Ctx, Runs(d)', OnAt(d, pc'[d], call'[d], HeldBy(d)') PROVE sie'[d[1]]
  <2>1. Runs(d)
    BY <1>2 DEF Runs
  <2>2. CASE d = c
    <3>1. pc'[d] = loc /\ call'[d] = k /\ HeldBy(d)' = held
      BY <1>1, <2>2
    <3>q. QED
      BY <1>2, <2>2, <3>1
  <2>3. CASE d # c
    <3>1. pc'[d] = pc[d] /\ call'[d] = call[d] /\ HeldBy(d)' = HeldBy(d)
      BY <1>1, <2>3
    <3>2. sie[d[1]]
      BY <1>2, <2>1, <3>1 DEF UnmaskInv
    <3>3. d[1] # c[1] /\ d[1] \in Harts
      BY <2>1, <2>3 DEF Runs, Ctx
    <3>q. QED
      BY <3>2, <3>3
  <2>q. QED
    BY <2>2, <2>3
<1>3. ASSUME NEW d \in Ctx PROVE SavedAt(pc'[d], call'[d], HeldBy(d)', old_sie')
  <2>1. CASE d = c
    <3>1. pc'[d] = loc /\ call'[d] = k /\ HeldBy(d)' = held
      BY <1>1, <2>1
    <3>q. QED
      BY <3>1
  <2>2. CASE d # c
    <3>1. pc'[d] = pc[d] /\ call'[d] = call[d] /\ HeldBy(d)' = HeldBy(d)
      BY <1>1, <2>2
    <3>2. SavedAt(pc[d], call[d], HeldBy(d), old_sie)
      BY DEF UnmaskInv
    <3>3. SavedAt(pc[d], call[d], HeldBy(d), old_sie')
      BY <2>2, <3>2 DEF SavedAt
    <3>q. QED
      BY <3>1, <3>3
  <2>q. QED
    BY <2>1, <2>2
<1>4. \A d \in Ctx : Runs(d)' /\ OnAt(d, pc[d], call[d], HeldBy(d))' => sie'[d[1]]
  BY <1>2 DEF OnAt
<1>5. \A d \in Ctx : SavedAt(pc[d], call[d], HeldBy(d), old_sie)'
  BY <1>3 DEF SavedAt
<1>q. QED
  BY <1>4, <1>5 DEF UnmaskInv

\* Who asks for a simple_shared::Mutex, or has one, has nothing else.
LEMMA SimpleIsAlone ==
    ASSUME LockInv, Regular, CountInv, NEW c \in Ctx, NEW l \in use.locks \cap SimpleMutexes
    PROVE  Cardinality(HeldBy(c)) < use.held => HeldBy(c) = {}
<1>1. Cardinality(HeldBy(c)) \in Nat /\ IsFiniteSet(HeldBy(c))
  BY HeldIs, LocksFinite, Zenon
<1>2. use.held = 1
  BY DEF Regular
<1>q. QED
  BY <1>1, <1>2, FS_EmptySet

\* What is known of a context that runs.
LEMMA UnmaskIs ==
    ASSUME LockInv, UnmaskInv, NEW c \in Ctx, Runs(c)
    PROVE  /\ OnAt(c, pc[c], call[c], HeldBy(c)) => sie[c[1]]
           /\ SavedAt(pc[c], call[c], HeldBy(c), old_sie)
           /\ \A d \in Ctx : pc[d] = "restore" => call[d].lock \in SimpleMutexes
           /\ c[2] \in {"proc", "intr"} /\ c[1] \in Harts /\ call[c] \in Calls
           /\ call = [call EXCEPT ![c] = call[c]]
BY HartidIs, CallTypes, CtxIs DEF UnmaskInv, LockInv, CallsMatch

LEMMA UnmaskContinues ==
    ASSUME LockInv, Regular, CountInv, UnmaskInv, NEW c \in Ctx,
           \/ MaskInterrupts(c) \/ ReadLen(c) \/ UnmaskInterrupts(c) \/ SaveSie(c) \/ RestoreSie(c)
           \/ Resize(c) \/ CountUp(c) \/ CountDown(c)
    PROVE  UnmaskInv'
<1> USE DEF lockVars
<1> DEFINE held == HeldBy(c)
<1>r. /\ TypeOK /\ CallsMatch /\ Runs(c) /\ UNCHANGED <<taken, spinVars>>
      /\ held \in SUBSET Locks /\ NoCall \in Calls
  BY HeldIs, NoCallIs
  DEF LockInv, MaskInterrupts, ReadLen, UnmaskInterrupts, SaveSie, RestoreSie, Resize, CountUp, CountDown
<1>u. /\ OnAt(c, pc[c], call[c], held) => sie[c[1]]
      /\ SavedAt(pc[c], call[c], held, old_sie)
      /\ \A d \in Ctx : pc[d] = "restore" => call[d].lock \in SimpleMutexes
      /\ c[2] \in {"proc", "intr"} /\ c[1] \in Harts /\ call[c] \in Calls
      /\ call = [call EXCEPT ![c] = call[c]]
  BY <1>r, UnmaskIs
<1>c. CountsAt(c, pc[c], call[c], held)
  BY DEF CountInv
<1>t. sie \in [Harts -> BOOLEAN] /\ old_sie \in [SimpleMutexes -> BOOLEAN]
  BY <1>r DEF TypeOK
<1>h. HeldBy(c)' = held /\ \A d \in Ctx \ {c} : HeldBy(d)' = HeldBy(d)
  BY <1>r, SameGuards
<1>s. ASSUME NEW loc, NEW k \in Calls, pc' = [pc EXCEPT ![c] = loc], call' = [call EXCEPT ![c] = k],
             \A h \in Harts \ {c[1]} : sie'[h] = sie[h],
             \A l \in SimpleMutexes : old_sie[l] => old_sie'[l],
             OnAt(c, loc, k, held) => sie'[c[1]], SavedAt(loc, k, held, old_sie')
      PROVE  UnmaskInv'
  BY <1>r, <1>u, <1>h, <1>s, UnmaskingStep, ZenonT(40)
<1> HIDE DEF held
<1>1. CASE MaskInterrupts(c)
  <2>1. pc[c] = "mask" /\ UNCHANGED old_sie /\ \A h \in Harts \ {c[1]} : sie'[h] = sie[h]
    BY <1>1, <1>t, Zenon DEF MaskInterrupts
  <2>2. CASE call[c].lock \in SimpleMutexes
    <3>1. pc' = [pc EXCEPT ![c] = "idle"] /\ call' = [call EXCEPT ![c] = NoCall]
      BY <1>1, <2>2 DEF MaskInterrupts, Goto, Return
    <3>2. ~OnAt(c, "idle", NoCall, held)
      BY <1>c, <2>1, <2>2, KindsApart DEF CountsAt, OnAt
    <3>3. SavedAt("idle", NoCall, held, old_sie')
      BY <1>u, <2>1 DEF SavedAt
    <3>q. QED
      BY <1>r, <1>s, <2>1, <3>1, <3>2, <3>3, Zenon
  <2>3. CASE call[c].lock \notin SimpleMutexes
    <3>1. pc' = [pc EXCEPT ![c] = "len"] /\ call' = [call EXCEPT ![c] = call[c]]
      BY <1>1, <1>u, <2>3 DEF MaskInterrupts, Goto
    <3>2. ~OnAt(c, "len", call[c], held) /\ SavedAt("len", call[c], held, old_sie')
      BY <1>u, <2>1 DEF OnAt, SavedAt
    <3>q. QED
      BY <1>u, <1>s, <2>1, <3>1, <3>2, Zenon
  <2>q. QED
    BY <2>2, <2>3
<1>2. CASE ReadLen(c) \/ Resize(c)
  <2>1. PICK loc \in {"add", "resize"} :
            pc' = [pc EXCEPT ![c] = loc] /\ call' = [call EXCEPT ![c] = call[c]]
    BY <1>2, <1>u DEF ReadLen, Resize, Goto
  <2>2. pc[c] \in {"len", "resize"} /\ UNCHANGED <<sie, old_sie>>
    BY <1>2 DEF ReadLen, Resize
  <2>3. ~OnAt(c, loc, call[c], held) /\ SavedAt(loc, call[c], held, old_sie')
    BY <1>u, <2>2 DEF OnAt, SavedAt
  <2>q. QED
    BY <1>u, <1>s, <2>1, <2>2, <2>3, Zenon
<1>3. CASE CountUp(c)
  <2>1. /\ pc[c] = "add" /\ UNCHANGED <<sie, old_sie>> /\ c[2] = "proc"
        /\ call[c].lock \in CountingLocks /\ (call[c].try => call[c].lock \in held)
    BY <1>3, <1>c DEF CountUp, CountsAt
  <2>2. PICK loc \in {"spin", "idle", "panicked"}, k \in {call[c], NoCall} :
            /\ pc' = [pc EXCEPT ![c] = loc] /\ call' = [call EXCEPT ![c] = k]
            /\ loc = "idle" => call[c].try
            /\ loc = "spin" => k = call[c]
    BY <1>3, <1>u DEF CountUp, EntryMissing, Goto, Return
  <2>3. ~OnAt(c, loc, k, held)
    BY <2>1, <2>2, KindsApart DEF OnAt
  <2>4. SavedAt(loc, k, held, old_sie')
    BY <1>u, <2>1 DEF SavedAt
  <2>q. QED
    BY <1>r, <1>u, <1>s, <2>1, <2>2, <2>3, <2>4, Zenon
<1>4. CASE CountDown(c)
  <2>1. /\ pc[c] = "sub" /\ UNCHANGED <<sie, old_sie>> /\ c[2] = "proc"
        /\ pc'[c] = "idle" => held \cap CountingLocks # {}
    BY <1>4, <1>c, CountGoesDown DEF CountDown, CountsAt, held
  <2>2. PICK loc \in {"idle", "unmask", "panicked"} :
            pc' = [pc EXCEPT ![c] = loc] /\ call' = [call EXCEPT ![c] = call[c]]
    BY <1>4, <1>u DEF CountDown, EntryMissing, Goto
  <2>3. loc = "idle" => held \ InterruptLocks # {}
    <3>1. pc'[c] = loc
      BY <1>r, <2>2 DEF TypeOK
    <3>q. QED
      BY <2>1, <3>1, KindsApart
  <2>4. ~OnAt(c, loc, call[c], held) /\ SavedAt(loc, call[c], held, old_sie')
    BY <1>u, <2>1, <2>3 DEF OnAt, SavedAt
  <2>q. QED
    BY <1>u, <1>s, <2>1, <2>2, <2>4, Zenon
<1>5. CASE UnmaskInterrupts(c)
  <2>1. /\ pc[c] = "unmask" /\ pc' = [pc EXCEPT ![c] = "idle"]
        /\ call' = [call EXCEPT ![c] = call[c]] /\ UNCHANGED old_sie
        /\ sie'[c[1]] /\ \A h \in Harts \ {c[1]} : sie'[h] = sie[h]
    BY <1>5, <1>t, <1>u, Zenon DEF UnmaskInterrupts, Goto
  <2>2. SavedAt("idle", call[c], held, old_sie')
    BY <1>u, <2>1 DEF SavedAt
  <2>q. QED
    BY <1>u, <1>s, <2>1, <2>2, Zenon
<1>6. CASE SaveSie(c)
  <2>1. /\ pc[c] = "save" /\ pc' = [pc EXCEPT ![c] = "mask"] /\ UNCHANGED sie
        /\ call' = [call EXCEPT ![c] = call[c]] /\ call[c].lock \in SimpleMutexes
        /\ old_sie' = [old_sie EXCEPT ![call[c].lock] = sie[c[1]]]
    BY <1>6, <1>r, <1>u DEF SaveSie, Goto, CallsMatch
  <2>2. sie[c[1]]
    BY <1>u, <2>1 DEF OnAt
  <2>3. \A l \in SimpleMutexes : old_sie'[l] = IF l = call[c].lock THEN sie[c[1]] ELSE old_sie[l]
    BY <1>t, <2>1
  <2>4. ~OnAt(c, "mask", call[c], held) /\ SavedAt("mask", call[c], held, old_sie')
    BY <1>u, <2>1, <2>2, <2>3, Zenon DEF OnAt, SavedAt
  <2>q. QED
    BY <1>u, <1>s, <2>1, <2>2, <2>3, <2>4, Zenon
<1>7. CASE RestoreSie(c)
  <2>1. /\ pc[c] = "restore" /\ pc' = [pc EXCEPT ![c] = "idle"] /\ UNCHANGED old_sie
        /\ call' = [call EXCEPT ![c] = NoCall]
        /\ sie' = [sie EXCEPT ![c[1]] = old_sie[call[c].lock]]
    BY <1>7 DEF RestoreSie, Goto, Return
  <2>2. sie'[c[1]] /\ \A h \in Harts \ {c[1]} : sie'[h] = sie[h]
    BY <1>t, <1>u, <2>1 DEF SavedAt
  <2>3. SavedAt("idle", NoCall, held, old_sie')
    BY <1>u, <2>1 DEF SavedAt
  <2>q. QED
    BY <1>r, <1>s, <2>1, <2>2, <2>3, Zenon
<1>q. QED
  BY <1>1, <1>2, <1>3, <1>4, <1>5, <1>6, <1>7

LEMMA UnmaskAcquires ==
    ASSUME LockInv, Regular, CountInv, UnmaskInv, NEW c \in Ctx, SpinAcquire(c)
    PROVE  UnmaskInv'
<1> DEFINE l == call[c].lock
           held == HeldBy(c)
<1>t. /\ TypeOK /\ CallsMatch /\ pc[c] = "spin" /\ Runs(c) /\ UNCHANGED <<sie, taken, old_sie>>
      /\ held \in SUBSET Locks /\ NoCall \in Calls
  BY HeldIs, NoCallIs DEF SpinAcquire, LockInv
<1>u. /\ OnAt(c, pc[c], call[c], held) => sie[c[1]]
      /\ SavedAt(pc[c], call[c], held, old_sie)
      /\ \A d \in Ctx : pc[d] = "restore" => call[d].lock \in SimpleMutexes
      /\ c[2] \in {"proc", "intr"} /\ c[1] \in Harts /\ call[c] \in Calls
      /\ call = [call EXCEPT ![c] = call[c]]
  BY <1>t, UnmaskIs
<1>1. /\ l \in Locks /\ l \notin held /\ l \in use.locks /\ Cardinality(held) < use.held
      /\ call[c].mode \in Modes /\ InnerMode(l, call[c].mode) \in Modes
  BY <1>t, CallTypes DEF CallsMatch, Acquiring, InnerMode, Modes, CountInv, CountsAt, AcquiringAt
<1>2. HeldBy(c)' = held \cup {l} /\ \A d \in Ctx \ {c} : HeldBy(d)' = HeldBy(d)
  BY <1>t, <1>1, Granted DEF SpinAcquire
<1>4. CASE l \in SimpleMutexes
  <2>1. pc' = [pc EXCEPT ![c] = "save"] /\ call' = [call EXCEPT ![c] = call[c]]
    BY <1>u, <1>4 DEF SpinAcquire, Goto
  <2>2. held = {}
    BY <1>1, <1>4, SimpleIsAlone
  <2>3. sie'[c[1]]
    BY <1>t, <1>u, <1>4, <2>2, KindsApart DEF OnAt
  <2>4. SavedAt("save", call[c], held \cup {l}, old_sie')
    BY <2>2 DEF SavedAt
  <2>q. QED
    BY <1>t, <1>u, <1>2, <2>1, <2>3, <2>4, UnmaskingStep, ZenonT(40)
<1>5. CASE l \notin SimpleMutexes
  <2>1. pc' = [pc EXCEPT ![c] = "idle"] /\ call' = [call EXCEPT ![c] = NoCall]
    BY <1>5 DEF SpinAcquire, Goto, Return
  <2>2. OnAt(c, "idle", NoCall, held \cup {l}) => OnAt(c, "spin", call[c], held)
    BY <1>1, <1>5, KindsApart DEF OnAt
  <2>3. OnAt(c, "idle", NoCall, held \cup {l}) => sie'[c[1]]
    BY <1>t, <1>u, <2>2
  <2>4. SavedAt("idle", NoCall, held \cup {l}, old_sie')
    BY <1>t, <1>u, <1>5 DEF SavedAt
  <2>q. QED
    BY <1>t, <1>u, <1>2, <2>1, <2>3, <2>4, UnmaskingStep, ZenonT(40)
<1>q. QED
  BY <1>4, <1>5

LEMMA UnmaskCalls ==
    ASSUME LockInv, Regular, CountInv, UnmaskInv,
           NEW c \in Ctx, NEW l \in Locks, NEW m \in Modes, BeginLock(c, l, m)
    PROVE  UnmaskInv'
<1> DEFINE k == [lock |-> l, mode |-> m, try |-> FALSE]
           loc == FirstStep(c, l)
           held == HeldBy(c)
<1>t. /\ TypeOK /\ pc[c] = "idle" /\ Runs(c) /\ UNCHANGED <<sie, taken, old_sie, spinVars>>
      /\ l \in use.locks /\ Cardinality(held) < use.held /\ k \in Calls
  BY CalledIsFree DEF BeginLock, LockInv, lockVars, Calls, Modes
<1>u. /\ OnAt(c, "idle", call[c], held) => sie[c[1]]
      /\ SavedAt("idle", call[c], held, old_sie)
      /\ \A d \in Ctx : pc[d] = "restore" => call[d].lock \in SimpleMutexes
      /\ c[2] \in {"proc", "intr"}
  BY <1>t, UnmaskIs
<1>1. pc' = [pc EXCEPT ![c] = loc] /\ call' = [call EXCEPT ![c] = k] /\ k.lock = l
  BY DEF BeginLock, Goto
<1>2. /\ loc \in {"spin", "panicked", "mask"}
      /\ loc = "spin" /\ c[2] = "proc" => l \in SimpleMutexes
  BY <1>u DEF FirstStep, InInterruptContext
<1>3. HeldBy(c)' = held /\ \A d \in Ctx \ {c} : HeldBy(d)' = HeldBy(d)
  BY <1>t, SameGuards
<1>4. l \in SimpleMutexes => held = {}
  BY <1>t, SimpleIsAlone
<1> HIDE DEF k, loc, held
<1>5. OnAt(c, loc, k, held) => OnAt(c, "idle", call[c], held)
  BY <1>2, <1>4 DEF OnAt
<1>6. OnAt(c, loc, k, held) => sie'[c[1]]
  BY <1>t, <1>u, <1>5
<1>7. SavedAt(loc, k, held, old_sie')
  BY <1>t, <1>u, <1>2 DEF SavedAt
<1>q. QED
  BY <1>t, <1>u, <1>1, <1>3, <1>6, <1>7, UnmaskingStep, ZenonT(40)

\* Nothing changes that UnmaskInv depends on.
LEMMA UnmaskQuiet ==
    ASSUME UnmaskInv, UNCHANGED <<sie, taken, old_sie, spinVars, pc, call>>
    PROVE  UnmaskInv'
<1>1. \A d : HeldBy(d)' = HeldBy(d)
  BY SameGuards
<1>2. \A d \in Ctx : Runs(d)' /\ OnAt(d, pc[d], call[d], HeldBy(d))' => sie'[d[1]]
  BY <1>1 DEF UnmaskInv, OnAt, Runs
<1>3. \A d \in Ctx : SavedAt(pc[d], call[d], HeldBy(d), old_sie)'
  BY <1>1 DEF UnmaskInv, SavedAt
<1>q. QED
  BY <1>2, <1>3 DEF UnmaskInv

LEMMA UnmaskTries ==
    ASSUME LockInv, Regular, CountInv, UnmaskInv,
           NEW c \in Ctx, NEW l \in Locks, NEW m \in Modes, BeginTry(c, l, m)
    PROVE  UnmaskInv'
<1> DEFINE loc == AfterTry(c, l)
           k == IF loc = "idle" THEN NoCall ELSE [lock |-> l, mode |-> m, try |-> TRUE]
           held == HeldBy(c)
<1>t. /\ TypeOK /\ l \notin held /\ pc[c] = "idle" /\ Runs(c) /\ UNCHANGED <<sie, taken, old_sie>>
      /\ l \in use.locks /\ Cardinality(held) < use.held
  BY CalledIsFree DEF BeginTry, LockInv
<1>u. /\ OnAt(c, "idle", call[c], held) => sie[c[1]]
      /\ SavedAt("idle", call[c], held, old_sie)
      /\ \A d \in Ctx : pc[d] = "restore" => call[d].lock \in SimpleMutexes
      /\ c[2] \in {"proc", "intr"}
  BY <1>t, UnmaskIs
<1>1. CASE UNCHANGED <<pc, call, spinVars>>
  BY <1>1, <1>t, UnmaskQuiet
<1>2. CASE Grant(c, l, m, m) /\ Goto(c, loc) /\ call' = [call EXCEPT ![c] = k]
  <2>1. HeldBy(c)' = held \cup {l} /\ \A d \in Ctx \ {c} : HeldBy(d)' = HeldBy(d)
    BY <1>t, <1>2, Granted
  <2>2. /\ loc \in {"save", "idle", "mask"} /\ (loc = "save" <=> l \in SimpleMutexes)
        /\ loc = "idle" /\ c[2] = "proc" => l \in InterruptLocks
    BY DEF AfterTry, InInterruptContext
  <2>3. k \in Calls /\ (loc # "idle" => k.lock = l)
    BY NoCallIs DEF Calls, Modes
  <2>4. pc' = [pc EXCEPT ![c] = loc] /\ call' = [call EXCEPT ![c] = k]
    BY <1>2 DEF Goto
  <2>5. l \in SimpleMutexes => held = {}
    BY <1>t, SimpleIsAlone
  <2> HIDE DEF loc, k, held
  <2>6. OnAt(c, loc, k, held \cup {l}) => OnAt(c, "idle", call[c], held)
    BY <1>u, <2>2, <2>5 DEF OnAt
  <2>7. OnAt(c, loc, k, held \cup {l}) => sie'[c[1]]
    BY <1>t, <1>u, <2>6
  <2>8. SavedAt(loc, k, held \cup {l}, old_sie')
    BY <1>t, <1>u, <2>2, <2>3, <2>5 DEF SavedAt
  <2>q. QED
    BY <1>t, <1>u, <2>1, <2>3, <2>4, <2>7, <2>8, UnmaskingStep, ZenonT(40)
<1>q. QED
  BY <1>1, <1>2 DEF BeginTry

LEMMA UnmaskReleases ==
    ASSUME LockInv, UnmaskInv, NEW c \in Ctx, NEW l \in Locks, BeginUnlock(c, l)
    PROVE  UnmaskInv'
<1> DEFINE held == HeldBy(c)
<1>t. /\ TypeOK /\ WordCovers /\ pc[c] = "idle" /\ Runs(c) /\ l \in held
      /\ UNCHANGED <<sie, taken, old_sie>>
  BY DEF BeginUnlock, LockInv
<1>u. /\ OnAt(c, "idle", call[c], held) => sie[c[1]]
      /\ SavedAt("idle", call[c], held, old_sie)
      /\ \A d \in Ctx : pc[d] = "restore" => call[d].lock \in SimpleMutexes
      /\ c[2] \in {"proc", "intr"} /\ call[c] \in Calls
      /\ call = [call EXCEPT ![c] = call[c]]
  BY <1>t, UnmaskIs
<1>1. CASE AssertFails(c, l)
  <2>1. /\ pc' = [pc EXCEPT ![c] = "panicked"] /\ call' = [call EXCEPT ![c] = call[c]]
        /\ UNCHANGED spinVars
    BY <1>u, <1>1 DEF BeginUnlock, Goto
  <2>2. HeldBy(c)' = held /\ \A d \in Ctx \ {c} : HeldBy(d)' = HeldBy(d)
    BY <2>1, SameGuards
  <2>3. ~OnAt(c, "panicked", call[c], held) /\ SavedAt("panicked", call[c], held, old_sie')
    BY <1>t, <1>u DEF OnAt, SavedAt
  <2>q. QED
    BY <1>t, <1>u, <2>1, <2>2, <2>3, UnmaskingStep, ZenonT(40)
<1>2. CASE ~AssertFails(c, l)
  <2> DEFINE loc == AfterUnlock(c, l)
             k == [call[c] EXCEPT !.lock = IF l \in SimpleMutexes THEN l ELSE @]
  <2>1. /\ Release(c, l) /\ pc' = [pc EXCEPT ![c] = loc] /\ call' = [call EXCEPT ![c] = k]
    BY <1>2 DEF BeginUnlock, Goto
  <2>2. HeldBy(c)' = held \ {l} /\ \A d \in Ctx \ {c} : HeldBy(d)' = HeldBy(d)
    BY <1>t, <2>1, Released
  <2>3. /\ loc \in {"restore", "idle", "sub"} /\ (loc = "restore" <=> l \in SimpleMutexes)
        /\ loc = "idle" /\ c[2] = "proc" => l \in InterruptLocks
    BY DEF AfterUnlock, InInterruptContext
  <2>4. k \in Calls /\ (l \in SimpleMutexes => k.lock = l)
    BY <1>u DEF Calls
  <2> HIDE DEF loc, k, held
  <2>5. OnAt(c, loc, k, held \ {l}) => OnAt(c, "idle", call[c], held)
    BY <1>u, <2>3 DEF OnAt
  <2>6. OnAt(c, loc, k, held \ {l}) => sie'[c[1]]
    BY <1>t, <1>u, <2>5
  <2>7. SavedAt(loc, k, held \ {l}, old_sie')
    BY <1>t, <1>u, <2>3, <2>4 DEF SavedAt
  <2>q. QED
    BY <1>t, <1>u, <2>1, <2>2, <2>4, <2>6, <2>7, UnmaskingStep, ZenonT(40)
<1>q. QED
  BY <1>1, <1>2

\* An interrupt is taken or the hart goes back to its process.
LEMMA UnmaskSwitches ==
    ASSUME LockInv, UnmaskInv, NEW h \in Harts, Interrupt(h) \/ Resume(h)
    PROVE  UnmaskInv'
<1>1. UNCHANGED <<spinVars, old_sie, pc, call>>
  BY DEF Interrupt, Resume, lockVars
<1>2. /\ sie'[h]
      /\ \A x \in Harts \ {h} : sie'[x] = sie[x] /\ taken'[x] = taken[x]
  BY DEF Interrupt, Resume, LockInv, TypeOK
<1>3. \A d : HeldBy(d)' = HeldBy(d)
  BY <1>1, SameGuards
<1>4. ASSUME NEW d \in Ctx, Runs(d)', OnAt(d, pc[d], call[d], HeldBy(d))' PROVE sie'[d[1]]
  <2>1. CASE d[1] = h
    BY <1>2, <2>1
  <2>2. CASE d[1] # h
    <3>1. Runs(d) /\ OnAt(d, pc[d], call[d], HeldBy(d)) /\ d[1] \in Harts
      BY <1>1, <1>2, <1>3, <1>4, <2>2, CtxIs DEF Runs, OnAt
    <3>q. QED
      BY <1>2, <2>2, <3>1 DEF UnmaskInv
  <2>q. QED
    BY <2>1, <2>2
<1>5. \A d \in Ctx : SavedAt(pc[d], call[d], HeldBy(d), old_sie)'
  BY <1>1, <1>3, Zenon DEF UnmaskInv, SavedAt
<1>q. QED
  BY <1>4, <1>5 DEF UnmaskInv

LEMMA UnmaskStep ==
    ASSUME LockInv, Regular, CountInv, UnmaskInv, [Next]_vars
    PROVE  UnmaskInv'
<1>1. CASE \E c \in Ctx : Continue(c)
  BY <1>1, UnmaskContinues, UnmaskAcquires DEF Continue
<1>2. CASE \E c \in Ctx, l \in Locks : Call(c, l) \/ Drop(c, l)
  BY <1>2, CallIs, DropIs, UnmaskCalls, UnmaskTries, UnmaskReleases
<1>3. ASSUME NEW h \in Harts, NEW k \in Harts, NEW l \in Locks, SendGuard(h, k, l) PROVE UnmaskInv'
  BY <1>3 DEF SendGuard, Regular
<1>4. CASE \E h \in Harts : Interrupt(h) \/ Resume(h)
  BY <1>4, UnmaskSwitches
<1>5. CASE UNCHANGED vars
  BY <1>5, UnmaskQuiet DEF vars, spinVars
<1>q. QED
  BY <1>1, <1>2, <1>3, <1>4, <1>5 DEF Next

LEMMA UnmaskInit == Init => UnmaskInv
<1> SUFFICES ASSUME Init PROVE UnmaskInv
  OBVIOUS
<1>1. \A c \in Ctx : pc[c] = "idle" /\ HeldBy(c) = {} /\ sie[c[1]]
  BY CtxIs DEF Init, HeldBy
<1>2. \A c \in Ctx : SavedAt(pc[c], call[c], HeldBy(c), old_sie)
  BY <1>1 DEF SavedAt
<1>q. QED
  BY <1>1, <1>2 DEF UnmaskInv

-----------------------------------------------------------------------------
(* The theorems.                                                           *)

MaskingInv == CountingInv /\ (Regular => MaskInv /\ UnmaskInv)

LEMMA MaskingInvHolds == Spec => []MaskingInv
<1>1. Init /\ CountingInv => MaskingInv
  BY MaskInit, UnmaskInit DEF MaskingInv
<1>2. MaskingInv /\ [Next]_vars /\ CountingInv' => MaskingInv'
  <2> SUFFICES ASSUME MaskingInv, [Next]_vars, CountingInv' PROVE MaskingInv'
    OBVIOUS
  <2>1. Regular' <=> Regular
    BY UseStays DEF Regular
  <2>q. QED
    BY <2>1, MaskStep, UnmaskStep DEF MaskingInv, CountingInv
<1>q. QED
  BY <1>1, <1>2, CountingInvHolds, PTL DEF Spec

\* No interrupt finds the code it preempts with a guard that needs the mask, but
\* in the window of try_lock and of simple_shared::Mutex.
THEOREM PreemptedHasNothing == Spec => []PreemptedHoldsNothing
<1>1. MaskingInv => PreemptedHoldsNothing
  BY DEF MaskingInv, PreemptedHoldsNothing, MaskInv, MaskAt, WindowAt
<1>q. QED
  BY <1>1, MaskingInvHolds, PTL

\* Between the calls a hart that holds a guard outside of interrupt contexts has
\* its interrupts masked.
THEOREM HoldersAreMasked == Spec => []MaskedWhileHolding
<1>1. MaskingInv => MaskedWhileHolding
  BY DEF MaskingInv, MaskedWhileHolding, MaskInv, MaskAt, WindowAt
<1>q. QED
  BY <1>1, MaskingInvHolds, PTL

\* A process that holds no guard that needs the mask, and is in no lock call, has
\* its interrupts on: neither fetch_sub nor old_sie forgets to unmask.
THEOREM FreeAreUnmasked == Spec => []UnmaskedWhenFree
<1>1. MaskingInv => UnmaskedWhenFree
  <2> SUFFICES ASSUME MaskingInv, Regular, NEW h \in Harts, ~taken[h], pc[Proc(h)] = "idle",
                      Masking(h) = {}
               PROVE  sie[h]
    BY DEF UnmaskedWhenFree
  <2>1. Proc(h) \in Ctx /\ Proc(h)[1] = h /\ Proc(h)[2] = "proc"
    BY AccountedIs
  <2>2. Runs(Proc(h)) /\ OnAt(Proc(h), pc[Proc(h)], call[Proc(h)], HeldBy(Proc(h)))
    BY <2>1 DEF Runs, OnAt, Masking
  <2>q. QED
    BY <2>1, <2>2 DEF MaskingInv, UnmaskInv
<1>q. QED
  BY <1>1, MaskingInvHolds, PTL
=============================================================================
