-------------------------- MODULE SpinRwLockProofs --------------------------
(***************************************************************************)
(* Proofs about SpinRwLock for every finite set of threads: the lock word  *)
(* counts the guards, the exclusive guard excludes all others, and the     *)
(* lock implements RwLockAbs.                                              *)
(*                                                                         *)
(* Exclusion is not inductive alone.  A thread that is about to            *)
(* compare_exchange must be known to expect a word that it tested          *)
(* (CasExpectsTested), and the word must be known to tell which guards     *)
(* exist (ValueCountsGuards): then an even word means no writer and a zero *)
(* word means no guard, which is what the two successful exchanges need.   *)
(***************************************************************************)
EXTENDS SpinRwLock, FiniteSetTheorems, TLAPS

\* The sets of guard holders are finite, so the account in the lock word is a
\* natural number.
LEMMA HoldersFinite ==
    /\ IsFiniteSet(Readers) /\ Cardinality(Readers) \in Nat
    /\ IsFiniteSet(Writers) /\ Cardinality(Writers) \in Nat
<1>1. Readers \in SUBSET Threads /\ Writers \in SUBSET Threads
  BY DEF Readers, Writers
<1>2. IsFiniteSet(Readers) /\ IsFiniteSet(Writers)
  BY <1>1, ThreadsFinite, FS_Subset
<1> QED
  BY <1>2, FS_CardinalityType

\* A word with no writer bit means no writer; a zero word means no guard.
\* This is what the tests of try_lock_shared and try_lock_exclusive rely on.
LEMMA WordTellsGuards ==
    ASSUME InductiveInv
    PROVE  /\ ~HasWriter(value) => Writers = {}
           /\ value = 0 => Readers = {} /\ Writers = {}
           /\ \A t \in Readers : value >= SHARED
           /\ \A t \in Writers : value = WRITER /\ Cardinality(Writers) = 1
<1> DEFINE r == Cardinality(Readers)
           w == Cardinality(Writers)
<1>1. r \in Nat /\ w \in Nat
  BY HoldersFinite
<1>2. r = 0 <=> Readers = {}
  BY HoldersFinite, FS_EmptySet
<1>3. w = 0 <=> Writers = {}
  BY HoldersFinite, FS_EmptySet
<1>4. Writers # {} => w = 1 /\ r = 0
  <2> SUFFICES ASSUME NEW x \in Writers PROVE w = 1 /\ r = 0
    OBVIOUS
  <2>1. Writers = {x} /\ Readers = {}
    BY DEF InductiveInv, Exclusion
  <2> QED
    BY <2>1, <1>2, FS_Singleton
<1>5. value = 2 * r + w
  BY <1>1 DEF InductiveInv, ValueCountsGuards, SHARED, WRITER
<1> HIDE DEF r, w
<1>6. ~HasWriter(value) => Writers = {}
  <2> SUFFICES ASSUME Writers # {} PROVE HasWriter(value)
    OBVIOUS
  <2>1. value = 1
    BY <1>4, <1>5
  <2> QED
    BY <2>1 DEF HasWriter, SHARED, WRITER
<1>7. value = 0 => Readers = {} /\ Writers = {}
  BY <1>1, <1>2, <1>3, <1>5
<1>8. \A t \in Readers : value >= SHARED
  BY <1>1, <1>2, <1>5 DEF SHARED
<1>9. \A t \in Writers : value = WRITER /\ w = 1
  BY <1>4, <1>5 DEF WRITER
<1> QED
  BY <1>6, <1>7, <1>8, <1>9 DEF w

-----------------------------------------------------------------------------
(* What each access does to the holders.                                   *)

\* Moving one thread between locations that hold no guard moves no guard.
LEMMA GuardsUnmoved ==
    ASSUME TypeOK, NEW t \in Threads, NEW loc,
           pc[t] \notin {"reading", "writing"},
           loc \notin {"reading", "writing"},
           pc' = [pc EXCEPT ![t] = loc]
    PROVE  Readers' = Readers /\ Writers' = Writers
BY DEF TypeOK, Readers, Writers

\* A successful compare_exchange of try_lock_shared adds the caller to the
\* readers.
LEMMA ReaderEnters ==
    ASSUME TypeOK, NEW t \in Threads,
           pc[t] \notin {"reading", "writing"}, Goto(t, "reading")
    PROVE  /\ t \notin Readers
           /\ Readers' = Readers \cup {t}
           /\ Writers' = Writers
           /\ Cardinality(Readers') = Cardinality(Readers) + 1
<1>1. t \notin Readers /\ Readers' = Readers \cup {t} /\ Writers' = Writers
  BY DEF TypeOK, Readers, Writers, Goto
<1> QED
  BY <1>1, HoldersFinite, FS_AddElement

\* unlock_shared removes the caller from the readers.
LEMMA ReaderLeaves ==
    ASSUME TypeOK, NEW t \in Threads, pc[t] = "reading", Goto(t, "idle")
    PROVE  /\ t \in Readers
           /\ Readers' = Readers \ {t}
           /\ Writers' = Writers
           /\ Cardinality(Readers') = Cardinality(Readers) - 1
<1>1. t \in Readers /\ Readers' = Readers \ {t} /\ Writers' = Writers
  BY DEF TypeOK, Readers, Writers, Goto
<1> QED
  BY <1>1, HoldersFinite, FS_RemoveElement

\* A successful compare_exchange of try_lock_exclusive adds the caller to the
\* writers.
LEMMA WriterEnters ==
    ASSUME TypeOK, NEW t \in Threads,
           pc[t] \notin {"reading", "writing"}, Goto(t, "writing")
    PROVE  /\ t \notin Writers
           /\ Writers' = Writers \cup {t}
           /\ Readers' = Readers
           /\ Cardinality(Writers') = Cardinality(Writers) + 1
<1>1. t \notin Writers /\ Writers' = Writers \cup {t} /\ Readers' = Readers
  BY DEF TypeOK, Readers, Writers, Goto
<1> QED
  BY <1>1, HoldersFinite, FS_AddElement

\* unlock_exclusive removes the caller from the writers.
LEMMA WriterLeaves ==
    ASSUME TypeOK, NEW t \in Threads, pc[t] = "writing", Goto(t, "idle")
    PROVE  /\ t \in Writers
           /\ Writers' = Writers \ {t}
           /\ Readers' = Readers
           /\ Cardinality(Writers') = Cardinality(Writers) - 1
<1>1. t \in Writers /\ Writers' = Writers \ {t} /\ Readers' = Readers
  BY DEF TypeOK, Readers, Writers, Goto
<1> QED
  BY <1>1, HoldersFinite, FS_RemoveElement

\* A guard sent to an idle thread changes its holder and no count.
LEMMA GuardSent ==
    ASSUME TypeOK, NEW t \in Threads, NEW u \in Threads, SendGuard(t, u)
    PROVE  /\ u \notin Readers \cup Writers
           /\ \/ /\ t \in Readers
                 /\ Readers' = (Readers \ {t}) \cup {u}
                 /\ Writers' = Writers
              \/ /\ t \in Writers
                 /\ Writers' = (Writers \ {t}) \cup {u}
                 /\ Readers' = Readers
           /\ Cardinality(Readers') = Cardinality(Readers)
           /\ Cardinality(Writers') = Cardinality(Writers)
<1>1. u \notin Readers \cup Writers
  BY DEF SendGuard, Readers, Writers
<1>2. CASE pc[t] = "reading"
  <2>1. t \in Readers /\ Readers' = (Readers \ {t}) \cup {u} /\ Writers' = Writers
    BY <1>2 DEF SendGuard, TypeOK, Readers, Writers
  <2>2. /\ IsFiniteSet(Readers \ {t})
        /\ Cardinality(Readers \ {t}) = Cardinality(Readers) - 1
    BY <2>1, HoldersFinite, FS_RemoveElement
  <2>3. Cardinality(Readers') = (Cardinality(Readers) - 1) + 1
    BY <1>1, <2>1, <2>2, FS_AddElement
  <2> QED
    BY <1>1, <2>1, <2>3, HoldersFinite
<1>3. CASE pc[t] = "writing"
  <2>1. t \in Writers /\ Writers' = (Writers \ {t}) \cup {u} /\ Readers' = Readers
    BY <1>3 DEF SendGuard, TypeOK, Readers, Writers
  <2>2. /\ IsFiniteSet(Writers \ {t})
        /\ Cardinality(Writers \ {t}) = Cardinality(Writers) - 1
    BY <2>1, HoldersFinite, FS_RemoveElement
  <2>3. Cardinality(Writers') = (Cardinality(Writers) - 1) + 1
    BY <1>1, <2>1, <2>2, FS_AddElement
  <2> QED
    BY <1>1, <2>1, <2>3, HoldersFinite
<1> QED
  BY <1>2, <1>3 DEF SendGuard

-----------------------------------------------------------------------------
(* The inductive invariant.                                                *)

\* A new lock (RawSpinRwLock::INIT) satisfies the invariant.
LEMMA InitEstablishesInv == Init => InductiveInv
<1> SUFFICES ASSUME Init PROVE InductiveInv
  OBVIOUS
<1>1. Readers = {} /\ Writers = {}
  BY DEF Init, Readers, Writers
<1>2. TypeOK /\ CasExpectsTested
  BY DEF Init, TypeOK, Locations, CasExpectsTested
<1>3. ValueCountsGuards
  BY <1>1, FS_EmptySet DEF Init, ValueCountsGuards, SHARED, WRITER
<1>4. Exclusion
  BY <1>1 DEF Exclusion
<1> QED
  BY <1>2, <1>3, <1>4 DEF InductiveInv

\* A call that starts, is refused, loads the word, or fails to exchange it,
\* keeps the invariant: it moves no guard and does not write the word.
LEMMA QuietStepKeepsInv ==
    ASSUME InductiveInv,
           value' = value, Readers' = Readers, Writers' = Writers,
           TypeOK', CasExpectsTested'
    PROVE  InductiveInv'
BY DEF InductiveInv, ValueCountsGuards, Exclusion

\* Every atomic access of every operation preserves the invariant.
LEMMA NextPreservesInv == InductiveInv /\ [Next]_vars => InductiveInv'
<1> SUFFICES ASSUME InductiveInv, [Next]_vars PROVE InductiveInv'
  OBVIOUS
<1>0. TypeOK /\ ValueCountsGuards /\ Exclusion /\ CasExpectsTested
  BY DEF InductiveInv
<1>c. Cardinality(Readers) \in Nat /\ Cardinality(Writers) \in Nat
  BY HoldersFinite
<1>1. ASSUME NEW t \in Threads, LockShared(t) PROVE InductiveInv'
  <2>1. Readers' = Readers /\ Writers' = Writers
    BY <1>0, <1>1, GuardsUnmoved DEF LockShared, Goto
  <2>2. TypeOK' /\ CasExpectsTested'
    BY <1>0, <1>1 DEF LockShared, Goto, TypeOK, Locations, CasExpectsTested
  <2> QED
    BY <1>1, <2>1, <2>2, QuietStepKeepsInv DEF LockShared
<1>2. ASSUME NEW t \in Threads, LockExclusive(t) PROVE InductiveInv'
  <2>1. Readers' = Readers /\ Writers' = Writers
    BY <1>0, <1>2, GuardsUnmoved DEF LockExclusive, Goto
  <2>2. TypeOK' /\ CasExpectsTested'
    BY <1>0, <1>2 DEF LockExclusive, Goto, TypeOK, Locations, CasExpectsTested
  <2> QED
    BY <1>2, <2>1, <2>2, QuietStepKeepsInv DEF LockExclusive
<1>3. ASSUME NEW t \in Threads, TryLockSharedLoad(t) PROVE InductiveInv'
  <2>1. \E loc \in {"load_shared", "cas_shared", "idle"} : Goto(t, loc)
    BY <1>3 DEF TryLockSharedLoad, Refuse
  <2>2. Readers' = Readers /\ Writers' = Writers
    BY <1>0, <1>3, <2>1, GuardsUnmoved DEF TryLockSharedLoad, Goto
  <2>3. TypeOK'
    BY <1>0, <1>3 DEF TryLockSharedLoad, Refuse, Goto, TypeOK, Locations
  <2>4. CasExpectsTested'
    BY <1>0, <1>3 DEF TryLockSharedLoad, Refuse, Goto, TypeOK, CasExpectsTested
  <2> QED
    BY <1>3, <2>2, <2>3, <2>4, QuietStepKeepsInv DEF TryLockSharedLoad, Refuse
<1>4. ASSUME NEW t \in Threads, TryLockExclusiveLoad(t) PROVE InductiveInv'
  <2>1. \E loc \in {"load_exclusive", "cas_exclusive", "idle"} : Goto(t, loc)
    BY <1>4 DEF TryLockExclusiveLoad, Refuse
  <2>2. Readers' = Readers /\ Writers' = Writers
    BY <1>0, <1>4, <2>1, GuardsUnmoved DEF TryLockExclusiveLoad, Goto
  <2>3. TypeOK'
    BY <1>0, <1>4 DEF TryLockExclusiveLoad, Refuse, Goto, TypeOK, Locations
  <2>4. CasExpectsTested'
    BY <1>0, <1>4 DEF TryLockExclusiveLoad, Refuse, Goto, TypeOK, CasExpectsTested
  <2> QED
    BY <1>4, <2>2, <2>3, <2>4, QuietStepKeepsInv DEF TryLockExclusiveLoad, Refuse
<1>5. ASSUME NEW t \in Threads, TryLockSharedCas(t) PROVE InductiveInv'
  <2>0. TypeOK'
    BY <1>0, <1>5 DEF TryLockSharedCas, Goto, TypeOK, Locations, SHARED
  <2>1. CasExpectsTested'
    BY <1>0, <1>5 DEF TryLockSharedCas, Goto, TypeOK, CasExpectsTested
  <2>2. CASE value = outdated_value[t]
    <3>1. Goto(t, "reading") /\ value' = value + SHARED
      BY <1>5, <2>2 DEF TryLockSharedCas
    <3>2. Writers = {}
      BY <1>0, <1>5, <2>2, WordTellsGuards DEF TryLockSharedCas, CasExpectsTested
    <3>3. /\ Readers' = Readers \cup {t} /\ Writers' = Writers
          /\ Cardinality(Readers') = Cardinality(Readers) + 1
      BY <1>0, <1>5, <3>1, ReaderEnters DEF TryLockSharedCas
    <3>4. ValueCountsGuards'
      BY <1>0, <1>c, <3>1, <3>3 DEF ValueCountsGuards, SHARED, WRITER
    <3>5. Exclusion'
      BY <3>2, <3>3 DEF Exclusion
    <3> QED
      BY <2>0, <2>1, <3>4, <3>5 DEF InductiveInv
  <2>3. CASE value # outdated_value[t]
    <3>1. Readers' = Readers /\ Writers' = Writers
      BY <1>0, <1>5, <2>3, GuardsUnmoved DEF TryLockSharedCas, Goto
    <3> QED
      BY <1>5, <2>0, <2>1, <2>3, <3>1, QuietStepKeepsInv DEF TryLockSharedCas
  <2> QED
    BY <2>2, <2>3
<1>6. ASSUME NEW t \in Threads, TryLockExclusiveCas(t) PROVE InductiveInv'
  <2>0. TypeOK'
    BY <1>0, <1>6 DEF TryLockExclusiveCas, Goto, TypeOK, Locations, WRITER
  <2>1. CasExpectsTested'
    BY <1>0, <1>6 DEF TryLockExclusiveCas, Goto, TypeOK, CasExpectsTested
  <2>2. CASE value = outdated_value[t]
    <3>1. Goto(t, "writing") /\ value' = value + WRITER
      BY <1>6, <2>2 DEF TryLockExclusiveCas
    <3>2. Readers = {} /\ Writers = {}
      BY <1>0, <1>6, <2>2, WordTellsGuards DEF TryLockExclusiveCas, CasExpectsTested
    <3>3. /\ Writers' = Writers \cup {t} /\ Readers' = Readers
          /\ Cardinality(Writers') = Cardinality(Writers) + 1
      BY <1>0, <1>6, <3>1, WriterEnters DEF TryLockExclusiveCas
    <3>4. ValueCountsGuards'
      BY <1>0, <1>c, <3>1, <3>3 DEF ValueCountsGuards, SHARED, WRITER
    <3>5. Exclusion'
      BY <3>2, <3>3 DEF Exclusion
    <3> QED
      BY <2>0, <2>1, <3>4, <3>5 DEF InductiveInv
  <2>3. CASE value # outdated_value[t]
    <3>1. Readers' = Readers /\ Writers' = Writers
      BY <1>0, <1>6, <2>3, GuardsUnmoved DEF TryLockExclusiveCas, Goto
    <3> QED
      BY <1>6, <2>0, <2>1, <2>3, <3>1, QuietStepKeepsInv DEF TryLockExclusiveCas
  <2> QED
    BY <2>2, <2>3
<1>7. ASSUME NEW t \in Threads, UnlockShared(t) PROVE InductiveInv'
  <2>1. /\ t \in Readers /\ Readers' = Readers \ {t} /\ Writers' = Writers
        /\ Cardinality(Readers') = Cardinality(Readers) - 1
    BY <1>0, <1>7, ReaderLeaves DEF UnlockShared
  <2>2. value >= SHARED
    BY <2>1, WordTellsGuards
  <2>3. TypeOK' /\ CasExpectsTested'
    BY <1>0, <1>7, <2>2
    DEF UnlockShared, Goto, TypeOK, Locations, CasExpectsTested, SHARED
  <2>4. ValueCountsGuards'
    BY <1>0, <1>7, <1>c, <2>1 DEF UnlockShared, ValueCountsGuards, SHARED, WRITER
  <2>5. Exclusion'
    BY <1>0, <2>1 DEF Exclusion
  <2> QED
    BY <2>3, <2>4, <2>5 DEF InductiveInv
<1>8. ASSUME NEW t \in Threads, UnlockExclusive(t) PROVE InductiveInv'
  <2>1. /\ t \in Writers /\ Writers' = Writers \ {t} /\ Readers' = Readers
        /\ Cardinality(Writers') = Cardinality(Writers) - 1
    BY <1>0, <1>8, WriterLeaves DEF UnlockExclusive
  <2>2. value = WRITER
    BY <2>1, WordTellsGuards
  <2>3. TypeOK' /\ CasExpectsTested'
    BY <1>0, <1>8, <2>2
    DEF UnlockExclusive, Goto, TypeOK, Locations, CasExpectsTested, WRITER
  <2>4. ValueCountsGuards'
    BY <1>0, <1>8, <1>c, <2>1 DEF UnlockExclusive, ValueCountsGuards, SHARED, WRITER
  <2>5. Exclusion'
    BY <1>0, <2>1 DEF Exclusion
  <2> QED
    BY <2>3, <2>4, <2>5 DEF InductiveInv
<1>9. ASSUME NEW t \in Threads, NEW u \in Threads, SendGuard(t, u)
      PROVE  InductiveInv'
  <2>1. TypeOK' /\ CasExpectsTested'
    BY <1>0, <1>9 DEF SendGuard, TypeOK, Locations, CasExpectsTested
  <2>2. ValueCountsGuards'
    BY <1>0, <1>9, GuardSent DEF SendGuard, ValueCountsGuards
  <2>3. Exclusion'
    BY <1>0, <1>9, GuardSent DEF Exclusion
  <2> QED
    BY <2>1, <2>2, <2>3 DEF InductiveInv
<1>10. CASE UNCHANGED vars
  BY <1>0, <1>10
  DEF vars, InductiveInv, TypeOK, ValueCountsGuards, Exclusion, CasExpectsTested,
      Readers, Writers
<1> QED
  BY <1>1, <1>2, <1>3, <1>4, <1>5, <1>6, <1>7, <1>8, <1>9, <1>10 DEF Next, Step

\* RawSpinRwLock, for any number of threads: the lock word, the locals and the
\* program locations keep their types; in particular no fetch_sub of an unlock
\* ever takes the word below zero.
THEOREM TypeCorrect == Spec => []TypeOK
<1>1. InductiveInv => TypeOK
  BY DEF InductiveInv
<1> QED
  BY <1>1, InitEstablishesInv, NextPreservesInv, PTL DEF Spec

\* RawSpinRwLock, for any number of threads: the word always equals the sum of
\* the marks of the guards that exist.
THEOREM GuardsCounted == Spec => []ValueCountsGuards
<1>1. InductiveInv => ValueCountsGuards
  BY DEF InductiveInv
<1> QED
  BY <1>1, InitEstablishesInv, NextPreservesInv, PTL DEF Spec

\* RawSpinRwLock, for any number of threads: an exclusive guard never coexists
\* with another guard.
THEOREM MutualExclusion == Spec => []Exclusion
<1>1. InductiveInv => Exclusion
  BY DEF InductiveInv
<1> QED
  BY <1>1, InitEstablishesInv, NextPreservesInv, PTL DEF Spec

-----------------------------------------------------------------------------
(* RawSpinRwLock implements RwLockAbs.                                     *)

\* Under the invariant every access is a step of the abstract lock or leaves
\* its holders alone.
LEMMA StepRefines ==
    InductiveInv /\ [Next]_vars => [Abs!AbsNext]_(Abs!absVars)
<1> SUFFICES ASSUME InductiveInv, [Next]_vars
             PROVE  Abs!AbsNext \/ UNCHANGED <<Readers, Writers>>
  BY DEF Abs!absVars
<1> DEFINE Goal == Abs!AbsNext \/ UNCHANGED <<Readers, Writers>>
<1>0. TypeOK /\ CasExpectsTested
  BY DEF InductiveInv
<1>1. ASSUME NEW t \in Threads, LockShared(t) \/ LockExclusive(t) PROVE Goal
  BY <1>0, <1>1, GuardsUnmoved DEF LockShared, LockExclusive, Goto
<1>2. ASSUME NEW t \in Threads, TryLockSharedLoad(t) PROVE Goal
  <2>1. \E loc \in {"load_shared", "cas_shared", "idle"} : Goto(t, loc)
    BY <1>2 DEF TryLockSharedLoad, Refuse
  <2> QED
    BY <1>0, <1>2, <2>1, GuardsUnmoved DEF TryLockSharedLoad, Goto
<1>3. ASSUME NEW t \in Threads, TryLockExclusiveLoad(t) PROVE Goal
  <2>1. \E loc \in {"load_exclusive", "cas_exclusive", "idle"} : Goto(t, loc)
    BY <1>3 DEF TryLockExclusiveLoad, Refuse
  <2> QED
    BY <1>0, <1>3, <2>1, GuardsUnmoved DEF TryLockExclusiveLoad, Goto
<1>4. ASSUME NEW t \in Threads, TryLockSharedCas(t) PROVE Goal
  <2>1. CASE value = outdated_value[t]
    <3>1. Writers = {}
      BY <1>0, <1>4, <2>1, WordTellsGuards DEF TryLockSharedCas, CasExpectsTested
    <3>2. t \notin Readers /\ Readers' = Readers \cup {t} /\ Writers' = Writers
      BY <1>0, <1>4, <2>1, ReaderEnters DEF TryLockSharedCas
    <3>3. Abs!AcquireShared(t)
      BY <3>1, <3>2 DEF Abs!AcquireShared
    <3> QED
      BY <3>3 DEF Abs!AbsNext
  <2>2. CASE value # outdated_value[t]
    BY <1>0, <1>4, <2>2, GuardsUnmoved DEF TryLockSharedCas, Goto
  <2> QED
    BY <2>1, <2>2
<1>5. ASSUME NEW t \in Threads, TryLockExclusiveCas(t) PROVE Goal
  <2>1. CASE value = outdated_value[t]
    <3>1. Readers = {} /\ Writers = {}
      BY <1>0, <1>5, <2>1, WordTellsGuards DEF TryLockExclusiveCas, CasExpectsTested
    <3>2. Writers' = Writers \cup {t} /\ Readers' = Readers
      BY <1>0, <1>5, <2>1, WriterEnters DEF TryLockExclusiveCas
    <3>3. Abs!AcquireExclusive(t)
      BY <3>1, <3>2 DEF Abs!AcquireExclusive
    <3> QED
      BY <3>3 DEF Abs!AbsNext
  <2>2. CASE value # outdated_value[t]
    BY <1>0, <1>5, <2>2, GuardsUnmoved DEF TryLockExclusiveCas, Goto
  <2> QED
    BY <2>1, <2>2
<1>6. ASSUME NEW t \in Threads, UnlockShared(t) PROVE Goal
  <2>1. Abs!ReleaseShared(t)
    BY <1>0, <1>6, ReaderLeaves DEF UnlockShared, Abs!ReleaseShared
  <2> QED
    BY <2>1 DEF Abs!AbsNext
<1>7. ASSUME NEW t \in Threads, UnlockExclusive(t) PROVE Goal
  <2>1. Abs!ReleaseExclusive(t)
    BY <1>0, <1>7, WriterLeaves DEF UnlockExclusive, Abs!ReleaseExclusive
  <2> QED
    BY <2>1 DEF Abs!AbsNext
<1>8. ASSUME NEW t \in Threads, NEW u \in Threads, SendGuard(t, u) PROVE Goal
  <2>1. Abs!HandOver(t, u)
    BY <1>0, <1>8, GuardSent DEF Abs!HandOver
  <2> QED
    BY <2>1 DEF Abs!AbsNext
<1>9. CASE UNCHANGED vars
  BY <1>9 DEF vars, Readers, Writers
<1> QED
  BY <1>1, <1>2, <1>3, <1>4, <1>5, <1>6, <1>7, <1>8, <1>9 DEF Next, Step

\* RawSpinRwLock implements the abstract reader-writer lock, with the threads
\* at "reading" and "writing" as the holders.
THEOREM Refinement == Spec => RefinesAbs
<1>1. Init => Abs!AbsInit
  BY DEF Init, Abs!AbsInit, Readers, Writers
<1> QED
  BY <1>1, InitEstablishesInv, NextPreservesInv, StepRefines, PTL
  DEF Spec, RefinesAbs, Abs!AbsSpec
=============================================================================
