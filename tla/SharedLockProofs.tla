-------------------------- MODULE SharedLockProofs --------------------------
(***************************************************************************)
(* The proofs about SharedLock, for any number of harts and any locks: in  *)
(* every use the guards exclude one another, and in the Regular uses       *)
(* HART_LOCK_COUNT matches the guards.  SharedMaskProofs goes on with what *)
(* the count is for.                                                       *)
(***************************************************************************)
EXTENDS SharedLock, SequenceTheorems, FiniteSetTheorems, TLAPS

-----------------------------------------------------------------------------
(* The invariant.                                                          *)

\* On the way to the spinlock.
Acquiring(c) ==
    \/ pc[c] = "spin"
    \/ /\ pc[c] \in {"mask", "len", "resize", "add"}
       /\ ~call[c].try /\ call[c].lock \notin SimpleMutexes

\* A call knows its lock, and no context asks for a lock it has.
CallsMatch ==
    \A c \in Ctx :
        /\ pc[c] \in {"save", "restore"} => call[c].lock \in SimpleMutexes
        /\ pc[c] \in {"len", "resize", "add"} => call[c].lock \notin SimpleMutexes
        /\ Acquiring(c) =>
              /\ call[c].lock \notin HeldBy(c)
              /\ call[c].lock \in InterruptRwLocks /\ call[c].mode = "exclusive" => use.write

\* A release finds in the word what it takes away; with use.write there is more.
WordCovers ==
    \A l \in Locks : word[l] >= 2 * Cardinality(readers[l]) + Cardinality(writers[l])

LockInv == TypeOK /\ CallsMatch /\ WordCovers /\ GuardsExclusive

-----------------------------------------------------------------------------
(* The operations in terms of their parts.                                 *)

Modes == {"shared", "exclusive"}

LEMMA CallIs ==
    ASSUME NEW c \in Ctx, NEW l \in Locks, Call(c, l)
    PROVE  \E m \in Modes :
              \/ /\ BeginLock(c, l, m)
                 /\ l \in InterruptRwLocks /\ m = "exclusive" => use.write
              \/ BeginTry(c, l, m)
<1>1. InterruptRwLocks \cap (Mutexes \cup RwLocks \cup SimpleMutexes \cup InterruptMutexes) = {}
  BY ConstantsOK DEF CountingLocks, InterruptLocks
<1>2. \/ BeginLock(c, l, "shared") \/ BeginTry(c, l, "shared") \/ BeginTry(c, l, "exclusive")
      \/ BeginLock(c, l, "exclusive") /\ (l \in InterruptRwLocks => use.write)
  BY <1>1
  DEF Call, Lock, TryLock, LockShared, TryLockShared, LockExclusive, TryLockExclusive,
      SimpleLock, SimpleTryLock, InterruptLock, InterruptTryLock, InterruptLockShared,
      InterruptTryLockShared, InterruptLockExclusive, InterruptTryLockExclusive
<1>q. QED
  BY <1>2, Zenon DEF Modes

LEMMA DropIs ==
    ASSUME NEW c \in Ctx, NEW l \in Locks, Drop(c, l)
    PROVE  BeginUnlock(c, l)
BY DEF Drop, Unlock, UnlockShared, UnlockExclusive, SimpleUnlock, InterruptUnlock,
       InterruptUnlockShared, InterruptUnlockExclusive

LEMMA CtxFinite == IsFiniteSet(Ctx)
<1>1. IsFiniteSet(Harts)
  BY ConstantsOK, FS_Interval DEF Harts
<1>2. IsFiniteSet({"proc", "intr"})
  <2>1. IsFiniteSet({"proc"} \cup {"intr"})
    BY FS_Singleton, FS_AddElement, Zenon
  <2>2. {"proc"} \cup {"intr"} = {"proc", "intr"}
    OBVIOUS
  <2>q. QED
    BY <2>1, <2>2
<1>q. QED
  BY <1>1, <1>2, FS_Product DEF Ctx

LEMMA GuardsFinite ==
    ASSUME TypeOK, NEW l \in Locks
    PROVE  /\ IsFiniteSet(readers[l]) /\ Cardinality(readers[l]) \in Nat
           /\ IsFiniteSet(writers[l]) /\ Cardinality(writers[l]) \in Nat
<1>1. readers[l] \in SUBSET Ctx /\ writers[l] \in SUBSET Ctx
  BY DEF TypeOK
<1>q. QED
  BY <1>1, CtxFinite, FS_Subset, FS_CardinalityType

\* A grant gives c the lock l, and nothing else to anybody.
LEMMA Granted ==
    ASSUME TypeOK, NEW c \in Ctx, NEW l \in Locks, NEW m \in Modes, NEW inner \in Modes,
           Grant(c, l, m, inner), l \notin HeldBy(c)
    PROVE  /\ word' \in [Locks -> 0 .. MaxWord]
           /\ readers' \in [Locks -> SUBSET Ctx] /\ writers' \in [Locks -> SUBSET Ctx]
           /\ \A k \in Locks \ {l} :
                word'[k] = word[k] /\ readers'[k] = readers[k] /\ writers'[k] = writers[k]
           /\ Grantable(l, inner) /\ word'[l] = word[l] + Weight(inner)
           /\ m = "shared" =>
                /\ readers'[l] = readers[l] \cup {c} /\ writers'[l] = writers[l]
                /\ Cardinality(readers'[l]) = Cardinality(readers[l]) + 1
           /\ m = "exclusive" =>
                /\ writers'[l] = writers[l] \cup {c} /\ readers'[l] = readers[l]
                /\ Cardinality(writers'[l]) = Cardinality(writers[l]) + 1
           /\ HeldBy(c)' = HeldBy(c) \cup {l}
           /\ \A d \in Ctx \ {c} : HeldBy(d)' = HeldBy(d)
<1>1. /\ word \in [Locks -> 0 .. MaxWord] /\ MaxWord \in Nat
      /\ readers \in [Locks -> SUBSET Ctx] /\ writers \in [Locks -> SUBSET Ctx]
  BY ConstantsOK DEF TypeOK
<1>2. c \notin readers[l] /\ c \notin writers[l]
  BY DEF HeldBy
<1>3. Weight(inner) \in {1, 2}
  BY DEF Weight
<1>4. /\ word' \in [Locks -> 0 .. MaxWord] /\ word'[l] = word[l] + Weight(inner)
      /\ \A k \in Locks \ {l} : word'[k] = word[k]
  BY <1>1, <1>3 DEF Grant
<1>5. /\ readers' \in [Locks -> SUBSET Ctx] /\ writers' \in [Locks -> SUBSET Ctx]
      /\ \A k \in Locks \ {l} : readers'[k] = readers[k] /\ writers'[k] = writers[k]
      /\ m = "shared" => readers'[l] = readers[l] \cup {c} /\ writers'[l] = writers[l]
      /\ m = "exclusive" => writers'[l] = writers[l] \cup {c} /\ readers'[l] = readers[l]
  BY <1>1 DEF Grant
<1>6. /\ Cardinality(readers[l] \cup {c}) = Cardinality(readers[l]) + 1
      /\ Cardinality(writers[l] \cup {c}) = Cardinality(writers[l]) + 1
  BY <1>2, GuardsFinite, FS_AddElement, Zenon
<1>7. HeldBy(c)' = HeldBy(c) \cup {l} /\ \A d \in Ctx \ {c} : HeldBy(d)' = HeldBy(d)
  BY <1>5 DEF HeldBy, Modes
<1>q. QED
  BY <1>4, <1>5, <1>6, <1>7 DEF Grant

\* A release takes the lock l from c.
LEMMA Released ==
    ASSUME TypeOK, WordCovers, NEW c \in Ctx, NEW l \in HeldBy(c), Release(c, l)
    PROVE  /\ word' \in [Locks -> 0 .. MaxWord]
           /\ readers' \in [Locks -> SUBSET Ctx] /\ writers' \in [Locks -> SUBSET Ctx]
           /\ \A k \in Locks \ {l} :
                word'[k] = word[k] /\ readers'[k] = readers[k] /\ writers'[k] = writers[k]
           /\ readers'[l] = readers[l] \ {c} /\ writers'[l] = writers[l] \ {c}
           /\ word'[l] = word[l] - (IF c \in readers[l] THEN 2 ELSE 1)
           /\ Cardinality(readers'[l]) =
                IF c \in readers[l] THEN Cardinality(readers[l]) - 1 ELSE Cardinality(readers[l])
           /\ Cardinality(writers'[l]) =
                IF c \in writers[l] THEN Cardinality(writers[l]) - 1 ELSE Cardinality(writers[l])
           /\ HeldBy(c)' = HeldBy(c) \ {l}
           /\ \A d \in Ctx \ {c} : HeldBy(d)' = HeldBy(d)
<1>1. /\ word \in [Locks -> 0 .. MaxWord] /\ MaxWord \in Nat
      /\ readers \in [Locks -> SUBSET Ctx] /\ writers \in [Locks -> SUBSET Ctx]
  BY ConstantsOK DEF TypeOK
<1>2. l \in Locks /\ c \in readers[l] \cup writers[l]
  BY DEF HeldBy
<1>3. /\ readers' \in [Locks -> SUBSET Ctx] /\ writers' \in [Locks -> SUBSET Ctx]
      /\ \A k \in Locks \ {l} : readers'[k] = readers[k] /\ writers'[k] = writers[k]
      /\ readers'[l] = readers[l] \ {c} /\ writers'[l] = writers[l] \ {c}
  BY <1>1, <1>2 DEF Release
<1>4. /\ word' = [word EXCEPT ![l] = @ - (IF c \in readers[l] THEN 2 ELSE 1)]
  BY Zenon DEF Release, Weight
<1>5. /\ Cardinality(readers'[l]) =
            IF c \in readers[l] THEN Cardinality(readers[l]) - 1 ELSE Cardinality(readers[l])
      /\ Cardinality(writers'[l]) =
            IF c \in writers[l] THEN Cardinality(writers[l]) - 1 ELSE Cardinality(writers[l])
      /\ Cardinality(readers'[l]) \in Nat /\ Cardinality(writers'[l]) \in Nat
  <2>1. IsFiniteSet(readers[l]) /\ IsFiniteSet(writers[l])
    BY <1>2, GuardsFinite
  <2>2. IsFiniteSet(readers[l] \ {c}) /\ IsFiniteSet(writers[l] \ {c})
    BY <2>1, FS_RemoveElement
  <2>3. /\ Cardinality(readers[l] \ {c}) =
            IF c \in readers[l] THEN Cardinality(readers[l]) - 1 ELSE Cardinality(readers[l])
        /\ Cardinality(writers[l] \ {c}) =
            IF c \in writers[l] THEN Cardinality(writers[l]) - 1 ELSE Cardinality(writers[l])
    BY <2>1, FS_RemoveElement, Zenon
  <2>4. Cardinality(readers[l] \ {c}) \in Nat /\ Cardinality(writers[l] \ {c}) \in Nat
    BY <2>2, FS_CardinalityType
  <2>q. QED
    BY <1>3, <2>3, <2>4
<1>6. word[l] - (IF c \in readers[l] THEN 2 ELSE 1) \in 0 .. MaxWord
  <2>1. word[l] >= 2 * Cardinality(readers[l]) + Cardinality(writers[l]) /\ word[l] \in 0 .. MaxWord
    BY <1>1, <1>2 DEF WordCovers
  <2>2. Cardinality(readers[l]) \in Nat /\ Cardinality(writers[l]) \in Nat
    BY <1>2, GuardsFinite
  <2>q. QED
    BY <1>1, <1>2, <1>5, <2>1, <2>2
<1>7. /\ word' \in [Locks -> 0 .. MaxWord]
      /\ word'[l] = word[l] - (IF c \in readers[l] THEN 2 ELSE 1)
      /\ \A k \in Locks \ {l} : word'[k] = word[k]
  BY <1>1, <1>2, <1>4, <1>6
<1>8. HeldBy(c)' = HeldBy(c) \ {l} /\ \A d \in Ctx \ {c} : HeldBy(d)' = HeldBy(d)
  BY <1>3 DEF HeldBy
<1>q. QED
  BY <1>3, <1>5, <1>7, <1>8

-----------------------------------------------------------------------------
(* HART_LOCK_COUNT.                                                        *)

LEMMA UsizeIs ==
    ASSUME TypeOK
    PROVE  Usize \in Nat /\ use.held \in Nat \ {0} /\ Usize > use.held + 1 /\ use.len \in 0 .. N
BY ConstantsOK DEF TypeOK, UseType

LEMMA HartidIs ==
    ASSUME NEW c \in Ctx
    PROVE  c[1] \in Harts /\ c[2] \in {"proc", "intr"} /\ LoadHartid(c) \in Harts /\ N \in Nat \ {0}
<1>1. N \in Nat \ {0} /\ 0 \in Harts
  BY ConstantsOK DEF Harts
<1>2. c[1] \in Harts /\ c[2] \in {"proc", "intr"}
  BY DEF Ctx
<1>q. QED
  BY <1>1, <1>2 DEF LoadHartid

\* A store to an entry keeps the length and the other entries.
LEMMA EntryStored ==
    ASSUME TypeOK, NEW h \in Harts, h < Len(hart_lock_count), NEW v \in 0 .. Usize - 1,
           hart_lock_count' = [hart_lock_count EXCEPT ![h + 1] = v]
    PROVE  /\ hart_lock_count' \in Seq(0 .. Usize - 1)
           /\ Len(hart_lock_count') = Len(hart_lock_count)
           /\ hart_lock_count'[h + 1] = v
           /\ \A k \in Harts \ {h} : hart_lock_count'[k + 1] = hart_lock_count[k + 1]
<1>1. hart_lock_count \in Seq(0 .. Usize - 1) /\ Len(hart_lock_count) \in Nat
      /\ DOMAIN hart_lock_count = 1 .. Len(hart_lock_count)
  BY LenProperties DEF TypeOK
<1>2. h \in Nat /\ h + 1 \in 1 .. Len(hart_lock_count) /\ \A k \in Harts : k \in Nat
  BY <1>1, ConstantsOK DEF Harts
<1>3. /\ hart_lock_count' \in Seq(0 .. Usize - 1)
      /\ Len(hart_lock_count') = Len(hart_lock_count)
      /\ \A i \in 1 .. Len(hart_lock_count) :
            hart_lock_count'[i] = IF i = h + 1 THEN v ELSE hart_lock_count[i]
  BY <1>1, <1>2, ExceptSeq
<1>4. hart_lock_count'[h + 1] = v
  BY <1>2, <1>3
<1>5. \A k \in Harts \ {h} : hart_lock_count'[k + 1] = hart_lock_count[k + 1]
  BY <1>1, <1>2
<1>q. QED
  BY <1>3, <1>4, <1>5

LEMMA Resized ==
    ASSUME TypeOK, NEW n \in 0 .. N, hart_lock_count' = ResizeWith(hart_lock_count, n)
    PROVE  /\ hart_lock_count' \in Seq(0 .. Usize - 1) /\ Len(hart_lock_count') = n
           /\ \A i \in 1 .. n :
                hart_lock_count'[i] = IF i <= Len(hart_lock_count) THEN hart_lock_count[i] ELSE 0
<1>1. hart_lock_count \in Seq(0 .. Usize - 1) /\ Len(hart_lock_count) \in Nat
      /\ DOMAIN hart_lock_count = 1 .. Len(hart_lock_count) /\ n \in Nat
  BY ConstantsOK, LenProperties DEF TypeOK
<1>2. 0 \in 0 .. Usize - 1
  BY UsizeIs
<1>3. ASSUME NEW i \in 1 .. n
      PROVE  (IF i <= Len(hart_lock_count) THEN hart_lock_count[i] ELSE 0) \in 0 .. Usize - 1
  <2>1. CASE i <= Len(hart_lock_count)
    <3>1. i \in 1 .. Len(hart_lock_count)
      BY <1>1, <2>1
    <3>2. hart_lock_count[i] \in 0 .. Usize - 1
      BY <1>1, <3>1, ElementOfSeq, Zenon
    <3>q. QED
      BY <2>1, <3>2
  <2>q. QED
    BY <1>2, <2>1
<1>4. hart_lock_count' \in [1 .. n -> 0 .. Usize - 1]
  BY <1>3 DEF ResizeWith
<1>5. hart_lock_count' \in Seq(0 .. Usize - 1)
  BY <1>1, <1>4, SeqDef, Zenon
<1>6. Len(hart_lock_count') = n
  <2>1. Len(hart_lock_count') \in Nat /\ 1 .. Len(hart_lock_count') = 1 .. n
    BY <1>4, <1>5, LenProperties
  <2>q. QED
    BY <1>1, <2>1
<1>q. QED
  BY <1>5, <1>6 DEF ResizeWith

\* What fetch_add and fetch_sub leave, by the width of the counter.
LEMMA Wrapped ==
    ASSUME TypeOK, NEW v \in 0 .. Usize - 1
    PROVE  /\ (v + 1) % Usize \in 0 .. Usize - 1
           /\ (v + Usize - 1) % Usize \in 0 .. Usize - 1
           /\ v + 1 < Usize => (v + 1) % Usize = v + 1
           /\ v > 0 => (v + Usize - 1) % Usize = v - 1
<1>1. Usize \in Nat /\ Usize > 0
  BY UsizeIs
<1>2. \A a \in Nat : a % Usize \in 0 .. Usize - 1
  BY <1>1
<1>3. \A a \in 0 .. Usize - 1 : a % Usize = a
  BY <1>1
<1>4. \A a \in 0 .. Usize - 1 : (a + Usize) % Usize = a
  BY <1>1
<1>5. v + 1 \in Nat /\ v + Usize - 1 \in Nat
  BY <1>1
<1>6. v > 0 => v - 1 \in 0 .. Usize - 1 /\ v + Usize - 1 = (v - 1) + Usize
  BY <1>1
<1>7. v > 0 => (v + Usize - 1) % Usize = v - 1
  BY <1>4, <1>6
<1>q. QED
  BY <1>1, <1>2, <1>3, <1>5, <1>7

\* fetch_add and fetch_sub on the entry of the hart.
LEMMA CountedUp ==
    ASSUME TypeOK, NEW h \in Harts, h < Len(hart_lock_count),
           hart_lock_count' = [hart_lock_count EXCEPT ![h + 1] = (@ + 1) % Usize]
    PROVE  /\ hart_lock_count' \in Seq(0 .. Usize - 1)
           /\ Len(hart_lock_count') = Len(hart_lock_count)
           /\ Count(h) + 1 < Usize => Count(h)' = Count(h) + 1
           /\ \A k \in Harts \ {h} : Count(k)' = Count(k)
<1>1. h + 1 \in 1 .. Len(hart_lock_count) /\ h \in Nat
  BY ConstantsOK, LenProperties DEF TypeOK, Harts
<1>2. hart_lock_count[h + 1] \in 0 .. Usize - 1
  BY <1>1, ElementOfSeq, Zenon DEF TypeOK
<1> DEFINE v == (hart_lock_count[h + 1] + 1) % Usize
<1>3. v \in 0 .. Usize - 1 /\ (hart_lock_count[h + 1] + 1 < Usize => v = hart_lock_count[h + 1] + 1)
  BY <1>2, Wrapped, Zenon
<1>4. hart_lock_count' = [hart_lock_count EXCEPT ![h + 1] = v]
  OBVIOUS
<1> HIDE DEF v
<1>5. /\ hart_lock_count' \in Seq(0 .. Usize - 1)
      /\ Len(hart_lock_count') = Len(hart_lock_count)
      /\ hart_lock_count'[h + 1] = v
      /\ \A k \in Harts \ {h} : hart_lock_count'[k + 1] = hart_lock_count[k + 1]
  BY <1>3, <1>4, EntryStored, Zenon
<1>q. QED
  BY <1>3, <1>5 DEF Count

LEMMA CountedDown ==
    ASSUME TypeOK, NEW h \in Harts, h < Len(hart_lock_count),
           hart_lock_count' = [hart_lock_count EXCEPT ![h + 1] = (@ + Usize - 1) % Usize]
    PROVE  /\ hart_lock_count' \in Seq(0 .. Usize - 1)
           /\ Len(hart_lock_count') = Len(hart_lock_count)
           /\ Count(h) > 0 => Count(h)' = Count(h) - 1
           /\ \A k \in Harts \ {h} : Count(k)' = Count(k)
<1>1. h + 1 \in 1 .. Len(hart_lock_count) /\ h \in Nat
  BY ConstantsOK, LenProperties DEF TypeOK, Harts
<1>2. hart_lock_count[h + 1] \in 0 .. Usize - 1
  BY <1>1, ElementOfSeq, Zenon DEF TypeOK
<1> DEFINE v == (hart_lock_count[h + 1] + Usize - 1) % Usize
<1>3. v \in 0 .. Usize - 1 /\ (hart_lock_count[h + 1] > 0 => v = hart_lock_count[h + 1] - 1)
  BY <1>2, Wrapped
<1>4. hart_lock_count' = [hart_lock_count EXCEPT ![h + 1] = v]
  OBVIOUS
<1> HIDE DEF v
<1>5. /\ hart_lock_count' \in Seq(0 .. Usize - 1)
      /\ Len(hart_lock_count') = Len(hart_lock_count)
      /\ hart_lock_count'[h + 1] = v
      /\ \A k \in Harts \ {h} : hart_lock_count'[k + 1] = hart_lock_count[k + 1]
  BY <1>3, <1>4, EntryStored, Zenon
<1>q. QED
  BY <1>3, <1>5 DEF Count

-----------------------------------------------------------------------------
(* The guards exclude one another.                                         *)

LEMMA CallTypes ==
    ASSUME TypeOK, NEW c \in Ctx
    PROVE  /\ call[c] \in Calls /\ call[c].lock \in Locks /\ call[c].mode \in Modes
           /\ call[c].try \in BOOLEAN /\ call = [call EXCEPT ![c] = call[c]]
BY DEF TypeOK, Calls, Modes

LEMMA NoCallIs == NoCall \in Calls /\ ~NoCall.try
<1>1. (CHOOSE l \in Locks : TRUE) \in Locks
  BY ConstantsOK
<1>q. QED
  BY <1>1 DEF NoCall, Calls

\* The same of a call k that is at loc.
AcquiringAt(loc, k) ==
    \/ loc = "spin"
    \/ loc \in {"mask", "len", "resize", "add"} /\ ~k.try /\ k.lock \notin SimpleMutexes

CallMatches(c, loc, k) ==
    /\ loc \in {"save", "restore"} => k.lock \in SimpleMutexes
    /\ loc \in {"len", "resize", "add"} => k.lock \notin SimpleMutexes
    /\ AcquiringAt(loc, k) =>
          /\ k.lock \notin HeldBy(c)
          /\ k.lock \in InterruptRwLocks /\ k.mode = "exclusive" => use.write

LEMMA CallsMatchIs == CallsMatch <=> \A c \in Ctx : CallMatches(c, pc[c], call[c])
BY DEF CallsMatch, CallMatches, Acquiring, AcquiringAt

\* One context goes on in its call, and guards are as before.
LEMMA QuietStep ==
    ASSUME LockInv, UNCHANGED <<use, spinVars>>, NEW c \in Ctx, NEW loc \in Locations, NEW k \in Calls,
           pc' = [pc EXCEPT ![c] = loc], call' = [call EXCEPT ![c] = k], CallMatches(c, loc, k)
    PROVE  /\ CallsMatch' /\ WordCovers' /\ GuardsExclusive'
           /\ pc' \in [Ctx -> Locations] /\ call' \in [Ctx -> Calls]
<1>1. pc' \in [Ctx -> Locations] /\ call' \in [Ctx -> Calls]
  BY DEF LockInv, TypeOK
<1>2. \A d \in Ctx : pc'[d] = (IF d = c THEN loc ELSE pc[d])
                  /\ call'[d] = (IF d = c THEN k ELSE call[d])
  BY DEF LockInv, TypeOK
<1>3. \A d : HeldBy(d)' = HeldBy(d)
  BY DEF spinVars, HeldBy
<1>4. ASSUME NEW d \in Ctx PROVE CallMatches(d, pc[d], call[d])'
  <2>1. CASE d = c
    <3>1. pc'[d] = loc /\ call'[d] = k
      BY <1>2, <2>1
    <3>q. QED
      BY <1>3, <2>1, <3>1 DEF CallMatches, AcquiringAt
  <2>2. CASE d # c
    <3>1. pc'[d] = pc[d] /\ call'[d] = call[d]
      BY <1>2, <2>2
    <3>2. CallMatches(d, pc[d], call[d])
      BY CallsMatchIs DEF LockInv
    <3>q. QED
      BY <1>3, <3>1, <3>2 DEF CallMatches, AcquiringAt
  <2>q. QED
    BY <2>1, <2>2
<1>5. CallsMatch'
  BY <1>4 DEF CallsMatch, CallMatches, Acquiring, AcquiringAt
<1>6. WordCovers' /\ GuardsExclusive'
  BY DEF LockInv, WordCovers, GuardsExclusive, spinVars
<1>q. QED
  BY <1>1, <1>5, <1>6

\* One context gets a guard of l.
LEMMA GrantStep ==
    ASSUME LockInv, NEW c \in Ctx, NEW l \in Locks, NEW m \in Modes, NEW inner \in Modes,
           Grant(c, l, m, inner), l \notin HeldBy(c), ~use.write => inner = m,
           Weight(inner) >= Weight(m),
           NEW loc \in Locations, NEW k \in Calls,
           pc' = [pc EXCEPT ![c] = loc], call' = [call EXCEPT ![c] = k],
           loc \in {"save", "restore"} => k.lock \in SimpleMutexes,
           loc \in {"len", "resize", "add"} => k.lock \notin SimpleMutexes,
           ~AcquiringAt(loc, k),
           UNCHANGED <<use, sie, hart_lock_count, taken, old_sie>>
    PROVE  LockInv'
<1>1. TypeOK /\ CallsMatch /\ WordCovers /\ GuardsExclusive
  BY DEF LockInv
<1>2. /\ word' \in [Locks -> 0 .. MaxWord]
      /\ readers' \in [Locks -> SUBSET Ctx] /\ writers' \in [Locks -> SUBSET Ctx]
      /\ \A x \in Locks \ {l} :
            word'[x] = word[x] /\ readers'[x] = readers[x] /\ writers'[x] = writers[x]
      /\ Grantable(l, inner) /\ word'[l] = word[l] + Weight(inner)
      /\ m = "shared" =>
            /\ readers'[l] = readers[l] \cup {c} /\ writers'[l] = writers[l]
            /\ Cardinality(readers'[l]) = Cardinality(readers[l]) + 1
      /\ m = "exclusive" =>
            /\ writers'[l] = writers[l] \cup {c} /\ readers'[l] = readers[l]
            /\ Cardinality(writers'[l]) = Cardinality(writers[l]) + 1
      /\ \A d \in Ctx \ {c} : HeldBy(d)' = HeldBy(d)
  BY <1>1, Granted
<1>3. pc' \in [Ctx -> Locations] /\ call' \in [Ctx -> Calls]
  BY <1>1 DEF TypeOK
<1>4. TypeOK'
  BY <1>1, <1>2, <1>3 DEF TypeOK
<1>5. ASSUME NEW d \in Ctx PROVE CallMatches(d, pc[d], call[d])'
  <2>1. CASE d = c
    <3>1. pc'[d] = loc /\ call'[d] = k
      BY <1>1, <2>1 DEF TypeOK
    <3>q. QED
      BY <3>1 DEF CallMatches, AcquiringAt
  <2>2. CASE d # c
    <3>1. pc'[d] = pc[d] /\ call'[d] = call[d] /\ HeldBy(d)' = HeldBy(d)
      BY <1>1, <1>2, <2>2 DEF TypeOK
    <3>2. CallMatches(d, pc[d], call[d])
      BY <1>1, CallsMatchIs
    <3>q. QED
      BY <3>1, <3>2 DEF CallMatches, AcquiringAt
  <2>q. QED
    BY <2>1, <2>2
<1>6. CallsMatch'
  BY <1>5 DEF CallsMatch, CallMatches, Acquiring, AcquiringAt
<1>n. /\ Cardinality(readers[l]) \in Nat /\ Cardinality(writers[l]) \in Nat /\ word[l] \in Nat
      /\ Weight("shared") = 2 /\ Weight("exclusive") = 1
  BY <1>1, GuardsFinite, ConstantsOK DEF TypeOK, Weight
<1>7. WordCovers'
  <2>1. word[l] >= 2 * Cardinality(readers[l]) + Cardinality(writers[l])
    BY <1>1 DEF WordCovers
  <2>2. Weight(inner) \in Nat /\ m \in {"shared", "exclusive"}
    BY DEF Weight, Modes
  <2>3. word'[l] >= 2 * Cardinality(readers'[l]) + Cardinality(writers'[l])
    <3>1. CASE m = "shared"
      BY <1>2, <1>n, <2>1, <2>2, <3>1
    <3>2. CASE m = "exclusive"
      BY <1>2, <1>n, <2>1, <2>2, <3>2
    <3>q. QED
      BY <2>2, <3>1, <3>2
  <2>q. QED
    BY <1>1, <1>2, <2>3 DEF WordCovers
<1>8. GuardsExclusive'
  <2> SUFFICES ASSUME ~use.write, NEW x \in Locks
               PROVE  /\ \A w \in writers'[x] : writers'[x] = {w} /\ readers'[x] = {}
                      /\ word'[x] = 2 * Cardinality(readers'[x]) + Cardinality(writers'[x])
    BY DEF GuardsExclusive
  <2>1. /\ \A w \in writers[x] : writers[x] = {w} /\ readers[x] = {}
        /\ word[x] = 2 * Cardinality(readers[x]) + Cardinality(writers[x])
    BY <1>1 DEF GuardsExclusive
  <2>2. CASE x # l
    BY <1>2, <2>1, <2>2
  <2>3. CASE x = l /\ m = "shared"
    <3>1. writers[l] = {}
      <4>1. word[l] % 2 = 0
        BY <1>2, <2>3 DEF Grantable
      <4>2. ASSUME NEW w \in writers[l] PROVE FALSE
        <5>0. writers[l] = {w} /\ readers[l] = {}
          BY <2>1, <2>3
        <5>1. Cardinality(writers[l]) = 1 /\ Cardinality(readers[l]) = 0
          BY <5>0, FS_Singleton, FS_EmptySet, Zenon
        <5>2. word[l] = 1
          BY <2>1, <2>3, <5>1
        <5>q. QED
          BY <4>1, <5>2
      <4>q. QED
        BY <4>2
    <3>q. QED
      BY <1>2, <1>n, <2>1, <2>3, <3>1
  <2>4. CASE x = l /\ m = "exclusive"
    <3>0. word[l] = 0 /\ Cardinality(readers[l]) = 0 /\ Cardinality(writers[l]) = 0
      <4>1. word[l] = 0
        BY <1>2, <2>4 DEF Grantable
      <4>q. QED
        BY <1>n, <2>1, <2>4, <4>1
    <3>1. readers[l] = {} /\ writers[l] = {}
      BY <1>1, <3>0, GuardsFinite, FS_EmptySet
    <3>2. inner = "exclusive" /\ writers'[l] = {c} /\ readers'[l] = {}
      BY <1>2, <2>4, <3>1
    <3>3. word'[l] = 2 * Cardinality(readers'[l]) + Cardinality(writers'[l])
      <4>1. word'[l] = 1
        BY <1>2, <1>n, <3>0, <3>2
      <4>2. Cardinality(readers'[l]) = 0 /\ Cardinality(writers'[l]) = 1
        BY <3>2, FS_EmptySet, FS_Singleton
      <4>q. QED
        BY <4>1, <4>2
    <3>q. QED
      BY <2>4, <3>2, <3>3
  <2>q. QED
    BY <2>2, <2>3, <2>4 DEF Modes
<1>q. QED
  BY <1>4, <1>6, <1>7, <1>8 DEF LockInv

\* One context gives the guard of l back.
LEMMA ReleaseStep ==
    ASSUME LockInv, NEW c \in Ctx, NEW l \in HeldBy(c), Release(c, l),
           NEW loc \in {"restore", "idle", "sub"}, NEW k \in Calls,
           pc' = [pc EXCEPT ![c] = loc], call' = [call EXCEPT ![c] = k],
           loc = "restore" => l \in SimpleMutexes, l \in SimpleMutexes => k.lock = l,
           UNCHANGED <<use, sie, hart_lock_count, taken, old_sie>>
    PROVE  LockInv'
<1>1. TypeOK /\ CallsMatch /\ WordCovers /\ GuardsExclusive
  BY DEF LockInv
<1>2. /\ word' \in [Locks -> 0 .. MaxWord]
      /\ readers' \in [Locks -> SUBSET Ctx] /\ writers' \in [Locks -> SUBSET Ctx]
      /\ \A x \in Locks \ {l} :
            word'[x] = word[x] /\ readers'[x] = readers[x] /\ writers'[x] = writers[x]
      /\ readers'[l] = readers[l] \ {c} /\ writers'[l] = writers[l] \ {c}
      /\ word'[l] = word[l] - (IF c \in readers[l] THEN 2 ELSE 1)
      /\ Cardinality(readers'[l]) =
            IF c \in readers[l] THEN Cardinality(readers[l]) - 1 ELSE Cardinality(readers[l])
      /\ Cardinality(writers'[l]) =
            IF c \in writers[l] THEN Cardinality(writers[l]) - 1 ELSE Cardinality(writers[l])
      /\ \A d \in Ctx \ {c} : HeldBy(d)' = HeldBy(d)
  BY <1>1, Released
<1>3. pc' \in [Ctx -> Locations] /\ call' \in [Ctx -> Calls]
  BY <1>1 DEF TypeOK, Locations
<1>4. TypeOK'
  BY <1>1, <1>2, <1>3 DEF TypeOK
<1>5. ASSUME NEW d \in Ctx PROVE CallMatches(d, pc[d], call[d])'
  <2>1. CASE d = c
    <3>1. pc'[d] = loc /\ call'[d] = k
      BY <1>1, <2>1 DEF TypeOK
    <3>q. QED
      BY <3>1 DEF CallMatches, AcquiringAt
  <2>2. CASE d # c
    <3>1. pc'[d] = pc[d] /\ call'[d] = call[d] /\ HeldBy(d)' = HeldBy(d)
      BY <1>1, <1>2, <2>2 DEF TypeOK
    <3>2. CallMatches(d, pc[d], call[d])
      BY <1>1, CallsMatchIs
    <3>q. QED
      BY <3>1, <3>2 DEF CallMatches, AcquiringAt
  <2>q. QED
    BY <2>1, <2>2
<1>6. CallsMatch'
  BY <1>5 DEF CallsMatch, CallMatches, Acquiring, AcquiringAt
<1>n. /\ l \in Locks /\ c \in readers[l] \cup writers[l]
      /\ Cardinality(readers[l]) \in Nat /\ Cardinality(writers[l]) \in Nat /\ word[l] \in Nat
  BY <1>1, GuardsFinite, ConstantsOK DEF TypeOK, HeldBy
<1>7. WordCovers'
  <2>1. word[l] >= 2 * Cardinality(readers[l]) + Cardinality(writers[l])
    BY <1>1, <1>n DEF WordCovers
  <2>2. word'[l] >= 2 * Cardinality(readers'[l]) + Cardinality(writers'[l])
    <3>1. CASE c \in readers[l]
      <4>1. /\ word'[l] = word[l] - 2 /\ Cardinality(readers'[l]) = Cardinality(readers[l]) - 1
            /\ Cardinality(writers'[l]) \in {Cardinality(writers[l]), Cardinality(writers[l]) - 1}
        BY <1>2, <3>1
      <4>q. QED
        BY <1>n, <2>1, <4>1
    <3>2. CASE c \notin readers[l]
      <4>1. /\ word'[l] = word[l] - 1 /\ Cardinality(readers'[l]) = Cardinality(readers[l])
            /\ Cardinality(writers'[l]) = Cardinality(writers[l]) - 1
        BY <1>2, <1>n, <3>2
      <4>q. QED
        BY <1>n, <2>1, <4>1
    <3>q. QED
      BY <3>1, <3>2
  <2>3. ASSUME NEW x \in Locks
        PROVE  word'[x] >= 2 * Cardinality(readers'[x]) + Cardinality(writers'[x])
    <3>1. CASE x # l
      BY <1>1, <1>2, <3>1 DEF WordCovers
    <3>q. QED
      BY <2>2, <3>1
  <2>q. QED
    BY <2>3 DEF WordCovers
<1>8. GuardsExclusive'
  <2> SUFFICES ASSUME ~use.write, NEW x \in Locks
               PROVE  /\ \A w \in writers'[x] : writers'[x] = {w} /\ readers'[x] = {}
                      /\ word'[x] = 2 * Cardinality(readers'[x]) + Cardinality(writers'[x])
    BY DEF GuardsExclusive
  <2>1. /\ \A w \in writers[x] : writers[x] = {w} /\ readers[x] = {}
        /\ word[x] = 2 * Cardinality(readers[x]) + Cardinality(writers[x])
    BY <1>1 DEF GuardsExclusive
  <2>2. CASE x # l
    BY <1>2, <2>1, <2>2
  <2>3. CASE x = l
    <3>1. \A w \in writers'[x] : writers'[x] = {w} /\ readers'[x] = {}
      BY <1>2, <2>1, <2>3
    <3>2. ~(c \in readers[l] /\ c \in writers[l])
      BY <2>1, <2>3
    <3>3. word'[l] = 2 * Cardinality(readers'[l]) + Cardinality(writers'[l])
      <4>1. word[l] = 2 * Cardinality(readers[l]) + Cardinality(writers[l])
        BY <2>1, <2>3
      <4>2. CASE c \in readers[l]
        <5>1. /\ word'[l] = word[l] - 2 /\ Cardinality(readers'[l]) = Cardinality(readers[l]) - 1
              /\ Cardinality(writers'[l]) = Cardinality(writers[l])
          BY <1>2, <3>2, <4>2
        <5>q. QED
          BY <1>n, <4>1, <5>1
      <4>3. CASE c \in writers[l]
        <5>1. /\ word'[l] = word[l] - 1 /\ Cardinality(readers'[l]) = Cardinality(readers[l])
              /\ Cardinality(writers'[l]) = Cardinality(writers[l]) - 1
          BY <1>2, <3>2, <4>3
        <5>q. QED
          BY <1>n, <4>1, <5>1
      <4>q. QED
        BY <1>n, <4>2, <4>3
    <3>q. QED
      BY <2>3, <3>1, <3>3
  <2>q. QED
    BY <2>2, <2>3
<1>q. QED
  BY <1>4, <1>6, <1>7, <1>8 DEF LockInv

\* A guard of an RwLock goes from one process to another, which are in no call.
LEMMA SendStep ==
    ASSUME LockInv, NEW h \in Harts, NEW g \in Harts, NEW l \in Locks, SendGuard(h, g, l)
    PROVE  LockInv'
<1> DEFINE a == Proc(h)
           b == Proc(g)
<1>1. TypeOK /\ CallsMatch /\ WordCovers /\ GuardsExclusive
  BY DEF LockInv
<1>2. /\ a \in Ctx /\ b \in Ctx /\ a # b /\ pc[a] = "idle" /\ pc[b] = "idle"
      /\ b \notin readers[l] \cup writers[l]
      /\ UNCHANGED <<use, sie, hart_lock_count, taken, word, old_sie, pc, call>>
  BY DEF SendGuard, Proc, Ctx, HeldBy
<1>3. \/ /\ a \in readers[l] /\ readers' = [readers EXCEPT ![l] = (@ \ {a}) \cup {b}]
         /\ UNCHANGED writers
      \/ /\ a \in writers[l] /\ writers' = [writers EXCEPT ![l] = {b}]
         /\ UNCHANGED readers
  BY DEF SendGuard
<1> HIDE DEF a, b
<1>4. readers \in [Locks -> SUBSET Ctx] /\ writers \in [Locks -> SUBSET Ctx]
  BY <1>1 DEF TypeOK
<1>5. /\ readers' \in [Locks -> SUBSET Ctx] /\ writers' \in [Locks -> SUBSET Ctx]
      /\ \A x \in Locks \ {l} : readers'[x] = readers[x] /\ writers'[x] = writers[x]
      /\ \/ /\ a \in readers[l] /\ readers'[l] = (readers[l] \ {a}) \cup {b}
            /\ writers'[l] = writers[l]
         \/ /\ a \in writers[l] /\ writers'[l] = {b}
            /\ readers'[l] = readers[l]
  BY <1>2, <1>3, <1>4
<1>6. TypeOK'
  BY <1>1, <1>2, <1>5 DEF TypeOK
<1>7. \A d \in Ctx \ {a, b} : HeldBy(d)' \subseteq HeldBy(d)
  BY <1>2, <1>5 DEF HeldBy
<1>8. CallsMatch'
  BY <1>1, <1>2, <1>7 DEF CallsMatch, Acquiring
<1>9. /\ IsFiniteSet(readers[l]) /\ Cardinality(readers[l]) \in Nat
      /\ IsFiniteSet(writers[l]) /\ Cardinality(writers[l]) \in Nat
  BY <1>1, GuardsFinite
<1>10. Cardinality(readers'[l]) = Cardinality(readers[l])
  <2>1. CASE a \in readers[l] /\ readers'[l] = (readers[l] \ {a}) \cup {b}
    <3>1. /\ IsFiniteSet(readers[l] \ {a})
          /\ Cardinality(readers[l] \ {a}) = Cardinality(readers[l]) - 1
      BY <1>9, <2>1, FS_RemoveElement, Zenon
    <3>2. Cardinality((readers[l] \ {a}) \cup {b}) = Cardinality(readers[l] \ {a}) + 1
      BY <1>2, <3>1, FS_AddElement, Zenon
    <3>q. QED
      BY <1>9, <2>1, <3>1, <3>2
  <2>q. QED
    BY <1>5, <2>1
<1>11. /\ Cardinality(writers'[l]) <= Cardinality(writers[l]) /\ Cardinality(writers'[l]) \in Nat
       /\ ~use.write => Cardinality(writers'[l]) = Cardinality(writers[l])
  <2>1. CASE a \in writers[l] /\ writers'[l] = {b}
    <3>1. Cardinality(writers'[l]) = 1
      BY <2>1, FS_Singleton, Zenon
    <3>2. Cardinality(writers[l]) # 0
      BY <1>9, <2>1, FS_EmptySet
    <3>3. ~use.write => Cardinality(writers[l]) = 1
      <4>1. ~use.write => writers[l] = {a}
        BY <1>1, <2>1 DEF GuardsExclusive
      <4>q. QED
        BY <4>1, FS_Singleton
    <3>q. QED
      BY <1>9, <3>1, <3>2, <3>3
  <2>q. QED
    BY <1>5, <1>9, <2>1
<1>12. WordCovers'
  <2>1. word[l] >= 2 * Cardinality(readers[l]) + Cardinality(writers[l]) /\ word[l] \in Nat
    BY <1>1, ConstantsOK DEF WordCovers, TypeOK
  <2>2. word'[l] >= 2 * Cardinality(readers'[l]) + Cardinality(writers'[l])
    BY <1>2, <1>9, <1>10, <1>11, <2>1
  <2>3. ASSUME NEW x \in Locks
        PROVE  word'[x] >= 2 * Cardinality(readers'[x]) + Cardinality(writers'[x])
    <3>1. CASE x # l
      BY <1>1, <1>2, <1>5, <3>1 DEF WordCovers
    <3>q. QED
      BY <2>2, <3>1
  <2>q. QED
    BY <2>3 DEF WordCovers
<1>13. GuardsExclusive'
  BY <1>1, <1>2, <1>5, <1>10, <1>11 DEF GuardsExclusive
<1>q. QED
  BY <1>6, <1>8, <1>12, <1>13 DEF LockInv

LEMMA InitLockInv == Init => LockInv
<1> SUFFICES ASSUME Init PROVE LockInv
  OBVIOUS
<1>1. use \in UseType /\ N \in Nat \ {0} /\ Usize \in Nat /\ Usize > 0 /\ MaxWord \in Nat
  BY ConstantsOK DEF Init, UseType
<1>2. use.len \in 0 .. N /\ use.len \in Nat
  BY <1>1 DEF UseType
<1>3. hart_lock_count \in Seq(0 .. Usize - 1) /\ Len(hart_lock_count) <= N
  <2>1. hart_lock_count \in [1 .. use.len -> 0 .. Usize - 1]
    BY <1>1 DEF Init
  <2>2. hart_lock_count \in Seq(0 .. Usize - 1)
    BY <1>2, <2>1, SeqDef, Zenon
  <2>3. Len(hart_lock_count) \in Nat /\ 1 .. Len(hart_lock_count) = 1 .. use.len
    BY <2>1, <2>2, LenProperties
  <2>4. Len(hart_lock_count) = use.len
    BY <1>2, <2>3
  <2>q. QED
    BY <1>2, <2>2, <2>4
<1>4. TypeOK
  <2>1. pc \in [Ctx -> Locations] /\ call \in [Ctx -> Calls]
    BY NoCallIs DEF Init, Locations
  <2>2. word \in [Locks -> 0 .. MaxWord] /\ old_sie \in [SimpleMutexes -> BOOLEAN]
    BY <1>1 DEF Init
  <2>3. readers \in [Locks -> SUBSET Ctx] /\ writers \in [Locks -> SUBSET Ctx]
    BY DEF Init
  <2>q. QED
    BY <1>3, <2>1, <2>2, <2>3, Zenon DEF Init, TypeOK
<1>5. CallsMatch
  BY DEF Init, CallsMatch, Acquiring
<1>6. \A l \in Locks : word[l] = 0 /\ readers[l] = {} /\ writers[l] = {}
  BY DEF Init
<1>7. WordCovers /\ GuardsExclusive
  BY <1>6, FS_EmptySet DEF WordCovers, GuardsExclusive
<1>q. QED
  BY <1>4, <1>5, <1>7 DEF LockInv

LEMMA LockStep == LockInv /\ [Next]_vars => LockInv'
<1> SUFFICES ASSUME LockInv, [Next]_vars PROVE LockInv'
  OBVIOUS
<1> USE DEF lockVars
<1>t. TypeOK /\ CallsMatch /\ WordCovers /\ GuardsExclusive
  BY DEF LockInv
<1>1. ASSUME NEW c \in Ctx, MaskInterrupts(c) PROVE LockInv'
  <2>1. \E loc \in {"len", "idle"}, k \in Calls :
            /\ pc' = [pc EXCEPT ![c] = loc] /\ call' = [call EXCEPT ![c] = k]
            /\ CallMatches(c, loc, k)
    <3>1. CASE Goto(c, "len") /\ UNCHANGED call /\ call[c].lock \notin SimpleMutexes
      <4>1. CallMatches(c, "len", call[c])
        BY <1>1, <1>t, <3>1
        DEF MaskInterrupts, CallsMatch, CallMatches, Acquiring, AcquiringAt
      <4>q. QED
        BY <1>t, <3>1, <4>1, CallTypes DEF Goto
    <3>2. CASE Return(c)
      <4>1. CallMatches(c, "idle", NoCall)
        BY DEF CallMatches, AcquiringAt
      <4>q. QED
        BY <3>2, <4>1, NoCallIs, Zenon DEF Return, Goto
    <3>q. QED
      BY <1>1, <3>1, <3>2 DEF MaskInterrupts
  <2>2. /\ CallsMatch' /\ WordCovers' /\ GuardsExclusive'
        /\ pc' \in [Ctx -> Locations] /\ call' \in [Ctx -> Calls]
    BY <1>1, <2>1, QuietStep, Zenon DEF MaskInterrupts, Locations
  <2>q. QED
    BY <1>1, <1>t, <2>2, Zenon DEF MaskInterrupts, LockInv, TypeOK, spinVars
<1>2. ASSUME NEW c \in Ctx, ReadLen(c) PROVE LockInv'
  <2>1. \E loc \in {"add", "resize"} : pc' = [pc EXCEPT ![c] = loc] /\ CallMatches(c, loc, call[c])
    BY <1>2, <1>t, Zenon DEF ReadLen, Goto, CallsMatch, CallMatches, Acquiring, AcquiringAt
  <2>2. /\ CallsMatch' /\ WordCovers' /\ GuardsExclusive'
        /\ pc' \in [Ctx -> Locations] /\ call' \in [Ctx -> Calls]
    <3>1. UNCHANGED <<use, spinVars>> /\ call' = call
      BY <1>2 DEF ReadLen
    <3>2. call[c] \in Calls /\ call = [call EXCEPT ![c] = call[c]]
      BY <1>t, CallTypes
    <3>3. PICK loc \in Locations : pc' = [pc EXCEPT ![c] = loc] /\ CallMatches(c, loc, call[c])
      BY <2>1 DEF Locations
    <3>4. call' = [call EXCEPT ![c] = call[c]]
      BY <3>1, <3>2
    <3>q. QED
      BY <3>1, <3>2, <3>3, <3>4, QuietStep, Zenon
  <2>q. QED
    BY <1>2, <1>t, <2>2 DEF ReadLen, LockInv, TypeOK, spinVars
<1>3. ASSUME NEW c \in Ctx, Resize(c) PROVE LockInv'
  <2>1. pc' = [pc EXCEPT ![c] = "add"] /\ CallMatches(c, "add", call[c])
    BY <1>3, <1>t DEF Resize, Goto, CallsMatch, CallMatches, Acquiring, AcquiringAt
  <2>2. /\ CallsMatch' /\ WordCovers' /\ GuardsExclusive'
        /\ pc' \in [Ctx -> Locations] /\ call' \in [Ctx -> Calls]
    <3>1. UNCHANGED <<use, spinVars>> /\ call' = call
      BY <1>3 DEF Resize
    <3>2. call[c] \in Calls /\ call = [call EXCEPT ![c] = call[c]]
      BY <1>t, CallTypes
    <3>3. call' = [call EXCEPT ![c] = call[c]] /\ "add" \in Locations
      BY <3>1, <3>2 DEF Locations
    <3>q. QED
      BY <2>1, <3>1, <3>2, <3>3, QuietStep, Zenon
  <2>3. NewLen(c) \in 0 .. N
    BY HartidIs DEF NewLen, Harts
  <2>4. hart_lock_count' \in Seq(0 .. Usize - 1) /\ Len(hart_lock_count') <= N
    BY <1>3, <1>t, <2>3, Resized, ConstantsOK DEF Resize
  <2>q. QED
    BY <1>3, <1>t, <2>2, <2>4 DEF Resize, LockInv, TypeOK, spinVars
<1>4. ASSUME NEW c \in Ctx, CountUp(c) PROVE LockInv'
  <2>1. \E loc \in {"panicked", "idle", "spin"}, k \in Calls :
            /\ pc' = [pc EXCEPT ![c] = loc] /\ call' = [call EXCEPT ![c] = k]
            /\ CallMatches(c, loc, k)
    <3>1. CASE EntryMissing(c)
      <4>1. CallMatches(c, "panicked", call[c])
        BY DEF CallMatches, AcquiringAt
      <4>q. QED
        BY <1>t, <3>1, <4>1, CallTypes DEF EntryMissing, Goto
    <3>2. CASE Return(c)
      <4>1. CallMatches(c, "idle", NoCall)
        BY DEF CallMatches, AcquiringAt
      <4>q. QED
        BY <3>2, <4>1, NoCallIs, Zenon DEF Return, Goto
    <3>3. CASE ~call[c].try /\ Goto(c, "spin") /\ UNCHANGED call
      <4>1. CallMatches(c, "spin", call[c])
        BY <1>4, <1>t, <3>3 DEF CountUp, CallsMatch, CallMatches, Acquiring, AcquiringAt
      <4>q. QED
        BY <1>t, <3>3, <4>1, CallTypes DEF Goto
    <3>q. QED
      BY <1>4, <3>1, <3>2, <3>3 DEF CountUp
  <2>2. PICK loc \in {"panicked", "idle", "spin"}, k \in Calls :
            /\ pc' = [pc EXCEPT ![c] = loc] /\ call' = [call EXCEPT ![c] = k]
            /\ CallMatches(c, loc, k)
    BY <2>1, Zenon
  <2>3. loc \in Locations /\ UNCHANGED <<use, spinVars>>
    BY <1>4 DEF CountUp, Locations
  <2>4. /\ CallsMatch' /\ WordCovers' /\ GuardsExclusive'
        /\ pc' \in [Ctx -> Locations] /\ call' \in [Ctx -> Calls]
    BY <2>2, <2>3, QuietStep, Zenon
  <2>5. hart_lock_count' \in Seq(0 .. Usize - 1) /\ Len(hart_lock_count') <= N
    <3>1. CASE EntryMissing(c)
      BY <1>t, <3>1 DEF EntryMissing, TypeOK
    <3>2. CASE ~EntryMissing(c)
      BY <1>4, <1>t, <3>2, HartidIs, CountedUp DEF CountUp, TypeOK
    <3>q. QED
      BY <3>1, <3>2
  <2>q. QED
    BY <1>4, <1>t, <2>4, <2>5, Zenon DEF CountUp, LockInv, TypeOK, spinVars
<1>5. ASSUME NEW c \in Ctx, SpinAcquire(c) PROVE LockInv'
  <2> DEFINE l == call[c].lock
             m == call[c].mode
             inner == InnerMode(l, m)
  <2>1. l \in Locks /\ m \in Modes /\ inner \in Modes /\ l \notin HeldBy(c)
    BY <1>5, <1>t, CallTypes DEF SpinAcquire, CallsMatch, Acquiring, InnerMode, Modes
  <2>2. Grant(c, l, m, inner)
    BY <1>5 DEF SpinAcquire
  <2>3. ~use.write => inner = m
    BY <1>5, <1>t, <2>1 DEF SpinAcquire, CallsMatch, Acquiring, InnerMode, Modes
  <2>4. Weight(inner) >= Weight(m) /\ Weight(inner) \in {1, 2}
    BY <2>1 DEF InnerMode, Weight, Modes
  <2>5. \E loc \in {"save", "idle"}, k \in Calls :
            /\ pc' = [pc EXCEPT ![c] = loc] /\ call' = [call EXCEPT ![c] = k]
            /\ loc = "save" => k.lock \in SimpleMutexes
    <3>1. CASE call[c].lock \in SimpleMutexes /\ Goto(c, "save") /\ UNCHANGED call
      BY <1>t, <3>1, CallTypes DEF Goto
    <3>2. CASE Return(c)
      BY <3>2, NoCallIs, Zenon DEF Return, Goto
    <3>q. QED
      BY <1>5, <3>1, <3>2 DEF SpinAcquire
  <2>6. PICK loc \in {"save", "idle"}, k \in Calls :
            /\ pc' = [pc EXCEPT ![c] = loc] /\ call' = [call EXCEPT ![c] = k]
            /\ loc = "save" => k.lock \in SimpleMutexes
    BY <2>5, Zenon
  <2>7. UNCHANGED <<use, sie, hart_lock_count, taken, old_sie>>
    BY <1>5 DEF SpinAcquire
  <2>8. loc \in Locations /\ ~AcquiringAt(loc, k)
    BY DEF AcquiringAt, Locations
  <2> HIDE DEF l, m, inner
  <2>q. QED
    BY <2>1, <2>2, <2>3, <2>4, <2>6, <2>7, <2>8, GrantStep, Zenon
<1>6. ASSUME NEW c \in Ctx, CountDown(c) PROVE LockInv'
  <2>1. \E loc \in {"panicked", "idle", "unmask"} : pc' = [pc EXCEPT ![c] = loc]
    BY <1>6 DEF CountDown, EntryMissing, Goto
  <2>2. PICK loc \in {"panicked", "idle", "unmask"} : pc' = [pc EXCEPT ![c] = loc]
    BY <2>1, Zenon
  <2>3. /\ CallMatches(c, loc, call[c]) /\ loc \in Locations
        /\ UNCHANGED <<use, spinVars, call>>
    BY <1>6, <2>2 DEF CountDown, EntryMissing, CallMatches, AcquiringAt, Locations
  <2>4. /\ CallsMatch' /\ WordCovers' /\ GuardsExclusive'
        /\ pc' \in [Ctx -> Locations] /\ call' \in [Ctx -> Calls]
    BY <1>t, <2>2, <2>3, QuietStep, CallTypes, Zenon
  <2>5. hart_lock_count' \in Seq(0 .. Usize - 1) /\ Len(hart_lock_count') <= N
    <3>1. CASE EntryMissing(c)
      BY <1>t, <3>1 DEF EntryMissing, TypeOK
    <3>2. CASE ~EntryMissing(c)
      BY <1>6, <1>t, <3>2, HartidIs, CountedDown DEF CountDown, TypeOK
    <3>q. QED
      BY <3>1, <3>2
  <2>q. QED
    BY <1>6, <1>t, <2>4, <2>5 DEF CountDown, LockInv, TypeOK, spinVars
<1>7. ASSUME NEW c \in Ctx, UnmaskInterrupts(c) PROVE LockInv'
  <2>1. pc' = [pc EXCEPT ![c] = "idle"] /\ CallMatches(c, "idle", call[c])
    BY <1>7 DEF UnmaskInterrupts, Goto, CallMatches, AcquiringAt
  <2>2. /\ CallsMatch' /\ WordCovers' /\ GuardsExclusive'
        /\ pc' \in [Ctx -> Locations] /\ call' \in [Ctx -> Calls]
    BY <1>7, <1>t, <2>1, QuietStep, CallTypes, Zenon DEF UnmaskInterrupts, Locations
  <2>q. QED
    BY <1>7, <1>t, <2>2, Zenon DEF UnmaskInterrupts, LockInv, TypeOK, spinVars
<1>8. ASSUME NEW c \in Ctx, SaveSie(c) PROVE LockInv'
  <2>1. pc' = [pc EXCEPT ![c] = "mask"] /\ CallMatches(c, "mask", call[c])
    BY <1>8, <1>t DEF SaveSie, Goto, CallsMatch, CallMatches, AcquiringAt
  <2>2. /\ CallsMatch' /\ WordCovers' /\ GuardsExclusive'
        /\ pc' \in [Ctx -> Locations] /\ call' \in [Ctx -> Calls]
    BY <1>8, <1>t, <2>1, QuietStep, CallTypes, Zenon DEF SaveSie, Locations
  <2>3. old_sie' \in [SimpleMutexes -> BOOLEAN]
    BY <1>8, <1>t, HartidIs, Zenon DEF SaveSie, TypeOK
  <2>q. QED
    BY <1>8, <1>t, <2>2, <2>3 DEF SaveSie, LockInv, TypeOK, spinVars
<1>9. ASSUME NEW c \in Ctx, RestoreSie(c) PROVE LockInv'
  <2>1. /\ pc' = [pc EXCEPT ![c] = "idle"] /\ call' = [call EXCEPT ![c] = NoCall]
        /\ CallMatches(c, "idle", NoCall)
    BY <1>9 DEF RestoreSie, Return, Goto, CallMatches, AcquiringAt
  <2>2. /\ CallsMatch' /\ WordCovers' /\ GuardsExclusive'
        /\ pc' \in [Ctx -> Locations] /\ call' \in [Ctx -> Calls]
    BY <1>9, <2>1, QuietStep, NoCallIs, Zenon DEF RestoreSie, Locations
  <2>3. sie' \in [Harts -> BOOLEAN]
    BY <1>9, <1>t, Zenon DEF RestoreSie, TypeOK, CallsMatch
  <2>q. QED
    BY <1>9, <1>t, <2>2, <2>3 DEF RestoreSie, LockInv, TypeOK, spinVars
<1>10. ASSUME NEW c \in Ctx, NEW l \in Locks, NEW m \in Modes, BeginLock(c, l, m),
              l \in InterruptRwLocks /\ m = "exclusive" => use.write
       PROVE  LockInv'
  <2> DEFINE k == [lock |-> l, mode |-> m, try |-> FALSE]
  <2>1. k \in Calls /\ k.lock = l /\ k.mode = m /\ ~k.try
    BY DEF Calls, Modes
  <2>2. FirstStep(c, l) \in {"spin", "panicked", "mask"}
    BY DEF FirstStep
  <2>3. l \notin HeldBy(c)
    <3>1. l \in Nat /\ \A x \in HeldBy(c) : x < l /\ x \in Nat
      BY <1>10, ConstantsOK DEF BeginLock, MayCall, HeldBy
    <3>q. QED
      BY <3>1
  <2>4. /\ pc' = [pc EXCEPT ![c] = FirstStep(c, l)] /\ call' = [call EXCEPT ![c] = k]
        /\ UNCHANGED <<use, spinVars, sie, hart_lock_count, taken, old_sie>>
    BY <1>10 DEF BeginLock, Goto
  <2> HIDE DEF k
  <2>5. CallMatches(c, FirstStep(c, l), k)
    BY <1>10, <2>1, <2>2, <2>3 DEF CallMatches
  <2>6. /\ CallsMatch' /\ WordCovers' /\ GuardsExclusive'
        /\ pc' \in [Ctx -> Locations] /\ call' \in [Ctx -> Calls]
    BY <2>1, <2>2, <2>4, <2>5, QuietStep, Zenon DEF Locations
  <2>q. QED
    BY <1>t, <2>4, <2>6 DEF LockInv, TypeOK, spinVars
<1>11. ASSUME NEW c \in Ctx, NEW l \in Locks, NEW m \in Modes, BeginTry(c, l, m) PROVE LockInv'
  <2> DEFINE loc == AfterTry(c, l)
             k == IF loc = "idle" THEN NoCall ELSE [lock |-> l, mode |-> m, try |-> TRUE]
  <2>1. UNCHANGED <<use, sie, hart_lock_count, taken, old_sie>>
    BY <1>11 DEF BeginTry
  <2>2. CASE UNCHANGED <<pc, call, spinVars>>
    BY <1>t, <2>1, <2>2, Zenon
    DEF spinVars, LockInv, TypeOK, CallsMatch, Acquiring, HeldBy, WordCovers,
                            GuardsExclusive
  <2>3. CASE Grant(c, l, m, m) /\ Goto(c, loc) /\ call' = [call EXCEPT ![c] = k]
    <3>1. l \notin HeldBy(c)
      <4>1. l \in Nat /\ \A x \in HeldBy(c) : x < l /\ x \in Nat
        BY <1>11, ConstantsOK DEF BeginTry, MayCall, HeldBy
      <4>q. QED
        BY <4>1
    <3>2. loc \in {"save", "idle", "mask"} /\ (loc = "save" => l \in SimpleMutexes)
      BY DEF AfterTry
    <3>3. k \in Calls /\ (loc # "idle" => k.lock = l /\ k.try)
      BY NoCallIs DEF Calls, Modes
    <3>4. Weight(m) >= Weight(m) /\ pc' = [pc EXCEPT ![c] = loc]
      BY <2>3 DEF Weight, Goto
    <3> HIDE DEF loc, k
    <3>5. /\ loc \in Locations
          /\ loc \in {"save", "restore"} => k.lock \in SimpleMutexes
          /\ loc \notin {"len", "resize", "add"} /\ ~AcquiringAt(loc, k)
      BY <3>2, <3>3 DEF Locations, AcquiringAt
    <3>q. QED
      BY <2>1, <2>3, <3>1, <3>3, <3>4, <3>5, GrantStep, Zenon
  <2>q. QED
    BY <1>11, <2>2, <2>3 DEF BeginTry
<1>12. ASSUME NEW c \in Ctx, NEW l \in Locks, BeginUnlock(c, l) PROVE LockInv'
  <2>1. UNCHANGED <<use, sie, hart_lock_count, taken, old_sie>> /\ l \in HeldBy(c)
    BY <1>12 DEF BeginUnlock
  <2>2. CASE AssertFails(c, l)
    <3>1. /\ pc' = [pc EXCEPT ![c] = "panicked"] /\ CallMatches(c, "panicked", call[c])
          /\ UNCHANGED <<spinVars, call>>
      BY <1>12, <2>2 DEF BeginUnlock, Goto, CallMatches, AcquiringAt
    <3>2. /\ CallsMatch' /\ WordCovers' /\ GuardsExclusive'
          /\ pc' \in [Ctx -> Locations] /\ call' \in [Ctx -> Calls]
      BY <1>t, <2>1, <3>1, QuietStep, CallTypes, Zenon DEF Locations
    <3>q. QED
      BY <1>t, <2>1, <3>1, <3>2, Zenon DEF LockInv, TypeOK, spinVars
  <2>3. CASE ~AssertFails(c, l)
    <3> DEFINE loc == AfterUnlock(c, l)
               k == [call[c] EXCEPT !.lock = IF l \in SimpleMutexes THEN l ELSE @]
    <3>1. /\ Release(c, l) /\ pc' = [pc EXCEPT ![c] = loc]
          /\ call' = [call EXCEPT ![c] = k]
      BY <1>12, <2>3 DEF BeginUnlock, Goto
    <3>2. /\ loc \in {"restore", "idle", "sub"}
          /\ loc = "restore" <=> l \in SimpleMutexes
      BY DEF AfterUnlock
    <3>3. k \in Calls /\ (l \in SimpleMutexes => k.lock = l)
      BY <1>t, CallTypes DEF Calls
    <3> HIDE DEF loc, k
    <3>q. QED
      BY <2>1, <3>1, <3>2, <3>3, ReleaseStep, Zenon
  <2>q. QED
    BY <2>2, <2>3
<1>13. ASSUME NEW h \in Harts, NEW k \in Harts, NEW l \in Locks, SendGuard(h, k, l) PROVE LockInv'
  BY <1>13, SendStep
<1>14. ASSUME NEW h \in Harts, Interrupt(h) PROVE LockInv'
  BY <1>14, <1>t DEF Interrupt, spinVars, LockInv, TypeOK, CallsMatch, Acquiring, HeldBy, WordCovers,
                     GuardsExclusive
<1>15. ASSUME NEW h \in Harts, Resume(h) PROVE LockInv'
  BY <1>15, <1>t DEF Resume, spinVars, LockInv, TypeOK, CallsMatch, Acquiring, HeldBy, WordCovers,
                     GuardsExclusive
<1>16. CASE UNCHANGED vars
  BY <1>16, <1>t DEF vars, LockInv, TypeOK, CallsMatch, Acquiring, HeldBy, WordCovers,
                     GuardsExclusive
<1>17. CASE \E c \in Ctx : Continue(c)
  BY <1>17, <1>1, <1>2, <1>3, <1>4, <1>5, <1>6, <1>7, <1>8, <1>9 DEF Continue
<1>18. CASE \E c \in Ctx, l \in Locks : Call(c, l) \/ Drop(c, l)
  BY <1>18, <1>10, <1>11, <1>12, CallIs, DropIs
<1>q. QED
  BY <1>13, <1>14, <1>15, <1>16, <1>17, <1>18 DEF Next

LEMMA LockInvHolds == Spec => []LockInv
BY InitLockInv, LockStep, PTL DEF Spec

\* The locks of kernel_lock on any number of harts: an exclusive guard excludes
\* all others and the word of the spinlock counts them, in processes and interrupt
\* contexts, nested, tried, sent and with calls that panicked half way, unless
\* lock_exclusive of interrupt::RwLock is called.
THEOREM GuardsAreExclusive == Spec => []GuardsExclusive
<1>1. LockInv => GuardsExclusive
  BY DEF LockInv
<1>q. QED
  BY <1>1, LockInvHolds, PTL

-----------------------------------------------------------------------------
(* HART_LOCK_COUNT.  The invariants are stated of what a step changes: the *)
(* location loc of a context, its call k and the set `held` of its locks.  *)

\* What a call has done so far, and how many guards its context may still get.
CountsAt(c, loc, k, held) ==
    /\ held \subseteq use.locks /\ Cardinality(held) <= use.held
    /\ AcquiringAt(loc, k) \/ loc \in {"sub", "unmask", "restore"} => Cardinality(held) < use.held
    /\ AcquiringAt(loc, k) \/ loc = "restore" => k.lock \in use.locks
    /\ loc \in {"len", "resize", "add"} => k.lock \in CountingLocks
    /\ loc = "mask" => k.lock \in CountingLocks \cup SimpleMutexes
    /\ loc \in {"len", "resize", "add", "sub", "unmask"} => c[2] = "proc"
    /\ loc = "mask" /\ k.lock \in CountingLocks => c[2] = "proc"
    /\ (\/ loc \in {"mask", "len", "resize", "add"} /\ k.try
        \/ loc = "save"
        \/ loc = "mask" /\ k.lock \in SimpleMutexes) => k.lock \in held

\* Every hart but the last has its entry, which nobody takes away.
EntriesMade ==
    /\ Len(hart_lock_count) >= N - 1
    /\ \A c \in Ctx :
          /\ pc[c] = "resize" => c[1] >= Len(hart_lock_count)
          /\ pc[c] = "add" => c[1] < Len(hart_lock_count)

AccountedAt(loc, k, held) ==
    LET n == Cardinality(held \cap CountingLocks) IN
    IF loc = "sub" \/ (loc = "spin" /\ k.lock \in CountingLocks) THEN n + 1
    ELSE IF loc \in {"mask", "len", "resize", "add"} /\ k.try /\ k.lock \in CountingLocks THEN n - 1
    ELSE n

CountInv ==
    /\ \A c \in Ctx : CountsAt(c, pc[c], call[c], HeldBy(c))
    /\ EntriesMade
    /\ \A h \in Harts : Count(h) = Accounted(h)

-----------------------------------------------------------------------------
(* Counting locks.                                                         *)

LEMMA HeldIs ==
    ASSUME NEW c
    PROVE  HeldBy(c) \subseteq Locks
BY DEF HeldBy

LEMMA LocksFinite ==
    ASSUME NEW held \in SUBSET Locks
    PROVE  /\ IsFiniteSet(held) /\ Cardinality(held) \in Nat
           /\ IsFiniteSet(held \cap CountingLocks) /\ Cardinality(held \cap CountingLocks) \in Nat
           /\ Cardinality(held \cap CountingLocks) <= Cardinality(held)
<1>1. IsFiniteSet(held)
  BY ConstantsOK, FS_Subset, Zenon
<1>2. held \cap CountingLocks \in SUBSET held
  OBVIOUS
<1>q. QED
  BY <1>1, <1>2, FS_Subset, FS_CardinalityType

LEMMA HeldPlus ==
    ASSUME NEW held \in SUBSET Locks, NEW l \in Locks \ held
    PROVE  /\ Cardinality(held \cup {l}) = Cardinality(held) + 1
           /\ Cardinality((held \cup {l}) \cap CountingLocks) =
                Cardinality(held \cap CountingLocks) + (IF l \in CountingLocks THEN 1 ELSE 0)
<1>1. Cardinality(held \cup {l}) = Cardinality(held) + 1
  BY LocksFinite, FS_AddElement, Zenon
<1>2. CASE l \in CountingLocks
  <2>1. (held \cup {l}) \cap CountingLocks = (held \cap CountingLocks) \cup {l}
    BY <1>2
  <2>2. Cardinality((held \cap CountingLocks) \cup {l}) = Cardinality(held \cap CountingLocks) + 1
    BY LocksFinite, FS_AddElement, Zenon
  <2>q. QED
    BY <1>1, <1>2, <2>1, <2>2
<1>3. CASE l \notin CountingLocks
  <2>1. (held \cup {l}) \cap CountingLocks = held \cap CountingLocks
    BY <1>3
  <2>q. QED
    BY <1>1, <1>3, <2>1, LocksFinite
<1>q. QED
  BY <1>2, <1>3

LEMMA HeldMinus ==
    ASSUME NEW held \in SUBSET Locks, NEW l \in held
    PROVE  /\ Cardinality(held \ {l}) = Cardinality(held) - 1
           /\ Cardinality((held \ {l}) \cap CountingLocks) =
                Cardinality(held \cap CountingLocks) - (IF l \in CountingLocks THEN 1 ELSE 0)
<1>1. Cardinality(held \ {l}) = Cardinality(held) - 1
  BY LocksFinite, FS_RemoveElement, Zenon
<1>2. CASE l \in CountingLocks
  <2>1. (held \ {l}) \cap CountingLocks = (held \cap CountingLocks) \ {l}
    BY <1>2
  <2>2. Cardinality((held \cap CountingLocks) \ {l}) = Cardinality(held \cap CountingLocks) - 1
    BY <1>2, LocksFinite, FS_RemoveElement
  <2>q. QED
    BY <1>1, <1>2, <2>1, <2>2
<1>3. CASE l \notin CountingLocks
  <2>1. (held \ {l}) \cap CountingLocks = held \cap CountingLocks
    BY <1>3
  <2>q. QED
    BY <1>1, <1>3, <2>1, LocksFinite
<1>q. QED
  BY <1>2, <1>3

LEMMA AccountedIs ==
    ASSUME NEW h \in Harts
    PROVE  /\ Accounted(h) = AccountedAt(pc[Proc(h)], call[Proc(h)], HeldBy(Proc(h)))
           /\ Proc(h) \in Ctx /\ Intr(h) \in Ctx /\ Proc(h) # Intr(h)
           /\ Proc(h)[1] = h /\ Proc(h)[2] = "proc" /\ Intr(h)[1] = h /\ Intr(h)[2] = "intr"
<1>1. Accounted(h) = AccountedAt(pc[Proc(h)], call[Proc(h)], HeldBy(Proc(h)))
  BY DEF Accounted, AccountedAt
<1>q. QED
  BY <1>1 DEF Proc, Intr, Ctx

LEMMA AccountedNext ==
    ASSUME NEW h \in Harts
    PROVE  Accounted(h)' = AccountedAt(pc'[Proc(h)], call'[Proc(h)], HeldBy(Proc(h))')
BY DEF Accounted, AccountedAt, Proc

\* A context is the process or the interrupt context of its hart.
LEMMA CtxIs ==
    ASSUME NEW c \in Ctx
    PROVE  /\ c[1] \in Harts
           /\ c[2] = "proc" => c = Proc(c[1])
           /\ c[2] # "proc" => c = Intr(c[1])
BY DEF Ctx, Proc, Intr

-----------------------------------------------------------------------------
(* HART_LOCK_COUNT matches the guards.                                     *)

\* One context goes on; what is to be shown of it, and of its hart.
LEMMA ContextStep ==
    ASSUME TypeOK, CountInv, UNCHANGED use, NEW c \in Ctx, NEW loc \in Locations, NEW k \in Calls,
           NEW held \in SUBSET Locks,
           pc' = [pc EXCEPT ![c] = loc], call' = [call EXCEPT ![c] = k], HeldBy(c)' = held,
           \A d \in Ctx \ {c} : HeldBy(d)' = HeldBy(d),
           CountsAt(c, loc, k, held)
    PROVE  /\ \A d \in Ctx : CountsAt(d, pc[d], call[d], HeldBy(d))'
           /\ \A h \in Harts : Proc(h) # c => Accounted(h)' = Accounted(h)
           /\ \A h \in Harts : Proc(h) = c => Accounted(h)' = AccountedAt(loc, k, held)
           /\ \A d \in Ctx : pc'[d] = IF d = c THEN loc ELSE pc[d]
<1>1. \A d \in Ctx : /\ pc'[d] = IF d = c THEN loc ELSE pc[d]
                     /\ call'[d] = IF d = c THEN k ELSE call[d]
  BY DEF TypeOK
<1>2. ASSUME NEW d \in Ctx PROVE CountsAt(d, pc[d], call[d], HeldBy(d))'
  <2>1. CASE d = c
    <3>1. pc'[d] = loc /\ call'[d] = k /\ HeldBy(d)' = held
      BY <1>1, <2>1
    <3>q. QED
      BY <2>1, <3>1 DEF CountsAt, AcquiringAt
  <2>2. CASE d # c
    <3>1. pc'[d] = pc[d] /\ call'[d] = call[d] /\ HeldBy(d)' = HeldBy(d)
      BY <1>1, <2>2
    <3>2. CountsAt(d, pc[d], call[d], HeldBy(d))
      BY DEF CountInv
    <3>q. QED
      BY <3>1, <3>2 DEF CountsAt, AcquiringAt
  <2>q. QED
    BY <2>1, <2>2
<1>3. ASSUME NEW h \in Harts, Proc(h) # c PROVE Accounted(h)' = Accounted(h)
  <2>1. /\ pc'[Proc(h)] = pc[Proc(h)] /\ call'[Proc(h)] = call[Proc(h)]
        /\ HeldBy(Proc(h))' = HeldBy(Proc(h))
    <3>1. Proc(h) \in Ctx \ {c}
      BY <1>3, AccountedIs
    <3>2. PICK d \in Ctx \ {c} : d = Proc(h)
      BY <3>1, Zenon
    <3>3. pc'[d] = pc[d] /\ call'[d] = call[d] /\ HeldBy(d)' = HeldBy(d)
      BY <1>1, <3>2
    <3>4. HeldBy(Proc(h))' = HeldBy(d)'
      BY <3>2 DEF Proc, HeldBy
    <3>q. QED
      BY <3>2, <3>3, <3>4
  <2>2. Accounted(h) = AccountedAt(pc[Proc(h)], call[Proc(h)], HeldBy(Proc(h)))
    BY AccountedIs, Zenon
  <2>3. Accounted(h)' = AccountedAt(pc'[Proc(h)], call'[Proc(h)], HeldBy(Proc(h))')
    BY AccountedNext, Zenon
  <2>q. QED
    BY <2>1, <2>2, <2>3
<1>4. ASSUME NEW h \in Harts, Proc(h) = c PROVE Accounted(h)' = AccountedAt(loc, k, held)
  <2>1. pc'[Proc(h)] = loc /\ call'[Proc(h)] = k /\ HeldBy(Proc(h))' = held
    BY <1>1, <1>4 DEF Proc
  <2>q. QED
    BY <2>1, AccountedNext
<1>q. QED
  BY <1>1, <1>2, <1>3, <1>4

\* The same with HART_LOCK_COUNT as it was.
LEMMA UncountedStep ==
    ASSUME TypeOK, CountInv, UNCHANGED <<use, hart_lock_count>>,
           NEW c \in Ctx, NEW loc \in Locations, NEW k \in Calls, NEW held \in SUBSET Locks,
           pc' = [pc EXCEPT ![c] = loc], call' = [call EXCEPT ![c] = k], HeldBy(c)' = held,
           \A d \in Ctx \ {c} : HeldBy(d)' = HeldBy(d),
           CountsAt(c, loc, k, held),
           c[2] = "proc" => AccountedAt(loc, k, held) = AccountedAt(pc[c], call[c], HeldBy(c)),
           loc = "resize" => c[1] >= Len(hart_lock_count),
           loc = "add" => c[1] < Len(hart_lock_count)
    PROVE  CountInv'
<1>1. /\ \A d \in Ctx : CountsAt(d, pc[d], call[d], HeldBy(d))'
      /\ \A h \in Harts : Proc(h) # c => Accounted(h)' = Accounted(h)
      /\ \A h \in Harts : Proc(h) = c => Accounted(h)' = AccountedAt(loc, k, held)
      /\ \A d \in Ctx : pc'[d] = IF d = c THEN loc ELSE pc[d]
  BY ContextStep, ZenonT(40)
<1>2. ASSUME NEW h \in Harts PROVE Count(h)' = Accounted(h)'
  <2>1. Count(h)' = Count(h) /\ Count(h) = Accounted(h)
    BY DEF Count, CountInv
  <2>2. CASE Proc(h) = c
    <3>1. Accounted(h) = AccountedAt(pc[c], call[c], HeldBy(c)) /\ c[2] = "proc"
      BY <2>2, AccountedIs
    <3>q. QED
      BY <1>1, <2>1, <2>2, <3>1
  <2>q. QED
    BY <1>1, <2>1, <2>2
<1>3. EntriesMade'
  BY <1>1 DEF CountInv, EntriesMade
<1>q. QED
  BY <1>1, <1>2, <1>3 DEF CountInv

LEMMA KindsApart ==
    /\ CountingLocks \cap SimpleMutexes = {} /\ CountingLocks \cap InterruptLocks = {}
    /\ SimpleMutexes \cap InterruptLocks = {}
    /\ Locks = CountingLocks \cup SimpleMutexes \cup InterruptLocks
BY ConstantsOK DEF Locks

LEMMA RegularIs ==
    ASSUME Regular, TypeOK
    PROVE  /\ ~use.send /\ \A c \in Ctx : LoadHartid(c) = c[1]
           /\ use.held \in Nat \ {0} /\ N \in Nat \ {0} /\ use.len >= N - 1
           /\ Len(hart_lock_count) \in Nat /\ Len(hart_lock_count) <= N
           /\ \A c \in Ctx : c[1] \in 0 .. N - 1
<1>1. ~use.send /\ use.len >= N - 1 /\ \A c \in Ctx : LoadHartid(c) = c[1]
  BY DEF Regular, LoadHartid
<1>2. use.held \in Nat \ {0} /\ N \in Nat \ {0}
  BY UsizeIs, ConstantsOK
<1>3. Len(hart_lock_count) \in Nat /\ Len(hart_lock_count) <= N
  BY LenProperties DEF TypeOK
<1>4. \A c \in Ctx : c[1] \in 0 .. N - 1
  BY HartidIs DEF Harts
<1>q. QED
  BY <1>1, <1>2, <1>3, <1>4

LEMMA SameGuards ==
    ASSUME UNCHANGED spinVars
    PROVE  \A d : HeldBy(d)' = HeldBy(d)
BY DEF spinVars, HeldBy

\* No context that is in a call for a lock has it, in the terms of MayCall.
LEMMA CalledIsFree ==
    ASSUME NEW c \in Ctx, NEW l \in Locks, MayCall(c, l)
    PROVE  l \notin HeldBy(c) /\ l \in use.locks /\ Cardinality(HeldBy(c)) < use.held
           /\ pc[c] = "idle" /\ Runs(c)
<1>1. l \in Nat /\ \A x \in HeldBy(c) : x < l /\ x \in Nat
  BY ConstantsOK DEF MayCall, HeldBy
<1>q. QED
  BY <1>1 DEF MayCall

\* The steps that change neither the guards nor the count.
LEMMA CallGoesOn ==
    ASSUME LockInv, CountInv, UNCHANGED <<use, hart_lock_count, spinVars>>,
           NEW c \in Ctx, NEW loc \in Locations, NEW k \in Calls,
           pc' = [pc EXCEPT ![c] = loc], call' = [call EXCEPT ![c] = k],
           CountsAt(c, loc, k, HeldBy(c)),
           AccountedAt(loc, k, HeldBy(c)) = AccountedAt(pc[c], call[c], HeldBy(c)),
           loc = "resize" => c[1] >= Len(hart_lock_count),
           loc = "add" => c[1] < Len(hart_lock_count)
    PROVE  CountInv'
<1>1. /\ HeldBy(c) \in SUBSET Locks /\ HeldBy(c)' = HeldBy(c)
      /\ \A d \in Ctx \ {c} : HeldBy(d)' = HeldBy(d)
  BY SameGuards, HeldIs
<1>q. QED
  BY <1>1, UncountedStep, Zenon DEF LockInv

LEMMA CountContinues ==
    ASSUME LockInv, Regular, CountInv, NEW c \in Ctx,
           \/ MaskInterrupts(c) \/ ReadLen(c) \/ UnmaskInterrupts(c) \/ SaveSie(c) \/ RestoreSie(c)
    PROVE  CountInv'
<1> USE DEF lockVars
<1>t. TypeOK /\ CallsMatch /\ call[c] \in Calls /\ call = [call EXCEPT ![c] = call[c]]
  BY CallTypes DEF LockInv
<1>c. CountsAt(c, pc[c], call[c], HeldBy(c))
  BY DEF CountInv
<1>1. CASE MaskInterrupts(c) /\ call[c].lock \notin SimpleMutexes
  <2>1. /\ pc[c] = "mask" /\ pc' = [pc EXCEPT ![c] = "len"] /\ UNCHANGED call
        /\ UNCHANGED <<use, hart_lock_count, spinVars>>
    BY <1>1 DEF MaskInterrupts, Goto
  <2>2. CountsAt(c, "len", call[c], HeldBy(c))
    BY <1>1, <1>c, <2>1 DEF CountsAt, AcquiringAt
  <2>3. AccountedAt("len", call[c], HeldBy(c)) = AccountedAt(pc[c], call[c], HeldBy(c))
    BY <2>1 DEF AccountedAt
  <2>q. QED
    BY <1>t, <2>1, <2>2, <2>3, CallGoesOn, Zenon DEF Locations
<1>2. CASE MaskInterrupts(c) /\ call[c].lock \in SimpleMutexes
  <2>1. /\ pc[c] = "mask" /\ pc' = [pc EXCEPT ![c] = "idle"] /\ call' = [call EXCEPT ![c] = NoCall]
        /\ UNCHANGED <<use, hart_lock_count, spinVars>>
    BY <1>2 DEF MaskInterrupts, Goto, Return
  <2>2. CountsAt(c, "idle", NoCall, HeldBy(c))
    BY <1>c DEF CountsAt, AcquiringAt
  <2>3. AccountedAt("idle", NoCall, HeldBy(c)) = AccountedAt(pc[c], call[c], HeldBy(c))
    BY <1>2, <2>1, KindsApart DEF AccountedAt
  <2>q. QED
    BY <2>1, <2>2, <2>3, CallGoesOn, NoCallIs, Zenon DEF Locations
<1>3. CASE ReadLen(c)
  <2>1. PICK loc \in {"add", "resize"} : pc' = [pc EXCEPT ![c] = loc]
                /\ loc = IF LoadHartid(c) < Len(hart_lock_count) THEN "add" ELSE "resize"
    BY <1>3, Zenon DEF ReadLen, Goto
  <2>2. pc[c] = "len" /\ UNCHANGED <<use, hart_lock_count, spinVars, call>>
    BY <1>3 DEF ReadLen
  <2>3. CountsAt(c, loc, call[c], HeldBy(c))
    BY <1>c, <2>2 DEF CountsAt, AcquiringAt
  <2>4. AccountedAt(loc, call[c], HeldBy(c)) = AccountedAt(pc[c], call[c], HeldBy(c))
    BY <2>2 DEF AccountedAt
  <2>5. /\ loc = "resize" => c[1] >= Len(hart_lock_count)
        /\ loc = "add" => c[1] < Len(hart_lock_count)
        /\ loc \in Locations
    BY <1>t, <2>1, RegularIs DEF Locations
  <2>q. QED
    BY <1>t, <2>1, <2>2, <2>3, <2>4, <2>5, CallGoesOn, Zenon
<1>4. CASE UnmaskInterrupts(c)
  <2>1. /\ pc[c] = "unmask" /\ pc' = [pc EXCEPT ![c] = "idle"]
        /\ UNCHANGED <<use, hart_lock_count, spinVars, call>>
    BY <1>4 DEF UnmaskInterrupts, Goto
  <2>2. CountsAt(c, "idle", call[c], HeldBy(c))
    BY <1>c DEF CountsAt, AcquiringAt
  <2>3. AccountedAt("idle", call[c], HeldBy(c)) = AccountedAt(pc[c], call[c], HeldBy(c))
    BY <2>1 DEF AccountedAt
  <2>q. QED
    BY <1>t, <2>1, <2>2, <2>3, CallGoesOn, Zenon DEF Locations
<1>5. CASE SaveSie(c)
  <2>1. /\ pc[c] = "save" /\ pc' = [pc EXCEPT ![c] = "mask"]
        /\ UNCHANGED <<use, hart_lock_count, spinVars, call>>
    BY <1>5 DEF SaveSie, Goto
  <2>2. call[c].lock \in SimpleMutexes /\ call[c].lock \notin CountingLocks
    BY <1>t, <2>1, KindsApart DEF CallsMatch
  <2>3. CountsAt(c, "mask", call[c], HeldBy(c))
    BY <1>c, <2>1, <2>2 DEF CountsAt, AcquiringAt
  <2>4. AccountedAt("mask", call[c], HeldBy(c)) = AccountedAt(pc[c], call[c], HeldBy(c))
    BY <2>1, <2>2 DEF AccountedAt
  <2>q. QED
    BY <1>t, <2>1, <2>3, <2>4, CallGoesOn, Zenon DEF Locations
<1>6. CASE RestoreSie(c)
  <2>1. /\ pc[c] = "restore" /\ pc' = [pc EXCEPT ![c] = "idle"]
        /\ call' = [call EXCEPT ![c] = NoCall] /\ UNCHANGED <<use, hart_lock_count, spinVars>>
    BY <1>6 DEF RestoreSie, Goto, Return
  <2>2. CountsAt(c, "idle", NoCall, HeldBy(c))
    BY <1>c DEF CountsAt, AcquiringAt
  <2>3. AccountedAt("idle", NoCall, HeldBy(c)) = AccountedAt(pc[c], call[c], HeldBy(c))
    BY <2>1 DEF AccountedAt
  <2>q. QED
    BY <2>1, <2>2, <2>3, CallGoesOn, NoCallIs, Zenon DEF Locations
<1>q. QED
  BY <1>1, <1>2, <1>3, <1>4, <1>5, <1>6

LEMMA CountResizes ==
    ASSUME LockInv, Regular, CountInv, NEW c \in Ctx, Resize(c)
    PROVE  CountInv'
<1> USE DEF lockVars
<1>t. TypeOK /\ call[c] \in Calls /\ call = [call EXCEPT ![c] = call[c]]
  BY CallTypes DEF LockInv
<1>c. CountsAt(c, pc[c], call[c], HeldBy(c)) /\ EntriesMade
  BY DEF CountInv
<1>1. /\ pc[c] = "resize" /\ pc' = [pc EXCEPT ![c] = "add"]
      /\ UNCHANGED <<use, spinVars, call>>
      /\ hart_lock_count' = ResizeWith(hart_lock_count, NewLen(c))
  BY DEF Resize, Goto
<1>2. c[1] = N - 1 /\ Len(hart_lock_count) = N - 1 /\ NewLen(c) = N /\ c[2] = "proc"
  BY <1>t, <1>c, <1>1, RegularIs DEF EntriesMade, NewLen, CountsAt
<1>3. /\ Len(hart_lock_count') = N
      /\ \A i \in 1 .. N :
            hart_lock_count'[i] = IF i <= Len(hart_lock_count) THEN hart_lock_count[i] ELSE 0
  BY <1>t, <1>1, <1>2, Resized, ConstantsOK
<1>4. \A h \in Harts : Count(h)' = Count(h)
  <2>1. ASSUME NEW h \in Harts PROVE Count(h)' = Count(h)
    <3>1. h \in 0 .. N - 1 /\ h + 1 \in 1 .. N /\ N \in Nat /\ h < N
      BY ConstantsOK DEF Harts
    <3>2. h + 1 <= Len(hart_lock_count) <=> h < Len(hart_lock_count)
      BY <1>2, <3>1
    <3>q. QED
      BY <1>2, <1>3, <3>1, <3>2 DEF Count
  <2>q. QED
    BY <2>1
<1>5. CountsAt(c, "add", call[c], HeldBy(c))
  BY <1>c, <1>1 DEF CountsAt, AcquiringAt
<1>6. AccountedAt("add", call[c], HeldBy(c)) = AccountedAt(pc[c], call[c], HeldBy(c))
  BY <1>1 DEF AccountedAt
<1>7. /\ HeldBy(c) \in SUBSET Locks /\ HeldBy(c)' = HeldBy(c)
      /\ \A d \in Ctx \ {c} : HeldBy(d)' = HeldBy(d)
  BY <1>1, SameGuards, HeldIs
<1>8. /\ \A d \in Ctx : CountsAt(d, pc[d], call[d], HeldBy(d))'
      /\ \A h \in Harts : Proc(h) # c => Accounted(h)' = Accounted(h)
      /\ \A h \in Harts : Proc(h) = c => Accounted(h)' = AccountedAt("add", call[c], HeldBy(c))
      /\ \A d \in Ctx : pc'[d] = IF d = c THEN "add" ELSE pc[d]
  <2>1. call' = [call EXCEPT ![c] = call[c]] /\ "add" \in Locations /\ UNCHANGED use
    BY <1>t, <1>1 DEF Locations
  <2>q. QED
    BY <1>t, <1>1, <1>5, <1>7, <2>1, ContextStep, ZenonT(40)
<1>9. ASSUME NEW h \in Harts PROVE Count(h)' = Accounted(h)'
  <2>1. Count(h)' = Count(h) /\ Count(h) = Accounted(h)
    BY <1>4 DEF CountInv
  <2>2. Proc(h) = c => Accounted(h) = AccountedAt(pc[c], call[c], HeldBy(c))
    BY AccountedIs
  <2>q. QED
    BY <1>6, <1>8, <2>1, <2>2
<1>10. EntriesMade'
  <2>1. ASSUME NEW d \in Ctx, pc[d] = "resize" PROVE d = c
    <3>1. d[1] = N - 1
      <4>1. d[1] >= N - 1
        BY <1>c, <1>2, <2>1 DEF EntriesMade
      <4>2. N \in Nat /\ d[1] \in 0 .. N - 1
        BY <1>t, RegularIs
      <4>q. QED
        BY <4>1, <4>2
    <3>2. d[2] = "proc"
      <4>1. CountsAt(d, "resize", call[d], HeldBy(d))
        BY <2>1 DEF CountInv
      <4>q. QED
        BY <4>1 DEF CountsAt
    <3>q. QED
      BY <1>2, <3>1, <3>2, CtxIs
  <2>2. \A d \in Ctx : d[1] < N /\ N >= N - 1
    BY <1>t, RegularIs
  <2>3. \A d \in Ctx : pc'[d] # "resize"
    BY <1>8, <2>1
  <2>q. QED
    BY <1>3, <2>2, <2>3 DEF EntriesMade
<1>q. QED
  BY <1>8, <1>9, <1>10 DEF CountInv

LEMMA CountGoesUp ==
    ASSUME LockInv, Regular, CountInv, NEW c \in Ctx, CountUp(c)
    PROVE  CountInv'
<1> USE DEF lockVars
<1> DEFINE h == c[1]
           held == HeldBy(c)
           n == Cardinality(held \cap CountingLocks)
<1>t. TypeOK /\ call[c] \in Calls /\ call = [call EXCEPT ![c] = call[c]] /\ call[c].try \in BOOLEAN
  BY CallTypes DEF LockInv
<1>c. CountsAt(c, pc[c], call[c], held) /\ EntriesMade
  BY DEF CountInv
<1>1. pc[c] = "add" /\ UNCHANGED <<use, spinVars>>
  BY DEF CountUp
<1>2. /\ call[c].lock \in CountingLocks /\ c[2] = "proc" /\ c = Proc(h) /\ h \in Harts
      /\ h < Len(hart_lock_count) /\ LoadHartid(c) = h
  BY <1>t, <1>c, <1>1, RegularIs, CtxIs DEF CountsAt, EntriesMade
<1>3. hart_lock_count' = [hart_lock_count EXCEPT ![h + 1] = (@ + 1) % Usize]
  BY <1>t, <1>2, RegularIs DEF CountUp, EntryMissing
<1>4. /\ Len(hart_lock_count') = Len(hart_lock_count)
      /\ Count(h) + 1 < Usize => Count(h)' = Count(h) + 1
      /\ \A x \in Harts \ {h} : Count(x)' = Count(x)
  BY <1>t, <1>2, <1>3, CountedUp, Zenon
<1>5. /\ held \in SUBSET Locks /\ n \in Nat /\ n <= Cardinality(held) /\ Cardinality(held) \in Nat
      /\ HeldBy(c)' = held /\ \A d \in Ctx \ {c} : HeldBy(d)' = HeldBy(d)
  <2>1. held \in SUBSET Locks
    BY HeldIs
  <2>2. n \in Nat /\ n <= Cardinality(held) /\ Cardinality(held) \in Nat
    BY <2>1, LocksFinite, Zenon
  <2>3. \A d : HeldBy(d)' = HeldBy(d)
    BY <1>1, SameGuards
  <2>q. QED
    BY <2>1, <2>2, <2>3, Zenon
<1>6. Count(h) = AccountedAt("add", call[c], held)
  <2>1. Accounted(h) = AccountedAt(pc[Proc(h)], call[Proc(h)], HeldBy(Proc(h)))
    BY <1>2, AccountedIs, Zenon
  <2>2. Count(h) = Accounted(h)
    BY <1>2 DEF CountInv
  <2>q. QED
    BY <1>1, <1>2, <2>1, <2>2, Zenon
<1>7. Usize > use.held + 1 /\ use.held \in Nat /\ Usize \in Nat
  BY <1>t, UsizeIs
<1>8. CASE call[c].try
  <2>1. pc' = [pc EXCEPT ![c] = "idle"] /\ call' = [call EXCEPT ![c] = NoCall]
    BY <1>t, <1>2, <1>8, RegularIs DEF CountUp, EntryMissing, Return, Goto
  <2>2. CountsAt(c, "idle", NoCall, held)
    BY <1>c DEF CountsAt, AcquiringAt
  <2>3. Count(h) = n - 1 /\ AccountedAt("idle", NoCall, held) = n
    BY <1>2, <1>6, <1>8 DEF AccountedAt
  <2>4. Count(h)' = n
    <3>1. n \in Nat /\ n <= Cardinality(held) /\ Cardinality(held) \in Nat
      BY <1>5, Zenon
    <3>2. Cardinality(held) <= use.held
      BY <1>c DEF CountsAt
    <3>3. (n - 1) + 1 < Usize /\ (n - 1) + 1 = n
      BY <1>7, <3>1, <3>2
    <3>4. Count(h)' = Count(h) + 1
      BY <1>4, <2>3, <3>3, Zenon
    <3>q. QED
      BY <2>3, <3>3, <3>4, Zenon
  <2>5. /\ \A d \in Ctx : CountsAt(d, pc[d], call[d], HeldBy(d))'
        /\ \A x \in Harts : Proc(x) # c => Accounted(x)' = Accounted(x)
        /\ \A x \in Harts : Proc(x) = c => Accounted(x)' = AccountedAt("idle", NoCall, held)
        /\ \A d \in Ctx : pc'[d] = IF d = c THEN "idle" ELSE pc[d]
    BY <1>t, <1>1, <1>5, <2>1, <2>2, NoCallIs, ContextStep, Zenon DEF Locations
  <2>6. ASSUME NEW x \in Harts PROVE Count(x)' = Accounted(x)'
    <3>1. CASE x = h
      BY <1>2, <2>3, <2>4, <2>5, <3>1
    <3>2. CASE x # h
      <4>1. Proc(x)[1] = x /\ c[1] = h
        BY <1>2, AccountedIs
      <4>2. Proc(x) # c
        BY <3>2, <4>1
      <4>3. Count(x) = Accounted(x) /\ Count(x)' = Count(x)
        BY <1>4, <3>2 DEF CountInv
      <4>4. Accounted(x)' = Accounted(x)
        BY <2>5, <4>2
      <4>q. QED
        BY <4>3, <4>4
    <3>q. QED
      BY <3>1, <3>2
  <2>7. EntriesMade'
    BY <1>c, <1>4, <2>5 DEF EntriesMade
  <2>q. QED
    BY <2>5, <2>6, <2>7 DEF CountInv
<1>9. CASE ~call[c].try
  <2>1. pc' = [pc EXCEPT ![c] = "spin"] /\ UNCHANGED call
    BY <1>t, <1>2, <1>9, RegularIs DEF CountUp, EntryMissing, Goto
  <2>2. CountsAt(c, "spin", call[c], held) /\ Cardinality(held) < use.held
    BY <1>c, <1>1, <1>2, <1>9, KindsApart DEF CountsAt, AcquiringAt
  <2>3. Count(h) = n /\ AccountedAt("spin", call[c], held) = n + 1
    BY <1>2, <1>6, <1>9 DEF AccountedAt
  <2>4. Count(h)' = n + 1
    <3>1. n \in Nat /\ n <= Cardinality(held) /\ Cardinality(held) \in Nat
      BY <1>5, Zenon
    <3>2. Cardinality(held) < use.held
      BY <2>2, Zenon
    <3>3. n + 1 < Usize
      BY <1>7, <3>1, <3>2
    <3>4. Count(h)' = Count(h) + 1
      BY <1>4, <2>3, <3>3, Zenon
    <3>q. QED
      BY <2>3, <3>4, Zenon
  <2>5. /\ \A d \in Ctx : CountsAt(d, pc[d], call[d], HeldBy(d))'
        /\ \A x \in Harts : Proc(x) # c => Accounted(x)' = Accounted(x)
        /\ \A x \in Harts : Proc(x) = c => Accounted(x)' = AccountedAt("spin", call[c], held)
        /\ \A d \in Ctx : pc'[d] = IF d = c THEN "spin" ELSE pc[d]
    <3>1. call' = [call EXCEPT ![c] = call[c]] /\ "spin" \in Locations /\ UNCHANGED use
      BY <1>t, <1>1, <2>1 DEF Locations
    <3>q. QED
      BY <1>t, <1>5, <2>1, <2>2, <3>1, ContextStep, ZenonT(40)
  <2>6. ASSUME NEW x \in Harts PROVE Count(x)' = Accounted(x)'
    <3>1. CASE x = h
      BY <1>2, <2>3, <2>4, <2>5, <3>1
    <3>2. CASE x # h
      <4>1. Proc(x)[1] = x /\ c[1] = h
        BY <1>2, AccountedIs
      <4>2. Proc(x) # c
        BY <3>2, <4>1
      <4>3. Count(x) = Accounted(x) /\ Count(x)' = Count(x)
        BY <1>4, <3>2 DEF CountInv
      <4>4. Accounted(x)' = Accounted(x)
        BY <2>5, <4>2
      <4>q. QED
        BY <4>3, <4>4
    <3>q. QED
      BY <3>1, <3>2
  <2>7. EntriesMade'
    BY <1>c, <1>4, <2>5 DEF EntriesMade
  <2>q. QED
    BY <2>5, <2>6, <2>7 DEF CountInv
<1>q. QED
  BY <1>t, <1>8, <1>9

LEMMA CountGoesDown ==
    ASSUME LockInv, Regular, CountInv, NEW c \in Ctx, CountDown(c)
    PROVE  /\ CountInv'
           /\ pc'[c] \in {"idle", "unmask"}
           /\ pc'[c] = "unmask" <=> HeldBy(c) \cap CountingLocks = {}
<1> USE DEF lockVars
<1> DEFINE h == c[1]
           held == HeldBy(c)
           n == Cardinality(held \cap CountingLocks)
<1>t. TypeOK /\ call[c] \in Calls /\ call = [call EXCEPT ![c] = call[c]]
  BY CallTypes DEF LockInv
<1>c. CountsAt(c, pc[c], call[c], held) /\ EntriesMade
  BY DEF CountInv
<1>1. pc[c] = "sub" /\ UNCHANGED <<use, spinVars>>
  BY DEF CountDown
<1>2. c[2] = "proc" /\ c = Proc(h) /\ h \in Harts /\ LoadHartid(c) = h
  BY <1>t, <1>c, <1>1, RegularIs, CtxIs DEF CountsAt
<1>3. /\ held \in SUBSET Locks /\ n \in Nat /\ (n = 0 <=> held \cap CountingLocks = {})
      /\ HeldBy(c)' = held /\ \A d \in Ctx \ {c} : HeldBy(d)' = HeldBy(d)
  <2>1. held \in SUBSET Locks
    BY HeldIs
  <2>2. n \in Nat /\ IsFiniteSet(held \cap CountingLocks)
    BY <2>1, LocksFinite, Zenon
  <2>3. n = 0 <=> held \cap CountingLocks = {}
    BY <2>2, FS_EmptySet, Zenon
  <2>4. \A d : HeldBy(d)' = HeldBy(d)
    BY <1>1, SameGuards
  <2>q. QED
    BY <2>1, <2>2, <2>3, <2>4, Zenon
<1>4. Count(h) = n + 1
  <2>1. Count(h) = AccountedAt("sub", call[c], held)
    <3>1. Accounted(h) = AccountedAt(pc[Proc(h)], call[Proc(h)], HeldBy(Proc(h)))
      BY <1>2, AccountedIs, Zenon
    <3>2. Count(h) = Accounted(h)
      BY <1>2 DEF CountInv
    <3>q. QED
      BY <1>1, <1>2, <3>1, <3>2, Zenon
  <2>q. QED
    BY <2>1 DEF AccountedAt
<1>5. h < Len(hart_lock_count) /\ hart_lock_count[h + 1] = n + 1
  BY <1>3, <1>4 DEF Count
<1>6. PICK loc \in {"idle", "unmask"} :
          /\ pc' = [pc EXCEPT ![c] = loc] /\ call' = [call EXCEPT ![c] = call[c]]
          /\ hart_lock_count' = [hart_lock_count EXCEPT ![h + 1] = (@ + Usize - 1) % Usize]
          /\ loc = "unmask" <=> n + 1 = 1
  <2>1. ~EntryMissing(c)
    BY <1>t, <1>2, <1>5, RegularIs DEF EntryMissing
  <2>q. QED
    BY <1>t, <1>2, <1>5, <2>1 DEF CountDown, Goto, IsLast
<1>7. /\ Len(hart_lock_count') = Len(hart_lock_count)
      /\ Count(h) > 0 => Count(h)' = Count(h) - 1
      /\ \A x \in Harts \ {h} : Count(x)' = Count(x)
  BY <1>t, <1>2, <1>5, <1>6, CountedDown, Zenon
<1>8. CountsAt(c, loc, call[c], held) /\ loc \in Locations
  BY <1>c, <1>1 DEF CountsAt, AcquiringAt, Locations
<1>9. AccountedAt(loc, call[c], held) = n
  BY DEF AccountedAt
<1>10. /\ \A d \in Ctx : CountsAt(d, pc[d], call[d], HeldBy(d))'
       /\ \A x \in Harts : Proc(x) # c => Accounted(x)' = Accounted(x)
       /\ \A x \in Harts : Proc(x) = c => Accounted(x)' = AccountedAt(loc, call[c], held)
       /\ \A d \in Ctx : pc'[d] = IF d = c THEN loc ELSE pc[d]
  BY <1>t, <1>1, <1>3, <1>6, <1>8, ContextStep, Zenon
<1>11. ASSUME NEW x \in Harts PROVE Count(x)' = Accounted(x)'
  <2>1. CASE x = h
    <3>1. Count(h)' = n
      BY <1>3, <1>4, <1>7
    <3>2. Accounted(h)' = n
      BY <1>2, <1>9, <1>10, Zenon
    <3>q. QED
      BY <2>1, <3>1, <3>2
  <2>2. CASE x # h
    <3>1. Proc(x) # c
      BY <1>2, <2>2, AccountedIs
    <3>2. Count(x)' = Count(x) /\ Accounted(x)' = Accounted(x)
      BY <1>7, <1>10, <2>2, <3>1
    <3>q. QED
      BY <3>2 DEF CountInv
  <2>q. QED
    BY <2>1, <2>2
<1>12. EntriesMade'
  BY <1>c, <1>7, <1>10 DEF EntriesMade
<1>13. /\ pc'[c] = loc
       /\ loc = "unmask" <=> held \cap CountingLocks = {}
  BY <1>3, <1>6, <1>10
<1>q. QED
  BY <1>10, <1>11, <1>12, <1>13 DEF CountInv

LEMMA CountCalls ==
    ASSUME LockInv, CountInv, NEW c \in Ctx, NEW l \in Locks, NEW m \in Modes, BeginLock(c, l, m)
    PROVE  CountInv'
<1> USE DEF lockVars
<1> DEFINE k == [lock |-> l, mode |-> m, try |-> FALSE]
           loc == FirstStep(c, l)
<1>t. /\ l \notin HeldBy(c) /\ l \in use.locks /\ Cardinality(HeldBy(c)) < use.held
      /\ pc[c] = "idle"
  BY CalledIsFree DEF BeginLock
<1>c. CountsAt(c, pc[c], call[c], HeldBy(c))
  BY DEF CountInv
<1>1. k \in Calls /\ k.lock = l /\ ~k.try
  BY DEF Calls, Modes
<1>2. /\ pc' = [pc EXCEPT ![c] = loc] /\ call' = [call EXCEPT ![c] = k]
      /\ UNCHANGED <<use, hart_lock_count, spinVars>>
  BY DEF BeginLock, Goto
<1>3. /\ loc \in {"spin", "panicked", "mask"} /\ c[2] \in {"proc", "intr"}
      /\ loc = "mask" => l \in CountingLocks /\ c[2] = "proc"
      /\ loc = "spin" /\ c[2] = "proc" => l \notin CountingLocks
  BY KindsApart, HartidIs DEF FirstStep, InInterruptContext
<1> HIDE DEF k, loc
<1>4. CountsAt(c, loc, k, HeldBy(c))
  BY <1>t, <1>c, <1>1, <1>3, KindsApart DEF CountsAt, AcquiringAt
<1>5. c[2] = "proc" =>
          AccountedAt(loc, k, HeldBy(c)) = AccountedAt(pc[c], call[c], HeldBy(c))
  BY <1>t, <1>1, <1>3 DEF AccountedAt
<1>6. /\ HeldBy(c) \in SUBSET Locks /\ HeldBy(c)' = HeldBy(c)
      /\ \A d \in Ctx \ {c} : HeldBy(d)' = HeldBy(d)
  BY <1>2, SameGuards, HeldIs
<1>q. QED
  BY <1>1, <1>2, <1>3, <1>4, <1>5, <1>6, UncountedStep, ZenonT(40) DEF LockInv, Locations

LEMMA CountTries ==
    ASSUME LockInv, CountInv, NEW c \in Ctx, NEW l \in Locks, NEW m \in Modes, BeginTry(c, l, m)
    PROVE  CountInv'
<1> USE DEF lockVars
<1> DEFINE loc == AfterTry(c, l)
           k == IF loc = "idle" THEN NoCall ELSE [lock |-> l, mode |-> m, try |-> TRUE]
           held == HeldBy(c)
<1>t. /\ TypeOK /\ l \notin held /\ l \in use.locks /\ Cardinality(held) < use.held
      /\ pc[c] = "idle" /\ held \in SUBSET Locks /\ use.held \in Nat
      /\ UNCHANGED <<use, hart_lock_count>>
  BY CalledIsFree, HeldIs, UsizeIs DEF BeginTry, LockInv
<1>c. CountsAt(c, pc[c], call[c], held)
  BY DEF CountInv
<1>1. CASE UNCHANGED <<pc, call, spinVars>>
  <2>1. \A d : HeldBy(d)' = HeldBy(d)
    BY <1>1, SameGuards
  <2>2. \A d \in Ctx : CountsAt(d, pc[d], call[d], HeldBy(d))'
    BY <1>1, <1>t, <2>1 DEF CountInv, CountsAt, AcquiringAt
  <2>3. \A h \in Harts : Accounted(h)' = Accounted(h) /\ Count(h)' = Count(h)
    BY <1>1, <1>t, <2>1, Zenon DEF Accounted, Count
  <2>4. EntriesMade'
    BY <1>1, <1>t DEF CountInv, EntriesMade
  <2>q. QED
    BY <2>2, <2>3, <2>4 DEF CountInv
<1>2. CASE Grant(c, l, m, m) /\ Goto(c, loc) /\ call' = [call EXCEPT ![c] = k]
  <2>1. HeldBy(c)' = held \cup {l} /\ \A d \in Ctx \ {c} : HeldBy(d)' = HeldBy(d)
    BY <1>t, <1>2, Granted
  <2>2. /\ loc \in {"save", "idle", "mask"} /\ c[2] \in {"proc", "intr"}
        /\ loc = "save" => l \in SimpleMutexes
        /\ loc = "mask" => l \in CountingLocks /\ c[2] = "proc"
        /\ c[2] = "proc" /\ loc # "mask" => l \notin CountingLocks
    BY KindsApart, HartidIs DEF AfterTry, InInterruptContext
  <2>3. k \in Calls /\ (loc # "idle" => k.lock = l /\ k.try)
    BY NoCallIs DEF Calls, Modes
  <2>4. pc' = [pc EXCEPT ![c] = loc] /\ call' = [call EXCEPT ![c] = k]
    BY <1>2 DEF Goto
  <2>5. /\ Cardinality(held \cup {l}) = Cardinality(held) + 1 /\ Cardinality(held) \in Nat
        /\ Cardinality((held \cup {l}) \cap CountingLocks) =
              Cardinality(held \cap CountingLocks) + (IF l \in CountingLocks THEN 1 ELSE 0)
        /\ Cardinality(held \cap CountingLocks) \in Nat
    BY <1>t, HeldPlus, LocksFinite, Zenon
  <2> HIDE DEF loc, k, held
  <2>6. held \cup {l} \subseteq use.locks /\ Cardinality(held \cup {l}) <= use.held
    <3>1. held \subseteq use.locks
      BY <1>c DEF CountsAt
    <3>2. l \in use.locks /\ Cardinality(held) < use.held /\ use.held \in Nat
      BY <1>t, <1>c DEF CountsAt
    <3>3. Cardinality(held) \in Nat /\ Cardinality(held \cup {l}) = Cardinality(held) + 1
      BY <2>5, Zenon
    <3>4. Cardinality(held \cup {l}) <= use.held
      BY <3>2, <3>3
    <3>q. QED
      BY <3>1, <3>2, <3>4
  <2>7. CountsAt(c, loc, k, held \cup {l})
    <3>1. ~AcquiringAt(loc, k)
      BY <2>2, <2>3 DEF AcquiringAt
    <3>2. PICK H : H = held \cup {l}
      OBVIOUS
    <3>3. H \subseteq use.locks /\ Cardinality(H) <= use.held /\ l \in H
      BY <2>6, <3>2
    <3>4. CountsAt(c, loc, k, H)
      BY <2>2, <2>3, <3>1, <3>3 DEF CountsAt
    <3>q. QED
      BY <3>2, <3>4
  <2>8. c[2] = "proc" => AccountedAt(loc, k, held \cup {l}) = AccountedAt(pc[c], call[c], held)
    <3>1. PICK a \in Nat : a = Cardinality(held \cap CountingLocks)
      BY <2>5, Zenon
    <3>2. PICK b : b = Cardinality((held \cup {l}) \cap CountingLocks)
      OBVIOUS
    <3>3. b = a + (IF l \in CountingLocks THEN 1 ELSE 0)
      BY <2>5, <3>1, <3>2, Zenon
    <3>4. AccountedAt(pc[c], call[c], held) = a
      BY <1>t, <3>1 DEF AccountedAt
    <3>5. ASSUME c[2] = "proc" PROVE AccountedAt(loc, k, held \cup {l}) = a
      <4>1. CASE loc = "mask"
        <5>1. AccountedAt(loc, k, held \cup {l}) = b - 1 /\ b = a + 1
          BY <2>2, <2>3, <3>2, <3>3, <4>1 DEF AccountedAt
        <5>q. QED
          BY <5>1
      <4>2. CASE loc # "mask"
        <5>1. AccountedAt(loc, k, held \cup {l}) = b /\ b = a + 0
          BY <2>2, <3>2, <3>3, <3>5, <4>2 DEF AccountedAt
        <5>q. QED
          BY <5>1
      <4>q. QED
        BY <4>1, <4>2
    <3>q. QED
      BY <3>4, <3>5
  <2>9. held \cup {l} \in SUBSET Locks /\ loc \in Locations /\ loc \notin {"resize", "add"}
    BY <1>t, <2>2 DEF Locations
  <2>q. QED
    BY <1>t, <2>1, <2>3, <2>4, <2>7, <2>8, <2>9, UncountedStep, Zenon DEF held
<1>q. QED
  BY <1>1, <1>2 DEF BeginTry

LEMMA CountAcquires ==
    ASSUME LockInv, CountInv, NEW c \in Ctx, SpinAcquire(c)
    PROVE  CountInv'
<1> USE DEF lockVars
<1> DEFINE l == call[c].lock
           held == HeldBy(c)
<1>t. /\ TypeOK /\ CallsMatch /\ held \in SUBSET Locks /\ use.held \in Nat /\ pc[c] = "spin"
      /\ UNCHANGED <<use, hart_lock_count>>
  BY HeldIs, UsizeIs DEF SpinAcquire, LockInv
<1>c. CountsAt(c, pc[c], call[c], held)
  BY DEF CountInv
<1>1. /\ l \in Locks /\ l \notin held /\ l \in use.locks /\ Cardinality(held) < use.held
      /\ call[c].mode \in Modes /\ InnerMode(l, call[c].mode) \in Modes
  BY <1>t, <1>c, CallTypes DEF CallsMatch, Acquiring, CountsAt, AcquiringAt, InnerMode, Modes
<1>2. HeldBy(c)' = held \cup {l} /\ \A d \in Ctx \ {c} : HeldBy(d)' = HeldBy(d)
  BY <1>t, <1>1, Granted DEF SpinAcquire
<1>3. /\ Cardinality(held \cup {l}) = Cardinality(held) + 1 /\ Cardinality(held) \in Nat
      /\ Cardinality((held \cup {l}) \cap CountingLocks) =
            Cardinality(held \cap CountingLocks) + (IF l \in CountingLocks THEN 1 ELSE 0)
      /\ Cardinality(held \cap CountingLocks) \in Nat
  BY <1>t, <1>1, HeldPlus, LocksFinite
<1>4. held \cup {l} \subseteq use.locks /\ Cardinality(held \cup {l}) <= use.held
      /\ held \cup {l} \in SUBSET Locks
  <2>1. held \subseteq use.locks
    BY <1>c DEF CountsAt
  <2>2. Cardinality(held \cup {l}) <= use.held
    <3>1. use.held \in Nat /\ Cardinality(held) < use.held
      BY <1>t, <1>1, Zenon
    <3>2. Cardinality(held) \in Nat /\ Cardinality(held \cup {l}) = Cardinality(held) + 1
      BY <1>3, Zenon
    <3>q. QED
      BY <3>1, <3>2
  <2>q. QED
    BY <1>t, <1>1, <2>1, <2>2
<1>5. CASE l \in SimpleMutexes
  <2>1. pc' = [pc EXCEPT ![c] = "save"] /\ call' = [call EXCEPT ![c] = call[c]] /\ call[c] \in Calls
    BY <1>t, <1>5, CallTypes DEF SpinAcquire, Goto
  <2>2. l \notin CountingLocks
    BY <1>5, KindsApart
  <2>3. CountsAt(c, "save", call[c], held \cup {l})
    BY <1>4 DEF CountsAt, AcquiringAt
  <2>4. AccountedAt("save", call[c], held \cup {l}) = AccountedAt(pc[c], call[c], held)
    BY <1>t, <1>3, <2>2 DEF AccountedAt
  <2>q. QED
    BY <1>t, <1>2, <1>4, <2>1, <2>3, <2>4, UncountedStep, Zenon DEF Locations
<1>6. CASE l \notin SimpleMutexes
  <2>1. pc' = [pc EXCEPT ![c] = "idle"] /\ call' = [call EXCEPT ![c] = NoCall]
    BY <1>6 DEF SpinAcquire, Goto, Return
  <2>2. CountsAt(c, "idle", NoCall, held \cup {l})
    BY <1>4 DEF CountsAt, AcquiringAt
  <2>3. AccountedAt("idle", NoCall, held \cup {l}) = AccountedAt(pc[c], call[c], held)
    BY <1>t, <1>3 DEF AccountedAt
  <2>q. QED
    BY <1>t, <1>2, <1>4, <2>1, <2>2, <2>3, NoCallIs, UncountedStep, Zenon DEF Locations
<1>q. QED
  BY <1>5, <1>6

LEMMA CountReleases ==
    ASSUME LockInv, CountInv, NEW c \in Ctx, NEW l \in Locks, BeginUnlock(c, l)
    PROVE  CountInv'
<1> USE DEF lockVars
<1> DEFINE held == HeldBy(c)
<1>t. /\ TypeOK /\ WordCovers /\ held \in SUBSET Locks /\ use.held \in Nat /\ pc[c] = "idle"
      /\ l \in held /\ UNCHANGED <<use, hart_lock_count>>
      /\ call[c] \in Calls /\ call = [call EXCEPT ![c] = call[c]]
  BY HeldIs, UsizeIs, CallTypes DEF BeginUnlock, LockInv
<1>c. CountsAt(c, pc[c], call[c], held)
  BY DEF CountInv
<1>1. CASE AssertFails(c, l)
  <2>1. /\ pc' = [pc EXCEPT ![c] = "panicked"] /\ call' = [call EXCEPT ![c] = call[c]]
        /\ UNCHANGED <<spinVars, call>>
    BY <1>t, <1>1 DEF BeginUnlock, Goto
  <2>2. CountsAt(c, "panicked", call[c], held)
    BY <1>c DEF CountsAt, AcquiringAt
  <2>3. AccountedAt("panicked", call[c], held) = AccountedAt(pc[c], call[c], held)
    BY <1>t DEF AccountedAt
  <2>q. QED
    BY <1>t, <2>1, <2>2, <2>3, CallGoesOn, Zenon DEF Locations
<1>2. CASE ~AssertFails(c, l)
  <2> DEFINE loc == AfterUnlock(c, l)
             k == [call[c] EXCEPT !.lock = IF l \in SimpleMutexes THEN l ELSE @]
  <2>1. /\ Release(c, l) /\ pc' = [pc EXCEPT ![c] = loc] /\ call' = [call EXCEPT ![c] = k]
    BY <1>2 DEF BeginUnlock, Goto
  <2>2. HeldBy(c)' = held \ {l} /\ \A d \in Ctx \ {c} : HeldBy(d)' = HeldBy(d)
    BY <1>t, <2>1, Released
  <2>3. /\ loc \in {"restore", "idle", "sub"} /\ c[2] \in {"proc", "intr"}
        /\ loc = "sub" => l \in CountingLocks /\ c[2] = "proc"
        /\ c[2] = "proc" /\ loc # "sub" => l \notin CountingLocks
    BY <1>t, KindsApart, HartidIs DEF AfterUnlock, InInterruptContext
  <2>4. k \in Calls /\ (loc = "restore" => k.lock = l)
    BY <1>t DEF Calls, AfterUnlock
  <2>5. /\ Cardinality(held \ {l}) = Cardinality(held) - 1 /\ Cardinality(held) \in Nat
        /\ Cardinality((held \ {l}) \cap CountingLocks) =
              Cardinality(held \cap CountingLocks) - (IF l \in CountingLocks THEN 1 ELSE 0)
        /\ Cardinality(held \cap CountingLocks) \in Nat
    BY <1>t, HeldMinus, LocksFinite
  <2> HIDE DEF loc, k, held
  <2>6. /\ held \ {l} \subseteq use.locks /\ Cardinality(held \ {l}) < use.held
        /\ Cardinality(held \ {l}) <= use.held /\ l \in use.locks
    BY <1>t, <1>c, <2>5 DEF CountsAt
  <2>7. CountsAt(c, loc, k, held \ {l})
    BY <2>3, <2>4, <2>6 DEF CountsAt, AcquiringAt
  <2>8. c[2] = "proc" => AccountedAt(loc, k, held \ {l}) = AccountedAt(pc[c], call[c], held)
    BY <1>t, <2>3, <2>5 DEF AccountedAt
  <2>9. held \ {l} \in SUBSET Locks /\ loc \in Locations /\ loc \notin {"resize", "add"}
    BY <1>t, <2>3 DEF Locations
  <2>q. QED
    BY <1>t, <2>1, <2>2, <2>4, <2>7, <2>8, <2>9, UncountedStep, Zenon DEF held
<1>q. QED
  BY <1>1, <1>2

\* Nothing that the count depends on changes.
LEMMA CountStays ==
    ASSUME CountInv, UNCHANGED <<use, hart_lock_count, spinVars, pc, call>>
    PROVE  CountInv'
<1>1. \A d : HeldBy(d)' = HeldBy(d)
  BY SameGuards
<1>2. \A d \in Ctx : CountsAt(d, pc[d], call[d], HeldBy(d))'
  BY <1>1, Zenon DEF CountInv, CountsAt, AcquiringAt
<1>3. \A h \in Harts : Accounted(h)' = Accounted(h) /\ Count(h)' = Count(h)
  BY <1>1 DEF Accounted, Count
<1>4. EntriesMade'
  BY DEF CountInv, EntriesMade
<1>q. QED
  BY <1>2, <1>3, <1>4 DEF CountInv

LEMMA CountStep ==
    ASSUME LockInv, Regular, CountInv, [Next]_vars
    PROVE  CountInv'
<1>1. CASE \E c \in Ctx : Continue(c)
  BY <1>1, CountContinues, CountResizes, CountGoesUp, CountGoesDown, CountAcquires DEF Continue
<1>2. CASE \E c \in Ctx, l \in Locks : Call(c, l) \/ Drop(c, l)
  BY <1>2, CallIs, DropIs, CountCalls, CountTries, CountReleases
<1>3. ASSUME NEW h \in Harts, NEW k \in Harts, NEW l \in Locks, SendGuard(h, k, l) PROVE CountInv'
  BY <1>3 DEF SendGuard, Regular
<1>4. CASE \E h \in Harts : Interrupt(h) \/ Resume(h)
  BY <1>4, CountStays DEF Interrupt, Resume, lockVars
<1>5. CASE UNCHANGED vars
  BY <1>5, CountStays DEF vars, spinVars
<1>q. QED
  BY <1>1, <1>2, <1>3, <1>4, <1>5 DEF Next

LEMMA CountInit == Init /\ Regular => CountInv
<1> SUFFICES ASSUME Init, Regular PROVE CountInv
  OBVIOUS
<1>1. TypeOK
  BY InitLockInv DEF LockInv
<1>2. \A c \in Ctx : pc[c] = "idle" /\ HeldBy(c) = {}
  BY DEF Init, HeldBy
<1>3. Cardinality({}) = 0 /\ use.held \in Nat
  BY <1>1, FS_EmptySet, UsizeIs
<1>4. ASSUME NEW c \in Ctx PROVE CountsAt(c, pc[c], call[c], HeldBy(c))
  <2>1. use.held \in Nat \ {0}
    BY <1>1, UsizeIs
  <2>2. Cardinality({}) <= use.held /\ Cardinality({}) < use.held
    BY <1>3, <2>1
  <2>3. CountsAt(c, "idle", call[c], {})
    BY <2>2 DEF CountsAt, AcquiringAt
  <2>q. QED
    BY <1>2, <2>3
<1>5. use.len \in Nat /\ use.len >= N - 1 /\ N \in Nat
  BY <1>1, UsizeIs, ConstantsOK DEF Regular
<1>6. Len(hart_lock_count) = use.len /\ \A i \in 1 .. use.len : hart_lock_count[i] = 0
  <2>1. Len(hart_lock_count) \in Nat /\ 1 .. Len(hart_lock_count) = 1 .. use.len
    BY <1>1, LenProperties, Zenon DEF Init, TypeOK
  <2>q. QED
    BY <1>5, <2>1 DEF Init
<1>7. EntriesMade
  BY <1>2, <1>5, <1>6 DEF EntriesMade
<1>8. ASSUME NEW h \in Harts PROVE Count(h) = Accounted(h)
  <2>1. Count(h) = 0
    BY <1>5, <1>6 DEF Count, Harts
  <2>2. pc[Proc(h)] = "idle" /\ HeldBy(Proc(h)) = {}
    BY <1>2, AccountedIs
  <2>3. Accounted(h) = Cardinality({} \cap CountingLocks)
    <3>1. Accounted(h) = AccountedAt("idle", call[Proc(h)], {})
      BY <2>2, AccountedIs
    <3>q. QED
      BY <3>1 DEF AccountedAt
  <2>4. {} \cap CountingLocks = {}
    OBVIOUS
  <2>q. QED
    BY <1>3, <2>1, <2>3, <2>4
<1>q. QED
  BY <1>4, <1>7, <1>8 DEF CountInv

\* The way the locks are used stays.
LEMMA UseStays == [Next]_vars => use' = use
<1> SUFFICES ASSUME [Next]_vars PROVE use' = use
  OBVIOUS
<1>1. ASSUME NEW c \in Ctx, Continue(c) PROVE use' = use
  BY <1>1, Zenon DEF Continue, MaskInterrupts, ReadLen, Resize, CountUp, SpinAcquire, CountDown,
              UnmaskInterrupts, SaveSie, RestoreSie
<1>2. ASSUME NEW c \in Ctx, NEW l \in Locks, Call(c, l) \/ Drop(c, l) PROVE use' = use
  BY <1>2, CallIs, DropIs DEF BeginLock, BeginTry, BeginUnlock
<1>3. ASSUME NEW h \in Harts, NEW k \in Harts, NEW l \in Locks, SendGuard(h, k, l)
      PROVE  use' = use
  BY <1>3 DEF SendGuard
<1>4. ASSUME NEW h \in Harts, Interrupt(h) \/ Resume(h) PROVE use' = use
  BY <1>4 DEF Interrupt, Resume
<1>5. CASE UNCHANGED vars
  BY <1>5 DEF vars
<1>q. QED
  BY <1>1, <1>2, <1>3, <1>4, <1>5 DEF Next

CountingInv == LockInv /\ (Regular => CountInv)

LEMMA CountingInvHolds == Spec => []CountingInv
<1>1. Init => CountingInv
  BY InitLockInv, CountInit DEF CountingInv
<1>2. CountingInv /\ [Next]_vars => CountingInv'
  <2> SUFFICES ASSUME CountingInv, [Next]_vars PROVE CountingInv'
    OBVIOUS
  <2>1. LockInv'
    BY LockStep DEF CountingInv
  <2>2. Regular' <=> Regular
    BY UseStays DEF Regular
  <2>q. QED
    BY <2>1, <2>2, CountStep DEF CountingInv
<1>q. QED
  BY <1>1, <1>2, PTL DEF Spec

\* lock_and_disable_interrupts and its counterpart on any number of harts: in a
\* Regular use HART_LOCK_COUNT is the number of guards its hart holds outside of
\* interrupt contexts, wherever the harts are in their calls.
THEOREM CountIsKept == Spec => []CountMatchesGuards
<1>1. CountingInv => CountMatchesGuards
  BY DEF CountingInv, CountMatchesGuards, LockInv, CountInv
<1>q. QED
  BY <1>1, CountingInvHolds, PTL
=============================================================================
