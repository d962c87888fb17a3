-------------------------- MODULE AsyncLockProofs --------------------------
(***************************************************************************)
(* The proofs about AsyncLock: for any tasks and any use, a task that      *)
(* waits is in the list and somebody is left who will wake it.  The three  *)
(* kinds of use have an inductive invariant each.                          *)
(***************************************************************************)
EXTENDS AsyncLock, SequenceTheorems, TLAPS

LEMMA FuturesAre ==
    /\ Futures["mutex"] = {"lock"}
    /\ Futures["rwlock"] = {"read", "write"}
    /\ Futures["call"] = {"result"}
BY DEF Futures

LEMMA UseIs ==
    ASSUME TypeOK
    PROVE  UseOK(use) /\ use.kind \in {"mutex", "rwlock", "call"}
BY ConstantsOK DEF TypeOK, UseOK

\* What a push adds to the list, and what the removal of the first waker leaves.
LEMMA Pushed ==
    ASSUME wakers \in Seq(Tasks), NEW t \in Tasks, wakers' = Append(wakers, t)
    PROVE  /\ wakers' \in Seq(Tasks) /\ Len(wakers') = Len(wakers) + 1
           /\ \A u : Registered(u)' <=> u = t \/ Registered(u)
<1>1. /\ wakers' \in Seq(Tasks) /\ Len(wakers') = Len(wakers) + 1
      /\ \A i \in 1 .. Len(wakers) : wakers'[i] = wakers[i]
      /\ wakers'[Len(wakers) + 1] = t
  BY AppendProperties
<1>2. /\ DOMAIN wakers = 1 .. Len(wakers) /\ Len(wakers) \in Nat
      /\ DOMAIN wakers' = 1 .. (Len(wakers) + 1)
  BY <1>1, LenProperties
<1>q. QED
  BY <1>1, <1>2 DEF Registered

LEMMA Removed ==
    ASSUME wakers \in Seq(Tasks), wakers # <<>>, wakers' = Tail(wakers)
    PROVE  /\ wakers' \in Seq(Tasks) /\ Len(wakers') = Len(wakers) - 1 /\ Len(wakers) \in Nat
           /\ Head(wakers) \in Tasks /\ Registered(Head(wakers))
           /\ \A u : Registered(u)' => Registered(u)
           /\ \A u : Registered(u) => u = Head(wakers) \/ Registered(u)'
<1>1. /\ Head(wakers) \in Tasks /\ wakers' \in Seq(Tasks) /\ Len(wakers') = Len(wakers) - 1
      /\ \A i \in 1 .. Len(wakers') : wakers'[i] = wakers[i + 1]
  BY HeadTailProperties
<1>2. /\ DOMAIN wakers = 1 .. Len(wakers) /\ Len(wakers) \in Nat /\ Len(wakers) # 0
      /\ DOMAIN wakers' = 1 .. Len(wakers')
  BY <1>1, LenProperties, EmptySeq
<1>3. Head(wakers) = wakers[1] /\ 1 \in DOMAIN wakers
  BY <1>2
<1>4. ASSUME NEW u, Registered(u) PROVE u = Head(wakers) \/ Registered(u)'
  <2>1. PICK i \in DOMAIN wakers : wakers[i] = u
    BY <1>4 DEF Registered
  <2>2. CASE i # 1
    <3>1. i - 1 \in 1 .. Len(wakers') /\ (i - 1) + 1 = i
      BY <1>1, <1>2, <2>2
    <3>2. wakers'[i - 1] = u
      BY <1>1, <2>1, <3>1
    <3>q. QED
      BY <1>2, <3>1, <3>2 DEF Registered
  <2>q. QED
    BY <1>3, <2>1, <2>2
<1>5. ASSUME NEW u, Registered(u)' PROVE Registered(u)
  <2>1. PICK i \in DOMAIN wakers' : wakers'[i] = u
    BY <1>5 DEF Registered
  <2>2. i + 1 \in DOMAIN wakers /\ wakers[i + 1] = u
    BY <1>1, <1>2, <2>1
  <2>q. QED
    BY <2>2 DEF Registered
<1>q. QED
  BY <1>1, <1>2, <1>3, <1>4, <1>5 DEF Registered

-----------------------------------------------------------------------------
(* The state is well-formed.                                               *)

LEMMA InitTypes == Init => TypeOK
<1> SUFFICES ASSUME Init PROVE TypeOK
  OBVIOUS
<1>1. wakers \in Seq(Tasks) /\ Len(wakers) <= MaxWakers
  BY EmptySeq, ConstantsOK DEF Init
<1>2. want \in [Tasks -> Futures[use.kind]]
  BY DEF Init
<1>q. QED
  BY <1>1, <1>2 DEF Init, TypeOK, Locations

LEMMA NextTypes == TypeOK /\ [Next]_vars => TypeOK'
<1> SUFFICES ASSUME TypeOK, [Next]_vars PROVE TypeOK'
  OBVIOUS
<1> USE DEF callVars
<1>1. ASSUME NEW t \in Tasks, NEW w, Await(t, w) PROVE TypeOK'
  BY <1>1 DEF Await, Goto, TypeOK, Locations
<1>2. ASSUME NEW t \in Tasks, PollRead(t) PROVE TypeOK'
  BY <1>2 DEF PollRead, Goto, TypeOK, Locations
<1>3. ASSUME NEW t \in Tasks, NEW w, PollExclusive(t, w) PROVE TypeOK'
  BY <1>3 DEF PollExclusive, Goto, TypeOK, Locations
<1>4. ASSUME NEW t \in Tasks, PollCall(t) PROVE TypeOK'
  BY <1>4 DEF PollCall, Goto, TypeOK, Locations
<1>5. ASSUME NEW t \in Tasks, Register(t) PROVE TypeOK'
  <2>1. wakers' \in Seq(Tasks) /\ Len(wakers') <= MaxWakers
    <3>1. CASE UNCHANGED wakers
      BY <3>1 DEF TypeOK
    <3>2. CASE Len(wakers) < MaxWakers /\ wakers' = Append(wakers, t)
      <4>1. wakers' \in Seq(Tasks) /\ Len(wakers') = Len(wakers) + 1
        BY <3>2, Pushed DEF TypeOK
      <4>2. Len(wakers) \in Nat /\ MaxWakers \in Nat
        BY ConstantsOK, LenProperties DEF TypeOK
      <4>q. QED
        BY <3>2, <4>1, <4>2
    <3>q. QED
      BY <1>5, <3>1, <3>2 DEF Register, Push
  <2>q. QED
    BY <1>5, <2>1 DEF Register, Goto, TypeOK, Locations
<1>6. ASSUME NEW t \in Tasks, DropGuard(t) PROVE TypeOK'
  BY <1>6 DEF DropGuard, DropReadGuard, DropExclusiveGuard, Goto, TypeOK, Locations
<1>7. ASSUME NEW t \in Tasks, WakeAll(t) PROVE TypeOK'
  BY <1>7 DEF WakeAll, EveryWaiter, Goto, TypeOK, Locations
<1>8. ASSUME NEW t \in Tasks, ClearWakers(t) PROVE TypeOK'
  <2>1. wakers' \in Seq(Tasks) /\ Len(wakers') <= MaxWakers
    BY <1>8, EmptySeq, ConstantsOK DEF ClearWakers
  <2>q. QED
    BY <1>8, <2>1 DEF ClearWakers, Goto, TypeOK, Locations
<1>9. ASSUME NEW t \in Tasks, WakeFirst(t) PROVE TypeOK'
  <2>1. CASE wakers = <<>>
    BY <1>9, <2>1 DEF WakeFirst, Goto, TypeOK, Locations
  <2>2. CASE wakers # <<>>
    <3>1. wakers' \in Seq(Tasks) /\ Len(wakers') = Len(wakers) - 1 /\ Len(wakers) \in Nat
          /\ Head(wakers) \in Tasks
      BY <1>9, <2>2, Removed DEF WakeFirst, TypeOK
    <3>2. Len(wakers') <= MaxWakers
      BY <3>1, ConstantsOK DEF TypeOK
    <3>q. QED
      BY <1>9, <2>2, <3>1, <3>2 DEF WakeFirst, Goto, TypeOK, Locations
  <2>q. QED
    BY <2>1, <2>2
<1>10. ASSUME NEW t \in Tasks, RegisterCall(t) PROVE TypeOK'
  <2>1. wakers' \in Seq(Tasks) /\ Len(wakers') <= MaxWakers
    BY <1>10, ConstantsOK DEF RegisterCall
  <2>q. QED
    BY <1>10, <2>1 DEF RegisterCall, Goto, TypeOK, Locations
<1>11. ASSUME NEW t \in Tasks, EnableCall(t) PROVE TypeOK'
  <2>1. use.asked \in BOOLEAN
    BY UseIs DEF UseOK
  <2>q. QED
    BY <1>11, <2>1 DEF EnableCall, Goto, TypeOK, Locations
<1>12. CASE CallReady
  BY <1>12 DEF CallReady, TypeOK
<1>13. CASE CallWake
  BY <1>13 DEF CallWake, ReadyWaker, TypeOK
<1>14. CASE UNCHANGED vars
  BY <1>14 DEF vars, TypeOK
<1>q. QED
  BY <1>1, <1>2, <1>3, <1>4, <1>5, <1>6, <1>7, <1>8, <1>9, <1>10, <1>11, <1>12, <1>13, <1>14
  DEF Next, Poll, PollWrite, PollLock, Continue

LEMMA TypesHold == Spec => []TypeOK
BY InitTypes, NextTypes, PTL DEF Spec
-----------------------------------------------------------------------------
(* The invariants.  On one hart a poll or a drop is over before another    *)
(* begins, so that what a poll saw of the lock is still so when it         *)
(* registers, and nobody registers between the wake-ups and the clear.     *)

RwLockUse == use.kind = "rwlock" /\ OneHart
MutexUse == use.kind = "mutex" /\ OneHart /\ ~use.spurious
CallUse == use.kind = "call"

OneBusy == \A t, u \in Tasks : Busy(t) /\ Busy(u) => t = u

RwLockInv ==
    /\ NoWaiterStranded /\ OneBusy
    /\ \A t \in Tasks :
          /\ pc[t] \notin {"enable", "panicked"}
          /\ pc[t] = "register" => Guards # {}
          /\ pc[t] = "clear" => \A u \in Tasks : pc[u] = "waiting" => u \in woken

\* A Mutex wakes the first of the list, which must not be somebody who was woken
\* already: the wake-up would be lost.
MutexInv ==
    /\ NoWaiterStranded /\ OneBusy /\ ~calling
    /\ \A t \in Tasks :
          /\ pc[t] \notin {"enable", "clear"}
          /\ pc[t] = "register" => Guards # {} /\ t \notin woken
          /\ Registered(t) => pc[t] = "waiting" /\ t \notin woken
    /\ \A i, j \in DOMAIN wakers : wakers[i] = wakers[j] => i = j

CallInv ==
    /\ \A t, u \in Tasks : pc[t] # "idle" /\ pc[u] # "idle" => t = u
    /\ \A t \in Tasks :
          /\ pc[t] \in {"idle", "waiting", "register", "enable"}
          /\ pc[t] = "enable" => Registered(t)
    /\ use.asked => NoWaiterStranded

AsyncInv ==
    /\ TypeOK
    /\ RwLockUse => RwLockInv
    /\ MutexUse => MutexInv
    /\ CallUse => CallInv
\* A poll or a drop begins only when no other is under way.
LEMMA NobodyBusy ==
    ASSUME OneHart, NEW t \in Tasks, HartFree(t)
    PROVE  \A u \in Tasks : ~Busy(u)
BY DEF OneHart, HartFree

\* Each kind has its own futures, so the polls of the other kinds do not happen.
LEMMA WantIs ==
    ASSUME TypeOK, NEW t \in Tasks
    PROVE  /\ use.kind = "rwlock" => want[t] \in {"read", "write"}
           /\ use.kind = "mutex" => want[t] = "lock"
           /\ use.kind = "call" => want[t] = "result"
BY FuturesAre DEF TypeOK

LEMMA InitInv == Init => AsyncInv
<1> SUFFICES ASSUME Init PROVE AsyncInv
  OBVIOUS
<1>1. \A t \in Tasks : pc[t] = "idle" /\ ~Busy(t)
  BY DEF Init, Busy
<1>2. DOMAIN wakers = {}
  BY EmptySeq, LenProperties DEF Init
<1>3. NoWaiterStranded /\ OneBusy
  BY <1>1 DEF NoWaiterStranded, OneBusy
<1>4. ~calling
  BY DEF Init
<1>q. QED
  BY InitTypes, <1>1, <1>2, <1>3, <1>4 DEF AsyncInv, RwLockInv, MutexInv, CallInv, Registered

-----------------------------------------------------------------------------
(* The RwLock.                                                             *)

LEMMA RwLockStep ==
    ASSUME TypeOK, RwLockUse, RwLockInv, Next
    PROVE  RwLockInv'
<1> USE DEF callVars, Guards, RwLockUse
<1>t. pc \in [Tasks -> Locations] /\ woken \subseteq Tasks /\ wakers \in Seq(Tasks)
  BY DEF TypeOK
<1>1. ASSUME NEW t \in Tasks, NEW w, Await(t, w) PROVE RwLockInv'
  <2>1. \A u \in Tasks : ~Busy(u)
    BY <1>1, NobodyBusy DEF Await
  <2>q. QED
    BY <1>1, <1>t, <2>1
    DEF Await, Goto, RwLockInv, NoWaiterStranded, OneBusy, Busy, Registered
<1>2. ASSUME NEW t \in Tasks, PollRead(t) PROVE RwLockInv'
  <2>1. \A u \in Tasks : ~Busy(u)
    BY <1>2, NobodyBusy DEF PollRead, MayPoll
  <2>2. /\ Guards' # {} /\ woken' = woken \ {t} /\ UNCHANGED <<use, wakers>>
        /\ \E loc \in {"holding", "register"} : pc' = [pc EXCEPT ![t] = loc]
    BY <1>2 DEF PollRead, Goto
  <2>q. QED
    BY <1>t, <2>1, <2>2 DEF RwLockInv, NoWaiterStranded, OneBusy, Busy, Registered
<1>3. ASSUME NEW t \in Tasks, NEW w, PollExclusive(t, w) PROVE RwLockInv'
  <2>1. \A u \in Tasks : ~Busy(u)
    BY <1>3, NobodyBusy DEF PollExclusive, MayPoll
  <2>2. /\ Guards' # {} /\ woken' = woken \ {t} /\ UNCHANGED <<use, wakers>>
        /\ \E loc \in {"holding", "register"} : pc' = [pc EXCEPT ![t] = loc]
    BY <1>3 DEF PollExclusive, Goto
  <2>q. QED
    BY <1>t, <2>1, <2>2 DEF RwLockInv, NoWaiterStranded, OneBusy, Busy, Registered
<1>4. ASSUME NEW t \in Tasks, PollCall(t) PROVE RwLockInv'
  BY <1>4, WantIs DEF PollCall, MayPoll
<1>5. ASSUME NEW t \in Tasks, Register(t) PROVE RwLockInv'
  <2>1. \A u \in Tasks : Registered(u)' <=> u = t \/ Registered(u)
    <3>1. CASE UNCHANGED wakers /\ Registered(t)
      BY <3>1 DEF Registered
    <3>2. CASE wakers' = Append(wakers, t)
      BY <1>t, <3>2, Pushed
    <3>q. QED
      BY <1>5, <3>1, <3>2 DEF Register, Push
  <2>2. Guards # {}
    BY <1>5 DEF Register, RwLockInv
  <2>q. QED
    BY <1>5, <1>t, <2>1, <2>2 DEF Register, Goto, RwLockInv, NoWaiterStranded, OneBusy, Busy
<1>6. ASSUME NEW t \in Tasks, DropGuard(t) PROVE RwLockInv'
  <2>1. \A u \in Tasks : ~Busy(u)
    BY <1>6, NobodyBusy DEF DropGuard, DropReadGuard, DropExclusiveGuard
  <2>2. /\ pc' = [pc EXCEPT ![t] = "wake"] /\ pc[t] = "holding"
        /\ UNCHANGED <<use, wakers, woken>>
    BY <1>6 DEF DropGuard, DropReadGuard, DropExclusiveGuard, Goto
  <2>q. QED
    BY <1>t, <2>1, <2>2 DEF RwLockInv, NoWaiterStranded, OneBusy, Busy, Registered
<1>7. ASSUME NEW t \in Tasks, WakeAll(t) PROVE RwLockInv'
  <2>1. \A u \in Tasks : pc'[u] = "waiting" => u \in woken'
    BY <1>7, <1>t DEF WakeAll, Goto, EveryWaiter, RwLockInv, NoWaiterStranded
  <2>q. QED
    BY <1>7, <1>t, <2>1 DEF WakeAll, Goto, RwLockInv, NoWaiterStranded, OneBusy, Busy
<1>8. ASSUME NEW t \in Tasks, ClearWakers(t) PROVE RwLockInv'
  <2>1. \A u \in Tasks : pc'[u] = "waiting" => u \in woken'
    BY <1>8, <1>t DEF ClearWakers, Goto, RwLockInv
  <2>q. QED
    BY <1>8, <1>t, <2>1 DEF ClearWakers, Goto, RwLockInv, NoWaiterStranded, OneBusy, Busy
<1>9. ASSUME NEW t \in Tasks, WakeFirst(t) \/ RegisterCall(t) \/ EnableCall(t)
      PROVE  RwLockInv'
  BY <1>9 DEF WakeFirst, RegisterCall, EnableCall, RwLockInv
<1>10. CASE CallReady
  BY <1>10 DEF CallReady
<1>11. CASE CallWake
  BY <1>11, <1>t DEF CallWake, RwLockInv, NoWaiterStranded, OneBusy, Busy, Registered
<1>q. QED
  BY <1>1, <1>2, <1>3, <1>4, <1>5, <1>6, <1>7, <1>8, <1>9, <1>10, <1>11
  DEF Next, Poll, PollWrite, PollLock, Continue
-----------------------------------------------------------------------------
(* The Mutex.                                                              *)

LEMMA MutexStep ==
    ASSUME TypeOK, MutexUse, MutexInv, Next
    PROVE  MutexInv'
<1> USE DEF callVars, Guards, MutexUse
<1>t. /\ pc \in [Tasks -> Locations] /\ woken \subseteq Tasks /\ wakers \in Seq(Tasks)
      /\ \A i \in DOMAIN wakers : wakers[i] \in Tasks
  BY LenProperties, ElementOfSeq DEF TypeOK
<1>1. ASSUME NEW t \in Tasks, NEW w, Await(t, w) PROVE MutexInv'
  <2>1. (\A u \in Tasks : ~Busy(u)) /\ ~Registered(t)
    BY <1>1, NobodyBusy DEF Await, MutexInv
  <2>q. QED
    BY <1>1, <1>t, <2>1
    DEF Await, Goto, MutexInv, NoWaiterStranded, OneBusy, Busy, Registered
<1>2. ASSUME NEW t \in Tasks, PollRead(t) \/ PollCall(t) PROVE MutexInv'
  BY <1>2, WantIs DEF PollRead, PollCall, MayPoll
<1>3. ASSUME NEW t \in Tasks, NEW w, PollExclusive(t, w) PROVE MutexInv'
  <2>1. (\A u \in Tasks : ~Busy(u)) /\ ~Registered(t)
    BY <1>3, NobodyBusy DEF PollExclusive, MayPoll, MutexInv
  <2>2. /\ Guards' # {} /\ woken' = woken \ {t} /\ UNCHANGED <<use, wakers, calling>>
        /\ \E loc \in {"holding", "register"} : pc' = [pc EXCEPT ![t] = loc]
    BY <1>3 DEF PollExclusive, Goto
  <2>q. QED
    BY <1>t, <2>1, <2>2 DEF MutexInv, NoWaiterStranded, OneBusy, Busy, Registered
<1>4. ASSUME NEW t \in Tasks, Register(t) PROVE MutexInv'
  <2>1. wakers' = Append(wakers, t)
    BY <1>4 DEF Register, Push
  <2>2. \A u \in Tasks : Registered(u)' <=> u = t \/ Registered(u)
    BY <1>t, <2>1, Pushed
  <2>3. \A i, j \in DOMAIN wakers' : wakers'[i] = wakers'[j] => i = j
    <3>1. /\ DOMAIN wakers = 1 .. Len(wakers) /\ Len(wakers) \in Nat
          /\ DOMAIN wakers' = 1 .. (Len(wakers) + 1)
          /\ \A i \in 1 .. Len(wakers) : wakers'[i] = wakers[i]
          /\ wakers'[Len(wakers) + 1] = t
      BY <1>t, <2>1, AppendProperties, LenProperties
    <3>2. \A i \in DOMAIN wakers : wakers[i] # t
      BY <1>4 DEF Register, MutexInv, Registered
    <3>3. \A i \in DOMAIN wakers' : i \in DOMAIN wakers \/ i = Len(wakers) + 1
      BY <3>1
    <3>q. QED
      BY <3>1, <3>2, <3>3 DEF MutexInv
  <2>4. Guards # {} /\ t \notin woken
    BY <1>4 DEF Register, MutexInv
  <2>5. UNCHANGED <<use, readers, writers, woken, calling>> /\ pc' = [pc EXCEPT ![t] = "waiting"]
        /\ pc[t] = "register"
    BY <1>4 DEF Register, Goto
  <2>q. QED
    BY <1>t, <2>2, <2>3, <2>4, <2>5 DEF MutexInv, NoWaiterStranded, OneBusy, Busy
<1>5. ASSUME NEW t \in Tasks, DropGuard(t) PROVE MutexInv'
  <2>1. \A u \in Tasks : ~Busy(u)
    BY <1>5, NobodyBusy DEF DropGuard, DropReadGuard, DropExclusiveGuard
  <2>2. /\ pc' = [pc EXCEPT ![t] = "wake"] /\ pc[t] = "holding"
        /\ UNCHANGED <<use, wakers, woken, calling>>
    BY <1>5 DEF DropGuard, DropReadGuard, DropExclusiveGuard, Goto
  <2>q. QED
    BY <1>t, <2>1, <2>2 DEF MutexInv, NoWaiterStranded, OneBusy, Busy, Registered
<1>6. ASSUME NEW t \in Tasks, WakeFirst(t), wakers = <<>> PROVE MutexInv'
  <2>1. \A u \in Tasks : ~Registered(u)
    BY <1>6, EmptySeq, LenProperties DEF Registered
  <2>2. \A u \in Tasks : pc[u] = "waiting" => u \in woken
    BY <2>1 DEF MutexInv, NoWaiterStranded
  <2>q. QED
    BY <1>6, <1>t, <2>1, <2>2
    DEF WakeFirst, Goto, MutexInv, NoWaiterStranded, OneBusy, Busy, Registered
<1>7. ASSUME NEW t \in Tasks, WakeFirst(t), wakers # <<>> PROVE MutexInv'
  <2>0. PICK first \in Tasks : first = Head(wakers)
    BY <1>7, <1>t, HeadTailProperties
  <2>1. /\ wakers' = Tail(wakers) /\ woken' = woken \cup {first}
        /\ pc[t] = "wake" /\ pc' = [pc EXCEPT ![t] = "idle"]
        /\ UNCHANGED <<use, readers, writers, calling>>
    BY <1>7, <2>0 DEF WakeFirst, Goto
  <2>2. /\ first \in Tasks /\ Registered(first)
        /\ \A u : Registered(u)' => Registered(u)
        /\ \A u : Registered(u) => u = first \/ Registered(u)'
    BY <1>7, <1>t, <2>0, <2>1, Removed
  <2>3. /\ \A i, j \in DOMAIN wakers' : wakers'[i] = wakers'[j] => i = j
        /\ ~Registered(first)'
    <3>1. /\ DOMAIN wakers = 1 .. Len(wakers) /\ Len(wakers) \in Nat /\ Len(wakers) # 0
          /\ DOMAIN wakers' = 1 .. (Len(wakers) - 1)
          /\ \A i \in 1 .. (Len(wakers) - 1) : wakers'[i] = wakers[i + 1]
      BY <1>7, <1>t, <2>1, HeadTailProperties, LenProperties, EmptySeq
    <3>2. first = wakers[1]
      BY <2>0
    <3>3. /\ 1 \in DOMAIN wakers
          /\ \A i \in DOMAIN wakers' : i + 1 \in DOMAIN wakers /\ i + 1 # 1 /\ i \in Int
      BY <3>1
    <3>4. \A i, j \in DOMAIN wakers : wakers[i] = wakers[j] => i = j
      BY DEF MutexInv
    <3>5. ASSUME NEW i \in DOMAIN wakers' PROVE wakers'[i] # first
      BY <3>1, <3>2, <3>3, <3>4
    <3>6. ASSUME NEW i \in DOMAIN wakers', NEW j \in DOMAIN wakers', wakers'[i] = wakers'[j]
          PROVE  i = j
      <4>1. i + 1 = j + 1
        BY <3>1, <3>3, <3>4, <3>6
      <4>q. QED
        BY <3>3, <4>1
    <3>q. QED
      BY <3>5, <3>6 DEF Registered
  <2>4. pc[first] = "waiting" /\ first # t
    BY <2>1, <2>2 DEF MutexInv
  <2>q. QED
    BY <1>t, <2>1, <2>2, <2>3, <2>4 DEF MutexInv, NoWaiterStranded, OneBusy, Busy
<1>8. ASSUME NEW t \in Tasks,
             WakeAll(t) \/ ClearWakers(t) \/ RegisterCall(t) \/ EnableCall(t)
      PROVE  MutexInv'
  BY <1>8 DEF WakeAll, ClearWakers, RegisterCall, EnableCall, MutexInv
<1>9. CASE CallReady \/ CallWake
  BY <1>9 DEF CallReady, CallWake, MutexInv
<1>q. QED
  BY <1>1, <1>2, <1>3, <1>4, <1>5, <1>6, <1>7, <1>8, <1>9
  DEF Next, Poll, PollWrite, PollLock, Continue
-----------------------------------------------------------------------------
(* The call.                                                               *)

LEMMA CallStep ==
    ASSUME TypeOK, CallUse, CallInv, Next
    PROVE  CallInv'
<1> USE DEF callVars, CallUse
<1>t. pc \in [Tasks -> Locations] /\ woken \subseteq Tasks /\ wakers \in Seq(Tasks)
  BY DEF TypeOK
<1>1. ASSUME NEW t \in Tasks, NEW w, Await(t, w) PROVE CallInv'
  BY <1>1, <1>t DEF Await, Goto, CallInv, NoWaiterStranded
<1>2. ASSUME NEW t \in Tasks, PollRead(t) PROVE CallInv'
  BY <1>2, WantIs DEF PollRead, MayPoll
<1>3. ASSUME NEW t \in Tasks, PollWrite(t) \/ PollLock(t) PROVE CallInv'
  BY <1>3, WantIs DEF PollWrite, PollLock, PollExclusive, MayPoll
<1>4. ASSUME NEW t \in Tasks, PollCall(t) PROVE CallInv'
  <2>1. /\ \E loc \in {"idle", "register"} : pc' = [pc EXCEPT ![t] = loc]
        /\ pc[t] = "waiting" /\ UNCHANGED use
    BY <1>4 DEF PollCall, MayPoll, Goto
  <2>q. QED
    BY <1>t, <2>1 DEF CallInv, NoWaiterStranded
<1>5. ASSUME NEW t \in Tasks, RegisterCall(t) PROVE CallInv'
  <2>1. wakers' = <<t>> /\ pc[t] = "register" /\ pc' = [pc EXCEPT ![t] = "enable"] /\ UNCHANGED use
    BY <1>5 DEF RegisterCall, Goto
  <2>2. Registered(t)'
    BY <2>1 DEF Registered
  <2>q. QED
    BY <1>t, <2>1, <2>2 DEF CallInv, NoWaiterStranded
<1>6. ASSUME NEW t \in Tasks, EnableCall(t) PROVE CallInv'
  BY <1>6, <1>t DEF EnableCall, Goto, CallInv, NoWaiterStranded, Registered
<1>7. ASSUME NEW t \in Tasks,
             DropGuard(t) \/ Register(t) \/ WakeAll(t) \/ ClearWakers(t) \/ WakeFirst(t)
      PROVE  CallInv'
  BY <1>7
  DEF DropGuard, DropReadGuard, DropExclusiveGuard, Register, WakeAll, ClearWakers, WakeFirst,
      CallInv
<1>8. CASE CallReady
  BY <1>8, <1>t DEF CallReady, CallInv, NoWaiterStranded, Registered
<1>9. CASE CallWake
  <2>1. use.asked => \A u \in Tasks : pc'[u] = "waiting" => u \in woken'
    BY <1>9 DEF CallWake, ReadyWaker, CallInv, NoWaiterStranded
  <2>q. QED
    BY <1>9, <1>t, <2>1 DEF CallWake, CallInv, NoWaiterStranded, Registered
<1>q. QED
  BY <1>1, <1>2, <1>3, <1>4, <1>5, <1>6, <1>7, <1>8, <1>9 DEF Next, Poll, Continue

-----------------------------------------------------------------------------

\* Nobody replaces a lock or changes how it is used.
LEMMA UseStays == [Next]_vars => UNCHANGED use
BY DEF Next, vars, Await, Poll, PollRead, PollWrite, PollLock, PollExclusive, PollCall, Continue,
    Register, WakeAll, ClearWakers, WakeFirst, RegisterCall, EnableCall, DropGuard, DropReadGuard,
    DropExclusiveGuard, CallReady, CallWake

LEMMA StepInv == AsyncInv /\ [Next]_vars => AsyncInv'
<1> SUFFICES ASSUME AsyncInv, [Next]_vars PROVE AsyncInv'
  OBVIOUS
<1>1. TypeOK /\ TypeOK'
  BY NextTypes DEF AsyncInv
<1>2. /\ RwLockUse' <=> RwLockUse
      /\ MutexUse' <=> MutexUse
      /\ CallUse' <=> CallUse
  BY UseStays DEF RwLockUse, MutexUse, CallUse, OneHart
<1>3. CASE Next
  BY <1>1, <1>2, <1>3, RwLockStep, MutexStep, CallStep DEF AsyncInv
<1>4. CASE UNCHANGED vars
  <2>1. RwLockInv => RwLockInv'
    BY <1>4 DEF vars, RwLockInv, NoWaiterStranded, OneBusy, Busy, Guards, Registered
  <2>2. MutexInv => MutexInv'
    BY <1>4 DEF vars, MutexInv, NoWaiterStranded, OneBusy, Busy, Guards, Registered
  <2>3. CallInv => CallInv'
    BY <1>4 DEF vars, CallInv, NoWaiterStranded, Guards, Registered
  <2>q. QED
    BY <1>1, <1>2, <2>1, <2>2, <2>3 DEF AsyncInv
<1>q. QED
  BY <1>3, <1>4

\* The futures of future/mutex.rs, future/rwlock.rs and wait_future.rs: among any
\* number of tasks of one hart, an RwLock and a Mutex that is polled only after a
\* wake-up strand no waiter, and neither does a call that enable() asks for, on
\* any harts.
THEOREM NobodyIsStranded == Spec => []WaiterWillBeWoken
<1>1. AsyncInv => WaiterWillBeWoken
  BY DEF AsyncInv, WaiterWillBeWoken, RwLockUse, MutexUse, CallUse, RwLockInv, MutexInv, CallInv
<1>q. QED
  BY InitInv, StepInv, <1>1, PTL DEF Spec
=============================================================================
