----------------------------- MODULE RwLockAbs -----------------------------
(***************************************************************************)
(* What a reader-writer lock promises its callers: any number of shared    *)
(* guards or a single exclusive one, each granted and given back in one    *)
(* step.  Guards are GuardSend, so a guard may be handed to another        *)
(* thread and given back there.                                            *)
(*                                                                         *)
(* SpinRwLock is shown to implement this specification, and SharedLock and *)
(* AsyncRwLock use the lock at this level.                                 *)
(***************************************************************************)
CONSTANT Threads

VARIABLES readers, writers

absVars == <<readers, writers>>

AbsInit ==
    /\ readers = {}
    /\ writers = {}

AcquireShared(t) ==
    /\ writers = {}
    /\ t \notin readers
    /\ readers' = readers \cup {t}
    /\ UNCHANGED writers

ReleaseShared(t) ==
    /\ t \in readers
    /\ readers' = readers \ {t}
    /\ UNCHANGED writers

AcquireExclusive(t) ==
    /\ readers = {}
    /\ writers = {}
    /\ writers' = {t}
    /\ UNCHANGED readers

ReleaseExclusive(t) ==
    /\ t \in writers
    /\ writers' = writers \ {t}
    /\ UNCHANGED readers

HandOver(t, u) ==
    /\ u \notin readers \cup writers
    /\ \/ /\ t \in readers
          /\ readers' = (readers \ {t}) \cup {u}
          /\ UNCHANGED writers
       \/ /\ t \in writers
          /\ writers' = (writers \ {t}) \cup {u}
          /\ UNCHANGED readers

AbsNext ==
    \E t \in Threads :
        \/ AcquireShared(t)
        \/ ReleaseShared(t)
        \/ AcquireExclusive(t)
        \/ ReleaseExclusive(t)
        \/ \E u \in Threads : HandOver(t, u)

AbsSpec == AbsInit /\ [][AbsNext]_absVars
=============================================================================
