---------------------------- MODULE MCSharedLock ----------------------------
(* The locks and their uses that the runs cover.                           *)
EXTENDS SharedLock

Use(len, try, send, held, locks) ==
    [len |-> len, try |-> try, send |-> send, held |-> held, locks |-> locks,
     write |-> FALSE, ids |-> TRUE]

\* Guards one at a time and nested; try_lock with a hart that has no entry yet;
\* sent guards from an empty HART_LOCK_COUNT; a simple_shared::Mutex beside a shared
\* one; interrupt locks; processes of new_supervisor.
MCUses == {Use(2, FALSE, FALSE, 1, {1, 2}),
           Use(2, FALSE, FALSE, 2, {1, 2}),
           Use(1, TRUE,  FALSE, 2, {1, 2}),
           Use(0, FALSE, TRUE,  1, {2}),
           Use(2, TRUE,  FALSE, 1, {1, 3}),
           Use(2, TRUE,  FALSE, 2, {4, 5}),
           [Use(2, FALSE, FALSE, 1, {4, 5}) EXCEPT !.write = TRUE],
           [Use(0, FALSE, FALSE, 1, {1, 2}) EXCEPT !.ids = FALSE]}

\* No hart has an entry yet.
MCBoot == {Use(0, FALSE, FALSE, 1, {1, 2})}
=============================================================================
