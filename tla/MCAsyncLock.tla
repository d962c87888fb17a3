---------------------------- MODULE MCAsyncLock ----------------------------
(* The locks and their uses that the runs cover.                           *)
EXTENDS AsyncLock

CONSTANTS a, b, c

Use(kind, harts, spurious, asked) ==
    [kind |-> kind, harts |-> harts, spurious |-> spurious, asked |-> asked]

\* One hart: an RwLock with spurious polls, a Mutex without.  Several harts: a call.
MCUses ==
    {Use("rwlock", {Tasks}, TRUE, FALSE), Use("mutex", {Tasks}, FALSE, FALSE)}
        \cup {Use("call", {{a, b}, Tasks \ {a, b}}, TRUE, asked) : asked \in BOOLEAN}

MCTwoHarts == {Use("rwlock", {{a, b}, {c}}, FALSE, FALSE)}
=============================================================================
