--------------------------- MODULE MCSendExecutor ---------------------------
(* The uses that the run covers: one or two harts await the handle once, the *)
(* way common_hart_code awaits the one of the local executor, with tasks     *)
(* that spawn others in their polls; and one hart that awaits it for ever,   *)
(* with tasks that do not spawn others, or not in their first poll.          *)
EXTENDS SendExecutor

CONSTANTS d1, d2

Use(drivers, redriven, spawns, maxQueue, maxWaking, maxRegistered) ==
    [drivers |-> drivers, redriven |-> redriven, spawns |-> spawns,
     maxQueue |-> maxQueue, maxWaking |-> maxWaking, maxRegistered |-> maxRegistered]

MCUses == {Use({d1, d2}, FALSE, "any", 1, 1, 2),
           Use({d1}, FALSE, "any", 1, 1, 2),
           Use({d1}, TRUE, "never", 3, 2, 1),
           Use({d1}, TRUE, "later", 2, 1, 1)}
=============================================================================
