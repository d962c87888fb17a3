--------------------------- MODULE MCLocalExecutor ---------------------------
EXTENDS LocalExecutor

MCChild == "spawner" :> "child" @@ "spawner2" :> "child2"

MCUses == [redriven : BOOLEAN, first : BOOLEAN]
=============================================================================
