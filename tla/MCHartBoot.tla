----------------------------- MODULE MCHartBoot -----------------------------
(* Machines of up to four harts, with a gap in the numbering or none, that   *)
(* the firmware boots on one or two harts, and with a hart that cannot start. *)
EXTENDS HartBoot, FiniteSets

MCMachines ==
    {m \in [harts : {0..0, 0..1, 0..2, 0..3, {0, 2}, {1, 2, 3}},
            firmware : SUBSET Ids, broken : {{}, {2}}] :
        /\ m.firmware \subseteq m.harts /\ Cardinality(m.firmware) \in {1, 2}
        /\ m.broken \subseteq m.harts \ m.firmware}
=============================================================================
