-------------------------- MODULE MCProcessSwitch --------------------------
(* The environments that the runs cover.                                   *)
EXTENDS ProcessSwitch

MCEnvs == EnvType
=============================================================================
