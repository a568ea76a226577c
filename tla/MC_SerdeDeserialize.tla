-------------------------- MODULE MC_SerdeDeserialize --------------------------
(* Model-checking instance of SerdeDeserialize; the constants are set in *)
(* MC_SerdeDeserialize.cfg and MC_SerdeDeserialize_Fitting.cfg.          *)
EXTENDS SerdeDeserialize
=============================================================================
