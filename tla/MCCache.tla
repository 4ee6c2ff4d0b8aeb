------------------------------ MODULE MCCache ------------------------------
(* Module CacheSystem for TLC; the constants are in the configurations.      *)
EXTENDS CacheSystem
=============================================================================
