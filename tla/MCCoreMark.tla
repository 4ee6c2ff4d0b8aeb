----------------------------- MODULE MCCoreMark -----------------------------
(* Parameters for module CoreMark: the three runs of core_portme.c whose      *)
(* results core_main.c knows, and small ones with an odd number of searches,  *)
(* one of them with a zero byte that is corrupted.                            *)
EXTENDS CoreMark

P(s1, s2, s3, size) == [seed1 |-> s1, seed2 |-> s2, seed3 |-> s3, TOTAL_DATA_SIZE |-> size]

MCParams == {
  P(0, 0, 102, 2000),           \* PERFORMANCE_RUN
  P(13333, 13333, 102, 2000),   \* VALIDATION_RUN: 0x3415
  P(8, 8, 8, 1200),             \* PROFILE_RUN
  P(5, 5, 3, 420),
  P(2, 2, 3, 513) }
=============================================================================
