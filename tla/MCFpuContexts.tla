---------------------------- MODULE MCFpuContexts ----------------------------
(* Three threads, fewer cache slots, two values a lane.                      *)
EXTENDS FpuContexts

CONSTANTS c1, c2, c3
=============================================================================
