-------------------------- MODULE MCStaticRecompRun --------------------------
(* One chunk, which holds the idle loop; two slices.                         *)
EXTENDS StaticRecompRun

CONSTANT c1
=============================================================================
