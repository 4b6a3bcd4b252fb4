--------------------------- MODULE MCInterruptPoll ---------------------------
(* Frames of two blocks polled in batches of three, so that a batch may hold *)
(* none, one or two retraces; one thread, since FpuContexts has its own run. *)
EXTENDS InterruptPoll

CONSTANTS c1, vb
MCMasks == {{}, Source}
MCSiMasks == {<<FALSE, FALSE>>, <<TRUE, TRUE>>}
=============================================================================
