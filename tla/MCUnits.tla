------------------------------- MODULE MCUnits -------------------------------
(* The units that share no state: the event clock, the translator's worker   *)
(* pool, the callback ring, the memory card, the FPU contexts and the        *)
(* lockstep verifier.  Each is explored alone, with the others at rest.      *)
EXTENDS EventClock, Jobs, CallbackQueue, MemoryCard, FpuContexts, Lockstep

CONSTANTS e1, e2, e3, cb1, cb2, g1, g2, n1, n2, c1, c2, c3, mem1, a, b

VARIABLE unit

UnitsInit ==
    /\ unit \in {"clock", "jobs", "callbacks", "card", "contexts", "lockstep"}
    /\ ClockInit /\ JobsInit /\ CallbackInit /\ CardInit /\ ContextInit /\ LockstepInit
    /\ unit # "jobs" => jobCount = 0 /\ requested = 0
    /\ unit # "callbacks" => cpu = g1
    /\ unit # "card" => medium = "none" /\ path = Nothing("absent")
    /\ unit # "contexts" => fpu.fpr = "a"
    /\ unit # "lockstep" => block = a

UnitsNext ==
    /\ UNCHANGED unit
    /\ \/ unit = "clock" /\ ClockNext
       \/ unit # "clock" /\ UNCHANGED clockVars
    /\ \/ unit = "jobs" /\ JobsNext
       \/ unit # "jobs" /\ UNCHANGED jobsVars
    /\ \/ unit = "callbacks" /\ CallbackNext
       \/ unit # "callbacks" /\ UNCHANGED callbackVars
    /\ \/ unit = "card" /\ CardNext
       \/ unit # "card" /\ UNCHANGED cardVars
    /\ \/ unit = "contexts" /\ ContextNext
       \/ unit # "contexts" /\ UNCHANGED contextVars
    /\ \/ unit = "lockstep" /\ LockstepNext
       \/ unit # "lockstep" /\ UNCHANGED lockstepVars

unitsVars ==
    <<unit, clockVars, jobsVars, callbackVars, cardVars, contextVars, lockstepVars>>

\* The fairness of the worker pool's own specification.
UnitsSpec ==
    /\ UnitsInit /\ [][UnitsNext]_unitsVars
    /\ WF_jobsVars(unit = "jobs" /\ MainStep)
    /\ \A w \in Worker : WF_jobsVars(unit = "jobs" /\ chunk_worker_main(w))
=============================================================================
