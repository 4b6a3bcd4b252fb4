----------------------------- MODULE FpuContexts -----------------------------
(***************************************************************************)
(* The cache of floating-point contexts in the Strikers host               *)
(* (StrikersRecomp/runtime/host/interrupt.c): delivering an external       *)
(* interrupt captures the exact registers of the interrupted context, the  *)
(* guest's OSLoadContext gives them back.  The OSContext in guest memory   *)
(* keeps the scalar registers only; the second lane of the paired singles  *)
(* lives nowhere but in the cache.                                         *)
(*                                                                         *)
(* Contexts change hands through an interrupt here.  The switch a thread   *)
(* asks for itself goes through the guest's own lazy save, which is guest  *)
(* code.                                                                   *)
(***************************************************************************)
EXTENDS Integers

CONSTANTS
    Context,        \* the OSContexts of the guest's threads
    NoContext,      \* the context pointer before the first thread runs
    Lane,           \* values of a register lane
    NotPreempted,   \* no registers
    CacheCapacity,  \* FPU_CONTEXT_CACHE_CAPACITY (32)
    MaxAge          \* captures counted since a context's own (bound)

Fpu == [fpr : Lane, ps1 : Lane]

ASSUME ContextAssumption ==
    /\ NoContext \notin Context
    /\ Lane # {} /\ NotPreempted \notin Fpu
    /\ CacheCapacity \in Nat \ {0}
    /\ MaxAge \in Nat /\ MaxAge >= CacheCapacity

CacheSlots == 0 .. CacheCapacity - 1

VARIABLES
    fpu,        \* cpu->fpr and fpscr, cpu->ps1
    cache,      \* fpu_context_cache
    cacheNext,  \* fpu_context_cache_next
    osContext,  \* the OSContexts: CTX_STATE's FPSAVED bit and CTX_FPR
    cur,        \* the guest's current-context pointer
    handling,   \* between a delivery and the OSLoadContext that ends it
    kept,       \* history: what a preempted context held when it was interrupted
    age         \* history: captures of other contexts since

fpuVars == <<fpu, cache, cacheNext, osContext, kept, age>>
contextVars == <<fpuVars, cur, handling>>

ContextTypeOK ==
    /\ fpu \in Fpu
    /\ cache \in [CacheSlots -> [valid : BOOLEAN, context : Context \cup {NoContext}, fpu : Fpu]]
    /\ cacheNext \in CacheSlots
    /\ osContext \in [Context -> [saved : BOOLEAN, fpr : Lane]]
    /\ cur \in Context \cup {NoContext}
    /\ handling \in BOOLEAN
    /\ kept \in [Context -> Fpu \cup {NotPreempted}]
    /\ age \in [Context -> 0 .. MaxAge]

ContextInit ==
    /\ fpu \in {f \in Fpu : f.fpr = f.ps1}
    /\ cache = [s \in CacheSlots |-> [valid |-> FALSE, context |-> NoContext, fpu |-> fpu]]
    /\ cacheNext = 0
    /\ osContext = [c \in Context |-> [saved |-> FALSE, fpr |-> fpu.fpr]]
    /\ cur = NoContext
    /\ handling = FALSE
    /\ kept = [c \in Context |-> NotPreempted]
    /\ age = [c \in Context |-> 0]

-----------------------------------------------------------------------------

find_fpu_context(c) == {s \in CacheSlots : cache[s].valid /\ cache[s].context = c}

\* CaptureStill: the next slot is not moved on.
CaptureStill(c) ==
    LET found == find_fpu_context(c)
        s == IF found # {} THEN CHOOSE t \in found : TRUE ELSE cacheNext
    IN  /\ cache' = [cache EXCEPT ![s] = [valid |-> TRUE, context |-> c, fpu |-> fpu]]
        /\ UNCHANGED cacheNext

\* The entry of the context, or the next slot in turn, whether it is valid or not.
capture_fpu_context(c) ==
    LET found == find_fpu_context(c)
        s == IF found # {} THEN CHOOSE t \in found : TRUE ELSE cacheNext
    IN  /\ cache' = [cache EXCEPT ![s] = [valid |-> TRUE, context |-> c, fpu |-> fpu]]
        /\ cacheNext' = IF found # {} THEN cacheNext ELSE (cacheNext + 1) % CacheCapacity

\* The part of deliver_external that saves the current context.
SaveContext ==
    /\ capture_fpu_context(cur)
    /\ osContext' = [osContext EXCEPT ![cur] = [saved |-> TRUE, fpr |-> fpu.fpr]]
    /\ kept' = [kept EXCEPT ![cur] = fpu]
    /\ age' = [c \in Context |-> IF c = cur THEN 0
                                 ELSE IF age[c] < MaxAge THEN age[c] + 1 ELSE MaxAge]
    /\ UNCHANGED fpu

\* RestoreKeepsEntry: the entry stays valid after it has been used.
RestoreKeepsEntry(c) ==
    /\ IF find_fpu_context(c) # {}
       THEN fpu' = cache[CHOOSE t \in find_fpu_context(c) : TRUE].fpu
       ELSE fpu' = IF osContext[c].saved THEN [fpu EXCEPT !.fpr = osContext[c].fpr] ELSE fpu
    /\ kept' = [kept EXCEPT ![c] = NotPreempted]
    /\ UNCHANGED <<cache, cacheNext, osContext, age>>

\* interrupt_restore_fpu_context: an entry is used once; without one the scalar
\* registers come from the OSContext and the second lane is left as it is.
RestoreContext(c) ==
    /\ IF find_fpu_context(c) # {}
       THEN LET s == CHOOSE t \in find_fpu_context(c) : TRUE
            IN  /\ fpu' = cache[s].fpu
                /\ cache' = [cache EXCEPT ![s].valid = FALSE]
       ELSE /\ fpu' = IF osContext[c].saved THEN [fpu EXCEPT !.fpr = osContext[c].fpr] ELSE fpu
            /\ UNCHANGED cache
    /\ kept' = [kept EXCEPT ![c] = NotPreempted]
    /\ UNCHANGED <<cacheNext, osContext, age>>

-----------------------------------------------------------------------------

\* An external interrupt arrives in the running thread ...
Preempt ==
    /\ cur # NoContext
    /\ ~handling
    /\ SaveContext
    /\ handling' = TRUE
    /\ UNCHANGED cur

\* ... and the dispatcher ends in OSLoadContext of the thread it chose.
LoadContext(c) ==
    /\ handling \/ cur = NoContext
    /\ RestoreContext(c)
    /\ cur' = c
    /\ handling' = FALSE

\* The running thread computes.
Compute ==
    /\ cur # NoContext
    /\ ~handling
    /\ fpu' \in Fpu
    /\ UNCHANGED <<cache, cacheNext, osContext, kept, age, cur, handling>>

ContextNext == Preempt \/ Compute \/ \E c \in Context : LoadContext(c)

ContextSpec == ContextInit /\ [][ContextNext]_contextVars

-----------------------------------------------------------------------------

\* A valid entry belongs to a preempted context, is its only one and holds what
\* that context was interrupted with: a restore never hands out another
\* thread's registers or an older capture.
CacheOwn ==
    \A s \in CacheSlots : cache[s].valid =>
        /\ cache[s].context \in Context
        /\ kept[cache[s].context] = cache[s].fpu
        /\ find_fpu_context(cache[s].context) = {s}

\* What the turn-taking guarantees: the entry of a preempted context survives
\* until as many other captures as the cache has slots.
RecentKept ==
    \A c \in Context :
        kept[c] # NotPreempted /\ age[c] < CacheCapacity => find_fpu_context(c) # {}

\* "every resumed context has an exact cache entry from deliver_external()"
\* (interrupt.c): a preempted thread resumes with the registers it lost.
RestoreExact ==
    [][\A c \in Context :
         kept[c] # NotPreempted /\ kept'[c] = NotPreempted => fpu' = kept[c]]_contextVars
=============================================================================
