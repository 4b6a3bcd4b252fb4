-------------------------- MODULE FpuContexts_proofs --------------------------
(***************************************************************************)
(* The cache of floating-point contexts never hands out the registers of   *)
(* another thread, for any number of threads and slots; and the turn-      *)
(* taking keeps an entry for as many captures as there are slots.          *)
(***************************************************************************)
EXTENDS FpuContexts, TLAPS

\* The thread that runs has not been preempted: its entry was used up.
RunnerIsFree == ~handling /\ cur # NoContext => kept[cur] = NotPreempted

\* Before the first thread runs nothing has been captured, and a delivery is
\* always inside some thread.
HandlingInThread == handling => cur # NoContext

OwnInv == ContextTypeOK /\ RunnerIsFree /\ HandlingInThread /\ CacheOwn

\* A capture takes a valid slot for the context, and moves the turn on.
LEMMA SlotFacts ==
    /\ 0 \in CacheSlots
    /\ \A s \in CacheSlots : (s + 1) % CacheCapacity \in CacheSlots
  <1>. USE ContextAssumption DEF CacheSlots
  <1>1. 0 \in CacheSlots
    OBVIOUS
  <1>2. ASSUME NEW s \in CacheSlots
        PROVE (s + 1) % CacheCapacity \in CacheSlots
    <2>1. s + 1 \in Nat /\ CacheCapacity \in Nat /\ CacheCapacity > 0
      OBVIOUS
    <2>. QED BY <2>1
  <1>. QED BY <1>1, <1>2

\* It holds at first.
LEMMA OwnInit == ContextInit => OwnInv
  <1>. SUFFICES ASSUME ContextInit PROVE OwnInv
    OBVIOUS
  <1>. USE ContextAssumption DEF ContextInit
  <1>1. fpu \in Fpu
    OBVIOUS
  <1>2. ContextTypeOK
    <2>1. cache \in [CacheSlots -> [valid : BOOLEAN, context : Context \cup {NoContext}, fpu : Fpu]]
      BY <1>1
    <2>2. osContext \in [Context -> [saved : BOOLEAN, fpr : Lane]]
      BY <1>1 DEF Fpu
    <2>3. cacheNext \in CacheSlots /\ cur \in Context \cup {NoContext} /\ handling \in BOOLEAN
      BY SlotFacts
    <2>4. kept \in [Context -> Fpu \cup {NotPreempted}]
      OBVIOUS
    <2>5. age \in [Context -> 0 .. MaxAge]
      <3>1. 0 \in 0 .. MaxAge
        OBVIOUS
      <3>. QED BY <3>1
    <2>. QED BY <1>1, <2>1, <2>2, <2>3, <2>4, <2>5 DEF ContextTypeOK
  <1>3. CacheOwn
    BY DEF CacheOwn
  <1>. QED BY <1>2, <1>3 DEF OwnInv, RunnerIsFree, HandlingInThread

\* Capturing the running thread keeps the cache honest.
LEMMA OwnPreempt == OwnInv /\ Preempt => OwnInv'
  <1>. SUFFICES ASSUME OwnInv, Preempt PROVE OwnInv'
    OBVIOUS
  <1>. USE ContextAssumption
  <1>1. /\ cur \in Context /\ kept[cur] = NotPreempted /\ fpu \in Fpu
        /\ cacheNext \in CacheSlots
    BY DEF OwnInv, Preempt, RunnerIsFree, ContextTypeOK
  <1>2. find_fpu_context(cur) = {}
    BY <1>1 DEF OwnInv, CacheOwn, find_fpu_context, ContextTypeOK
  <1>3. /\ cache' = [cache EXCEPT ![cacheNext] = [valid |-> TRUE, context |-> cur, fpu |-> fpu]]
        /\ cacheNext' = (cacheNext + 1) % CacheCapacity
        /\ kept' = [kept EXCEPT ![cur] = fpu]
        /\ fpu' = fpu /\ cur' = cur /\ handling' = TRUE
    BY <1>2 DEF Preempt, SaveContext, capture_fpu_context
  <1>4. ContextTypeOK'
    <2>1. cache' \in [CacheSlots -> [valid : BOOLEAN, context : Context \cup {NoContext}, fpu : Fpu]]
      BY <1>1, <1>3 DEF OwnInv, ContextTypeOK
    <2>2. cacheNext' \in CacheSlots
      BY <1>1, <1>3, SlotFacts
    <2>3. osContext' \in [Context -> [saved : BOOLEAN, fpr : Lane]]
      BY <1>1 DEF OwnInv, ContextTypeOK, Preempt, SaveContext, Fpu
    <2>4. kept' \in [Context -> Fpu \cup {NotPreempted}]
      BY <1>1, <1>3 DEF OwnInv, ContextTypeOK
    <2>5. age' \in [Context -> 0 .. MaxAge]
      BY DEF OwnInv, ContextTypeOK, Preempt, SaveContext
    <2>. QED BY <1>1, <1>3, <2>1, <2>2, <2>3, <2>4, <2>5 DEF ContextTypeOK
  <1>5. CacheOwn'
    <2>. SUFFICES ASSUME NEW s \in CacheSlots, cache'[s].valid
                  PROVE /\ cache'[s].context \in Context
                        /\ kept'[cache'[s].context] = cache'[s].fpu
                        /\ \A t \in CacheSlots : cache'[t].valid /\ cache'[t].context = cache'[s].context => t = s
      BY DEF CacheOwn, find_fpu_context
    <2>0. cache \in [CacheSlots -> [valid : BOOLEAN, context : Context \cup {NoContext}, fpu : Fpu]]
          /\ kept \in [Context -> Fpu \cup {NotPreempted}]
      BY DEF OwnInv, ContextTypeOK
    <2>1. CASE s = cacheNext
      <3>1. cache'[s].context = cur /\ cache'[s].fpu = fpu
        BY <1>1, <1>3, <2>0, <2>1
      <3>2. \A t \in CacheSlots : cache'[t].valid /\ cache'[t].context = cur => t = s
        BY <1>1, <1>2, <1>3, <2>0, <2>1 DEF find_fpu_context
      <3>3. kept'[cur] = fpu
        BY <1>1, <1>3, <2>0
      <3>. QED BY <1>1, <3>1, <3>2, <3>3
    <2>2. CASE s # cacheNext
      <3>1. cache'[s] = cache[s] /\ cache[s].valid
        BY <1>1, <1>3, <2>0, <2>2
      <3>2. /\ cache[s].context \in Context /\ kept[cache[s].context] = cache[s].fpu
            /\ find_fpu_context(cache[s].context) = {s}
        BY <3>1 DEF OwnInv, CacheOwn
      <3>3. cache[s].context # cur
        BY <1>2, <3>1 DEF find_fpu_context
      <3>4. kept'[cache[s].context] = cache[s].fpu
        BY <1>1, <1>3, <2>0, <3>2, <3>3
      <3>5. \A t \in CacheSlots : cache'[t].valid /\ cache'[t].context = cache[s].context => t = s
        <4>. TAKE t \in CacheSlots
        <4>1. CASE t = cacheNext
          BY <1>1, <1>3, <2>0, <3>3, <4>1
        <4>2. CASE t # cacheNext
          BY <1>1, <1>3, <2>0, <3>2, <4>2 DEF find_fpu_context
        <4>. QED BY <4>1, <4>2
      <3>. QED BY <3>1, <3>2, <3>4, <3>5
    <2>. QED BY <2>1, <2>2
  <1>6. RunnerIsFree' /\ HandlingInThread'
    BY <1>1, <1>3 DEF RunnerIsFree, HandlingInThread
  <1>. QED BY <1>4, <1>5, <1>6 DEF OwnInv

\* Restoring a context uses its entry up.
LEMMA OwnLoad == ASSUME NEW c \in Context, OwnInv, LoadContext(c) PROVE OwnInv'
  <1>. USE ContextAssumption
  <1>0. /\ cache \in [CacheSlots -> [valid : BOOLEAN, context : Context \cup {NoContext}, fpu : Fpu]]
        /\ kept \in [Context -> Fpu \cup {NotPreempted}]
        /\ osContext \in [Context -> [saved : BOOLEAN, fpr : Lane]]
        /\ fpu \in Fpu
    BY DEF OwnInv, ContextTypeOK
  <1>1. /\ kept' = [kept EXCEPT ![c] = NotPreempted]
        /\ cur' = c /\ handling' = FALSE
        /\ cacheNext' = cacheNext /\ osContext' = osContext /\ age' = age
    BY DEF LoadContext, RestoreContext
  <1>2. ASSUME NEW s \in CacheSlots
        PROVE /\ cache'[s].valid => cache[s].valid /\ cache[s].context # c
              /\ cache'[s].context = cache[s].context /\ cache'[s].fpu = cache[s].fpu
    <2>1. CASE find_fpu_context(c) = {}
      BY <1>0, <2>1 DEF LoadContext, RestoreContext, find_fpu_context
    <2>2. CASE find_fpu_context(c) # {}
      <3>1. PICK t \in CacheSlots :
               /\ t \in find_fpu_context(c)
               /\ cache' = [cache EXCEPT ![t].valid = FALSE]
        BY <2>2 DEF LoadContext, RestoreContext, find_fpu_context
      <3>2. cache[s].valid /\ cache[s].context = c => s = t
        BY <3>1 DEF OwnInv, CacheOwn, find_fpu_context
      <3>. QED BY <1>0, <3>1, <3>2
    <2>. QED BY <2>1, <2>2
  <1>3. cache' \in [CacheSlots -> [valid : BOOLEAN, context : Context \cup {NoContext}, fpu : Fpu]]
    <2>1. CASE find_fpu_context(c) = {}
      BY <1>0, <2>1 DEF LoadContext, RestoreContext
    <2>2. CASE find_fpu_context(c) # {}
      <3>1. PICK t \in CacheSlots : cache' = [cache EXCEPT ![t].valid = FALSE]
        BY <2>2 DEF LoadContext, RestoreContext, find_fpu_context
      <3>. QED BY <1>0, <3>1
    <2>. QED BY <2>1, <2>2
  <1>4. fpu' \in Fpu
    <2>1. CASE find_fpu_context(c) = {}
      BY <1>0, <2>1 DEF LoadContext, RestoreContext, Fpu
    <2>2. CASE find_fpu_context(c) # {}
      <3>1. PICK t \in CacheSlots : fpu' = cache[t].fpu
        BY <2>2 DEF LoadContext, RestoreContext, find_fpu_context
      <3>. QED BY <1>0, <3>1
    <2>. QED BY <2>1, <2>2
  <1>5. ContextTypeOK'
    <2>1. kept' \in [Context -> Fpu \cup {NotPreempted}]
      BY <1>0, <1>1
    <2>. QED BY <1>1, <1>3, <1>4, <2>1 DEF OwnInv, ContextTypeOK
  <1>6. CacheOwn'
    <2>. SUFFICES ASSUME NEW s \in CacheSlots, cache'[s].valid
                  PROVE /\ cache'[s].context \in Context
                        /\ kept'[cache'[s].context] = cache'[s].fpu
                        /\ \A t \in CacheSlots : cache'[t].valid /\ cache'[t].context = cache'[s].context => t = s
      BY DEF CacheOwn, find_fpu_context
    <2>1. /\ cache[s].valid /\ cache[s].context # c
          /\ cache'[s].context = cache[s].context /\ cache'[s].fpu = cache[s].fpu
      BY <1>2
    <2>2. /\ cache[s].context \in Context /\ kept[cache[s].context] = cache[s].fpu
          /\ find_fpu_context(cache[s].context) = {s}
      BY <2>1 DEF OwnInv, CacheOwn
    <2>3. kept'[cache[s].context] = cache[s].fpu
      BY <1>0, <1>1, <2>1, <2>2
    <2>4. \A t \in CacheSlots : cache'[t].valid /\ cache'[t].context = cache[s].context => t = s
      BY <1>2, <2>2 DEF find_fpu_context
    <2>. QED BY <2>1, <2>2, <2>3, <2>4
  <1>7. RunnerIsFree' /\ HandlingInThread'
    BY <1>0, <1>1 DEF RunnerIsFree, HandlingInThread
  <1>. QED BY <1>5, <1>6, <1>7 DEF OwnInv

\* Every step keeps it.
LEMMA OwnStep == OwnInv /\ [ContextNext]_contextVars => OwnInv'
  <1>. SUFFICES ASSUME OwnInv, [ContextNext]_contextVars PROVE OwnInv'
    OBVIOUS
  <1>1. CASE Preempt
    BY <1>1, OwnPreempt
  <1>2. CASE Compute
    <2>1. ContextTypeOK'
      BY <1>2 DEF OwnInv, ContextTypeOK, Compute
    <2>2. CacheOwn' /\ RunnerIsFree' /\ HandlingInThread'
      BY <1>2 DEF OwnInv, CacheOwn, RunnerIsFree, HandlingInThread, Compute, find_fpu_context
    <2>. QED BY <2>1, <2>2 DEF OwnInv
  <1>3. ASSUME NEW c \in Context, LoadContext(c) PROVE OwnInv'
    BY <1>3, OwnLoad
  <1>4. CASE UNCHANGED contextVars
    <2>. USE <1>4 DEF contextVars, fpuVars
    <2>1. ContextTypeOK'
      BY DEF OwnInv, ContextTypeOK
    <2>2. CacheOwn' /\ RunnerIsFree' /\ HandlingInThread'
      BY DEF OwnInv, CacheOwn, RunnerIsFree, HandlingInThread, find_fpu_context
    <2>. QED BY <2>1, <2>2 DEF OwnInv
  <1>. QED BY <1>1, <1>2, <1>3, <1>4 DEF ContextNext

\* Every entry of fpu_context_cache holds what its context was interrupted with
\* and is the only one for it: interrupt_restore_fpu_context never loads another
\* thread's registers, however many threads and slots there are.
THEOREM CacheIsOwn == ContextSpec => []CacheOwn
  <1>1. ContextInit => OwnInv
    BY OwnInit
  <1>2. OwnInv /\ [ContextNext]_contextVars => OwnInv'
    BY OwnStep
  <1>3. OwnInv => CacheOwn
    BY DEF OwnInv
  <1>. QED BY <1>1, <1>2, <1>3, PTL DEF ContextSpec

-----------------------------------------------------------------------------

\* The slot that was filled a captures before the turn stood at k.
Back(k, a) == IF a + 1 <= k THEN k - 1 - a ELSE k - 1 - a + CacheCapacity

\* Where the entry of a preempted context is, as long as it can be there.
TurnInv ==
    \A c \in Context :
        kept[c] # NotPreempted /\ age[c] < CacheCapacity =>
            /\ cache[Back(cacheNext, age[c])].valid
            /\ cache[Back(cacheNext, age[c])].context = c

\* Slots counted backwards from the turn: one capture moves each of them one further back.
LEMMA BackFacts ==
    ASSUME NEW k \in CacheSlots, NEW a \in Nat, a < CacheCapacity
    PROVE  /\ Back(k, a) \in CacheSlots
           /\ Back((k + 1) % CacheCapacity, 0) = k
           /\ a + 1 < CacheCapacity =>
                /\ Back((k + 1) % CacheCapacity, a + 1) = Back(k, a)
                /\ Back(k, a) # k
  <1>. USE ContextAssumption DEF CacheSlots
  <1>1. (k + 1) % CacheCapacity = IF k + 1 = CacheCapacity THEN 0 ELSE k + 1
    <2>1. CASE k + 1 = CacheCapacity
      BY <2>1
    <2>2. CASE k + 1 # CacheCapacity
      <3>1. k + 1 \in Nat /\ k + 1 < CacheCapacity /\ CacheCapacity \in Nat
        BY <2>2
      <3>. QED BY <3>1
    <2>. QED BY <2>1, <2>2
  <1>. QED BY <1>1 DEF Back

\* A capture takes the slot in turn and ages the others by one.
LEMMA TurnPreempt == OwnInv /\ TurnInv /\ Preempt => TurnInv'
  <1>. SUFFICES ASSUME OwnInv, TurnInv, Preempt,
                       NEW c \in Context, kept'[c] # NotPreempted, age'[c] < CacheCapacity
                PROVE  /\ cache'[Back(cacheNext', age'[c])].valid
                       /\ cache'[Back(cacheNext', age'[c])].context = c
    BY DEF TurnInv, Back
  <1>. USE ContextAssumption
  <1>0. /\ cache \in [CacheSlots -> [valid : BOOLEAN, context : Context \cup {NoContext}, fpu : Fpu]]
        /\ kept \in [Context -> Fpu \cup {NotPreempted}]
        /\ age \in [Context -> 0 .. MaxAge]
        /\ cacheNext \in CacheSlots /\ cur \in Context /\ kept[cur] = NotPreempted
    BY DEF OwnInv, ContextTypeOK, RunnerIsFree, Preempt
  <1>1. find_fpu_context(cur) = {}
    BY <1>0 DEF OwnInv, CacheOwn, find_fpu_context
  <1>2. /\ cache' = [cache EXCEPT ![cacheNext] = [valid |-> TRUE, context |-> cur, fpu |-> fpu]]
        /\ cacheNext' = (cacheNext + 1) % CacheCapacity
        /\ kept' = [kept EXCEPT ![cur] = fpu]
        /\ age' = [d \in Context |-> IF d = cur THEN 0
                                     ELSE IF age[d] < MaxAge THEN age[d] + 1 ELSE MaxAge]
    BY <1>1 DEF Preempt, SaveContext, capture_fpu_context
  <1>3. CASE c = cur
    <2>1. age'[c] = 0
      BY <1>2, <1>3
    <2>2. Back(cacheNext', 0) = cacheNext
      BY <1>0, <1>2, BackFacts
    <2>. QED BY <1>0, <1>2, <1>3, <2>1, <2>2
  <1>4. CASE c # cur
    <2>1. age[c] \in Nat /\ age'[c] = age[c] + 1 /\ age[c] + 1 < CacheCapacity
      BY <1>0, <1>2, <1>4
    <2>2. /\ Back(cacheNext', age'[c]) = Back(cacheNext, age[c])
          /\ Back(cacheNext, age[c]) # cacheNext
          /\ Back(cacheNext, age[c]) \in CacheSlots
      <3>1. age[c] < CacheCapacity
        BY <2>1
      <3>. QED BY <1>0, <1>2, <2>1, <3>1, BackFacts
    <2>3. cache[Back(cacheNext, age[c])].valid /\ cache[Back(cacheNext, age[c])].context = c
      <3>1. kept[c] # NotPreempted
        BY <1>0, <1>2, <1>4
      <3>2. age[c] < CacheCapacity
        BY <2>1
      <3>. QED BY <3>1, <3>2 DEF TurnInv
    <2>4. cache'[Back(cacheNext, age[c])] = cache[Back(cacheNext, age[c])]
      BY <1>0, <1>2, <2>2
    <2>. QED BY <2>2, <2>3, <2>4
  <1>. QED BY <1>3, <1>4

\* A restored thread uses up its own entry and no other.
LEMMA TurnLoad == ASSUME NEW c \in Context, OwnInv, TurnInv, LoadContext(c) PROVE TurnInv'
  <1>. SUFFICES ASSUME NEW d \in Context, kept'[d] # NotPreempted, age'[d] < CacheCapacity
                PROVE  /\ cache'[Back(cacheNext', age'[d])].valid
                       /\ cache'[Back(cacheNext', age'[d])].context = d
    BY DEF TurnInv, Back
  <1>. USE ContextAssumption
  <1>0. /\ cache \in [CacheSlots -> [valid : BOOLEAN, context : Context \cup {NoContext}, fpu : Fpu]]
        /\ kept \in [Context -> Fpu \cup {NotPreempted}]
        /\ age \in [Context -> 0 .. MaxAge]
        /\ cacheNext \in CacheSlots
    BY DEF OwnInv, ContextTypeOK
  <1>1. kept' = [kept EXCEPT ![c] = NotPreempted] /\ age' = age /\ cacheNext' = cacheNext
    BY DEF LoadContext, RestoreContext
  <1>2. d # c /\ kept[d] # NotPreempted /\ age[d] < CacheCapacity
    BY <1>0, <1>1
  <1>. DEFINE s == Back(cacheNext, age[d])
  <1>3. cache[s].valid /\ cache[s].context = d
    BY <1>2 DEF TurnInv
  <1>4. s \in CacheSlots
    <2>1. age[d] \in Nat
      BY <1>0
    <2>. QED BY <1>0, <1>2, <2>1, BackFacts
  <1>. HIDE DEF s
  <1>5. cache'[s] = cache[s]
    <2>1. CASE find_fpu_context(c) = {}
      BY <2>1 DEF LoadContext, RestoreContext
    <2>2. CASE find_fpu_context(c) # {}
      <3>1. PICK t \in CacheSlots :
               /\ t \in find_fpu_context(c)
               /\ cache' = [cache EXCEPT ![t].valid = FALSE]
        BY <2>2 DEF LoadContext, RestoreContext, find_fpu_context
      <3>2. s # t
        BY <1>2, <1>3, <3>1 DEF find_fpu_context
      <3>. QED BY <1>0, <1>4, <3>1, <3>2
    <2>. QED BY <2>1, <2>2
  <1>6. cache'[s].valid /\ cache'[s].context = d
    BY <1>3, <1>5
  <1>. QED BY <1>1, <1>6 DEF s

\* The turn of fpu_context_cache_next spares the entry of a preempted context
\* until as many other contexts have been captured as there are slots.
THEOREM TurnKeepsRecent == ContextSpec => []RecentKept
  <1>1. ContextInit => OwnInv /\ TurnInv
    BY OwnInit DEF ContextInit, TurnInv
  <1>2. OwnInv /\ TurnInv /\ [ContextNext]_contextVars => OwnInv' /\ TurnInv'
    <2>. SUFFICES ASSUME OwnInv, TurnInv, [ContextNext]_contextVars PROVE OwnInv' /\ TurnInv'
      OBVIOUS
    <2>1. OwnInv'
      BY OwnStep
    <2>2. TurnInv'
      <3>1. CASE Preempt
        BY <3>1, TurnPreempt
      <3>2. CASE Compute
        BY <3>2 DEF Compute, TurnInv, Back
      <3>3. ASSUME NEW c \in Context, LoadContext(c) PROVE TurnInv'
        BY <3>3, TurnLoad
      <3>4. CASE UNCHANGED contextVars
        BY <3>4 DEF contextVars, fpuVars, TurnInv, Back
      <3>. QED BY <3>1, <3>2, <3>3, <3>4 DEF ContextNext
    <2>. QED BY <2>1, <2>2
  <1>3. OwnInv /\ TurnInv => RecentKept
    <2>. SUFFICES ASSUME OwnInv, TurnInv, NEW c \in Context,
                         kept[c] # NotPreempted, age[c] < CacheCapacity
                  PROVE  find_fpu_context(c) # {}
      BY DEF RecentKept
    <2>1. age[c] \in Nat /\ cacheNext \in CacheSlots
      BY ContextAssumption DEF OwnInv, ContextTypeOK
    <2>2. Back(cacheNext, age[c]) \in CacheSlots
      BY <2>1, BackFacts
    <2>. QED BY <2>2 DEF TurnInv, find_fpu_context
  <1>. QED BY <1>1, <1>2, <1>3, PTL DEF ContextSpec
=============================================================================
