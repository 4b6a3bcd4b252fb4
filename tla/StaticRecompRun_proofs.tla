----------------------- MODULE StaticRecompRun_proofs -----------------------
(***************************************************************************)
(* Proofs about CodeTrust, the promise of the SMC guard, and about the run *)
(* loop built on it, for every set of chunks, register file, charge and    *)
(* slice length.                                                           *)
(***************************************************************************)
EXTENDS StaticRecompRun, TLAPS

-----------------------------------------------------------------------------
(* The guard's promise, which the loop is built on.                        *)

TrustInv == TrustTypeOK /\ TrustSound

\* At first nothing is trusted.
LEMMA TrustInvInit == TrustInit => TrustInv
  BY DEF TrustInit, TrustInv, TrustTypeOK, TrustSound, Opinion

\* A check looks at the text, a write is remembered, and an invalidation clears what
\* it remembers of a chunk only together with the opinion.
LEMMA TrustInvNext == TrustInv /\ [TrustNext]_trustVars => TrustInv'
  <1> SUFFICES ASSUME TrustInv, [TrustNext]_trustVars PROVE TrustInv'
    OBVIOUS
  <1> USE DEF TrustInv, TrustTypeOK, TrustSound, Opinion
  <1>1. ASSUME NEW c \in Chunk, Check(c) PROVE TrustInv'
    BY <1>1 DEF Check, Judgement
  <1>2. ASSUME NEW c \in Chunk, Write(c) PROVE TrustInv'
    BY <1>2 DEF Write
  <1>3. ASSUME NEW c \in Chunk, Forget(c) PROVE TrustInv'
    BY <1>3 DEF Forget
  <1>4. ASSUME NEW S \in SUBSET Chunk, Invalidate(S) PROVE TrustInv'
    BY <1>4 DEF Invalidate
  <1>5. ASSUME Reset PROVE TrustInv'
    BY <1>5 DEF Reset
  <1>6. ASSUME Arm PROVE TrustInv'
    BY <1>6 DEF Arm
  <1>7. ASSUME UNCHANGED trustVars PROVE TrustInv'
    BY <1>7 DEF trustVars
  <1> QED
    BY <1>1, <1>2, <1>3, <1>4, <1>5, <1>6, <1>7 DEF TrustNext

\* The guard's promise: a chunk believed to hold its original text does hold it,
\* unless it was written after the last invalidation that reached it.
THEOREM TrustIsSound == TrustSpec => []TrustSound
  BY TrustInvInit, TrustInvNext, PTL DEF TrustSpec, TrustInv

\* The loop touches the guard only in the ways CodeTrust allows.
LEMMA TrustUse == [Next]_vars => [TrustNext]_trustVars
  <1> SUFFICES ASSUME Next PROVE TrustNext \/ UNCHANGED trustVars
    BY DEF vars
  <1>1. ASSUME TextEffect PROVE TrustNext \/ UNCHANGED trustVars
    <2>1. \A c \in Chunk : {c} \in SUBSET Chunk
      OBVIOUS
    <2> QED
      BY <1>1, <2>1 DEF TextEffect, TrustNext
  <1>2. ASSUME NEW p, DispatchableAt(p) PROVE TrustNext \/ UNCHANGED trustVars
    BY <1>2 DEF DispatchableAt, TrustNext
  <1>3. ASSUME \/ Pause \/ Leave \/ Tail \/ Dispatch \/ HookEnter \/ Flush \/ JitReturn
        PROVE  UNCHANGED trustVars
    BY <1>3 DEF Pause, Leave, Tail, Dispatch, HookEnter, Flush, FlushWith, JitReturn
  <1>4. ASSUME Resume \/ ReadGameId PROVE TrustNext
    BY <1>4 DEF Resume, ReadGameId, TrustNext
  <1>5. ASSUME Pick \/ InterpCheck \/ JitLookup PROVE TrustNext \/ UNCHANGED trustVars
    BY <1>2, <1>5 DEF Pick, InterpCheck, JitLookup
  <1>6. ASSUME RunSegment PROVE TrustNext \/ UNCHANGED trustVars
    BY <1>6 DEF RunSegment, TrustNext
  <1>7. ASSUME HookCacheOp PROVE TrustNext \/ UNCHANGED trustVars
    <2>1. \A c \in Chunk : {c} \in SUBSET Chunk
      OBVIOUS
    <2> QED
      BY <1>7, <2>1 DEF HookCacheOp, TrustNext
  <1>8. ASSUME HookInterpret \/ InterpStep \/ JitStep \/ SingleStep
        PROVE  TrustNext \/ UNCHANGED trustVars
    BY <1>1, <1>8 DEF HookInterpret, InterpStep, JitStep, FallbackStep, SingleStep
  <1>9. ASSUME HostClearCache \/ Advance \/ JitSlice
        PROVE  TrustNext \/ UNCHANGED trustVars
    BY <1>1, <1>9 DEF HostClearCache, Advance, JitSlice, SliceEffect, ClearCache, TrustNext
  <1> QED
    BY <1>3, <1>4, <1>5, <1>6, <1>7, <1>8, <1>9 DEF Next, CpuStep

-----------------------------------------------------------------------------
(* State residency.                                                        *)

\* The two register files and the place in Run keep their types.
CpuTypeOK ==
    /\ hasJit \in BOOLEAN /\ running \in BOOLEAN
    /\ loc \in Loc
    /\ arch \in Context /\ ppc \in Context /\ guest \in Context
    /\ syncExc \in BOOLEAN
    /\ hooks \in 0 .. MaxHooks

ResidentInv == CpuTypeOK /\ StateResident

\* It holds at first.
LEMMA ResidentInit == Init => ResidentInv
  <1> SUFFICES ASSUME Init PROVE ResidentInv
    OBVIOUS
  <1>1. PICK r \in Reg : arch = [pc |-> Elsewhere, reg |-> r]
    BY DEF Init
  <1>2. arch \in Context
    BY <1>1 DEF Context, Pc
  <1>3. 0 \in 0 .. MaxHooks
    BY RunAssumption
  <1> QED
    BY <1>2, <1>3, RunAssumption DEF Init, ResidentInv, CpuTypeOK, StateResident, Loc

\* Every step keeps it.
LEMMA ResidentNext == ResidentInv /\ [Next]_vars => ResidentInv'
  <1> SUFFICES ASSUME ResidentInv, [Next]_vars PROVE ResidentInv'
    OBVIOUS
  <1> USE DEF ResidentInv, CpuTypeOK, StateResident, cpuVars, hostVars
  <1>0. /\ MaxHooks \in Nat /\ 0 \in 0 .. MaxHooks
        /\ Elsewhere \in Pc
        /\ \A s \in Context : \A p \in Pc : [s EXCEPT !.pc = p] \in Context
    BY RunAssumption DEF Pc, Context
  <1>1. ASSUME \/ Pause \/ Resume \/ HostClearCache \/ ReadGameId \/ Leave \/ Tail
               \/ JitLookup \/ JitReturn
        PROVE  ResidentInv'
    BY <1>1 DEF Pause, Resume, HostClearCache, ReadGameId, Leave, Tail, JitLookup, JitReturn, Loc
  <1>2. ASSUME Advance \/ JitSlice PROVE ResidentInv'
    BY <1>0, <1>2 DEF Advance, JitSlice, StartSlice, Loc
  <1>3. ASSUME Pick PROVE ResidentInv'
    BY <1>3 DEF Pick, SyncIn, Loc
  <1>4. ASSUME Dispatch PROVE ResidentInv'
    BY <1>0, <1>4 DEF Dispatch, Loc
  <1>5. ASSUME RunSegment PROVE ResidentInv'
    BY <1>5 DEF RunSegment, Loc
  <1>6. ASSUME HookCacheOp PROVE ResidentInv'
    <2>1. hooks' \in 0 .. MaxHooks
      BY <1>0, <1>6 DEF HookCacheOp
    <2> QED
      BY <1>0, <1>6, <2>1 DEF HookCacheOp, Loc
  <1>7. ASSUME HookEnter PROVE ResidentInv'
    <2>1. hooks' \in 0 .. MaxHooks
      BY <1>0, <1>7 DEF HookEnter
    <2> QED
      BY <1>7, <2>1 DEF HookEnter, SyncOut, Loc
  <1>8. ASSUME HookInterpret PROVE ResidentInv'
    BY <1>8 DEF HookInterpret, SyncIn, Loc
  <1>9. ASSUME Flush PROVE ResidentInv'
    <2>1. PICK idle \in AtIdleLoop :
            FlushWith(idle, AtLeastOne(owed), FastDispatchableAt(guest.pc))
      BY <1>9 DEF Flush
    <2>2. /\ loc = "flush" /\ loc' \in {"dispatch", "tail"}
          /\ loc' = "dispatch" => arch' = arch /\ ppc' = ppc
          /\ loc' = "tail" => arch' = ppc' /\ ppc' \in {guest, [guest EXCEPT !.pc = Elsewhere]}
          /\ syncExc' = FALSE
          /\ UNCHANGED <<hostVars, guest, hooks>>
      BY <2>1 DEF FlushWith
    <2> QED
      BY <1>0, <2>2 DEF Loc
  <1>10. ASSUME InterpStep \/ JitStep PROVE ResidentInv'
    BY <1>10 DEF InterpStep, JitStep, FallbackStep, Loc
  <1>11. ASSUME InterpCheck PROVE ResidentInv'
    BY <1>11 DEF InterpCheck, Loc
  <1>12. ASSUME SingleStep PROVE ResidentInv'
    BY <1>12 DEF SingleStep
  <1>13. ASSUME UNCHANGED vars PROVE ResidentInv'
    BY <1>13 DEF vars
  <1> QED
    BY <1>1, <1>2, <1>3, <1>4, <1>5, <1>6, <1>7, <1>8, <1>9, <1>10, <1>11, <1>12, <1>13
    DEF Next, CpuStep

-----------------------------------------------------------------------------
(* Time.                                                                   *)

\* CoreTiming never runs backwards because a slice is never given back.
TimeTypeOK ==
    /\ downcount \in Int /\ slice \in Nat /\ timer \in Nat
    /\ owed \in Nat /\ timebase \in Nat /\ spent \in Nat
    /\ downcount <= slice

TimeInv == TimeTypeOK /\ CyclesConserved

\* GetFakeTimeBase divides a cycle count.
LEMMA TimeBaseType ==
    ASSUME NEW t \in Nat
    PROVE  t \div TimerRatio \in Nat
  <1>1. TimerRatio \in Nat \ {0}
    BY RunAssumption
  <1> QED
    BY <1>1, SMT

\* It holds at first.
LEMMA TimeInit == Init => TimeInv
  BY DEF Init, TimeInv, TimeTypeOK, CyclesConserved, Ticks

\* A new slice moves the cycles of the last one into global_timer.
LEMMA StartSliceTime ==
    ASSUME TimeInv, StartSlice, loc \notin {"native", "flush"}, loc' \notin {"native", "flush"}
    PROVE  TimeInv'
  <1>1. /\ timer' = Ticks /\ slice' \in Nat /\ downcount' = slice'
        /\ UNCHANGED <<owed, timebase, spent>>
    BY RunAssumption DEF StartSlice
  <1>2. Ticks \in Nat /\ owed = 0
    BY DEF TimeInv, TimeTypeOK, CyclesConserved, Ticks
  <1>3. Ticks' = Ticks
    BY <1>1, <1>2 DEF Ticks
  <1> QED
    BY <1>1, <1>2, <1>3 DEF TimeInv, TimeTypeOK, CyclesConserved

\* The flush after a dispatch.
LEMMA FlushTime ==
    ASSUME TimeInv, NEW idle \in BOOLEAN, NEW goOn,
           FlushWith(idle, AtLeastOne(owed), goOn)
    PROVE  TimeInv'
  <1> DEFINE charged == AtLeastOne(owed)
             flushed == downcount - charged
             left == IF idle THEN 0 ELSE flushed
  <1>1. /\ owed' = 0 /\ downcount' = left /\ UNCHANGED <<slice, timer>>
        /\ spent' = spent + (charged - owed) + (flushed - left)
        /\ timebase' \in {timebase + charged, 0}
    BY DEF FlushWith
  <1>2. /\ charged \in Nat /\ downcount \in Int /\ slice \in Nat /\ timer \in Nat
        /\ owed \in Nat /\ timebase \in Nat /\ spent \in Nat /\ downcount <= slice
        /\ timer + slice - downcount + owed = spent
    BY DEF AtLeastOne, TimeInv, TimeTypeOK, CyclesConserved, Ticks
  <1> HIDE DEF charged
  <1>3. left \in Int /\ left <= slice
    BY <1>2
  <1>4. spent' = timer + slice - left
    BY <1>1, <1>2
  <1> HIDE DEF left
  <1>5. timer + slice - left \in Nat /\ timebase' \in Nat
    BY <1>1, <1>2, <1>3
  <1> QED
    BY <1>1, <1>2, <1>3, <1>4, <1>5 DEF TimeInv, TimeTypeOK, CyclesConserved, Ticks

\* Every step keeps it.
LEMMA TimeNext == TimeInv /\ [Next]_vars => TimeInv'
  <1> SUFFICES ASSUME TimeInv, [Next]_vars PROVE TimeInv'
    OBVIOUS
  <1> USE DEF timeVars
  <1>0. /\ downcount \in Int /\ slice \in Nat /\ timer \in Nat
        /\ owed \in Nat /\ timebase \in Nat /\ spent \in Nat /\ downcount <= slice
        /\ timer + slice - downcount + owed = spent
        /\ loc \notin {"native", "flush"} => owed = 0
        /\ \A n \in Charge : n \in Nat
        /\ SliceLength \subseteq Nat
    BY RunAssumption DEF TimeInv, TimeTypeOK, CyclesConserved, Ticks
  <1>1. ASSUME UNCHANGED timeVars,
               loc' \notin {"native", "flush"} => loc \notin {"native", "flush"} \/ owed = 0
        PROVE  TimeInv'
    <2>1. /\ downcount' = downcount /\ slice' = slice /\ timer' = timer
          /\ owed' = owed /\ timebase' = timebase /\ spent' = spent
      BY <1>1
    <2>2. loc' \notin {"native", "flush"} => owed = 0
      BY <1>0, <1>1
    <2> QED
      BY <1>0, <2>1, <2>2 DEF TimeInv, TimeTypeOK, CyclesConserved, Ticks
  <1>2. ASSUME \/ Pause \/ Resume \/ HostClearCache \/ ReadGameId \/ Leave \/ Tail \/ Dispatch
               \/ InterpCheck \/ JitLookup \/ JitReturn
        PROVE  TimeInv'
    BY <1>1, <1>2
    DEF Pause, Resume, HostClearCache, ReadGameId, Leave, Tail, Dispatch, InterpCheck, JitLookup,
        JitReturn
  <1>3. ASSUME Advance PROVE TimeInv'
    BY <1>3, StartSliceTime DEF Advance
  <1>4. ASSUME JitSlice PROVE TimeInv'
    BY <1>4, StartSliceTime DEF JitSlice
  <1>5. ASSUME Pick PROVE TimeInv'
    <2>1. /\ owed' = 0 /\ owed = 0 /\ timebase' \in {timebase, FakeTimeBase}
          /\ UNCHANGED <<downcount, slice, timer, spent>>
      BY <1>0, <1>5 DEF Pick, SyncIn
    <2>2. FakeTimeBase \in Nat
      BY <1>0, TimeBaseType DEF FakeTimeBase, Ticks
    <2> QED
      BY <1>0, <2>1, <2>2 DEF TimeInv, TimeTypeOK, CyclesConserved, Ticks
  <1>6. ASSUME RunSegment PROVE TimeInv'
    BY <1>0, <1>6 DEF RunSegment, TimeInv, TimeTypeOK, CyclesConserved, Ticks
  <1>7. ASSUME HookCacheOp PROVE TimeInv'
    <2>1. /\ loc' = "native"
          /\ \E n \in {4, 5} : downcount' = downcount - n /\ spent' = spent + n
          /\ UNCHANGED <<slice, timer, owed, timebase>>
      BY <1>7 DEF HookCacheOp
    <2> QED
      BY <1>0, <2>1 DEF TimeInv, TimeTypeOK, CyclesConserved, Ticks
  <1>8. ASSUME HookEnter PROVE TimeInv'
    <2>1. /\ \E n \in Charge : downcount' = downcount - (owed + n) /\ spent' = spent + n
          /\ owed' = 0
          /\ UNCHANGED <<slice, timer, timebase>>
      BY <1>8 DEF HookEnter, SyncOut
    <2> QED
      BY <1>0, <2>1 DEF TimeInv, TimeTypeOK, CyclesConserved, Ticks
  <1>9. ASSUME HookInterpret PROVE TimeInv'
    <2>1. /\ loc = "hook" /\ downcount' = downcount - 1 /\ spent' = spent + 1 /\ owed' = 0
          /\ timebase' = (timer + slice - downcount') \div TimerRatio
          /\ UNCHANGED <<slice, timer>>
      BY <1>9 DEF HookInterpret, SyncIn
    <2>2. timer + slice - downcount' \in Nat
      BY <1>0, <2>1
    <2>3. timebase' \in Nat
      BY <2>1, <2>2, TimeBaseType
    <2> QED
      BY <1>0, <2>1, <2>3 DEF TimeInv, TimeTypeOK, CyclesConserved, Ticks
  <1>10. ASSUME Flush PROVE TimeInv'
    <2>1. AtIdleLoop \subseteq BOOLEAN
      BY DEF AtIdleLoop
    <2> QED
      BY <1>10, <2>1, FlushTime DEF Flush
  <1>11. ASSUME InterpStep \/ JitStep PROVE TimeInv'
    <2>1. /\ loc \notin {"native", "flush"}
          /\ downcount' = downcount - 1 /\ spent' = spent + 1
          /\ UNCHANGED <<slice, timer, owed, timebase>>
      BY <1>11 DEF InterpStep, JitStep, FallbackStep
    <2> QED
      BY <1>0, <2>1 DEF TimeInv, TimeTypeOK, CyclesConserved, Ticks
  <1>12. ASSUME SingleStep PROVE TimeInv'
    <2>1. /\ slice' \in Nat /\ timer' = Ticks /\ downcount' = slice' - 1
          /\ spent' = spent + 1 /\ owed' = owed /\ timebase' = timebase
      BY <1>0, <1>12 DEF SingleStep
    <2>2. Ticks = spent /\ owed = 0
      BY <1>0, <1>12 DEF SingleStep, Ticks
    <2>3. ASSUME NEW s \in Nat, NEW t \in Nat
          PROVE  /\ s - 1 \in Int /\ t + 1 \in Nat /\ s - 1 <= s
                 /\ (t + s - (s - 1)) + 0 = t + 1
      OBVIOUS
    <2>4. /\ downcount' \in Int /\ spent' \in Nat /\ downcount' <= slice'
          /\ Ticks' + owed' = spent'
      BY <1>0, <2>1, <2>2, <2>3 DEF Ticks
    <2> QED
      BY <1>0, <2>1, <2>2, <2>4 DEF TimeInv, TimeTypeOK, CyclesConserved
  <1>13. ASSUME UNCHANGED vars PROVE TimeInv'
    BY <1>1, <1>13 DEF vars
  <1> QED
    BY <1>2, <1>3, <1>4, <1>5, <1>6, <1>7, <1>8, <1>9, <1>10, <1>11, <1>12, <1>13
    DEF Next, CpuStep

-----------------------------------------------------------------------------
(* Native entry.                                                           *)

\* Where a dispatch is about to happen the guard trusts the chunk: the burst loop
\* asks FastDispatchableAt after the segment, and nothing runs in between.
EntryTrusted == loc = "dispatch" => FastDispatchableAt(guest.pc)

\* Every step keeps it.
LEMMA EntryNext ==
    ASSUME TrustTypeOK, EntryTrusted, [Next]_vars
    PROVE  EntryTrusted'
  <1> SUFFICES ASSUME loc' = "dispatch" PROVE FastDispatchableAt(guest.pc)'
    BY DEF EntryTrusted
  <1>1. ASSUME Pick PROVE FastDispatchableAt(guest.pc)'
    <2>1. /\ DispatchableAt(ppc.pc) /\ Dispatches(ppc.pc) /\ guest' = ppc
      BY <1>1 DEF Pick, SyncIn
    <2> QED
      BY <2>1
      DEF DispatchableAt, Dispatches, FastDispatchableAt, Check, trustVars, TrustTypeOK
  <1>2. ASSUME Flush PROVE FastDispatchableAt(guest.pc)'
    BY <1>2 DEF Flush, FlushWith, FastDispatchableAt, trustVars
  <1>3. ASSUME Pause \/ UNCHANGED vars PROVE FastDispatchableAt(guest.pc)'
    BY <1>3 DEF Pause, vars, cpuVars, trustVars, EntryTrusted, FastDispatchableAt
  <1> QED
    BY <1>1, <1>2, <1>3
    DEF Next, CpuStep, Resume, HostClearCache, SingleStep, Advance, ReadGameId, Leave, Tail, Dispatch, RunSegment,
        HookCacheOp, HookEnter, HookInterpret, InterpStep, InterpCheck, JitStep, JitLookup,
        JitSlice, JitReturn

-----------------------------------------------------------------------------
(* Fallback.                                                               *)

\* Where the interpreter is about to execute an instruction no native code could be
\* dispatched: the loop condition asked, and if that hashed the chunk, it has failed.
InterpreterDue == loc = "interp" => ~Dispatches(ppc.pc)

\* Once DispatchableAt has answered no, it goes on answering no.
LEMMA RefusalStands ==
    ASSUME TrustTypeOK, NEW p, DispatchableAt(p), ~Dispatches(p)
    PROVE  ~Dispatches(p)'
  <1>1. CASE armed /\ p \in Chunk /\ trust[p] = "unverified"
    <2>1. Judgement(p) = "failed" /\ Check(p)
      BY <1>1 DEF DispatchableAt, Dispatches, Judgement
    <2>2. trust'[p] = "failed"
      BY <1>1, <2>1 DEF Check, TrustTypeOK
    <2> QED
      BY <2>2 DEF Dispatches
  <1>2. CASE ~(armed /\ p \in Chunk /\ trust[p] = "unverified")
    <2>1. UNCHANGED trustVars
      BY <1>2 DEF DispatchableAt
    <2> QED
      BY <2>1 DEF Dispatches, Judgement, trustVars
  <1> QED
    BY <1>1, <1>2

\* Every step keeps it.
LEMMA InterpreterNext ==
    ASSUME TrustTypeOK, InterpreterDue, [Next]_vars
    PROVE  InterpreterDue'
  <1> SUFFICES ASSUME loc' = "interp" PROVE ~Dispatches(ppc.pc)'
    BY DEF InterpreterDue
  <1>1. ASSUME Pick \/ InterpCheck PROVE ~Dispatches(ppc.pc)'
    <2>1. /\ DispatchableAt(ppc.pc) /\ ~Dispatches(ppc.pc) /\ ppc' = ppc
      BY <1>1 DEF Pick, InterpCheck, cpuVars
    <2> QED
      BY <2>1, RefusalStands DEF Dispatches, Judgement
  <1>2. ASSUME Pause \/ UNCHANGED vars PROVE ~Dispatches(ppc.pc)'
    BY <1>2 DEF Pause, vars, cpuVars, trustVars, InterpreterDue, Dispatches, Judgement
  <1> QED
    BY <1>1, <1>2
    DEF Next, CpuStep, Resume, HostClearCache, SingleStep, Advance, ReadGameId, Leave, Tail, Dispatch, RunSegment,
        HookCacheOp, HookEnter, HookInterpret, Flush, FlushWith, InterpStep, JitStep, JitLookup,
        JitSlice, JitReturn

-----------------------------------------------------------------------------

RunInv == TrustInv /\ ResidentInv /\ TimeInv /\ EntryTrusted /\ InterpreterDue

\* The inductive invariant of the run loop.
LEMMA RunInvariant == Spec => []RunInv
  <1>1. Init => RunInv
    <2>1. Init => TrustInit /\ EntryTrusted /\ InterpreterDue
      BY DEF Init, EntryTrusted, InterpreterDue
    <2> QED
      BY <2>1, TrustInvInit, ResidentInit, TimeInit DEF RunInv
  <1>2. RunInv /\ [Next]_vars => RunInv'
    BY TrustUse, TrustInvNext, ResidentNext, TimeNext, EntryNext, InterpreterNext
    DEF RunInv, TrustInv
  <1> QED
    BY <1>1, <1>2, PTL DEF Spec

\* Every variable of the loop keeps its type; in particular what m_guest.downcount
\* accumulates is never negative and CoreTiming's clock never is.
THEOREM RunTypes == Spec => []TypeOK
  <1>1. RunInv => TypeOK
    BY DEF RunInv, TrustInv, ResidentInv, CpuTypeOK, TimeInv, TimeTypeOK, TypeOK
  <1> QED
    BY <1>1, RunInvariant, PTL

\* SyncIn and SyncOut keep the one architectural state where the engine at work
\* reads it: m_guest inside a burst, PowerPCState everywhere else, also inside the
\* instruction fallback hook and after an exception.
THEOREM RunResident == Spec => []StateResident
  BY RunInvariant, PTL DEF RunInv, ResidentInv

\* Every cycle a segment, a hook, the interpreter, the JIT or idle skipping accounts
\* for reaches CoreTiming exactly once.
THEOREM RunCycles == Spec => []CyclesConserved
  BY RunInvariant, PTL DEF RunInv, TimeInv

\* Native code is entered only where the guard trusts it at that very moment, so
\* text can be stale there only if no line or range invalidation and no ClearCache
\* came since it was written (a flash invalidate does not reach the guard).
THEOREM RunEntry == Spec => []NativeEntrySound
  <1>1. RunInv => NativeEntrySound
    BY DEF RunInv, TrustInv, TrustSound, EntryTrusted, NativeEntrySound, FastDispatchableAt
  <1> QED
    BY <1>1, RunInvariant, PTL

\* The interpreter loop hands over as soon as native code could take over: no
\* instruction is interpreted, and no cycle charged for one, where DispatchableAt
\* would have said yes.
THEOREM InterpreterHandsOver == Spec => InterpreterOnlyUncovered
  <1>1. RunInv => [(loc = "interp" /\ spent' # spent) => ~Dispatches(ppc.pc)]_vars
    BY DEF RunInv, InterpreterDue
  <1> QED
    BY <1>1, RunInvariant, PTL DEF InterpreterOnlyUncovered

\* Without a fallback JIT the same holds of every fallback: what the run run_loop_jit
\* shows is the JIT's doing, which returns to the loop only when the CPU is paused.
THEOREM FallbackHandsOver ==
    ASSUME JitBuild = {FALSE}
    PROVE  Spec => FallbackOnlyUncovered
  <1> DEFINE NoJit == ~hasJit /\ loc # "jit"
  <1>1. Init => NoJit
    BY DEF Init
  <1>2. NoJit /\ [Next]_vars => NoJit'
    <2> SUFFICES ASSUME NoJit, [Next]_vars PROVE NoJit'
      OBVIOUS
    <2>1. hasJit' = hasJit
      BY DEF vars, hostVars, Next, CpuStep, Pause, Resume, HostClearCache, SingleStep, Advance,
             ReadGameId, Leave, Pick, Tail, Dispatch, RunSegment, HookCacheOp, HookEnter,
             HookInterpret, Flush, FlushWith, InterpStep, InterpCheck, FallbackStep, JitStep, JitLookup, JitSlice, JitReturn
    <2>2. ASSUME Pick PROVE loc' # "jit"
      BY <2>2 DEF Pick
    <2>3. ASSUME JitStep \/ JitLookup \/ JitSlice \/ JitReturn \/ Pause \/ UNCHANGED vars
          PROVE  loc' # "jit"
      BY <2>3 DEF JitStep, JitLookup, JitSlice, JitReturn, Pause, vars
    <2>4. ASSUME Resume \/ HostClearCache \/ SingleStep PROVE loc' # "jit"
      BY <2>4 DEF Resume, HostClearCache, SingleStep
    <2>5. ASSUME \/ Advance \/ ReadGameId \/ Leave \/ Tail \/ Dispatch \/ RunSegment \/ HookCacheOp
                 \/ HookEnter \/ HookInterpret \/ Flush \/ InterpStep \/ InterpCheck
          PROVE  loc' # "jit"
      BY <2>5 DEF Advance, ReadGameId, Leave, Tail, Dispatch, RunSegment, HookCacheOp, HookEnter,
                  HookInterpret, Flush, FlushWith, InterpStep, InterpCheck
    <2> QED
      BY <2>1, <2>2, <2>3, <2>4, <2>5 DEF Next, CpuStep
  <1>3. RunInv /\ NoJit
          => [(loc \in {"interp", "jit"} /\ spent' # spent) => ~Dispatches(ppc.pc)]_vars
    BY DEF RunInv, InterpreterDue
  <1> HIDE DEF NoJit
  <1> QED
    BY <1>1, <1>2, <1>3, RunInvariant, PTL DEF FallbackOnlyUncovered, Spec

\* A burst goes on only with fewer cycles left than before and at least one: however
\* little its segments charge and whatever idle skipping does, "the burst always
\* makes downcount progress" and cannot hold CoreTiming up.
THEOREM BurstDescends ==
    Spec => [][Flush /\ loc' = "dispatch" => 0 < downcount' /\ downcount' < downcount]_vars
  <1>1. RunInv => [Flush /\ loc' = "dispatch" => 0 < downcount' /\ downcount' < downcount]_vars
    <2> SUFFICES ASSUME RunInv, Flush, loc' = "dispatch"
                 PROVE  0 < downcount' /\ downcount' < downcount
      OBVIOUS
    <2>1. PICK idle \in AtIdleLoop :
            FlushWith(idle, AtLeastOne(owed), FastDispatchableAt(guest.pc))
      BY DEF Flush
    <2>2. downcount \in Int /\ AtLeastOne(owed) \in Nat /\ AtLeastOne(owed) > 0
      BY DEF RunInv, TimeInv, TimeTypeOK, AtLeastOne
    <2>3. /\ downcount' = IF idle THEN 0 ELSE downcount - AtLeastOne(owed)
          /\ downcount' > 0
      BY <2>1 DEF FlushWith
    <2> QED
      BY <2>2, <2>3
  <1> QED
    BY <1>1, RunInvariant, PTL
=============================================================================
