--------------------------- MODULE StaticRecompRun ---------------------------
(***************************************************************************)
(* The run loop of the StaticRecomp core (StaticRecompCore_Run.cpp), the   *)
(* state residency of its native bursts (_Sync.cpp), the instruction       *)
(* fallback hook (_Hooks.cpp) and the part of CoreTiming it leans on.      *)
(*                                                                         *)
(* A program counter is abstracted to the chunk it lies in, or Elsewhere;  *)
(* a register file to one value; the SMC guard to CodeTrust, which         *)
(* SmcGuard implements.  Three engines execute guest instructions: native  *)
(* segments on m_guest, the interpreter and the fallback JIT on            *)
(* PowerPCState.  The host thread may pause the CPU at any moment.         *)
(***************************************************************************)
EXTENDS CodeTrust

CONSTANTS
    Elsewhere,       \* any address outside the module's chunks
    Reg,             \* values of the abstract register file
    JitBuild,        \* {TRUE}: Init makes m_fallback_jit (x86-64, ARM64); {FALSE}: not
    IdleLoop,        \* m_idle_pc's chunk, or Elsewhere when it is zero
    TimerRatio,      \* CPU cycles per timebase tick (12)
    Charge,          \* cycles a native segment charges for a block (bound)
    SliceLength,     \* slice lengths CoreTiming hands out (bound)
    MaxHooks,        \* hooked instructions per segment (bound)
    MaxTime          \* no new slice starts after this cycle (bound)

Pc == Chunk \cup {Elsewhere}
Context == [pc : Pc, reg : Reg]

ASSUME RunAssumption ==
    /\ Elsewhere \notin Chunk
    /\ Reg # {}
    /\ JitBuild \subseteq BOOLEAN
    /\ IdleLoop \in Pc
    /\ TimerRatio \in Nat \ {0}
    /\ Charge \subseteq Nat
    /\ SliceLength \subseteq Nat \ {0}
    /\ MaxHooks \in Nat /\ MaxTime \in Nat

VARIABLES
    hasJit,     \* m_fallback_jit # nullptr: a fact of the build
    running,    \* *state_ptr == CPU::State::Running
    loc,        \* where the CPU thread is in Run
    arch,       \* history: the architectural context the guest program is in
    ppc,        \* PowerPCState
    guest,      \* m_guest
    syncExc,    \* ppc.Exceptions & SYNC_EXCEPTION_MASK
    downcount,  \* ppc.downcount
    slice,      \* CoreTiming's slice_length
    timer,      \* CoreTiming's global_timer
    owed,       \* -m_guest.downcount: cycles charged and not yet flushed
    timebase,   \* m_guest.timebase (0 between bursts: SyncIn overwrites it)
    hooks,      \* hooked instructions met by the current segment
    spent       \* history: every cycle any engine has charged or skipped

cpuVars == <<arch, ppc, guest, syncExc>>
timeVars == <<downcount, slice, timer, owed, timebase, spent>>
hostVars == <<hasJit, running>>
vars == <<trustVars, hostVars, loc, cpuVars, timeVars, hooks>>

Loc == {"stopped", "top", "head", "inner", "dispatch", "native", "hook", "flush",
        "interp", "check", "jit", "jitOnly", "tail"}

TypeOK ==
    /\ TrustTypeOK
    /\ hasJit \in BOOLEAN /\ running \in BOOLEAN
    /\ loc \in Loc
    /\ arch \in Context /\ ppc \in Context /\ guest \in Context
    /\ syncExc \in BOOLEAN
    /\ downcount \in Int /\ slice \in Nat /\ timer \in Nat
    /\ hooks \in 0 .. MaxHooks
    /\ owed \in Nat /\ timebase \in Nat /\ spent \in Nat

\* CoreTiming::GetTicks and SystemTimers::GetFakeTimeBase.
Ticks == timer + slice - downcount
FakeTimeBase == Ticks \div TimerRatio

Init ==
    /\ TrustInit
    /\ hasJit \in JitBuild
    /\ running = FALSE
    /\ loc = "stopped"
    /\ \E r \in Reg : arch = [pc |-> Elsewhere, reg |-> r]
    /\ ppc = arch
    /\ guest = arch
    /\ syncExc = FALSE
    /\ downcount = 0 /\ slice = 0 /\ timer = 0
    /\ owed = 0 /\ timebase = 0 /\ spent = 0 /\ hooks = 0

-----------------------------------------------------------------------------
(* The guard, as the loop calls it.                                        *)

FastDispatchableAt(p) == armed /\ p \in Chunk /\ trust[p] = "verified"

\* What DispatchableAt returns ...
Dispatches(p) ==
    /\ armed
    /\ p \in Chunk
    /\ \/ trust[p] = "verified"
       \/ trust[p] = "unverified" /\ Judgement(p) = "verified"

\* ... and what it does.
DispatchableAt(p) ==
    IF armed /\ p \in Chunk /\ trust[p] = "unverified" THEN Check(p) ELSE UNCHANGED trustVars

\* What one instruction may do to guest text and to the guard: nothing, a store, or
\* a cache operation on a line (dropped by an inactive guard).  A flash invalidate
\* (HID0.ICFI) and a BAT update are among those that do nothing: ClearSafe clears
\* the block cache, and no opinion of the guard is dropped.
TextEffect ==
    \/ UNCHANGED trustVars
    \/ \E c \in Chunk : Write(c)
    \/ \E c \in Chunk : Invalidate({c})

\* StaticRecompCore::ClearCache drops every opinion.
ClearCache == Reset /\ armed' = armed

\* The events of a slice store and invalidate too (DMA); and before they run, a
\* changed configuration clears the cache.
SliceEffect == TextEffect \/ ClearCache

-----------------------------------------------------------------------------
(* The host thread.                                                        *)

Pause ==
    /\ running
    /\ running' = FALSE
    /\ UNCHANGED <<trustVars, hasJit, loc, cpuVars, timeVars, hooks>>

\* CPU::State becomes Running and the CPU thread calls Run.
Resume ==
    /\ ~running
    /\ loc = "stopped"
    /\ running' = TRUE
    /\ Arm
    /\ loc' = IF ~armed' /\ hasJit THEN "jitOnly" ELSE "top"
    /\ UNCHANGED <<hasJit, cpuVars, timeVars, hooks>>

\* A watchpoint, a change of determinism or a loaded savestate clears the cache
\* while the CPU thread is held outside Run (what else a savestate replaces is not
\* modelled).
HostClearCache ==
    /\ loc = "stopped"
    /\ ClearCache
    /\ UNCHANGED <<hostVars, loc, cpuVars, timeVars, hooks>>

-----------------------------------------------------------------------------
(* Slices.                                                                 *)

\* CoreTiming::Advance: account for the last slice, start a new one, and
\* deliver a pending external interrupt.
StartSlice ==
    /\ timer <= MaxTime
    /\ timer' = Ticks
    /\ slice' \in SliceLength
    /\ downcount' = slice'
    /\ \/ UNCHANGED <<arch, ppc>>
       \/ /\ ppc' = [ppc EXCEPT !.pc = Elsewhere]
          /\ arch' = ppc'
    /\ UNCHANGED <<guest, syncExc, owed, timebase, hooks, spent>>

\* The head of the outer loop: CoreTiming::Advance runs the events that are due ...
Advance ==
    /\ loc = "top"
    /\ running
    /\ StartSlice
    /\ SliceEffect
    /\ loc' = "head"
    /\ UNCHANGED hostVars

\* ... and the game id is read again.
ReadGameId ==
    /\ loc = "head"
    /\ Arm
    /\ loc' = "inner"
    /\ UNCHANGED <<hostVars, cpuVars, timeVars, hooks>>

Leave ==
    /\ loc = "top"
    /\ ~running
    /\ loc' = "stopped"
    /\ UNCHANGED <<trustVars, hostVars, cpuVars, timeVars, hooks>>

\* SyncInCopiesDowncount: takes m_guest.downcount for a copy of ppc.downcount.
SyncInCopiesDowncount(from) == guest' = from /\ owed' = -downcount

\* PowerPCState -> m_guest; the charge accumulator starts at zero.
SyncIn(from) == guest' = from /\ owed' = 0

\* SyncOutForgetsRegs: leaves the registers in m_guest.
SyncOutForgetsRegs(n) ==
    /\ ppc' = [ppc EXCEPT !.pc = guest.pc]
    /\ downcount' = downcount - (owed + n)
    /\ owed' = 0

\* SyncOutKeepsCharge: the flushed charge stays in the accumulator.
SyncOutKeepsCharge(n) ==
    /\ ppc' = guest
    /\ downcount' = downcount - (owed + n)
    /\ owed' = owed + n

\* m_guest -> PowerPCState; the charge, with the n cycles of the current block, is
\* flushed.
SyncOut(n) ==
    /\ ppc' = guest
    /\ downcount' = downcount - (owed + n)
    /\ owed' = 0

\* The head of the inner loop: native burst or fallback.
Pick ==
    /\ loc = "inner"
    /\ DispatchableAt(ppc.pc)
    /\ IF Dispatches(ppc.pc)
       THEN /\ SyncIn(ppc)
            /\ timebase' = FakeTimeBase
            /\ loc' = "dispatch"
       ELSE /\ loc' = IF hasJit THEN "jit" ELSE "interp"
            /\ UNCHANGED <<guest, owed, timebase>>
    /\ UNCHANGED <<hostVars, arch, ppc, syncExc, downcount, slice, timer, hooks, spent>>

\* The tail of the inner loop.
Tail ==
    /\ loc = "tail"
    /\ loc' = IF downcount > 0 /\ running THEN "inner" ELSE "top"
    /\ UNCHANGED <<trustVars, hostVars, cpuVars, timeVars, hooks>>

-----------------------------------------------------------------------------
(* Native bursts.                                                          *)

\* m_module->dispatch(&m_guest, m_guest.pc) is entered.
Dispatch ==
    /\ loc = "dispatch"
    /\ loc' = "native"
    /\ hooks' = 0
    /\ UNCHANGED <<trustVars, hostVars, cpuVars, timeVars>>

\* The segment runs to its exit: registers change, blocks are charged, a store
\* may hit guest text, a memory hook may leave a synchronous exception.
RunSegment ==
    /\ loc = "native"
    /\ guest' \in Context
    /\ arch' = guest'
    /\ \E n \in Charge : owed' = owed + n /\ spent' = spent + n
    /\ syncExc' \in {syncExc, TRUE}
    /\ UNCHANGED trustVars \/ \E c \in Chunk : Write(c)
    /\ loc' = "flush"
    /\ UNCHANGED <<hostVars, ppc, downcount, slice, timer, timebase, hooks>>

\* HookInstructionFallback, fast path: icbi invalidates its line and costs 4, the
\* data-cache operations cost 5 and do nothing.
HookCacheOp ==
    /\ loc = "native"
    /\ hooks < MaxHooks
    /\ hooks' = hooks + 1
    /\ \/ /\ \E c \in Chunk : Invalidate({c})
          /\ downcount' = downcount - 4
          /\ spent' = spent + 4
       \/ /\ UNCHANGED trustVars
          /\ downcount' = downcount - 5
          /\ spent' = spent + 5
    /\ \E p \in Pc : guest' = [guest EXCEPT !.pc = p]
    /\ arch' = guest'
    /\ UNCHANGED <<hostVars, loc, ppc, syncExc, slice, timer, owed, timebase>>

\* HookInstructionFallback, slow path: the blocks before the instruction charged
\* n cycles, which SyncOut flushes ...
HookEnter ==
    /\ loc = "native"
    /\ hooks < MaxHooks
    /\ hooks' = hooks + 1
    /\ \E n \in Charge : SyncOut(n) /\ spent' = spent + n
    /\ loc' = "hook"
    /\ UNCHANGED <<trustVars, hostVars, arch, guest, syncExc, slice, timer, timebase>>

\* ... the interpreter executes it on PowerPCState, delivering a data exception
\* itself, and SyncIn goes back.
HookInterpret ==
    /\ loc = "hook"
    /\ TextEffect
    /\ ppc' \in Context
    /\ arch' = ppc'
    /\ downcount' = downcount - 1
    /\ spent' = spent + 1
    /\ SyncIn(ppc')
    /\ timebase' = (timer + slice - downcount') \div TimerRatio
    /\ syncExc' \in {syncExc, FALSE}
    /\ loc' = "native"
    /\ UNCHANGED <<hostVars, slice, timer, hooks>>

\* After a dispatch: flush the charge, at least one cycle; skip an idle loop; stay
\* in the burst while the next segment is trusted and time is left, else SyncOut
\* and deliver what the hooks raised.
FlushWith(idle, charged, goOn) ==
    LET flushed == downcount - charged
        left == IF idle THEN 0 ELSE flushed
        stay == /\ goOn
                /\ ~syncExc
                /\ left > 0
                /\ running
    IN  /\ loc = "flush"
        /\ owed' = 0
        /\ spent' = spent + (charged - owed) + (flushed - left)
        /\ downcount' = left
        /\ loc' = IF stay THEN "dispatch" ELSE "tail"
        /\ timebase' = IF stay THEN timebase + charged ELSE 0
        /\ IF stay
           THEN UNCHANGED ppc
           ELSE ppc' = IF syncExc THEN [guest EXCEPT !.pc = Elsewhere] ELSE guest
        /\ arch' = IF stay THEN arch ELSE ppc'
        /\ syncExc' = FALSE
        /\ UNCHANGED <<trustVars, hostVars, guest, slice, timer, hooks>>

AtLeastOne(n) == IF n > 0 THEN n ELSE 1

\* m_guest.pc == m_idle_pc: at most one address of the chunk, and only if known.
AtIdleLoop == IF guest.pc = IdleLoop /\ IdleLoop # Elsewhere THEN BOOLEAN ELSE {FALSE}

\* FlushFree: a dispatch that charged nothing costs nothing.
FlushFree ==
    \E idle \in AtIdleLoop : FlushWith(idle, owed, FastDispatchableAt(guest.pc))

\* FlushUnchecked: the burst goes on without asking the guard.
FlushUnchecked ==
    \E idle \in AtIdleLoop : FlushWith(idle, AtLeastOne(owed), armed /\ guest.pc \in Chunk)

Flush ==
    \E idle \in AtIdleLoop : FlushWith(idle, AtLeastOne(owed), FastDispatchableAt(guest.pc))

-----------------------------------------------------------------------------
(* Fallback engines, on PowerPCState.                                      *)

\* One interpreted instruction, or one JIT block.
FallbackStep ==
    /\ TextEffect
    /\ ppc' \in Context
    /\ arch' = ppc'
    /\ downcount' = downcount - 1
    /\ spent' = spent + 1
    /\ UNCHANGED <<hostVars, guest, syncExc, slice, timer, owed, timebase, hooks>>

InterpStep ==
    /\ loc = "interp"
    /\ FallbackStep
    /\ loc' = "check"

\* InterpCheckTimeOnly: the interpreter loop ends with the slice only.
InterpCheckTimeOnly ==
    /\ loc = "check"
    /\ loc' = IF downcount > 0 /\ running THEN "interp" ELSE "tail"
    /\ UNCHANGED <<trustVars, hostVars, cpuVars, timeVars, hooks>>

\* The loop condition of the interpreter loop hashes a chunk on arrival.
InterpCheck ==
    /\ loc = "check"
    /\ DispatchableAt(ppc.pc)
    /\ loc' = IF ~Dispatches(ppc.pc) /\ downcount > 0 /\ running THEN "interp" ELSE "tail"
    /\ UNCHANGED <<hostVars, cpuVars, timeVars, hooks>>

\* Jit64's dispatcher: a miss asks JitBaseBlockCache::Dispatch, which hashes the
\* chunk and answers null when native code could run; the block is compiled and
\* executed all the same.
JitStep ==
    /\ loc \in {"jit", "jitOnly"}
    /\ downcount > 0
    /\ FallbackStep
    /\ UNCHANGED loc

JitLookup ==
    /\ loc \in {"jit", "jitOnly"}
    /\ downcount > 0
    /\ DispatchableAt(ppc.pc)
    /\ UNCHANGED <<hostVars, loc, cpuVars, timeVars, hooks>>

\* The JIT runs CoreTiming::Advance itself at the end of a slice ...
JitSlice ==
    /\ loc \in {"jit", "jitOnly"}
    /\ downcount <= 0
    /\ running
    /\ StartSlice
    /\ SliceEffect
    /\ UNCHANGED <<hostVars, loc>>

\* ... and returns only when the CPU no longer runs.
JitReturn ==
    /\ loc \in {"jit", "jitOnly"}
    /\ downcount <= 0
    /\ ~running
    /\ loc' = IF loc = "jit" THEN "tail" ELSE "stopped"
    /\ UNCHANGED <<trustVars, hostVars, cpuVars, timeVars, hooks>>

\* The debugger steps one instruction.
SingleStep ==
    /\ loc = "stopped"
    /\ ~running
    /\ timer <= MaxTime
    /\ timer' = Ticks
    /\ slice' \in SliceLength
    /\ downcount' = slice' - 1
    /\ spent' = spent + 1
    /\ TextEffect
    /\ ppc' \in Context
    /\ arch' = ppc'
    /\ UNCHANGED <<hostVars, loc, guest, syncExc, owed, timebase, hooks>>

-----------------------------------------------------------------------------

CpuStep ==
    \/ Advance \/ ReadGameId \/ Leave \/ Pick \/ Tail
    \/ Dispatch \/ RunSegment \/ HookCacheOp \/ HookEnter \/ HookInterpret \/ Flush
    \/ InterpStep \/ InterpCheck
    \/ JitStep \/ JitLookup \/ JitSlice \/ JitReturn

Next == Pause \/ Resume \/ HostClearCache \/ SingleStep \/ CpuStep

\* The CPU thread is scheduled; the host need never pause or resume it.
Spec == Init /\ [][Next]_vars /\ WF_vars(CpuStep)

-----------------------------------------------------------------------------

\* D1 state residency: an engine always works on the current architectural
\* state.  Outside a burst, and inside the fallback hook, that is PowerPCState;
\* inside a burst it is m_guest.
StateResident ==
    /\ loc \in {"dispatch", "native", "flush"} => guest = arch
    /\ loc \notin {"dispatch", "native", "flush"} => ppc = arch

\* No cycle is lost or counted twice on its way from the segments' accumulator,
\* the hooks, the interpreter and idle skipping into CoreTiming.
CyclesConserved ==
    /\ Ticks + owed = spent
    /\ loc \notin {"native", "flush"} => owed = 0

\* Native code is entered only in a chunk the guard trusts at that moment, also
\* when the segment before it changed text or invalidated it in mid-burst.  Text
\* that is not the original one is entered only if nothing that reaches the guard
\* (a line or range invalidation, ClearCache) came since it was written; a flash
\* invalidate, which ABI v2's "again after any icache invalidation that touches it"
\* would count, does not reach it.
NativeEntrySound ==
    loc = "dispatch" =>
        /\ FastDispatchableAt(guest.pc)
        /\ guest.pc \in differs => guest.pc \in unseen

\* The interpreter hands over as soon as it reaches text that native code may run:
\* no interpreted instruction lies where native code could have been dispatched.
InterpreterOnlyUncovered ==
    [][(loc = "interp" /\ spent' # spent) => ~Dispatches(ppc.pc)]_vars

\* "Executes statically recompiled per-game native code when the PC is covered by
\* a loaded module; falls back ... for everything else" (StaticRecompCore.h), of
\* every fallback engine.
FallbackOnlyUncovered ==
    [][(loc \in {"interp", "jit"} /\ spent' # spent) => ~Dispatches(ppc.pc)]_vars

\* A slice ends: unless the CPU is paused, CoreTiming regains control however
\* little the segments charge, "so the burst always makes downcount progress".
SliceEnds == (loc = "inner") ~> (downcount <= 0 \/ ~running)

\* What the comment in SyncIn says of m_guest.timebase: it is "the live value,
\* matching the interpreter's mftb".  At the start of a segment the two engines
\* would read the same timebase.
TimeBaseMatches == loc = "dispatch" => timebase = FakeTimeBase
=============================================================================
