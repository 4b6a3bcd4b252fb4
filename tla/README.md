# RecompCore in TLA+

RecompCore runs GameCube titles from statically recompiled native code. Its own
logic lives in four places: the *chassis*, a CPU core added to Dolphin
(`Source/Core/Core/PowerPC/StaticRecomp`); *GXRuntime*, a stand-alone C runtime
with device models; *StrikersRecomp*, the host program of one title; and
*DolRecomp*, the batch translator that emits the native code. The rest of the
tree is Dolphin and vendored libraries.

This directory holds TLA+ models of that logic, the TLC configurations that
check them, and TLAPS proofs. `PROJECT.json` maps every definition to the source
lines it stands for. File and line references below are relative to
`Source/Core/Core/PowerPC/StaticRecomp/` unless they name another directory.

## Inventory

| Component | State | Operations | Who it talks to | Hard behaviour | Correct when |
|---|---|---|---|---|---|
| SMC guard (`_SMC.cpp`) | per-chunk state, failure count, lookup table, active flag | look up, verify by hash, invalidate, clear | called by the run loop, the JIT dispatcher, every icache invalidation in Dolphin | range arithmetic mod 2^32, binary search at chunk edges, title changes | no chunk is trusted after its text changed and an invalidation reached it; nothing else is demoted |
| Module loader (`StaticRecompCore.cpp`) | module pointer | load, shut down | guard | wrong title, missing file | the guard starts with no opinion |
| Invalidation plumbing (`JitInterface`, `JitCache`) | none | line, range, whole space | guard | page splitting, wrap-around | every translated word of a request reaches the guard |
| Run loop (`_Run.cpp`) | position, slice, burst | advance, pick engine, dispatch, flush, interpret | CoreTiming, guard, module, interpreter, JIT, host thread | pause at any moment, exceptions from hooks, zero-charge segments | slices end; the right engine runs; no cycle is lost |
| State residency (`_Sync.cpp`) | `m_guest` and `PowerPCState` | SyncIn, SyncOut | run loop, fallback hook | two copies of the CPU state | the engine at work has the current one |
| Hooks (`_Hooks.cpp`) | none | memory hooks, instruction fallback, cache-op fast path | module, MMU, interpreter | run in the middle of a segment | the segment sees the interpreter's result |
| Lockstep verifier (`StaticRecompLockstep*.cpp`, `MMU_Tables.cpp`) | three first-touch journals, register snapshot, counters | prepare, verify: undo, replay in the interpreter, compare, redo | run loop, MMU write paths | a replay must leave no trace | the guest after a check is the guest after the native segment |
| Event clock, VI clock (`GXRuntime/src`) | 32 event slots, cached next deadline | schedule, cancel, advance, pop | host poll loop | ties, full table, periodic events that fell behind | events pop in deadline order, none twice, none lost |
| Interrupt sources (`interrupts.c`, `si.c`, `audio_dma.c`, Strikers `interrupt.c`) | PI cause and mask, device status bits | poll, raise, acknowledge, deliver | guest MMIO, host poll | acknowledge between raise and delivery | a raised interrupt is delivered once per acknowledge |
| EXI, DI, MMIO bus (`GXRuntime/src`) | command registers | start, complete, acknowledge | guest MMIO, host devices | none in this host: transfers complete at once | a completion belongs to the command under way |
| Memory card (`memory_card.c`) | directory of files in memory, container on disk, mounted flag | open, mount, format, create, write, delete, commit | card HLE, file system | failing file operations, crash during the commit, other games' files | a reported success is durable, a failure changed nothing |
| HLE callbacks (`hle_core.c`, `hle_card.c`) | ring of 32 callbacks, active flag, saved context | queue, poll, return | card HLE, main loop, guest scheduler | full ring, wrap-around, thread switches inside a callback | each promised callback runs once, in order, and what it interrupted goes on |
| DolRecomp job queue (`jobs.c`) | next index, failure flag, worker handles | take, run, fail, join | threads | a failing worker among running ones | every chunk emitted once, or failure reported |
| ARAM, DVD, guest memory, savestate, loader, boot, HLE tables, display lists, CPU semantics, decoder, emitter | buffers | copies, parsing, code generation | - | none beyond argument checks | functional correctness of data |

## Modules

`CodeTrust` - what the guard promises, with no addresses: for each chunk an
opinion (`unverified`, `verified`, `failed`), the set of chunks whose text
differs from the original, and the set of chunks written since the last
invalidation that reached them. Its invariant is that a verified chunk with
changed text is always one no invalidation has reached.

`SmcGuard` - the guard as written: word addresses in an address space that wraps,
MEM1 and MEM2, pages that translate or not, the sorted `chunk_ranges` of the
module descriptor. `OnICacheInvalidate` and the page loop above it are modelled
one loop iteration per step, so the loop indices are state (`job`) and the
proofs speak about them. `InitLookupTable`, `ChunkIndexOf`, `VerifyChunk`,
`DispatchableAt`, `ClearCache`, `LoadModule`, `Shutdown` and the two places in
`Run` that set the active flag are one action or operator each.

Abstractions: a word of text is either the original or not; FNV-1a is taken as
collision free; log lines and statistics counters are left out. `unseen` and
`flushed` are history variables: no code reads them.

`StaticRecompRun` - the run loop, extending `CodeTrust` as its view of the guard.
`loc` is the place of the CPU thread in `Run`: `top` and `head` (lines 45-49),
`inner` (55), `dispatch`, `native`, `flush` (59-111), `hook` (inside
`HookInstructionFallback`), `interp`, `check` (123-128), `jit`, `jitOnly` (inside
`m_fallback_jit->Run()`), `tail` (131), `stopped` (outside `Run`). A pc is its
chunk or `Elsewhere`, a register file one value. `arch` and `spent` are history:
the state the guest program is in, and every cycle charged. `TextEffect` is what an
instruction does to text and guard: nothing, a store, or a cache operation on a
line. A flash invalidate of the instruction cache (HID0.ICFI) is not one of the
latter: `InstructionCache::Reset` calls `JitInterface::ClearSafe`, which clears the
block cache (`JitCache.cpp:78-98`) and no opinion of the guard. Only
`StaticRecompCore::ClearCache` drops them all; it runs at the start of a slice when
the configuration changed (`JitBase.cpp:104-107`) and, in `HostClearCache`, while
the CPU thread is held (watchpoints, determinism, savestates).

`EventQueue` - what GXRuntime's event clock promises: a partial function from ids
to deadline and period, of bounded size.

`EventClock` - `event_clock.c`: the slot array, `has_next`, `next_deadline`, one
action per function. `Queue` maps the slots to `EventQueue`. `answer` is the last
result, so that the refinement compares what callers see.

`FpuContexts` - the cache of floating-point contexts in the Strikers host. A
register file is two lanes, the scalar one that an OSContext can hold and the
second paired-single lane that only the cache can. `kept` and `age` are history:
what a preempted thread held, and how many captures of others followed.

`InterruptPoll` - composes `EventClock` (as the VI clock) and `FpuContexts` with
the PI, VI, SI and audio DMA devices and the poll of `interrupt.c`. A device is
the bits that raise, mask or acknowledge its interrupt. `Poll` is the part of
`interrupt_poll` up to the clock's advance, `PopRetrace` one turn of its retrace
loop, `Deliver` and `PollReturn` its two ends. The guest is any sequence of
register accesses between two polls, each with the synchronisation that
`interrupt_mmio_read` and `_write` add, or, at the DSP, do not add. The EXI and
DI devices are only their interrupt lines. Units of work are natural numbers, as
a 64-bit count of guest blocks does not wrap.

`Lockstep` - the differential check of one native dispatch. A block is a short
sequence of operations (`store`, `bump` = load-add-store, hardware accesses of three
shapes, `mtspr`, `fallback` = an instruction native hands to the interpreter, `nop`)
on two registers, memory locations and one device register that every read changes.
`acc` stands for the registers the check compares (`_Check.cpp:212-232`: GPRs,
FPRs, LR, CTR, CR, XER, FPSCR, MSR, SRR0, SRR1, pc); `aux` for those it does not:
GQR0-7, HID2, EAR, the segment registers, DAR, DSISR and the reservation, several of
which native code moves to (`emitter.c:428-437`). `hwread` and `hwwrite` are at most
four bytes wide; `lfd` and `stfd` eight: native's journal keeps one entry with the
low word, the MMU makes two four-byte writes, and a replayed read returns one word;
`psq_l` and `psq_st` are a quantised pair: two accesses by native
(`cpu.c:296-298`), one by the interpreter (`Interpreter_LoadStorePaired.cpp:110-119`).
An entry of a hardware journal is therefore an offset, a value and a size. A block's
`through` are the places inside it at which its pc is already the address it ends at
(a dispatch that falls into a loop returns at the loop's header,
`emitter.c:284-286`), and the shadow stops at its first arrival there
(`_Check.cpp:178`).
`nativeCode` is what native runs, `guestCode` what the interpreter runs: the same,
or different in one operation or in where it goes. `NativeStep` is one operation
through the hooks and journals of `_Hooks.cpp` and `MMU_Tables.cpp`;
`VerifyBegin` undoes native's stores and loads the entry registers, `ShadowStep`
is one interpreter instruction under the sinks, `LockstepFinish` the comparison
and the restoration. A location stands for a memory region; `Journaled` says for
which regions the MMU has a journal call (MEM1, L1, Fake-VMEM, not MEM2). A shadow
past its own block may meet any instruction, also a trap. `ppc` says whose MSR,
downcount and exceptions `PowerPCState` holds. `left`, `shadowMem` and `escaped`
are history. Left out: the dispatch and report limits, tracing, statistics, the
pinned timebase (native's and the shadow's `mftb` read the same value and the
register is a value like any other). A shadow that leaves its block may come back to
the native end address after any further instruction.

`NoFalseAlarm` speaks of the blocks the verifier can judge (`Comparable`): they fit
the step cap, pass their end address only at the end, and make no split hardware
access. A correct block outside this class may be reported: TLC finds a trace when
the conjunct about `through` or the one about split accesses is dropped. `CleanAgrees` speaks of every block, but
only of what is compared: `acc`, hardware writes, and the locations native wrote.
Nothing is claimed of `aux`, where a wrong `mtspr` is found clean.

`Jobs` - `run_chunk_jobs` and its workers. The bodies that run under the queue's
lock are one step each; writing a chunk file is two, opening and writing, and both
may fail, as may the start of the queue and of each thread.

`CallbackQueue` - the ring of guest callbacks in `hle_core.c`. A CPU context is one
value. The guest may switch away from the thread that runs a callback and back.
`owed` and `stack` are history: callbacks promised and not run, contexts that the
callbacks under way interrupted.

`DurableCard` - what a memory card promises the game: a call changes one of the
game's files in memory and in the container at once, or neither.

`MemoryCard` - `memory_card.c`. `at` is the place in `write_container`, whose file
operations are one step each and may fail; `Crash` may come between any two. The
host itself keeps running (the code never calls fsync and promises nothing about
power loss). `medium` distinguishes no path (`none`), a file system whose rename
replaces (`safe`), one whose rename may fail (`lossy`), where the fallback of line
208 removes the old container first, which `DurableCard` allows as `Lose`, and one
that may also refuse to open a file that is there (`fickle`: permissions,
descriptors, sharing). `path_exists` takes that for absence, and `dol_card_open`
then renames an empty card over the container; `DurableCard` allows it, on a fickle
medium only, as a `PowerOn` that replaces what was saved, and `card_open` shows that
`memory_card.h:75-76` does not mean it. `Durable` maps the
card to `DurableCard`: a call that has not returned has not happened, and the rename
that puts the container in place is the step in which it does.

`*_proofs` modules hold the theorems, `MC*` modules the constants of the runs.
`MCUnits` puts the components that share no state into one run: `unit` picks one of
them in the initial state, and only that one moves.

## Runs

| Run | Expectation | Shows |
|---|---|---|
| `smc_guard` | pass | failure count exact; lookup table exact; the guard implements `CodeTrust`; only touched chunks are demoted; every invalidation returns |
| `smc_cache_ops` | violation | native `dcbf`/`dcbst`/`dcbi` do not reach the guard, against the comment at `_Hooks.cpp:179-181` |
| `smc_full_range` | violation | a whole-address-space request that starts off a page boundary ends after one page, against `StaticRecompABI.h:61-63` |
| `run_loop` | pass | one architectural state, cycles conserved, sound native entry, the interpreter hands over, slices end |
| `run_loop_jit` | violation | with a fallback JIT, covered code stays in the JIT, against `StaticRecompCore.h:32-33` |
| `run_loop_timebase` | violation | `m_guest.timebase` advances by cycles, not timebase ticks, against `_Sync.cpp:67-68` |
| `units` | pass | `EventClock`: the cached deadline is exact, no id has two slots, the array implements `EventQueue`. `Jobs`: one writer a chunk, the verdict is true, no worker outlives the call, the call ends. `CallbackQueue`: the ring is a queue, the interrupted context is kept. `MemoryCard`: implements `DurableCard`; the directory stays usable. `FpuContexts`: a cache entry is its thread's own latest capture; a recent one is still there. `Lockstep`: a check leaves no trace, a correct comparable block is not reported, a clean block agrees in what is compared |
| `card_open` | violation | a container that could not be opened is replaced by an empty card, against `memory_card.h:75-76` |
| `lockstep_mem2` | violation | the shadow's stores to MEM2 persist, against `StaticRecompLockstep.h:10-11` and `:60` |
| `lockstep_lost_store` | violation | a block whose translation lost a store is found clean, against `StaticRecompLockstep.h:4-6` |
| `fpu_contexts_turn` | violation | a preempted thread loses its entry while a slot is free, against `interrupt.c:108-109` |
| `interrupt_poll` | pass | one retrace per frame of polled work, the PI cause follows the lines, no spurious delivery, the retrace loop ends |

Bounds. `smc_guard`: 32 words of address space with MEM1 at 8-15 and MEM2 at
24-27, four-word pages, two-word lines, one page that does not translate, four
chunks: two that share a page, one that ends at the end of MEM1 (no lookup index
for its end), one in MEM2 (never verifiable). Requests of 0, 1, 2, 5 and 18 words
start at three addresses: they end before, at and behind chunk edges, cross
pages and cross the unmapped page. Two titles and one acceptable and one missing
module. `run_loop`: one chunk that also holds the idle loop, two register values,
segments that charge 0 or 2 cycles, slices of 3 cycles, which a segment may end inside or overdraw, one hooked instruction a
segment, both builds (with and without the JIT). One chunk is enough for the
loop's decisions, which ask only about the current pc; the proofs cover any set
of chunks. `MaxTime` stops new slices, and `MaxHooks` bounds the hooks of a
segment. `units`: the clock has three ids for two slots, so the table fills up; delays
0 and 3, one-shot and period 2, advances of 1 and 3 up to work unit 4, so that
events tie, are due at once and fall a period behind. The pool has up to three
chunks and three requested threads: fewer, as many and more threads than chunks,
with every combination of failures. The ring has three places for two callback
addresses, so it fills, wraps and refuses; two guest contexts. The card has two
directory entries, two names, files of one and two blocks on a card of two blocks,
so that names clash, entries run out before blocks and blocks before entries, and
containers that are missing, unreadable, empty or hold another game's file, on every
kind of medium. The context cache has three threads for two slots; `MaxAge` is one
more than the slots, the age beyond which nothing is promised. Lockstep runs every
block of up to two operations on one location with values modulo 4 (two halves of
two values, so that a truncated, a split and a whole access all differ), and every
translation of it that differs in one place, then a second block of one operation,
with charges 0 and 1 and a step cap of 2: a shadow of a one-operation block runs past
it, and every shadow that misses its end address runs into the cap. One of two entry
addresses is whitelisted, and the second dispatch may be of a checked block.
`MaxBlocks` bounds the dispatches. `lockstep_mem2` has a second location, which is
not journaled, and `lockstep_lost_store` the same blocks. `card_open` has the bounds
of the card. `interrupt_poll`: frames of two blocks in batches of
three, so that a batch spans one or two frame ends and ends on and off them; two
SI channels, so that reading one leaves the line up; six blocks (two batches).
One thread, as the context cache has its own run.

Fairness. `SmcGuard` assumes weak fairness of `Step`, the loops of one function
call on a running thread. `StaticRecompRun` assumes weak fairness of `CpuStep`:
the CPU thread is scheduled. Nothing is assumed of the host thread, which may
never pause or resume. `InterruptPoll` assumes
weak fairness of `PollStep`: `interrupt_poll` is a function call of the main loop,
and its loop goes on until it returns; nothing is assumed of the guest.
`Jobs` assumes weak fairness of the main thread and of each worker: the operating
system runs every thread that can run. `InvalidationReturns`, `SliceEnds`,
`PollReturns` and `PoolEnds` rest on these.

## Proofs

`SmcGuard_proofs` works for every memory layout, page and line size, chunk list
and set of requests that satisfy the assumptions of `SmcGuard`.

* `FailureCount`, `GuardTypes`: `Spec => [](TypeOK /\ FailedExact)`. Cardinality facts about
  adding and removing one chunk carry `VerifyChunk` and `Demote`; that the count
  of a failed chunk is at least one keeps the decrement in range.
* `GuardIsSound`, `OnlyTouchedAreDemoted`, `GuardKeepsTrust`: under
  `RequestsDoNotWrap`. `GuardSound` is not inductive: in the middle of an
  invalidation the guard has dropped only part of the chunks. The strengthening
  says what each phase has achieved: the words of the request already passed by
  the page loop lie in chunks that are no longer trusted; the binary search keeps
  every chunk left of `lo` before the request and every chunk from `hi` on
  behind its first word; in the demotion loop every chunk below `lo` that
  overlaps the piece has been dropped. `Finish` may then remove the touched
  chunks from `unseen`. The refinement of `CodeTrust` maps each single-chunk
  demotion to `Forget` and `Finish` to `Invalidate`, with all other loop steps as
  stutters.
* `RequestsDoNotWrap` is needed: `smc_full_range` is the counterexample without it.
* `LookupIsExact`: under `LayoutFits`, no chunk straddles a boundary of MEM1 and MEM2
  does not begin where MEM1 ends (0x81800000 and 0x90000000 on the machine). Without
  the first, `InitLookupTable` drops a chunk with one end outside memory; without the
  second the end of MEM1 would have an index. At most one chunk writes an entry, so
  the order of the writes does not matter.
* `InvalidationDescends`: every turn of the three loops lowers the triple of words
  left, loop at work and turns left. It needs the types only, so it holds for
  wrapping requests too. With weak fairness of `Step` this is why
  `InvalidationReturns` holds; that last inference is left to TLC.

`StaticRecompRun_proofs` works for every set of chunks, register file, set of charges
and slice lengths. `TrustIsSound` proves the promise of `CodeTrust`, which the
theorems about the loop use.

* `RunTypes`, `RunResident`, `RunCycles`, `RunEntry`. `CyclesConserved` is inductive
  with the types once it also says where the accumulator must be empty;
  `NativeEntrySound` needs the invariant of `CodeTrust` and that `Dispatches` leaves
  a chunk verified. It says of text that changed without an invalidation reaching the
  guard only that it may be entered; a flash invalidate reaches the guard no more
  than no invalidation at all.
* `InterpreterHandsOver`: where the interpreter is about to execute an instruction,
  `DispatchableAt` has said no, and goes on saying no: if it hashed the chunk, the
  chunk is now `failed`. `FallbackHandsOver` is the same for every fallback of a
  build without the JIT (`JitBuild = {FALSE}`), the condition under which the claim
  that `run_loop_jit` refutes does hold.
* `BurstDescends`: a burst goes on only with a smaller, positive downcount.

`FpuContexts_proofs`, for every set of threads and number of slots: `CacheIsOwn`
is inductive with the types and two facts about who runs: the running thread is
not a preempted one (its entry has been used up), and an interrupt is always
handled inside some thread. `TurnKeepsRecent` needs to know where the entry of a
preempted thread is: `TurnInv` says that an entry captured `age` captures ago lies
exactly `age + 1` slots behind `cacheNext`, in turn. The running thread never has
an entry when it is interrupted, so every capture moves the turn on by one, and
the slot it takes belongs to a thread whose age reaches the number of slots.

`Jobs_proofs`, for every number of chunks and requested threads: `VerdictIsExact`,
`OneWriter`, `NoneOutlives`. The inductive invariant `JobsInv` joins the types,
the shape of the pool (which threads exist, which are joined, where the main thread
is), the claims (a busy worker's chunk is one of the first `nextJob`, no other
worker's, and in the state that the worker's place says), and the accounting:
every taken chunk is written or in a worker's hands unless the queue is marked
failed, it is marked only when a chunk is broken or a thread is missing, and a
worker that has ended left either a marked queue or one with no chunk to take.

`Lockstep_proofs`: `NativeIsKept`, `CleanBlocksAgree` and `NoAlarmIsFalse`, for every set of locations,
step cap, block and translation, under `Journaled = Loc`; `lockstep_mem2` is the
counterexample without it. `NativeKept` speaks of the time between two dispatches;
the strengthening (`Restorable`) says that at every point of the shadow run putting
back the shadow's pre-images and then native's results gives what native left, and
(`Fresh`) that a shadow starts without images. `Complete` adds for the comparison
that every location an operation of native stored to has a pre-image, later a
result, and that the journal of hardware writes is what native wrote, as long as
none of them was eight bytes wide; one that was has left an entry of a size the
shadow never captures, so the block is not clean. For
`NoFalseAlarm` that is not enough: the shadow has to repeat a run whose states
nobody stored. `Traced` says that there is a trace of register, memory, reads so far
and hardware writes so far, one state an operation, that begins in the snapshot and
the memory undoing would give and ends in what native left, for the blocks that are
`Comparable`; each of native's steps
extends it by one state, a store without changing what undoing gives, and a later
read without changing the answers to earlier ones. The shadow stands on that trace,
one step an operation, so at the end there is nothing to report. The invariant
quantifies over traces, which TLC cannot enumerate; TLC checks `NoFalseAlarm` itself.

`Hle_proofs`, about the callback ring and the memory card.

* `RingQueues` and `ContextIsKept`, for every ring size. The two
  invariants are inductive together with the types; the work is in the indices: one
  turn too far is brought back by one turn, so two of at most `RingSize` consecutive
  positions never share a slot, and moving the read position on renumbers the slots.
* `DirectoryIsUsable` and `CardIsDurable`, for every number of directory entries and
  blocks, set of names and kind of medium. `CardInv` adds to the types what is in
  flight: `write_container` runs on an open card with a path, the temporary file holds
  what is in memory once it is written, and only a lossy host gets to the removal
  (`WritingInv`); what is being written differs from what the caller would put back
  in one file of the game (`ChangeInv`); a closed card is empty, and an open one never
  stands on a container that could not be read, unless it is about to replace one on a
  fickle medium (`OpenInv`); memory, the copy to put
  back and the container are all usable (`UsableInv`). The rename is then the step of
  `DurableCard`, every other file operation, failing or not, a stutter, and a crash of
  an open card `PowerOff`. Blocks in use are the cardinality of a set of pairs of file
  and block, so that the free-space test is a fact about finite sets.

`EventClock_proofs`, for every capacity, id set, delay and period.

* `CacheIsExact` and `IdsUnique`, inductive together with the types. That the scans
  find a first slot and an earliest deadline rests on the well-ordering of the
  naturals.
* `ClockIsQueue`: the array implements `EventQueue`. One slot an id makes the mapping
  from ids to deadlines a function, of as many ids as there are active slots, so that
  a full array is a full queue; the cached deadline makes the fast path of `PopDue`
  refuse exactly when nothing is due.

`InterruptPoll_proofs`, for every frame length, batch size, channel and source set:
`PollTypes`, `CadenceIsExact`, `CauseIsLine`, `DeliveryIsJustified`,
`PollKeepsContexts`. `PollInv` joins the invariants of the clock and of the context
cache with what ties the parts together: the retrace is the clock's only event and
its deadline is the number of retraces times the frame length plus one frame
(`OnlyRetrace`), no retrace is due outside the poll (`InCadence`), the audio line has
just been copied when the retrace loop runs (`AudioLatched`), and the handler runs with
interrupts off (`HandlerMasked`). Delivery then needs `AudioLatched`: outside the poll
the DSP cause may be stale. `PollKeepsContexts` shows that the composition uses
`FpuContexts` only as that module allows, so its theorems carry over. The proofs need
that the lines of EXI and DI (`Port`) are PI sources of their own, which the bit
numbers of `interrupts.h` say.

Only model-checked: the liveness properties (`InvalidationReturns`, `SliceEnds`,
`PollReturns`, `PoolEnds`), which rest on fairness and are outside the prover's reach. Every invariant, action property and refinement of the
passing runs is a theorem, under the assumptions named above.

## Not modelled, and the plan

Nothing is said about the values memory hooks transfer, generated code, hash
collisions, Dolphin's JIT blocks, or host file formats. The EXI and DI engines can
complete a transfer late, but only their tests ask them to; in this host a transfer
completes inside the register write that starts it. DolRecomp's decoder and
emitter and GXRuntime's CPU and graphics code are functions from data to data. The
bulk of the tree is Dolphin and vendored libraries, which are the environment here.

Seen while modelling and not stated by a property, beside what `PROJECT.json`
lists: an unaligned store to uncached memory raises the PI error interrupt in
the shadow as it did in native's run (`MMU_Tables.cpp:337`); `event_clock.h:40-41`
says that ties follow insertion order unless an id is rescheduled, but an event
that takes the slot of a cancelled one also comes before older events in later
slots; a complete temporary container that a crash left behind is never read; and
file numbers of the card are slot numbers, so one kept across a delete and a create
means the new file. A flash invalidate does not reach the guard, against
`StaticRecompABI.h:61-63` (the claim `smc_full_range` refutes in another way). The
verdict on a chunk file is that of `fclose` (`jobs.c:37`): a write error on an
earlier full buffer whose remainder then fits is not looked at. Of what a loaded
savestate replaces only the cleared cache is modelled, not registers, memory or time.

The order of further work:

1. Descent theorems for the retrace loop and the job pool, as `InvalidationDescends`
   and `BurstDescends` are for the guard and the burst.
2. The context cache when threads are created and cancelled: entries are found by
   the address of the OSContext.
3. `CallbackQueue` composed with `InterruptPoll`: a callback is dispatched whether or
   not the guest has interrupts disabled.
4. Snapshots of the Strikers host taken while a callback or a transfer is under way.
