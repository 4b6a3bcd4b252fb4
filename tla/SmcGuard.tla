------------------------------- MODULE SmcGuard -------------------------------
(***************************************************************************)
(* The self-modifying-code guard of the StaticRecomp core, translated from *)
(* StaticRecompCore_SMC.cpp, with the module loader (StaticRecompCore.cpp) *)
(* that arms it and the invalidation plumbing that feeds it: JitInterface, *)
(* JitBaseBlockCache::InvalidateICache and the native cache-op fast path.  *)
(*                                                                         *)
(* Addresses are guest effective addresses counted in 4-byte words.  The   *)
(* text of a word is abstracted to whether it still is the original one;   *)
(* FNV-1a is taken to be collision free.  The two loops of                 *)
(* OnICacheInvalidate and the page loop of InvalidateICache are kept,      *)
(* one iteration per step.  Everything here runs on the CPU thread, so no  *)
(* other operation starts while an invalidation is in progress.            *)
(*                                                                         *)
(* A flash invalidate (HID0.ICFI) and a BAT update go to ClearSafe, which  *)
(* clears the block cache and never reaches the guard: no action here, and *)
(* no invalidation in the sense of the properties below.                   *)
(***************************************************************************)
EXTENDS Integers, Sequences, FiniteSets

CONSTANTS
    AddrSpace,          \* 2^32 bytes, in words
    RamBase, RamSize,   \* MEM1 (0x80000000, GetRamSizeReal)
    ExBase, ExSize,     \* MEM2 (0x90000000, GetExRamSizeReal)
    PageWords,          \* page or BAT block size
    LineWords,          \* one 32-byte cache line
    Mapped,             \* the addresses JitCache_TranslateAddress accepts
    ChunkRanges,        \* desc->chunk_ranges: a sequence of [start, end)
    Candidate,          \* the modules LoadModule may find
    Title,              \* the game ids that can be running
    NoTitle,            \* the empty game id
    NoModule,           \* m_module = nullptr
    Writable,           \* the words of MEM1 the guest writes (bound)
    ReqAddr, ReqLen     \* the ranges that get invalidated (bound)

Addr == 0 .. AddrSpace - 1
Chunks == 1 .. Len(ChunkRanges)
Start(c) == ChunkRanges[c].start
End(c) == ChunkRanges[c].end
Words(c) == Start(c) .. End(c) - 1
RamWords == RamBase .. RamBase + RamSize - 1

ASSUME MemoryAssumption ==
    /\ AddrSpace \in Nat \ {0} /\ PageWords \in Nat \ {0} /\ LineWords \in Nat \ {0}
    /\ RamBase \in Nat /\ RamSize \in Nat \ {0} /\ ExBase \in Nat /\ ExSize \in Nat
    /\ RamBase + RamSize <= ExBase /\ ExBase + ExSize <= AddrSpace
    /\ Writable \subseteq RamWords
    /\ ReqAddr \subseteq Addr /\ ReqLen \subseteq 0 .. AddrSpace - 1

\* desc->chunk_ranges: "sorted, non-overlapping" (StaticRecompABI.h).
ASSUME ChunkRangesAssumption ==
    /\ ChunkRanges \in Seq([start : Addr, end : Addr])
    /\ \A c \in Chunks : Start(c) < End(c)
    /\ \A c, d \in Chunks : c < d => End(c) <= Start(d)

ASSUME TitleAssumption ==
    /\ NoTitle \notin Title /\ NoModule \notin Title
    /\ \A m \in Candidate : m.game \in Title

\* address & mask in InvalidateICache, and address & ~0x1f in InvalidateICacheLine.
PageStart(a) == a - (a % PageWords)
LineStart(a) == a - (a % LineWords)

\* Translation is decided per page, a cache line never straddles two pages, and
\* pages and lines tile the address space.
ASSUME TranslationAssumption ==
    /\ Mapped \subseteq Addr
    /\ \A a \in Addr : PageStart(a) + PageWords <= AddrSpace
    /\ \A a, b \in Addr :
         PageStart(a) <= b /\ b < PageStart(a) + PageWords => (a \in Mapped <=> b \in Mapped)
    /\ \A a \in Addr : LineStart(a) + LineWords <= AddrSpace
    /\ \A a \in Addr : \A b \in LineStart(a) .. LineStart(a) + LineWords - 1 :
         b \in Mapped <=> LineStart(a) \in Mapped

\* u32 addition.
Wrap(n) == IF n >= AddrSpace THEN n - AddrSpace ELSE n

VARIABLES
    module,     \* m_module: the game id of the loaded module, or NoModule
    active,     \* m_module_active
    running,    \* SConfig::GetGameID()
    tableReady, \* m_chunk_lookup_table is filled
    chunkState, \* m_chunk_state
    failed,     \* m_failed_chunks
    patched,    \* the words of MEM1 that differ from the original text
    phase,      \* where the CPU thread is inside an invalidation
    job,        \* the locals of the invalidation in progress
    unseen,     \* history: chunks written since an invalidation reached them
    flushed     \* history: of those, the ones a native dcb* covered since

coreVars == <<module, active, running, tableReady>>
guardVars == <<chunkState, failed>>
loopVars == <<phase, job>>
histVars == <<unseen, flushed>>
vars == <<coreVars, guardVars, loopVars, patched, histVars>>

Phase == {"off", "idle", "split", "search", "demote"}
NoJob == [from |-> 0, total |-> 0, addr |-> 0, len |-> 0,
          first |-> 0, last |-> 0, lo |-> 1, hi |-> 1]

TypeOK ==
    /\ module \in Title \cup {NoModule}
    /\ active \in BOOLEAN
    /\ running \in Title \cup {NoTitle}
    /\ tableReady \in BOOLEAN
    /\ chunkState \in [Chunks -> {"unverified", "verified", "failed"}]
    /\ failed \in 0 .. Len(ChunkRanges)
    /\ patched \subseteq RamWords
    /\ phase \in Phase
    /\ job \in [from : Addr, total : 0 .. AddrSpace, addr : Addr, len : 0 .. AddrSpace,
                first : Addr, last : Addr,
                lo : 1 .. Len(ChunkRanges) + 1, hi : 1 .. Len(ChunkRanges) + 1]
    /\ unseen \subseteq Chunks
    /\ flushed \subseteq Chunks

Init ==
    /\ module = NoModule
    /\ active = FALSE
    /\ running \in Title \cup {NoTitle}
    /\ tableReady = FALSE
    /\ chunkState = [c \in Chunks |-> "unverified"]
    /\ failed = 0
    /\ patched = {}
    /\ phase = "off"
    /\ job = NoJob
    /\ unseen = {}
    /\ flushed = {}

-----------------------------------------------------------------------------
(* The module loader.                                                      *)

\* A candidate survives LoadModule: config, path, dlopen, descriptor, game id.
Accepts(m) ==
    /\ m.found
    /\ m.valid
    /\ m.forced \/ running = NoTitle \/ m.game = running

LoadModule(m) ==
    /\ phase = "off"
    /\ phase' = "idle"
    /\ IF Accepts(m)
       THEN /\ module' = m.game
            /\ active' = TRUE
            /\ chunkState' = [c \in Chunks |-> "unverified"]
            /\ failed' = 0
            /\ tableReady' = FALSE
       ELSE UNCHANGED <<module, active, chunkState, failed, tableReady>>
    /\ UNCHANGED <<running, job, patched, histVars>>

\* Shutdown; JitInterface then destroys the core, so the next one starts fresh.
Shutdown ==
    /\ phase = "idle"
    /\ phase' = "off"
    /\ module' = NoModule
    /\ active' = FALSE
    /\ tableReady' = FALSE
    /\ chunkState' = [c \in Chunks |-> "unverified"]
    /\ failed' = 0
    /\ unseen' = {}
    /\ flushed' = {}
    /\ UNCHANGED <<running, job, patched>>

ActiveNow == module # NoModule /\ (running = NoTitle \/ running = module)

\* The prologue of Run: InitLookupTable, then the active flag.
EnterRun ==
    /\ phase = "idle"
    /\ tableReady' = (module # NoModule)
    /\ active' = ActiveNow
    /\ UNCHANGED <<module, running, guardVars, loopVars, patched, histVars>>

\* The head of a slice re-reads the game id.
BeginSlice ==
    /\ phase = "idle"
    /\ active' = ActiveNow
    /\ UNCHANGED <<module, running, tableReady, guardVars, loopVars, patched, histVars>>

\* IOS or the disc channel starts another title.
ChangeTitle(t) ==
    /\ phase = "idle"
    /\ running' = t
    /\ UNCHANGED <<module, active, tableReady, guardVars, loopVars, patched, histVars>>

\* ClearCacheNoReset: forgets to restart the failure count.
ClearCacheNoReset ==
    /\ phase = "idle"
    /\ module # NoModule
    /\ chunkState' = [c \in Chunks |-> "unverified"]
    /\ unseen' = {}
    /\ flushed' = {}
    /\ UNCHANGED <<coreVars, failed, loopVars, patched>>

ClearCache ==
    /\ phase = "idle"
    /\ module # NoModule
    /\ chunkState' = [c \in Chunks |-> "unverified"]
    /\ failed' = 0
    /\ unseen' = {}
    /\ flushed' = {}
    /\ UNCHANGED <<coreVars, loopVars, patched>>

-----------------------------------------------------------------------------
(* Lookup and verification.                                                *)

NoChunk == 0

GetAddressLookupIndex(a) ==
    CASE a \in RamWords -> a - RamBase
      [] a \in ExBase .. ExBase + ExSize - 1 -> RamSize + (a - ExBase)
      [] OTHER -> -1

\* The chunks InitLookupTable writes at table index k.
EntriesInclusive(k) ==
    {c \in Chunks : LET s == GetAddressLookupIndex(Start(c))
                        e == GetAddressLookupIndex(End(c))
                    IN  s >= 0 /\ e >= s /\ s <= k /\ k <= e}

Entries(k) ==
    {c \in Chunks : LET s == GetAddressLookupIndex(Start(c))
                        e == GetAddressLookupIndex(End(c))
                    IN  s >= 0 /\ e >= s /\ s <= k /\ k < e}

\* A later chunk overwrites an earlier one's entry.
ChunkIndexOf(a) ==
    LET k == GetAddressLookupIndex(a)
        E == IF k >= 0 THEN Entries(k) ELSE {}
    IN  IF active /\ tableReady /\ E # {}
        THEN CHOOSE c \in E : \A d \in E : d <= c
        ELSE NoChunk

InMem1(c) ==
    /\ Start(c) >= RamBase
    /\ Start(c) - RamBase < RamSize
    /\ End(c) - Start(c) <= RamSize - (Start(c) - RamBase)

Differs == {c \in Chunks : Words(c) \cap patched # {}}

VerifyChunk(c) ==
    IF InMem1(c) /\ c \notin Differs
    THEN /\ chunkState' = [chunkState EXCEPT ![c] = "verified"]
         /\ UNCHANGED failed
    ELSE /\ chunkState' = [chunkState EXCEPT ![c] = "failed"]
         /\ failed' = failed + 1

\* A dispatch attempt at address a, from the run loop or the fallback JIT.
DispatchableAt(a) ==
    /\ phase = "idle"
    /\ LET c == ChunkIndexOf(a)
       IN  IF c # NoChunk /\ chunkState[c] = "unverified"
           THEN VerifyChunk(c)
           ELSE UNCHANGED guardVars
    /\ UNCHANGED <<coreVars, loopVars, patched, histVars>>

\* The guest, or a DMA, stores a word: the original instruction or another.
Store(w) ==
    /\ phase = "idle"
    /\ patched' \in {patched \cup {w}, patched \ {w}}
    /\ LET hit == {c \in Chunks : w \in Words(c)}
       IN  unseen' = unseen \cup hit /\ flushed' = flushed \ hit
    /\ UNCHANGED <<coreVars, guardVars, loopVars>>

-----------------------------------------------------------------------------
(* Invalidation.                                                           *)

\* How far word w lies behind address a, around the address space.
Behind(a, w) == IF w >= a THEN w - a ELSE w + AddrSpace - a

\* The chunks that own a translated word of the n words from a on.
Touched(a, n) == {c \in Chunks : \E w \in Words(c) \cap Mapped : Behind(a, w) < n}

\* JitInterface::InvalidateICacheLine -> OnICacheInvalidate(line, 32).  An
\* inactive guard returns at once.
InvalidateICacheLine(ea) ==
    IF LineStart(ea) \in Mapped /\ active
    THEN /\ phase' = "search"
         /\ job' = [from |-> LineStart(ea), total |-> LineWords,
                    addr |-> LineStart(ea), len |-> 0,
                    first |-> LineStart(ea), last |-> Wrap(LineStart(ea) + LineWords - 1),
                    lo |-> 1, hi |-> Len(ChunkRanges) + 1]
    ELSE UNCHANGED loopVars

\* icbi, dcbst, dcbf and dcbi in the interpreter (and native icbi).
InvalidatingCacheOp(ea) ==
    /\ phase = "idle"
    /\ InvalidateICacheLine(ea)
    /\ UNCHANGED <<coreVars, guardVars, patched, histVars>>

\* HookInstructionFallback's fast path: only icbi reaches the guard; dcbf,
\* dcbst and dcbi are charged and skipped.
NativeDataCacheOp(ea) ==
    /\ phase = "idle"
    /\ active
    /\ flushed' = flushed \cup (unseen \cap Touched(LineStart(ea), LineWords))
    /\ UNCHANGED <<coreVars, guardVars, loopVars, patched, unseen>>

\* JitInterface::InvalidateICache: DMA and loader writes, dcb* loops of the JIT.
InvalidateICache(a, n) ==
    /\ phase = "idle"
    /\ phase' = "split"
    /\ job' = [NoJob EXCEPT !.from = a, !.total = n, !.addr = a, !.len = n]
    /\ UNCHANGED <<coreVars, guardVars, patched, histVars>>

\* One turn of JitBaseBlockCache::InvalidateICache's loop: the part of the
\* range that lies in the page of its first address is handed to the guard.
SplitPage ==
    /\ phase = "split"
    /\ job.len > 0
    /\ LET last == Wrap(job.addr + job.len - 1)
           one == PageStart(job.addr) = PageStart(last)
           n == IF one THEN job.len ELSE PageStart(job.addr) + PageWords - job.addr
           left == IF one THEN 0 ELSE job.len - n
           guard == job.addr \in Mapped /\ active
       IN  /\ phase' = IF guard THEN "search" ELSE "split"
           /\ job' = [job EXCEPT
                        !.addr = IF one THEN job.addr ELSE Wrap(job.addr + n), !.len = left,
                        !.first = IF guard THEN job.addr ELSE job.first,
                        !.last = IF guard THEN Wrap(job.addr + n - 1) ELSE job.last,
                        !.lo = 1, !.hi = Len(ChunkRanges) + 1]
    /\ UNCHANGED <<coreVars, guardVars, patched, histVars>>

\* SearchStrict: looks for the first chunk with end >= address.
SearchStrict ==
    /\ phase = "search"
    /\ job.lo < job.hi
    /\ LET mid == job.lo + ((job.hi - job.lo) \div 2)
       IN  IF End(mid) < job.first
           THEN job' = [job EXCEPT !.lo = mid + 1]
           ELSE job' = [job EXCEPT !.hi = mid]
    /\ UNCHANGED <<coreVars, guardVars, phase, patched, histVars>>

\* SearchStuck: narrows to mid instead of mid + 1.
SearchStuck ==
    /\ phase = "search"
    /\ job.lo < job.hi
    /\ LET mid == job.lo + ((job.hi - job.lo) \div 2)
       IN  IF End(mid) <= job.first
           THEN job' = [job EXCEPT !.lo = mid]
           ELSE job' = [job EXCEPT !.hi = mid]
    /\ UNCHANGED <<coreVars, guardVars, phase, patched, histVars>>

\* The binary search for the first chunk with end > address.
Search ==
    /\ phase = "search"
    /\ job.lo < job.hi
    /\ LET mid == job.lo + ((job.hi - job.lo) \div 2)
       IN  IF End(mid) <= job.first
           THEN job' = [job EXCEPT !.lo = mid + 1]
           ELSE job' = [job EXCEPT !.hi = mid]
    /\ UNCHANGED <<coreVars, guardVars, phase, patched, histVars>>

SearchDone ==
    /\ phase = "search"
    /\ job.lo >= job.hi
    /\ phase' = "demote"
    /\ UNCHANGED <<coreVars, guardVars, job, patched, histVars>>

DemotingEarly == job.lo <= Len(ChunkRanges) /\ Start(job.lo) < job.last

\* The demotion loop goes on: chunk.start > last has not been met.
Demoting == job.lo <= Len(ChunkRanges) /\ Start(job.lo) <= job.last

\* DemoteUncounted: the failure count is not taken back.
DemoteUncounted ==
    /\ phase = "demote"
    /\ Demoting
    /\ chunkState' = [chunkState EXCEPT ![job.lo] = "unverified"]
    /\ job' = [job EXCEPT !.lo = job.lo + 1]
    /\ UNCHANGED <<coreVars, failed, phase, patched, histVars>>

Demote ==
    /\ phase = "demote"
    /\ Demoting
    /\ chunkState' = [chunkState EXCEPT ![job.lo] = "unverified"]
    /\ failed' = IF chunkState[job.lo] = "failed" THEN failed - 1 ELSE failed
    /\ job' = [job EXCEPT !.lo = job.lo + 1]
    /\ UNCHANGED <<coreVars, phase, patched, histVars>>

DemoteDone ==
    /\ phase = "demote"
    /\ ~Demoting
    /\ phase' = "split"
    /\ UNCHANGED <<coreVars, guardVars, job, patched, histVars>>

\* The invalidation returns.
Finish ==
    /\ phase = "split"
    /\ job.len = 0
    /\ phase' = "idle"
    /\ job' = NoJob
    /\ unseen' = IF active THEN unseen \ Touched(job.from, job.total) ELSE unseen
    /\ flushed' = flushed \cap unseen'
    /\ UNCHANGED <<coreVars, guardVars, patched>>

-----------------------------------------------------------------------------

Step == SplitPage \/ Search \/ SearchDone \/ Demote \/ DemoteDone \/ Finish

Next ==
    \/ \E m \in Candidate : LoadModule(m)
    \/ Shutdown
    \/ EnterRun
    \/ BeginSlice
    \/ \E t \in Title \cup {NoTitle} : ChangeTitle(t)
    \/ ClearCache
    \/ \E a \in Addr : DispatchableAt(a)
    \/ \E w \in Writable : Store(w)
    \/ \E ea \in ReqAddr : InvalidatingCacheOp(ea)
    \/ \E ea \in ReqAddr : NativeDataCacheOp(ea)
    \/ \E a \in ReqAddr, n \in ReqLen : InvalidateICache(a, n)
    \/ Step

\* An invalidation is a plain function call: the CPU thread runs it to its end.
Spec == Init /\ [][Next]_vars /\ WF_vars(Step)

-----------------------------------------------------------------------------

\* m_failed_chunks is decremented as a u32: it counts exactly the chunks that
\* are in CHUNK_FAILED, so it never wraps and the shutdown report is right.
FailedExact == failed = Cardinality({c \in Chunks : chunkState[c] = "failed"})

\* The lookup table sends an address to the chunk that holds it and to no
\* other; only a chunk that ends exactly at the end of a memory is left out
\* (its end has no table index), and runs on the fallback engine.
LookupExact ==
    active /\ tableReady =>
        \A a \in RamWords, c \in Chunks :
            ChunkIndexOf(a) = c <=> a \in Words(c) /\ End(c) # RamBase + RamSize

\* An invalidation drops the opinion only about chunks it overlaps: Dolphin
\* invalidates constantly while loading code, and the rest must keep its
\* coverage.
OnlyTouchedDemoted ==
    [][\A c \in Chunks :
         phase = "demote" /\ chunkState'[c] # chunkState[c]
            => c \in Touched(job.from, job.total)]_vars

\* Every invalidation returns: both loops and the page loop terminate.
InvalidationReturns == (phase \in {"split", "search", "demote"}) ~> (phase = "idle")

\* The guard keeps the promise of CodeTrust.  In particular, when an invalidation
\* returns, no chunk it touched is still trusted: ABI v2's "verifies a chunk's
\* guest RAM ... again after any icache invalidation that touches it".
CT == INSTANCE CodeTrust WITH
        Chunk <- Chunks,
        Mem1Chunk <- {c \in Chunks : InMem1(c)},
        armed <- active,
        trust <- chunkState,
        differs <- Differs,
        unseen <- unseen

KeepsTrust == CT!TrustSpec

\* The same promise as a state property: a chunk is trusted although its text
\* changed only while no invalidation has reached it since.
GuardSound ==
    \A c \in Chunks : chunkState[c] = "verified" /\ c \in Differs => c \in unseen

\* What the comment on the cache-op fast path says: dcbf, dcbst and dcbi feed the
\* guard like icbi does, "keeping the SMC guard exact".
CacheOpsExact ==
    \A c \in Chunks :
        chunkState[c] = "verified" /\ c \in Differs => c \in unseen \ flushed
=============================================================================
