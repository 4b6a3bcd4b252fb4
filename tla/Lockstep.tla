------------------------------- MODULE Lockstep -------------------------------
(***************************************************************************)
(* StaticRecomp's lockstep verifier.  A natively dispatched block is run a *)
(* second time on the interpreter, from the block's entry state and on the *)
(* memory the block found, and the results are compared.  Native's run is  *)
(* the one that counts: what the second run, the shadow, does to memory    *)
(* and hardware has to be undone or never happen.                          *)
(*                                                                         *)
(* A block is a short sequence of operations on two registers, on memory   *)
(* locations and on one device register.  The generated code of a block    *)
(* and the guest code the interpreter executes are two such sequences, the *)
(* same unless the block was translated wrongly.  A hardware access of     *)
(* eight bytes, or of a quantised pair, is split differently by the two    *)
(* sides, so an entry of a hardware journal has an offset and a size.      *)
(***************************************************************************)
EXTENDS Integers, Sequences

CONSTANTS
    Loc,            \* memory locations, at least one a memory region
    Journaled,      \* those the MMU's write funnel journals: MEM1, L1, Fake-VMEM
    NoLoc,          \* operand of an operation that touches no memory
    Modulus,        \* registers and memory count modulo this
    Half,           \* and the halves of a value modulo this
    Block,          \* entry addresses
    Whitelist,      \* STATICRECOMP_LOCKSTEP_WHITELIST
    Start,          \* STATICRECOMP_LOCKSTEP_START, the first dispatch looked at
    StepCap,        \* m_ls_step_cap
    Grace,          \* LS_UNDERCHARGE_GRACE
    Charge,         \* cycles a block may charge (bound)
    MaxBlocks,      \* blocks dispatched (bound)
    MaxBlockLen     \* operations in a block and the one before it (bound)

ASSUME LockstepAssumption ==
    /\ Journaled \subseteq Loc /\ NoLoc \notin Loc
    /\ Modulus \in Nat \ {0, 1} /\ Half \in Nat \ {0} /\ Whitelist \subseteq Block
    /\ Start \in Nat /\ StepCap \in Nat \ {0} /\ Grace \in Nat /\ Charge \subseteq Nat
    /\ MaxBlocks \in Nat /\ MaxBlockLen \in Nat \ {0}

VARIABLES
    phase,                  \* "idle", "native" or "shadow"
    block,                  \* m_ls_entry, and the block being dispatched
    nativeCode, guestCode,  \* what native runs, what the interpreter runs
    pos,                    \* native's place in nativeCode
    charge,                 \* -m_guest.downcount
    mem,                    \* guest memory
    acc,                    \* m_guest's registers that the check compares
    aux,                    \* those it does not: GQRs, HID2, EAR, SRs, DAR, DSISR, reservation
    device,                 \* the device register: every read changes it
    out,                    \* what this block wrote to the device
    ppc,                    \* whose MSR, downcount and Exceptions ppc_state holds
    dispatches,             \* m_native_dispatches
    journaling,             \* m_ls_journaling, and the native journals installed
    checked,                \* m_ls_checked
    snapshot,               \* m_ls_snapshot
    fallbackSeen,           \* m_ls_fallback_seen
    pre, post, shadowPre,   \* m_journal's images of memory
    reads,                  \* m_journal.native_reads
    nativeMmio, interpMmio, \* m_journal.native_mmio, interp_mmio
    shadow,                 \* the interpreter: registers, place, steps, read index, pc = end_pc
    outcome,                \* what LockstepCheck concluded
    left,                   \* history: memory, hardware and ppc as native left them
    shadowMem,              \* history: memory as the shadow left it
    escaped                 \* history: the shadow ran an operation no sink catches

blockVars == <<block, nativeCode, guestCode, charge>>
journalVars == <<pre, post, shadowPre, reads, nativeMmio, interpMmio>>
machineVars == <<mem, device, out, ppc>>
historyVars == <<left, shadowMem, escaped>>
lockstepVars == <<phase, blockVars, pos, machineVars, acc, aux, dispatches, journaling, checked,
                  snapshot, fallbackSeen, journalVars, shadow, outcome, historyVars>>

Val == 0 .. Modulus - 1
Plus1(v) == (v + 1) % Modulus
High(v) == v \div Half
Low(v) == v % Half

\* LsWrite: address, data and size of a hardware access.
LsWrite(offset, data, size) == [offset |-> offset, data |-> data, size |-> size]

\* "bump" is load, add and store: it reads what it then overwrites.  "hwread"
\* and "hwwrite" are at most four bytes wide, lfd and stfd eight, psq_l and
\* psq_st a quantised pair; "mtspr" is a move to a register the check does not
\* compare.  "fallback" stands for the instructions native hands to the interpreter.
HardwareOps == {"hwread", "hwwrite", "lfd", "stfd", "psq_l", "psq_st"}
Op == {[op |-> o, loc |-> l] : o \in {"store", "bump"}, l \in Loc}
        \cup {[op |-> o, loc |-> NoLoc] : o \in HardwareOps \cup {"nop", "mtspr", "fallback"}}
Trap == [op |-> "trap", loc |-> NoLoc]

\* A block, where it goes, and after how many of its operations the pc is already
\* the address it ends at: a dispatch that falls into a loop returns at its header.
Code(n) == [ops : [1 .. n -> Op], through : SUBSET (1 .. n - 1), exit : {"here"}]

\* What the guest's block may be when native's translation of it is c: the same
\* code, or code that differs in one operation or in where it goes.
GuestCodes(c) ==
    {c} \cup {[c EXCEPT !.exit = "elsewhere"]}
        \cup {[c EXCEPT !.ops[k] = o] : k \in 1 .. Len(c.ops), o \in Op \cup {Trap}}

Machine == [mem |-> mem, device |-> device, out |-> out, ppc |-> ppc]
NoImage == [l \in {} |-> 0]
NoShadow == [acc |-> 0, aux |-> 0, pos |-> 1, steps |-> 0, readIndex |-> 0,
             readOverflow |-> FALSE, trapped |-> FALSE, atEnd |-> FALSE]
NoCode == [ops |-> <<[op |-> "nop", loc |-> NoLoc]>>, through |-> {}, exit |-> "here"]

LockstepInit ==
    /\ phase = "idle" /\ block \in Block
    /\ nativeCode = NoCode /\ guestCode = NoCode /\ pos = 1 /\ charge = 0
    /\ mem = [l \in Loc |-> 0] /\ acc = 0 /\ aux = 0 /\ device = 0 /\ out = <<>> /\ ppc = "native"
    /\ dispatches = 0 /\ journaling = FALSE /\ checked = {}
    /\ snapshot = [acc |-> 0, aux |-> 0] /\ fallbackSeen = FALSE
    /\ pre = NoImage /\ post = NoImage /\ shadowPre = NoImage
    /\ reads = <<>> /\ nativeMmio = <<>> /\ interpMmio = <<>>
    /\ shadow = NoShadow /\ outcome = "none"
    /\ left = Machine /\ shadowMem = mem /\ escaped = FALSE

-----------------------------------------------------------------------------
(* Journals                                                                  *)

\* std::unordered_map::emplace: the first image of a location stays.
emplace(image, l, v) ==
    IF l \in DOMAIN image THEN image
    ELSE [m \in DOMAIN image \cup {l} |-> IF m = l THEN v ELSE image[m]]

\* The MMU's funnel calls the region's journal before a store, except in EXRAM.
Journal(image, l) == IF l \in Journaled THEN emplace(image, l, mem[l]) ELSE image

Overlay(m, image) == [l \in Loc |-> IF l \in DOMAIN image THEN image[l] ELSE m[l]]

-----------------------------------------------------------------------------
(* The native dispatch                                                       *)

ShouldCheck(b) == dispatches >= Start /\ b \notin checked

Prepare ==
    /\ snapshot' = [acc |-> acc, aux |-> aux]
    /\ pre' = NoImage /\ post' = NoImage /\ shadowPre' = NoImage
    /\ reads' = <<>> /\ nativeMmio' = <<>> /\ interpMmio' = <<>>
    /\ fallbackSeen' = FALSE
    /\ journaling' = TRUE

\* The run loop is about to dispatch b.
Dispatch(b, c, g, n) ==
    /\ phase = "idle"
    /\ phase' = "native" /\ block' = b /\ nativeCode' = c /\ guestCode' = g /\ charge' = n
    /\ pos' = 1 /\ out' = <<>>
    /\ IF ShouldCheck(b) THEN Prepare ELSE UNCHANGED <<snapshot, journalVars, fallbackSeen, journaling>>
    /\ dispatches' = dispatches + 1
    /\ outcome' = "none" /\ shadow' = NoShadow
    /\ left' = [Machine EXCEPT !.out = <<>>] /\ shadowMem' = mem /\ escaped' = FALSE
    /\ UNCHANGED <<mem, acc, aux, device, ppc, checked>>

\* A store, journaled while the block is observed.
NativeStore(l, v) ==
    /\ mem' = [mem EXCEPT ![l] = v]
    /\ pre' = IF journaling THEN Journal(pre, l) ELSE pre

\* HookExternalRead: the answer, and what the journal keeps of it.
NativeRead(kept) ==
    /\ acc' = device /\ device' = Plus1(device)
    /\ reads' = IF journaling THEN reads \o kept ELSE reads
    /\ UNCHANGED <<mem, pre, aux, out, nativeMmio, fallbackSeen>>

\* HookExternalWrite: what the device gets, and what the journal keeps of it.
NativeWrite(sent, kept) ==
    /\ out' = out \o sent
    /\ nativeMmio' = IF journaling THEN nativeMmio \o kept ELSE nativeMmio
    /\ UNCHANGED <<mem, pre, acc, aux, device, reads, fallbackSeen>>

Whole(v) == <<LsWrite(0, v, 4)>>
Words(v) == <<LsWrite(0, High(v), 4), LsWrite(1, Low(v), 4)>>
Pair(v) == <<LsWrite(0, High(v), 2), LsWrite(1, Low(v), 2)>>
Truncated(v) == <<LsWrite(0, Low(v), 8)>>

\* One operation of the generated code, through the environment hooks.  The
\* journal keeps the low word of an eight-byte access as one entry; a quantised
\* pair is two accesses.
NativeStep ==
    LET o == nativeCode.ops[pos]
    IN  /\ phase = "native" /\ pos <= Len(nativeCode.ops)
        /\ pos' = pos + 1
        /\ \/ o.op = "nop" /\ UNCHANGED <<mem, pre, acc, aux, device, out, reads, nativeMmio, fallbackSeen>>
           \/ /\ o.op = "store" /\ NativeStore(o.loc, acc)
              /\ UNCHANGED <<acc, aux, device, out, reads, nativeMmio, fallbackSeen>>
           \/ /\ o.op = "bump" /\ NativeStore(o.loc, Plus1(mem[o.loc])) /\ acc' = Plus1(mem[o.loc])
              /\ UNCHANGED <<aux, device, out, reads, nativeMmio, fallbackSeen>>
           \/ o.op = "hwread" /\ NativeRead(Whole(device))
           \/ o.op = "lfd" /\ NativeRead(Truncated(device))
           \/ o.op = "psq_l" /\ NativeRead(Pair(device))
           \/ o.op = "hwwrite" /\ NativeWrite(Whole(acc), Whole(acc))
           \/ o.op = "stfd" /\ NativeWrite(Words(acc), Truncated(acc))
           \/ o.op = "psq_st" /\ NativeWrite(Pair(acc), Pair(acc))
           \/ /\ o.op = "mtspr" /\ aux' = acc
              /\ UNCHANGED <<mem, pre, acc, device, out, reads, nativeMmio, fallbackSeen>>
           \/ /\ o.op = "fallback" /\ device' = Plus1(device)
              /\ fallbackSeen' = (fallbackSeen \/ journaling)
              /\ UNCHANGED <<mem, pre, acc, aux, out, reads, nativeMmio>>
        /\ UNCHANGED <<phase, blockVars, ppc, dispatches, journaling, checked, snapshot, post,
                       shadowPre, interpMmio, shadow, outcome, historyVars>>

NativeDone == phase = "native" /\ pos > Len(nativeCode.ops)

\* An unobserved dispatch ends.
EndUnchecked ==
    /\ NativeDone /\ ~journaling
    /\ phase' = "idle"
    /\ left' = Machine /\ shadowMem' = mem
    /\ UNCHANGED <<blockVars, pos, machineVars, acc, aux, dispatches, journaling, checked, snapshot,
                   fallbackSeen, journalVars, shadow, outcome, escaped>>

\* Verify uninstalls native's journals; LockstepCheck skips a block that fell
\* back or charged nothing.
VerifySkip ==
    /\ NativeDone /\ journaling
    /\ journaling' = FALSE
    /\ checked' = checked \cup {block}
    /\ fallbackSeen \/ charge = 0
    /\ phase' = "idle"
    /\ outcome' = IF fallbackSeen THEN "skipped_fallback" ELSE "skipped_zero"
    /\ left' = Machine /\ shadowMem' = mem
    /\ UNCHANGED <<blockVars, pos, machineVars, acc, aux, dispatches, snapshot, fallbackSeen,
                   journalVars, shadow, escaped>>

-----------------------------------------------------------------------------
(* The shadow run                                                            *)

\* NotUndone: the shadow runs on what native left.
NotUndone == mem

\* Memory as the block found it, where its stores were journaled.
Undone == Overlay(mem, pre)

\* Native's stores are undone, their results kept in post; the interpreter
\* starts from the entry registers with the sinks and journals installed.
VerifyBegin ==
    /\ NativeDone /\ journaling
    /\ journaling' = FALSE
    /\ checked' = checked \cup {block}
    /\ ~fallbackSeen /\ charge > 0
    /\ phase' = "shadow"
    /\ left' = Machine
    /\ post' = [l \in DOMAIN pre |-> mem[l]]
    /\ mem' = Undone
    /\ ppc' = "shadow"
    /\ shadow' = [NoShadow EXCEPT !.acc = snapshot.acc, !.aux = snapshot.aux]
    /\ UNCHANGED <<blockVars, pos, acc, aux, device, out, dispatches, snapshot, fallbackSeen, pre,
                   shadowPre, reads, nativeMmio, interpMmio, outcome, shadowMem, escaped>>

\* pc = end_pc
AtEndPc == shadow.atEnd

\* The loop ends at the first arrival at end_pc, at an exception or at the cap.
ShadowRunning == phase = "shadow" /\ shadow.steps < StepCap /\ ~AtEndPc /\ ~shadow.trapped

\* What the interpreter meets next: beyond its block it may meet anything.
ShadowOps ==
    IF shadow.pos <= Len(guestCode.ops) THEN {guestCode.ops[shadow.pos]} ELSE Op \cup {Trap}

\* Whether the next operation takes it to end_pc: inside its block where the
\* block passes that address, at its end if it goes where native's went, and
\* beyond it at any time.
Arrives ==
    IF shadow.pos < Len(guestCode.ops) THEN {shadow.pos \in guestCode.through}
    ELSE IF shadow.pos = Len(guestCode.ops) THEN {guestCode.exit = nativeCode.exit}
    ELSE BOOLEAN

Stepped(end) == [shadow EXCEPT !.pos = @ + 1, !.steps = @ + 1, !.atEnd = end]

\* LsHwReadTrampoline: native's reads again, in order, whatever their width; none
\* left or one of another address is an overflow.
ReplayRead(end) ==
    shadow' = IF shadow.readIndex < Len(reads)
              THEN [Stepped(end) EXCEPT !.acc = reads[shadow.readIndex + 1].data, !.readIndex = @ + 1,
                                        !.readOverflow = @ \/ reads[shadow.readIndex + 1].offset # 0]
              ELSE [Stepped(end) EXCEPT !.acc = 0, !.readOverflow = TRUE]

\* What LsHwWriteTrampoline captures: the MMU writes eight bytes as two words and
\* a quantised pair at once.
Captured(o) == IF o.op = "stfd" THEN Words(shadow.acc) ELSE Whole(shadow.acc)

ShadowStore(l, v) ==
    /\ mem' = [mem EXCEPT ![l] = v]
    /\ shadowPre' = Journal(shadowPre, l)

\* One SingleStepInner: stores commit, hardware writes are captured only.
ShadowStep ==
    /\ ShadowRunning
    /\ \E o \in ShadowOps, end \in Arrives :
        \/ /\ o.op = "nop" /\ shadow' = Stepped(end)
           /\ UNCHANGED <<mem, shadowPre, device, interpMmio, escaped>>
        \/ /\ o.op = "store" /\ ShadowStore(o.loc, shadow.acc) /\ shadow' = Stepped(end)
           /\ UNCHANGED <<device, interpMmio, escaped>>
        \/ /\ o.op = "bump" /\ ShadowStore(o.loc, Plus1(mem[o.loc]))
           /\ shadow' = [Stepped(end) EXCEPT !.acc = Plus1(mem[o.loc])]
           /\ UNCHANGED <<device, interpMmio, escaped>>
        \/ /\ o.op \in {"hwread", "lfd", "psq_l"} /\ ReplayRead(end)
           /\ UNCHANGED <<mem, shadowPre, device, interpMmio, escaped>>
        \/ /\ o.op \in {"hwwrite", "stfd", "psq_st"} /\ shadow' = Stepped(end)
           /\ interpMmio' = interpMmio \o Captured(o)
           /\ UNCHANGED <<mem, shadowPre, device, escaped>>
        \/ /\ o.op = "mtspr" /\ shadow' = [Stepped(end) EXCEPT !.aux = shadow.acc]
           /\ UNCHANGED <<mem, shadowPre, device, interpMmio, escaped>>
        \/ /\ o.op = "fallback" /\ device' = Plus1(device) /\ shadow' = Stepped(end) /\ escaped' = TRUE
           /\ UNCHANGED <<mem, shadowPre, interpMmio>>
        \/ /\ o.op = "trap" /\ shadow' = [Stepped(end) EXCEPT !.trapped = TRUE]
           /\ UNCHANGED <<mem, shadowPre, device, interpMmio, escaped>>
    /\ UNCHANGED <<phase, blockVars, pos, acc, aux, out, ppc, dispatches, journaling, checked, snapshot,
                   fallbackSeen, pre, post, reads, nativeMmio, outcome, left, shadowMem>>

-----------------------------------------------------------------------------
(* The comparison                                                            *)

Reached == AtEndPc /\ ~shadow.trapped

\* CompareRegisters: memory and hardware are not looked at.
CompareRegisters == ~Reached \/ acc # shadow.acc

\* diff: not there, or there with another value in a register that is compared
\* (aux is not) or at a location native wrote, other hardware writes, or hardware
\* reads native did not make.
Differs ==
    \/ ~Reached
    \/ acc # shadow.acc
    \/ \E l \in DOMAIN post : mem[l] # post[l]
    \/ nativeMmio # interpMmio
    \/ shadow.readOverflow

\* RestorePostFirst: native's results first, then the shadow's pre-images.
RestorePostFirst == Overlay(Overlay(mem, post), shadowPre)

\* The shadow's stores are undone, then native's results put back.
Restored == Overlay(Overlay(mem, shadowPre), post)

\* A difference is reported unless the block is whitelisted; without a report a
\* block may still be found to have charged too little, except in front of a loop.
LockstepFinish ==
    /\ phase = "shadow" /\ ~ShadowRunning
    /\ phase' = "idle"
    /\ \E loopHeader \in BOOLEAN :
         outcome' = IF Differs /\ block \notin Whitelist THEN "diverge"
                    ELSE IF Reached /\ shadow.steps > charge + Grace /\ ~loopHeader THEN "undercharge"
                    ELSE IF Differs THEN "whitelisted" ELSE "clean"
    /\ mem' = Restored
    /\ ppc' = "native"
    /\ shadowMem' = mem
    /\ UNCHANGED <<blockVars, pos, acc, aux, device, out, dispatches, journaling, checked, snapshot,
                   fallbackSeen, journalVars, shadow, left, escaped>>

-----------------------------------------------------------------------------

LockstepNext ==
    \/ /\ phase = "idle" /\ dispatches < MaxBlocks
       /\ \E n \in 1 .. MaxBlockLen - pos + 1 : \E b \in Block, c \in Code(n), k \in Charge :
             \E g \in GuestCodes(c) : Dispatch(b, c, g, k)
    \/ NativeStep \/ EndUnchecked \/ VerifySkip \/ VerifyBegin
    \/ ShadowStep \/ LockstepFinish

LockstepSpec == LockstepInit /\ [][LockstepNext]_lockstepVars

-----------------------------------------------------------------------------

\* Observing a block changes nothing: when LockstepCheck is done, memory,
\* hardware and ppc_state are what native left, whatever the shadow did, unless
\* it ran an instruction that no sink or journal covers.
NativeKept == phase = "idle" /\ ~escaped => Machine = left

\* The accesses native and the interpreter journal differently.
SplitAccess == {"lfd", "stfd", "psq_l", "psq_st"}

\* The blocks the verifier can judge: they fit its step cap, pass their end
\* address only at the end, and make no hardware access of eight bytes or of a
\* quantised pair.
Comparable(c) ==
    /\ Len(c.ops) <= StepCap /\ c.through = {}
    /\ \A k \in 1 .. Len(c.ops) : c.ops[k].op \notin SplitAccess

\* No false alarm among the comparable blocks: one that was translated correctly
\* is never reported (undone stores, replayed reads, captured writes).  Of the
\* others a correct one may be.
NoFalseAlarm == outcome = "diverge" /\ Comparable(guestCode) => nativeCode # guestCode

\* A block found clean agrees with the interpreter in the registers the check
\* compares, in all its writes to hardware, of any width, and at every location
\* it wrote; nothing is said of the registers in aux.
CleanAgrees ==
    outcome = "clean" =>
        /\ acc = shadow.acc /\ out = interpMmio
        /\ \A k \in 1 .. Len(nativeCode.ops) :
              LET l == nativeCode.ops[k].loc IN l \in Loc => shadowMem[l] = left.mem[l]

\* What the header says of the check, "compares register/memory results": a
\* block found clean left the memory the interpreter leaves.
CleanMeansSameMemory == outcome = "clean" => shadowMem = left.mem
=============================================================================
