---------------------------- MODULE InterruptPoll ----------------------------
(***************************************************************************)
(* How the Strikers host feeds interrupts to the guest                     *)
(* (StrikersRecomp/runtime/host/interrupt.c), with the GXRuntime devices   *)
(* behind it: the PI and VI registers (interrupts.c), the retrace clock    *)
(* (vi_clock.c over EventClock), the serial interface (si.c) and the audio *)
(* DMA (audio_dma.c).                                                      *)
(*                                                                         *)
(* After every guest block the main loop calls interrupt_poll; between two *)
(* polls the guest reads and writes device registers.  A register is       *)
(* reduced to the bits that raise, mask or acknowledge an interrupt.       *)
(***************************************************************************)
EXTENDS EventClock, FpuContexts

CONSTANTS
    Retrace,        \* DOL_VI_RETRACE_EVENT
    Interval,       \* INTERRUPT_POLL_INTERVAL (128)
    FrameUnits,     \* frame_work_units
    Channel,        \* the SI channels
    Port,           \* the PI sources EXI and DI that other devices drive
    ChunkUnits,     \* work_units_per_chunk of the two sample rates
    Blocks,         \* AID block counts the guest programs (bound)
    Masks,          \* PI masks and causes the guest writes (bound)
    SiMasks,        \* RDSTINTMSK and TCINTMSK as the guest writes them (bound)
    MaxBlocks       \* guest blocks (bound)

Source == {"VI", "SI", "DSP", "PE_FINISH"} \cup Port

ASSUME PollAssumption ==
    /\ Retrace \in Id
    /\ Interval \in Nat \ {0} /\ FrameUnits \in Nat \ {0}
    /\ ChunkUnits \subseteq Nat \ {0} /\ ChunkUnits # {}
    /\ Blocks \subseteq Nat /\ MaxBlocks \in Nat
    /\ Masks \subseteq SUBSET Source /\ SiMasks \subseteq BOOLEAN \X BOOLEAN
    /\ Port \cap {"VI", "SI", "DSP", "PE_FINISH"} = {}

VARIABLES
    loc,        \* "guest", or inside interrupt_poll's retrace loop
    accum,      \* interrupt_poll_accum
    ee,         \* MSR[EE]
    cause,      \* pi_cause (the reset switch, which is no interrupt, left out)
    mask,       \* pi_mask
    vi,         \* DI0: its status and mask bits
    si,         \* RDST bits per channel, TCINT, and their masks
    aid,        \* DolAudioDma
    port,       \* the interrupt lines of the EXI and DI devices
    blocks,     \* history: guest blocks polled
    retraces    \* history: retraces asserted, counted up to MaxBlocks

lineVars == <<vi, si, aid, port>>
piVars == <<cause, mask>>
pollVars == <<loc, accum, blocks, retraces>>
vars == <<clockVars, contextVars, pollVars, ee, piVars, lineVars>>

PollTypeOK ==
    /\ ClockTypeOK /\ ContextTypeOK
    /\ loc \in {"guest", "retrace"}
    /\ accum \in 0 .. Interval - 1
    /\ ee \in BOOLEAN
    /\ cause \subseteq Source /\ mask \subseteq Source
    /\ vi \in [status : BOOLEAN, mask : BOOLEAN]
    /\ si \in [rdst : SUBSET Channel, rdstMask : BOOLEAN, tc : BOOLEAN, tcMask : BOOLEAN]
    /\ aid \in [enabled : BOOLEAN, programmed : Blocks \cup {0}, left : Nat, work : Nat,
                units : ChunkUnits, pending : BOOLEAN, mask : BOOLEAN]
    /\ port \subseteq Port
    /\ blocks \in Nat /\ retraces \in Nat

-----------------------------------------------------------------------------
(* The lines the devices hold, and the PI cause they are copied into.      *)

ViLine(v) == v.status /\ v.mask
SiLine(s) == (s.rdst # {} /\ s.rdstMask) \/ (s.tc /\ s.tcMask)
DspLine(a) == a.pending /\ a.mask

dol_interrupts_set_source(pi, s, pending) == IF pending THEN pi \cup {s} ELSE pi \ {s}

sync_vi(pi, v) == dol_interrupts_set_source(pi, "VI", ViLine(v))
sync_si_interrupt(pi, s) == dol_interrupts_set_source(pi, "SI", SiLine(s))
sync_audio_interrupt(pi, a) == dol_interrupts_set_source(pi, "DSP", DspLine(a))

\* interrupt_init: dol_vi_clock_configure has scheduled the first retrace.
Init ==
    /\ now = 0
    /\ events = [s \in Slots |-> IF s = 1 THEN [active |-> TRUE, id |-> Retrace,
                                                deadline |-> FrameUnits, period |-> FrameUnits]
                                 ELSE NoEvent]
    /\ hasNext = TRUE
    /\ nextDeadline = FrameUnits
    /\ answer = Accepted
    /\ ContextInit
    /\ loc = "guest" /\ accum = 0 /\ blocks = 0 /\ retraces = 0
    /\ ee = FALSE
    /\ cause = {} /\ mask = {} /\ port = {}
    /\ vi = [status |-> FALSE, mask |-> FALSE]
    /\ si = [rdst |-> {}, rdstMask |-> FALSE, tc |-> FALSE, tcMask |-> FALSE]
    /\ \E u \in ChunkUnits : aid = [enabled |-> FALSE, programmed |-> 0, left |-> 0, work |-> 0,
                                    units |-> u, pending |-> FALSE, mask |-> FALSE]

-----------------------------------------------------------------------------
(* The poll, after every guest block.                                      *)

\* dol_audio_dma_poll: one work unit; a finished block moves the DMA on, the last
\* one reloads it and raises AID.
audio_poll(a) ==
    LET left == IF a.left # 0 THEN a.left - 1 ELSE 0
    IN  IF ~a.enabled THEN a
        ELSE IF a.work + 1 < a.units THEN [a EXCEPT !.work = @ + 1]
        ELSE IF left # 0 THEN [a EXCEPT !.work = 0, !.left = left]
        ELSE [a EXCEPT !.work = 0, !.left = a.programmed, !.pending = TRUE]

\* PollNoSync: the batch starts without asking the audio DMA.
PollNoSync ==
    /\ loc = "guest"
    /\ blocks < MaxBlocks
    /\ blocks' = blocks + 1
    /\ aid' = audio_poll(aid)
    /\ IF accum + 1 < Interval
       THEN accum' = accum + 1 /\ UNCHANGED <<loc, clockVars>>
       ELSE accum' = 0 /\ loc' = "retrace" /\ Advance(accum + 1)
    /\ UNCHANGED <<contextVars, retraces, ee, piVars, vi, si, port>>

\* PollKeepsAccum: the accumulator is not reset with the batch.
PollKeepsAccum ==
    /\ loc = "guest"
    /\ blocks < MaxBlocks
    /\ blocks' = blocks + 1
    /\ aid' = audio_poll(aid)
    /\ accum' = accum + 1
    /\ IF accum + 1 < Interval
       THEN UNCHANGED <<loc, clockVars, cause>>
       ELSE cause' = sync_audio_interrupt(cause, aid') /\ Advance(accum + 1) /\ loc' = "retrace"
    /\ UNCHANGED <<contextVars, retraces, ee, mask, vi, si, port>>

\* The audio DMA is polled for every block, the rest once in Interval blocks.
Poll ==
    /\ loc = "guest"
    /\ blocks < MaxBlocks
    /\ blocks' = blocks + 1
    /\ aid' = audio_poll(aid)
    /\ IF accum + 1 < Interval
       THEN /\ accum' = accum + 1
            /\ UNCHANGED <<loc, clockVars, cause>>
       ELSE /\ accum' = 0
            /\ cause' = sync_audio_interrupt(cause, aid')
            /\ Advance(accum + 1)
            /\ loc' = "retrace"
    /\ UNCHANGED <<contextVars, retraces, ee, mask, vi, si, port>>

\* One turn of the retrace loop: VI status is raised and every SI channel polled.
PopRetrace ==
    /\ loc = "retrace"
    /\ PopDue
    /\ answer'.ok
    /\ retraces' = IF retraces < MaxBlocks THEN retraces + 1 ELSE retraces
    /\ vi' = [vi EXCEPT !.status = TRUE]
    /\ si' = [si EXCEPT !.rdst = Channel]
    /\ cause' = sync_si_interrupt(sync_vi(cause, vi'), si')
    /\ UNCHANGED <<contextVars, loc, accum, blocks, ee, mask, aid, port>>

\* The guest can take an external interrupt, and one is pending and unmasked.
MayDeliver == ee /\ cause \cap mask # {} /\ cur # NoContext

\* deliver_external: save the current context, vector to the guest's dispatcher.
Deliver ==
    /\ loc = "retrace"
    /\ PopDue
    /\ ~answer'.ok
    /\ MayDeliver
    /\ SaveContext
    /\ handling' = TRUE
    /\ ee' = FALSE
    /\ loc' = "guest"
    /\ UNCHANGED <<cur, accum, blocks, retraces, piVars, lineVars>>

PollReturn ==
    /\ loc = "retrace"
    /\ PopDue
    /\ ~answer'.ok
    /\ ~MayDeliver
    /\ loc' = "guest"
    /\ UNCHANGED <<contextVars, accum, blocks, retraces, ee, piVars, lineVars>>

-----------------------------------------------------------------------------
(* The guest.  Accesses to PI, VI, PE and SI go through interrupt_mmio_*,  *)
(* which copies the audio and SI lines; those to the DSP do not.           *)

Guest == loc = "guest" /\ UNCHANGED <<clockVars, pollVars>>

SyncedWrite(pi) == cause' = sync_si_interrupt(sync_audio_interrupt(pi, aid), si')

\* Reads of a PI, VI or PE register.
ReadRegister ==
    /\ Guest
    /\ cause' = sync_si_interrupt(sync_vi(sync_audio_interrupt(cause, aid), vi), si)
    /\ UNCHANGED <<contextVars, ee, mask, lineVars>>

\* Reading a channel's input clears its RDST bit.
ReadChannel(ch) ==
    /\ Guest
    /\ si' = [si EXCEPT !.rdst = @ \ {ch}]
    /\ SyncedWrite(cause)
    /\ UNCHANGED <<contextVars, ee, mask, vi, aid, port>>

WriteMask(m) ==
    /\ Guest
    /\ mask' = m
    /\ UNCHANGED <<contextVars, ee, lineVars>>
    /\ SyncedWrite(cause)

\* PI cause is write-one-to-clear; PE_FINISH_ACK clears the PE source.
WriteCause(w) ==
    /\ Guest
    /\ UNCHANGED <<contextVars, ee, mask, lineVars>>
    /\ SyncedWrite(cause \ w)

\* DI0: the guest drops or keeps the status bit and sets the mask bit.
WriteVi(keep, m) ==
    /\ Guest
    /\ vi' = [status |-> vi.status /\ keep, mask |-> m]
    /\ UNCHANGED <<contextVars, ee, mask, si, aid, port>>
    /\ SyncedWrite(sync_vi(cause, vi'))

\* WriteSiUnsynced: COMCSR is stored and the PI cause is left alone.
WriteSiUnsynced(m, ack, start) ==
    /\ Guest
    /\ si' = [si EXCEPT !.rdstMask = m[1], !.tcMask = m[2], !.tc = start \/ (@ /\ ~ack)]
    /\ UNCHANGED <<contextVars, ee, piVars, vi, aid, port>>

\* COMCSR: masks, TCINT acknowledge, and a transfer that completes at once.  An
\* acknowledged RDSTINT comes straight back while an RDST bit is set.
WriteSi(m, ack, start) ==
    /\ Guest
    /\ si' = [si EXCEPT !.rdstMask = m[1], !.tcMask = m[2], !.tc = start \/ (@ /\ ~ack)]
    /\ SyncedWrite(cause)
    /\ UNCHANGED <<contextVars, ee, mask, vi, aid, port>>

\* DSP control: AID acknowledge and AID mask.
WriteDspControl(ack, m) ==
    /\ Guest
    /\ aid' = [aid EXCEPT !.pending = @ /\ ~ack, !.mask = m]
    /\ UNCHANGED <<contextVars, ee, piVars, vi, si, port>>

\* DMA control: starting an idle DMA latches it and raises AID at once.
WriteDmaControl(on, n) ==
    /\ Guest
    /\ aid' = IF ~on THEN [aid EXCEPT !.enabled = FALSE, !.programmed = n, !.left = 0, !.work = 0]
              ELSE IF aid.enabled THEN [aid EXCEPT !.programmed = n]
              ELSE [aid EXCEPT !.enabled = TRUE, !.programmed = n, !.left = n, !.work = 0,
                               !.pending = TRUE]
    /\ UNCHANGED <<contextVars, ee, piVars, vi, si, port>>

\* AI control selects the sample rate, and with it the units per chunk.
WriteAiControl(u) ==
    /\ Guest
    /\ aid' = [aid EXCEPT !.units = u]
    /\ UNCHANGED <<contextVars, ee, piVars, vi, si, port>>

\* An access to EXI or DI ends in interrupt_set_exi/di_pending; GX reports a
\* finished frame with interrupt_commit_pe_finish.
SetPort(p, pending) ==
    /\ Guest
    /\ port' = IF pending THEN port \cup {p} ELSE port \ {p}
    /\ cause' = dol_interrupts_set_source(cause, p, pending)
    /\ UNCHANGED <<contextVars, ee, mask, vi, si, aid>>

CommitPeFinish ==
    /\ Guest
    /\ cause' = cause \cup {"PE_FINISH"}
    /\ UNCHANGED <<contextVars, ee, mask, lineVars>>

\* OSDisableInterrupts and OSRestoreInterrupts of a thread.
SetEE(on) ==
    /\ Guest
    /\ cur # NoContext /\ ~handling
    /\ ee' = on
    /\ UNCHANGED <<contextVars, piVars, lineVars>>

\* OSLoadContext: the first thread, or the one the dispatcher resumes.
OSLoadContext(c) ==
    /\ Guest
    /\ LoadContext(c)
    /\ ee' = TRUE
    /\ UNCHANGED <<piVars, lineVars>>

UseFpu ==
    /\ Guest
    /\ Compute
    /\ UNCHANGED <<ee, piVars, lineVars>>

-----------------------------------------------------------------------------

PollStep == PopRetrace \/ Deliver \/ PollReturn

GuestStep ==
    \/ ReadRegister
    \/ \E ch \in Channel : ReadChannel(ch)
    \/ \E m \in Masks : WriteMask(m)
    \/ \E w \in Masks : WriteCause(w)
    \/ \E keep, m \in BOOLEAN : WriteVi(keep, m)
    \/ \E m \in SiMasks, ack, start \in BOOLEAN : WriteSi(m, ack, start)
    \/ \E ack, m \in BOOLEAN : WriteDspControl(ack, m)
    \/ \E on \in BOOLEAN, n \in Blocks : WriteDmaControl(on, n)
    \/ \E u \in ChunkUnits : WriteAiControl(u)
    \/ \E p \in Port, pending \in BOOLEAN : SetPort(p, pending)
    \/ CommitPeFinish
    \/ \E on \in BOOLEAN : SetEE(on)
    \/ \E c \in Context : OSLoadContext(c)
    \/ UseFpu

Next == Poll \/ PollStep \/ GuestStep

\* interrupt_poll is a plain function call of the main loop.
Spec == Init /\ [][Next]_vars /\ WF_vars(PollStep)

-----------------------------------------------------------------------------

\* Batching neither loses nor repeats nor delays a retrace beyond its batch: when
\* interrupt_poll returns, exactly one retrace per full frame of polled work has
\* been asserted, and no polled block is forgotten.
CadenceExact ==
    loc = "guest" =>
        /\ retraces = now \div FrameUnits
        /\ now + accum = blocks

\* The PI cause follows the lines.  The serial interface is level-triggered
\* whatever the guest writes to PI; a VI, EXI or DI cause is never older than its
\* line.
CauseFollowsLines ==
    /\ "SI" \in cause <=> SiLine(si)
    /\ "VI" \in cause => ViLine(vi)
    /\ cause \cap Port \subseteq port

Line(s) ==
    CASE s = "VI" -> ViLine(vi)
      [] s = "SI" -> SiLine(si)
      [] s = "DSP" -> DspLine(aid)
      [] s = "PE_FINISH" -> TRUE
      [] OTHER -> s \in port

\* No spurious interrupt: whenever the guest is interrupted, some device really
\* holds an unmasked line, although the guest's acknowledge of an audio
\* interrupt does not reach the PI cause.
DeliveryJustified ==
    [][~handling /\ handling' => \E s \in cause \cap mask : Line(s)]_vars

\* The retrace loop of interrupt_poll ends, however many frames the batch spans.
PollReturns == (loc = "retrace") ~> (loc = "guest")
=============================================================================
