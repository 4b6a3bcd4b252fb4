------------------------- MODULE InterruptPoll_proofs -------------------------
(***************************************************************************)
(* Interrupt polling, for every interval, frame length, set of channels    *)
(* and bound.  The PI cause follows the device lines; the retraces are as  *)
(* many as whole frames were polled; and the event clock and the floating- *)
(* point contexts keep, inside the polling host, what they promise alone.  *)
(***************************************************************************)
EXTENDS InterruptPoll, EventClock_proofs, FpuContexts_proofs

\* The clock holds the retrace and nothing else, one frame after the last one.
OnlyRetrace ==
    /\ Active = {1}
    /\ events[1].id = Retrace /\ events[1].period = FrameUnits
    /\ events[1].deadline = FrameUnits * retraces + FrameUnits

\* No polled block is lost, no retrace is early, and outside the poll none is due.
InCadence ==
    /\ FrameUnits * retraces <= now
    /\ loc = "guest" => now < FrameUnits * retraces + FrameUnits
    /\ now + accum = blocks /\ blocks <= MaxBlocks

\* Inside the poll the audio line has just been copied.
AudioLatched == loc = "retrace" => ("DSP" \in cause <=> DspLine(aid))

\* The dispatcher runs with interrupts off.
HandlerMasked == handling => ~ee

PollInv ==
    /\ PollTypeOK /\ ClockInv /\ OwnInv
    /\ OnlyRetrace /\ InCadence
    /\ CauseFollowsLines /\ AudioLatched /\ HandlerMasked

-----------------------------------------------------------------------------
(* Steps of the parts                                                        *)

\* A guest step leaves the clock and the poll alone.
LEMMA GuestFrame == GuestStep => Guest
  BY DEF GuestStep, ReadRegister, ReadChannel, WriteMask, WriteCause, WriteVi, WriteSi, WriteDspControl,
         WriteDmaControl, WriteAiControl, SetPort, CommitPeFinish, SetEE, OSLoadContext, UseFpu

\* A step is a step of the floating-point contexts: a delivery preempts a thread
\* that is not yet handling an interrupt, OSLoadContext ends the handling.
LEMMA ContextSteps ==
  ASSUME HandlerMasked, [Next]_vars
  PROVE  [ContextNext]_contextVars
  <1>1. CASE UNCHANGED vars
    BY <1>1 DEF vars
  <1>2. CASE Poll
    BY <1>2 DEF Poll
  <1>3. CASE PopRetrace
    BY <1>3 DEF PopRetrace
  <1>4. CASE PollReturn
    BY <1>4 DEF PollReturn
  <1>5. CASE Deliver
    <2>1. cur # NoContext /\ ~handling /\ SaveContext /\ handling' = TRUE /\ UNCHANGED cur
      BY <1>5 DEF Deliver, MayDeliver, HandlerMasked
    <2> QED BY <2>1 DEF Preempt, ContextNext
  <1>6. CASE GuestStep
    <2>1. UNCHANGED contextVars \/ Compute \/ \E c \in Context : LoadContext(c)
      BY <1>6 DEF GuestStep, ReadRegister, ReadChannel, WriteMask, WriteCause, WriteVi, WriteSi,
             WriteDspControl, WriteDmaControl, WriteAiControl, SetPort, CommitPeFinish, SetEE,
             OSLoadContext, UseFpu
    <2> QED BY <2>1 DEF ContextNext
  <1> QED BY <1>1, <1>2, <1>3, <1>4, <1>5, <1>6 DEF Next, PollStep

\* interrupt_deliver runs the dispatcher with interrupts off until a context is loaded.
LEMMA MaskedSteps ==
  ASSUME HandlerMasked, [Next]_vars
  PROVE  HandlerMasked'
  <1> USE DEF HandlerMasked
  <1>1. CASE UNCHANGED vars
    BY <1>1 DEF vars, contextVars
  <1>2. CASE Poll
    BY <1>2 DEF Poll, contextVars
  <1>3. CASE PopRetrace
    BY <1>3 DEF PopRetrace, contextVars
  <1>4. CASE PollReturn
    BY <1>4 DEF PollReturn, contextVars
  <1>5. CASE Deliver
    BY <1>5 DEF Deliver
  <1>6. CASE GuestStep
    BY <1>6 DEF GuestStep, ReadRegister, ReadChannel, WriteMask, WriteCause, WriteVi, WriteSi,
           WriteDspControl, WriteDmaControl, WriteAiControl, SetPort, CommitPeFinish, SetEE,
           OSLoadContext, UseFpu, LoadContext, Compute, contextVars
  <1> QED BY <1>1, <1>2, <1>3, <1>4, <1>5, <1>6 DEF Next, PollStep

\* A step is a call of the event clock or none.
LEMMA ClockSteps ==
  ASSUME PollInv, [Next]_vars
  PROVE  ClockInv'
  <1>1. CASE UNCHANGED clockVars
    BY <1>1 DEF clockVars, PollInv, ClockInv, ClockTypeOK, CacheExact, OneSlotPerId, Active, ActiveIn
  <1>2. CASE Poll /\ Advance(accum + 1)
    <2>1. now' \in Nat /\ answer' = Accepted /\ UNCHANGED <<events, hasNext, nextDeadline>>
      BY <1>2, PollAssumption DEF Advance, PollInv, PollTypeOK, ClockTypeOK
    <2> QED BY <2>1, ArrayKept DEF Accepted, PollInv
  <1>3. CASE PopDue
    BY <1>3, PopKeeps DEF PollInv
  <1>4. PollStep => PopDue
    BY DEF PollStep, PopRetrace, Deliver, PollReturn
  <1>5. Poll => UNCHANGED clockVars \/ Advance(accum + 1)
    BY DEF Poll
  <1>6. GuestStep \/ UNCHANGED vars => UNCHANGED clockVars
    BY GuestFrame DEF Guest, vars
  <1> QED BY <1>1, <1>2, <1>3, <1>4, <1>5, <1>6 DEF Next

-----------------------------------------------------------------------------
(* The cadence                                                               *)

\* With the retrace alone in the clock, pop_due moves it on by a frame or, when it
\* is not due, does nothing.
LEMMA PopMovesOn ==
  ASSUME ClockInv, OnlyRetrace, PopDue, retraces \in Nat
  PROVE  /\ UNCHANGED now
         /\ answer'.ok <=> events[1].deadline <= now
         /\ answer'.ok => events' = [events EXCEPT ![1] =
                               [events[1] EXCEPT !.deadline = @ + FrameUnits]]
         /\ ~answer'.ok => UNCHANGED events
  <1> DEFINE S == {s \in Active : events[s].deadline <= now}
             D == FrameUnits * retraces + FrameUnits
  <1>1. /\ now \in Nat /\ events \in [Slots -> Event] /\ Active \subseteq Slots /\ 1 \in Slots
        /\ nextDeadline \in Nat /\ D \in Nat /\ now' = now
    BY PollAssumption DEF ClockInv, ClockTypeOK, OnlyRetrace, Active, ActiveIn, PopDue
  <1>2. events[1].deadline = D /\ events[1].period = FrameUnits /\ FrameUnits # 0
    BY PollAssumption DEF OnlyRetrace
  <1>3. hasNext /\ nextDeadline = D
    BY <1>2 DEF ClockInv, CacheExact, OnlyRetrace
  <1>4. CASE D <= now
    <2>1. S = {1} /\ ~FastPath
      BY <1>1, <1>2, <1>3, <1>4 DEF OnlyRetrace, FastPath
    <2>2. EarliestOf(events, {1}) = 1
      <3>1. {1} \in SUBSET Slots /\ {1} # {}
        BY <1>1
      <3>2. EarliestOf(events, {1}) \in {1}
        BY <1>1, <3>1, EarliestFound, Zenon
      <3> QED BY <3>2
    <2>3. PopAt(1)
      BY <2>1, <2>2 DEF PopDue
    <2>4. answer' = Due(Retrace, D)
      BY <1>2, <2>3 DEF PopAt, OnlyRetrace
    <2>5. events' = [events EXCEPT ![1] = [events[1] EXCEPT !.deadline = @ + FrameUnits]]
      BY <1>2, <2>3 DEF PopAt
    <2> QED BY <1>1, <1>2, <1>4, <2>4, <2>5 DEF Due
  <1>5. CASE ~(D <= now)
    <2>1. FastPath
      BY <1>1, <1>3, <1>5 DEF FastPath
    <2> QED BY <1>1, <1>2, <1>5, <2>1 DEF PopDue, Refused
  <1> QED BY <1>4, <1>5

\* A retrace that is due lies within the blocks polled, so there are never more
\* retraces than blocks.
LEMMA FewerRetraces ==
  ASSUME NEW F \in Nat \ {0}, NEW r \in Nat, NEW n \in Nat, F * r + F <= n
  PROVE  r < n
  <1>1. F * r >= r
    OBVIOUS
  <1> QED BY <1>1

\* So many whole frames lie in a number of work units.
LEMMA WholeFrames ==
  ASSUME NEW F \in Nat \ {0}, NEW r \in Nat, NEW n \in Nat, F * r <= n, n < F * r + F
  PROVE  n \div F = r
  OBVIOUS

\* A step that leaves the clock and the poll's own counters alone.
LEMMA CadenceFrame ==
  ASSUME OnlyRetrace, InCadence, UNCHANGED <<clockVars, pollVars>>
  PROVE  OnlyRetrace' /\ InCadence'
  BY DEF OnlyRetrace, InCadence, clockVars, pollVars, Active, ActiveIn

\* The poll advances the clock by the whole batch, and leaves its loop when the next
\* retrace lies ahead.
LEMMA CadenceSteps ==
  ASSUME PollInv, [Next]_vars
  PROVE  OnlyRetrace' /\ InCadence'
  <1>1. /\ ClockInv /\ OnlyRetrace /\ InCadence
        /\ now \in Nat /\ accum \in Nat /\ blocks \in Nat /\ retraces \in Nat /\ MaxBlocks \in Nat
        /\ FrameUnits \in Nat /\ FrameUnits # 0 /\ events \in [Slots -> Event] /\ 1 \in Slots
    BY PollAssumption, ClockAssumption DEF PollInv, PollTypeOK, ClockTypeOK, Slots
  <1>2. CASE UNCHANGED vars
    BY <1>1, <1>2, CadenceFrame DEF vars
  <1>3. CASE GuestStep
    BY <1>1, <1>3, CadenceFrame, GuestFrame DEF Guest
  <1>4. CASE Poll
    <2>1. /\ loc = "guest" /\ blocks < MaxBlocks /\ blocks' = blocks + 1
          /\ UNCHANGED <<events, retraces>>
          /\ \/ accum' = accum + 1 /\ now' = now /\ loc' = loc
             \/ accum' = 0 /\ now' = now + (accum + 1) /\ loc' = "retrace"
      BY <1>4 DEF Poll, Advance, clockVars
    <2>2. OnlyRetrace'
      BY <1>1, <2>1 DEF OnlyRetrace, Active, ActiveIn
    <2>3. InCadence'
      BY <1>1, <2>1 DEF InCadence
    <2> QED BY <2>2, <2>3
  <1>5. CASE PopRetrace
    <2>1. /\ PopDue /\ answer'.ok /\ loc = "retrace" /\ UNCHANGED <<loc, accum, blocks>>
          /\ retraces' = IF retraces < MaxBlocks THEN retraces + 1 ELSE retraces
      BY <1>5 DEF PopRetrace
    <2>2. /\ events[1].deadline <= now /\ now' = now
          /\ events' = [events EXCEPT ![1] = [events[1] EXCEPT !.deadline = @ + FrameUnits]]
      BY <1>1, <2>1, PopMovesOn
    <2>3. FrameUnits * retraces + FrameUnits <= now
      BY <2>2, <1>1 DEF OnlyRetrace
    <2>4. retraces < now /\ now <= MaxBlocks
      BY <1>1, <2>3, FewerRetraces DEF InCadence
    <2>5. retraces' = retraces + 1
      BY <1>1, <2>1, <2>4
    <2>6. FrameUnits * retraces' = FrameUnits * retraces + FrameUnits
      BY <1>1, <2>5
    <2>7. events'[1] = [events[1] EXCEPT !.deadline = @ + FrameUnits] /\ events[1] \in Event
      BY <1>1, <2>2
    <2>8. /\ events'[1].active = events[1].active /\ events'[1].id = events[1].id
          /\ events'[1].period = events[1].period
          /\ events'[1].deadline = events[1].deadline + FrameUnits
      BY <2>7 DEF Event
    <2>9. OnlyRetrace'
      <3>1. Active' = Active
        BY <1>1, <2>2, <2>8 DEF Active, ActiveIn
      <3> QED BY <1>1, <2>6, <2>8, <3>1 DEF OnlyRetrace
    <2>10. InCadence'
      BY <1>1, <2>1, <2>2, <2>3, <2>6 DEF InCadence
    <2> QED BY <2>9, <2>10
  <1>6. CASE Deliver \/ PollReturn
    <2>1. PopDue /\ ~answer'.ok /\ loc' = "guest" /\ UNCHANGED <<accum, blocks, retraces>>
      BY <1>6 DEF Deliver, PollReturn
    <2>2. ~(events[1].deadline <= now) /\ now' = now /\ events' = events
      BY <1>1, <2>1, PopMovesOn
    <2>3. now < FrameUnits * retraces + FrameUnits
      BY <1>1, <2>2 DEF OnlyRetrace
    <2>4. OnlyRetrace'
      BY <1>1, <2>1, <2>2 DEF OnlyRetrace, Active, ActiveIn
    <2> QED BY <1>1, <2>1, <2>2, <2>3, <2>4 DEF InCadence
  <1> QED BY <1>2, <1>3, <1>4, <1>5, <1>6 DEF Next, PollStep

-----------------------------------------------------------------------------
(* The PI cause                                                              *)

\* Each copy sets its own source and leaves the others alone.
LEMMA ViSynced ==
  ASSUME NEW pi, NEW v
  PROVE  /\ "VI" \in sync_vi(pi, v) <=> ViLine(v)
         /\ "SI" \in sync_vi(pi, v) <=> "SI" \in pi
         /\ "DSP" \in sync_vi(pi, v) <=> "DSP" \in pi
         /\ sync_vi(pi, v) \cap Port = pi \cap Port
  BY PollAssumption DEF sync_vi, dol_interrupts_set_source

\* What copying the SI line does to the PI cause.
LEMMA SiSynced ==
  ASSUME NEW pi, NEW x
  PROVE  /\ "SI" \in sync_si_interrupt(pi, x) <=> SiLine(x)
         /\ "VI" \in sync_si_interrupt(pi, x) <=> "VI" \in pi
         /\ "DSP" \in sync_si_interrupt(pi, x) <=> "DSP" \in pi
         /\ sync_si_interrupt(pi, x) \cap Port = pi \cap Port
  BY PollAssumption DEF sync_si_interrupt, dol_interrupts_set_source

\* What copying the audio line does to it.
LEMMA AudioSynced ==
  ASSUME NEW pi, NEW a
  PROVE  /\ "DSP" \in sync_audio_interrupt(pi, a) <=> DspLine(a)
         /\ "SI" \in sync_audio_interrupt(pi, a) <=> "SI" \in pi
         /\ "VI" \in sync_audio_interrupt(pi, a) <=> "VI" \in pi
         /\ sync_audio_interrupt(pi, a) \cap Port = pi \cap Port
  BY PollAssumption DEF sync_audio_interrupt, dol_interrupts_set_source

\* Every step keeps the serial cause equal to its line and the VI, EXI and DI causes
\* below theirs.
LEMMA CauseSteps ==
  ASSUME PollInv, [Next]_vars
  PROVE  CauseFollowsLines'
  <1> USE PollAssumption, ViSynced, SiSynced, AudioSynced DEF CauseFollowsLines, PollInv
  <1>1. CASE UNCHANGED vars
    BY <1>1 DEF vars, piVars, lineVars
  <1>2. CASE Poll
    <2>1. /\ UNCHANGED <<vi, si, port>>
          /\ cause' = cause \/ cause' = sync_audio_interrupt(cause, aid')
      BY <1>2 DEF Poll
    <2> QED BY <2>1
  <1>3. CASE PopRetrace
    <2>1. cause' = sync_si_interrupt(sync_vi(cause, vi'), si') /\ port' = port
      BY <1>3 DEF PopRetrace
    <2> QED BY <2>1
  <1>4. CASE Deliver \/ PollReturn
    BY <1>4 DEF Deliver, PollReturn, piVars, lineVars
  <1>5. CASE ReadRegister
    <2>1. /\ cause' = sync_si_interrupt(sync_vi(sync_audio_interrupt(cause, aid), vi), si)
          /\ UNCHANGED <<vi, si, aid, port>>
      BY <1>5 DEF ReadRegister, lineVars
    <2> QED BY <2>1
  <1>6. ASSUME NEW ch \in Channel, ReadChannel(ch) PROVE CauseFollowsLines'
    <2>1. /\ cause' = sync_si_interrupt(sync_audio_interrupt(cause, aid), si') /\ UNCHANGED <<vi, port>>
      BY <1>6 DEF ReadChannel, SyncedWrite
    <2> QED BY <2>1
  <1>7. ASSUME NEW m \in Masks, WriteMask(m) PROVE CauseFollowsLines'
    <2>1. /\ cause' = sync_si_interrupt(sync_audio_interrupt(cause, aid), si') /\ UNCHANGED <<vi, port>>
      BY <1>7 DEF WriteMask, SyncedWrite, lineVars
    <2> QED BY <2>1
  <1>8. ASSUME NEW w \in Masks, WriteCause(w) PROVE CauseFollowsLines'
    <2>1. /\ cause' = sync_si_interrupt(sync_audio_interrupt(cause \ w, aid), si') /\ UNCHANGED <<vi, port>>
      BY <1>8 DEF WriteCause, SyncedWrite, lineVars
    <2> QED BY <2>1
  <1>9. ASSUME NEW keep \in BOOLEAN, NEW m \in BOOLEAN, WriteVi(keep, m) PROVE CauseFollowsLines'
    <2>1. /\ cause' = sync_si_interrupt(sync_audio_interrupt(sync_vi(cause, vi'), aid), si')
          /\ port' = port
      BY <1>9 DEF WriteVi, SyncedWrite
    <2> QED BY <2>1
  <1>10. ASSUME NEW m \in SiMasks, NEW ack \in BOOLEAN, NEW start \in BOOLEAN, WriteSi(m, ack, start)
         PROVE  CauseFollowsLines'
    <2>1. /\ cause' = sync_si_interrupt(sync_audio_interrupt(cause, aid), si') /\ UNCHANGED <<vi, port>>
      BY <1>10 DEF WriteSi, SyncedWrite
    <2> QED BY <2>1
  <1>11. ASSUME NEW p \in Port, NEW pending \in BOOLEAN, SetPort(p, pending) PROVE CauseFollowsLines'
    <2>1. p # "SI" /\ p # "VI"
      OBVIOUS
    <2> QED BY <1>11, <2>1 DEF SetPort, dol_interrupts_set_source
  <1>12. CASE CommitPeFinish
    BY <1>12 DEF CommitPeFinish, lineVars
  <1>13. ASSUME UNCHANGED <<cause, vi, si, port>> PROVE CauseFollowsLines'
    BY <1>13
  <1>14. GuestStep => \/ ReadRegister \/ CommitPeFinish \/ UNCHANGED <<cause, vi, si, port>>
                      \/ \E ch \in Channel : ReadChannel(ch)
                      \/ \E m \in Masks : WriteMask(m) \/ WriteCause(m)
                      \/ \E keep, m \in BOOLEAN : WriteVi(keep, m)
                      \/ \E m \in SiMasks, ack, start \in BOOLEAN : WriteSi(m, ack, start)
                      \/ \E p \in Port, pending \in BOOLEAN : SetPort(p, pending)
    BY DEF GuestStep, WriteDspControl, WriteDmaControl, WriteAiControl, SetEE, OSLoadContext, UseFpu,
           piVars, lineVars
  <1> HIDE DEF CauseFollowsLines
  <1> QED BY <1>1, <1>2, <1>3, <1>4, <1>5, <1>6, <1>7, <1>8, <1>9, <1>10, <1>11, <1>12, <1>13, <1>14
      DEF Next, PollStep

\* Entering the retrace loop copies the audio line, and nothing in the loop moves it.
LEMMA LatchSteps ==
  ASSUME PollInv, [Next]_vars
  PROVE  AudioLatched'
  <1> USE DEF AudioLatched, PollInv
  <1>1. CASE UNCHANGED vars
    BY <1>1 DEF vars, piVars, lineVars, pollVars
  <1>2. CASE Poll
    <2>1. loc' = "guest" \/ cause' = sync_audio_interrupt(cause, aid')
      BY <1>2 DEF Poll
    <2> QED BY <2>1, AudioSynced
  <1>3. CASE PopRetrace
    <2>1. loc = "retrace" /\ cause' = sync_si_interrupt(sync_vi(cause, vi'), si') /\ aid' = aid
      BY <1>3 DEF PopRetrace
    <2> QED BY <2>1, ViSynced, SiSynced
  <1>4. CASE Deliver \/ PollReturn
    BY <1>4 DEF Deliver, PollReturn
  <1>5. CASE GuestStep
    BY <1>5, GuestFrame DEF Guest, pollVars
  <1> QED BY <1>1, <1>2, <1>3, <1>4, <1>5 DEF Next, PollStep

-----------------------------------------------------------------------------
(* Types                                                                     *)

Aid == [enabled : BOOLEAN, programmed : Blocks \cup {0}, left : Nat, work : Nat,
        units : ChunkUnits, pending : BOOLEAN, mask : BOOLEAN]
Si == [rdst : SUBSET Channel, rdstMask : BOOLEAN, tc : BOOLEAN, tcMask : BOOLEAN]

\* dol_audio_dma_poll keeps the DMA's fields in range.
LEMMA AudioPollType ==
  ASSUME NEW a \in Aid
  PROVE  audio_poll(a) \in Aid
  <1> DEFINE left == IF a.left # 0 THEN a.left - 1 ELSE 0
  <1>1. left \in Nat /\ a.work + 1 \in Nat /\ a.programmed \in Nat
    <2>1. a.left \in Nat /\ a.work \in Nat /\ a.programmed \in Blocks \cup {0}
      BY DEF Aid
    <2>2. a.programmed \in Nat
      <3>1. Blocks \subseteq Nat
        BY PollAssumption
      <3>2. \A n \in Blocks \cup {0} : n \in Nat
        BY <3>1
      <3> QED BY <2>1, <3>2, Zenon
    <2>3. left \in Nat /\ a.work + 1 \in Nat
      BY <2>1
    <2> QED BY <2>2, <2>3
  <1>2. /\ [a EXCEPT !.work = a.work + 1] \in Aid
        /\ [a EXCEPT !.work = 0, !.left = left] \in Aid
        /\ [a EXCEPT !.work = 0, !.left = a.programmed, !.pending = TRUE] \in Aid
    <2> HIDE DEF left
    <2> QED BY <1>1 DEF Aid
  <1>3. \/ audio_poll(a) = a
        \/ audio_poll(a) = [a EXCEPT !.work = a.work + 1]
        \/ audio_poll(a) = [a EXCEPT !.work = 0, !.left = left]
        \/ audio_poll(a) = [a EXCEPT !.work = 0, !.left = a.programmed, !.pending = TRUE]
    BY DEF audio_poll
  <1> QED BY <1>2, <1>3

\* The copies add no source the PI does not have.
LEMMA SyncTypes ==
  ASSUME NEW pi \in SUBSET Source, NEW v, NEW x, NEW a
  PROVE  /\ sync_vi(pi, v) \in SUBSET Source /\ sync_si_interrupt(pi, x) \in SUBSET Source
         /\ sync_audio_interrupt(pi, a) \in SUBSET Source
  BY DEF sync_vi, sync_si_interrupt, sync_audio_interrupt, dol_interrupts_set_source, Source

\* The poll's own variables keep their types.
LEMMA OwnTypes ==
  ASSUME PollTypeOK, [Next]_vars
  PROVE  /\ loc' \in {"guest", "retrace"} /\ accum' \in 0 .. Interval - 1
         /\ blocks' \in Nat /\ retraces' \in Nat /\ ee' \in BOOLEAN
  <1> USE PollAssumption DEF PollTypeOK
  <1>1. CASE UNCHANGED vars
    BY <1>1 DEF vars, pollVars
  <1>2. CASE Poll
    BY <1>2 DEF Poll
  <1>3. CASE PopRetrace
    BY <1>3 DEF PopRetrace
  <1>4. CASE Deliver \/ PollReturn
    BY <1>4 DEF Deliver, PollReturn
  <1>5. CASE GuestStep
    <2>1. UNCHANGED pollVars
      BY <1>5, GuestFrame DEF Guest
    <2>2. ee' \in BOOLEAN
      BY <1>5 DEF GuestStep, ReadRegister, ReadChannel, WriteMask, WriteCause, WriteVi, WriteSi,
           WriteDspControl, WriteDmaControl, WriteAiControl, SetPort, CommitPeFinish, SetEE,
           OSLoadContext, UseFpu
    <2> QED BY <2>1, <2>2 DEF pollVars
  <1> QED BY <1>1, <1>2, <1>3, <1>4, <1>5 DEF Next, PollStep

\* So do the PI registers and the devices.
LEMMA DeviceTypes ==
  ASSUME PollTypeOK, [Next]_vars
  PROVE  /\ cause' \in SUBSET Source /\ mask' \in SUBSET Source /\ port' \in SUBSET Port
         /\ vi' \in [status : BOOLEAN, mask : BOOLEAN] /\ si' \in Si /\ aid' \in Aid
  <1>0. /\ cause \in SUBSET Source /\ mask \in SUBSET Source /\ port \in SUBSET Port
        /\ vi \in [status : BOOLEAN, mask : BOOLEAN] /\ si \in Si /\ aid \in Aid
    BY DEF PollTypeOK, Si, Aid
  <1> USE <1>0, SyncTypes
  <1>1. CASE UNCHANGED vars
    BY <1>1 DEF vars, piVars, lineVars
  <1>2. CASE Poll
    <2>1. /\ UNCHANGED <<mask, vi, si, port>> /\ aid' = audio_poll(aid)
          /\ cause' = cause \/ cause' = sync_audio_interrupt(cause, aid')
      BY <1>2 DEF Poll
    <2> QED BY <2>1, AudioPollType
  <1>3. CASE PopRetrace
    <2>1. /\ cause' = sync_si_interrupt(sync_vi(cause, vi'), si') /\ UNCHANGED <<mask, aid, port>>
          /\ vi' = [vi EXCEPT !.status = TRUE] /\ si' = [si EXCEPT !.rdst = Channel]
      BY <1>3 DEF PopRetrace
    <2>2. si' \in Si /\ vi' \in [status : BOOLEAN, mask : BOOLEAN]
      BY <2>1 DEF Si
    <2> QED BY <2>1, <2>2
  <1>4. CASE Deliver \/ PollReturn
    BY <1>4 DEF Deliver, PollReturn, piVars, lineVars
  <1>5. CASE ReadRegister
    BY <1>5 DEF ReadRegister, lineVars
  <1>6. ASSUME NEW ch \in Channel, ReadChannel(ch)
        PROVE  cause' \in SUBSET Source /\ si' \in Si /\ UNCHANGED <<mask, vi, aid, port>>
    <2>1. /\ cause' = sync_si_interrupt(sync_audio_interrupt(cause, aid), si')
          /\ si' = [si EXCEPT !.rdst = si.rdst \ {ch}] /\ UNCHANGED <<mask, vi, aid, port>>
      BY <1>6 DEF ReadChannel, SyncedWrite
    <2>2. si' \in Si
      BY <2>1 DEF Si
    <2> QED BY <2>1, <2>2
  <1>7. ASSUME NEW m \in Masks, WriteMask(m)
        PROVE  cause' \in SUBSET Source /\ mask' \in SUBSET Source /\ UNCHANGED <<vi, si, aid, port>>
    BY <1>7, PollAssumption DEF WriteMask, SyncedWrite, lineVars
  <1>8. ASSUME NEW w \in Masks, WriteCause(w)
        PROVE  cause' \in SUBSET Source /\ UNCHANGED <<mask, vi, si, aid, port>>
    <2>1. cause \ w \in SUBSET Source
      OBVIOUS
    <2> QED BY <1>8, <2>1 DEF WriteCause, SyncedWrite, lineVars
  <1>9. ASSUME NEW keep \in BOOLEAN, NEW m \in BOOLEAN, WriteVi(keep, m)
        PROVE  /\ cause' \in SUBSET Source /\ UNCHANGED <<mask, si, aid, port>>
               /\ vi' \in [status : BOOLEAN, mask : BOOLEAN]
    <2>1. /\ cause' = sync_si_interrupt(sync_audio_interrupt(sync_vi(cause, vi'), aid), si')
          /\ vi' = [status |-> vi.status /\ keep, mask |-> m] /\ UNCHANGED <<mask, si, aid, port>>
      BY <1>9 DEF WriteVi, SyncedWrite
    <2> QED BY <2>1
  <1>10. ASSUME NEW m \in SiMasks, NEW ack \in BOOLEAN, NEW start \in BOOLEAN, WriteSi(m, ack, start)
         PROVE  cause' \in SUBSET Source /\ si' \in Si /\ UNCHANGED <<mask, vi, aid, port>>
    <2>1. /\ cause' = sync_si_interrupt(sync_audio_interrupt(cause, aid), si')
          /\ si' = [si EXCEPT !.rdstMask = m[1], !.tcMask = m[2], !.tc = start \/ (si.tc /\ ~ack)]
          /\ UNCHANGED <<mask, vi, aid, port>>
      BY <1>10 DEF WriteSi, SyncedWrite
    <2>2. m[1] \in BOOLEAN /\ m[2] \in BOOLEAN /\ (start \/ (si.tc /\ ~ack)) \in BOOLEAN
      BY PollAssumption
    <2>3. si' \in Si
      BY <2>1, <2>2 DEF Si
    <2> QED BY <2>1, <2>3
  <1>11. ASSUME NEW ack \in BOOLEAN, NEW m \in BOOLEAN, WriteDspControl(ack, m)
         PROVE  aid' \in Aid /\ UNCHANGED <<cause, mask, vi, si, port>>
    <2>1. aid' = [aid EXCEPT !.pending = aid.pending /\ ~ack, !.mask = m]
      BY <1>11 DEF WriteDspControl
    <2>2. aid' \in Aid
      BY <2>1 DEF Aid
    <2> QED BY <1>11, <2>2 DEF WriteDspControl, piVars
  <1>12. ASSUME NEW on \in BOOLEAN, NEW n \in Blocks, WriteDmaControl(on, n)
         PROVE  aid' \in Aid /\ UNCHANGED <<cause, mask, vi, si, port>>
    <2>1. n \in Nat
      BY PollAssumption
    <2>2. /\ [aid EXCEPT !.enabled = FALSE, !.programmed = n, !.left = 0, !.work = 0] \in Aid
          /\ [aid EXCEPT !.programmed = n] \in Aid
          /\ [aid EXCEPT !.enabled = TRUE, !.programmed = n, !.left = n, !.work = 0, !.pending = TRUE] \in Aid
      BY <2>1 DEF Aid
    <2> QED BY <1>12, <2>2 DEF WriteDmaControl, piVars
  <1>13. ASSUME NEW u \in ChunkUnits, WriteAiControl(u)
         PROVE  aid' \in Aid /\ UNCHANGED <<cause, mask, vi, si, port>>
    <2>1. [aid EXCEPT !.units = u] \in Aid
      BY DEF Aid
    <2> QED BY <1>13, <2>1 DEF WriteAiControl, piVars
  <1>14. ASSUME NEW p \in Port, NEW pending \in BOOLEAN, SetPort(p, pending)
         PROVE  cause' \in SUBSET Source /\ port' \in SUBSET Port /\ UNCHANGED <<mask, vi, si, aid>>
    BY <1>14 DEF SetPort, dol_interrupts_set_source, Source
  <1>15. CASE CommitPeFinish
    BY <1>15 DEF CommitPeFinish, lineVars, Source
  <1>16. ASSUME UNCHANGED <<cause, mask, lineVars>>
         PROVE  UNCHANGED <<cause, mask, vi, si, aid, port>>
    BY <1>16 DEF lineVars
  <1>17. GuestStep => \/ ReadRegister \/ CommitPeFinish \/ UNCHANGED <<cause, mask, lineVars>>
                      \/ \E ch \in Channel : ReadChannel(ch)
                      \/ \E m \in Masks : WriteMask(m) \/ WriteCause(m)
                      \/ \E keep, m \in BOOLEAN : WriteVi(keep, m)
                      \/ \E m \in SiMasks, ack, start \in BOOLEAN : WriteSi(m, ack, start)
                      \/ \E ack, m \in BOOLEAN : WriteDspControl(ack, m)
                      \/ \E on \in BOOLEAN, n \in Blocks : WriteDmaControl(on, n)
                      \/ \E u \in ChunkUnits : WriteAiControl(u)
                      \/ \E p \in Port, pending \in BOOLEAN : SetPort(p, pending)
    BY DEF GuestStep, SetEE, OSLoadContext, UseFpu, piVars
  <1> QED BY <1>1, <1>2, <1>3, <1>4, <1>5, <1>6, <1>7, <1>8, <1>9, <1>10, <1>11, <1>12, <1>13, <1>14,
             <1>15, <1>16, <1>17 DEF Next, PollStep

-----------------------------------------------------------------------------

\* interrupt_init schedules the first retrace and leaves every line low.
LEMMA InitPoll == Init => PollInv
  <1> SUFFICES ASSUME Init PROVE PollInv
    OBVIOUS
  <1> USE PollAssumption, ClockAssumption DEF Init
  <1>1. 1 \in Slots /\ Retrace \in Id /\ FrameUnits \in Nat
    BY DEF Slots
  <1>2. /\ events \in [Slots -> Event]
        /\ \A s \in Slots : events[s].active <=> s = 1
        /\ events[1].id = Retrace /\ events[1].deadline = FrameUnits /\ events[1].period = FrameUnits
    BY <1>1 DEF Event, NoEvent
  <1>3. Active = {1}
    BY <1>1, <1>2 DEF Active, ActiveIn
  <1>4. ClockInv
    <2>1. hasNext /\ hasNext \in BOOLEAN /\ answer.ok \in BOOLEAN /\ now \in Nat /\ nextDeadline = FrameUnits
      BY DEF Accepted
    <2>2. ClockTypeOK
      BY <1>1, <1>2, <2>1 DEF ClockTypeOK
    <2>3. CacheExact /\ OneSlotPerId
      BY <1>1, <1>2, <1>3, <2>1 DEF CacheExact, OneSlotPerId
    <2> QED BY <2>2, <2>3 DEF ClockInv
  <1>5. OwnInv
    BY OwnInit
  <1>6. PollTypeOK
    <2>1. PICK u \in ChunkUnits : aid = [enabled |-> FALSE, programmed |-> 0, left |-> 0, work |-> 0,
                                         units |-> u, pending |-> FALSE, mask |-> FALSE]
      OBVIOUS
    <2>2. aid \in Aid /\ si \in Si
      BY <2>1 DEF Aid, Si
    <2>3. loc \in {"guest", "retrace"} /\ ee \in BOOLEAN
      OBVIOUS
    <2>5. accum \in 0 .. Interval - 1 /\ blocks \in Nat /\ retraces \in Nat
      <3>1. accum = 0 /\ blocks = 0 /\ retraces = 0 /\ Interval \in Nat /\ Interval # 0
        OBVIOUS
      <3> QED BY <3>1
    <2>4. /\ cause \subseteq Source /\ mask \subseteq Source /\ port \subseteq Port
          /\ vi \in [status : BOOLEAN, mask : BOOLEAN]
      OBVIOUS
    <2> QED BY <1>4, <1>5, <2>2, <2>3, <2>4, <2>5 DEF PollTypeOK, ClockInv, OwnInv, Aid, Si
  <1>7. OnlyRetrace /\ InCadence
    BY <1>1, <1>2, <1>3 DEF OnlyRetrace, InCadence
  <1>8. CauseFollowsLines /\ AudioLatched /\ HandlerMasked
    BY DEF CauseFollowsLines, AudioLatched, HandlerMasked, SiLine, ContextInit
  <1> QED BY <1>4, <1>5, <1>6, <1>7, <1>8 DEF PollInv

\* Every step keeps the invariant.
LEMMA StepPoll == PollInv /\ [Next]_vars => PollInv'
  <1> SUFFICES ASSUME PollInv, [Next]_vars PROVE PollInv'
    OBVIOUS
  <1>1. PollTypeOK /\ OwnInv /\ HandlerMasked
    BY DEF PollInv
  <1>2. OwnInv'
    BY <1>1, ContextSteps, OwnStep
  <1>3. HandlerMasked'
    BY <1>1, MaskedSteps
  <1>4. ClockInv' /\ OnlyRetrace' /\ InCadence' /\ CauseFollowsLines' /\ AudioLatched'
    BY ClockSteps, CadenceSteps, CauseSteps, LatchSteps
  <1>5. PollTypeOK'
    <2>1. ClockTypeOK' /\ ContextTypeOK'
      BY <1>2, <1>4 DEF ClockInv, OwnInv
    <2> QED BY <1>1, <2>1, OwnTypes, DeviceTypes DEF PollTypeOK, Si, Aid
  <1> QED BY <1>2, <1>3, <1>4, <1>5 DEF PollInv

\* The invariant holds in every behaviour.
LEMMA PollInvariant == Spec => []PollInv
  BY InitPoll, StepPoll, PTL DEF Spec

\* For every configuration, the host's interrupt state keeps its types; the batch
\* counter of interrupt_poll stays below the interval.
THEOREM PollTypes == Spec => []PollTypeOK
  <1>1. PollInv => PollTypeOK
    BY DEF PollInv
  <1> QED BY <1>1, PollInvariant, PTL

\* For every interval and frame length, batching loses no retrace and repeats none:
\* when interrupt_poll returns there was one for each full frame of polled blocks.
THEOREM CadenceIsExact == Spec => []CadenceExact
  <1>1. PollInv => CadenceExact
    <2> SUFFICES ASSUME PollInv, loc = "guest"
                 PROVE  retraces = now \div FrameUnits /\ now + accum = blocks
      BY DEF CadenceExact
    <2>1. /\ now \in Nat /\ retraces \in Nat /\ FrameUnits \in Nat \ {0}
          /\ FrameUnits * retraces <= now /\ now < FrameUnits * retraces + FrameUnits
      BY PollAssumption DEF PollInv, PollTypeOK, ClockTypeOK, InCadence
    <2>2. now \div FrameUnits = retraces
      BY <2>1, WholeFrames
    <2> QED BY <2>2 DEF PollInv, InCadence
  <1> QED BY <1>1, PollInvariant, PTL

\* For every set of sources and every access of the guest, the serial interface's
\* PI cause is its line, and no VI, EXI or DI cause outlives its line.
THEOREM CauseIsLine == Spec => []CauseFollowsLines
  <1>1. PollInv => CauseFollowsLines
    BY DEF PollInv
  <1> QED BY <1>1, PollInvariant, PTL

\* The guest is only interrupted while a device holds an unmasked line: the audio
\* cause, which the guest's acknowledge leaves standing, is copied anew before.
THEOREM DeliveryIsJustified == Spec => DeliveryJustified
  <1>1. PollInv /\ [Next]_vars => [~handling /\ handling' => \E s \in cause \cap mask : Line(s)]_vars
    <2> SUFFICES ASSUME PollInv, Next, ~handling, handling'
                 PROVE  \E s \in cause \cap mask : Line(s)
      OBVIOUS
    <2>1. ~UNCHANGED contextVars
      BY DEF contextVars
    <2>2. ~Poll /\ ~PopRetrace /\ ~PollReturn
      BY <2>1 DEF Poll, PopRetrace, PollReturn
    <2>3. ~GuestStep
      BY DEF GuestStep, ReadRegister, ReadChannel, WriteMask, WriteCause, WriteVi, WriteSi,
             WriteDspControl, WriteDmaControl, WriteAiControl, SetPort, CommitPeFinish, SetEE,
             OSLoadContext, UseFpu, LoadContext, Compute, contextVars
    <2>4. Deliver
      BY <2>2, <2>3 DEF Next, PollStep
    <2>5. PICK s \in cause \cap mask : TRUE
      BY <2>4 DEF Deliver, MayDeliver
    <2>6. /\ s \in Source /\ s \in cause /\ loc = "retrace"
          /\ CauseFollowsLines /\ AudioLatched
      BY <2>4, <2>5 DEF PollInv, PollTypeOK, Deliver
    <2>7. Line(s)
      <3>1. CASE s = "VI"
        BY <2>6, <3>1 DEF CauseFollowsLines, Line
      <3>2. CASE s = "SI"
        BY <2>6, <3>2 DEF CauseFollowsLines, Line
      <3>3. CASE s = "DSP"
        BY <2>6, <3>3 DEF AudioLatched, Line
      <3>4. CASE s = "PE_FINISH"
        BY <3>4 DEF Line
      <3>5. CASE s \in Port
        BY <2>6, <3>5, PollAssumption DEF CauseFollowsLines, Line
      <3> QED BY <2>6, <3>1, <3>2, <3>3, <3>4, <3>5 DEF Source
    <2> QED BY <2>5, <2>7
  <1> QED BY <1>1, PollInvariant, PTL DEF Spec, DeliveryJustified

\* Polling drives the floating-point contexts only as FpuContexts allows: the host
\* delivers no interrupt inside an interrupt, so what that module promises of the
\* cache holds for the whole host.
THEOREM PollKeepsContexts == Spec => ContextSpec /\ [](CacheOwn /\ RecentKept)
  <1>1. Init => ContextInit
    BY DEF Init
  <1>2. PollInv /\ [Next]_vars => [ContextNext]_contextVars
    BY ContextSteps DEF PollInv
  <1>3. Spec => ContextSpec
    BY <1>1, <1>2, PollInvariant, PTL DEF Spec, ContextSpec
  <1> QED BY <1>3, CacheIsOwn, TurnKeepsRecent, PTL

=============================================================================
