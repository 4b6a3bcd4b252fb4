--------------------------- MODULE Lockstep_proofs ---------------------------
(***************************************************************************)
(* Lockstep leaves no trace, what it calls clean agrees in all it compares *)
(* and a comparable block it reports is wrong, for every memory, block     *)
(* length and step cap, provided every location is journaled (the run      *)
(* lockstep_mem2 shows what happens where one is not).                     *)
(*                                                                         *)
(* NativeKept speaks of the end of a check only.  During the shadow run    *)
(* the invariant is that restoring now would give back native's memory:    *)
(* a location native wrote has its result in post, any other still has its *)
(* value or has it in shadowPre.                                           *)
(***************************************************************************)
EXTENDS Lockstep, SequenceTheorems, TLAPS

IsMachine(m) ==
    /\ m = [mem |-> m.mem, device |-> m.device, out |-> m.out, ppc |-> m.ppc]
    /\ m.mem = [l \in Loc |-> m.mem[l]]

Shapes ==
    /\ phase \in {"idle", "native", "shadow"}
    /\ mem = [l \in Loc |-> mem[l]]
    /\ IsMachine(left)
    /\ phase # "shadow" => ppc = "native"
    /\ journaling \in BOOLEAN /\ (phase # "native" => ~journaling)
    /\ nativeCode.ops \in Seq(Op)

\* While native is observed the shadow has no images.
Fresh == phase = "native" /\ journaling => shadowPre = NoImage

\* Restoring now would give back what native left.
Restorable ==
    phase = "shadow" =>
        /\ left.ppc = "native" /\ left.out = out /\ (~escaped => left.device = device)
        /\ \A l \in Loc : Restored[l] = left.mem[l]

KeptInv == Shapes /\ Fresh /\ Restorable /\ NativeKept

\* Operations that store have a location, the others have none.
LEMMA StoresHaveLoc ==
  ASSUME NEW o \in Op, o.loc \in Loc
  PROVE  o.op \in {"store", "bump"}
  BY LockstepAssumption DEF Op

\* At first nothing has run.
LEMMA InitKept == LockstepInit => KeptInv
  <1> SUFFICES ASSUME LockstepInit PROVE KeptInv OBVIOUS
  <1>1. left = [mem |-> mem, device |-> device, out |-> out, ppc |-> ppc] /\ mem = [l \in Loc |-> mem[l]]
    BY DEF LockstepInit, Machine
  <1>2. IsMachine(left)
    BY <1>1 DEF IsMachine
  <1>3. nativeCode.ops \in Seq(Op)
    <2>1. [op |-> "nop", loc |-> NoLoc] \in Op
      BY DEF Op, HardwareOps
    <2> QED BY <2>1 DEF LockstepInit, NoCode
  <1>4. Shapes
    BY <1>1, <1>2, <1>3 DEF LockstepInit, Shapes
  <1> QED BY <1>1, <1>4 DEF LockstepInit, KeptInv, Fresh, Restorable, NativeKept, Machine

\* The value restoring gives a location.
LEMMA RestoredAt ==
  ASSUME NEW l \in Loc
  PROVE  Restored[l] = IF l \in DOMAIN post THEN post[l]
                       ELSE IF l \in DOMAIN shadowPre THEN shadowPre[l] ELSE mem[l]
  BY DEF Restored, Overlay

\* A store leaves other locations alone.
LEMMA StoreAt ==
  ASSUME mem = [l \in Loc |-> mem[l]], NEW k, NEW v, mem' = [mem EXCEPT ![k] = v]
  PROVE  /\ mem' = [l \in Loc |-> mem'[l]]
         /\ \A l \in Loc : l # k => mem'[l] = mem[l]
  OBVIOUS

\* A store of the shadow does not change what restoring gives.
LEMMA ShadowStoreRestorable ==
  ASSUME Journaled = Loc, mem = [l \in Loc |-> mem[l]], NEW k, NEW v, ShadowStore(k, v), UNCHANGED post
  PROVE  /\ mem' = [l \in Loc |-> mem'[l]]
         /\ \A l \in Loc : Restored'[l] = Restored[l]
  <1>1. mem' = [l \in Loc |-> mem'[l]] /\ \A l \in Loc : l # k => mem'[l] = mem[l]
    BY StoreAt DEF ShadowStore
  <1>2. shadowPre' = IF k \in Loc THEN emplace(shadowPre, k, mem[k]) ELSE shadowPre
    BY DEF ShadowStore, Journal
  <1>3. \A l \in Loc : (IF l \in DOMAIN shadowPre' THEN shadowPre'[l] ELSE mem'[l])
                       = IF l \in DOMAIN shadowPre THEN shadowPre[l] ELSE mem[l]
    BY <1>1, <1>2 DEF emplace
  <1>4. \A l \in Loc : Restored'[l] = IF l \in DOMAIN post' THEN post'[l]
                                      ELSE IF l \in DOMAIN shadowPre' THEN shadowPre'[l] ELSE mem'[l]
    BY DEF Restored, Overlay
  <1> QED BY <1>1, <1>3, <1>4, RestoredAt

\* A dispatch leaves idle: nothing is promised until native is done.
LEMMA DispatchKept ==
  ASSUME KeptInv, NEW b, NEW n \in Nat, NEW c \in Code(n), NEW g, NEW k, Dispatch(b, c, g, k)
  PROVE  KeptInv'
  <1>1. c.ops \in Seq(Op)
    BY SeqDef DEF Code
  <1>2. /\ phase = "idle" /\ phase' = "native" /\ nativeCode' = c /\ UNCHANGED <<mem, ppc>>
        /\ left' = [[mem |-> mem, device |-> device, out |-> out, ppc |-> ppc] EXCEPT !.out = <<>>]
    BY DEF Dispatch, Machine
  <1>3. journaling' \in BOOLEAN /\ (journaling' => shadowPre' = NoImage)
    BY <1>2 DEF Dispatch, Prepare, KeptInv, Shapes
  <1>4. IsMachine(left)'
    BY <1>2 DEF KeptInv, Shapes, IsMachine
  <1>5. Shapes'
    BY <1>1, <1>2, <1>3, <1>4 DEF KeptInv, Shapes
  <1> QED BY <1>2, <1>3, <1>5 DEF KeptInv, Fresh, Restorable, NativeKept

\* Native's own steps keep memory a memory.
LEMMA NativeKeeps ==
  ASSUME KeptInv, NativeStep
  PROVE  KeptInv'
  <1>1. phase = "native" /\ UNCHANGED <<phase, nativeCode, ppc, journaling, left, shadowPre>>
    BY DEF NativeStep, blockVars, historyVars
  <1>2. mem' = [l \in Loc |-> mem'[l]]
    <2>1. mem = [l \in Loc |-> mem[l]]
      BY DEF KeptInv, Shapes
    <2>2. mem' = mem \/ \E k, v : mem' = [mem EXCEPT ![k] = v]
      BY DEF NativeStep, NativeStore, NativeRead, NativeWrite
    <2> QED BY <2>1, <2>2, StoreAt
  <1>3. Shapes'
    BY <1>1, <1>2 DEF KeptInv, Shapes, IsMachine
  <1> QED BY <1>1, <1>3 DEF KeptInv, Fresh, Restorable, NativeKept

\* Where no shadow runs, native's result is taken as it stands.
LEMMA EndKept ==
  ASSUME KeptInv, EndUnchecked \/ VerifySkip
  PROVE  KeptInv'
  <1>1. /\ phase = "native" /\ phase' = "idle" /\ UNCHANGED <<nativeCode, mem, device, out, ppc>>
        /\ left' = [mem |-> mem, device |-> device, out |-> out, ppc |-> ppc]
        /\ journaling' = FALSE
    BY DEF EndUnchecked, VerifySkip, NativeDone, Machine, blockVars, machineVars, KeptInv, Shapes
  <1>2. IsMachine(left)'
    BY <1>1 DEF KeptInv, Shapes, IsMachine
  <1>3. Shapes'
    BY <1>1, <1>2 DEF KeptInv, Shapes
  <1> QED BY <1>1, <1>3 DEF KeptInv, Fresh, Restorable, NativeKept, Machine

\* Undoing native's stores makes memory restorable: their results are in post.
LEMMA BeginKept ==
  ASSUME KeptInv, VerifyBegin
  PROVE  KeptInv'
  <1>1. /\ phase = "native" /\ phase' = "shadow" /\ journaling /\ ppc = "native"
        /\ UNCHANGED <<nativeCode, device, out, escaped, shadowPre>>
        /\ left' = [mem |-> mem, device |-> device, out |-> out, ppc |-> ppc]
        /\ journaling' = FALSE
        /\ post' = [l \in DOMAIN pre |-> mem[l]]
        /\ mem' = [l \in Loc |-> IF l \in DOMAIN pre THEN pre[l] ELSE mem[l]]
    BY DEF VerifyBegin, NativeDone, Machine, blockVars, KeptInv, Shapes, Undone, Overlay
  <1>2. IsMachine(left)'
    BY <1>1 DEF KeptInv, Shapes, IsMachine
  <1>3. Shapes'
    BY <1>1, <1>2 DEF KeptInv, Shapes
  <1>4. DOMAIN shadowPre' = {}
    BY <1>1 DEF KeptInv, Fresh, NoImage
  <1>5. \A l \in Loc : Restored'[l] = left'.mem[l]
    <2>1. \A l \in Loc : Restored'[l] = IF l \in DOMAIN post' THEN post'[l]
                                        ELSE IF l \in DOMAIN shadowPre' THEN shadowPre'[l] ELSE mem'[l]
      BY DEF Restored, Overlay
    <2>2. DOMAIN post' = DOMAIN pre /\ left'.mem = mem
      BY <1>1
    <2> QED BY <1>1, <1>4, <2>1, <2>2
  <1> QED BY <1>1, <1>3, <1>5 DEF KeptInv, Fresh, Restorable, NativeKept

\* Whatever the shadow executes, native's memory can still be restored.
LEMMA ShadowKept ==
  ASSUME Journaled = Loc, KeptInv, ShadowStep
  PROVE  KeptInv'
  <1>1. phase = "shadow" /\ UNCHANGED <<phase, nativeCode, ppc, out, journaling, left, post>>
    BY DEF ShadowStep, ShadowRunning, blockVars
  <1>2. mem = [l \in Loc |-> mem[l]]
    BY DEF KeptInv, Shapes
  <1>3. UNCHANGED <<mem, shadowPre>> \/ \E k, v : ShadowStore(k, v)
    BY DEF ShadowStep
  <1>4. mem' = [l \in Loc |-> mem'[l]] /\ \A l \in Loc : Restored'[l] = Restored[l]
    <2>1. CASE UNCHANGED <<mem, shadowPre>>
      BY <1>1, <1>2, <2>1 DEF Restored, Overlay
    <2>2. CASE \E k, v : ShadowStore(k, v)
      BY <1>1, <1>2, <2>2, ShadowStoreRestorable
    <2> QED BY <1>3, <2>1, <2>2
  <1>5. escaped' \/ (escaped' = escaped /\ device' = device)
    BY DEF ShadowStep, ReplayRead
  <1>6. ~escaped' => left.device = device'
    BY <1>1, <1>5 DEF KeptInv, Restorable, ShadowStep
  <1>7. Shapes'
    BY <1>1, <1>4 DEF KeptInv, Shapes, IsMachine
  <1> QED BY <1>1, <1>4, <1>6, <1>7 DEF KeptInv, Fresh, Restorable, NativeKept

\* The end of a check restores.
LEMMA FinishKept ==
  ASSUME KeptInv, LockstepFinish
  PROVE  KeptInv'
  <1>1. /\ phase = "shadow" /\ phase' = "idle" /\ mem' = Restored /\ ppc' = "native"
        /\ UNCHANGED <<nativeCode, device, out, journaling, left, escaped>>
    BY DEF LockstepFinish, blockVars
  <1>2. mem' = left.mem
    <2>1. \A l \in Loc : Restored[l] = left.mem[l]
      BY <1>1 DEF KeptInv, Restorable
    <2>2. Restored = [l \in Loc |-> Restored[l]] /\ left.mem = [l \in Loc |-> left.mem[l]]
      BY DEF Restored, Overlay, KeptInv, Shapes, IsMachine
    <2> QED BY <1>1, <2>1, <2>2
  <1>3. Shapes'
    BY <1>1, <1>2 DEF KeptInv, Shapes, IsMachine
  <1>4. ~escaped => [mem |-> mem', device |-> device', out |-> out', ppc |-> ppc'] = left
    BY <1>1, <1>2 DEF KeptInv, Restorable, Shapes, IsMachine
  <1> QED BY <1>1, <1>3, <1>4 DEF KeptInv, Fresh, Restorable, NativeKept, Machine

\* Every step keeps the invariant.
LEMMA StepKept ==
  ASSUME Journaled = Loc, KeptInv, [LockstepNext]_lockstepVars
  PROVE  KeptInv'
  <1>1. CASE UNCHANGED lockstepVars
    BY <1>1 DEF lockstepVars, blockVars, machineVars, journalVars, historyVars, KeptInv, Shapes, Fresh,
                Restorable, NativeKept, Machine, IsMachine, Restored, Overlay
  <1>2. CASE \E n \in 1 .. MaxBlockLen - pos + 1 : \E b \in Block, c \in Code(n), k \in Charge :
                \E g \in GuestCodes(c) : Dispatch(b, c, g, k)
    BY <1>2, DispatchKept
  <1> QED BY <1>1, <1>2, NativeKeeps, EndKept, BeginKept, ShadowKept, FinishKept DEF LockstepNext

\* Observing a block changes nothing: whatever the interpreter does in the
\* shadow run, LockstepCheck leaves memory, hardware and ppc_state as native left
\* them, for every set of locations if the MMU journals all of them.
THEOREM NativeIsKept ==
  ASSUME Journaled = Loc
  PROVE  LockstepSpec => []NativeKept
  <1>1. LockstepInit => KeptInv
    BY InitKept
  <1>2. KeptInv /\ [LockstepNext]_lockstepVars => KeptInv'
    BY StepKept
  <1>3. KeptInv => NativeKept
    BY DEF KeptInv
  <1> QED BY <1>1, <1>2, <1>3, PTL DEF LockstepSpec

-----------------------------------------------------------------------------
(* A clean block agrees.  Native's journals are complete: by the time the    *)
(* shadow starts, every location the block stores to has an image, and the   *)
(* captured hardware writes are the ones the block made, or one of them is   *)
(* eight bytes wide; the interpreter's never are.                            *)

\* The locations the first n operations of the block store to.
Stored(n, image) ==
    \A k \in 1 .. Len(nativeCode.ops) : k < n /\ nativeCode.ops[k].loc \in Loc => nativeCode.ops[k].loc \in image

IsSeq(s) == \E S : s \in Seq(S)
Wide(s) == \E i \in 1 .. Len(s) : s[i].size = 8

Complete ==
    /\ pos \in Nat
    /\ phase # "idle" => outcome = "none"
    /\ phase = "native" /\ journaling =>
         /\ IsSeq(nativeMmio) /\ (Wide(nativeMmio) \/ nativeMmio = out) /\ interpMmio = <<>>
         /\ Stored(pos, DOMAIN pre)
    /\ phase = "shadow" => /\ Wide(nativeMmio) \/ nativeMmio = out
                           /\ IsSeq(interpMmio) /\ ~Wide(interpMmio)
                           /\ Stored(Len(nativeCode.ops) + 1, DOMAIN post)
                           /\ \A l \in DOMAIN post \cap Loc : post[l] = left.mem[l]

CleanInv == KeptInv /\ Complete /\ CleanAgrees

\* The entries of two journals put together.
LEMMA JoinedAt ==
  ASSUME NEW s, NEW t, IsSeq(s), IsSeq(t)
  PROVE  /\ IsSeq(s \o t) /\ Len(s) \in Nat /\ Len(t) \in Nat /\ Len(s \o t) = Len(s) + Len(t)
         /\ \A i \in 1 .. Len(s) + Len(t) : (s \o t)[i] = IF i <= Len(s) THEN s[i] ELSE t[i - Len(s)]
  <1>1. PICK S : s \in Seq(S)
    BY DEF IsSeq
  <1>2. PICK T : t \in Seq(T)
    BY DEF IsSeq
  <1>3. PICK U : U = S \cup T
    OBVIOUS
  <1>4. s \in Seq(U) /\ t \in Seq(U)
    BY <1>1, <1>2, <1>3, SeqDef
  <1>5. s \o t \in Seq(U) /\ Len(s) \in Nat /\ Len(t) \in Nat /\ Len(s \o t) = Len(s) + Len(t)
    BY <1>4
  <1>6. \A i \in 1 .. Len(s) + Len(t) : (s \o t)[i] = IF i <= Len(s) THEN s[i] ELSE t[i - Len(s)]
    BY <1>4
  <1> QED BY <1>5, <1>6 DEF IsSeq

\* Appending to a journal keeps its entries.
LEMMA Joined ==
  ASSUME NEW s, NEW t, IsSeq(s), IsSeq(t)
  PROVE  /\ IsSeq(s \o t) /\ Len(s) \in Nat /\ Len(t) \in Nat /\ Len(s \o t) = Len(s) + Len(t)
         /\ \A i \in 1 .. Len(s) : (s \o t)[i] = s[i]
         /\ Wide(s \o t) <=> Wide(s) \/ Wide(t)
  <1>1. IsSeq(s \o t) /\ Len(s) \in Nat /\ Len(t) \in Nat /\ Len(s \o t) = Len(s) + Len(t)
    BY JoinedAt
  <1>2. \A i \in 1 .. Len(s) + Len(t) : (s \o t)[i] = IF i <= Len(s) THEN s[i] ELSE t[i - Len(s)]
    BY JoinedAt
  <1>3. \A i \in 1 .. Len(s) : (s \o t)[i] = s[i] /\ i \in 1 .. Len(s) + Len(t)
    BY <1>1, <1>2
  <1>4. \A i \in 1 .. Len(t) : (s \o t)[Len(s) + i] = t[i] /\ Len(s) + i \in 1 .. Len(s) + Len(t)
    BY <1>1, <1>2
  <1>5. Wide(s \o t) <=> Wide(s) \/ Wide(t)
    <2>1. ASSUME NEW i \in 1 .. Len(s) + Len(t), (s \o t)[i].size = 8 PROVE Wide(s) \/ Wide(t)
      <3>1. CASE i <= Len(s)
        BY <1>1, <1>2, <2>1, <3>1 DEF Wide
      <3>2. CASE i > Len(s)
        <4>1. i - Len(s) \in 1 .. Len(t) /\ (s \o t)[i] = t[i - Len(s)]
          BY <1>1, <1>2, <3>2
        <4> QED BY <2>1, <4>1 DEF Wide
      <3> QED BY <1>1, <3>1, <3>2
    <2>2. Wide(s) => Wide(s \o t)
      BY <1>1, <1>3 DEF Wide
    <2>3. Wide(t) => Wide(s \o t)
      BY <1>1, <1>4 DEF Wide
    <2> QED BY <1>1, <2>1, <2>2, <2>3 DEF Wide
  <1> QED BY <1>1, <1>3, <1>5

\* An entry appended is the last.
LEMMA JoinedOne ==
  ASSUME NEW s, NEW t, IsSeq(s), IsSeq(t), Len(t) = 1
  PROVE  Len(s) \in Nat /\ Len(s \o t) = Len(s) + 1 /\ (s \o t)[Len(s) + 1] = t[1]
  <1>1. Len(s) \in Nat /\ Len(s \o t) = Len(s) + Len(t)
    BY JoinedAt
  <1>2. \A i \in 1 .. Len(s) + Len(t) : (s \o t)[i] = IF i <= Len(s) THEN s[i] ELSE t[i - Len(s)]
    BY JoinedAt
  <1>3. Len(s) + 1 \in 1 .. Len(s) + Len(t) /\ ~(Len(s) + 1 <= Len(s)) /\ (Len(s) + 1) - Len(s) = 1
    BY <1>1
  <1> QED BY <1>1, <1>2, <1>3

\* The entries one access leaves.
LEMMA Accesses ==
  ASSUME NEW v
  PROVE  /\ IsSeq(Whole(v)) /\ Len(Whole(v)) = 1 /\ ~Wide(Whole(v))
         /\ Whole(v)[1].data = v /\ Whole(v)[1].offset = 0
         /\ IsSeq(Words(v)) /\ ~Wide(Words(v))
         /\ IsSeq(Pair(v)) /\ IsSeq(Truncated(v)) /\ Wide(Truncated(v))
  <1>1. ASSUME NEW x PROVE IsSeq(<<x>>) /\ Len(<<x>>) = 1 /\ <<x>>[1] = x
    <2>1. <<x>> \in Seq({x}) /\ Len(<<x>>) = 1 /\ <<x>>[1] = x
      OBVIOUS
    <2> QED BY <2>1 DEF IsSeq
  <1>2. ASSUME NEW x, NEW y
        PROVE  IsSeq(<<x, y>>) /\ Len(<<x, y>>) = 2 /\ <<x, y>>[1] = x /\ <<x, y>>[2] = y
    <2>1. <<x, y>> \in Seq({x, y})
      OBVIOUS
    <2>2. Len(<<x, y>>) = 2 /\ <<x, y>>[1] = x /\ <<x, y>>[2] = y
      OBVIOUS
    <2> QED BY <2>1, <2>2 DEF IsSeq
  <1>3. \A o, d, z : LET w == LsWrite(o, d, z) IN w.offset = o /\ w.data = d /\ w.size = z
    BY DEF LsWrite
  <1>4. /\ IsSeq(Whole(v)) /\ Len(Whole(v)) = 1 /\ Whole(v)[1] = LsWrite(0, v, 4)
        /\ IsSeq(Truncated(v)) /\ Len(Truncated(v)) = 1 /\ Truncated(v)[1] = LsWrite(0, Low(v), 8)
    BY <1>1 DEF Whole, Truncated
  <1>5. /\ IsSeq(Words(v)) /\ Len(Words(v)) = 2 /\ IsSeq(Pair(v))
        /\ Words(v)[1] = LsWrite(0, High(v), 4) /\ Words(v)[2] = LsWrite(1, Low(v), 4)
    BY <1>2 DEF Words, Pair
  <1>6. Wide(Truncated(v)) /\ ~Wide(Whole(v))
    BY <1>3, <1>4 DEF Wide
  <1>7. ~Wide(Words(v))
    BY <1>3, <1>5 DEF Wide
  <1> QED BY <1>3, <1>4, <1>5, <1>6, <1>7

\* At first nothing has been checked.
LEMMA InitClean == LockstepInit => CleanInv
  BY InitKept DEF LockstepInit, CleanInv, Complete, CleanAgrees

\* A check starts with empty journals.
LEMMA DispatchClean ==
  ASSUME CleanInv, NEW b, NEW n \in Nat, NEW c \in Code(n), NEW g, NEW k, Dispatch(b, c, g, k)
  PROVE  Complete' /\ CleanAgrees'
  <1>1. /\ phase = "idle" /\ phase' = "native" /\ pos' = 1 /\ out' = <<>> /\ outcome' = "none"
        /\ journaling' => nativeMmio' = <<>> /\ interpMmio' = <<>>
    BY DEF Dispatch, Prepare, CleanInv, KeptInv, Shapes
  <1>2. Stored(pos, DOMAIN pre)'
    BY <1>1 DEF Stored
  <1>3. journaling' => IsSeq(nativeMmio')
    <2>1. <<>> \in Seq({})
      OBVIOUS
    <2> QED BY <1>1, <2>1 DEF IsSeq
  <1> QED BY <1>1, <1>2, <1>3 DEF Complete, CleanAgrees

\* An operation that stores is journaled before it is passed.
LEMMA NativeClean ==
  ASSUME Journaled = Loc, CleanInv, NativeStep
  PROVE  Complete' /\ CleanAgrees'
  <1> DEFINE o == nativeCode.ops[pos]
  <1>1. /\ pos \in Nat /\ pos <= Len(nativeCode.ops) /\ pos' = pos + 1
        /\ UNCHANGED <<phase, nativeCode, journaling, outcome>>
    BY DEF NativeStep, CleanInv, Complete, blockVars
  <1>2. phase' = "native" /\ outcome' = "none" /\ phase = "native"
    BY <1>1 DEF NativeStep, CleanInv, Complete
  <1>3. journaling => IsSeq(nativeMmio') /\ (Wide(nativeMmio') \/ nativeMmio' = out') /\ interpMmio' = <<>>
    <2> SUFFICES ASSUME journaling
                 PROVE  IsSeq(nativeMmio') /\ (Wide(nativeMmio') \/ nativeMmio' = out') /\ interpMmio' = <<>>
      OBVIOUS
    <2>1. IsSeq(nativeMmio) /\ (Wide(nativeMmio) \/ nativeMmio = out) /\ interpMmio' = <<>>
      BY <1>1, <1>2 DEF CleanInv, Complete, NativeStep
    <2>2. \/ nativeMmio' = nativeMmio /\ out' = out
          \/ \E kept : /\ nativeMmio' = nativeMmio \o kept /\ out' = out \o kept
                       /\ kept \in {Whole(acc), Pair(acc)}
          \/ nativeMmio' = nativeMmio \o Truncated(acc)
      BY DEF NativeStep, NativeStore, NativeRead, NativeWrite
    <2>3. IsSeq(Whole(acc)) /\ IsSeq(Pair(acc)) /\ IsSeq(Truncated(acc)) /\ Wide(Truncated(acc))
      BY Accesses
    <2> QED BY <2>1, <2>2, <2>3, Joined
  <1>4. journaling => DOMAIN pre \subseteq DOMAIN pre' /\ (o.op \in {"store", "bump"} /\ o.loc \in Loc => o.loc \in DOMAIN pre')
    BY DEF NativeStep, NativeStore, NativeRead, NativeWrite, Journal, emplace
  <1>5. pos \in 1 .. Len(nativeCode.ops) /\ o.loc \in Loc => o.op \in {"store", "bump"}
    BY StoresHaveLoc DEF CleanInv, KeptInv, Shapes
  <1>6. journaling => Stored(pos, DOMAIN pre)
    BY <1>2 DEF CleanInv, Complete
  <1>7. journaling => Stored(pos, DOMAIN pre)'
    BY <1>1, <1>4, <1>5, <1>6 DEF Stored
  <1> QED BY <1>1, <1>2, <1>3, <1>7 DEF Complete, CleanAgrees

\* A block that is not checked is not called clean.
LEMMA EndClean ==
  ASSUME CleanInv, EndUnchecked \/ VerifySkip
  PROVE  Complete' /\ CleanAgrees'
  <1>1. phase = "native" /\ phase' = "idle" /\ UNCHANGED pos /\ outcome' # "clean"
    BY DEF EndUnchecked, VerifySkip, NativeDone, CleanInv, Complete
  <1> QED BY <1>1 DEF CleanInv, Complete, CleanAgrees

\* Every journaled location gets native's result in post.
LEMMA BeginClean ==
  ASSUME CleanInv, VerifyBegin
  PROVE  Complete' /\ CleanAgrees'
  <1>1. /\ phase = "native" /\ journaling /\ pos > Len(nativeCode.ops) /\ phase' = "shadow"
        /\ UNCHANGED <<nativeCode, pos, out, nativeMmio, interpMmio, outcome>> /\ outcome = "none"
        /\ post' = [l \in DOMAIN pre |-> mem[l]]
        /\ left' = [mem |-> mem, device |-> device, out |-> out, ppc |-> ppc]
    BY DEF VerifyBegin, NativeDone, blockVars, CleanInv, Complete, Machine
  <1>2. DOMAIN post' = DOMAIN pre /\ left'.mem = mem /\ \A l \in DOMAIN pre : post'[l] = mem[l]
    BY <1>1
  <1>3. (Wide(nativeMmio) \/ nativeMmio = out) /\ interpMmio = <<>> /\ Stored(pos, DOMAIN pre) /\ pos \in Nat
    BY <1>1 DEF CleanInv, Complete
  <1>4. Len(nativeCode.ops) \in Nat
    BY DEF CleanInv, KeptInv, Shapes
  <1>5. Stored(Len(nativeCode.ops) + 1, DOMAIN post)'
    BY <1>1, <1>2, <1>3, <1>4 DEF Stored
  <1>6. IsSeq(<<>>) /\ ~Wide(<<>>)
    <2>1. <<>> \in Seq({}) /\ Len(<<>>) = 0
      OBVIOUS
    <2> QED BY <2>1 DEF IsSeq, Wide
  <1>7. IsSeq(interpMmio') /\ ~Wide(interpMmio') /\ (Wide(nativeMmio') \/ nativeMmio' = out')
    BY <1>1, <1>3, <1>6
  <1> QED BY <1>1, <1>2, <1>3, <1>5, <1>7 DEF Complete, CleanAgrees

\* The shadow does not touch what it is compared with.
LEMMA ShadowClean ==
  ASSUME CleanInv, ShadowStep
  PROVE  Complete' /\ CleanAgrees'
  <1>1. phase = "shadow" /\ outcome = "none"
        /\ UNCHANGED <<phase, nativeCode, pos, out, post, nativeMmio, outcome, left>>
    BY DEF ShadowStep, ShadowRunning, blockVars, CleanInv, Complete
  <1>2. IsSeq(interpMmio) /\ ~Wide(interpMmio) /\ (Wide(nativeMmio) \/ nativeMmio = out)
    BY <1>1 DEF CleanInv, Complete
  <1>3. IsSeq(interpMmio') /\ ~Wide(interpMmio')
    <2>1. interpMmio' \in {interpMmio, interpMmio \o Words(shadow.acc), interpMmio \o Whole(shadow.acc)}
      BY DEF ShadowStep, Captured
    <2>2. /\ IsSeq(Whole(shadow.acc)) /\ ~Wide(Whole(shadow.acc))
          /\ IsSeq(Words(shadow.acc)) /\ ~Wide(Words(shadow.acc))
      BY Accesses
    <2>3. ASSUME NEW w, IsSeq(w), ~Wide(w) PROVE IsSeq(interpMmio \o w) /\ ~Wide(interpMmio \o w)
      BY <1>2, <2>3, Joined
    <2>4. CASE interpMmio' = interpMmio
      BY <1>2, <2>4
    <2>5. CASE interpMmio' = interpMmio \o Words(shadow.acc)
      BY <2>2, <2>3, <2>5
    <2>6. CASE interpMmio' = interpMmio \o Whole(shadow.acc)
      BY <2>2, <2>3, <2>6
    <2> QED BY <2>1, <2>4, <2>5, <2>6
  <1>4. Wide(nativeMmio') \/ nativeMmio' = out'
    BY <1>1, <1>2
  <1> QED BY <1>1, <1>3, <1>4 DEF CleanInv, Complete, CleanAgrees, Stored

\* Clean is said only without a difference.
LEMMA FinishClean ==
  ASSUME CleanInv, LockstepFinish
  PROVE  Complete' /\ CleanAgrees'
  <1>1. /\ phase = "shadow" /\ phase' = "idle" /\ shadowMem' = mem
        /\ UNCHANGED <<nativeCode, pos, acc, out, shadow, interpMmio, left>>
        /\ outcome' = "clean" => ~Differs
    BY DEF LockstepFinish, blockVars, journalVars
  <1>2. ASSUME ~Differs
        PROVE  /\ acc = shadow.acc /\ out = interpMmio
               /\ \A k \in 1 .. Len(nativeCode.ops) :
                     nativeCode.ops[k].loc \in Loc => mem[nativeCode.ops[k].loc] = left.mem[nativeCode.ops[k].loc]
    <2>1. Stored(Len(nativeCode.ops) + 1, DOMAIN post)
          /\ (Wide(nativeMmio) \/ nativeMmio = out) /\ ~Wide(interpMmio)
          /\ \A l \in DOMAIN post \cap Loc : post[l] = left.mem[l]
      BY <1>1 DEF CleanInv, Complete
    <2>2. Len(nativeCode.ops) \in Nat
      BY DEF CleanInv, KeptInv, Shapes
    <2>3. \A k \in 1 .. Len(nativeCode.ops) : nativeCode.ops[k].loc \in Loc => nativeCode.ops[k].loc \in DOMAIN post
      BY <2>1, <2>2 DEF Stored
    <2> QED BY <1>2, <2>1, <2>3 DEF Differs
  <1>3. CleanAgrees'
    BY <1>1, <1>2 DEF CleanAgrees
  <1> QED BY <1>1, <1>3 DEF CleanInv, Complete

\* Every step keeps the journals complete.
LEMMA StepClean ==
  ASSUME Journaled = Loc, CleanInv, [LockstepNext]_lockstepVars
  PROVE  CleanInv'
  <1>1. KeptInv'
    BY StepKept DEF CleanInv
  <1>2. Complete' /\ CleanAgrees'
    <2>1. CASE UNCHANGED lockstepVars
      BY <2>1 DEF lockstepVars, blockVars, machineVars, journalVars, historyVars, CleanInv, Complete, Stored,
                  CleanAgrees
    <2>2. CASE \E n \in 1 .. MaxBlockLen - pos + 1 : \E b \in Block, c \in Code(n), k \in Charge :
                  \E g \in GuestCodes(c) : Dispatch(b, c, g, k)
      BY <2>2, DispatchClean
    <2> QED BY <2>1, <2>2, NativeClean, EndClean, BeginClean, ShadowClean, FinishClean DEF LockstepNext
  <1> QED BY <1>1, <1>2 DEF CleanInv

\* A block LockstepCheck finds clean has the interpreter's value in every register
\* the check compares and at every location it stores to, and made the
\* interpreter's hardware writes, whatever their width, for every set of locations
\* if the MMU journals all of them, and for every block length.  Of the registers
\* that are not compared (aux) nothing follows.
THEOREM CleanBlocksAgree ==
  ASSUME Journaled = Loc
  PROVE  LockstepSpec => []CleanAgrees
  <1>1. LockstepInit => CleanInv
    BY InitClean
  <1>2. CleanInv /\ [LockstepNext]_lockstepVars => CleanInv'
    BY StepClean
  <1>3. CleanInv => CleanAgrees
    BY DEF CleanInv
  <1> QED BY <1>1, <1>2, <1>3, PTL DEF LockstepSpec
-----------------------------------------------------------------------------
(* No false alarm.  The shadow repeats native's run: there is a trace of the *)
(* states native went through, from the entry state to its result, and the   *)
(* shadow stands on it.  It is what nobody stores: memory and registers are  *)
(* overwritten, and only the journals tell of the earlier states.            *)

\* What operation o does to state s, when the device's answers are R in turn.
Does(o, s, t, R) ==
    /\ o.op \notin SplitAccess \cup {"fallback"}
    /\ t.acc = IF o.op = "bump" THEN Plus1(s.mem[o.loc])
               ELSE IF o.op = "hwread" THEN R[s.count + 1].data ELSE s.acc
    /\ t.mem = IF o.op = "store" THEN [s.mem EXCEPT ![o.loc] = s.acc]
               ELSE IF o.op = "bump" THEN [s.mem EXCEPT ![o.loc] = Plus1(s.mem[o.loc])] ELSE s.mem
    /\ t.count = IF o.op = "hwread" THEN s.count + 1 ELSE s.count
    /\ t.mmio = IF o.op = "hwwrite" THEN s.mmio \o Whole(s.acc) ELSE s.mmio
    /\ o.op = "hwread" => s.count < Len(R) /\ R[s.count + 1].offset = 0

\* A run of the first n - 1 operations of code: tr[i] is the state before the i-th.
IsRun(tr, n, code, R) ==
    /\ tr[1].count = 0 /\ tr[1].mmio = <<>>
    /\ \A i \in 1 .. n : tr[i].count \in Nat
    /\ \A i \in 1 .. n : i < n => Does(code[i], tr[i], tr[i + 1], R)

\* The state a trace has reached.
At(s, a, m, c, w) == s.acc = a /\ s.mem = m /\ s.count = c /\ s.mmio = w

\* Native's run so far starts from what the journals say of the entry state.
NativeTrace(tr) ==
    /\ IsRun(tr, pos, nativeCode.ops, reads)
    /\ tr[1].acc = snapshot.acc /\ tr[1].mem = Undone
    /\ At(tr[pos], acc, mem, Len(reads), nativeMmio)

\* The shadow stands on native's run, having taken one step an operation.
ShadowTrace(tr) ==
    /\ IsRun(tr, Len(nativeCode.ops) + 1, nativeCode.ops, reads)
    /\ At(tr[Len(nativeCode.ops) + 1], acc, left.mem, Len(reads), nativeMmio)
    /\ At(tr[shadow.pos], shadow.acc, mem, shadow.readIndex, interpMmio)

OnTrace ==
    /\ ~shadow.readOverflow /\ ~shadow.trapped
    /\ shadow.pos \in 1 .. Len(nativeCode.ops) + 1 /\ shadow.steps = shadow.pos - 1
    /\ shadow.atEnd <=> shadow.pos = Len(nativeCode.ops) + 1
    /\ \E tr : ShadowTrace(tr)

\* The interpreter's state is a record.
Fields == {"acc", "aux", "pos", "steps", "readIndex", "readOverflow", "trapped", "atEnd"}

\* The verifier's values keep their types while a block is observed.
Observed ==
    /\ device \in Val
    /\ phase # "idle" => pos \in 1 .. Len(nativeCode.ops) + 1 /\ Len(nativeCode.ops) > 0
    /\ phase = "native" /\ journaling =>
         interpMmio = <<>> /\ IsSeq(reads) /\ DOMAIN pre \subseteq Loc
    /\ phase = "shadow" => DOMAIN post \subseteq Loc /\ DOMAIN shadow = Fields

\* The blocks whose accesses both sides journal alike.
Unsplit(c) == \A k \in 1 .. Len(c.ops) : c.ops[k].op \notin SplitAccess

Traced ==
    /\ phase = "native" /\ journaling /\ ~fallbackSeen /\ Unsplit(nativeCode) => \E tr : NativeTrace(tr)
    /\ phase = "shadow" /\ nativeCode = guestCode /\ Unsplit(nativeCode) /\ nativeCode.through = {} => OnTrace

AlarmInv == CleanInv /\ Observed /\ Traced /\ NoFalseAlarm

\* Registers count modulo Modulus.
LEMMA ValFacts == 0 \in Val /\ \A v \in Val : Plus1(v) \in Val
  <1>1. Modulus \in Nat /\ Modulus > 1
    BY LockstepAssumption
  <1>2. \A m \in Nat : m > 1 => \A v \in 0 .. m - 1 : (v + 1) % m \in 0 .. m - 1
    OBVIOUS
  <1> QED BY <1>1, <1>2 DEF Val, Plus1

\* The operations a block may have.
LEMMA OpKinds ==
  ASSUME NEW o \in Op
  PROVE  o.op \in SplitAccess \cup {"nop", "store", "bump", "hwread", "hwwrite", "mtspr", "fallback"}
  BY DEF Op, HardwareOps, SplitAccess

\* A step moves the interpreter on and leaves the rest of its state.
LEMMA SteppedFields ==
  ASSUME DOMAIN shadow = Fields, NEW end
  PROVE  /\ DOMAIN Stepped(end) = Fields /\ Stepped(end).atEnd = end
         /\ Stepped(end).pos = shadow.pos + 1 /\ Stepped(end).steps = shadow.steps + 1
         /\ Stepped(end).acc = shadow.acc /\ Stepped(end).readIndex = shadow.readIndex
         /\ Stepped(end).readOverflow = shadow.readOverflow /\ Stepped(end).trapped = shadow.trapped
  BY DEF Fields, Stepped

\* Loading a register changes that register only.
LEMMA LoadFields ==
  ASSUME NEW s, NEW v, DOMAIN s = Fields
  PROVE  LET t == [s EXCEPT !.acc = v]
         IN  /\ DOMAIN t = Fields /\ t.acc = v
             /\ t.pos = s.pos /\ t.steps = s.steps /\ t.readIndex = s.readIndex
             /\ t.readOverflow = s.readOverflow /\ t.trapped = s.trapped /\ t.atEnd = s.atEnd
  BY DEF Fields

\* So does a move to one that is not compared.
LEMMA MoveFields ==
  ASSUME NEW s, NEW v, DOMAIN s = Fields
  PROVE  LET t == [s EXCEPT !.aux = v]
         IN  /\ DOMAIN t = Fields /\ t.acc = s.acc
             /\ t.pos = s.pos /\ t.steps = s.steps /\ t.readIndex = s.readIndex
             /\ t.readOverflow = s.readOverflow /\ t.trapped = s.trapped /\ t.atEnd = s.atEnd
  BY DEF Fields

\* A replayed read also counts, and tells whether the address was native's.
LEMMA ReadFields ==
  ASSUME NEW s, NEW v, NEW b, DOMAIN s = Fields
  PROVE  LET t == [s EXCEPT !.acc = v, !.readIndex = @ + 1, !.readOverflow = b]
         IN  /\ DOMAIN t = Fields /\ t.acc = v
             /\ t.pos = s.pos /\ t.steps = s.steps /\ t.readIndex = s.readIndex + 1
             /\ t.readOverflow = b /\ t.trapped = s.trapped /\ t.atEnd = s.atEnd
  BY DEF Fields

\* At first nothing is observed.
LEMMA InitAlarm == LockstepInit => AlarmInv
  BY InitClean, ValFacts DEF LockstepInit, AlarmInv, Observed, Traced, NoFalseAlarm, CleanInv, KeptInv, Shapes

\* A run starts where the snapshot was taken.
LEMMA DispatchAlarm ==
  ASSUME AlarmInv, NEW b, NEW n \in Nat \ {0}, NEW c \in Code(n), NEW g, NEW k, Dispatch(b, c, g, k)
  PROVE  Observed' /\ Traced' /\ NoFalseAlarm'
  <1>1. /\ phase = "idle" /\ phase' = "native" /\ nativeCode' = c /\ pos' = 1 /\ outcome' = "none"
        /\ UNCHANGED <<mem, acc, device>>
        /\ ~journaling
    BY DEF Dispatch, AlarmInv, CleanInv, KeptInv, Shapes
  <1>2. journaling' => /\ snapshot' = [acc |-> acc, aux |-> aux] /\ pre' = NoImage /\ reads' = <<>>
                       /\ nativeMmio' = <<>> /\ interpMmio' = <<>>
    BY <1>1 DEF Dispatch, Prepare
  <1>3. Len(c.ops) = n
    BY DEF Code
  <1>4. Observed'
    <2>1. device' \in Val /\ pos' \in 1 .. Len(nativeCode'.ops) + 1 /\ Len(nativeCode'.ops) > 0
      BY <1>1, <1>3 DEF Observed, AlarmInv
    <2>2. journaling' => interpMmio' = <<>> /\ IsSeq(reads') /\ DOMAIN pre' \subseteq Loc
      <3>1. IsSeq(<<>>) /\ DOMAIN NoImage = {}
        <4>1. <<>> \in Seq({})
          OBVIOUS
        <4> QED BY <4>1 DEF NoImage, IsSeq
      <3> QED BY <1>2, <3>1
    <2> QED BY <1>1, <2>1, <2>2 DEF Observed
  <1>5. ASSUME journaling' PROVE \E tr : NativeTrace(tr)'
    <2> DEFINE first == [acc |-> acc, mem |-> mem, count |-> 0, mmio |-> <<>>]
    <2> PICK tr : tr = [i \in {1} |-> first]
      OBVIOUS
    <2>1. Undone' = mem
      <3>1. DOMAIN pre' = {} /\ mem' = mem /\ mem = [l \in Loc |-> mem[l]]
        BY <1>1, <1>2, <1>5 DEF NoImage, AlarmInv, CleanInv, KeptInv, Shapes
      <3> QED BY <3>1 DEF Undone, Overlay
    <2>2. tr[1].acc = acc /\ tr[1].mem = mem /\ tr[1].count = 0 /\ tr[1].mmio = <<>>
      OBVIOUS
    <2>3. snapshot'.acc = acc /\ Len(reads') = 0
      BY <1>2, <1>5
    <2>4. NativeTrace(tr)'
      BY <1>1, <1>2, <1>5, <2>1, <2>2, <2>3 DEF NativeTrace, IsRun, At
    <2> QED BY <2>4
  <1> QED BY <1>1, <1>4, <1>5 DEF Traced, NoFalseAlarm

\* Undoing gives the same memory before and after a store of native.
LEMMA NativeStoreUndone ==
  ASSUME Journaled = Loc, journaling, mem = [l \in Loc |-> mem[l]], NEW k, NEW v, NativeStore(k, v)
  PROVE  Undone' = Undone
  <1>1. mem' = [l \in Loc |-> mem'[l]] /\ \A l \in Loc : l # k => mem'[l] = mem[l]
    BY StoreAt DEF NativeStore
  <1>2. pre' = IF k \in Loc THEN emplace(pre, k, mem[k]) ELSE pre
    BY DEF NativeStore, Journal
  <1>3. \A l \in Loc : (IF l \in DOMAIN pre' THEN pre'[l] ELSE mem'[l])
                       = IF l \in DOMAIN pre THEN pre[l] ELSE mem[l]
    BY <1>1, <1>2 DEF emplace
  <1> QED BY <1>3 DEF Undone, Overlay

\* A run stays a run when the device answers once more.
LEMMA RunLonger ==
  ASSUME NEW R, NEW w, IsSeq(R), IsSeq(w), NEW o, NEW s, NEW t, s.count \in Nat, Does(o, s, t, R)
  PROVE  Does(o, s, t, R \o w)
  <1>1. /\ Len(R \o w) = Len(R) + Len(w) /\ Len(R) \in Nat /\ Len(w) \in Nat
        /\ \A i \in 1 .. Len(R) : (R \o w)[i] = R[i]
    BY Joined
  <1>2. o.op = "hwread" => s.count < Len(R \o w) /\ (R \o w)[s.count + 1] = R[s.count + 1]
    BY <1>1 DEF Does
  <1> QED BY <1>2 DEF Does

\* The operation native executes extends its run.
LEMMA NativeExtends ==
  ASSUME Journaled = Loc, AlarmInv, NativeStep, journaling, ~fallbackSeen', Unsplit(nativeCode),
         NEW tr, NativeTrace(tr)
  PROVE  \E u : NativeTrace(u)'
  <1> DEFINE o == nativeCode.ops[pos]
             new == [acc |-> acc', mem |-> mem', count |-> Len(reads'), mmio |-> nativeMmio']
  <1>0. PICK u : u = [i \in 1 .. pos + 1 |-> IF i <= pos THEN tr[i] ELSE new]
    OBVIOUS
  <1>1. /\ phase = "native" /\ pos \in Nat /\ 1 <= pos /\ pos' = pos + 1
        /\ UNCHANGED <<nativeCode, journaling, snapshot>>
        /\ IsSeq(reads) /\ device \in Val /\ mem = [l \in Loc |-> mem[l]]
    BY DEF NativeStep, blockVars, AlarmInv, Observed, CleanInv, KeptInv, Shapes, Complete
  <1>2. o.op \notin SplitAccess \cup {"fallback"}
    <2>1. o.op = "fallback" => fallbackSeen' = (fallbackSeen \/ journaling)
      BY DEF NativeStep
    <2>2. fallbackSeen' # (fallbackSeen \/ journaling)
      BY Zenon
    <2>3. o.op \notin SplitAccess
      BY <1>1 DEF NativeStep, Unsplit
    <2> QED BY <2>1, <2>2, <2>3
  <1>3. Undone' = Undone
    <2>1. UNCHANGED <<mem, pre>> \/ \E k, v : NativeStore(k, v)
      BY DEF NativeStep, NativeRead, NativeWrite
    <2> QED BY <1>1, <2>1, NativeStoreUndone DEF Undone, Overlay
  <1>4. /\ IsRun(tr, pos, nativeCode.ops, reads) /\ tr[1].acc = snapshot.acc /\ tr[1].mem = Undone
        /\ At(tr[pos], acc, mem, Len(reads), nativeMmio)
    BY DEF NativeTrace
  <1>5. (reads' = reads /\ o.op # "hwread") \/ (o.op = "hwread" /\ reads' = reads \o Whole(device))
    BY <1>2 DEF NativeStep, NativeRead, NativeWrite, SplitAccess
  <1>6. /\ Len(reads) \in Nat /\ Len(reads') \in Nat /\ (o.op # "hwread" => Len(reads') = Len(reads))
        /\ o.op = "hwread" => /\ Len(reads') = Len(reads) + 1 /\ reads'[Len(reads) + 1].data = device
                              /\ reads'[Len(reads) + 1].offset = 0
    <2>1. /\ IsSeq(Whole(device)) /\ Len(Whole(device)) = 1
          /\ Whole(device)[1].data = device /\ Whole(device)[1].offset = 0
      BY Accesses
    <2>2. /\ Len(reads) \in Nat /\ Len(reads \o Whole(device)) = Len(reads) + 1
          /\ (reads \o Whole(device))[Len(reads) + 1] = Whole(device)[1]
      <3>1. IsSeq(reads)
        BY <1>1
      <3>2. PICK R, W : R = reads /\ W = Whole(device)
        OBVIOUS
      <3>3. Len(R) \in Nat /\ Len(R \o W) = Len(R) + 1 /\ (R \o W)[Len(R) + 1] = W[1]
        BY <2>1, <3>1, <3>2, JoinedOne
      <3> QED BY <3>2, <3>3
    <2> QED BY <1>5, <2>1, <2>2
  <1>7. Does(o, tr[pos], new, reads')
    <2>1. /\ tr[pos].acc = acc /\ tr[pos].mem = mem /\ tr[pos].count = Len(reads)
          /\ tr[pos].mmio = nativeMmio
      BY <1>4 DEF At
    <2>2. /\ new.acc = acc' /\ new.mem = mem' /\ new.count = Len(reads') /\ new.mmio = nativeMmio'
      OBVIOUS
    <2> HIDE DEF new
    <2>3. new.acc = IF o.op = "bump" THEN Plus1(mem[o.loc])
                    ELSE IF o.op = "hwread" THEN reads'[Len(reads) + 1].data ELSE acc
      BY <1>2, <1>6, <2>2 DEF NativeStep, NativeRead, NativeWrite, SplitAccess
    <2>4. new.mem = IF o.op = "store" THEN [mem EXCEPT ![o.loc] = acc]
                    ELSE IF o.op = "bump" THEN [mem EXCEPT ![o.loc] = Plus1(mem[o.loc])] ELSE mem
      BY <1>2, <2>2 DEF NativeStep, NativeStore, NativeRead, NativeWrite, SplitAccess
    <2>5. new.mmio = IF o.op = "hwwrite" THEN nativeMmio \o Whole(acc) ELSE nativeMmio
      BY <1>2, <2>2 DEF NativeStep, NativeRead, NativeWrite, SplitAccess
    <2>6. /\ new.count = IF o.op = "hwread" THEN Len(reads) + 1 ELSE Len(reads)
          /\ o.op = "hwread" => Len(reads) < Len(reads') /\ reads'[Len(reads) + 1].offset = 0
      BY <1>6, <2>2
    <2> QED BY <1>2, <2>1, <2>3, <2>4, <2>5, <2>6 DEF Does
  <1>8. \A i \in 1 .. pos : i < pos => Does(nativeCode.ops[i], tr[i], tr[i + 1], reads')
    <2>1. \A i \in 1 .. pos : i < pos => Does(nativeCode.ops[i], tr[i], tr[i + 1], reads) /\ tr[i].count \in Nat
      BY <1>4 DEF IsRun
    <2>2. IsSeq(Whole(device))
      BY Accesses
    <2> QED BY <1>1, <1>5, <2>1, <2>2, RunLonger
  <1>9. /\ \A i \in 1 .. pos : u[i] = tr[i]
        /\ u[pos + 1] = new /\ 1 \in 1 .. pos
    BY <1>0, <1>1
  <1>10. /\ new.acc = acc' /\ new.mem = mem' /\ new.count = Len(reads') /\ new.mmio = nativeMmio'
    OBVIOUS
  <1> HIDE DEF new
  <1>11. /\ u[1].count = 0 /\ u[1].mmio = <<>> /\ u[1].acc = snapshot.acc /\ u[1].mem = Undone
    BY <1>4, <1>9 DEF IsRun
  <1>12. \A i \in 1 .. pos + 1 : u[i].count \in Nat
    <2>1. \A i \in 1 .. pos : u[i].count \in Nat
      BY <1>4, <1>9 DEF IsRun
    <2>2. u[pos + 1].count \in Nat
      BY <1>6, <1>9, <1>10
    <2> QED BY <1>1, <2>1, <2>2
  <1>13. \A i \in 1 .. pos + 1 : i < pos + 1 => Does(nativeCode.ops[i], u[i], u[i + 1], reads')
    <2> SUFFICES ASSUME NEW i \in 1 .. pos PROVE Does(nativeCode.ops[i], u[i], u[i + 1], reads')
      BY <1>1
    <2>1. CASE i < pos
      <3>1. i + 1 \in 1 .. pos
        BY <1>1, <2>1
      <3>2. u[i] = tr[i] /\ u[i + 1] = tr[i + 1]
        BY <1>9, <3>1
      <3>3. Does(nativeCode.ops[i], tr[i], tr[i + 1], reads')
        BY <1>8, <2>1
      <3> QED BY <3>2, <3>3
    <2>2. CASE i = pos
      <3>1. pos \in 1 .. pos
        BY <1>1
      <3> QED BY <1>7, <1>9, <2>2, <3>1
    <2> QED BY <1>1, <2>1, <2>2
  <1>14. NativeTrace(u)'
    BY <1>1, <1>3, <1>9, <1>10, <1>11, <1>12, <1>13 DEF NativeTrace, IsRun, At
  <1> QED BY <1>14

\* Native's steps keep the trace.
LEMMA NativeAlarm ==
  ASSUME Journaled = Loc, AlarmInv, NativeStep
  PROVE  Observed' /\ Traced' /\ NoFalseAlarm'
  <1>1. /\ phase = "native" /\ pos <= Len(nativeCode.ops) /\ pos' = pos + 1
        /\ UNCHANGED <<phase, nativeCode, guestCode, journaling, interpMmio, outcome>>
        /\ pos \in 1 .. Len(nativeCode.ops) + 1 /\ Len(nativeCode.ops) > 0 /\ Len(nativeCode.ops) \in Nat
        /\ outcome = "none" /\ device \in Val
        /\ journaling => interpMmio = <<>> /\ IsSeq(reads) /\ DOMAIN pre \subseteq Loc
    BY DEF NativeStep, blockVars, AlarmInv, Observed, CleanInv, Complete, KeptInv, Shapes
  <1>2. device' \in Val
    BY <1>1, ValFacts DEF NativeStep, NativeRead, NativeWrite
  <1>3. journaling => IsSeq(reads')
    <2>1. reads' = reads \/ \E w \in {Whole(device), Truncated(device), Pair(device)} : reads' = reads \o w
      BY DEF NativeStep, NativeRead, NativeWrite
    <2>2. \A w \in {Whole(device), Truncated(device), Pair(device)} : IsSeq(w)
      BY Accesses
    <2> QED BY <1>1, <2>1, <2>2, Joined
  <1>4. journaling => DOMAIN pre' \subseteq Loc
    <2>1. pre' = pre \/ \E l : l \in Loc /\ pre' = emplace(pre, l, mem[l])
      BY DEF NativeStep, NativeStore, NativeRead, NativeWrite, Journal
    <2> QED BY <1>1, <2>1 DEF emplace
  <1>5. Observed'
    BY <1>1, <1>2, <1>3, <1>4 DEF Observed
  <1>6. journaling /\ ~fallbackSeen' => ~fallbackSeen
    BY DEF NativeStep, NativeRead, NativeWrite
  <1>7. Traced'
    BY <1>1, <1>6, NativeExtends DEF Traced, AlarmInv
  <1> QED BY <1>1, <1>5, <1>7 DEF NoFalseAlarm

\* A block that is not checked raises no alarm.
LEMMA EndAlarm ==
  ASSUME AlarmInv, EndUnchecked \/ VerifySkip
  PROVE  Observed' /\ Traced' /\ NoFalseAlarm'
  <1>1. phase = "native" /\ phase' = "idle" /\ UNCHANGED device /\ outcome' # "diverge"
    BY DEF EndUnchecked, VerifySkip, NativeDone, machineVars, AlarmInv, CleanInv, Complete
  <1> QED BY <1>1 DEF AlarmInv, Observed, Traced, NoFalseAlarm

\* The shadow starts at the beginning of native's run.
LEMMA BeginAlarm ==
  ASSUME AlarmInv, VerifyBegin
  PROVE  Observed' /\ Traced' /\ NoFalseAlarm'
  <1> DEFINE L == Len(nativeCode.ops)
  <1>1. /\ phase = "native" /\ journaling /\ ~fallbackSeen /\ pos > L /\ phase' = "shadow"
        /\ UNCHANGED <<nativeCode, guestCode, pos, acc, device, snapshot, reads, nativeMmio,
                       interpMmio, outcome>>
        /\ post' = [l \in DOMAIN pre |-> mem[l]] /\ mem' = Undone /\ left' = Machine
        /\ shadow' = [NoShadow EXCEPT !.acc = snapshot.acc, !.aux = snapshot.aux]
    BY DEF VerifyBegin, NativeDone, blockVars
  <1>2. /\ pos = L + 1 /\ L \in Nat /\ L > 0 /\ outcome = "none" /\ device \in Val
        /\ interpMmio = <<>> /\ DOMAIN pre \subseteq Loc
    BY <1>1 DEF AlarmInv, Observed, CleanInv, Complete, KeptInv, Shapes
  <1>3. /\ shadow'.acc = snapshot.acc /\ shadow'.pos = 1 /\ shadow'.steps = 0 /\ shadow'.readIndex = 0
        /\ ~shadow'.readOverflow /\ ~shadow'.trapped /\ ~shadow'.atEnd
    BY <1>1 DEF NoShadow
  <1>4. left'.mem = mem
    BY <1>1 DEF Machine
  <1>5. Observed'
    <2>1. DOMAIN NoShadow = Fields
      BY DEF NoShadow, Fields
    <2>2. DOMAIN shadow' = DOMAIN NoShadow /\ DOMAIN post' = DOMAIN pre
      BY <1>1
    <2> QED BY <1>1, <1>2, <2>1, <2>2 DEF Observed
  <1>6. ASSUME Unsplit(nativeCode) PROVE OnTrace'
    <2>1. PICK tr : NativeTrace(tr)
      BY <1>1, <1>6 DEF AlarmInv, Traced
    <2>2. ShadowTrace(tr)'
      BY <1>1, <1>2, <1>3, <1>4, <2>1 DEF NativeTrace, ShadowTrace, At, IsRun
    <2> QED BY <1>1, <1>2, <1>3, <2>2 DEF OnTrace
  <1> QED BY <1>1, <1>2, <1>5, <1>6 DEF Traced, NoFalseAlarm

\* The same operation takes the shadow to the next state of native's run.
LEMMA ShadowAlarm ==
  ASSUME AlarmInv, ShadowStep
  PROVE  Observed' /\ Traced' /\ NoFalseAlarm'
  <1> DEFINE L == Len(nativeCode.ops)
             p == shadow.pos
             o == nativeCode.ops[p]
  <1>1. /\ phase = "shadow" /\ outcome = "none"
        /\ UNCHANGED <<phase, nativeCode, guestCode, pos, acc, post, reads, nativeMmio, outcome, left>>
    BY DEF ShadowStep, ShadowRunning, blockVars, AlarmInv, CleanInv, Complete
  <1>2. Observed'
    <2>1. /\ DOMAIN shadow = Fields /\ device \in Val /\ DOMAIN post \subseteq Loc
          /\ pos \in 1 .. L + 1 /\ L > 0
      BY <1>1 DEF AlarmInv, Observed
    <2>2. device' \in Val
      BY <2>1, ValFacts DEF ShadowStep
    <2>3. \E end : DOMAIN shadow' = DOMAIN Stepped(end)
      BY DEF ShadowStep, ReplayRead
    <2>4. \A end : DOMAIN Stepped(end) = Fields
      BY <2>1, SteppedFields
    <2> QED BY <1>1, <2>1, <2>2, <2>3, <2>4 DEF Observed
  <1>3. ASSUME nativeCode = guestCode, Unsplit(nativeCode), nativeCode.through = {} PROVE OnTrace'
    <2>1. /\ ~shadow.readOverflow /\ ~shadow.trapped
          /\ p \in 1 .. L + 1 /\ shadow.steps = p - 1 /\ L \in Nat /\ L > 0
          /\ nativeCode.ops \in Seq(Op) /\ (shadow.atEnd <=> p = L + 1)
      BY <1>1, <1>3 DEF AlarmInv, Traced, OnTrace, Observed, CleanInv, KeptInv, Shapes
    <2>2. PICK tr : ShadowTrace(tr)
      BY <1>1, <1>3 DEF AlarmInv, Traced, OnTrace
    <2>3. p \in 1 .. L
      BY <1>3, <2>1 DEF ShadowStep, ShadowRunning, AtEndPc
    <2>4. ShadowOps = {o} /\ o \in Op /\ \A end \in Arrives : end <=> p = L
      <3>1. ShadowOps = {o} /\ o \in Op
        BY <1>3, <2>1, <2>3 DEF ShadowOps
      <3>2. CASE p < L
        <4>1. Arrives = {shadow.pos \in guestCode.through}
          BY <1>3, <3>2 DEF Arrives
        <4>2. ~(shadow.pos \in guestCode.through)
          BY <1>3
        <4>3. \A end \in Arrives : ~end
          BY <4>1, <4>2, Zenon
        <4> QED BY <2>3, <3>1, <3>2, <4>3
      <3>3. CASE p = L
        <4>1. Arrives = {guestCode.exit = nativeCode.exit}
          BY <1>3, <2>1, <3>3 DEF Arrives
        <4>2. \A end \in Arrives : end
          BY <1>3, <4>1, Zenon
        <4> QED BY <3>1, <3>3, <4>2
      <3> QED BY <2>1, <2>3, <3>2, <3>3
    <2>5. /\ Does(o, tr[p], tr[p + 1], reads) /\ tr[p].count \in Nat
          /\ tr[p].acc = shadow.acc /\ tr[p].mem = mem /\ tr[p].count = shadow.readIndex
          /\ tr[p].mmio = interpMmio
      BY <2>1, <2>2, <2>3 DEF ShadowTrace, IsRun, At
    <2>6. o.op \in {"nop", "store", "bump", "hwread", "hwwrite", "mtspr"}
      BY <2>4, <2>5, OpKinds DEF Does
    <2>7. o.op = "hwread" => shadow.readIndex < Len(reads) /\ reads[shadow.readIndex + 1].offset = 0
      BY <2>5 DEF Does
    <2>8. /\ shadow'.pos = p + 1 /\ shadow'.steps = shadow.steps + 1
          /\ ~shadow'.readOverflow /\ ~shadow'.trapped /\ (shadow'.atEnd <=> p = L)
          /\ shadow'.acc = tr[p + 1].acc /\ shadow'.readIndex = tr[p + 1].count
          /\ mem' = tr[p + 1].mem /\ interpMmio' = tr[p + 1].mmio
      <3>1. /\ mem' = IF o.op = "store" THEN [mem EXCEPT ![o.loc] = shadow.acc]
                      ELSE IF o.op = "bump" THEN [mem EXCEPT ![o.loc] = Plus1(mem[o.loc])] ELSE mem
            /\ interpMmio' = IF o.op = "hwwrite" THEN interpMmio \o Whole(shadow.acc) ELSE interpMmio
        BY <2>4, <2>6 DEF ShadowStep, ShadowStore, Captured
      <3>2. PICK end \in Arrives :
              /\ o.op = "bump" => shadow' = [Stepped(end) EXCEPT !.acc = Plus1(mem[o.loc])]
              /\ o.op = "hwread" => ReplayRead(end)
              /\ o.op = "mtspr" => shadow' = [Stepped(end) EXCEPT !.aux = shadow.acc]
              /\ o.op \notin {"bump", "hwread", "mtspr"} => shadow' = Stepped(end)
        BY <2>4, <2>6 DEF ShadowStep
      <3>3. /\ DOMAIN Stepped(end) = Fields /\ Stepped(end).pos = p + 1 /\ Stepped(end).steps = shadow.steps + 1
            /\ Stepped(end).acc = shadow.acc /\ Stepped(end).readIndex = shadow.readIndex
            /\ Stepped(end).readOverflow = shadow.readOverflow /\ Stepped(end).trapped = shadow.trapped
            /\ Stepped(end).atEnd = end
        BY <1>1, SteppedFields DEF AlarmInv, Observed
      <3>4. /\ tr[p + 1].mem = mem' /\ tr[p + 1].mmio = interpMmio'
            /\ tr[p + 1].acc = IF o.op = "bump" THEN Plus1(mem[o.loc])
                               ELSE IF o.op = "hwread" THEN reads[shadow.readIndex + 1].data ELSE shadow.acc
            /\ tr[p + 1].count = IF o.op = "hwread" THEN shadow.readIndex + 1 ELSE shadow.readIndex
        BY <2>5, <3>1 DEF Does
      <3>5. end <=> p = L
        BY <2>4
      <3>6. CASE o.op = "bump"
        <4>1. shadow' = [Stepped(end) EXCEPT !.acc = Plus1(mem[o.loc])]
          BY <3>2, <3>6
        <4>2. /\ shadow'.acc = Plus1(mem[o.loc]) /\ shadow'.atEnd = end
              /\ shadow'.pos = p + 1 /\ shadow'.steps = shadow.steps + 1 /\ shadow'.readIndex = shadow.readIndex
              /\ shadow'.readOverflow = shadow.readOverflow /\ shadow'.trapped = shadow.trapped
          BY <3>3, <4>1, LoadFields
        <4> QED BY <2>1, <3>4, <3>5, <3>6, <4>2
      <3>7. CASE o.op = "hwread"
        <4>1. PICK b : b = (Stepped(end).readOverflow \/ reads[shadow.readIndex + 1].offset # 0)
          OBVIOUS
        <4>2. ~b
          BY <2>1, <2>7, <3>3, <3>7, <4>1
        <4>3. shadow' = [Stepped(end) EXCEPT !.acc = reads[shadow.readIndex + 1].data, !.readIndex = @ + 1,
                                             !.readOverflow = b]
          BY <2>7, <3>2, <3>7, <4>1 DEF ReplayRead
        <4>4. /\ shadow'.acc = reads[shadow.readIndex + 1].data /\ shadow'.atEnd = end
              /\ shadow'.pos = p + 1 /\ shadow'.steps = shadow.steps + 1 /\ shadow'.readIndex = shadow.readIndex + 1
              /\ shadow'.readOverflow = b /\ shadow'.trapped = shadow.trapped
          BY <3>3, <4>3, ReadFields
        <4> QED BY <2>1, <3>4, <3>5, <3>7, <4>2, <4>4
      <3>8. CASE o.op = "mtspr"
        <4>1. shadow' = [Stepped(end) EXCEPT !.aux = shadow.acc]
          BY <3>2, <3>8
        <4>2. /\ shadow'.acc = shadow.acc /\ shadow'.atEnd = end
              /\ shadow'.pos = p + 1 /\ shadow'.steps = shadow.steps + 1 /\ shadow'.readIndex = shadow.readIndex
              /\ shadow'.readOverflow = shadow.readOverflow /\ shadow'.trapped = shadow.trapped
          BY <3>3, <4>1, MoveFields
        <4> QED BY <2>1, <3>4, <3>5, <3>8, <4>2
      <3>9. CASE o.op \notin {"bump", "hwread", "mtspr"}
        BY <2>1, <3>2, <3>3, <3>4, <3>5, <3>9
      <3> QED BY <3>6, <3>7, <3>8, <3>9
    <2>9. ShadowTrace(tr)'
      BY <1>1, <2>2, <2>8 DEF ShadowTrace, At, IsRun
    <2> QED BY <1>1, <2>1, <2>3, <2>8, <2>9 DEF OnTrace
  <1> QED BY <1>1, <1>2, <1>3 DEF Traced, NoFalseAlarm

\* At the end of native's run there is nothing to report.
LEMMA FinishAlarm ==
  ASSUME AlarmInv, LockstepFinish
  PROVE  Observed' /\ Traced' /\ NoFalseAlarm'
  <1> DEFINE L == Len(nativeCode.ops)
  <1>1. /\ phase = "shadow" /\ phase' = "idle" /\ ~ShadowRunning
        /\ UNCHANGED <<nativeCode, guestCode, device>>
        /\ outcome' = "diverge" => Differs
    BY DEF LockstepFinish, blockVars
  <1>2. ASSUME nativeCode = guestCode, Comparable(guestCode) PROVE ~Differs
    <2>0. L <= StepCap /\ Unsplit(nativeCode) /\ nativeCode.through = {}
      BY <1>2 DEF Comparable, Unsplit
    <2>1. /\ ~shadow.readOverflow /\ ~shadow.trapped /\ shadow.pos \in 1 .. L + 1
          /\ shadow.steps = shadow.pos - 1 /\ L \in Nat /\ L > 0
          /\ shadow.atEnd <=> shadow.pos = L + 1
      BY <1>1, <1>2, <2>0 DEF AlarmInv, Traced, OnTrace, Observed, CleanInv, KeptInv, Shapes
    <2>2. PICK tr : ShadowTrace(tr)
      BY <1>1, <1>2, <2>0 DEF AlarmInv, Traced, OnTrace
    <2>3. shadow.pos = L + 1 /\ Reached
      <3>1. StepCap \in Nat
        BY LockstepAssumption
      <3> QED BY <1>1, <2>0, <2>1, <3>1 DEF ShadowRunning, AtEndPc, Reached
    <2>4. /\ acc = shadow.acc /\ mem = left.mem /\ nativeMmio = interpMmio
      BY <2>2, <2>3 DEF ShadowTrace, At
    <2>5. \A l \in DOMAIN post : post[l] = left.mem[l]
      BY <1>1 DEF AlarmInv, Observed, CleanInv, Complete
    <2> QED BY <2>1, <2>3, <2>4, <2>5 DEF Differs
  <1>3. NoFalseAlarm'
    BY <1>1, <1>2 DEF NoFalseAlarm, Comparable
  <1> QED BY <1>1, <1>3 DEF AlarmInv, Observed, Traced

\* Every step keeps the trace.
LEMMA StepAlarm ==
  ASSUME Journaled = Loc, AlarmInv, [LockstepNext]_lockstepVars
  PROVE  AlarmInv'
  <1>1. CleanInv'
    BY StepClean DEF AlarmInv
  <1>2. Observed' /\ Traced' /\ NoFalseAlarm'
    <2>1. CASE UNCHANGED lockstepVars
      <3>1. UNCHANGED <<phase, block, nativeCode, guestCode, pos, mem, acc, device, journaling, snapshot,
                        fallbackSeen, pre, post, reads, nativeMmio, interpMmio, shadow, outcome, left>>
        BY <2>1 DEF lockstepVars, blockVars, machineVars, journalVars, historyVars
      <3>2. \A tr : (NativeTrace(tr)' <=> NativeTrace(tr)) /\ (ShadowTrace(tr)' <=> ShadowTrace(tr))
        BY <3>1 DEF NativeTrace, ShadowTrace, Undone, Overlay
      <3> QED BY <3>1, <3>2 DEF AlarmInv, Observed, Traced, OnTrace, NoFalseAlarm
    <2>2. CASE \E n \in 1 .. MaxBlockLen - pos + 1 : \E b \in Block, c \in Code(n), k \in Charge :
                  \E g \in GuestCodes(c) : Dispatch(b, c, g, k)
      BY <2>2, DispatchAlarm
    <2> QED BY <2>1, <2>2, NativeAlarm, EndAlarm, BeginAlarm, ShadowAlarm, FinishAlarm DEF LockstepNext
  <1> QED BY <1>1, <1>2 DEF AlarmInv

\* A comparable block (it fits the step cap, meets its end address only at the end
\* and splits no hardware access) that was translated correctly is never reported:
\* undoing native's stores, replaying its reads and capturing the writes make the
\* interpreter repeat its run.
THEOREM NoAlarmIsFalse ==
  ASSUME Journaled = Loc
  PROVE  LockstepSpec => []NoFalseAlarm
  <1>1. LockstepInit => AlarmInv
    BY InitAlarm
  <1>2. AlarmInv /\ [LockstepNext]_lockstepVars => AlarmInv'
    BY StepAlarm
  <1>3. AlarmInv => NoFalseAlarm
    BY DEF AlarmInv
  <1> QED BY <1>1, <1>2, <1>3, PTL DEF LockstepSpec
=============================================================================
