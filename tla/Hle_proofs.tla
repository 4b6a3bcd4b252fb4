----------------------------- MODULE Hle_proofs -----------------------------
(***************************************************************************)
(* GXRuntime's memory card and the callback ring of its asynchronous       *)
(* calls.  The ring is a queue and the saved context is the interrupted    *)
(* one, for every ring size: its indices wrap around, so the proof first   *)
(* says what the remainder is within one turn.  The card's directory stays *)
(* usable, and the card keeps the promise of DurableCard, for every number *)
(* of entries, names and blocks.                                           *)
(***************************************************************************)
EXTENDS CallbackQueue, MemoryCard, FiniteSetTheorems, WellFoundedInduction, TLAPS

Wrap(x) == x % RingSize

\* The slot of the i-th callback when the first is in slot r.
SlotAt(r, i) == Wrap(r + i - 1)

\* An index taken at most one turn too far is brought back by one turn.
LEMMA OneTurn ==
  ASSUME NEW x \in 0 .. 2 * RingSize - 1
  PROVE  Wrap(x) = IF x < RingSize THEN x ELSE x - RingSize
  BY RingAssumption DEF Wrap

QueueInv == RingTypeOK /\ RingIsQueue /\ ContextKept

\* Slots are in the ring, and two callbacks have two slots.
LEMMA SlotsApart ==
  ASSUME NEW r \in Index, NEW i \in 1 .. RingSize, NEW j \in 1 .. RingSize
  PROVE  SlotAt(r, i) \in Index /\ (i # j => SlotAt(r, i) # SlotAt(r, j))
  <1>1. r + i - 1 \in 0 .. 2 * RingSize - 1 /\ r + j - 1 \in 0 .. 2 * RingSize - 1
    BY RingAssumption DEF Index
  <1> QED BY <1>1, OneTurn, RingAssumption DEF Index, SlotAt

\* Moving the read position on by one renumbers the slots.
LEMMA SlotsMoveOn ==
  ASSUME NEW r \in Index, NEW i \in 1 .. RingSize - 1
  PROVE  SlotAt(Wrap(r + 1), i) = SlotAt(r, i + 1)
  <1>1. r + 1 \in 0 .. 2 * RingSize - 1 /\ r + (i + 1) - 1 \in 0 .. 2 * RingSize - 1
    BY RingAssumption DEF Index
  <1>2. Wrap(r + 1) = IF r + 1 < RingSize THEN r + 1 ELSE 0
    BY <1>1, OneTurn, RingAssumption DEF Index
  <1>3. Wrap(r + 1) + i - 1 \in 0 .. 2 * RingSize - 1
    BY <1>2, RingAssumption DEF Index
  <1> QED BY <1>1, <1>2, <1>3, OneTurn, RingAssumption DEF Index, SlotAt

\* dol_hle_init leaves an empty ring and no callback under way.
LEMMA InitQueue == CallbackInit => QueueInv
  <1> SUFFICES ASSUME CallbackInit PROVE QueueInv OBVIOUS
  <1>1. RingTypeOK
    <2>1. callbackActive \in BOOLEAN
      BY DEF CallbackInit
    <2>2. ring \in [Index -> Callback \cup {NoCallback}] /\ ringRead \in Index /\ ringCount \in 0 .. RingSize
      BY RingAssumption DEF CallbackInit, Index
    <2> QED BY <2>1, <2>2 DEF CallbackInit, RingTypeOK, CpuContext
  <1> QED BY <1>1, RingAssumption DEF CallbackInit, QueueInv, RingIsQueue, ContextKept

\* A call that queues its callback writes the slot behind the last one.
LEMMA AsyncKeeps ==
  ASSUME QueueInv, NEW a \in Callback \cup {NoCallback}, NEW ok \in BOOLEAN, AsyncCall(a, ok)
  PROVE  QueueInv'
  <1> USE RingAssumption
  <1>1. UNCHANGED <<callbackActive, callbackContext, cpu, parked, stack>>
    BY DEF AsyncCall
  <1>2. ContextKept'
    BY <1>1 DEF QueueInv, ContextKept
  <1>3. told' \in {"ready", "io_error", "card_error"}
    BY DEF AsyncCall
  <1>4. CASE UNCHANGED <<ringVars, owed>>
    BY <1>1, <1>2, <1>3, <1>4 DEF ringVars, QueueInv, RingTypeOK, RingIsQueue
  <1>5. CASE /\ ok /\ a # NoCallback /\ ringCount < RingSize
             /\ ring' = [ring EXCEPT ![WriteIndex] = a]
             /\ ringCount' = ringCount + 1
             /\ owed' = Append(owed, a)
             /\ UNCHANGED ringRead
    <2>1. /\ ringRead \in Index /\ ringCount \in 0 .. RingSize /\ owed \in Seq(Callback) /\ a \in Callback
          /\ ringCount = Len(owed) /\ ring \in [Index -> Callback \cup {NoCallback}]
      BY <1>5 DEF QueueInv, RingTypeOK, RingIsQueue
    <2>2. ringCount + 1 \in 1 .. RingSize /\ ringRead + (ringCount + 1) - 1 = ringRead + ringCount
      BY <1>5, <2>1 DEF Index
    <2>3. WriteIndex = SlotAt(ringRead, ringCount + 1) /\ WriteIndex \in Index
      BY <2>1, <2>2, SlotsApart DEF WriteIndex, SlotAt, Wrap
    <2>4. \A i \in 1 .. ringCount : SlotAt(ringRead, i) \in Index /\ SlotAt(ringRead, i) # WriteIndex
      BY <2>1, <2>2, <2>3, SlotsApart
    <2>5. ring' \in [Index -> Callback \cup {NoCallback}] /\ ring'[WriteIndex] = a
          /\ \A k \in Index : k # WriteIndex => ring'[k] = ring[k]
      BY <1>5, <2>1, <2>3
    <2>6. /\ owed' \in Seq(Callback) /\ Len(owed') = ringCount + 1 /\ owed'[ringCount + 1] = a
          /\ \A i \in 1 .. ringCount : owed'[i] = owed[i]
      BY <1>5, <2>1
    <2>7. \A i \in 1 .. ringCount : ring[SlotAt(ringRead, i)] = owed[i]
      BY DEF QueueInv, RingIsQueue, SlotAt, Wrap
    <2>8. \A i \in 1 .. ringCount' : ring'[SlotAt(ringRead, i)] = owed'[i]
      BY <1>5, <2>1, <2>3, <2>4, <2>5, <2>6, <2>7
    <2>9. RingIsQueue'
      BY <1>5, <2>6, <2>8 DEF RingIsQueue, SlotAt, Wrap
    <2>10. ringCount' \in 0 .. RingSize
      BY <1>5, <2>1
    <2> QED BY <1>1, <1>2, <1>3, <1>5, <2>5, <2>6, <2>9, <2>10 DEF QueueInv, RingTypeOK
  <1> QED BY <1>4, <1>5 DEF AsyncCall

\* A poll takes the first callback and saves the context it interrupts.
LEMMA PollKeeps ==
  ASSUME QueueInv, dol_hle_poll_callback
  PROVE  QueueInv'
  <1> USE RingAssumption
  <1>1. /\ ~callbackActive /\ ringCount > 0
        /\ ringRead' = (ringRead + 1) % RingSize /\ ringCount' = ringCount - 1
        /\ callbackContext' = cpu /\ callbackActive' = TRUE /\ cpu' = ring[ringRead]
        /\ owed' = Tail(owed) /\ stack' = Append(stack, cpu) /\ UNCHANGED <<ring, parked, told>>
    BY DEF dol_hle_poll_callback, EnterCallback
  <1>2. /\ ringRead \in Index /\ ringCount \in 1 .. RingSize /\ owed \in Seq(Callback)
        /\ ringCount = Len(owed) /\ ring \in [Index -> Callback \cup {NoCallback}]
        /\ cpu \in CpuContext /\ stack \in Seq(CpuContext)
    BY <1>1 DEF QueueInv, RingTypeOK, RingIsQueue
  <1>3. ContextKept'
    <2>1. Len(stack) = 0
      BY <1>1 DEF QueueInv, ContextKept
    <2>2. Len(stack') = 1 /\ stack'[1] = cpu
      BY <1>1, <1>2, <2>1
    <2> QED BY <1>1, <2>2 DEF ContextKept
  <1>4. ring[ringRead] \in Callback
    <2>1. SlotAt(ringRead, 1) = ringRead
      BY <1>2, OneTurn DEF Index, SlotAt
    <2>2. ring[SlotAt(ringRead, 1)] = owed[1]
      BY <1>2 DEF QueueInv, RingIsQueue, SlotAt, Wrap
    <2> QED BY <1>2, <2>1, <2>2
  <1>5. /\ owed' \in Seq(Callback) /\ Len(owed') = ringCount - 1
        /\ \A i \in 1 .. ringCount - 1 : owed'[i] = owed[i + 1]
    BY <1>1, <1>2
  <1>6. ringRead' \in Index
    <2>1. ringRead + 1 \in 0 .. 2 * RingSize - 1
      BY <1>2 DEF Index
    <2>2. Wrap(ringRead + 1) \in Index
      BY <1>2, <2>1, OneTurn DEF Index
    <2> QED BY <1>1, <2>2 DEF Wrap
  <1>7. \A i \in 1 .. ringCount - 1 : ring[(ringRead' + i - 1) % RingSize] = owed[i + 1]
    <2> SUFFICES ASSUME NEW i \in 1 .. ringCount - 1
                 PROVE  ring[(ringRead' + i - 1) % RingSize] = owed[i + 1]
      OBVIOUS
    <2>1. i \in 1 .. RingSize - 1 /\ i + 1 \in 1 .. ringCount
      BY <1>2
    <2>2. SlotAt(ringRead', i) = SlotAt(ringRead, i + 1)
      <3>1. ringRead' = Wrap(ringRead + 1)
        BY <1>1 DEF Wrap
      <3> QED BY <1>2, <2>1, <3>1, SlotsMoveOn
    <2>3. ring[SlotAt(ringRead, i + 1)] = owed[i + 1]
      BY <2>1 DEF QueueInv, RingIsQueue, SlotAt, Wrap
    <2> QED BY <2>2, <2>3 DEF SlotAt, Wrap
  <1>8. RingIsQueue'
    BY <1>1, <1>2, <1>5, <1>7 DEF RingIsQueue
  <1>9. stack' \in Seq(CpuContext) /\ ringCount' \in 0 .. RingSize /\ cpu' \in CpuContext
    BY <1>1, <1>2, <1>4 DEF CpuContext
  <1>10. callbackActive' \in BOOLEAN
    BY <1>1
  <1>11. RingTypeOK'
    BY <1>1, <1>2, <1>5, <1>6, <1>9, <1>10 DEF QueueInv, RingTypeOK
  <1> QED BY <1>3, <1>8, <1>11 DEF QueueInv

\* A callback that returns gives the saved context back.
LEMMA ReturnKeeps ==
  ASSUME QueueInv, CallbackReturns
  PROVE  QueueInv'
  <1>1. /\ callbackActive /\ cpu' = callbackContext /\ callbackActive' = FALSE
        /\ stack' = SubSeq(stack, 1, Len(stack) - 1)
        /\ UNCHANGED <<ringVars, callbackContext, parked, told, owed>>
    BY DEF CallbackReturns
  <1>2. stack \in Seq(CpuContext) /\ Len(stack) = 1
    BY <1>1 DEF QueueInv, RingTypeOK, ContextKept
  <1>3. Len(stack') = 0 /\ stack' \in Seq(CpuContext)
    BY <1>1, <1>2
  <1>4. callbackActive' \in BOOLEAN
    BY <1>1
  <1>5. RingTypeOK'
    BY <1>1, <1>3, <1>4 DEF QueueInv, RingTypeOK, ringVars
  <1> QED BY <1>1, <1>3, <1>5 DEF QueueInv, RingIsQueue, ContextKept, ringVars

\* The guest's own blocks and switches do not touch the ring or the saved context.
LEMMA GuestKeeps ==
  ASSUME QueueInv, NEW c \in GuestContext, GuestBlock(c) \/ SwitchOut(c) \/ SwitchIn
  PROVE  QueueInv'
  <1>1. UNCHANGED <<ringVars, callbackActive, callbackContext, told, owed, stack>>
    BY DEF GuestBlock, SwitchOut, SwitchIn
  <1>2. cpu' \in CpuContext /\ parked' \in Callback \cup {NoCallback}
    BY DEF GuestBlock, SwitchOut, SwitchIn, QueueInv, RingTypeOK, CpuContext
  <1> QED BY <1>1, <1>2 DEF ringVars, QueueInv, RingTypeOK, RingIsQueue, ContextKept

\* Every step keeps the invariant.
LEMMA StepQueue == QueueInv /\ [CallbackNext]_callbackVars => QueueInv'
  <1> SUFFICES ASSUME QueueInv, [CallbackNext]_callbackVars PROVE QueueInv' OBVIOUS
  <1>1. CASE UNCHANGED callbackVars
    BY <1>1 DEF callbackVars, ringVars, QueueInv, RingTypeOK, RingIsQueue, ContextKept
  <1>2. CASE SwitchIn
    <2>1. PICK c \in GuestContext : TRUE
      BY RingAssumption
    <2> QED BY <1>2, <2>1, GuestKeeps
  <1> QED BY <1>1, <1>2, AsyncKeeps, PollKeeps, ReturnKeeps, GuestKeeps DEF CallbackNext

\* The invariant holds in every behaviour.
LEMMA QueueInvariant == CallbackSpec => []QueueInv
  BY InitQueue, StepQueue, PTL DEF CallbackSpec

\* For every ring size, the callbacks promised to the guest are run once each, in
\* the order of the calls (card_set_async_result, dol_hle_poll_callback).
THEOREM RingQueues == CallbackSpec => []RingIsQueue
  <1>1. QueueInv => RingIsQueue
    BY DEF QueueInv
  <1> QED BY <1>1, QueueInvariant, PTL

\* For every ring size and whatever the guest's scheduler does meanwhile, the
\* context a callback returns to is the one it interrupted.
THEOREM ContextIsKept == CallbackSpec => []ContextKept
  <1>1. QueueInv => ContextKept
    BY DEF QueueInv
  <1> QED BY <1>1, QueueInvariant, PTL
-----------------------------------------------------------------------------
(* The memory card                                                           *)

Directory == [Slot -> File \cup {NoFile}]
Containers == [kind : {"absent", "torn", "card"}, files : Directory]
Renaming == {"rename", "remove", "again"}

CardTypes ==
    /\ medium \in {"none", "safe", "lossy", "fickle"}
    /\ path \in Containers
    /\ powered \in BOOLEAN /\ opening \in BOOLEAN
    /\ files \in Directory /\ previous \in Directory
    /\ at \in {"ready", "temp", "write", "clean"} \cup Renaming

\* write_container runs on an open card with a path, for dol_card_open only where
\* there is no container or it may fail to open; its fallback is for hosts whose
\* rename fails.
WritingInv ==
    /\ at # "ready" => powered /\ medium # "none"
    /\ opening => at # "ready" /\ files = Formatted /\ previous = Formatted
    /\ opening => path.kind = "absent" \/ medium = "fickle"
    /\ at = "remove" => RenameFails
    /\ at \in Renaming => temp = Container(files)

\* What is being written is one call's change of what the caller would put back.
ChangeInv == at # "ready" => Durable!ChangesOne(previous, files) \/ files = Formatted

\* A card that is not open is empty, and an open one did not start from a container
\* that could not be read.
OpenInv ==
    /\ ~powered => files = Formatted
    /\ powered /\ ~opening /\ medium # "none" => path.kind # "torn"

UsableInv == Usable(files) /\ Usable(previous) /\ (path.kind = "card" => Usable(path.files))

CardInv == CardTypes /\ WritingInv /\ ChangeInv /\ OpenInv /\ UsableInv

\* The blocks of a set of entries, one by one.
Places(f, S) == UNION {{s} \X (1 .. f[s].blocks) : s \in S}

\* An entry in use holds a file, a free one nothing.
LEMMA EntryFacts ==
  ASSUME NEW f \in Directory
  PROVE  /\ Used(f) \in SUBSET Slot
         /\ \A s \in Slot : s \in Used(f) <=> f[s] \in File
         /\ \A s \in Slot : f[s].blocks \in Nat
         /\ \A s \in Slot : s \notin Used(f) => f[s] = NoFile
  <1>1. NoFile \notin File
    BY CardAssumption DEF NoFile, File
  <1>2. \A s \in Slot : f[s] \in File \/ f[s] = NoFile
    BY DEF Directory
  <1>3. Blocks \subseteq Nat
    BY CardAssumption
  <1>4. \A x \in File : x.blocks \in Nat
    BY <1>3 DEF File
  <1>5. NoFile.blocks \in Nat
    BY DEF NoFile
  <1> QED BY <1>1, <1>2, <1>4, <1>5 DEF Used

\* A pair with a fixed first component is told by its second.
LEMMA PairWith ==
  ASSUME NEW x, NEW K, NEW p
  PROVE  p \in {x} \X K <=> \E k \in K : p = <<x, k>>
  <1>1. ASSUME p \in {x} \X K PROVE \E k \in K : p = <<x, k>>
    BY <1>1
  <1>2. ASSUME NEW k \in K, p = <<x, k>> PROVE p \in {x} \X K
    BY <1>2
  <1> QED BY <1>1, <1>2

\* A block's place, as its entry and its number.
LEMMA PlaceOf ==
  ASSUME NEW f \in Directory, NEW S \in SUBSET Slot
  PROVE  \A p : p \in Places(f, S) <=> \E s \in S : \E k \in 1 .. f[s].blocks : p = <<s, k>>
  <1> SUFFICES ASSUME NEW p
               PROVE  p \in Places(f, S) <=> \E s \in S : \E k \in 1 .. f[s].blocks : p = <<s, k>>
    OBVIOUS
  <1>1. p \in Places(f, S) <=> \E s \in S : p \in {s} \X (1 .. f[s].blocks)
    BY Zenon DEF Places
  <1>2. ASSUME NEW s
        PROVE  p \in {s} \X (1 .. f[s].blocks) <=> \E k \in 1 .. f[s].blocks : p = <<s, k>>
    <2> DEFINE K == 1 .. f[s].blocks
    <2> HIDE DEF K
    <2>1. p \in {s} \X K <=> \E k \in K : p = <<s, k>>
      BY PairWith
    <2> QED BY <2>1 DEF K
  <1> QED BY <1>1, <1>2

\* One file has as many places as blocks.
LEMMA FilePlaces ==
  ASSUME NEW x, NEW n \in Nat
  PROVE  IsFiniteSet({x} \X (1 .. n)) /\ Cardinality({x} \X (1 .. n)) = n
  <1>1. IsFiniteSet(1 .. n) /\ Cardinality(1 .. n) = n
    BY FS_Interval
  <1>2. IsFiniteSet({x}) /\ Cardinality({x}) = 1
    BY FS_Singleton
  <1> QED BY <1>1, <1>2, FS_Product

\* The card has finitely many places.
LEMMA PlacesFinite ==
  ASSUME NEW f \in Directory, NEW S \in SUBSET Slot
  PROVE  IsFiniteSet(Places(f, S)) /\ Cardinality(Places(f, S)) \in Nat
  <1> DEFINE P(s) == {s} \X (1 .. f[s].blocks)
             T == {P(s) : s \in S}
             g == [s \in S |-> P(s)]
  <1>1. IsFiniteSet(S)
    BY CardAssumption, FS_Subset
  <1>2. IsFiniteSet(T)
    <2>1. g \in Surjection(S, T)
      BY DEF Surjection
    <2> HIDE DEF g, T
    <2> QED BY <1>1, <2>1, FS_Surjection
  <1>3. \A t \in T : IsFiniteSet(t)
    <2>1. ASSUME NEW s \in S PROVE IsFiniteSet(P(s))
      BY EntryFacts, FilePlaces
    <2> QED BY <2>1
  <1>4. Places(f, S) = UNION T
    BY DEF Places
  <1> HIDE DEF T
  <1> QED BY <1>2, <1>3, <1>4, FS_UNION, FS_CardinalityType

\* Fewer places are fewer blocks.
LEMMA FewerBlocks ==
  ASSUME NEW f \in Directory, NEW g \in Directory, NEW S \in SUBSET Slot, NEW T \in SUBSET S,
         \A s \in T : g[s].blocks = f[s].blocks
  PROVE  BlocksOf(g, T) <= BlocksOf(f, S)
  <1>1. Places(g, T) \in SUBSET Places(f, S)
    <2> SUFFICES ASSUME NEW p \in Places(g, T) PROVE p \in Places(f, S)
      OBVIOUS
    <2>1. PICK s \in T : \E k \in 1 .. g[s].blocks : p = <<s, k>>
      BY PlaceOf
    <2> QED BY <2>1, PlaceOf
  <1> QED BY <1>1, PlacesFinite, FS_Subset DEF BlocksOf, Places

\* A new file adds its blocks.
LEMMA MoreBlocks ==
  ASSUME NEW f \in Directory, NEW g \in Directory, NEW S \in SUBSET Slot, NEW x \in Slot, x \notin S,
         \A s \in S : g[s].blocks = f[s].blocks
  PROVE  BlocksOf(g, S \cup {x}) = BlocksOf(f, S) + g[x].blocks
  <1> DEFINE N == {x} \X (1 .. g[x].blocks)
             P == Places(f, S)
             Q == Places(g, S \cup {x})
  <1>1. g[x].blocks \in Nat /\ S \cup {x} \in SUBSET Slot
    BY EntryFacts
  <1>2. Q = P \cup N
    <2>1. ASSUME NEW p PROVE p \in Q <=> p \in P \/ p \in N
      <3>1. p \in Q <=> \E s \in S \cup {x} : \E k \in 1 .. g[s].blocks : p = <<s, k>>
        BY <1>1, PlaceOf
      <3>2. p \in P <=> \E s \in S : \E k \in 1 .. f[s].blocks : p = <<s, k>>
        BY PlaceOf
      <3>3. p \in N <=> \E k \in 1 .. g[x].blocks : p = <<x, k>>
        <4> DEFINE K == 1 .. g[x].blocks
        <4> HIDE DEF K
        <4>1. p \in {x} \X K <=> \E k \in K : p = <<x, k>>
          BY PairWith
        <4> QED BY <4>1 DEF K
      <3> HIDE DEF P, Q, N
      <3> QED BY <3>1, <3>2, <3>3
    <2> HIDE DEF P, Q, N
    <2> QED BY <2>1
  <1>3. P \cap N = {}
    <2> SUFFICES ASSUME NEW p \in P, p \in N PROVE FALSE
      OBVIOUS
    <2>1. PICK s \in S : \E k \in 1 .. f[s].blocks : p = <<s, k>>
      BY PlaceOf
    <2>2. p[1] = s /\ p[1] = x
      BY <2>1
    <2> QED BY <2>2
  <1>4. IsFiniteSet(P) /\ Cardinality(P) \in Nat
    BY PlacesFinite
  <1>5. IsFiniteSet(N) /\ Cardinality(N) = g[x].blocks
    BY <1>1, FilePlaces
  <1>6. BlocksOf(f, S) = Cardinality(P) /\ BlocksOf(g, S \cup {x}) = Cardinality(Q)
    BY DEF BlocksOf, Places
  <1> HIDE DEF P, Q, N
  <1>7. Cardinality(P \cup N) = Cardinality(P) + Cardinality(N) - Cardinality(P \cap N)
    BY <1>4, <1>5, FS_Union
  <1>8. Cardinality(P \cap N) = 0
    BY <1>3, FS_EmptySet
  <1> QED BY <1>1, <1>2, <1>4, <1>5, <1>6, <1>7, <1>8

\* An empty card is usable.
LEMMA FormattedUsable == Formatted \in Directory /\ Usable(Formatted)
  <1>1. Formatted = [s \in Slot |-> NoFile]
    BY DEF Formatted, Durable!Formatted
  <1>2. Formatted \in Directory /\ Used(Formatted) = {}
    BY <1>1 DEF Directory, Used
  <1>3. BlocksOf(Formatted, {}) = 0
    BY FS_EmptySet DEF BlocksOf
  <1> QED BY <1>2, <1>3, CardAssumption DEF Usable

\* A file that fits, under a name the game has no file of, may be added.
LEMMA AddUsable ==
  ASSUME NEW f \in Directory, NEW x \in Slot, x \notin Used(f), NEW y \in File,
         \A s \in Used(f) : ~(f[s].own /\ y.own /\ f[s].name = y.name),
         BlocksOf(f, Used(f)) + y.blocks <= UserBlocks, Usable(f)
  PROVE  [f EXCEPT ![x] = y] \in Directory /\ Usable([f EXCEPT ![x] = y])
  <1> DEFINE g == [f EXCEPT ![x] = y]
  <1>1. g \in Directory /\ g[x] = y /\ \A s \in Slot : s # x => g[s] = f[s]
    BY DEF Directory
  <1> HIDE DEF g
  <1>2. /\ Used(f) \in SUBSET Slot
        /\ \A s \in Slot : s \in Used(g) <=> g[s] \in File
        /\ \A s \in Slot : s \in Used(f) <=> f[s] \in File
    BY <1>1, EntryFacts
  <1>3. Used(g) = Used(f) \cup {x}
    <2>1. Used(g) \in SUBSET Slot
      BY <1>1, EntryFacts
    <2> QED BY <1>1, <1>2, <2>1
  <1>4. BlocksOf(g, Used(g)) = BlocksOf(f, Used(f)) + y.blocks
    BY <1>1, <1>2, <1>3, MoreBlocks
  <1>5. \A s, t \in Used(g) : g[s].own /\ g[t].own /\ g[s].name = g[t].name => s = t
    BY <1>1, <1>2, <1>3 DEF Usable
  <1> QED BY <1>1, <1>4, <1>5 DEF Usable, g

\* A file may be deleted.
LEMMA RemoveUsable ==
  ASSUME NEW f \in Directory, NEW x \in Slot, Usable(f)
  PROVE  [f EXCEPT ![x] = NoFile] \in Directory /\ Usable([f EXCEPT ![x] = NoFile])
  <1> DEFINE g == [f EXCEPT ![x] = NoFile]
  <1>1. g \in Directory /\ g[x] = NoFile /\ \A s \in Slot : s # x => g[s] = f[s]
    BY DEF Directory
  <1> HIDE DEF g
  <1>2. Used(g) = Used(f) \ {x}
    BY <1>1 DEF Used
  <1>3. Used(f) \in SUBSET Slot
    BY EntryFacts
  <1>4. \A s \in Used(g) : g[s] = f[s]
    BY <1>1, <1>2, <1>3
  <1>5. BlocksOf(g, Used(g)) <= BlocksOf(f, Used(f))
    BY <1>1, <1>2, <1>3, <1>4, FewerBlocks
  <1>6. BlocksOf(g, Used(g)) \in Nat /\ BlocksOf(f, Used(f)) \in Nat
    <2>1. Used(g) \in SUBSET Slot
      BY <1>2, <1>3
    <2> QED BY <1>1, <1>3, <2>1, PlacesFinite DEF BlocksOf, Places
  <1>7. BlocksOf(g, Used(g)) <= UserBlocks
    BY <1>5, <1>6, CardAssumption DEF Usable
  <1>8. \A s, t \in Used(g) : g[s].own /\ g[t].own /\ g[s].name = g[t].name => s = t
    BY <1>2, <1>4 DEF Usable
  <1> QED BY <1>1, <1>7, <1>8 DEF Usable, g

\* A file's contents may change.
LEMMA WriteUsable ==
  ASSUME NEW f \in Directory, NEW x \in Used(f), NEW b \in Body, Usable(f)
  PROVE  /\ [f EXCEPT ![x].body = b] \in Directory /\ Usable([f EXCEPT ![x].body = b])
         /\ [f EXCEPT ![x].body = b][x].own = f[x].own
  <1> DEFINE y == [f[x] EXCEPT !.body = b]
             g == [f EXCEPT ![x] = y]
  <1>1. x \in Slot /\ f[x] \in File /\ Used(f) \in SUBSET Slot
    BY EntryFacts
  <1>2. y \in File /\ y.own = f[x].own /\ y.name = f[x].name /\ y.blocks = f[x].blocks
    BY <1>1 DEF File
  <1> HIDE DEF y
  <1>3. g \in Directory /\ g[x] = y /\ \A s \in Slot : s # x => g[s] = f[s]
    BY <1>1, <1>2 DEF Directory
  <1>4. [f EXCEPT ![x].body = b] = g
    BY <1>1 DEF Directory, y
  <1> HIDE DEF g
  <1>5. Used(g) = Used(f)
    <2>1. Used(g) \in SUBSET Slot /\ \A s \in Slot : s \in Used(g) <=> g[s] \in File
      BY <1>3, EntryFacts
    <2>2. \A s \in Slot : s \in Used(f) <=> f[s] \in File
      BY EntryFacts
    <2> QED BY <1>1, <1>2, <1>3, <2>1, <2>2
  <1>6. \A s \in Used(f) : g[s].own = f[s].own /\ g[s].name = f[s].name /\ g[s].blocks = f[s].blocks
    BY <1>1, <1>2, <1>3
  <1>7. BlocksOf(g, Used(g)) <= BlocksOf(f, Used(f))
    <2>1. Used(f) \in SUBSET Used(f)
      OBVIOUS
    <2> QED BY <1>1, <1>3, <1>5, <1>6, <2>1, FewerBlocks
  <1>8. BlocksOf(g, Used(g)) \in Nat /\ BlocksOf(f, Used(f)) \in Nat
    BY <1>1, <1>3, <1>5, PlacesFinite DEF BlocksOf, Places
  <1>9. BlocksOf(g, Used(g)) <= UserBlocks
    BY <1>7, <1>8, CardAssumption DEF Usable
  <1>10. \A s, t \in Used(g) : g[s].own /\ g[t].own /\ g[s].name = g[t].name => s = t
    BY <1>5, <1>6 DEF Usable
  <1>11. g[x].own = f[x].own
    BY <1>2, <1>3
  <1> QED BY <1>3, <1>4, <1>9, <1>10, <1>11 DEF Usable

\* The first of a set of entries.
LEMMA LeastSlot ==
  ASSUME NEW S \in SUBSET Slot, S # {}
  PROVE  Min(S) \in S
  <1> DEFINE R == OpToRel(<, Nat)
  <1>1. IsWellFoundedOn(R, Nat)
    BY NatLessThanWellFounded
  <1>2. \A x, y \in Nat : y < x => <<y, x>> \in R
    BY DEF OpToRel
  <1>3. S \in SUBSET Nat
    BY CardAssumption
  <1> HIDE DEF R
  <1>4. PICK x \in S : \A y \in S : ~(<<y, x>> \in R)
    BY <1>1, <1>3, WFMin
  <1>5. \A y \in S : ~(y < x)
    BY <1>2, <1>3, <1>4, Zenon
  <1>6. \A y \in S : x <= y
    BY <1>3, <1>4, <1>5
  <1> QED BY <1>4, <1>6 DEF Min

-----------------------------------------------------------------------------
(* The calls                                                                 *)

\* What no part of the invariant looks at is all that changes.
Quiet == UNCHANGED <<diskVars, powered, files, at, previous, opening>>

\* A call that changes the card, and to what.
ChangeTo(f) ==
    /\ f \in Directory /\ Usable(f)
    /\ Durable!ChangesOne(files, f) \/ f = Formatted
    /\ Changing(f)

\* dol_card_create_file adds a file that fits.
LEMMA CreateChanges ==
  ASSUME CardInv, NEW n \in Name, NEW b \in Blocks \cup {0}, dol_card_create_file(n, b)
  PROVE  Quiet \/ \E f : ChangeTo(f)
  <1> DEFINE x == FirstFree
             y == [name |-> n, own |-> TRUE, blocks |-> b, body |-> Erased]
             g == [files EXCEPT ![x] = y]
  <1>1. CASE mounted /\ b # 0 /\ find_file(n) = {} /\ Slot \ Used(files) # {} /\ ~(b > UserBlocks - BlocksUsed)
    <2>1. Changing(g)
      BY <1>1 DEF dol_card_create_file
    <2>2. files \in Directory /\ Usable(files)
      BY DEF CardInv, CardTypes, UsableInv
    <2>3. x \in Slot /\ x \notin Used(files)
      <3>1. Slot \ Used(files) \in SUBSET Slot
        OBVIOUS
      <3>2. Min(Slot \ Used(files)) \in Slot \ Used(files)
        BY <1>1, <3>1, LeastSlot, Zenon
      <3> QED BY <3>2 DEF FirstFree
    <2>4. y \in File /\ y.own /\ y.name = n /\ y.blocks = b /\ b \in Nat
      BY <1>1, CardAssumption DEF File
    <2> HIDE DEF y, x
    <2>5. \A s \in Used(files) : ~(files[s].own /\ y.own /\ files[s].name = y.name)
      BY <1>1, <2>4 DEF find_file, Own
    <2>6. BlocksOf(files, Used(files)) + y.blocks <= UserBlocks
      <3>1. Used(files) \in SUBSET Slot
        BY <2>2, EntryFacts
      <3>2. BlocksOf(files, Used(files)) \in Nat
        BY <2>2, <3>1, PlacesFinite DEF BlocksOf, Places
      <3> QED BY <1>1, <2>4, <3>2, CardAssumption DEF BlocksUsed
    <2>7. g \in Directory /\ Usable(g)
      BY <2>2, <2>3, <2>4, <2>5, <2>6, AddUsable
    <2>8. Durable!ChangesOne(files, g)
      <3>1. files[x] = NoFile
        BY <2>2, <2>3, EntryFacts
      <3>2. g[x] = y /\ \A t \in Slot \ {x} : g[t] = files[t]
        BY <2>2, <2>3 DEF Directory
      <3> HIDE DEF g
      <3> QED BY <2>3, <2>4, <3>1, <3>2 DEF Durable!ChangesOne
    <2> HIDE DEF g
    <2> QED BY <2>1, <2>7, <2>8 DEF ChangeTo
  <1>2. CASE ~(mounted /\ b # 0 /\ find_file(n) = {} /\ Slot \ Used(files) # {} /\ ~(b > UserBlocks - BlocksUsed))
    <2>1. \E r : Answer(r)
      BY <1>2, Zenon DEF dol_card_create_file
    <2> QED BY <2>1 DEF Answer, Quiet
  <1> QED BY <1>1, <1>2

\* dol_card_delete_file takes one file of the game away.
LEMMA DeleteChanges ==
  ASSUME CardInv, NEW n \in Name, dol_card_delete_file(n)
  PROVE  Quiet \/ \E f : ChangeTo(f)
  <1> DEFINE x == Min(find_file(n))
             g == [files EXCEPT ![x] = NoFile]
  <1>1. CASE mounted /\ find_file(n) # {}
    <2>1. Changing(g)
      BY <1>1 DEF dol_card_delete_file
    <2>2. files \in Directory /\ Usable(files)
      BY DEF CardInv, CardTypes, UsableInv
    <2>3. x \in Slot /\ files[x].own
      <3>1. find_file(n) \in SUBSET Slot
        BY DEF find_file, Own, Used
      <3>2. x \in find_file(n)
        BY <1>1, <3>1, LeastSlot, Zenon
      <3> HIDE DEF x
      <3> QED BY <3>2 DEF find_file, Own, Used
    <2> HIDE DEF x
    <2>4. g \in Directory /\ Usable(g)
      BY <2>2, <2>3, RemoveUsable
    <2>5. Durable!ChangesOne(files, g)
      <3>1. g[x] = NoFile /\ \A t \in Slot \ {x} : g[t] = files[t]
        BY <2>2, <2>3 DEF Directory
      <3> HIDE DEF g
      <3> QED BY <2>3, <3>1 DEF Durable!ChangesOne
    <2> HIDE DEF g
    <2> QED BY <2>1, <2>4, <2>5 DEF ChangeTo
  <1>2. CASE ~(mounted /\ find_file(n) # {})
    <2>1. \E r : Answer(r)
      BY <1>2, Zenon DEF dol_card_delete_file
    <2> QED BY <2>1 DEF Answer, Quiet
  <1> QED BY <1>1, <1>2

\* dol_card_write_file changes the contents of one file of the game.
LEMMA WriteChanges ==
  ASSUME CardInv, NEW s \in Slot, NEW inside \in BOOLEAN, NEW body \in Body,
         dol_card_write_file(s, inside, body)
  PROVE  Quiet \/ \E f : ChangeTo(f)
  <1> DEFINE g == [files EXCEPT ![s].body = body]
  <1>1. CASE validate_file_range(s, inside) = "ready"
    <2>1. Changing(g)
      BY <1>1 DEF dol_card_write_file
    <2>2. files \in Directory /\ Usable(files)
      BY DEF CardInv, CardTypes, UsableInv
    <2>3. s \in Used(files) /\ files[s].own
      BY <1>1 DEF validate_file_range, Own
    <2>4. g \in Directory /\ Usable(g) /\ g[s].own = files[s].own
      BY <2>2, <2>3, WriteUsable
    <2>5. Durable!ChangesOne(files, g)
      <3>1. \A t \in Slot \ {s} : g[t] = files[t]
        BY <2>2 DEF Directory
      <3> HIDE DEF g
      <3> QED BY <2>3, <2>4, <3>1 DEF Durable!ChangesOne
    <2> HIDE DEF g
    <2> QED BY <2>1, <2>4, <2>5 DEF ChangeTo
  <1>2. CASE validate_file_range(s, inside) # "ready"
    <2>1. \E r : Answer(r)
      BY <1>2, Zenon DEF dol_card_write_file
    <2> QED BY <2>1 DEF Answer, Quiet
  <1> QED BY <1>1, <1>2

\* Every call opens or closes the card, changes it, or leaves it alone.
LEMMA CallKinds ==
  ASSUME CardInv, CardCall
  PROVE  dol_card_open \/ dol_card_close \/ Quiet \/ \E f : ChangeTo(f)
  <1>1. CASE dol_card_format
    <2>1. CASE mounted
      <3>1. Changing(Formatted)
        BY <1>1, <2>1 DEF dol_card_format
      <3> QED BY <3>1, FormattedUsable DEF ChangeTo
    <2>2. CASE ~mounted
      BY <1>1, <2>2 DEF dol_card_format, Answer, Quiet
    <2> QED BY <2>1, <2>2
  <1>2. CASE dol_card_mount \/ dol_card_unmount
    BY <1>2 DEF dol_card_mount, dol_card_unmount, Quiet
  <1>3. ASSUME NEW r, Answer(r) PROVE Quiet
    BY <1>3 DEF Answer, Quiet
  <1>4. CASE dol_card_probe \/ dol_card_check \/ NoBuffer
    BY <1>3, <1>4 DEF dol_card_probe, dol_card_check, NoBuffer
  <1>5. ASSUME NEW n \in Name, dol_card_open_file(n) PROVE Quiet
    BY <1>3, <1>5 DEF dol_card_open_file
  <1>6. ASSUME NEW s \in Slot, NEW inside \in BOOLEAN, dol_card_close_file(s) \/ dol_card_read_file(s, inside)
        PROVE  Quiet
    BY <1>3, <1>6 DEF dol_card_close_file, dol_card_read_file
  <1> QED BY <1>1, <1>2, <1>4, <1>5, <1>6, CreateChanges, DeleteChanges, WriteChanges DEF CardCall

-----------------------------------------------------------------------------
(* The invariant and the promise, step by step                               *)

\* The card as its caller sees it.
Seen == powered /\ ~opening
Live == IF at = "ready" THEN files ELSE previous

\* A step of DurableCard, in terms of what the caller sees.
Promised == [Durable!DurableNext]_(Durable!durableVars)

\* Nothing the caller sees changes.
LEMMA UnseenStep == medium' = medium /\ Seen' = Seen /\ Live' = Live /\ path' = path => Promised
  BY DEF Promised, Durable!durableVars, Seen, Live

\* The card is switched on, off or changed.
LEMMA PowerOnStep ==
  ASSUME ~Seen, Seen', UNCHANGED medium,
         \/ medium # "none" /\ path.kind = "card" /\ Live' = path.files /\ path' = path
         \/ /\ medium = "fickle" \/ (medium # "none" /\ path.kind = "absent")
            /\ Live' = Formatted /\ path' = Container(Formatted)
         \/ medium = "none" /\ Live' = Formatted /\ path' = path
  PROVE  Promised
  <1>1. Seen' = TRUE
    BY DEF Seen
  <1>2. Durable!PowerOn
    BY <1>1 DEF Durable!PowerOn, Seen, Live, Formatted, Container
  <1> QED BY <1>2 DEF Promised, Durable!DurableNext

\* Taking the card away is a step of the promise.
LEMMA PowerOffStep ==
  ASSUME Seen, ~Seen', Live' = Formatted, UNCHANGED <<medium, path>>
  PROVE  Promised
  <1>1. Seen' = FALSE
    BY DEF Seen
  <1>2. Durable!PowerOff
    BY <1>1 DEF Durable!PowerOff, Seen, Live, Formatted
  <1> QED BY <1>2 DEF Promised, Durable!DurableNext

\* A change seen in memory and in the container at once is a step of the promise.
LEMMA ChangeStep ==
  ASSUME Seen, Seen', Durable!ChangesOne(Live, Live') \/ Live' = Formatted,
         path' = IF medium = "none" THEN path ELSE Container(Live'), UNCHANGED medium
  PROVE  Promised
  <1>1. Seen' = Seen
    BY DEF Seen
  <1>2. Durable!Change
    BY <1>1 DEF Durable!Change, Seen, Live, Formatted, Container
  <1> QED BY <1>2 DEF Promised, Durable!DurableNext

\* Removing the old container first is one where rename does not replace.
LEMMA LoseStep ==
  ASSUME Seen' = Seen, Live' = Live, path' = Nothing("absent"), UNCHANGED medium,
         \/ medium \in {"lossy", "fickle"} /\ path.kind = "card" /\ Seen
         \/ medium = "fickle" /\ path.kind # "absent"
  PROVE  Promised
  <1>1. Seen' = Seen
    OBVIOUS
  <1>2. Durable!Lose
    BY <1>1 DEF Durable!Lose, Seen, Live, Nothing
  <1> QED BY <1>2 DEF Promised, Durable!DurableNext

\* Containers as the model builds them.
LEMMA ContainerFacts ==
  /\ \A f \in Directory : Container(f) \in Containers /\ Container(f).kind = "card" /\ Container(f).files = f
  /\ Nothing("absent") \in Containers /\ Nothing("absent").kind = "absent"
  /\ Nothing("torn") \in Containers /\ Nothing("torn").kind = "torn"
  BY FormattedUsable DEF Container, Nothing, Durable!Container, Durable!Nothing, Containers, Formatted

USE DEF CardInv

\* A step that leaves the card alone.
LEMMA QuietStep ==
  ASSUME CardInv, Quiet
  PROVE  CardInv' /\ Promised
  <1>1. UNCHANGED <<medium, path, temp, powered, files, at, previous, opening>>
    BY DEF Quiet, diskVars
  <1>2. CardInv'
    BY <1>1 DEF CardTypes, WritingInv, ChangeInv, OpenInv, UsableInv, Usable, Used, BlocksOf, Formatted,
                Container, RenameFails, Durable!Formatted, Durable!Container, Durable!ChangesOne
  <1>3. Seen' = Seen /\ Live' = Live
    BY <1>1 DEF Seen, Live
  <1> QED BY <1>1, <1>2, <1>3, UnseenStep

\* A change starts to be written, or without a path is done.
LEMMA ChangeToStep ==
  ASSUME CardInv, NEW f, ChangeTo(f)
  PROVE  CardInv' /\ Promised
  <1>1. /\ f \in Directory /\ Usable(f) /\ (Durable!ChangesOne(files, f) \/ f = Formatted)
        /\ powered /\ at = "ready" /\ files' = f /\ UNCHANGED <<medium, path, temp, powered>>
        /\ IF medium = "none" THEN at' = "ready" /\ UNCHANGED <<previous, opening>>
           ELSE at' = "temp" /\ previous' = files /\ opening' = FALSE
    BY DEF ChangeTo, Changing, Idle, StartWrite, diskVars
  <1>2. ~opening /\ opening' = FALSE /\ Seen /\ Seen'
    BY <1>1 DEF CardTypes, WritingInv, Seen
  <1>3. CardTypes'
    BY <1>1, <1>2 DEF CardTypes
  <1>4. WritingInv'
    BY <1>1, <1>2 DEF WritingInv, CardTypes, Renaming
  <1>5. ChangeInv'
    BY <1>1, <1>2 DEF ChangeInv
  <1>6. OpenInv'
    BY <1>1, <1>2 DEF OpenInv
  <1>7. UsableInv'
    BY <1>1 DEF UsableInv
  <1>8. Promised
    <2>1. CASE medium = "none"
      BY <1>1, <1>2, <2>1, ChangeStep DEF Live
    <2>2. CASE medium # "none"
      <3>1. Live' = Live /\ Seen' = Seen
        BY <1>1, <1>2, <2>2 DEF Live, Seen
      <3> QED BY <1>1, <3>1, UnseenStep
    <2> QED BY <2>1, <2>2
  <1> QED BY <1>3, <1>4, <1>5, <1>6, <1>7, <1>8

\* dol_card_open loads a container, fails, or starts to write an empty one.
LEMMA OpenStep ==
  ASSUME CardInv, dol_card_open
  PROVE  CardInv' /\ Promised
  <1>1. /\ ~powered /\ at = "ready" /\ UNCHANGED <<medium, path, temp>> /\ files = Formatted /\ ~opening
        /\ path \in Containers /\ Formatted \in Directory /\ Usable(Formatted) /\ ~Seen
    BY FormattedUsable DEF dol_card_open, diskVars, CardTypes, WritingInv, OpenInv, Seen
  <1>2. CASE /\ medium # "none" /\ path.kind = "card" /\ powered' = TRUE /\ files' = path.files
             /\ UNCHANGED <<at, previous, opening>>
    <2>1. path.files \in Directory
      BY <1>1 DEF Containers
    <2>2. CardInv'
      <3>1. CardTypes'
        BY <1>1, <1>2, <2>1 DEF CardTypes
      <3>2. WritingInv' /\ ChangeInv'
        BY <1>1, <1>2 DEF WritingInv, ChangeInv, Renaming
      <3>3. OpenInv' /\ UsableInv'
        BY <1>1, <1>2 DEF OpenInv, UsableInv
      <3> QED BY <3>1, <3>2, <3>3
    <2>3. Seen' /\ Live' = path.files
      BY <1>1, <1>2 DEF Seen, Live
    <2> QED BY <1>1, <1>2, <2>2, <2>3, PowerOnStep
  <1>3. CASE UNCHANGED <<powered, files, at, previous, opening>>
    <2>1. Quiet
      BY <1>1, <1>3 DEF Quiet, diskVars
    <2> QED BY <2>1, QuietStep
  <1>4. CASE medium = "none" /\ powered' = TRUE /\ files' = Formatted /\ UNCHANGED <<at, previous, opening>>
    <2>1. CardInv'
      <3>1. CardTypes'
        BY <1>1, <1>4 DEF CardTypes
      <3>2. WritingInv' /\ ChangeInv'
        BY <1>1, <1>4 DEF WritingInv, ChangeInv, Renaming
      <3>3. OpenInv' /\ UsableInv'
        BY <1>1, <1>4 DEF OpenInv, UsableInv
      <3> QED BY <3>1, <3>2, <3>3
    <2>2. Seen' /\ Live' = Formatted
      BY <1>1, <1>4 DEF Seen, Live
    <2> QED BY <1>1, <1>4, <2>1, <2>2, PowerOnStep
  <1>5. CASE /\ medium # "none" /\ (path.kind = "absent" \/ medium = "fickle")
             /\ powered' = TRUE /\ files' = Formatted
             /\ at' = "temp" /\ previous' = Formatted /\ opening' = TRUE
    <2>1. CardInv'
      BY <1>1, <1>5 DEF CardTypes, WritingInv, ChangeInv, OpenInv, UsableInv, Renaming
    <2>2. Seen' = Seen /\ Live' = Live
      BY <1>1, <1>5 DEF Seen, Live
    <2> QED BY <1>1, <2>1, <2>2, UnseenStep
  <1>6. FALSE \in path_exists => path.kind = "absent" \/ medium = "fickle"
    BY DEF path_exists
  <1> QED BY <1>2, <1>3, <1>4, <1>5, <1>6 DEF dol_card_open

\* Closing the card, or killing the program, leaves the disk alone.
LEMMA OffStep ==
  ASSUME CardInv, dol_card_close \/ Crash
  PROVE  CardInv' /\ Promised
  <1>1. /\ powered /\ powered' = FALSE /\ files' = Formatted /\ UNCHANGED <<medium, path, temp>>
        /\ at' = "ready" /\ opening' = FALSE
        /\ previous' = Formatted \/ previous' = previous
        /\ Formatted \in Directory /\ Usable(Formatted)
    BY FormattedUsable DEF dol_card_close, Crash, Idle, diskVars, WritingInv, CardTypes
  <1>2. CardInv'
    BY <1>1 DEF CardTypes, WritingInv, ChangeInv, OpenInv, UsableInv, Renaming
  <1>3. ~Seen' /\ Live' = Formatted
    BY <1>1 DEF Seen, Live
  <1>4. CASE opening
    <2>1. Seen' = Seen /\ Live' = Live
      BY <1>1, <1>3, <1>4 DEF Seen, Live, WritingInv
    <2> QED BY <1>1, <1>2, <2>1, UnseenStep
  <1>5. CASE ~opening
    BY <1>1, <1>2, <1>3, <1>5, PowerOffStep DEF Seen
  <1> QED BY <1>4, <1>5

-----------------------------------------------------------------------------
(* write_container, step by step                                             *)

\* Going on, with the container as it is.
LEMMA GotoStep ==
  ASSUME CardInv, at # "ready", NEW a \in {"write", "clean"} \cup Renaming, Goto(a), path' = path,
         a = "remove" => RenameFails, a \in Renaming => temp' = Container(files)
  PROVE  CardInv' /\ Promised
  <1>1. at' = a /\ UNCHANGED <<medium, path, powered, files, previous, opening>> /\ a # "ready"
    BY DEF Goto, Renaming
  <1>2. CardInv'
    BY <1>1 DEF CardTypes, WritingInv, ChangeInv, OpenInv, UsableInv, RenameFails
  <1>3. Seen' = Seen /\ Live' = Live
    BY <1>1 DEF Seen, Live
  <1> QED BY <1>1, <1>2, <1>3, UnseenStep

\* Giving up puts back what the caller saw.
LEMMA FailStep ==
  ASSUME CardInv, at # "ready", WriteFailed, path' = path
  PROVE  CardInv' /\ Promised
  <1>1. /\ at' = "ready" /\ opening' = FALSE /\ powered' = ~opening /\ files' = previous
        /\ previous' = Formatted /\ UNCHANGED <<medium, path>> /\ powered
        /\ Formatted \in Directory /\ Usable(Formatted)
    BY FormattedUsable DEF WriteFailed, WritingInv
  <1>2. CardTypes'
    BY <1>1 DEF CardTypes
  <1>3. WritingInv' /\ ChangeInv' /\ UsableInv'
    BY <1>1 DEF WritingInv, ChangeInv, UsableInv, Renaming
  <1>4. OpenInv'
    BY <1>1 DEF OpenInv, WritingInv
  <1>5. Seen' = Seen /\ Live' = Live
    BY <1>1 DEF Seen, Live, CardTypes
  <1> QED BY <1>1, <1>2, <1>3, <1>4, <1>5, UnseenStep

\* The rename makes the change, or the new card, what is saved.
LEMMA DoneStep ==
  ASSUME CardInv, at \in Renaming, WriteDone, path' = temp
  PROVE  CardInv' /\ Promised
  <1>1. /\ at # "ready" /\ at' = "ready" /\ opening' = FALSE /\ previous' = Formatted
        /\ UNCHANGED <<medium, powered, files>> /\ powered /\ medium # "none" /\ path' = Container(files)
        /\ files \in Directory /\ Formatted \in Directory /\ Usable(Formatted)
    BY FormattedUsable DEF WriteDone, WritingInv, CardTypes, Renaming
  <1>2. path' \in Containers /\ path'.kind = "card" /\ path'.files = files
    BY <1>1, ContainerFacts
  <1>3. CardInv'
    BY <1>1, <1>2 DEF CardTypes, WritingInv, ChangeInv, OpenInv, UsableInv, Renaming
  <1>4. Seen' /\ Live' = files /\ Live = previous
    BY <1>1 DEF Seen, Live
  <1>5. CASE opening
    <2>1. ~Seen /\ (path.kind = "absent" \/ medium = "fickle") /\ files = Formatted
      BY <1>5 DEF Seen, WritingInv
    <2> QED BY <1>1, <1>3, <1>4, <2>1, PowerOnStep
  <1>6. CASE ~opening
    <2>1. Seen /\ (Durable!ChangesOne(previous, files) \/ files = Formatted)
      BY <1>1, <1>6 DEF Seen, ChangeInv
    <2> QED BY <1>1, <1>3, <1>4, <2>1, ChangeStep
  <1> QED BY <1>5, <1>6

\* The fallback removes the old container, which only a host whose rename fails needs.
LEMMA RemoveStep ==
  ASSUME CardInv, at = "remove", path.kind # "absent", path' = Nothing("absent"), Goto("again"), temp' = temp
  PROVE  CardInv' /\ Promised
  <1>1. /\ at' = "again" /\ UNCHANGED <<medium, powered, files, previous, opening, temp>>
        /\ powered /\ medium \in {"lossy", "fickle"} /\ temp = Container(files)
        /\ path \in Containers
        /\ opening => medium = "fickle"
        /\ ~opening => path.kind # "torn"
    BY DEF Goto, WritingInv, CardTypes, OpenInv, Renaming, RenameFails
  <1>2. path' \in Containers /\ path'.kind = "absent"
    BY ContainerFacts
  <1>3. CardInv'
    BY <1>1, <1>2 DEF CardTypes, WritingInv, ChangeInv, OpenInv, UsableInv, Renaming
  <1>4. Seen' = Seen /\ Live' = Live /\ (~opening => Seen)
    BY <1>1 DEF Seen, Live
  <1>5. ~opening => path.kind = "card"
    BY <1>1 DEF Containers
  <1> QED BY <1>1, <1>3, <1>4, <1>5, LoseStep

\* Every step of write_container.
LEMMA WriteStep ==
  ASSUME CardInv, write_container
  PROVE  CardInv' /\ Promised
  <1>1. CASE OpenTemp
    BY <1>1, GotoStep, FailStep DEF OpenTemp, Renaming
  <1>2. CASE WriteTemp
    BY <1>2, GotoStep DEF WriteTemp, Renaming
  <1>3. CASE Rename
    <2>1. at = "rename" /\ at \in Renaming /\ temp = Container(files)
      BY <1>3 DEF Rename, Renaming, WritingInv
    <2>2. CASE path' = temp /\ WriteDone
      BY <2>1, <2>2, DoneStep
    <2>3. CASE RenameFails /\ Goto("remove") /\ UNCHANGED <<path, temp>>
      BY <2>1, <2>3, GotoStep DEF Renaming
    <2> QED BY <1>3, <2>2, <2>3 DEF Rename
  <1>4. CASE RemoveOld
    BY <1>4, RemoveStep, GotoStep DEF RemoveOld, Renaming
  <1>5. CASE RenameAgain
    BY <1>5, DoneStep, GotoStep DEF RenameAgain, Renaming
  <1>6. CASE CleanUp
    BY <1>6, FailStep DEF CleanUp
  <1> QED BY <1>1, <1>2, <1>3, <1>4, <1>5, <1>6 DEF write_container

\* The card starts closed, with a container that is missing, unreadable or usable.
LEMMA CardStarts == CardInit => CardInv /\ Durable!DurableInit
  <1> SUFFICES ASSUME CardInit PROVE CardInv /\ Durable!DurableInit
    OBVIOUS
  <1>1. /\ medium \in {"none", "safe", "lossy", "fickle"} /\ powered = FALSE /\ opening = FALSE /\ at = "ready"
        /\ files = Formatted /\ previous = Formatted
    BY DEF CardInit
  <1>2. Formatted \in Directory /\ Usable(Formatted) /\ \A s \in Slot : Formatted[s] = NoFile
    BY FormattedUsable DEF Formatted, Durable!Formatted
  <1>3. Used(Formatted) = {} /\ BlocksOf(Formatted, {}) = 0
    <2>1. Used(Formatted) = {}
      BY <1>2 DEF Used
    <2> QED BY <2>1, FS_EmptySet DEF BlocksOf
  <1>4. ASSUME NEW s \in Slot, NEW n \in Name, NEW b \in {k \in Blocks : k <= UserBlocks},
               NEW g, g = [Formatted EXCEPT ![s] = [name |-> n, own |-> FALSE, blocks |-> b, body |-> Erased]]
        PROVE  g \in Directory /\ Usable(g)
    <2> DEFINE y == [name |-> n, own |-> FALSE, blocks |-> b, body |-> Erased]
    <2>1. y \in File /\ y.blocks = b /\ b \in Nat /\ b <= UserBlocks
      BY CardAssumption DEF File
    <2> HIDE DEF y
    <2>2. BlocksOf(Formatted, Used(Formatted)) + y.blocks <= UserBlocks
      BY <1>3, <2>1
    <2>3. s \notin Used(Formatted) /\ \A t \in Used(Formatted) :
             ~(Formatted[t].own /\ y.own /\ Formatted[t].name = y.name)
      BY <1>3
    <2>4. [Formatted EXCEPT ![s] = y] \in Directory /\ Usable([Formatted EXCEPT ![s] = y])
      BY <1>2, <2>1, <2>2, <2>3, AddUsable
    <2> QED BY <1>4, <2>4 DEF y
  <1>5. path \in Containers /\ (path.kind = "card" => Usable(path.files))
    <2>1. CASE path \in {Nothing("absent"), Nothing("torn"), Container(Formatted)}
      BY <1>2, <2>1, ContainerFacts
    <2>2. CASE \E s \in Slot, n \in Name, b \in {k \in Blocks : k <= UserBlocks} :
                 path = Container([Formatted EXCEPT ![s] = [name |-> n, own |-> FALSE, blocks |-> b, body |-> Erased]])
      <3>1. PICK g : g \in Directory /\ Usable(g) /\ path = Container(g)
        BY <1>4, <2>2
      <3> QED BY <3>1, ContainerFacts
    <2> QED BY <2>1, <2>2 DEF CardInit
  <1>6. CardInv
    <2>1. CardTypes
      BY <1>1, <1>2, <1>5 DEF CardTypes
    <2>2. WritingInv /\ ChangeInv /\ OpenInv /\ UsableInv
      BY <1>1, <1>2, <1>5 DEF WritingInv, ChangeInv, OpenInv, UsableInv, Renaming
    <2> QED BY <2>1, <2>2
  <1>7. Durable!DurableInit
    <2>1. (powered /\ ~opening) = FALSE /\ (IF at = "ready" THEN files ELSE previous) = Durable!Formatted
          /\ path.kind \in {"absent", "torn", "card"}
      BY <1>1, <1>5 DEF Formatted, Containers
    <2> QED BY <1>1, <2>1 DEF Durable!DurableInit
  <1> QED BY <1>6, <1>7

\* Every step keeps the invariant and the promise.
LEMMA CardSteps == CardInv /\ [CardNext]_cardVars => CardInv' /\ Promised
  <1> SUFFICES ASSUME CardInv, [CardNext]_cardVars PROVE CardInv' /\ Promised
    OBVIOUS
  <1>1. CASE UNCHANGED cardVars
    <2>1. Quiet
      BY <1>1 DEF cardVars, Quiet
    <2> QED BY <2>1, QuietStep
  <1>2. CASE CardCall
    BY <1>2, CallKinds, OpenStep, OffStep, QuietStep, ChangeToStep
  <1>3. CASE write_container
    BY <1>3, WriteStep
  <1>4. CASE Crash
    BY <1>4, OffStep
  <1> QED BY <1>1, <1>2, <1>3, <1>4 DEF CardNext

\* For every number of entries, names and blocks, and whatever write fails or
\* whenever the program is killed, names stay unique and dol_card_free_space's
\* unsigned difference does not wrap, in memory and in the container.
THEOREM DirectoryIsUsable == CardSpec => []DirectoryOK
  <1>1. CardInv => DirectoryOK
    BY DEF UsableInv, DirectoryOK
  <1> QED BY <1>1, CardStarts, CardSteps, PTL DEF CardSpec

\* The card keeps DurableCard's promise for every directory: a call of
\* memory_card.c changes what the game sees and what is on disk together or not at
\* all, across failed writes and a kill at any point of write_container.  Opening
\* the card loses a container only where one that is there may fail to open, which
\* path_exists takes for its absence.
THEOREM CardIsDurable == CardSpec => CardDurable
  BY CardStarts, CardSteps, PTL DEF CardSpec, CardDurable, Durable!DurableSpec, Promised
=============================================================================
