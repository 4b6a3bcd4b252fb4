-------------------------- MODULE EventClock_proofs --------------------------
(***************************************************************************)
(* The event clock's cached deadline is exact and no id takes two slots,   *)
(* for every number of slots and ids.  The two need each other's types     *)
(* only; the work is in the searches, which CHOOSE a slot: that there is   *)
(* an earliest one rests on the naturals being well ordered.               *)
(***************************************************************************)
EXTENDS EventClock, WellFoundedInduction, FiniteSetTheorems, TLAPS

\* A non-empty set of naturals has a least element.
LEMMA LeastNatural ==
  ASSUME NEW T \in SUBSET Nat, T # {}
  PROVE  \E x \in T : \A y \in T : x <= y
  <1> DEFINE R == OpToRel(<, Nat)
  <1>1. IsWellFoundedOn(R, Nat)
    BY NatLessThanWellFounded
  <1>2. \A x, y \in Nat : y < x => <<y, x>> \in R
    BY DEF OpToRel
  <1> HIDE DEF R
  <1>3. PICK x \in T : \A y \in T : ~(<<y, x>> \in R)
    BY <1>1, WFMin
  <1>4. \A y \in T : ~(y < x)
    BY <1>2, <1>3, Zenon
  <1> QED BY <1>3, <1>4

\* find_event's scan finds the first slot of a set.
LEMMA FirstFound ==
  ASSUME NEW S \in SUBSET Slots, S # {}
  PROVE  FirstOf(S) \in S
  <1>1. S \in SUBSET Nat
    BY ClockAssumption DEF Slots
  <1>2. \E s \in S : \A t \in S : s <= t
    BY <1>1, LeastNatural
  <1> QED BY <1>2 DEF FirstOf

\* pop_due's and refresh_next_deadline's scans find a slot with the least deadline.
LEMMA EarliestFound ==
  ASSUME NEW E \in [Slots -> Event], NEW S \in SUBSET Slots, S # {}
  PROVE  /\ EarliestOf(E, S) \in S
         /\ \A t \in S : E[EarliestOf(E, S)].deadline <= E[t].deadline
  <1> DEFINE D == {E[t].deadline : t \in S}
  <1>1. \A t \in S : E[t].deadline \in Nat /\ t \in Nat
    BY ClockAssumption DEF Slots, Event
  <1>2. PICK d \in D : \A e \in D : d <= e
    <2>1. D \in SUBSET Nat /\ D # {}
      BY <1>1
    <2> HIDE DEF D
    <2> QED BY <2>1, LeastNatural
  <1> DEFINE T == {t \in S : E[t].deadline = d}
  <1>3. PICK s \in T : \A t \in T : s <= t
    <2>1. T \in SUBSET Nat /\ T # {}
      BY <1>1, <1>2
    <2> HIDE DEF T
    <2> QED BY <2>1, LeastNatural
  <1>4. /\ s \in S
        /\ \A t \in S : E[s].deadline < E[t].deadline \/ (E[s].deadline = E[t].deadline /\ s <= t)
    BY <1>1, <1>2, <1>3
  <1>5. /\ EarliestOf(E, S) \in S
        /\ \A t \in S : E[EarliestOf(E, S)].deadline < E[t].deadline
                          \/ (E[EarliestOf(E, S)].deadline = E[t].deadline /\ EarliestOf(E, S) <= t)
    BY <1>4 DEF EarliestOf
  <1> QED BY <1>1, <1>5

\* refresh_next_deadline makes the cache exact, whatever it was.
LEMMA RefreshExact ==
  ASSUME NEW E \in [Slots -> Event], events' = E, refresh_next_deadline(E)
  PROVE  hasNext' \in BOOLEAN /\ nextDeadline' \in Nat /\ CacheExact'
  <1>1. Active' = ActiveIn(E)
    BY DEF Active, ActiveIn
  <1>2. CASE ActiveIn(E) = {}
    BY <1>1, <1>2 DEF refresh_next_deadline, CacheExact
  <1>3. CASE ActiveIn(E) # {}
    <2> DEFINE s == EarliestOf(E, ActiveIn(E))
    <2>1. s \in ActiveIn(E) /\ \A t \in ActiveIn(E) : E[s].deadline <= E[t].deadline
      BY <1>3, EarliestFound DEF ActiveIn
    <2>2. hasNext' = TRUE /\ nextDeadline' = E[s].deadline
      BY <1>3 DEF refresh_next_deadline
    <2>3. E[s].deadline \in Nat
      BY <2>1 DEF ActiveIn, Event
    <2> QED BY <1>1, <2>1, <2>2, <2>3 DEF CacheExact
  <1> QED BY <1>2, <1>3

ClockInv == ClockTypeOK /\ CacheExact /\ OneSlotPerId

\* dol_event_clock_init leaves no active slot and no deadline.
LEMMA InitClock == ClockInit => ClockInv
  <1> SUFFICES ASSUME ClockInit PROVE ClockInv OBVIOUS
  <1>1. events \in [Slots -> Event] /\ \A s \in Slots : ~events[s].active
    BY DEF ClockInit, Event, NoEvent
  <1>2. hasNext \in BOOLEAN /\ answer.ok \in BOOLEAN
    BY DEF ClockInit, Accepted
  <1>3. Active = {}
    BY <1>1 DEF Active, ActiveIn
  <1> QED BY <1>1, <1>2, <1>3 DEF ClockInit, ClockInv, ClockTypeOK, CacheExact, OneSlotPerId

\* A call that leaves the array alone keeps the invariant.
LEMMA ArrayKept ==
  ASSUME ClockInv, UNCHANGED <<events, hasNext, nextDeadline>>, now' \in Nat, answer'.ok \in BOOLEAN
  PROVE  ClockInv'
  BY DEF ClockInv, ClockTypeOK, CacheExact, OneSlotPerId, Active, ActiveIn

\* So does one that changes a slot, if the slot's id is in no other active slot.
LEMMA SlotChanged ==
  ASSUME ClockInv, NEW s \in Slots, NEW e \in Event, events' = [events EXCEPT ![s] = e],
         refresh_next_deadline(events'), now' \in Nat, answer'.ok \in BOOLEAN,
         e.active => \A t \in Active : t # s => events[t].id # e.id
  PROVE  ClockInv'
  <1>1. /\ events' \in [Slots -> Event] /\ events'[s] = e
        /\ \A t \in Slots : t # s => events'[t] = events[t]
    BY DEF ClockInv, ClockTypeOK
  <1>2. hasNext' \in BOOLEAN /\ nextDeadline' \in Nat /\ CacheExact'
    <2>1. PICK E \in [Slots -> Event] : E = events'
      BY <1>1
    <2> QED BY <2>1, RefreshExact
  <1>3. OneSlotPerId'
    BY <1>1 DEF ClockInv, OneSlotPerId, Active, ActiveIn
  <1> QED BY <1>1, <1>2, <1>3 DEF ClockInv, ClockTypeOK

\* dol_event_clock_schedule takes the slot of its id or a free one.
LEMMA ScheduleKeeps ==
  ASSUME ClockInv, NEW i \in Id, NEW d \in Delay, NEW p \in Period, Schedule(i, d, p)
  PROVE  ClockInv'
  <1> DEFINE S == IF find_event(i) # {} THEN find_event(i) ELSE Slots \ Active
             s == FirstOf(S)
             e == [active |-> TRUE, id |-> i, deadline |-> now + d, period |-> p]
  <1>1. now \in Nat /\ e \in Event
    BY ClockAssumption DEF ClockInv, ClockTypeOK, Event
  <1>2. CASE S = {}
    <2>1. answer' = Refused /\ UNCHANGED <<now, events, hasNext, nextDeadline>>
      BY <1>2 DEF Schedule
    <2> QED BY <1>1, <2>1, ArrayKept DEF Refused
  <1>3. CASE S # {}
    <2>1. s \in S /\ s \in Slots
      <3>1. S \in SUBSET Slots
        BY DEF find_event, Active, ActiveIn
      <3> HIDE DEF S
      <3> QED BY <1>3, <3>1, FirstFound
    <2>2. /\ events' = [events EXCEPT ![s] = e] /\ answer' = Accepted /\ now' = now
          /\ refresh_next_deadline([events EXCEPT ![s] = e])
      BY <1>3 DEF Schedule
    <2>3. \A t \in Active : t # s => events[t].id # i
      BY <2>1 DEF find_event, ClockInv, OneSlotPerId
    <2> HIDE DEF s
    <2> QED BY <1>1, <2>1, <2>2, <2>3, SlotChanged DEF Accepted
  <1> QED BY <1>2, <1>3

\* dol_event_clock_cancel frees a slot.
LEMMA CancelKeeps ==
  ASSUME ClockInv, NEW i \in Id, Cancel(i)
  PROVE  ClockInv'
  <1> DEFINE s == FirstOf(find_event(i))
             e == [events[s] EXCEPT !.active = FALSE]
  <1>1. now \in Nat
    BY DEF ClockInv, ClockTypeOK
  <1>2. CASE find_event(i) = {}
    <2>1. answer' = Refused /\ UNCHANGED <<now, events, hasNext, nextDeadline>>
      BY <1>2 DEF Cancel
    <2> QED BY <1>1, <2>1, ArrayKept DEF Refused
  <1>3. CASE find_event(i) # {}
    <2>1. s \in Slots
      BY <1>3, FirstFound DEF find_event, Active, ActiveIn
    <2>2. /\ events' = [events EXCEPT ![s].active = FALSE] /\ answer' = Accepted /\ now' = now
          /\ refresh_next_deadline([events EXCEPT ![s].active = FALSE])
      BY <1>3 DEF Cancel
    <2> HIDE DEF s
    <2>3. e \in Event /\ ~e.active
      BY <2>1 DEF ClockInv, ClockTypeOK, Event
    <2>4. [events EXCEPT ![s].active = FALSE] = [events EXCEPT ![s] = e]
      BY <2>1 DEF ClockInv, ClockTypeOK
    <2> HIDE DEF e
    <2> QED BY <1>1, <2>1, <2>2, <2>3, <2>4, SlotChanged DEF Accepted
  <1> QED BY <1>2, <1>3

\* dol_event_clock_pop_due frees a slot or moves its deadline on.
LEMMA PopKeeps ==
  ASSUME ClockInv, PopDue
  PROVE  ClockInv'
  <1> DEFINE S == {s \in Active : events[s].deadline <= now}
  <1>1. now \in Nat /\ events \in [Slots -> Event] /\ now' = now
    BY DEF ClockInv, ClockTypeOK, PopDue
  <1>2. CASE FastPath \/ S = {}
    <2>1. answer' = Refused /\ UNCHANGED <<now, events, hasNext, nextDeadline>>
      BY <1>2 DEF PopDue
    <2> QED BY <1>1, <2>1, ArrayKept DEF Refused
  <1>3. CASE ~(FastPath \/ S = {})
    <2> DEFINE s == EarliestOf(events, S)
               f == events[s]
               e == IF f.period # 0 THEN [f EXCEPT !.deadline = @ + f.period] ELSE [f EXCEPT !.active = FALSE]
    <2>1. s \in Active /\ s \in Slots
      <3>1. S \in SUBSET Slots /\ S \subseteq Active
        BY DEF Active, ActiveIn
      <3> HIDE DEF S
      <3> QED BY <1>1, <1>3, <3>1, EarliestFound
    <2>2. PopAt(s)
      BY <1>3 DEF PopDue
    <2> HIDE DEF s
    <2>3. /\ events' = [events EXCEPT ![s] = e] /\ refresh_next_deadline([events EXCEPT ![s] = e])
          /\ answer' = Due(f.id, f.deadline)
      BY <2>2 DEF PopAt
    <2>4. f \in Event
      BY <1>1, <2>1
    <2>5. e \in Event /\ e.id = f.id
      <3> HIDE DEF f
      <3>1. f.deadline + f.period \in Nat
        BY <2>4 DEF Event
      <3>2. e = IF f.period # 0 THEN [f EXCEPT !.deadline = f.deadline + f.period] ELSE [f EXCEPT !.active = FALSE]
        BY <2>4 DEF Event
      <3> HIDE DEF e
      <3> QED BY <2>4, <3>1, <3>2 DEF Event
    <2>6. \A t \in Active : t # s => events[t].id # e.id
      BY <2>1, <2>5 DEF ClockInv, OneSlotPerId
    <2>7. answer'.ok \in BOOLEAN
      BY <2>3 DEF Due
    <2> HIDE DEF e
    <2> QED BY <1>1, <2>1, <2>3, <2>5, <2>6, <2>7, SlotChanged
  <1> QED BY <1>2, <1>3

\* Every step keeps the invariant.
LEMMA StepClock == ClockInv /\ [ClockNext]_clockVars => ClockInv'
  <1> SUFFICES ASSUME ClockInv, [ClockNext]_clockVars PROVE ClockInv' OBVIOUS
  <1>1. CASE UNCHANGED clockVars
    BY <1>1 DEF clockVars, ClockInv, ClockTypeOK, CacheExact, OneSlotPerId, Active, ActiveIn
  <1>2. ASSUME NEW n \in Work, Advance(n) PROVE ClockInv'
    <2>1. now' \in Nat /\ answer' = Accepted /\ UNCHANGED <<events, hasNext, nextDeadline>>
      BY <1>2, ClockAssumption DEF Advance, ClockInv, ClockTypeOK
    <2> QED BY <2>1, ArrayKept DEF Accepted
  <1> QED BY <1>1, <1>2, ScheduleKeeps, CancelKeeps, PopKeeps DEF ClockNext

\* The invariant holds in every behaviour.
LEMMA ClockInvariant == ClockSpec => []ClockInv
  BY InitClock, StepClock, PTL DEF ClockSpec

\* For every number of slots and ids, the cached deadline is the earliest active
\* one, so the fast path of dol_event_clock_pop_due never hides a due event.
THEOREM CacheIsExact == ClockSpec => []CacheExact
  <1>1. ClockInv => CacheExact
    BY DEF ClockInv
  <1> QED BY <1>1, ClockInvariant, PTL

\* For every number of slots and ids, an id has one slot: after
\* dol_event_clock_cancel or a new schedule nothing old of it can fire.
THEOREM IdsUnique == ClockSpec => []OneSlotPerId
  <1>1. ClockInv => OneSlotPerId
    BY DEF ClockInv
  <1> QED BY <1>1, ClockInvariant, PTL

-----------------------------------------------------------------------------
(* The array behaves as a queue of at most Capacity events, one per id.      *)

SlotIn(E, i) == CHOOSE s \in ActiveIn(E) : E[s].id = i
UniqueIn(E) == \A s, t \in ActiveIn(E) : E[s].id = E[t].id => s = t
EntryOf(e) == [deadline |-> e.deadline, period |-> e.period]
Pending(E) == [i \in {E[s].id : s \in ActiveIn(E)} |-> EntryOf(E[SlotIn(E, i)])]
PutEntry(P, i, x) == [j \in DOMAIN P \cup {i} |-> IF j = i THEN x ELSE P[j]]

\* What the array holds for an id is in the one active slot with that id.
LEMMA PendingOf ==
  ASSUME NEW E \in [Slots -> Event], UniqueIn(E)
  PROVE  /\ Pending(E) = [i \in DOMAIN Pending(E) |-> Pending(E)[i]]
         /\ \A i : i \in DOMAIN Pending(E) <=> \E s \in ActiveIn(E) : E[s].id = i
         /\ \A s \in ActiveIn(E) : Pending(E)[E[s].id] = EntryOf(E[s])
  <1> DEFINE I == {E[s].id : s \in ActiveIn(E)}
  <1>1. \A i : i \in I <=> \E s \in ActiveIn(E) : E[s].id = i
    BY Zenon
  <1>2. Pending(E) = [i \in I |-> EntryOf(E[SlotIn(E, i)])]
    BY DEF Pending
  <1>3. ASSUME NEW s \in ActiveIn(E)
        PROVE  SlotIn(E, E[s].id) = s
    <2>1. SlotIn(E, E[s].id) \in ActiveIn(E) /\ E[SlotIn(E, E[s].id)].id = E[s].id
      BY DEF SlotIn
    <2> QED BY <2>1 DEF UniqueIn
  <1> HIDE DEF I
  <1>4. DOMAIN Pending(E) = I /\ \A i \in I : Pending(E)[i] = EntryOf(E[SlotIn(E, i)])
    BY <1>2
  <1>5. Pending(E) = [i \in I |-> Pending(E)[i]]
    BY <1>2, <1>4
  <1> QED BY <1>1, <1>3, <1>4, <1>5

\* There are as many scheduled ids as active slots.
LEMMA PendingRoom ==
  ASSUME NEW E \in [Slots -> Event], UniqueIn(E)
  PROVE  Cardinality(DOMAIN Pending(E)) < Capacity <=> Slots \ ActiveIn(E) # {}
  <1> DEFINE A == ActiveIn(E)
             f == [s \in A |-> E[s].id]
             I == {E[s].id : s \in A}
  <1>1. IsFiniteSet(Slots) /\ Cardinality(Slots) = Capacity
    BY ClockAssumption, FS_Interval DEF Slots
  <1>2. A \in SUBSET Slots
    BY DEF ActiveIn
  <1>3. f \in Bijection(A, I)
    <2>1. f \in [A -> I] /\ \A i \in I : \E s \in A : f[s] = i
      OBVIOUS
    <2>2. \A s, t \in A : f[s] = f[t] => s = t
      BY DEF UniqueIn
    <2> QED BY <2>1, <2>2 DEF Bijection, Injection, Surjection, IsInjective
  <1>4. /\ IsFiniteSet(A) /\ Cardinality(A) <= Capacity /\ Cardinality(A) \in Nat
        /\ Cardinality(A) = Capacity => A = Slots
    BY <1>1, <1>2, FS_Subset, FS_CardinalityType
  <1>5. Cardinality(I) = Cardinality(A)
    <2>1. ExistsBijection(A, I)
      BY <1>3, Zenon DEF ExistsBijection
    <2> QED BY <1>4, <2>1, FS_Bijection
  <1>6. DOMAIN Pending(E) = I
    BY DEF Pending
  <1>7. Capacity \in Nat
    BY ClockAssumption
  <1> HIDE DEF f, I, A
  <1> QED BY <1>1, <1>2, <1>4, <1>5, <1>6, <1>7 DEF A

\* Filling a slot, with the id that is in it or a new one, sets that id's entry.
LEMMA PendingSet ==
  ASSUME NEW E \in [Slots -> Event], UniqueIn(E), NEW s \in Slots, NEW e \in Event, e.active,
         NEW F, F = [E EXCEPT ![s] = e], UniqueIn(F), s \in ActiveIn(E) => E[s].id = e.id
  PROVE  Pending(F) = PutEntry(Pending(E), e.id, EntryOf(e))
  <1> DEFINE D == DOMAIN Pending(E) \cup {e.id}
  <1>1. /\ F \in [Slots -> Event] /\ F[s] = e /\ \A t \in Slots : t # s => F[t] = E[t]
        /\ ActiveIn(F) = ActiveIn(E) \cup {s} /\ ActiveIn(E) \subseteq Slots
    BY DEF ActiveIn
  <1>2. /\ \A i : i \in DOMAIN Pending(E) <=> \E t \in ActiveIn(E) : E[t].id = i
        /\ \A t \in ActiveIn(E) : Pending(E)[E[t].id] = EntryOf(E[t])
    BY PendingOf
  <1>3. /\ \A i : i \in DOMAIN Pending(F) <=> \E t \in ActiveIn(F) : F[t].id = i
        /\ \A t \in ActiveIn(F) : Pending(F)[F[t].id] = EntryOf(F[t])
    BY <1>1, PendingOf
  <1>4. DOMAIN Pending(F) = D
    <2>1. ASSUME NEW i, i \in DOMAIN Pending(F) PROVE i \in D
      <3>1. PICK t \in ActiveIn(F) : F[t].id = i
        BY <1>3, <2>1
      <3>2. CASE t = s
        BY <1>1, <3>1, <3>2
      <3>3. CASE t # s
        <4>1. t \in ActiveIn(E) /\ E[t].id = i
          BY <1>1, <3>1, <3>3
        <4> QED BY <1>2, <4>1
      <3> QED BY <3>2, <3>3
    <2>2. ASSUME NEW i, i \in DOMAIN Pending(E) PROVE i \in DOMAIN Pending(F)
      <3>1. PICK t \in ActiveIn(E) : E[t].id = i
        BY <1>2, <2>2
      <3>2. t \in ActiveIn(F) /\ F[t].id = i
        BY <1>1, <3>1
      <3> QED BY <1>3, <3>2
    <2>3. e.id \in DOMAIN Pending(F)
      <3>1. s \in ActiveIn(F) /\ F[s].id = e.id
        BY <1>1
      <3> QED BY <1>3, <3>1
    <2> QED BY <2>1, <2>2, <2>3
  <1>5. ASSUME NEW i \in D
        PROVE  Pending(F)[i] = IF i = e.id THEN EntryOf(e) ELSE Pending(E)[i]
    <2>1. PICK t \in ActiveIn(F) : F[t].id = i
      BY <1>3, <1>4
    <2>2. Pending(F)[i] = EntryOf(F[t])
      BY <1>3, <2>1
    <2>3. CASE t = s
      BY <1>1, <2>1, <2>2, <2>3
    <2>4. CASE t # s
      <3>1. t \in ActiveIn(E) /\ F[t] = E[t] /\ i # e.id
        BY <1>1, <2>1, <2>4 DEF UniqueIn
      <3> QED BY <1>2, <2>1, <2>2, <3>1
    <2> QED BY <2>3, <2>4
  <1>6. Pending(F) = [i \in D |-> Pending(F)[i]]
    BY <1>1, <1>4, PendingOf
  <1> HIDE DEF D
  <1>7. [i \in D |-> Pending(F)[i]] = [j \in D |-> IF j = e.id THEN EntryOf(e) ELSE Pending(E)[j]]
    BY <1>5
  <1> QED BY <1>6, <1>7 DEF D, PutEntry

\* Freeing a slot takes its id away.
LEMMA PendingFreed ==
  ASSUME NEW E \in [Slots -> Event], UniqueIn(E), NEW s \in ActiveIn(E), NEW e \in Event, ~e.active,
         NEW F, F = [E EXCEPT ![s] = e], UniqueIn(F)
  PROVE  Pending(F) = [j \in DOMAIN Pending(E) \ {E[s].id} |-> Pending(E)[j]]
  <1> DEFINE D == DOMAIN Pending(E) \ {E[s].id}
  <1>1. /\ F \in [Slots -> Event] /\ \A t \in Slots : t # s => F[t] = E[t]
        /\ ActiveIn(F) = ActiveIn(E) \ {s} /\ ActiveIn(E) \subseteq Slots
    BY DEF ActiveIn
  <1>2. /\ \A i : i \in DOMAIN Pending(E) <=> \E t \in ActiveIn(E) : E[t].id = i
        /\ \A t \in ActiveIn(E) : Pending(E)[E[t].id] = EntryOf(E[t])
    BY PendingOf
  <1>3. /\ \A i : i \in DOMAIN Pending(F) <=> \E t \in ActiveIn(F) : F[t].id = i
        /\ \A t \in ActiveIn(F) : Pending(F)[F[t].id] = EntryOf(F[t])
    BY <1>1, PendingOf
  <1>4. DOMAIN Pending(F) = D
    <2>1. ASSUME NEW i, i \in DOMAIN Pending(F) PROVE i \in D
      <3>1. PICK t \in ActiveIn(F) : F[t].id = i
        BY <1>3, <2>1
      <3>2. t \in ActiveIn(E) /\ E[t].id = i /\ i # E[s].id
        BY <1>1, <3>1 DEF UniqueIn
      <3> QED BY <1>2, <3>2
    <2>2. ASSUME NEW i, i \in D PROVE i \in DOMAIN Pending(F)
      <3>1. PICK t \in ActiveIn(E) : E[t].id = i
        BY <1>2, <2>2
      <3>2. t \in ActiveIn(F) /\ F[t].id = i
        BY <1>1, <2>2, <3>1
      <3> QED BY <1>3, <3>2
    <2> QED BY <2>1, <2>2
  <1>5. ASSUME NEW i \in D
        PROVE  Pending(F)[i] = Pending(E)[i]
    <2>1. PICK t \in ActiveIn(F) : F[t].id = i
      BY <1>3, <1>4
    <2>2. t \in ActiveIn(E) /\ E[t] = F[t]
      BY <1>1
    <2>3. Pending(F)[F[t].id] = EntryOf(F[t])
      BY <1>3
    <2>4. Pending(E)[E[t].id] = EntryOf(E[t])
      BY <1>2, <2>2
    <2> QED BY <2>1, <2>2, <2>3, <2>4
  <1>6. Pending(F) = [i \in D |-> Pending(F)[i]]
    BY <1>1, <1>4, PendingOf
  <1> HIDE DEF D
  <1>7. [i \in D |-> Pending(F)[i]] = [j \in D |-> Pending(E)[j]]
    BY <1>5
  <1> QED BY <1>6, <1>7 DEF D

\* The refinement mapping of BehavesAsQueue.
Mapped == [i \in {events[s].id : s \in Active} |->
             [deadline |-> events[SlotOf(i)].deadline, period |-> events[SlotOf(i)].period]]

\* The mapping before and after a step is what the arrays hold.
LEMMA MappedSteps ==
  ASSUME ClockInv, ClockInv'
  PROVE  /\ events \in [Slots -> Event] /\ UniqueIn(events) /\ Active = ActiveIn(events)
         /\ Mapped = Pending(events)
         /\ events' \in [Slots -> Event] /\ UniqueIn(events') /\ Mapped' = Pending(events')
  <1>1. /\ events \in [Slots -> Event] /\ UniqueIn(events) /\ Active = ActiveIn(events)
        /\ events' \in [Slots -> Event] /\ UniqueIn(events')
    BY DEF ClockInv, ClockTypeOK, OneSlotPerId, UniqueIn, Active
  <1>2. Mapped = Pending(events)
    BY DEF Mapped, Active, Pending, SlotIn, SlotOf, EntryOf
  <1>3. Mapped' = Pending(events')
    BY DEF Mapped, Active, Pending, SlotIn, SlotOf, EntryOf
  <1> QED BY <1>1, <1>2, <1>3

\* An id is scheduled when find_event finds it.
LEMMA PendingFound ==
  ASSUME ClockInv, NEW i
  PROVE  i \in DOMAIN Pending(events) <=> find_event(i) # {}
  <1>1. events \in [Slots -> Event] /\ UniqueIn(events) /\ Active = ActiveIn(events)
    BY DEF ClockInv, ClockTypeOK, OneSlotPerId, UniqueIn, Active
  <1>2. i \in DOMAIN Pending(events) <=> \E s \in Active : events[s].id = i
    BY <1>1, PendingOf
  <1> QED BY <1>2 DEF find_event

\* A step that leaves the array alone leaves the queue alone.
LEMMA MappedKept == UNCHANGED events => Mapped' = Mapped
  BY DEF Mapped, Active, ActiveIn, SlotOf

\* EventQueue counts with the same Cardinality.
LEMMA SameCardinality == \A X : Queue!Cardinality(X) = Cardinality(X)
  BY Zenon DEF Cardinality, Queue!Cardinality, IsFiniteSet, Queue!IsFiniteSet

\* dol_event_clock_schedule replaces the id's event, adds it, or refuses when full.
LEMMA ScheduleRefines ==
  ASSUME ClockInv, ClockInv', NEW i \in Id, NEW d \in Delay, NEW p \in Period, Schedule(i, d, p)
  PROVE  Queue!QueueSchedule(i, d, p)
  <1> DEFINE S == IF find_event(i) # {} THEN find_event(i) ELSE Slots \ Active
             s == FirstOf(S)
             e == [active |-> TRUE, id |-> i, deadline |-> now + d, period |-> p]
             Room == i \in DOMAIN Mapped \/ Cardinality(DOMAIN Mapped) < Capacity
  <1>1. Room <=> S # {}
    BY MappedSteps, PendingFound, PendingRoom
  <1>2. CASE S = {}
    <2>1. answer' = Refused /\ UNCHANGED <<now, events>>
      BY <1>2 DEF Schedule
    <2>2. ~Room /\ answer' = Queue!Refused /\ now' = now /\ Mapped' = Mapped
      BY <1>1, <1>2, <2>1, MappedKept DEF Refused, Queue!Refused
    <2> QED BY <2>2, SameCardinality DEF Queue!QueueSchedule, Mapped
  <1>3. CASE S # {}
    <2>1. s \in S /\ s \in Slots
      <3>1. S \in SUBSET Slots
        BY DEF find_event, Active, ActiveIn
      <3> HIDE DEF S
      <3> QED BY <1>3, <3>1, FirstFound
    <2>2. events' = [events EXCEPT ![s] = e] /\ answer' = Accepted /\ now' = now
      BY <1>3 DEF Schedule
    <2>3. s \in Active => events[s].id = i
      BY <2>1 DEF find_event
    <2>4. e \in Event /\ e.active /\ e.id = i /\ EntryOf(e) = [deadline |-> now + d, period |-> p]
      BY ClockAssumption DEF ClockInv, ClockTypeOK, Event, EntryOf
    <2> HIDE DEF s, e
    <2>5. Pending(events') = PutEntry(Pending(events), e.id, EntryOf(e))
      <3>1. PICK E, F : E = events /\ F = events'
        OBVIOUS
      <3>2. /\ E \in [Slots -> Event] /\ UniqueIn(E) /\ UniqueIn(F) /\ F = [E EXCEPT ![s] = e]
            /\ s \in ActiveIn(E) => E[s].id = e.id
        BY <2>2, <2>3, <2>4, <3>1, MappedSteps
      <3>3. Pending(F) = PutEntry(Pending(E), e.id, EntryOf(e))
        BY <2>1, <2>4, <3>2, PendingSet, Zenon
      <3> QED BY <3>1, <3>3
    <2>6. Mapped' = [j \in DOMAIN Mapped \cup {i} |->
                       IF j = i THEN [deadline |-> now + d, period |-> p] ELSE Mapped[j]]
      BY <2>4, <2>5, MappedSteps DEF PutEntry
    <2>7. Room /\ answer' = Queue!Accepted
      BY <1>1, <1>3, <2>2 DEF Accepted, Queue!Accepted
    <2> QED BY <2>2, <2>6, <2>7, SameCardinality DEF Queue!QueueSchedule, Mapped
  <1> QED BY <1>2, <1>3

\* dol_event_clock_cancel takes the id away or refuses.
LEMMA CancelRefines ==
  ASSUME ClockInv, ClockInv', NEW i \in Id, Cancel(i)
  PROVE  Queue!QueueCancel(i)
  <1> DEFINE s == FirstOf(find_event(i))
             e == [events[s] EXCEPT !.active = FALSE]
  <1>1. i \in DOMAIN Mapped <=> find_event(i) # {}
    BY MappedSteps, PendingFound
  <1>2. CASE find_event(i) = {}
    <2>1. answer' = Refused /\ UNCHANGED <<now, events>>
      BY <1>2 DEF Cancel
    <2>2. i \notin DOMAIN Mapped /\ answer' = Queue!Refused /\ now' = now /\ Mapped' = Mapped
      BY <1>1, <1>2, <2>1, MappedKept DEF Refused, Queue!Refused
    <2> QED BY <2>2 DEF Queue!QueueCancel, Mapped
  <1>3. CASE find_event(i) # {}
    <2>1. s \in Active /\ s \in Slots /\ events[s].id = i
      BY <1>3, FirstFound DEF find_event, Active, ActiveIn
    <2>2. events' = [events EXCEPT ![s].active = FALSE] /\ answer' = Accepted /\ now' = now
      BY <1>3 DEF Cancel
    <2> HIDE DEF s
    <2>3. e \in Event /\ ~e.active /\ events' = [events EXCEPT ![s] = e]
      BY <2>1, <2>2 DEF ClockInv, ClockTypeOK, Event
    <2> HIDE DEF e
    <2>4. Pending(events') = [j \in DOMAIN Pending(events) \ {i} |-> Pending(events)[j]]
      <3>1. PICK E, F : E = events /\ F = events'
        OBVIOUS
      <3>2. /\ E \in [Slots -> Event] /\ UniqueIn(E) /\ UniqueIn(F) /\ F = [E EXCEPT ![s] = e]
            /\ s \in ActiveIn(E)
        BY <2>1, <2>3, <3>1, MappedSteps
      <3>3. Pending(F) = [j \in DOMAIN Pending(E) \ {E[s].id} |-> Pending(E)[j]]
        BY <2>3, <3>2, PendingFreed, Zenon
      <3> QED BY <2>1, <3>1, <3>3
    <2>5. Mapped' = [j \in DOMAIN Mapped \ {i} |-> Mapped[j]]
      BY <2>4, MappedSteps
    <2>6. i \in DOMAIN Mapped /\ answer' = Queue!Accepted
      BY <1>1, <1>3, <2>2 DEF Accepted, Queue!Accepted
    <2> QED BY <2>2, <2>5, <2>6 DEF Queue!QueueCancel, Queue!Without, Mapped
  <1> QED BY <1>2, <1>3

\* dol_event_clock_pop_due answers with an earliest due event, or there is none.
LEMMA PopRefines ==
  ASSUME ClockInv, ClockInv', PopDue
  PROVE  Queue!QueuePop
  <1> DEFINE S == {s \in Active : events[s].deadline <= now}
  <1>1. /\ now \in Nat /\ events \in [Slots -> Event] /\ now' = now /\ UniqueIn(events)
        /\ Active = ActiveIn(events) /\ Active \subseteq Slots
    BY MappedSteps DEF ClockInv, ClockTypeOK, PopDue, ActiveIn
  <1>2. /\ \A i : i \in DOMAIN Mapped <=> \E s \in Active : events[s].id = i
        /\ \A s \in Active : Mapped[events[s].id] = EntryOf(events[s])
    BY <1>1, MappedSteps, PendingOf
  <1>3. CASE FastPath \/ S = {}
    <2>1. answer' = Refused /\ UNCHANGED events
      BY <1>3 DEF PopDue
    <2>2. \A s \in Active : events[s].deadline > now
      BY <1>1, <1>3 DEF FastPath, ClockInv, ClockTypeOK, CacheExact, Event
    <2>3. ASSUME NEW i \in DOMAIN Mapped PROVE Mapped[i].deadline > now
      <3>1. PICK s \in Active : events[s].id = i
        BY <1>2
      <3>2. Mapped[i] = EntryOf(events[s])
        BY <1>2, <3>1
      <3> QED BY <2>2, <3>2 DEF EntryOf
    <2>4. answer' = Queue!Refused /\ Mapped' = Mapped
      BY <2>1, MappedKept DEF Refused, Queue!Refused
    <2> QED BY <1>1, <2>3, <2>4 DEF Queue!QueuePop, Mapped
  <1>4. CASE ~(FastPath \/ S = {})
    <2> DEFINE s == EarliestOf(events, S)
               f == events[s]
               e == IF f.period # 0 THEN [f EXCEPT !.deadline = @ + f.period] ELSE [f EXCEPT !.active = FALSE]
    <2>1. s \in S /\ \A t \in S : events[s].deadline <= events[t].deadline
      <3>1. S \in SUBSET Slots
        BY <1>1
      <3> HIDE DEF S
      <3> QED BY <1>1, <1>4, <3>1, EarliestFound
    <2>2. PopAt(s)
      BY <1>4 DEF PopDue
    <2> HIDE DEF s
    <2>3. events' = [events EXCEPT ![s] = e] /\ answer' = Due(f.id, f.deadline)
      BY <2>2 DEF PopAt
    <2>4. s \in Active /\ s \in Slots /\ f \in Event /\ f.active /\ f.deadline <= now
      BY <1>1, <2>1 DEF Active, ActiveIn
    <2>5. ASSUME NEW j \in DOMAIN Mapped PROVE f.deadline <= Mapped[j].deadline
      <3>1. PICK t \in Active : events[t].id = j
        BY <1>2
      <3>2. Mapped[j] = EntryOf(events[t])
        BY <1>2, <3>1
      <3>3. events[t].deadline \in Nat /\ f.deadline \in Nat
        BY <1>1, <2>4 DEF Event
      <3>4. f.deadline <= events[t].deadline
        BY <1>1, <2>1, <2>4, <3>3
      <3> QED BY <3>2, <3>4 DEF EntryOf
    <2>6. f.id \in DOMAIN Mapped /\ Mapped[f.id] = EntryOf(f)
      BY <1>2, <2>4
    <2>7. Mapped[f.id].deadline = f.deadline /\ Mapped[f.id].period = f.period
      BY <2>6 DEF EntryOf
    <2>8. answer' = Queue!Due(f.id, Mapped[f.id].deadline)
      BY <2>3, <2>7 DEF Due, Queue!Due
    <2>9. Mapped' = IF Mapped[f.id].period = 0 THEN [j \in DOMAIN Mapped \ {f.id} |-> Mapped[j]]
                    ELSE [Mapped EXCEPT ![f.id].deadline = @ + Mapped[f.id].period]
      <3>1. PICK E, F : E = events /\ F = events'
        OBVIOUS
      <3>2. /\ E \in [Slots -> Event] /\ UniqueIn(E) /\ UniqueIn(F) /\ F = [E EXCEPT ![s] = e]
            /\ s \in ActiveIn(E) /\ E[s] = f /\ Mapped = Pending(E) /\ Mapped' = Pending(F)
        BY <2>3, <2>4, <3>1, MappedSteps
      <3> HIDE DEF f
      <3>3. CASE f.period = 0
        <4>1. e \in Event /\ ~e.active
          BY <2>4, <3>3 DEF Event
        <4> HIDE DEF e
        <4>2. Pending(F) = [j \in DOMAIN Pending(E) \ {E[s].id} |-> Pending(E)[j]]
          BY <3>2, <4>1, PendingFreed, Zenon
        <4> QED BY <2>7, <3>2, <3>3, <4>2
      <3>4. CASE f.period # 0
        <4>1. f.deadline + f.period \in Nat /\ e = [f EXCEPT !.deadline = f.deadline + f.period]
          BY <2>4, <3>4 DEF Event
        <4> HIDE DEF e
        <4>2. /\ e \in Event /\ e.active /\ e.id = f.id
              /\ EntryOf(e) = [deadline |-> f.deadline + f.period, period |-> f.period]
          BY <2>4, <4>1 DEF Event, EntryOf
        <4>3. Pending(F) = PutEntry(Pending(E), e.id, EntryOf(e))
          <5>1. s \in ActiveIn(E) => E[s].id = e.id
            BY <3>2, <4>2
          <5> QED BY <2>4, <3>2, <4>2, <5>1, PendingSet, Zenon
        <4>4. Mapped' = [j \in DOMAIN Mapped |->
                          IF j = f.id THEN [deadline |-> f.deadline + f.period, period |-> f.period]
                          ELSE Mapped[j]]
          <5>1. DOMAIN Mapped \cup {f.id} = DOMAIN Mapped
            BY <2>6
          <5> QED BY <3>2, <4>2, <4>3, <5>1 DEF PutEntry
        <4>5. [Mapped[f.id] EXCEPT !.deadline = @ + f.period]
                = [deadline |-> f.deadline + f.period, period |-> f.period]
          BY <2>6 DEF EntryOf
        <4>6. [Mapped EXCEPT ![f.id].deadline = @ + Mapped[f.id].period] =
                [j \in DOMAIN Mapped |->
                   IF j = f.id THEN [deadline |-> f.deadline + f.period, period |-> f.period]
                   ELSE Mapped[j]]
          BY <2>6, <2>7, <4>5
        <4> QED BY <2>7, <3>4, <4>4, <4>6
      <3> QED BY <3>3, <3>4
    <2> HIDE DEF f
    <2>10. \E i \in DOMAIN Mapped :
             /\ Mapped[i].deadline <= now
             /\ \A j \in DOMAIN Mapped : Mapped[i].deadline <= Mapped[j].deadline
             /\ answer' = Queue!Due(i, Mapped[i].deadline)
             /\ Mapped' = IF Mapped[i].period = 0 THEN [j \in DOMAIN Mapped \ {i} |-> Mapped[j]]
                          ELSE [Mapped EXCEPT ![i].deadline = @ + Mapped[i].period]
      BY <2>4, <2>5, <2>6, <2>7, <2>8, <2>9
    <2> QED BY <1>1, <2>10 DEF Queue!QueuePop, Queue!Without, Mapped
  <1> QED BY <1>3, <1>4

\* Every step of the clock is a step of the queue, or none.
LEMMA QueueStep == ClockInv /\ ClockInv' /\ [ClockNext]_clockVars => [Queue!QueueNext]_(Queue!queueVars)
  <1> SUFFICES ASSUME ClockInv, ClockInv', [ClockNext]_clockVars
               PROVE  [Queue!QueueNext]_(Queue!queueVars)
    OBVIOUS
  <1>1. CASE UNCHANGED clockVars
    <2>1. Mapped' = Mapped /\ now' = now /\ answer' = answer
      BY <1>1, MappedKept DEF clockVars
    <2> QED BY <2>1 DEF Queue!queueVars, Mapped
  <1>2. ASSUME NEW n \in Work, Advance(n) PROVE Queue!QueueAdvance(n)
    <2>1. Mapped' = Mapped /\ now' = now + n /\ answer' = Queue!Accepted
      BY <1>2, MappedKept DEF Advance, Accepted, Queue!Accepted
    <2> QED BY <2>1 DEF Queue!QueueAdvance, Mapped
  <1>3. ASSUME NEW n \in Work, Advance(n) PROVE Queue!QueueNext
    BY <1>2, <1>3 DEF Queue!QueueNext
  <1>4. ASSUME NEW i \in Id, NEW d \in Delay, NEW p \in Period, Schedule(i, d, p) PROVE Queue!QueueNext
    BY <1>4, ScheduleRefines DEF Queue!QueueNext
  <1>5. ASSUME NEW i \in Id, Cancel(i) PROVE Queue!QueueNext
    BY <1>5, CancelRefines DEF Queue!QueueNext
  <1>6. CASE PopDue
    BY <1>6, PopRefines DEF Queue!QueueNext
  <1> QED BY <1>1, <1>3, <1>4, <1>5, <1>6 DEF ClockNext

\* For every number of slots and ids, the array of slots with its cached deadline
\* behaves as EventQueue: dol_event_clock_pop_due answers in deadline order, loses
\* and repeats nothing, and schedule refuses only when the array is full.
THEOREM ClockIsQueue == ClockSpec => BehavesAsQueue
  <1>1. ClockInit => Queue!QueueInit
    <2> SUFFICES ASSUME ClockInit PROVE Queue!QueueInit
      OBVIOUS
    <2>1. Active = {}
      BY DEF ClockInit, Active, ActiveIn, NoEvent
    <2>2. now = 0 /\ answer = Queue!Accepted
      BY DEF ClockInit, Accepted, Queue!Accepted
    <2>3. Mapped = [i \in {} |-> 0]
      BY <2>1 DEF Mapped
    <2> QED BY <2>2, <2>3 DEF Queue!QueueInit, Mapped
  <1> QED BY <1>1, ClockInvariant, QueueStep, PTL DEF ClockSpec, BehavesAsQueue, Queue!QueueSpec
=============================================================================
