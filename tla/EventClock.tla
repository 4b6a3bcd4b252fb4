------------------------------ MODULE EventClock ------------------------------
(***************************************************************************)
(* GXRuntime's event clock (event_clock.c): a fixed array of event slots   *)
(* and a cached earliest deadline that lets dol_event_clock_pop_due return *)
(* without looking at the array.  Work units are natural numbers: a u64    *)
(* that counts guest blocks does not wrap.                                 *)
(***************************************************************************)
EXTENDS Integers, FiniteSets

CONSTANTS
    Capacity,           \* DOL_EVENT_CLOCK_MAX_EVENTS (32)
    Id,                 \* the event ids in use
    NoId,               \* the id of a slot never used
    Delay, Period,      \* arguments of schedule (bound)
    Work,               \* arguments of advance (bound)
    MaxNow              \* no advance beyond this work unit (bound)

ASSUME ClockAssumption ==
    /\ Capacity \in Nat \ {0} /\ NoId \notin Id
    /\ Delay \subseteq Nat /\ Period \subseteq Nat /\ Work \subseteq Nat /\ MaxNow \in Nat

VARIABLES
    now,            \* clock->now
    events,         \* clock->events
    hasNext,        \* clock->has_next
    nextDeadline,   \* clock->next_deadline
    answer          \* what the last call returned

clockVars == <<now, events, hasNext, nextDeadline, answer>>

Slots == 1 .. Capacity

Event == [active : BOOLEAN, id : Id \cup {NoId}, deadline : Nat, period : Nat]
NoEvent == [active |-> FALSE, id |-> NoId, deadline |-> 0, period |-> 0]

Refused == [ok |-> FALSE]
Accepted == [ok |-> TRUE]
Due(i, d) == [ok |-> TRUE, id |-> i, deadline |-> d]

ClockTypeOK ==
    /\ now \in Nat
    /\ events \in [Slots -> Event]
    /\ hasNext \in BOOLEAN
    /\ nextDeadline \in Nat
    /\ answer.ok \in BOOLEAN

ClockInit ==
    /\ now = 0
    /\ events = [s \in Slots |-> NoEvent]
    /\ hasNext = FALSE
    /\ nextDeadline = 0
    /\ answer = Accepted

-----------------------------------------------------------------------------

ActiveIn(E) == {s \in Slots : E[s].active}
Active == ActiveIn(events)

\* The slot a scan from the first one on settles for: first_match, and the
\* earliest deadline among S with ties going to the lower slot.
FirstOf(S) == CHOOSE s \in S : \A t \in S : s <= t
EarliestOf(E, S) ==
    CHOOSE s \in S : \A t \in S : E[s].deadline < E[t].deadline
                                    \/ (E[s].deadline = E[t].deadline /\ s <= t)

\* RefreshOnlyEarlier: lowers the cached deadline but never raises it.
RefreshOnlyEarlier(E) ==
    /\ hasNext' = (ActiveIn(E) # {})
    /\ nextDeadline' = IF ActiveIn(E) = {} THEN 0
                       ELSE LET d == E[EarliestOf(E, ActiveIn(E))].deadline
                            IN  IF hasNext /\ nextDeadline < d THEN nextDeadline ELSE d

refresh_next_deadline(E) ==
    /\ hasNext' = (ActiveIn(E) # {})
    /\ nextDeadline' = IF ActiveIn(E) = {} THEN 0 ELSE E[EarliestOf(E, ActiveIn(E))].deadline

find_event(i) == {s \in Active : events[s].id = i}

Advance(n) ==
    /\ now' = now + n
    /\ answer' = Accepted
    /\ UNCHANGED <<events, hasNext, nextDeadline>>

\* ScheduleFresh: takes a free slot although the id is already scheduled.
ScheduleFresh(i, delay, period) ==
    LET S == IF Slots \ Active # {} THEN Slots \ Active ELSE find_event(i)
        E == [events EXCEPT ![FirstOf(S)] =
                [active |-> TRUE, id |-> i, deadline |-> now + delay, period |-> period]]
    IN  IF S = {}
        THEN answer' = Refused /\ UNCHANGED <<now, events, hasNext, nextDeadline>>
        ELSE events' = E /\ refresh_next_deadline(E) /\ answer' = Accepted /\ UNCHANGED now

\* An event with the same id is overwritten; a new one takes the first free slot.
Schedule(i, delay, period) ==
    LET S == IF find_event(i) # {} THEN find_event(i) ELSE Slots \ Active
        E == [events EXCEPT ![FirstOf(S)] =
                [active |-> TRUE, id |-> i, deadline |-> now + delay, period |-> period]]
    IN  IF S = {}
        THEN answer' = Refused /\ UNCHANGED <<now, events, hasNext, nextDeadline>>
        ELSE events' = E /\ refresh_next_deadline(E) /\ answer' = Accepted /\ UNCHANGED now

Cancel(i) ==
    LET S == find_event(i)
        E == [events EXCEPT ![FirstOf(S)].active = FALSE]
    IN  IF S = {}
        THEN answer' = Refused /\ UNCHANGED <<now, events, hasNext, nextDeadline>>
        ELSE events' = E /\ refresh_next_deadline(E) /\ answer' = Accepted /\ UNCHANGED now

\* Nothing active, or the cached deadline lies ahead: the array is not read.
FastPath == ~hasNext \/ now < nextDeadline

\* The slot PopDue takes, its state afterwards, and what the caller learns.
PopAt(s) ==
    LET e == events[s]
        E == [events EXCEPT ![s] = IF e.period # 0 THEN [e EXCEPT !.deadline = @ + e.period]
                                   ELSE [e EXCEPT !.active = FALSE]]
    IN  events' = E /\ refresh_next_deadline(E) /\ answer' = Due(e.id, e.deadline)

\* PopFromNow: a periodic event comes back one period after the pop.
PopFromNow ==
    LET S == {s \in Active : events[s].deadline <= now}
        s == EarliestOf(events, S)
        e == events[s]
        E == [events EXCEPT ![s] = IF e.period # 0 THEN [e EXCEPT !.deadline = now + e.period]
                                   ELSE [e EXCEPT !.active = FALSE]]
    IN  /\ UNCHANGED now
        /\ IF FastPath \/ S = {}
           THEN answer' = Refused /\ UNCHANGED <<events, hasNext, nextDeadline>>
           ELSE events' = E /\ refresh_next_deadline(E) /\ answer' = Due(e.id, e.deadline)

\* PopAgain: a periodic event keeps its deadline.
PopAgain ==
    LET S == {s \in Active : events[s].deadline <= now}
        s == EarliestOf(events, S)
        e == events[s]
    IN  /\ UNCHANGED <<now, events, hasNext, nextDeadline>>
        /\ IF FastPath \/ S = {} THEN answer' = Refused ELSE answer' = Due(e.id, e.deadline)

PopDue ==
    LET S == {s \in Active : events[s].deadline <= now}
    IN  /\ UNCHANGED now
        /\ IF FastPath \/ S = {}
           THEN answer' = Refused /\ UNCHANGED <<events, hasNext, nextDeadline>>
           ELSE PopAt(EarliestOf(events, S))

-----------------------------------------------------------------------------

ClockNext ==
    \/ \E n \in Work : now + n <= MaxNow /\ Advance(n)
    \/ \E i \in Id, d \in Delay, p \in Period : Schedule(i, d, p)
    \/ \E i \in Id : Cancel(i)
    \/ PopDue

ClockSpec == ClockInit /\ [][ClockNext]_clockVars

-----------------------------------------------------------------------------

\* The cached deadline is exactly the earliest active one, after every schedule,
\* cancel and pop: the fast path of pop_due never hides a due event.
CacheExact ==
    /\ hasNext <=> Active # {}
    /\ hasNext => /\ \E s \in Active : events[s].deadline = nextDeadline
                  /\ \A s \in Active : nextDeadline <= events[s].deadline

\* No id occupies two slots, so cancelling or rescheduling it leaves nothing
\* behind that could still fire.
OneSlotPerId ==
    \A s, t \in Active : events[s].id = events[t].id => s = t

SlotOf(i) == CHOOSE s \in Active : events[s].id = i

\* The slots and their cached deadline behave as the queue of EventQueue: pops
\* come in deadline order, are never lost or repeated, and a request is refused
\* only when the array is full.
Queue == INSTANCE EventQueue WITH
            pending <- [i \in {events[s].id : s \in Active} |->
                          [deadline |-> events[SlotOf(i)].deadline,
                           period |-> events[SlotOf(i)].period]]

BehavesAsQueue == Queue!QueueSpec
=============================================================================
