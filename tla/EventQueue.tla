------------------------------ MODULE EventQueue ------------------------------
(***************************************************************************)
(* What GXRuntime's event clock promises: at most Capacity pending events, *)
(* one per id; scheduling a known id replaces it; a pop returns an event   *)
(* with the smallest deadline among those that are due, and a periodic     *)
(* event comes back one period after its deadline, not after the pop.      *)
(***************************************************************************)
EXTENDS Integers, FiniteSets

CONSTANTS Capacity, Id, Delay, Period, Work

VARIABLES
    now,        \* the current work unit
    pending,    \* id -> [deadline, period], for the scheduled ids
    answer      \* what the last call returned

queueVars == <<now, pending, answer>>

Refused == [ok |-> FALSE]
Accepted == [ok |-> TRUE]
Due(i, d) == [ok |-> TRUE, id |-> i, deadline |-> d]

QueueInit ==
    /\ now = 0
    /\ pending = [i \in {} |-> 0]
    /\ answer = Accepted

QueueAdvance(n) ==
    /\ now' = now + n
    /\ answer' = Accepted
    /\ UNCHANGED pending

QueueSchedule(i, delay, period) ==
    /\ UNCHANGED now
    /\ IF i \in DOMAIN pending \/ Cardinality(DOMAIN pending) < Capacity
       THEN /\ pending' = [j \in DOMAIN pending \cup {i} |->
                             IF j = i THEN [deadline |-> now + delay, period |-> period]
                             ELSE pending[j]]
            /\ answer' = Accepted
       ELSE answer' = Refused /\ UNCHANGED pending

Without(i) == [j \in DOMAIN pending \ {i} |-> pending[j]]

QueueCancel(i) ==
    /\ UNCHANGED now
    /\ IF i \in DOMAIN pending
       THEN pending' = Without(i) /\ answer' = Accepted
       ELSE answer' = Refused /\ UNCHANGED pending

QueuePop ==
    /\ UNCHANGED now
    /\ \/ /\ \A i \in DOMAIN pending : pending[i].deadline > now
          /\ answer' = Refused
          /\ UNCHANGED pending
       \/ \E i \in DOMAIN pending :
             /\ pending[i].deadline <= now
             /\ \A j \in DOMAIN pending : pending[i].deadline <= pending[j].deadline
             /\ answer' = Due(i, pending[i].deadline)
             /\ pending' = IF pending[i].period = 0 THEN Without(i)
                           ELSE [pending EXCEPT ![i].deadline = @ + pending[i].period]

QueueNext ==
    \/ \E n \in Work : QueueAdvance(n)
    \/ \E i \in Id, d \in Delay, p \in Period : QueueSchedule(i, d, p)
    \/ \E i \in Id : QueueCancel(i)
    \/ QueuePop

QueueSpec == QueueInit /\ [][QueueNext]_queueVars
=============================================================================
