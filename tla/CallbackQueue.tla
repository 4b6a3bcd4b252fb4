---------------------------- MODULE CallbackQueue ----------------------------
(***************************************************************************)
(* Guest callbacks of GXRuntime's HLE layer (hle_core.c).  An asynchronous *)
(* card call does its work at once and queues the guest's callback in a    *)
(* ring; the main loop polls the ring before every guest block, saves the  *)
(* context it is about to leave and sends the CPU into the callback, whose *)
(* return address the dispatcher recognises.  One callback runs at a time. *)
(*                                                                         *)
(* A CPU context is a value: one of the guest's own, or that of a callback *)
(* on its way.                                                             *)
(***************************************************************************)
EXTENDS Integers, Sequences

CONSTANTS
    RingSize,       \* HLE_CALLBACK_QUEUE_CAPACITY (32)
    Callback,       \* callback addresses the guest passes
    NoCallback,     \* a null callback pointer
    GuestContext    \* contexts of the guest's threads and interrupt handlers

ASSUME RingAssumption ==
    /\ RingSize \in Nat \ {0} /\ NoCallback \notin Callback
    /\ Callback \cap GuestContext = {} /\ GuestContext # {}

VARIABLES
    ring, ringRead, ringCount,  \* g_callback_queue, g_callback_read, g_callback_count
    callbackActive,             \* g_callback_active
    callbackContext,            \* g_callback_context
    cpu,                        \* the CPU's context
    parked,                     \* the callback's context while its thread is switched out
    told,                       \* r3 of the last asynchronous call
    owed,                       \* history: callbacks promised and not yet run
    stack                       \* history: contexts the running callbacks interrupted

ringVars == <<ring, ringRead, ringCount>>
callbackVars == <<ringVars, callbackActive, callbackContext, cpu, parked, told, owed, stack>>

Index == 0 .. RingSize - 1
CpuContext == GuestContext \cup Callback

RingTypeOK ==
    /\ ring \in [Index -> Callback \cup {NoCallback}]
    /\ ringRead \in Index /\ ringCount \in 0 .. RingSize
    /\ callbackActive \in BOOLEAN
    /\ callbackContext \in CpuContext /\ cpu \in CpuContext /\ parked \in Callback \cup {NoCallback}
    /\ told \in {"ready", "io_error", "card_error"}
    /\ owed \in Seq(Callback) /\ stack \in Seq(CpuContext)

\* dol_hle_init
CallbackInit ==
    /\ ring = [i \in Index |-> NoCallback] /\ ringRead = 0 /\ ringCount = 0
    /\ callbackActive = FALSE
    /\ cpu \in GuestContext /\ callbackContext = cpu /\ parked = NoCallback
    /\ told = "ready"
    /\ owed = <<>> /\ stack = <<>>

-----------------------------------------------------------------------------

\* WriteAtCount: the write position forgets the read position.
WriteAtCount == ringCount % RingSize

WriteIndex == (ringRead + ringCount) % RingSize

\* card_set_async_result after a card operation that succeeded, or not: only a
\* success is followed by a callback, and a success whose callback finds no room
\* is turned into an I/O error.
AsyncCall(a, ok) ==
    /\ \/ /\ ~ok \/ a = NoCallback
          /\ told' = IF ok THEN "ready" ELSE "card_error"
          /\ UNCHANGED <<ringVars, owed>>
       \/ /\ ok /\ a # NoCallback /\ ringCount = RingSize
          /\ told' = "io_error"
          /\ UNCHANGED <<ringVars, owed>>
       \/ /\ ok /\ a # NoCallback /\ ringCount < RingSize
          /\ ring' = [ring EXCEPT ![WriteIndex] = a]
          /\ ringCount' = ringCount + 1
          /\ told' = "ready"
          /\ owed' = Append(owed, a)
          /\ UNCHANGED ringRead
    /\ UNCHANGED <<callbackActive, callbackContext, cpu, parked, stack>>

EnterCallback(a) ==
    /\ ringRead' = (ringRead + 1) % RingSize
    /\ ringCount' = ringCount - 1
    /\ callbackContext' = cpu
    /\ callbackActive' = TRUE
    /\ cpu' = a
    /\ owed' = Tail(owed)
    /\ stack' = Append(stack, cpu)
    /\ UNCHANGED <<ring, parked, told>>

\* PollNested: interrupts a callback with the next one.
PollNested == ringCount > 0 /\ EnterCallback(ring[ringRead])

dol_hle_poll_callback == ~callbackActive /\ ringCount > 0 /\ EnterCallback(ring[ringRead])

\* The callback has come to HLE_CALLBACK_RETURN: the dispatcher asks
\* dol_hle_handle_callback_return first, and without an active callback the
\* address is nobody's and the guest is lost.
CallbackReturns ==
    /\ stack # <<>> /\ cpu \in Callback
    /\ callbackActive
    /\ cpu' = callbackContext
    /\ callbackActive' = FALSE
    /\ stack' = SubSeq(stack, 1, Len(stack) - 1)
    /\ UNCHANGED <<ringVars, callbackContext, parked, told, owed>>

\* A block of the guest's own: it computes, is interrupted or switches threads.
GuestBlock(c) ==
    /\ cpu \in GuestContext /\ cpu' = c
    /\ UNCHANGED <<ringVars, callbackActive, callbackContext, parked, told, owed, stack>>

\* The guest's scheduler takes the CPU from the callback's thread, and gives it back.
SwitchOut(c) ==
    /\ cpu \in Callback /\ parked = NoCallback
    /\ parked' = cpu /\ cpu' = c
    /\ UNCHANGED <<ringVars, callbackActive, callbackContext, told, owed, stack>>

SwitchIn ==
    /\ parked # NoCallback /\ cpu \in GuestContext
    /\ cpu' = parked /\ parked' = NoCallback
    /\ UNCHANGED <<ringVars, callbackActive, callbackContext, told, owed, stack>>

-----------------------------------------------------------------------------

CallbackNext ==
    \/ \E a \in Callback \cup {NoCallback}, ok \in BOOLEAN : AsyncCall(a, ok)
    \/ dol_hle_poll_callback
    \/ CallbackReturns
    \/ \E c \in GuestContext : GuestBlock(c) \/ SwitchOut(c)
    \/ SwitchIn

CallbackSpec == CallbackInit /\ [][CallbackNext]_callbackVars

-----------------------------------------------------------------------------

\* The ring holds exactly the callbacks promised to the guest and not yet run,
\* in the order of the calls, also where it wraps around: none is lost, run
\* twice or overtaken.
RingIsQueue ==
    /\ ringCount = Len(owed)
    /\ \A i \in 1 .. ringCount : ring[(ringRead + i - 1) % RingSize] = owed[i]

\* What a callback interrupts is what runs when it returns: the saved context
\* is the interrupted one, and there is one for every callback under way.
ContextKept ==
    /\ Len(stack) = (IF callbackActive THEN 1 ELSE 0)
    /\ callbackActive => callbackContext = stack[1]
=============================================================================
