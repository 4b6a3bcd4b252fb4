----------------------------- MODULE DurableCard -----------------------------
(***************************************************************************)
(* What a memory card promises the game: a call either changes one file of *)
(* the game (or formats the card) in the card the game sees and in the     *)
(* container on disk at once, or it changes neither; and what the game saw *)
(* last is what it finds after the program was killed.  On a host whose    *)
(* rename does not replace a file the container may get lost instead; on   *)
(* one where a container that is there may fail to open, switching the     *)
(* card on may replace it by an empty one.                                 *)
(***************************************************************************)
EXTENDS Integers

CONSTANTS
    Slot,       \* directory entries
    NoFile      \* the content of a free entry

VARIABLES
    medium,     \* "none", "safe", "lossy" or "fickle": where the container is kept
    powered,    \* a program has the card open
    live,       \* the files the game sees
    saved       \* the container: [kind, files]

durableVars == <<medium, powered, live, saved>>

Formatted == [s \in Slot |-> NoFile]
Container(f) == [kind |-> "card", files |-> f]
Nothing(k) == [kind |-> k, files |-> Formatted]

\* One file of the game appears, changes or goes; nobody else's does.
ChangesOne(f, g) ==
    \E s \in Slot : /\ \A t \in Slot \ {s} : g[t] = f[t]
                    /\ f[s] = NoFile \/ f[s].own
                    /\ g[s] = NoFile \/ g[s].own

DurableInit ==
    /\ medium \in {"none", "safe", "lossy", "fickle"} /\ powered = FALSE /\ live = Formatted
    /\ saved.kind \in {"absent", "torn", "card"}

\* An existing container is loaded; without one, or where it is taken for missing,
\* the card starts formatted and the container with it.
PowerOn ==
    /\ ~powered /\ powered' = TRUE
    /\ \/ medium # "none" /\ saved.kind = "card" /\ live' = saved.files /\ UNCHANGED saved
       \/ /\ medium = "fickle" \/ (medium # "none" /\ saved.kind = "absent")
          /\ live' = Formatted /\ saved' = Container(Formatted)
       \/ medium = "none" /\ live' = Formatted /\ UNCHANGED saved
    /\ UNCHANGED medium

PowerOff ==
    /\ powered /\ powered' = FALSE /\ live' = Formatted
    /\ UNCHANGED <<medium, saved>>

Change ==
    /\ powered
    /\ ChangesOne(live, live') \/ live' = Formatted
    /\ saved' = IF medium = "none" THEN saved ELSE Container(live')
    /\ UNCHANGED <<medium, powered>>

\* The old container is removed before the new one takes its name.
Lose ==
    /\ \/ medium \in {"lossy", "fickle"} /\ saved.kind = "card" /\ powered
       \/ medium = "fickle" /\ saved.kind # "absent"
    /\ saved' = Nothing("absent")
    /\ UNCHANGED <<medium, powered, live>>

DurableNext == PowerOn \/ PowerOff \/ Change \/ Lose

DurableSpec == DurableInit /\ [][DurableNext]_durableVars
=============================================================================
