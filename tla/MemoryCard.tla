------------------------------ MODULE MemoryCard ------------------------------
(***************************************************************************)
(* GXRuntime's memory card (memory_card.c): a directory of files in memory *)
(* that every changing call writes out as a whole container, to a          *)
(* temporary file that is then renamed over the old one.  A call that      *)
(* cannot write the container takes its change in memory back.  The        *)
(* program may be killed between any two file operations; the host keeps   *)
(* running, so what was written stays written.                             *)
(*                                                                         *)
(* A container is "absent", "torn" (anything load_container rejects) or a  *)
(* "card" with its files; a file's bytes and status are one value.         *)
(***************************************************************************)
EXTENDS Integers, FiniteSets, FiniteSetsExt

CONSTANTS
    Slot,           \* 1 .. DOL_CARD_MAX_FILES (127)
    Name,           \* file names
    NoName,
    Body, Erased,   \* what a file may hold, and what a new one holds
    Blocks,         \* file lengths in blocks
    UserBlocks      \* card_user_blocks

ASSUME CardAssumption ==
    /\ Slot \subseteq Nat /\ IsFiniteSet(Slot) /\ NoName \notin Name /\ Erased \in Body
    /\ Blocks \subseteq Nat \ {0} /\ UserBlocks \in Nat

VARIABLES
    medium,         \* "none": no path; "safe": rename replaces; "lossy": rename may
                    \* fail; "fickle": so may fopen of a container that is there
    path, temp,     \* the container and the temporary file
    powered,        \* there is a DolMemoryCard
    mounted,        \* card->mounted
    files,          \* card->files
    result,         \* card->last_result
    at,             \* where write_container is, "ready" outside it
    previous,       \* what the caller of write_container puts back
    opening         \* that caller is dol_card_open

diskVars == <<medium, path, temp>>
cardVars == <<diskVars, powered, mounted, files, result, at, previous, opening>>

NoFile == [name |-> NoName, own |-> FALSE, blocks |-> 0, body |-> Erased]
File == [name : Name, own : BOOLEAN, blocks : Blocks, body : Body]

\* The card as its caller sees it: a call that has not returned has not happened.
Durable == INSTANCE DurableCard WITH
              powered <- powered /\ ~opening,
              live <- IF at = "ready" THEN files ELSE previous,
              saved <- path

Formatted == Durable!Formatted
Container(f) == Durable!Container(f)
Nothing(k) == Durable!Nothing(k)

\* The container may be missing, unreadable, empty, or hold another game's file.
CardInit ==
    /\ medium \in {"none", "safe", "lossy", "fickle"}
    /\ path \in {Nothing("absent"), Nothing("torn"), Container(Formatted)} \cup
                {Container([Formatted EXCEPT ![s] = [name |-> n, own |-> FALSE, blocks |-> b, body |-> Erased]]) :
                    s \in Slot, n \in Name, b \in {k \in Blocks : k <= UserBlocks}}
    /\ temp = Nothing("absent")
    /\ powered = FALSE /\ mounted = FALSE
    /\ files = Formatted /\ previous = Formatted
    /\ result = "no_card" /\ at = "ready" /\ opening = FALSE

-----------------------------------------------------------------------------
(* write_container                                                           *)

\* A container that was not written: the change is taken back, or the card that
\* was being opened is closed again.
WriteFailed ==
    /\ at' = "ready" /\ opening' = FALSE /\ powered' = ~opening
    /\ files' = previous /\ previous' = Formatted
    /\ result' = "io_error"
    /\ UNCHANGED <<medium, mounted>>

WriteDone ==
    /\ at' = "ready" /\ opening' = FALSE
    /\ previous' = Formatted
    /\ result' = IF opening THEN result ELSE "ready"
    /\ UNCHANGED <<medium, powered, mounted, files>>

\* How a change starts: without a path write_container is done at once.
StartWrite(f, isOpen) ==
    /\ files' = f
    /\ IF medium = "none"
       THEN at' = "ready" /\ result' = (IF isOpen THEN result ELSE "ready") /\ UNCHANGED <<previous, opening>>
       ELSE at' = "temp" /\ previous' = files /\ opening' = isOpen /\ UNCHANGED result

Goto(a) == at' = a /\ UNCHANGED <<medium, powered, mounted, files, result, previous, opening>>

\* No memory for the image, or fopen fails, or it leaves an empty file.
OpenTemp ==
    /\ at = "temp"
    /\ \/ temp' = Nothing("torn") /\ Goto("write") /\ UNCHANGED path
       \/ WriteFailed /\ UNCHANGED <<path, temp>>

WriteTemp ==
    /\ at = "write"
    /\ \/ temp' = Container(files) /\ Goto("rename") /\ UNCHANGED path
       \/ Goto("clean") /\ UNCHANGED <<path, temp>>

RenameFails == medium \in {"lossy", "fickle"}

\* RemoveFirst: makes room for the new container before it is there.
RemoveFirst ==
    /\ at = "rename"
    /\ \/ path.kind # "absent" /\ path' = Nothing("absent") /\ Goto("again") /\ UNCHANGED temp
       \/ path.kind = "absent" /\ path' = temp /\ temp' = Nothing("absent") /\ WriteDone

Rename ==
    /\ at = "rename"
    /\ \/ path' = temp /\ temp' = Nothing("absent") /\ WriteDone
       \/ RenameFails /\ Goto("remove") /\ UNCHANGED <<path, temp>>

\* The fallback for hosts whose rename does not replace: remove, rename again.
RemoveOld ==
    /\ at = "remove"
    /\ \/ path.kind # "absent" /\ path' = Nothing("absent") /\ Goto("again") /\ UNCHANGED temp
       \/ Goto("clean") /\ UNCHANGED <<path, temp>>

RenameAgain ==
    /\ at = "again"
    /\ \/ path' = temp /\ temp' = Nothing("absent") /\ WriteDone
       \/ RenameFails /\ Goto("clean") /\ UNCHANGED <<path, temp>>

\* remove(temporary_path), whose result is not looked at.
CleanUp ==
    /\ at = "clean"
    /\ temp' \in {temp, Nothing("absent")}
    /\ WriteFailed
    /\ UNCHANGED path

write_container == OpenTemp \/ WriteTemp \/ Rename \/ RemoveOld \/ RenameAgain \/ CleanUp

-----------------------------------------------------------------------------
(* The calls                                                                 *)

Idle == powered /\ at = "ready"
Answer(r) ==
    /\ Idle /\ result' = r
    /\ UNCHANGED <<diskVars, powered, mounted, files, at, previous, opening>>

Used(f) == {s \in Slot : f[s] # NoFile}
Own == {s \in Used(files) : files[s].own}
find_file(n) == {s \in Own : files[s].name = n}
BlocksOf(f, S) == Cardinality(UNION {{s} \X (1 .. f[s].blocks) : s \in S})
BlocksUsed == BlocksOf(files, Used(files))
FirstFree == Min(Slot \ Used(files))

\* The answers of path_exists, which takes any failure of fopen for absence.
path_exists ==
    {path.kind # "absent"} \cup (IF medium = "fickle" THEN {FALSE} ELSE {})

\* A container that path_exists finds is loaded or the call fails (so it does
\* without memory); otherwise an empty card is written, over whatever is there.
dol_card_open ==
    /\ ~powered /\ at = "ready"
    /\ \/ /\ medium # "none" /\ TRUE \in path_exists /\ path.kind = "card"
          /\ powered' = TRUE /\ files' = path.files
          /\ UNCHANGED <<at, previous, opening>>
       \/ UNCHANGED <<powered, files, at, previous, opening>>
       \/ /\ medium = "none" \/ FALSE \in path_exists
          /\ powered' = TRUE
          /\ files' = Formatted
          /\ IF medium = "none" THEN UNCHANGED <<at, previous, opening>>
             ELSE at' = "temp" /\ previous' = Formatted /\ opening' = TRUE
    /\ result' = "no_card" /\ mounted' = FALSE
    /\ UNCHANGED diskVars

dol_card_close ==
    /\ Idle
    /\ powered' = FALSE /\ mounted' = FALSE /\ files' = Formatted /\ result' = "no_card"
    /\ UNCHANGED <<diskVars, at, previous, opening>>

dol_card_mount ==
    /\ Idle /\ mounted' = TRUE /\ result' = "ready"
    /\ UNCHANGED <<diskVars, powered, files, at, previous, opening>>

dol_card_unmount ==
    /\ Idle /\ mounted' = FALSE /\ result' = "ready"
    /\ UNCHANGED <<diskVars, powered, files, at, previous, opening>>

\* A call that changes the card to f.
Changing(f) ==
    /\ Idle /\ mounted
    /\ StartWrite(f, FALSE)
    /\ UNCHANGED <<diskVars, powered, mounted>>

dol_card_format == IF ~mounted THEN Answer("no_card") ELSE Changing(Formatted)

\* CreateOwnSpace: counts only the game's own files.
CreateOwnSpace(n, b) ==
    IF ~mounted THEN Answer("no_card")
    ELSE IF b = 0 THEN Answer("fatal")
    ELSE IF find_file(n) # {} THEN Answer("exists")
    ELSE IF Slot \ Used(files) = {} THEN Answer("no_entry")
    ELSE IF b + BlocksOf(files, Own) > UserBlocks THEN Answer("no_space")
    ELSE Changing([files EXCEPT ![FirstFree] = [name |-> n, own |-> TRUE, blocks |-> b, body |-> Erased]])

\* A new file takes the first free slot; b = 0 stands for the arguments that are
\* refused: a length that is not whole blocks, no name, a name that is too long.
dol_card_create_file(n, b) ==
    IF ~mounted THEN Answer("no_card")
    ELSE IF b = 0 THEN Answer("fatal")
    ELSE IF find_file(n) # {} THEN Answer("exists")
    ELSE IF Slot \ Used(files) = {} THEN Answer("no_entry")
    ELSE IF b > UserBlocks - BlocksUsed THEN Answer("no_space")
    ELSE Changing([files EXCEPT ![FirstFree] = [name |-> n, own |-> TRUE, blocks |-> b, body |-> Erased]])

dol_card_delete_file(n) ==
    IF ~mounted THEN Answer("no_card")
    ELSE IF find_file(n) = {} THEN Answer("no_file")
    ELSE Changing([files EXCEPT ![Min(find_file(n))] = NoFile])

\* validate_file_range: the slot must hold a file of this game.
validate_file_range(s, inside) ==
    IF ~mounted THEN "no_card" ELSE IF s \notin Own THEN "no_file" ELSE IF ~inside THEN "limit" ELSE "ready"

\* dol_card_write_file, and dol_card_set_status with the range at zero.
dol_card_write_file(s, inside, body) ==
    IF validate_file_range(s, inside) # "ready" THEN Answer(validate_file_range(s, inside))
    ELSE Changing([files EXCEPT ![s].body = body])

\* The calls that look and do not touch (dol_card_get_status as dol_card_read_file,
\* dol_card_free_space as dol_card_check), and those that get no buffer from the
\* caller or no memory for a copy.
dol_card_probe == Answer("ready")
dol_card_check == Answer(IF mounted THEN "ready" ELSE "no_card")
dol_card_open_file(n) ==
    Answer(IF ~mounted THEN "no_card" ELSE IF find_file(n) = {} THEN "no_file" ELSE "ready")
dol_card_close_file(s) ==
    Answer(IF ~mounted THEN "no_card" ELSE IF s \notin Own THEN "fatal" ELSE "ready")
dol_card_read_file(s, inside) == Answer(validate_file_range(s, inside))
NoBuffer == mounted /\ \E r \in {"fatal", "io_error"} : Answer(r)

-----------------------------------------------------------------------------

\* The program is killed: the disk is all that stays.
Crash ==
    /\ powered
    /\ powered' = FALSE /\ mounted' = FALSE /\ files' = Formatted /\ previous' = Formatted
    /\ result' = "no_card" /\ at' = "ready" /\ opening' = FALSE
    /\ UNCHANGED diskVars

CardCall ==
    \/ dol_card_open \/ dol_card_close \/ dol_card_mount \/ dol_card_unmount \/ dol_card_format
    \/ \E n \in Name, b \in Blocks \cup {0} : dol_card_create_file(n, b)
    \/ \E n \in Name : dol_card_delete_file(n) \/ dol_card_open_file(n)
    \/ \E s \in Slot, inside \in BOOLEAN :
          dol_card_close_file(s) \/ dol_card_read_file(s, inside) \/ \E body \in Body : dol_card_write_file(s, inside, body)
    \/ dol_card_probe \/ dol_card_check \/ NoBuffer

CardNext == CardCall \/ write_container \/ Crash

CardSpec == CardInit /\ [][CardNext]_cardVars

-----------------------------------------------------------------------------

\* The card keeps DurableCard's promise: whatever write fails and whenever the
\* program is killed, the container goes from one call's result to the next
\* call's, the game sees what is saved, and a failed call leaves both alone.  A
\* container that can be opened is never written over by opening the card, also
\* when load_container rejects it; one that is there and cannot be opened is, and
\* what it held is lost.
CardDurable == Durable!DurableSpec

\* What memory_card.h says of dol_card_open: it "opens an existing container or
\* creates a formatted empty card", and "existing malformed containers are rejected
\* rather than overwritten".  While a card is being opened, a container that exists
\* stays as it is.
OpeningKeepsContainer ==
    [][opening /\ path.kind # "absent" => path' = path]_cardVars

\* A directory whose names are unambiguous and whose files fit the card.
Usable(f) ==
    /\ \A s, t \in Used(f) : f[s].own /\ f[t].own /\ f[s].name = f[t].name => s = t
    /\ BlocksOf(f, Used(f)) <= UserBlocks

\* The directory stays usable: no two files of the game share a name, so open and
\* delete mean one file, and the blocks in use never exceed the card, which the
\* unsigned free-space computation relies on.  It holds for the container too.
DirectoryOK == Usable(files) /\ (path.kind = "card" => Usable(path.files))
=============================================================================
