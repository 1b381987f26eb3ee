---------------------------- MODULE FileTransfer ----------------------------
(***************************************************************************)
(* What one Sxaint transfer promises the user of the receiving side: the   *)
(* target file is opened once, verified chunks are added to it one by one  *)
(* and are never lost or overwritten, and the transfer is declared         *)
(* complete only when the whole file is there.                             *)
(***************************************************************************)
EXTENDS Integers

CONSTANT NumChunks   \* chunks of the file being transferred

VARIABLES
    open,       \* the target file exists and is mapped for writing
    stored,     \* ids of the chunks whose verified bytes are in the file
    complete    \* the receiver has declared the file received

vars == <<open, stored, complete>>

Chunks == 0 .. NumChunks - 1

Init ==
    /\ open = FALSE
    /\ stored = {}
    /\ complete = FALSE

Open ==
    /\ ~open
    /\ open' = TRUE
    /\ UNCHANGED <<stored, complete>>

Store(c) ==
    /\ open
    /\ ~complete
    /\ c \notin stored
    /\ stored' = stored \cup {c}
    /\ UNCHANGED <<open, complete>>

Complete ==
    /\ ~complete
    /\ stored = Chunks
    /\ complete' = TRUE
    /\ UNCHANGED <<open, stored>>

Next ==
    \/ Open
    \/ \E c \in Chunks : Store(c)
    \/ Complete

Spec == Init /\ [][Next]_vars
=============================================================================
