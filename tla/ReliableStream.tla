--------------------------- MODULE ReliableStream ---------------------------
(***************************************************************************)
(* What KCP promises its user about one direction of one stream: messages  *)
(* are read once, in the order they were sent.  The messages between       *)
(* Len(read) and sent are the queue that Session takes the stream for.     *)
(***************************************************************************)
EXTENDS Integers, Sequences

CONSTANT MaxSend    \* bound on the messages sent

VARIABLES
    sent,   \* how many messages were sent; message n is the number n
    read    \* the messages read, in order

vars == <<sent, read>>

Init == sent = 0 /\ read = <<>>

Send ==
    /\ sent < MaxSend
    /\ sent' = sent + 1
    /\ UNCHANGED read

Read ==
    /\ Len(read) < sent
    /\ read' = Append(read, Len(read) + 1)
    /\ UNCHANGED sent

Next == Send \/ Read

Spec == Init /\ [][Next]_vars
=============================================================================
