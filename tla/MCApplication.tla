---------------------------- MODULE MCApplication ----------------------------
(***************************************************************************)
(* Instances of Application for TLC: two addresses, two device names.      *)
(***************************************************************************)
EXTENDS ApplicationProperties

\* One computer or two.
OneOrTwo == {h \in [Processes -> Addresses] : h["sender"] = "A"}

OtherUser == {[p \in Processes |-> IF p = "sender" THEN "x" ELSE "y"]}

Sender == {"search"}
=============================================================================
