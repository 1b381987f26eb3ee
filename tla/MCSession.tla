----------------------------- MODULE MCSession -----------------------------
(***************************************************************************)
(* Instances of Session for TLC: a right and a wrong PIN, and more chunks  *)
(* than streams, so that one stream carries two chunks.                    *)
(***************************************************************************)
EXTENDS SessionInvariant

CONSTANTS right, wrong

MCPins == {right, wrong}
=============================================================================
