------------------------------ MODULE MCKcpLink ------------------------------
(***************************************************************************)
(* Instances of KcpLink for TLC.                                           *)
(***************************************************************************)
EXTENDS KcpLinkProperties

\* More messages than fit the windows.
ThreeOneWay == [e \in Ends |-> IF e = "a" THEN 3 ELSE 0]

TwoOneWay == [e \in Ends |-> IF e = "a" THEN 2 ELSE 0]
==============================================================================
