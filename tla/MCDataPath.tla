----------------------------- MODULE MCDataPath -----------------------------
(***************************************************************************)
(* Instances of DataPath for TLC.  The constants are plain numbers.        *)
(***************************************************************************)
EXTENDS DataPathProperties
=============================================================================
