---------------------------- MODULE MCThreadPool ----------------------------
(***************************************************************************)
(* Instances of ThreadPool for TLC.  The constants are plain numbers.      *)
(***************************************************************************)
EXTENDS ThreadPoolProperties
=============================================================================
