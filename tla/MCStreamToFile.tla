---------------------------- MODULE MCStreamToFile ----------------------------
(***************************************************************************)
(* The instance of StreamToFile for TLC: a host that sends what it         *)
(* announced, less, or more.                                               *)
(***************************************************************************)
EXTENDS StreamToFile

AnyExcess == -2..2
===============================================================================
