---------------------------- MODULE MCTransaction ----------------------------
(***************************************************************************)
(* The instance of MtpTransaction for TLC: three transactions are the      *)
(* least in which data left over from the first may be taken for a request *)
(* while the third begins.                                                 *)
(***************************************************************************)
EXTENDS MtpTransaction
===============================================================================
