--------------------------- MODULE MCStreamFromFile ---------------------------
(***************************************************************************)
(* Instances of StreamFromFile for TLC.                                    *)
(***************************************************************************)
EXTENDS StreamFromFile

(* Files that are sent from an offset, or whole, to their end.              *)
ToEnd ==
  {[size |-> n, offset |-> o, length |-> n + o] : n \in 0..10, o \in 0..3}

(* Any size and offset against a file of any length: GetPartialObject, and  *)
(* GetObject of a file that is no longer what the listing recorded.         *)
AnyPart == [size : 0..5, offset : 0..2, length : 0..7]

AllRequests == ToEnd \cup AnyPart
===============================================================================
