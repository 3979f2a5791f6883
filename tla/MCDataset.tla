------------------------------- MODULE MCDataset -------------------------------
(* A byte is 2^2, so that names of three bytes make their count wrap; 2 and  *)
(* 1 are characters of one byte, 5 and 4 are cut to 1 and to a terminator.   *)
EXTENDS MtpDataset

MCNames == {<<1>>, <<2, 1>>, <<1, 2, 1>>, <<2, 1, 1, 2>>}
MCHostNames == {<<>>, <<1>>, <<5>>, <<1, 2>>, <<2, 4>>}
MCSizes == {3, 5}
===============================================================================
