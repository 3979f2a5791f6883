------------------------------ MODULE MCStorage ------------------------------
(***************************************************************************)
(* Instances of MtpStorage for TLC.                                        *)
(***************************************************************************)
EXTENDS MtpStorage, TLC

CONSTANTS sd, user

(* A folder with a file in it.                                              *)
Tree == <<"/">> :> "dir" @@ <<"/", "d">> :> "dir" @@ <<"/", "d", "/", "a">> :> "file"
Flat == <<"/">> :> "dir" @@ <<"/", "a">> :> "file"

SdOnly  == sd :> Tree
TwoFs   == sd :> Tree @@ user :> Flat

OneName == {<<"a">>}
==============================================================================
