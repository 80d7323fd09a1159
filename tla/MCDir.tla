--------------------------------- MODULE MCDir --------------------------------
(* Small instances of ListDir for TLC.                                     *)
EXTENDS ListDir, TLC

Small == ("a" :> 5) @@ ("b" :> 2)
=============================================================================
