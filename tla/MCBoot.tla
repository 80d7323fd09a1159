-------------------------------- MODULE MCBoot --------------------------------
(***************************************************************************)
(* Small instance of Boot: a firmware of three words in sectors of two, and *)
(* a flash of the FPGA of three sectors of two pages of two bytes, with an  *)
(* .mcs whose records end in the middle of pages.                           *)
(***************************************************************************)
EXTENDS Boot

\* The file, good, without its end, and damaged in its second record.
Mcs(d, e) == [recs |-> <<[a |-> 0, n |-> 3], [a |-> 3, n |-> 2], [a |-> 6, n |-> 3]>>,
              damaged |-> d, eof |-> e]

McsSet == {Mcs(0, TRUE), Mcs(0, FALSE), Mcs(2, TRUE)}
=============================================================================
