------------------------------- MODULE BytePipe -------------------------------
(***************************************************************************)
(* What each direction of the network bridge promises: a pipe.  Bytes go   *)
(* in at one end and come out at the other, all of them, once, in order.   *)
(* The n-th byte put in is the number n.                                   *)
(***************************************************************************)
EXTENDS Naturals, Sequences

VARIABLES
  put,      \* how many bytes were put in
  held,     \* the bytes inside
  taken     \* the bytes that came out

pipeVars == <<put, held, taken>>

Fresh(a, b) == [i \in 1..(b - a) |-> a + i]

PipeInit == put = 0 /\ held = <<>> /\ taken = <<>>

Put ==
  /\ put' \in Nat /\ put' > put
  /\ held' = held \o Fresh(put, put')
  /\ UNCHANGED taken

Take ==
  /\ \E n \in 1..Len(held) :
       /\ taken' = taken \o SubSeq(held, 1, n)
       /\ held' = SubSeq(held, n + 1, Len(held))
  /\ UNCHANGED put

PipeSpec == PipeInit /\ [][Put \/ Take]_pipeVars
=============================================================================
