-------------------------- MODULE MCReorderStream --------------------------
(***************************************************************************)
(* Four events at up to three times and two contents (so ties exist), one  *)
(* unusable; grace 1; wall commits at any of the times.                    *)
(***************************************************************************)
EXTENDS ReorderStream


MCEvent == [time : 1 .. 3, tie : {1, 2}] \cup {[time |-> Unusable, tie |-> 1]}
MCMoment == 1 .. 3
MCNegInf == -100
=============================================================================
