-------------------------- MODULE MCEndlessArrivals --------------------------
(***************************************************************************)
(* Unending arrivals on a small batch.                                     *)
(***************************************************************************)
EXTENDS EndlessArrivals

\* Divergent or convergent, where the confidence does not matter.
Sides == {20, 90}
=============================================================================
