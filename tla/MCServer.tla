------------------------------- MODULE MCServer -------------------------------
(***************************************************************************)
(* A small server: what may be at probe_weights_path is nothing, half a    *)
(* dump, a fitting probe, one of another layer, or of another dimension.   *)
(***************************************************************************)
EXTENDS Server

Fitting ==
    [written |-> "whole", layer |-> 16, checkpoint |-> 2, dim |-> 8, fitted_on |-> 16]

Files == {NoFile, Torn, Fitting, [Fitting EXCEPT !.layer = 3], [Fitting EXCEPT !.dim = 4]}

Sides == {20, 90}
===============================================================================
