-------------------------------- MODULE Eval --------------------------------
(***************************************************************************)
(* f(x), in a form in which TLC computes x once.                           *)
(***************************************************************************)
With(x, f(_)) == CHOOSE y \in {f(z) : z \in {x}} : TRUE
=============================================================================
