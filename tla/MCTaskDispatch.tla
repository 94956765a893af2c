--------------------------- MODULE MCTaskDispatch ---------------------------
(***************************************************************************)
(* TaskDispatch for TLC.  The run checks liveness, so the workers and the  *)
(* closures are model values without symmetry.                             *)
(***************************************************************************)
EXTENDS TaskDispatch
=============================================================================
