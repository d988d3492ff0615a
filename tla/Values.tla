------------------------------- MODULE Values -------------------------------
(***************************************************************************)
(* What the modules of the planner and of the tuner share.                 *)
(***************************************************************************)

CONSTANT None  \* Python's None

=============================================================================
