----------------------------- MODULE Programs ------------------------------
(***************************************************************************)
(* The small programs of the repository have nothing in common, so one run *)
(* of TLC can check many of them: `program' is the one that is executed,   *)
(* and each module below gives the programs it models their own variables, *)
(* initial states and steps.                                               *)
(***************************************************************************)
VARIABLE program    \* the source file whose main runs
===========================================================================
