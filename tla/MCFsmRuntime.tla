---------------------------- MODULE MCFsmRuntime ----------------------------
(* FsmRuntime on two blocks. *)
EXTENDS FsmRuntime, TLC

CONSTANTS a, b
Blocks   == {a, b}
=============================================================================
