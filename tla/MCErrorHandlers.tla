--------------------------- MODULE MCErrorHandlers ---------------------------
(* Three calls, of any kind and nested in any way.                         *)
EXTENDS ErrorHandlers, TLC

Calls3 == Permutations(Op)
=============================================================================
