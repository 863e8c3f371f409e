----------------------------- MODULE MCSessions -----------------------------
(* Two tabs. *)
EXTENDS Sessions, TLC

Symmetric == Permutations(Calls)
=============================================================================
