------------------------------- MODULE Tables -------------------------------
(***************************************************************************)
(* Tables, as functions from keys to rows, and their notation: that of     *)
(* module TLC, with the same meaning, as definitions that proofs can use.  *)
(***************************************************************************)

\* A table of one row, and the rows of f with those of g whose keys f has not.
key :> row == [k \in {key} |-> row]
f @@ g == [k \in DOMAIN f \cup DOMAIN g |-> IF k \in DOMAIN f THEN f[k] ELSE g[k]]
=============================================================================
