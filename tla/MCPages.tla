------------------------------ MODULE MCPages ------------------------------
(***************************************************************************)
(* One order of two units, so that it can be received, and fulfilled, in   *)
(* parts, and a form can be left with more than is still there.            *)
(***************************************************************************)
EXTENDS Pages
=============================================================================
