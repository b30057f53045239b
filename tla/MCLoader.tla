------------------------------ MODULE MCLoader -----------------------------
(* Instances of Loader for TLC. *)
EXTENDS Loader
=============================================================================
