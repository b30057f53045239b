----------------------------- MODULE MCThreads -----------------------------
(* An instance of Threads for TLC. *)
EXTENDS Threads
=============================================================================
