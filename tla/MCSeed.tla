------------------------------- MODULE MCSeed -------------------------------
(* Instances of Seed for TLC. *)
EXTENDS Seed

\* As many likes as there can be, so that the last draws have one choice.
\* Reposts and notifications are drawn like likes and footprints.
MCRows ==
    [t \in Drawn |-> CASE t = "likes" -> 3 [] t \in {"follows", "footprints"} -> 1 [] OTHER -> 0]
=============================================================================
