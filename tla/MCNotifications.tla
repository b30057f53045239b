-------------------------- MODULE MCNotifications --------------------------
(* Instances of Notifications for TLC. *)
EXTENDS Notifications, TLC

\* The reader meets the others; they do not meet each other.
WithReader == (Users \X {Reader}) \cup ({Reader} \X Users)

\* The other users are interchangeable, and so are workers.
Symmetric == Permutations(Users \ {Reader}) \cup Permutations(Workers)
=============================================================================
