---------------------------- MODULE MCSessions -----------------------------
(* Instances of Sessions for TLC. *)
EXTENDS Sessions, TLC

Symmetric ==
    Permutations(Browsers) \cup Permutations(Workers) \cup Permutations(Names)
    \cup Permutations(Emails) \cup Permutations(Passwords)
=============================================================================
