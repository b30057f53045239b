------------------------------ MODULE MCFeeds ------------------------------
(* Instances of Feeds for TLC. *)
EXTENDS Feeds

\* A post, which the feeds and search list, and a reply, which only search lists.
MCShapes ==
    {[author |-> 1, reply |-> FALSE, hit |-> TRUE],
     [author |-> 2, reply |-> TRUE, hit |-> TRUE]}
=============================================================================
