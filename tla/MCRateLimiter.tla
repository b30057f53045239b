--------------------------- MODULE MCRateLimiter ---------------------------
(* Instances of RateLimiter for TLC. *)
EXTENDS RateLimiter, TLC

\* The fields of addresses are interchangeable, and so are handlers.
Symmetric == Permutations(Fields) \cup Permutations(Handlers)
=============================================================================
