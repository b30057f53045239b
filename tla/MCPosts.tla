------------------------------ MODULE MCPosts ------------------------------
(* Instances of Posts for TLC: accounts, workers and initial threads. *)
EXTENDS Posts, TLC

CONSTANTS u1, u2, w1, w2

\* each account has one request in progress at a time
OneWorkerEach == w1 :> u1 @@ w2 :> u2

Post(u) == [author |-> u, parent |-> 0, original |-> 0]
ReplyTo(i, u) == [author |-> u, parent |-> i, original |-> 0]

SeedThread == <<Post(u1), ReplyTo(1, u2)>>
SeedDeepThread == <<Post(u1), ReplyTo(1, u2), ReplyTo(2, u1)>>

\* Two states that differ only in what idle workers remember of their last request are one:
\* Request overwrites all of it before a step or a property reads it.
OfBusy(w, local) == IF pc[w] = "idle" THEN <<>> ELSE local

WithoutOldRequests ==
    <<tables, events, pc, requests, faults,
      [w \in Workers |->
          OfBusy(w, <<op[w], target[w], opened[w], owner[w], newId[w], root[w], depth[w],
                      clean[w], since[w]>>)]>>
=============================================================================
