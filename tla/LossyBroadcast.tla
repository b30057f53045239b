--------------------------- MODULE LossyBroadcast ---------------------------
(***************************************************************************)
(* What the SSE hub promises to a connected client, with the mutex, the    *)
(* channels and their buffers left out: events are published on keys, a    *)
(* client watches one key from the moment it joins, and it is handed a     *)
(* selection of the events published on that key since then, each one at   *)
(* most once and in the order of publication.  Events may be skipped.      *)
(***************************************************************************)
EXTENDS Naturals, Sequences

CONSTANTS
    Keys,     \* user ids, or root post ids, events are published on
    Streams,  \* clients' connections
    NoKey     \* watches nothing

VARIABLES
    log,      \* the keys of the events published so far; event e is the e-th
    watching, \* the key each stream watches
    since,    \* the length of log when the stream joined
    last,     \* the last event handed to the stream, 0 for none
    taken     \* the number of events handed to the stream

vars == <<log, watching, since, last, taken>>

Init ==
    /\ log = <<>>
    /\ watching = [s \in Streams |-> NoKey]
    /\ since = [s \in Streams |-> 0]
    /\ last = [s \in Streams |-> 0]
    /\ taken = [s \in Streams |-> 0]

Publish(k) ==
    /\ log' = Append(log, k)
    /\ UNCHANGED <<watching, since, last, taken>>

Join(s, k) ==
    /\ watching[s] = NoKey
    /\ watching' = [watching EXCEPT ![s] = k]
    /\ since' = [since EXCEPT ![s] = Len(log)]
    /\ UNCHANGED <<log, last, taken>>

Deliver(s, e) ==
    /\ log[e] = watching[s]
    /\ e > since[s]
    /\ e > last[s]
    /\ last' = [last EXCEPT ![s] = e]
    /\ taken' = [taken EXCEPT ![s] = @ + 1]
    /\ UNCHANGED <<log, watching, since>>

Leave(s) ==
    /\ watching' = [watching EXCEPT ![s] = NoKey]
    /\ UNCHANGED <<log, since, last, taken>>

Next ==
    \/ \E k \in Keys : Publish(k)
    \/ \E s \in Streams :
        \/ \E k \in Keys : Join(s, k)
        \/ \E e \in 1..Len(log) : Deliver(s, e)
        \/ Leave(s)

Spec == Init /\ [][Next]_vars
=============================================================================
