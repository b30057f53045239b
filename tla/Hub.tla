-------------------------------- MODULE Hub --------------------------------
(***************************************************************************)
(* The SSE hub (internal/realtime/hub.go) together with the stream handlers *)
(* that subscribe to it (internal/handler/stream.go).                       *)
(*                                                                         *)
(* The hub is a map from keys to sets of buffered channels, guarded by one *)
(* mutex.  A publisher walks the channels of its key with the mutex held   *)
(* and never blocks on one: a full buffer loses the event.  The handlers   *)
(* receive from their channels without the mutex, so reading interleaves   *)
(* with a walk.  Each stream is one request and owns one channel, so the   *)
(* channel is named by its stream.                                         *)
(***************************************************************************)
EXTENDS Naturals, Sequences, FiniteSets, Functions

CONSTANTS
    Keys,       \* user ids (Notifications hub) or root post ids (Threads hub)
    Streams,    \* stream requests, each with the channel Subscribe makes for it
    Publishers, \* goroutines of other requests that call Publish
    SubBuffer,  \* capacity of a channel (subBuffer, 8 in the code)
    MaxEvents,  \* bound of the exploration: calls of Publish
    NoKey,      \* not subscribed yet
    Free        \* the mutex is not held

ASSUME HubAssumption ==
    /\ SubBuffer \in Nat \ {0}
    /\ MaxEvents \in Nat
    /\ NoKey \notin Keys
    /\ Free \notin Publishers \cup Streams
    /\ Publishers \cap Streams = {}

VARIABLES
    mu,       \* Hub.mu: its holder, or Free
    subs,     \* Hub.subs: keys present in the map |-> the channels under them
    buf,      \* contents of each channel
    closed,   \* channels that were closed
    pubPc,    \* "idle", "waiting" for mu, or "sending" with mu held
    pubKey,   \* argument of the call that holds mu
    pending,  \* channels the walk of the mutex holder has not visited
    pc,       \* where each stream handler is
    key,      \* the key each stream subscribed to
    gone,     \* streams whose request context is done: client disconnected
    \* history, read by no action
    log,      \* the key of every event, in the order publishers got the mutex
    joined,   \* Len(log) when the stream subscribed
    received  \* events each handler took from its channel

hubVars == <<mu, subs, buf, closed>>
pubVars == <<pubPc, pubKey, pending>>
streamVars == <<pc, key, gone>>
history == <<log, joined, received>>
vars == <<mu, subs, buf, closed, pubPc, pubKey, pending, pc, key, gone,
          log, joined, received>>

PubStates == {"idle", "waiting", "sending"}
StreamStates == {"start", "subscribed", "streaming", "writing",
                 "leaving", "closing", "done"}

TypeOK ==
    /\ mu \in {Free} \cup Publishers \cup Streams
    /\ DOMAIN subs \subseteq Keys
    /\ subs \in [DOMAIN subs -> SUBSET Streams]
    /\ buf \in [Streams -> Seq(Nat)]
    /\ closed \in [Streams -> BOOLEAN]
    /\ pubPc \in [Publishers -> PubStates]
    /\ pubKey \in [Publishers -> Keys \cup {NoKey}]
    /\ \A p \in Publishers : pubPc[p] = "sending" => pubKey[p] \in Keys
    /\ pending \subseteq Streams
    /\ pc \in [Streams -> StreamStates]
    /\ key \in [Streams -> Keys \cup {NoKey}]
    /\ gone \in [Streams -> BOOLEAN]
    /\ log \in Seq(Keys)
    /\ joined \in [Streams -> Nat]
    /\ received \in [Streams -> Seq(Nat)]

Init ==
    /\ mu = Free
    /\ subs = [k \in {} |-> {}]
    /\ buf = [s \in Streams |-> <<>>]
    /\ closed = [s \in Streams |-> FALSE]
    /\ pubPc = [p \in Publishers |-> "idle"]
    /\ pubKey = [p \in Publishers |-> NoKey]
    /\ pending = {}
    /\ pc = [s \in Streams |-> "start"]
    /\ key = [s \in Streams |-> NoKey]
    /\ gone = [s \in Streams |-> FALSE]
    /\ log = <<>>
    /\ joined = [s \in Streams |-> 0]
    /\ received = [s \in Streams |-> <<>>]

-----------------------------------------------------------------------------
(* The map of channels. *)

Subscribers(k) == IF k \in DOMAIN subs THEN subs[k] ELSE {}

\* subs with channel s inserted under k, the inner map made when it is missing
WithChannel(k, s) ==
    [j \in DOMAIN subs \cup {k} |->
        IF j = k THEN Subscribers(k) \cup {s} ELSE subs[j]]

\* mutant: forgets to delete a key whose last channel went away
WithoutChannelLeaky(k, s) ==
    [j \in DOMAIN subs |-> IF j = k THEN subs[k] \ {s} ELSE subs[j]]

\* subs with channel s deleted from k, and k with it when it was the last one
WithoutChannel(k, s) ==
    [j \in {i \in DOMAIN subs : i = k => subs[k] \ {s} # {}} |->
        IF j = k THEN subs[k] \ {s} ELSE subs[j]]

-----------------------------------------------------------------------------
(* Publish. *)

PublishCall(p) ==
    /\ pubPc[p] = "idle"
    /\ Len(log) + Cardinality({q \in Publishers : pubPc[q] = "waiting"}) < MaxEvents
    /\ pubPc' = [pubPc EXCEPT ![p] = "waiting"]
    /\ UNCHANGED <<hubVars, pubKey, pending, streamVars, history>>

\* The key of the call is of no account before the mutex is held.
PublishLock(p, k) ==
    /\ pubPc[p] = "waiting"
    /\ mu = Free
    /\ mu' = p
    /\ pubPc' = [pubPc EXCEPT ![p] = "sending"]
    /\ pubKey' = [pubKey EXCEPT ![p] = k]
    /\ pending' = Subscribers(k)
    /\ log' = Append(log, k)
    /\ UNCHANGED <<subs, buf, closed, streamVars, joined, received>>

\* mutant: waits for room in the buffer
SendBlocking(p, s) ==
    /\ pubPc[p] = "sending"
    /\ s \in pending
    /\ Len(buf[s]) < SubBuffer
    /\ buf' = [buf EXCEPT ![s] = Append(@, Len(log))]
    /\ pending' = pending \ {s}
    /\ UNCHANGED <<mu, subs, closed, pubPc, pubKey, streamVars, history>>

\* mutant: counts what the channel was ever given, as if nobody took it out
SendNeverDrains(p, s) ==
    /\ pubPc[p] = "sending"
    /\ s \in pending
    /\ buf' = IF Len(received[s]) + Len(buf[s]) < SubBuffer
              THEN [buf EXCEPT ![s] = Append(@, Len(log))]
              ELSE buf
    /\ pending' = pending \ {s}
    /\ UNCHANGED <<mu, subs, closed, pubPc, pubKey, streamVars, history>>

\* One iteration of the walk.  The range over a Go map visits the channels in
\* any order; the event sent is the one logged when the mutex was taken.
Send(p, s) ==
    /\ pubPc[p] = "sending"
    /\ s \in pending
    /\ buf' = IF Len(buf[s]) < SubBuffer
              THEN [buf EXCEPT ![s] = Append(@, Len(log))]
              ELSE buf
    /\ pending' = pending \ {s}
    /\ UNCHANGED <<mu, subs, closed, pubPc, pubKey, streamVars, history>>

PublishReturn(p) ==
    /\ pubPc[p] = "sending"
    /\ pending = {}
    /\ mu' = Free
    /\ pubPc' = [pubPc EXCEPT ![p] = "idle"]
    /\ pubKey' = [pubKey EXCEPT ![p] = NoKey]
    /\ UNCHANGED <<subs, buf, closed, pending, streamVars, history>>

-----------------------------------------------------------------------------
(* The stream handlers. *)

\* The body of Subscribe between Lock and Unlock is one step: it touches only
\* the map, which nobody reads without the mutex, and the fresh channel.
Subscribe(s, k) ==
    /\ pc[s] = "start"
    /\ mu = Free
    /\ subs' = WithChannel(k, s)
    /\ key' = [key EXCEPT ![s] = k]
    /\ joined' = [joined EXCEPT ![s] = Len(log)]
    /\ pc' = [pc EXCEPT ![s] = "subscribed"]
    /\ UNCHANGED <<mu, buf, closed, pubVars, gone, log, received>>

\* streamEvents: the headers are sent and the loop is entered ...
StreamStart(s) ==
    /\ pc[s] = "subscribed"
    /\ pc' = [pc EXCEPT ![s] = "streaming"]
    /\ UNCHANGED <<hubVars, pubVars, key, gone, history>>

\* mutant: the early return skips the deferred unsubscribe
StreamUnsupportedLeaks(s) ==
    /\ pc[s] = "subscribed"
    /\ pc' = [pc EXCEPT ![s] = "done"]
    /\ UNCHANGED <<hubVars, pubVars, key, gone, history>>

\* ... unless the ResponseWriter is no Flusher, which is answered with 500.
StreamUnsupported(s) ==
    /\ pc[s] = "subscribed"
    /\ pc' = [pc EXCEPT ![s] = "leaving"]
    /\ UNCHANGED <<hubVars, pubVars, key, gone, history>>

\* mutant: takes the newest event of the channel
ReceiveNewest(s) ==
    /\ pc[s] = "streaming"
    /\ buf[s] # <<>>
    /\ received' = [received EXCEPT ![s] = Append(@, buf[s][Len(buf[s])])]
    /\ buf' = [buf EXCEPT ![s] = SubSeq(@, 1, Len(@) - 1)]
    /\ pc' = [pc EXCEPT ![s] = "writing"]
    /\ UNCHANGED <<mu, subs, closed, pubVars, key, gone, log, joined>>

\* The select picks the channel; the event is then written to the client.
Receive(s) ==
    /\ pc[s] = "streaming"
    /\ buf[s] # <<>>
    /\ received' = [received EXCEPT ![s] = Append(@, Head(buf[s]))]
    /\ buf' = [buf EXCEPT ![s] = Tail(@)]
    /\ pc' = [pc EXCEPT ![s] = "writing"]
    /\ UNCHANGED <<mu, subs, closed, pubVars, key, gone, log, joined>>

\* The write and flush return: when the client reads, or fails when it is gone.
Written(s) ==
    /\ pc[s] = "writing"
    /\ pc' = [pc EXCEPT ![s] = "streaming"]
    /\ UNCHANGED <<hubVars, pubVars, key, gone, history>>

\* The client goes away, which cancels the request's context.  Only the loop
\* of streamEvents looks at it: an earlier disconnect has the effect of one at
\* its start, a later one has none.
Disconnect(s) ==
    /\ ~gone[s]
    /\ pc[s] \in {"subscribed", "streaming", "writing"}
    /\ gone' = [gone EXCEPT ![s] = TRUE]
    /\ UNCHANGED <<hubVars, pubVars, pc, key, history>>

\* The select picks r.Context().Done(), also while events are buffered.
StreamEnd(s) ==
    /\ pc[s] = "streaming"
    /\ gone[s]
    /\ pc' = [pc EXCEPT ![s] = "leaving"]
    /\ UNCHANGED <<hubVars, pubVars, key, gone, history>>

\* mutant: edits the map without taking the mutex
UnsubscribeUnlocked(s) ==
    /\ pc[s] = "leaving"
    /\ subs' = WithoutChannel(key[s], s)
    /\ pc' = [pc EXCEPT ![s] = "closing"]
    /\ UNCHANGED <<mu, buf, closed, pubVars, key, gone, log, joined, received>>

\* The deferred unsubscribe, whose sync.Once runs it at most once per channel:
\* with the mutex held it removes the channel from the map ...
Unsubscribe(s) ==
    /\ pc[s] = "leaving"
    /\ mu = Free
    /\ mu' = s
    /\ subs' = WithoutChannel(key[s], s)
    /\ pc' = [pc EXCEPT ![s] = "closing"]
    /\ UNCHANGED <<buf, closed, pubVars, key, gone, log, joined, received>>

\* ... and closes it before the mutex is released.
CloseChannel(s) ==
    /\ pc[s] = "closing"
    /\ closed' = [closed EXCEPT ![s] = TRUE]
    /\ mu' = IF mu = s THEN Free ELSE mu
    /\ pc' = [pc EXCEPT ![s] = "done"]
    /\ UNCHANGED <<subs, buf, pubVars, key, gone, history>>

\* All streams ended and every call of Publish was made: the bound is reached.
Finished ==
    /\ Len(log) = MaxEvents
    /\ \A p \in Publishers : pubPc[p] = "idle"
    /\ \A s \in Streams : pc[s] = "done"
    /\ UNCHANGED vars

-----------------------------------------------------------------------------
PublisherStep(p) ==
    \/ PublishCall(p)
    \/ \E k \in Keys : PublishLock(p, k)
    \/ \E s \in Streams : Send(p, s)
    \/ PublishReturn(p)

StreamStep(s) ==
    \/ \E k \in Keys : Subscribe(s, k)
    \/ StreamStart(s)
    \/ StreamUnsupported(s)
    \/ Receive(s)
    \/ Written(s)
    \/ Disconnect(s)
    \/ StreamEnd(s)
    \/ Unsubscribe(s)
    \/ CloseChannel(s)

Next ==
    \/ \E p \in Publishers : PublisherStep(p)
    \/ \E s \in Streams : StreamStep(s)
    \/ Finished

Spec == Init /\ [][Next]_vars

\* A goroutine that can go on does, hence weak fairness.  It is enough as long
\* as there are finitely many calls and streams, which ends every contention
\* for the mutex and every stream of events that could keep the select of a
\* handler from its done context; the runtime promises more (a sync.Mutex
\* starves nobody, a select picks at random).  Nothing is assumed of the
\* clients: they need not connect, read or disconnect, and a write is only
\* known to return once the client is gone.
PublishProceeds(p) ==
    (\E k \in Keys : PublishLock(p, k)) \/ (\E s \in Streams : Send(p, s)) \/ PublishReturn(p)

StreamProceeds(s) ==
    \/ StreamStart(s) \/ StreamUnsupported(s) \/ (gone[s] /\ Written(s))
    \/ StreamEnd(s) \/ Unsubscribe(s) \/ CloseChannel(s)

Fairness ==
    /\ \A p \in Publishers : WF_vars(PublishProceeds(p))
    /\ \A s \in Streams : WF_vars(StreamProceeds(s))

FairSpec == Spec /\ Fairness

-----------------------------------------------------------------------------
(* Properties. *)

Attached == {"subscribed", "streaming", "writing", "leaving"}

\* events in the order the handler of s has taken or will take them
Got(s) == received[s] \o buf[s]

\* Events published on the key of s since its channel is in the map, without
\* the one that is being sent and has not reached s yet.
Due(s) ==
    {e \in (joined[s] + 1)..Len(log) :
        log[e] = key[s] /\ ~(s \in pending /\ e = Len(log))}

\* hub.go:46, 59-63: Publish never sends on a channel unsubscribe has closed,
\* which would panic.  A channel the walk has still to visit is open because
\* deletion and close happen under the mutex the walk holds.
NoSendOnClosed ==
    \A p \in Publishers : pubPc[p] = "sending" =>
        /\ mu = p
        /\ \A s \in pending : ~closed[s]

\* hub.go:29-32, 40-45: the map holds exactly the channels whose handlers have
\* subscribed and not unsubscribed, each under its own key, and no key is kept
\* once its last channel is gone, however subscriptions overlap.
MapIsExact ==
    /\ \A k \in DOMAIN subs : subs[k] # {}
    /\ \A k \in Keys :
        Subscribers(k) = {s \in Streams : pc[s] \in Attached /\ key[s] = k}

\* Events due to s that its handler has not taken and will not take.
Missed(s) == Due(s) \ Range(Got(s))

\* hub.go:6-7, 61-62: a client misses an event only at a moment at which its channel
\* is full of older ones that are due to it and that its handler has not taken;
\* never because of what the channel held before, of other channels or of the map.
LossNeedsFullBuffer ==
    [][\A s \in Streams : pc'[s] \in Attached =>
        \A e \in Missed(s)' \ Missed(s) :
            /\ Len(buf[s]) = SubBuffer
            /\ Range(buf[s]) \subseteq {d \in Due(s) : d < e}]_vars

\* hub.go:53-65: what a client sees of the hub is a lossy broadcast in order.
Abstract == INSTANCE LossyBroadcast WITH
    watching <- [s \in Streams |-> IF pc[s] \in Attached THEN key[s] ELSE NoKey],
    since <- joined,
    last <- [s \in Streams |->
                IF received[s] = <<>> THEN 0 ELSE received[s][Len(received[s])]],
    taken <- [s \in Streams |-> Len(received[s])]
ImplementsBroadcast == Abstract!Spec

\* hub.go:60-63: a request that publishes is never held up by a client that
\* does not read: every call of Publish returns.
PublishReturns ==
    \A p \in Publishers : pubPc[p] = "waiting" ~> pubPc[p] = "idle"

\* stream.go:18, 30, 67-68: a handler whose client is gone ends, removes its
\* channel and closes it, also when it was blocked writing.
GoneStreamsEnd ==
    \A s \in Streams : gone[s] ~> closed[s] /\ s \notin UNION Range(subs)
=============================================================================
