----------------------------- MODULE HubProofs -----------------------------
(* Proofs about Hub, for any number of keys, streams and publishers and any   *)
(* size of the buffers: the mutex and the map, the order of the events in the *)
(* channels and that Hub implements LossyBroadcast, and what a loss implies.  *)
EXTENDS Hub, SequenceTheorems, TLAPS

(* The mutex discipline: who holds mu, where the holder is, and what a walk *)
(* may still visit.                                                         *)
MutexInv ==
    /\ \A p \in Publishers : pubPc[p] = "sending" <=> mu = p
    /\ \A s \in Streams : pc[s] = "closing" <=> mu = s

ChannelInv ==
    \A s \in Streams :
        /\ closed[s] <=> pc[s] = "done"
        /\ pc[s] # "start" => key[s] \in Keys

WalkInv ==
    /\ \A p \in Publishers : mu = p => pending \subseteq Subscribers(pubKey[p])
    /\ mu \notin Publishers => pending = {}

IInv == TypeOK /\ MutexInv /\ ChannelInv /\ MapIsExact /\ WalkInv

-----------------------------------------------------------------------------
(* What the two updates of the map return. *)

(* hub.go:29-32: inserting a channel adds it under its key and nowhere else. *)
LEMMA WithChannelIsInsert ==
    ASSUME NEW k \in Keys, NEW s \in Streams,
           DOMAIN subs \subseteq Keys,
           subs \in [DOMAIN subs -> SUBSET Streams],
           subs' = WithChannel(k, s)
    PROVE  /\ DOMAIN subs' \subseteq Keys
           /\ subs' \in [DOMAIN subs' -> SUBSET Streams]
           /\ \A j \in Keys :
                Subscribers(j)' = IF j = k THEN Subscribers(j) \cup {s} ELSE Subscribers(j)
           /\ (\A j \in DOMAIN subs : subs[j] # {}) => \A j \in DOMAIN subs' : subs'[j] # {}
BY DEF WithChannel, Subscribers

(* hub.go:40-45: deleting a channel takes it from its key and leaves no key *)
(* without channels behind.                                                 *)
LEMMA WithoutChannelIsDelete ==
    ASSUME NEW k \in Keys, NEW s \in Streams,
           DOMAIN subs \subseteq Keys,
           subs \in [DOMAIN subs -> SUBSET Streams],
           subs' = WithoutChannel(k, s)
    PROVE  /\ DOMAIN subs' \subseteq Keys
           /\ subs' \in [DOMAIN subs' -> SUBSET Streams]
           /\ \A j \in Keys :
                Subscribers(j)' = IF j = k THEN Subscribers(j) \ {s} ELSE Subscribers(j)
           /\ (\A j \in DOMAIN subs : subs[j] # {}) => \A j \in DOMAIN subs' : subs'[j] # {}
BY DEF WithoutChannel, Subscribers

-----------------------------------------------------------------------------
LEMMA InitIInv == Init => IInv
BY HubAssumption DEF Init, IInv, TypeOK, MutexInv, ChannelInv, MapIsExact, WalkInv,
    Subscribers, Attached, PubStates, StreamStates

LEMMA NextIInv == IInv /\ [Next]_vars => IInv'
<1> SUFFICES ASSUME IInv, [Next]_vars
             PROVE  IInv'
    OBVIOUS
<1> USE HubAssumption DEF IInv, TypeOK, MutexInv, ChannelInv, MapIsExact, WalkInv,
        hubVars, pubVars, streamVars, history, PubStates, StreamStates, Attached
<1>1. ASSUME NEW p \in Publishers, PublishCall(p)
      PROVE  IInv'
    BY <1>1 DEF PublishCall, Subscribers
<1>2. ASSUME NEW p \in Publishers, NEW k \in Keys, PublishLock(p, k)
      PROVE  IInv'
    BY <1>2 DEF PublishLock, Subscribers
<1>3. ASSUME NEW p \in Publishers, NEW s \in Streams, Send(p, s)
      PROVE  IInv'
    <2>1. TypeOK'
        <3>1. Append(buf[s], Len(log)) \in Seq(Nat)
            OBVIOUS
        <3>2. buf' \in [Streams -> Seq(Nat)]
            BY <1>3, <3>1 DEF Send
        <3>3. QED
            BY <1>3, <3>2 DEF Send
    <2>2. MutexInv'
        BY <1>3 DEF Send, Subscribers
    <2>3. ChannelInv'
        BY <1>3 DEF Send, Subscribers
    <2>4. MapIsExact'
        BY <1>3 DEF Send, Subscribers
    <2>5. WalkInv'
        BY <1>3 DEF Send, Subscribers
    <2>6. QED
        BY <2>1, <2>2, <2>3, <2>4, <2>5
<1>4. ASSUME NEW p \in Publishers, PublishReturn(p)
      PROVE  IInv'
    BY <1>4 DEF PublishReturn, Subscribers
<1>5. ASSUME NEW s \in Streams, NEW k \in Keys, Subscribe(s, k)
      PROVE  IInv'
    <2>1. /\ DOMAIN subs' \subseteq Keys
          /\ subs' \in [DOMAIN subs' -> SUBSET Streams]
          /\ \A j \in Keys :
                Subscribers(j)' = IF j = k THEN Subscribers(j) \cup {s} ELSE Subscribers(j)
          /\ \A j \in DOMAIN subs' : subs'[j] # {}
        <3>1. k \in Keys /\ subs' = WithChannel(k, s)
            BY <1>5 DEF Subscribe
        <3>2. QED
            BY <3>1, WithChannelIsInsert
    <2>2. TypeOK'
        BY <1>5, <2>1 DEF Subscribe
    <2>3. MutexInv'
        BY <1>5 DEF Subscribe
    <2>4. ChannelInv'
        BY <1>5 DEF Subscribe
    <2>5. MapIsExact'
        <3>1. pc[s] \notin Attached /\ pc'[s] \in Attached /\ key'[s] = k
            BY <1>5 DEF Subscribe
        <3>2. \A t \in Streams \ {s} : pc'[t] = pc[t] /\ key'[t] = key[t]
            BY <1>5 DEF Subscribe
        <3>3. ASSUME NEW j \in Keys
              PROVE  Subscribers(j)' = {t \in Streams : pc'[t] \in Attached /\ key'[t] = j}
            <4>1. Subscribers(j) = {t \in Streams : pc[t] \in Attached /\ key[t] = j}
                OBVIOUS
            <4>2. Subscribers(j)' = IF j = k THEN Subscribers(j) \cup {s} ELSE Subscribers(j)
                BY <2>1
            <4>3. ASSUME NEW t \in Streams
                  PROVE  t \in Subscribers(j)' <=> pc'[t] \in Attached /\ key'[t] = j
                BY <3>1, <3>2, <4>1, <4>2
            <4>4. Subscribers(j)' \subseteq Streams
                BY <4>1, <4>2
            <4>5. QED
                BY <4>3, <4>4
        <3>4. QED
            BY <2>1, <3>3
    <2>6. WalkInv'
        BY <1>5, <2>1 DEF Subscribe
    <2>7. QED
        BY <2>2, <2>3, <2>4, <2>5, <2>6
<1>6. ASSUME NEW s \in Streams, StreamStart(s)
      PROVE  IInv'
    BY <1>6 DEF StreamStart, Subscribers
<1>7. ASSUME NEW s \in Streams, StreamUnsupported(s)
      PROVE  IInv'
    <2>1. TypeOK'
        BY <1>7 DEF StreamUnsupported, Subscribers
    <2>2. MutexInv'
        BY <1>7 DEF StreamUnsupported, Subscribers
    <2>3. ChannelInv'
        BY <1>7 DEF StreamUnsupported, Subscribers
    <2>4. MapIsExact'
        BY <1>7 DEF StreamUnsupported, Subscribers
    <2>5. WalkInv'
        BY <1>7 DEF StreamUnsupported, Subscribers
    <2>6. QED
        BY <2>1, <2>2, <2>3, <2>4, <2>5
<1>8. ASSUME NEW s \in Streams, Receive(s)
      PROVE  IInv'
    <2>1. TypeOK'
        BY <1>8 DEF Receive, Subscribers
    <2>2. MutexInv'
        BY <1>8 DEF Receive, Subscribers
    <2>3. ChannelInv'
        BY <1>8 DEF Receive, Subscribers
    <2>4. MapIsExact'
        <3>1. \A t \in Streams : (pc'[t] \in Attached) <=> (pc[t] \in Attached)
            BY <1>8 DEF Receive
        <3>2. \A j \in Keys : Subscribers(j)' = Subscribers(j)
            BY <1>8 DEF Receive, Subscribers
        <3>3. subs' = subs /\ key' = key
            BY <1>8 DEF Receive
        <3>4. QED
            BY <3>1, <3>2, <3>3
    <2>5. WalkInv'
        BY <1>8 DEF Receive, Subscribers
    <2>6. QED
        BY <2>1, <2>2, <2>3, <2>4, <2>5
<1>9. ASSUME NEW s \in Streams, Written(s)
      PROVE  IInv'
    <2>1. TypeOK'
        BY <1>9 DEF Written, Subscribers
    <2>2. MutexInv'
        BY <1>9 DEF Written, Subscribers
    <2>3. ChannelInv'
        BY <1>9 DEF Written, Subscribers
    <2>4. MapIsExact'
        BY <1>9 DEF Written, Subscribers
    <2>5. WalkInv'
        BY <1>9 DEF Written, Subscribers
    <2>6. QED
        BY <2>1, <2>2, <2>3, <2>4, <2>5
<1>10. ASSUME NEW s \in Streams, Disconnect(s)
       PROVE  IInv'
    BY <1>10 DEF Disconnect, Subscribers
<1>11. ASSUME NEW s \in Streams, StreamEnd(s)
       PROVE  IInv'
    BY <1>11 DEF StreamEnd, Subscribers
<1>12. ASSUME NEW s \in Streams, Unsubscribe(s)
       PROVE  IInv'
    <2>1. /\ DOMAIN subs' \subseteq Keys
          /\ subs' \in [DOMAIN subs' -> SUBSET Streams]
          /\ \A j \in Keys :
                Subscribers(j)' = IF j = key[s] THEN Subscribers(j) \ {s} ELSE Subscribers(j)
          /\ \A j \in DOMAIN subs' : subs'[j] # {}
        <3>1. key[s] \in Keys /\ subs' = WithoutChannel(key[s], s)
            BY <1>12 DEF Unsubscribe
        <3>2. QED
            BY <3>1, WithoutChannelIsDelete
    <2>2. TypeOK'
        BY <1>12, <2>1 DEF Unsubscribe
    <2>3. MutexInv'
        BY <1>12 DEF Unsubscribe
    <2>4. ChannelInv'
        BY <1>12 DEF Unsubscribe
    <2>5. MapIsExact'
        <3>1. pc[s] \in Attached /\ pc'[s] \notin Attached /\ key'[s] = key[s]
            BY <1>12 DEF Unsubscribe
        <3>2. \A t \in Streams \ {s} : pc'[t] = pc[t] /\ key'[t] = key[t]
            BY <1>12 DEF Unsubscribe
        <3>3. ASSUME NEW j \in Keys
              PROVE  Subscribers(j)' = {t \in Streams : pc'[t] \in Attached /\ key'[t] = j}
            <4>1. Subscribers(j) = {t \in Streams : pc[t] \in Attached /\ key[t] = j}
                OBVIOUS
            <4>2. Subscribers(j)' = IF j = key[s] THEN Subscribers(j) \ {s} ELSE Subscribers(j)
                BY <2>1
            <4>3. ASSUME NEW t \in Streams
                  PROVE  t \in Subscribers(j)' <=> pc'[t] \in Attached /\ key'[t] = j
                BY <3>1, <3>2, <4>1, <4>2
            <4>4. Subscribers(j)' \subseteq Streams
                BY <4>1, <4>2
            <4>5. QED
                BY <4>3, <4>4
        <3>4. QED
            BY <2>1, <3>3
    <2>6. WalkInv'
        BY <1>12, <2>1 DEF Unsubscribe
    <2>7. QED
        BY <2>2, <2>3, <2>4, <2>5, <2>6
<1>13. ASSUME NEW s \in Streams, CloseChannel(s)
       PROVE  IInv'
    <2>1. TypeOK'
        BY <1>13 DEF CloseChannel, Subscribers
    <2>2. MutexInv'
        BY <1>13 DEF CloseChannel, Subscribers
    <2>3. ChannelInv'
        BY <1>13 DEF CloseChannel, Subscribers
    <2>4. MapIsExact'
        BY <1>13 DEF CloseChannel, Subscribers
    <2>5. WalkInv'
        BY <1>13 DEF CloseChannel, Subscribers
    <2>6. QED
        BY <2>1, <2>2, <2>3, <2>4, <2>5
<1>14. CASE UNCHANGED vars
    BY <1>14 DEF vars, Subscribers
<1>15. CASE Finished
    BY <1>15, <1>14 DEF Finished
<1>16. QED
    BY <1>1, <1>2, <1>3, <1>4, <1>5, <1>6, <1>7, <1>8, <1>9, <1>10, <1>11, <1>12,
       <1>13, <1>14, <1>15
    DEF Next, PublisherStep, StreamStep

LEMMA Invariance == Spec => []IInv
BY InitIInv, NextIInv, PTL DEF Spec

(* Every variable keeps its type. *)
THEOREM TypeCorrect == Spec => []TypeOK
BY Invariance, PTL DEF IInv

(* hub.go:46, 59-63: no publisher, however many there are, sends on a closed *)
(* channel: a channel it has still to visit is in the map under the key it   *)
(* walks, so its handler has not reached the close.                          *)
THEOREM SendsOnlyOnOpenChannels == Spec => []NoSendOnClosed
<1>1. IInv => NoSendOnClosed
    BY DEF IInv, TypeOK, MutexInv, ChannelInv, WalkInv, MapIsExact, NoSendOnClosed, Attached, Subscribers
<1>2. QED
    BY <1>1, Invariance, PTL

(* hub.go:29-32, 40-45: the map is exact after any interleaving of           *)
(* subscriptions, cancellations and publications.                            *)
THEOREM MapStaysExact == Spec => []MapIsExact
BY Invariance, PTL DEF IInv
-----------------------------------------------------------------------------
(* The refinement. *)

\* the last event the handler of s took from its channel
Last(s) == IF received[s] = <<>> THEN 0 ELSE received[s][Len(received[s])]

\* The channel of s holds events of its key, published since it subscribed,
\* newer than all the handler took, and in the order of publication.
OrderedChannel(s) ==
    /\ \A i \in 1..Len(buf[s]) :
        /\ buf[s][i] \in 1..Len(log)
        /\ log[buf[s][i]] = key[s]
        /\ joined[s] < buf[s][i]
        /\ Last(s) < buf[s][i]
    /\ \A i, j \in 1..Len(buf[s]) : i < j => buf[s][i] < buf[s][j]

\* The event being sent is newer than all that a channel still to be visited
\* was given before.
Fresh(s) ==
    /\ joined[s] < Len(log)
    /\ Last(s) < Len(log)
    /\ \A i \in 1..Len(buf[s]) : buf[s][i] < Len(log)

OrderInv ==
    \A s \in Streams :
        /\ pc[s] = "start" => buf[s] = <<>> /\ received[s] = <<>>
        /\ Last(s) \in 0..Len(log)
        /\ joined[s] \in 0..Len(log)
        /\ OrderedChannel(s)
        /\ s \in pending => Fresh(s)

\* The event being sent is the last one of log.
SentInv == \A p \in Publishers : mu = p => Len(log) > 0 /\ log[Len(log)] = pubKey[p]

RInv == IInv /\ OrderInv /\ SentInv

-----------------------------------------------------------------------------
LEMMA AppendLast ==
    ASSUME NEW q \in Seq(Nat), NEW e \in Nat
    PROVE  Append(q, e) # <<>> /\ Append(q, e)[Len(Append(q, e))] = e
<1>1. Append(q, e) # <<>>
    BY AppendProperties
<1>2. Len(Append(q, e)) = Len(q) + 1 /\ Append(q, e)[Len(q) + 1] = e
    OBVIOUS
<1>3. QED
    BY <1>1, <1>2

LEMMA LastIsNat == ASSUME TypeOK, NEW s \in Streams PROVE Last(s) \in Nat
BY DEF TypeOK, Last

LEMMA InitRInv == Init => RInv
BY InitIInv, HubAssumption DEF Init, RInv, OrderInv, OrderedChannel, Fresh, SentInv, Last

(* A step that touches neither channels, log, keys nor the walk.            *)
LEMMA Unmoved ==
    ASSUME RInv, UNCHANGED <<buf, pending, key, log, joined, received>>,
           mu' \in Publishers => mu' = mu /\ pubKey' = pubKey,
           \A s \in Streams : pc'[s] = "start" => pc[s] = "start"
    PROVE  OrderInv' /\ SentInv'
BY HubAssumption DEF RInv, OrderInv, OrderedChannel, Fresh, SentInv, Last

LEMMA LockOrder ==
    ASSUME RInv, NEW p \in Publishers, NEW k \in Keys, PublishLock(p, k)
    PROVE  OrderInv' /\ SentInv'
<1> USE DEF RInv, IInv, TypeOK
<1>1. /\ log' = Append(log, k)
      /\ pubKey' = [pubKey EXCEPT ![p] = k]
      /\ UNCHANGED <<buf, key, joined, received, pc>>
      /\ mu' = p
    BY DEF PublishLock, streamVars
<1>2. /\ Len(log') = Len(log) + 1
      /\ Len(log) \in Nat
      /\ log' \in Seq(Keys)
      /\ log'[Len(log')] = k
      /\ \A e \in 1..Len(log) : log'[e] = log[e]
    BY <1>1
<1>3. \A s \in Streams : Last(s)' = Last(s)
    BY <1>1 DEF Last
<1>4. ASSUME NEW s \in Streams
      PROVE  OrderedChannel(s)' /\ Fresh(s)'
    <2>1. OrderedChannel(s) /\ Last(s) \in 0..Len(log) /\ joined[s] \in 0..Len(log)
        BY DEF OrderInv
    <2>2. QED
        BY <1>1, <1>2, <1>3, <2>1 DEF OrderedChannel, Fresh
<1>5. OrderInv'
    BY <1>1, <1>2, <1>3, <1>4 DEF OrderInv
<1>6. SentInv'
    BY <1>1, <1>2 DEF SentInv
<1>7. QED
    BY <1>5, <1>6

LEMMA SendOrder ==
    ASSUME RInv, NEW p \in Publishers, NEW s \in Streams, Send(p, s)
    PROVE  OrderInv' /\ SentInv'
<1> USE DEF RInv, IInv, TypeOK
<1>1. /\ UNCHANGED <<mu, pubKey, key, log, joined, received, pc>>
      /\ mu = p
      /\ s \in pending
      /\ pending' = pending \ {s}
    BY DEF Send, streamVars, history, MutexInv
<1>2. \A t \in Streams : Last(t)' = Last(t)
    BY <1>1 DEF Last
<1>3. pc[s] # "start" /\ key[s] = pubKey[p]
    <2>1. pubKey[p] \in Keys
        BY DEF Send
    <2>2. s \in Subscribers(pubKey[p])
        BY <1>1 DEF WalkInv
    <2>3. QED
        BY <2>1, <2>2 DEF MapIsExact, Attached
<1>4. Len(log) \in Nat /\ Len(log) \in 1..Len(log) /\ log[Len(log)] = key[s]
    BY <1>1, <1>3 DEF SentInv
<1>5. \A t \in Streams \ {s} : buf'[t] = buf[t]
    BY DEF Send
<1>6. \/ buf'[s] = buf[s]
      \/ /\ Len(buf'[s]) = Len(buf[s]) + 1
         /\ buf'[s][Len(buf[s]) + 1] = Len(log)
         /\ \A i \in 1..Len(buf[s]) : buf'[s][i] = buf[s][i]
    <2>1. buf'[s] = buf[s] \/ buf'[s] = Append(buf[s], Len(log))
        BY DEF Send
    <2>2. buf[s] \in Seq(Nat)
        OBVIOUS
    <2>3. QED
        BY <2>1, <2>2, <1>4
<1>7. Len(buf[s]) \in Nat
    OBVIOUS
<1>8. OrderedChannel(s) /\ Fresh(s)
    BY <1>1 DEF OrderInv
<1>9. OrderedChannel(s)'
    <2>1. CASE buf'[s] = buf[s]
        BY <2>1, <1>1, <1>2, <1>8 DEF OrderedChannel
    <2>2. CASE /\ Len(buf'[s]) = Len(buf[s]) + 1
               /\ buf'[s][Len(buf[s]) + 1] = Len(log)
               /\ \A i \in 1..Len(buf[s]) : buf'[s][i] = buf[s][i]
        <3>1. \A i \in 1..Len(buf'[s]) : i \in 1..Len(buf[s]) \/ i = Len(buf[s]) + 1
            BY <2>2, <1>7
        <3>2. \A i \in 1..Len(buf'[s]) :
                /\ buf'[s][i] \in 1..Len(log)
                /\ log[buf'[s][i]] = key[s]
                /\ joined[s] < buf'[s][i]
                /\ Last(s) < buf'[s][i]
            BY <2>2, <3>1, <1>4, <1>8 DEF OrderedChannel, Fresh
        <3>3. \A i, j \in 1..Len(buf'[s]) : i < j => buf'[s][i] < buf'[s][j]
            <4> SUFFICES ASSUME NEW i \in 1..Len(buf'[s]), NEW j \in 1..Len(buf'[s]), i < j
                         PROVE  buf'[s][i] < buf'[s][j]
                OBVIOUS
            <4>1. i \in 1..Len(buf[s])
                BY <2>2, <1>7
            <4>2. CASE j \in 1..Len(buf[s])
                BY <2>2, <4>1, <4>2, <1>8 DEF OrderedChannel
            <4>3. CASE j = Len(buf[s]) + 1
                BY <2>2, <4>1, <4>3, <1>8 DEF Fresh
            <4>4. QED
                BY <3>1, <4>2, <4>3
        <3>4. QED
            BY <3>2, <3>3, <1>1, <1>2 DEF OrderedChannel
    <2>3. QED
        BY <1>6, <2>1, <2>2
<1>10. ASSUME NEW t \in Streams \ {s}
       PROVE  OrderedChannel(t)' /\ (t \in pending' => Fresh(t)')
    <2>1. OrderedChannel(t) /\ (t \in pending => Fresh(t))
        BY DEF OrderInv
    <2>2. QED
        BY <2>1, <1>1, <1>2, <1>5 DEF OrderedChannel, Fresh
<1>11. ASSUME NEW t \in Streams
       PROVE  (pc[t] = "start" => buf'[t] = <<>> /\ received[t] = <<>>)
              /\ Last(t) \in 0..Len(log) /\ joined[t] \in 0..Len(log)
    BY <1>3, <1>5 DEF OrderInv
<1>12. OrderInv'
    BY <1>1, <1>2, <1>9, <1>10, <1>11 DEF OrderInv
<1>13. SentInv'
    BY <1>1 DEF SentInv
<1>14. QED
    BY <1>12, <1>13

LEMMA SubscribeOrder ==
    ASSUME RInv, NEW s \in Streams, NEW k \in Keys, Subscribe(s, k)
    PROVE  OrderInv' /\ SentInv'
<1> USE DEF RInv, IInv, TypeOK
<1>1. /\ pc[s] = "start" /\ pc'[s] # "start"
      /\ joined' = [joined EXCEPT ![s] = Len(log)]
      /\ key' = [key EXCEPT ![s] = k]
      /\ pc' = [pc EXCEPT ![s] = "subscribed"]
      /\ UNCHANGED <<mu, buf, pubKey, pending, log, received>>
      /\ mu = Free
    BY DEF Subscribe, pubVars
<1>2. pending = {}
    BY <1>1, HubAssumption DEF WalkInv
<1>3. \A t \in Streams : Last(t)' = Last(t)
    BY <1>1 DEF Last
<1>4. Len(log) \in Nat /\ Len(log) \in 0..Len(log) /\ buf[s] = <<>>
    BY <1>1 DEF OrderInv
<1>5. ASSUME NEW t \in Streams
      PROVE  OrderedChannel(t)'
    <2>1. CASE t = s
        BY <2>1, <1>1, <1>4 DEF OrderedChannel
    <2>2. CASE t # s
        <3>1. OrderedChannel(t) /\ key'[t] = key[t] /\ joined'[t] = joined[t]
            BY <1>1, <2>2 DEF OrderInv
        <3>2. QED
            BY <1>1, <1>3, <3>1 DEF OrderedChannel
    <2>3. QED
        BY <2>1, <2>2
<1>6. OrderInv'
    BY <1>1, <1>2, <1>3, <1>4, <1>5 DEF OrderInv
<1>7. SentInv'
    BY <1>1, HubAssumption DEF SentInv
<1>8. QED
    BY <1>6, <1>7

\* Taking the head leaves the rest ordered and newer than what was taken.
LEMMA ReceiveOrder ==
    ASSUME RInv, NEW s \in Streams, Receive(s)
    PROVE  /\ OrderInv' /\ SentInv'
           /\ Last(s)' = Head(buf[s])
           /\ Len(received'[s]) = Len(received[s]) + 1
<1> USE DEF RInv, IInv, TypeOK
<1>1. /\ pc[s] = "streaming" /\ buf[s] # <<>>
      /\ buf' = [buf EXCEPT ![s] = Tail(buf[s])]
      /\ received' = [received EXCEPT ![s] = Append(received[s], Head(buf[s]))]
      /\ pc' = [pc EXCEPT ![s] = "writing"]
      /\ UNCHANGED <<mu, pubKey, pending, key, log, joined>>
    BY DEF Receive, pubVars
<1>2. /\ buf[s] \in Seq(Nat) /\ received[s] \in Seq(Nat)
      /\ Len(buf[s]) \in Nat /\ Len(buf[s]) > 0
      /\ Head(buf[s]) = buf[s][1]
      /\ Len(buf'[s]) = Len(buf[s]) - 1
      /\ \A i \in 1..Len(buf'[s]) : buf'[s][i] = buf[s][i + 1]
    BY <1>1
<1>3. Len(received'[s]) = Len(received[s]) + 1
    BY <1>1, <1>2
<1>4. Last(s)' = buf[s][1]
    <2>1. received'[s] = Append(received[s], buf[s][1]) /\ buf[s][1] \in Nat
        BY <1>1, <1>2
    <2>2. received'[s] # <<>> /\ received'[s][Len(received'[s])] = buf[s][1]
        <3>1. buf[s][1] \in Nat /\ received[s] \in Seq(Nat)
            BY <1>2
        <3>2. QED
            BY <2>1, <3>1, AppendLast
    <2>3. QED
        BY <2>2 DEF Last
<1>5. OrderedChannel(s) /\ (s \in pending => Fresh(s)) /\ joined[s] \in 0..Len(log)
    BY DEF OrderInv
<1>6. \A i \in 1..Len(buf'[s]) : i + 1 \in 1..Len(buf[s]) /\ 1 < i + 1
    BY <1>2
<1>7. 1 \in 1..Len(buf[s]) /\ buf[s][1] \in 0..Len(log)
    <2>1. 1 \in 1..Len(buf[s])
        BY <1>2
    <2>2. buf[s][1] \in 1..Len(log)
        BY <2>1, <1>5 DEF OrderedChannel
    <2>3. QED
        BY <2>1, <2>2
<1>8. OrderedChannel(s)'
    <2>1. \A i \in 1..Len(buf'[s]) :
            /\ buf'[s][i] \in 1..Len(log)
            /\ log[buf'[s][i]] = key[s]
            /\ joined[s] < buf'[s][i]
            /\ buf[s][1] < buf'[s][i]
        <3> SUFFICES ASSUME NEW i \in 1..Len(buf'[s])
                     PROVE  /\ buf'[s][i] \in 1..Len(log)
                            /\ log[buf'[s][i]] = key[s]
                            /\ joined[s] < buf'[s][i]
                            /\ buf[s][1] < buf'[s][i]
            OBVIOUS
        <3>1. /\ i + 1 \in 1..Len(buf[s]) /\ 1 \in 1..Len(buf[s]) /\ 1 < i + 1
              /\ buf'[s][i] = buf[s][i + 1]
            BY <1>2, <1>6, <1>7
        <3>2. QED
            BY <3>1, <1>5 DEF OrderedChannel
    <2>2. \A i, j \in 1..Len(buf'[s]) : i < j => buf'[s][i] < buf'[s][j]
        <3> SUFFICES ASSUME NEW i \in 1..Len(buf'[s]), NEW j \in 1..Len(buf'[s]), i < j
                     PROVE  buf'[s][i] < buf'[s][j]
            OBVIOUS
        <3>1. /\ i + 1 \in 1..Len(buf[s]) /\ j + 1 \in 1..Len(buf[s]) /\ i + 1 < j + 1
              /\ buf'[s][i] = buf[s][i + 1] /\ buf'[s][j] = buf[s][j + 1]
            BY <1>2, <1>6
        <3>2. QED
            BY <3>1, <1>5 DEF OrderedChannel
    <2>3. QED
        BY <2>1, <2>2, <1>1, <1>4 DEF OrderedChannel
<1>9. s \in pending => Fresh(s)'
    BY <1>1, <1>2, <1>4, <1>5, <1>6, <1>7 DEF Fresh
<1>10. ASSUME NEW t \in Streams \ {s}
       PROVE  /\ Last(t)' = Last(t) /\ buf'[t] = buf[t] /\ received'[t] = received[t]
              /\ OrderedChannel(t)' /\ (t \in pending => Fresh(t)')
    <2>1. Last(t)' = Last(t) /\ buf'[t] = buf[t] /\ received'[t] = received[t]
        BY <1>1 DEF Last
    <2>2. OrderedChannel(t) /\ (t \in pending => Fresh(t))
        BY DEF OrderInv
    <2>3. QED
        BY <2>1, <2>2, <1>1 DEF OrderedChannel, Fresh
<1>11. OrderInv'
    BY SMTT(30), <1>1, <1>4, <1>5, <1>7, <1>8, <1>9, <1>10 DEF OrderInv
<1>12. SentInv'
    BY <1>1 DEF SentInv
<1>13. QED
    BY <1>2, <1>3, <1>4, <1>11, <1>12

LEMMA NextRInv == RInv /\ [Next]_vars => RInv'
<1> SUFFICES ASSUME RInv, [Next]_vars
             PROVE  RInv'
    OBVIOUS
<1>1. IInv'
    BY NextIInv DEF RInv
<1>2. ASSUME NEW p \in Publishers, PublisherStep(p)
      PROVE  OrderInv' /\ SentInv'
    <2>1. CASE PublishCall(p)
        BY <2>1, Unmoved DEF PublishCall, hubVars, streamVars, history
    <2>2. ASSUME NEW k \in Keys, PublishLock(p, k)
          PROVE  OrderInv' /\ SentInv'
        BY <2>2, LockOrder
    <2>3. ASSUME NEW s \in Streams, Send(p, s)
          PROVE  OrderInv' /\ SentInv'
        BY <2>3, SendOrder
    <2>4. CASE PublishReturn(p)
        BY <2>4, Unmoved, HubAssumption DEF PublishReturn, streamVars, history
    <2>5. QED
        BY <1>2, <2>1, <2>2, <2>3, <2>4 DEF PublisherStep
<1>3. ASSUME NEW s \in Streams, StreamStep(s)
      PROVE  OrderInv' /\ SentInv'
    <2>1. ASSUME NEW k \in Keys, Subscribe(s, k)
          PROVE  OrderInv' /\ SentInv'
        BY <2>1, SubscribeOrder
    <2>2. CASE Receive(s)
        BY <2>2, ReceiveOrder
    <2>3. CASE \/ StreamStart(s) \/ StreamUnsupported(s) \/ Written(s)
               \/ Disconnect(s) \/ StreamEnd(s)
        BY <2>3, Unmoved DEF StreamStart, StreamUnsupported, Written, Disconnect, StreamEnd,
            hubVars, pubVars, history, RInv, IInv, TypeOK
    <2>4. CASE Unsubscribe(s)
        BY <2>4, Unmoved, HubAssumption DEF Unsubscribe, pubVars, RInv, IInv, TypeOK
    <2>5. CASE CloseChannel(s)
        BY <2>5, Unmoved, HubAssumption DEF CloseChannel, pubVars, history, RInv, IInv, TypeOK
    <2>6. QED
        BY <1>3, <2>1, <2>2, <2>3, <2>4, <2>5 DEF StreamStep
<1>4. CASE UNCHANGED vars
    <2>1. /\ UNCHANGED <<buf, pubKey, pending, key, log, joined, received>>
          /\ UNCHANGED <<mu, pc>>
        BY <1>4 DEF vars
    <2>2. QED
        BY <1>1, <2>1, Unmoved DEF RInv
<1>5. CASE Finished
    BY <1>5, <1>4 DEF Finished
<1>6. QED
    BY <1>1, <1>2, <1>3, <1>4, <1>5 DEF Next, RInv
LEMMA RInvariance == Spec => []RInv
BY InitRInv, NextRInv, PTL DEF Spec

-----------------------------------------------------------------------------
\* A step that changes nothing a client can observe is a stutter of the promise.
LEMMA Stutters ==
    ASSUME TypeOK, UNCHANGED <<key, log, joined, received>>,
           \A s \in Streams : (pc'[s] \in Attached) <=> (pc[s] \in Attached)
    PROVE  UNCHANGED Abstract!vars
BY DEF Abstract!vars, Attached

LEMMA InitImplements == Init => Abstract!Init
BY DEF Init, Abstract!Init, Attached

(* Every step of the hub is one of the broadcast or a stutter: a publication *)
(* is visible when its publisher gets the mutex, a subscription and its end  *)
(* when the map changes, a delivery when the handler receives.               *)
LEMMA StepImplements == RInv /\ [Next]_vars => [Abstract!Next]_(Abstract!vars)
<1> SUFFICES ASSUME RInv, [Next]_vars
             PROVE  [Abstract!Next]_(Abstract!vars)
    OBVIOUS
<1> USE DEF RInv, IInv
<1>1. ASSUME NEW p \in Publishers, PublisherStep(p)
      PROVE  [Abstract!Next]_(Abstract!vars)
    <2>1. CASE PublishCall(p)
        BY <2>1, Stutters DEF PublishCall, hubVars, streamVars, history
    <2>2. ASSUME NEW k \in Keys, PublishLock(p, k)
          PROVE  Abstract!Publish(k)
        BY <2>2 DEF PublishLock, streamVars, Abstract!Publish
    <2>3. ASSUME NEW s \in Streams, Send(p, s)
          PROVE  UNCHANGED Abstract!vars
        BY <2>3, Stutters DEF Send, streamVars, history
    <2>4. CASE PublishReturn(p)
        BY <2>4, Stutters DEF PublishReturn, streamVars, history
    <2>5. QED
        BY <1>1, <2>1, <2>2, <2>3, <2>4 DEF PublisherStep, Abstract!Next
<1>2. ASSUME NEW s \in Streams, StreamStep(s)
      PROVE  [Abstract!Next]_(Abstract!vars)
    <2>1. ASSUME NEW k \in Keys, Subscribe(s, k)
          PROVE  Abstract!Join(s, k)
        BY <2>1 DEF Subscribe, Abstract!Join, Attached, TypeOK
    <2>2. CASE Receive(s)
        <3>1. /\ pc[s] = "streaming" /\ buf[s] # <<>>
              /\ received' = [received EXCEPT ![s] = Append(received[s], Head(buf[s]))]
              /\ pc' = [pc EXCEPT ![s] = "writing"]
              /\ UNCHANGED <<key, log, joined>>
            BY <2>2 DEF Receive
        <3>2. /\ Head(buf[s]) \in 1..Len(log)
              /\ log[Head(buf[s])] = key[s]
              /\ Head(buf[s]) > joined[s]
              /\ Head(buf[s]) > Last(s)
            <4>1. buf[s] \in Seq(Nat) /\ Head(buf[s]) = buf[s][1] /\ 1 \in 1..Len(buf[s])
                BY <3>1 DEF TypeOK
            <4>2. /\ buf[s][1] \in 1..Len(log) /\ log[buf[s][1]] = key[s]
                  /\ joined[s] < buf[s][1] /\ Last(s) < buf[s][1]
                BY <4>1 DEF OrderInv, OrderedChannel
            <4>3. QED
                BY <4>1, <4>2, LastIsNat DEF TypeOK
        <3>3. Last(s)' = Head(buf[s]) /\ Len(received'[s]) = Len(received[s]) + 1
            BY <2>2, ReceiveOrder
        <3>4. \A t \in Streams \ {s} : received'[t] = received[t] /\ pc'[t] = pc[t]
            BY <3>1 DEF TypeOK
        <3>5. PICK e \in 1..Len(log) : e = Head(buf[s])
            BY <3>2
        <3>6. Abstract!Deliver(s, e)
            BY <3>1, <3>2, <3>3, <3>4, <3>5 DEF Abstract!Deliver, Attached, Last, TypeOK
        <3>7. QED
            BY <3>6 DEF Abstract!Next
    <2>3. CASE \/ StreamStart(s) \/ StreamUnsupported(s) \/ Written(s)
               \/ Disconnect(s) \/ StreamEnd(s)
        BY <2>3, Stutters DEF StreamStart, StreamUnsupported, Written, Disconnect, StreamEnd,
            history, Attached, TypeOK
    <2>4. CASE Unsubscribe(s)
        <3>1. Abstract!Leave(s)
            BY <2>4 DEF Unsubscribe, Abstract!Leave, Attached, TypeOK
        <3>2. QED
            BY <3>1 DEF Abstract!Next
    <2>5. CASE CloseChannel(s)
        BY <2>5, Stutters DEF CloseChannel, history, Attached, TypeOK
    <2>6. QED
        BY <1>2, <2>1, <2>2, <2>3, <2>4, <2>5 DEF StreamStep, Abstract!Next
<1>3. CASE UNCHANGED vars
    <2>1. UNCHANGED <<pc, key, log, joined, received>>
        BY <1>3 DEF vars
    <2>2. QED
        BY <2>1, Stutters
<1>4. CASE Finished
    BY <1>4, <1>3 DEF Finished
<1>5. QED
    BY <1>1, <1>2, <1>3, <1>4 DEF Next

(* hub.go:53-65, stream.go:54-63: whatever the clients, publishers and keys,  *)
(* a client is handed events of its own key published after it subscribed,    *)
(* in order and each at most once: Hub implements LossyBroadcast.             *)
THEOREM HubIsABroadcast == Spec => ImplementsBroadcast
BY InitImplements, StepImplements, RInvariance, PTL DEF Spec, ImplementsBroadcast, Abstract!Spec
-----------------------------------------------------------------------------
(* Losses. *)

\* What the handler of s has taken or will take is what it took and what its
\* channel holds.
LEMMA GotIs ==
    ASSUME NEW q \in Seq(Nat), NEW r \in Seq(Nat)
    PROVE  Range(r \o q) = Range(r) \cup Range(q) /\ Range(r \o q) \subseteq Nat
<1>1. \A n \in 1..Len(r \o q) : (r \o q)[n] \in Range(r) \cup Range(q)
    <2> SUFFICES ASSUME NEW n \in 1..Len(r \o q)
                 PROVE  (r \o q)[n] \in Range(r) \cup Range(q)
        OBVIOUS
    <2>1. Len(r) \in Nat /\ Len(q) \in Nat /\ Len(r \o q) = Len(r) + Len(q)
        OBVIOUS
    <2>2. CASE n <= Len(r)
        BY <2>1, <2>2 DEF Range
    <2>3. CASE ~(n <= Len(r))
        <3>1. n - Len(r) \in 1..Len(q) /\ (r \o q)[n] = q[n - Len(r)]
            BY <2>1, <2>3
        <3> QED BY <3>1 DEF Range
    <2> QED BY <2>2, <2>3
<1>2. \A n \in 1..Len(r) : r[n] \in Range(r \o q)
    <2> SUFFICES ASSUME NEW n \in 1..Len(r) PROVE r[n] \in Range(r \o q)
        OBVIOUS
    <2>1. n \in 1..Len(r \o q) /\ (r \o q)[n] = r[n]
        OBVIOUS
    <2> QED BY <2>1 DEF Range
<1>3. \A n \in 1..Len(q) : q[n] \in Range(r \o q)
    <2> SUFFICES ASSUME NEW n \in 1..Len(q) PROVE q[n] \in Range(r \o q)
        OBVIOUS
    <2>1. PICK m \in Nat : m = Len(r) + n
        OBVIOUS
    <2>2. m \in 1..Len(r \o q) /\ (r \o q)[m] = q[n]
        BY <2>1
    <2>3. DOMAIN (r \o q) = 1..Len(r \o q)
        OBVIOUS
    <2> QED BY <2>2, <2>3 DEF Range
<1>4. /\ DOMAIN (r \o q) = 1..Len(r \o q) /\ DOMAIN r = 1..Len(r) /\ DOMAIN q = 1..Len(q)
      /\ \A n \in 1..Len(r \o q) : (r \o q)[n] \in Nat
    <2>1. r \o q \in Seq(Nat)
        OBVIOUS
    <2> QED BY <2>1
<1>5. Range(r \o q) \subseteq Range(r) \cup Range(q)
    BY <1>1, <1>4 DEF Range
<1>6. Range(r) \subseteq Range(r \o q) /\ Range(q) \subseteq Range(r \o q)
    BY <1>2, <1>3, <1>4 DEF Range
<1>7. Range(r \o q) \subseteq Nat
    BY <1>4 DEF Range
<1> QED BY <1>5, <1>6, <1>7

\* A channel never holds more than its capacity.
Bounded == \A s \in Streams : Len(buf[s]) <= SubBuffer

LEMMA NextBounded == TypeOK /\ Bounded /\ [Next]_vars => Bounded'
<1> SUFFICES ASSUME TypeOK, Bounded, [Next]_vars, NEW s \in Streams
             PROVE  Len(buf'[s]) <= SubBuffer
    BY DEF Bounded
<1>1. buf \in [Streams -> Seq(Nat)] /\ buf[s] \in Seq(Nat) /\ Len(buf[s]) \in Nat
      /\ Len(buf[s]) <= SubBuffer /\ SubBuffer \in Nat /\ Len(log) \in Nat
    BY HubAssumption DEF TypeOK, Bounded
<1>2. ASSUME NEW p \in Publishers, PublisherStep(p) PROVE Len(buf'[s]) <= SubBuffer
    <2>1. CASE PublishCall(p) \/ (\E k \in Keys : PublishLock(p, k)) \/ PublishReturn(p)
        BY <1>1, <2>1 DEF PublishCall, PublishLock, PublishReturn, hubVars
    <2>2. ASSUME NEW t \in Streams, Send(p, t) PROVE Len(buf'[s]) <= SubBuffer
        <3>1. CASE buf'[s] = buf[s]
            BY <1>1, <3>1
        <3>2. CASE buf'[s] # buf[s]
            <4>1. buf'[s] = Append(buf[s], Len(log)) /\ Len(buf[s]) < SubBuffer
                BY <1>1, <2>2, <3>2 DEF Send
            <4>2. Len(buf'[s]) = Len(buf[s]) + 1
                BY <1>1, <4>1
            <4> QED BY <1>1, <4>1, <4>2
        <3> QED BY <3>1, <3>2
    <2> QED BY <1>2, <2>1, <2>2 DEF PublisherStep
<1>3. ASSUME NEW t \in Streams, StreamStep(t) PROVE Len(buf'[s]) <= SubBuffer
    <2>1. CASE Receive(t)
        <3>1. buf'[s] = buf[s] \/ (buf[s] # <<>> /\ buf'[s] = Tail(buf[s]))
            BY <1>1, <2>1 DEF Receive
        <3>2. buf[s] # <<>> => Len(Tail(buf[s])) = Len(buf[s]) - 1
            BY <1>1
        <3> QED BY <1>1, <3>1, <3>2
    <2>2. CASE ~Receive(t)
        BY <1>1, <1>3, <2>2 DEF StreamStep, Subscribe, StreamStart, StreamUnsupported, Written,
            Disconnect, StreamEnd, Unsubscribe, CloseChannel, hubVars
    <2> QED BY <2>1, <2>2
<1>4. CASE UNCHANGED vars \/ Finished
    BY <1>1, <1>4 DEF vars, Finished
<1> QED BY <1>2, <1>3, <1>4 DEF Next

\* What LossNeedsFullBuffer says of a step and the stream s.
LossOK(s) ==
    pc'[s] \in Attached =>
        \A e \in Missed(s)' \ Missed(s) :
            /\ Len(buf[s]) = SubBuffer
            /\ Range(buf[s]) \subseteq {d \in Due(s) : d < e}

\* A step after which s is due no more, and has got no less, loses nothing.
LEMMA NothingMissed ==
    ASSUME NEW s \in Streams, pc'[s] \in Attached => Due(s)' \subseteq Due(s),
           Range(Got(s)) \subseteq Range(Got(s))'
    PROVE  LossOK(s)
BY DEF LossOK, Missed

LEMMA DueIsKept ==
    ASSUME NEW s \in Streams, UNCHANGED <<log>>, joined'[s] = joined[s], key'[s] = key[s],
           s \in pending' <=> s \in pending
    PROVE  Due(s)' = Due(s)
BY DEF Due

\* A publication is due to no stream before its walk has been there.
LEMMA LockLosesNothing ==
    ASSUME RInv, NEW p \in Publishers, NEW k \in Keys, PublishLock(p, k), NEW s \in Streams
    PROVE  LossOK(s)
<1> USE DEF RInv, IInv
<1>1. /\ mu = Free /\ pending' = Subscribers(k) /\ log' = Append(log, k)
      /\ UNCHANGED <<buf, pc, key, joined, received>>
    BY DEF PublishLock, streamVars
<1>2. pending = {}
    BY <1>1, HubAssumption DEF WalkInv
<1>3. /\ Len(log) \in Nat /\ Len(log') = Len(log) + 1 /\ log'[Len(log) + 1] = k
      /\ \A e \in 1..Len(log) : log'[e] = log[e]
      /\ joined[s] \in Nat
    BY <1>1 DEF TypeOK
<1>4. ASSUME pc[s] \in Attached, NEW e \in Due(s)'
      PROVE  e \in Due(s)
    <2>1. e \in (joined[s] + 1)..(Len(log) + 1) /\ log'[e] = key[s] /\ ~(s \in pending' /\ e = Len(log) + 1)
        BY <1>1, <1>3, <1>4 DEF Due
    <2>2. key[s] = k => s \in pending'
        BY <1>1, <1>4 DEF MapIsExact
    <2>3. e # Len(log) + 1
        BY <1>3, <2>1, <2>2
    <2>4. e \in (joined[s] + 1)..Len(log) /\ e \in 1..Len(log)
        BY <1>3, <2>1, <2>3
    <2> QED BY <1>2, <1>3, <2>1, <2>4 DEF Due
<1>5. Got(s)' = Got(s)
    BY <1>1 DEF Got
<1>6. pc'[s] \in Attached => Due(s)' \subseteq Due(s)
    BY <1>1, <1>4
<1> QED BY <1>5, <1>6, NothingMissed

\* The walk passes a channel over only when it is full, and then of older events
\* of its own key.
LEMMA SendLosesNothing ==
    ASSUME RInv, Bounded, NEW p \in Publishers, NEW t \in Streams, Send(p, t),
           NEW s \in Streams
    PROVE  LossOK(s)
<1> USE DEF RInv, IInv
<1>1. /\ t \in pending /\ pending' = pending \ {t}
      /\ UNCHANGED <<pc, key, log, joined, received>>
      /\ buf \in [Streams -> Seq(Nat)] /\ received[s] \in Seq(Nat) /\ buf[s] \in Seq(Nat)
      /\ buf' = IF Len(buf[t]) < SubBuffer THEN [buf EXCEPT ![t] = Append(buf[t], Len(log))] ELSE buf
      /\ Len(log) \in Nat
    BY DEF Send, streamVars, history, TypeOK
<1>2. CASE s # t
    <2>1. buf'[s] = buf[s]
        BY <1>1, <1>2
    <2>2. Got(s)' = Got(s) /\ Due(s)' = Due(s)
        BY <1>1, <1>2, <2>1, DueIsKept DEF Got
    <2> QED BY <2>2, NothingMissed
<1>3. CASE s = t /\ buf' # buf
    <2>1. buf'[s] = Append(buf[s], Len(log)) /\ buf'[s] \in Seq(Nat)
        BY <1>1, <1>3
    <2>2. /\ Range(Got(s)) = Range(received[s]) \cup Range(buf[s])
          /\ Range(Got(s))' = Range(received[s]) \cup Range(buf'[s])
        BY <1>1, <2>1, GotIs DEF Got
    <2>3. DOMAIN buf[s] = 1..Len(buf[s]) /\ Len(buf[s]) \in Nat
          /\ DOMAIN buf'[s] = 1..(Len(buf[s]) + 1)
          /\ buf'[s][Len(buf[s]) + 1] = Len(log)
          /\ \A i \in 1..Len(buf[s]) : buf'[s][i] = buf[s][i]
        BY <1>1, <2>1
    <2>4. Range(buf[s]) \subseteq Range(buf'[s]) /\ Len(log) \in Range(buf'[s])
        BY <2>3 DEF Range
    <2>5. \A e \in Due(s)' : e \in Due(s) \/ e = Len(log)
        BY <1>1 DEF Due
    <2> QED BY <2>2, <2>4, <2>5 DEF LossOK, Missed
<1>4. CASE s = t /\ buf' = buf
    <2>1. Fresh(s) /\ OrderedChannel(s)
        BY <1>1, <1>4 DEF OrderInv
    <2>2. Got(s)' = Got(s)
        BY <1>1, <1>4 DEF Got
    <2>3. \A e \in Due(s)' : e \in Due(s) \/ e = Len(log)
        BY <1>1 DEF Due
    <2>4. \A e \in Missed(s)' \ Missed(s) : e = Len(log)
        BY <2>2, <2>3 DEF Missed
    <2>5. Len(buf[s]) = SubBuffer
        <3>1. Len(buf[s]) <= SubBuffer /\ Len(buf[s]) \in Nat
            BY <1>1 DEF Bounded
        <3>2. ~(Len(buf[s]) < SubBuffer)
            <4> SUFFICES ASSUME Len(buf[s]) < SubBuffer PROVE FALSE
                OBVIOUS
            <4>1. buf'[s] = Append(buf[s], Len(log))
                BY <1>1, <1>4
            <4>2. Len(buf'[s]) = Len(buf[s]) + 1
                BY <1>1, <4>1
            <4> QED BY <1>4, <3>1, <4>2
        <3> QED BY <3>1, <3>2, HubAssumption
    <2>6. \A d \in Range(buf[s]) : d \in Due(s) /\ d < Len(log)
        <3> SUFFICES ASSUME NEW i \in 1..Len(buf[s])
                     PROVE  buf[s][i] \in Due(s) /\ buf[s][i] < Len(log)
            BY <1>1 DEF Range
        <3>1. /\ buf[s][i] \in Nat /\ buf[s][i] < Len(log) /\ buf[s][i] \in 1..Len(log)
              /\ log[buf[s][i]] = key[s] /\ joined[s] < buf[s][i] /\ joined[s] \in Nat
            BY <1>1, <2>1 DEF Fresh, OrderedChannel, TypeOK
        <3> QED BY <1>1, <3>1 DEF Due
    <2> QED BY <2>4, <2>5, <2>6 DEF LossOK
<1> QED BY <1>2, <1>3, <1>4

\* Receive moves the head of the channel to the end of what was taken.
LEMMA ReceiveLosesNothing ==
    ASSUME RInv, NEW t \in Streams, Receive(t), NEW s \in Streams
    PROVE  LossOK(s)
<1> USE DEF RInv, IInv
<1>1. /\ UNCHANGED <<key, log, joined, pending>>
      /\ pc[t] = "streaming" /\ pc' = [pc EXCEPT ![t] = "writing"]
      /\ buf[t] # <<>> /\ buf[t] \in Seq(Nat) /\ received[t] \in Seq(Nat)
      /\ buf' = [buf EXCEPT ![t] = Tail(buf[t])]
      /\ received' = [received EXCEPT ![t] = Append(received[t], Head(buf[t]))]
    BY DEF Receive, pubVars, TypeOK
<1>2. Due(s)' = Due(s)
    BY <1>1, DueIsKept
<1>3. \A q, r \in Seq(Nat) : q # <<>> => Append(r, Head(q)) \o Tail(q) = r \o q
    <2> SUFFICES ASSUME NEW q \in Seq(Nat), NEW r \in Seq(Nat), q # <<>>
                 PROVE  Append(r, Head(q)) \o Tail(q) = r \o q
        OBVIOUS
    <2>1. Head(q) \in Nat /\ Tail(q) \in Seq(Nat) /\ <<Head(q)>> \in Seq(Nat)
        OBVIOUS
    <2>2. Append(r, Head(q)) = r \o <<Head(q)>>
        BY <2>1, AppendIsConcat
    <2>3. (r \o <<Head(q)>>) \o Tail(q) = r \o (<<Head(q)>> \o Tail(q))
        BY <2>1, ConcatAssociative
    <2>4. <<Head(q)>> \o Tail(q) = q
        OBVIOUS
    <2> QED BY <2>2, <2>3, <2>4
<1>4. Got(s)' = Got(s)
    <2>1. CASE s = t
        <3>1. buf'[s] = Tail(buf[s]) /\ received'[s] = Append(received[s], Head(buf[s]))
            BY <1>1, <2>1 DEF TypeOK
        <3> QED BY <1>1, <1>3, <2>1, <3>1 DEF Got
    <2>2. CASE s # t
        <3>1. buf'[s] = buf[s] /\ received'[s] = received[s]
            BY <1>1, <2>2 DEF TypeOK
        <3> QED BY <3>1 DEF Got
    <2> QED BY <2>1, <2>2
<1> QED BY <1>2, <1>4, NothingMissed

\* Nothing is due to a stream when it subscribes.
LEMMA SubscribeLosesNothing ==
    ASSUME RInv, NEW t \in Streams, NEW k \in Keys, Subscribe(t, k), NEW s \in Streams
    PROVE  LossOK(s)
<1> USE DEF RInv, IInv
<1>1. /\ UNCHANGED <<buf, log, received, pending>>
      /\ key' = [key EXCEPT ![t] = k]
      /\ joined' = [joined EXCEPT ![t] = Len(log)]
      /\ Len(log) \in Nat
    BY DEF Subscribe, pubVars, TypeOK
<1>2. Got(s)' = Got(s)
    BY <1>1 DEF Got
<1>3. CASE s = t
    <2>1. joined'[s] = Len(log)
        BY <1>1, <1>3 DEF TypeOK
    <2>2. (joined'[s] + 1)..Len(log') = {}
        BY <1>1, <2>1
    <2>3. Due(s)' = {}
        BY <2>2 DEF Due
    <2> QED BY <1>2, <2>3, NothingMissed
<1>4. CASE s # t
    <2>1. Due(s)' = Due(s)
        BY <1>1, <1>4, DueIsKept DEF TypeOK
    <2> QED BY <1>2, <2>1, NothingMissed
<1> QED BY <1>3, <1>4

LEMMA NextLosesNothing ==
    ASSUME RInv, Bounded, [Next]_vars, NEW s \in Streams
    PROVE  LossOK(s)
<1> USE DEF RInv, IInv
<1>1. ASSUME UNCHANGED <<buf, pending, key, log, joined, received>>
      PROVE  LossOK(s)
    <2>1. Got(s)' = Got(s) /\ Due(s)' = Due(s)
        BY <1>1 DEF Got, Due
    <2> QED BY <2>1, NothingMissed
<1>2. ASSUME NEW p \in Publishers, PublisherStep(p) PROVE LossOK(s)
    <2>1. CASE PublishCall(p) \/ PublishReturn(p)
        BY <2>1, <1>1 DEF PublishCall, PublishReturn, hubVars, streamVars, history
    <2> QED BY <1>2, <2>1, LockLosesNothing, SendLosesNothing DEF PublisherStep
<1>3. ASSUME NEW t \in Streams, StreamStep(t) PROVE LossOK(s)
    <2>1. CASE StreamStart(t) \/ StreamUnsupported(t) \/ Written(t)
        BY <2>1, <1>1 DEF StreamStart, StreamUnsupported, Written, hubVars, pubVars, history
    <2>2. CASE Disconnect(t) \/ StreamEnd(t)
        BY <2>2, <1>1 DEF Disconnect, StreamEnd, hubVars, pubVars, history
    <2>3. CASE Unsubscribe(t) \/ CloseChannel(t)
        BY <2>3, <1>1 DEF Unsubscribe, CloseChannel, pubVars, history
    <2> QED BY <1>3, <2>1, <2>2, <2>3, SubscribeLosesNothing, ReceiveLosesNothing DEF StreamStep
<1>4. CASE UNCHANGED vars \/ Finished
    BY <1>4, <1>1 DEF vars, Finished
<1> QED BY <1>2, <1>3, <1>4 DEF Next

(* hub.go:6-7, 61-62: however publications, walks and slow readers interleave, *)
(* a client misses an event only at a moment at which its channel is full of   *)
(* older events that are due to it and that its handler has not taken.         *)
THEOREM LossIsOverflow == Spec => LossNeedsFullBuffer
<1>1. Init => Bounded
    <2>1. Len(<<>>) = 0
        OBVIOUS
    <2> QED BY <2>1, HubAssumption DEF Init, Bounded
<1>2. RInv /\ Bounded /\ [Next]_vars =>
        Bounded' /\ [\A s \in Streams : pc'[s] \in Attached =>
            \A e \in Missed(s)' \ Missed(s) :
                /\ Len(buf[s]) = SubBuffer
                /\ Range(buf[s]) \subseteq {d \in Due(s) : d < e}]_vars
    BY NextBounded, NextLosesNothing DEF LossOK, RInv, IInv
<1> QED BY <1>1, <1>2, RInvariance, PTL DEF Spec, LossNeedsFullBuffer
=============================================================================
