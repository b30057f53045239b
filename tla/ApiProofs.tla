----------------------------- MODULE ApiProofs -----------------------------
(* Proofs about the api process and what stands in front of its handlers:    *)
(* about Server, for any number of clients, statements and tries; about      *)
(* RateLimiter, for any addresses, rate, burst and timing that its           *)
(* assumption allows and any number of requests; and about Sessions, for any *)
(* number of browsers, requests at a time and accounts and any lifetime.     *)
EXTENDS Server, RateLimiter, Sessions, SequenceTheorems, TLAPS

-----------------------------------------------------------------------------
(* The life of the process and its connection. *)

\* The bounds of the counters, for the provers that know no arithmetic.
LEMMA Bounds ==
    /\ 0 \in 0..MaxTries /\ 0 \in 0..MaxOutages /\ 0 \in 0..MaxQueries
    /\ \A n \in 0..MaxTries : n < MaxTries => n + 1 \in 0..MaxTries
    /\ \A n \in 0..MaxOutages : n < MaxOutages => n + 1 \in 0..MaxOutages
BY ServerAssumption

\* Every variable of the process and of the pool keeps its type.
THEOREM ServerTypeCorrect == ServerSpec => []ServerTypeOK
<1>1. ServerInit => ServerTypeOK
  BY Bounds DEF ServerInit, ServerTypeOK, MainStates, RequestStates
<1>2. ServerTypeOK /\ [ServerNext]_serverVars => ServerTypeOK'
  <2> SUFFICES ASSUME ServerTypeOK, [ServerNext]_serverVars PROVE ServerTypeOK'
    OBVIOUS
  <2> USE Bounds, ServerAssumption DEF ServerTypeOK, MainStates, RequestStates, process, pool, requests, database
  <2>1. CASE MainStep
    <3>1. CASE StartTracer BY <3>1 DEF StartTracer
    <3>2. CASE PingSucceeds BY <3>2 DEF PingSucceeds
    <3>3. CASE PingFails BY <3>3 DEF PingFails
    <3>4. CASE GiveUp BY <3>4 DEF GiveUp, Exit
    <3>5. CASE Listen BY <3>5 DEF Listen
    <3>6. CASE ListenFails BY <3>6 DEF ListenFails, Exit
    <3>7. CASE Shutdown BY <3>7 DEF Shutdown
    <3>8. CASE ServeReturns BY <3>8 DEF ServeReturns
    <3>9. CASE CloseDB BY <3>9 DEF CloseDB
    <3>10. CASE Return BY <3>10 DEF Return, Exit
    <3> QED BY <2>1, <3>1, <3>2, <3>3, <3>4, <3>5, <3>6, <3>7, <3>8, <3>9, <3>10 DEF MainStep
  <2>2. CASE Restart BY <2>2 DEF Restart
  <2>3. CASE ComposeUp BY <2>3 DEF ComposeUp
  <2>4. CASE Signal BY <2>4 DEF Signal
  <2>5. CASE DatabaseDown BY <2>5 DEF DatabaseDown
  <2>6. CASE DatabaseUp BY <2>6 DEF DatabaseUp
  <2>7. ASSUME NEW c \in Clients,
               (\E n \in 1..MaxQueries : Arrive(c, n)) \/ RequestStep(c) \/ Leave(c)
        PROVE ServerTypeOK'
    <3>1. CASE \E n \in 1..MaxQueries : Arrive(c, n) BY <3>1 DEF Arrive, Enter
    <3>2. CASE Ask(c) BY <3>2 DEF Ask, Enter
    <3>3. CASE Acquire(c) BY <3>3 DEF Acquire, Enter
    <3>4. CASE Executed(c) BY <3>4 DEF Executed, Enter
    <3>5. CASE Opened(c) BY <3>5 DEF Opened, Enter
    <3>6. CASE Exhausted(c) BY <3>6 DEF Exhausted, Enter
    <3>7. CASE Answered(c) BY <3>7 DEF Answered, Enter
    <3>8. CASE StreamEnds(c) BY <3>8 DEF StreamEnds, Enter
    <3>9. CASE Leave(c) BY <3>9 DEF Leave, Enter
    <3> QED BY <2>7, <3>1, <3>2, <3>3, <3>4, <3>5, <3>6, <3>7, <3>8, <3>9 DEF RequestStep
  <2>8. CASE UNCHANGED serverVars BY <2>8 DEF serverVars
  <2> QED BY <2>1, <2>2, <2>3, <2>4, <2>5, <2>6, <2>7, <2>8 DEF ServerNext
<1> QED BY <1>1, <1>2, PTL DEF ServerSpec

\* The connection is with the request that uses it, so none waits for itself.
THEOREM ConnectionIsExclusive == ServerSpec => []PoolExclusive
<1>1. ServerInit => PoolExclusive
  BY ServerAssumption DEF ServerInit, PoolExclusive
<1>2. ServerTypeOK /\ PoolExclusive /\ [ServerNext]_serverVars => PoolExclusive'
  <2> SUFFICES ASSUME ServerTypeOK, PoolExclusive, [ServerNext]_serverVars PROVE PoolExclusive'
    OBVIOUS
  <2> USE ServerAssumption DEF ServerTypeOK, PoolExclusive, process, pool, requests, database
  <2>1. CASE MainStep
    <3>1. CASE CloseDB
      BY <3>1 DEF CloseDB
    <3>2. CASE GiveUp \/ ListenFails \/ Return
      BY <3>2 DEF GiveUp, ListenFails, Return, Exit
    <3>3. CASE StartTracer \/ PingSucceeds \/ PingFails \/ Listen \/ Shutdown \/ ServeReturns
      BY <3>3 DEF StartTracer, PingSucceeds, PingFails, Listen, Shutdown, ServeReturns
    <3> QED BY <2>1, <3>1, <3>2, <3>3 DEF MainStep
  <2>2. CASE Restart \/ ComposeUp \/ Signal \/ DatabaseDown \/ DatabaseUp
    BY <2>2 DEF Restart, ComposeUp, Signal, DatabaseDown, DatabaseUp
  <2>3. ASSUME NEW c \in Clients,
               (\E n \in 1..MaxQueries : Arrive(c, n)) \/ RequestStep(c) \/ Leave(c)
        PROVE PoolExclusive'
    <3>1. CASE \E n \in 1..MaxQueries : Arrive(c, n) BY <3>1 DEF Arrive, Enter
    <3>2. CASE Ask(c) BY <3>2 DEF Ask, Enter
    <3>3. CASE Acquire(c) BY <3>3 DEF Acquire, Enter
    <3>4. CASE Executed(c) BY <3>4 DEF Executed, Enter
    <3>5. CASE Opened(c) BY <3>5 DEF Opened, Enter
    <3>6. CASE Exhausted(c) BY <3>6 DEF Exhausted, Enter
    <3>7. CASE Answered(c) BY <3>7 DEF Answered, Enter
    <3>8. CASE StreamEnds(c) BY <3>8 DEF StreamEnds, Enter
    <3>9. CASE Leave(c) BY <3>9 DEF Leave, Enter
    <3> QED BY <2>3, <3>1, <3>2, <3>3, <3>4, <3>5, <3>6, <3>7, <3>8, <3>9 DEF RequestStep
  <2>4. CASE UNCHANGED serverVars BY <2>4 DEF serverVars
  <2> QED BY <2>1, <2>2, <2>3, <2>4 DEF ServerNext
<1> QED BY <1>1, <1>2, ServerTypeCorrect, PTL DEF ServerSpec

\* The listener is closed while main serves only by a Shutdown, after the signal.
Told ==
    /\ main \in {"close", "flush", "stopped"} => signalled
    /\ main = "serve" /\ ~listening => signalled

\* The process stops by itself, which docker does not undo, only when told to.
THEOREM OnlyTheSignalStops == ServerSpec => []StopsWhenTold
<1>1. ServerInit => Told
  BY DEF ServerInit, Told
<1>2. Told /\ [ServerNext]_serverVars => Told'
  <2> SUFFICES ASSUME Told, [ServerNext]_serverVars PROVE Told'
    OBVIOUS
  <2> USE DEF Told, process, pool, requests, database
  <2>1. CASE MainStep
    BY <2>1 DEF MainStep, StartTracer, PingSucceeds, PingFails, GiveUp, Listen, ListenFails,
                Shutdown, ServeReturns, CloseDB, Return, Exit
  <2>2. CASE Restart \/ ComposeUp \/ Signal \/ DatabaseDown \/ DatabaseUp
    BY <2>2 DEF Restart, ComposeUp, Signal, DatabaseDown, DatabaseUp, Exited
  <2>3. CASE \E c \in Clients :
                (\E n \in 1..MaxQueries : Arrive(c, n)) \/ RequestStep(c) \/ Leave(c)
    BY <2>3 DEF Arrive, RequestStep, Leave, Ask, Acquire, Executed, Opened, Exhausted,
                Answered, StreamEnds
  <2>4. CASE UNCHANGED serverVars BY <2>4 DEF serverVars
  <2> QED BY <2>1, <2>2, <2>3, <2>4 DEF ServerNext
<1>3. Told => StopsWhenTold
  BY DEF Told, StopsWhenTold
<1> QED BY <1>1, <1>2, <1>3, PTL DEF ServerSpec

-----------------------------------------------------------------------------
(* The limiter. *)

Bucket == [tokens : 0..Capacity, last : 0..clock]

\* What the requests of a history from the i-th on have cost.
Spent(g, i) == (Len(g) - i + 1) * Cost

\* The bucket of an address that is present.
Held(a) == buckets[limiters[a].bucket]

\* A request between getVisitor and Allow holds the bucket its address still
\* has, and is not older than the address's lastSeen.
PendingKnown ==
    \A w \in Handlers : phase[w] = "allow" =>
        /\ addr[w] \in DOMAIN limiters
        /\ limiters[addr[w]].bucket = bucket[w]
        /\ asked[w] <= limiters[addr[w]].lastSeen
        /\ clock - asked[w] <= MaxDelay

\* No two addresses draw from one bucket.
OwnBucket ==
    \A a, b \in DOMAIN limiters : limiters[a].bucket = limiters[b].bucket => a = b

\* A bucket is used no later than MaxDelay after its address was last seen: one
\* idle for IdleLimit has been left alone long enough to be full.
UsedSoon ==
    \A a \in DOMAIN limiters : Held(a).last <= limiters[a].lastSeen + MaxDelay

\* What was spent since any request that passed, and what is left, is covered by
\* the burst and by the time since; of an address that was forgotten, by the
\* time since alone, so that a full bucket can be made for it.
Allowance ==
    \A a \in Addresses : \A i \in 1..Len(grants[a]) :
        IF a \in DOMAIN limiters
        THEN Spent(grants[a], i) + Held(a).tokens <= Capacity + (Held(a).last - grants[a][i])
        ELSE Spent(grants[a], i) <= clock - grants[a][i]

\* A bucket that is not full lacks only what some window up to its last use spent.
UsedUp ==
    \A a \in DOMAIN limiters :
        \/ Held(a).tokens = Capacity
        \/ \E i \in 1..Len(grants[a]) :
            Spent(grants[a], i) + Held(a).tokens >= Capacity + (Held(a).last - grants[a][i])

LimiterInv ==
    /\ PendingKnown
    /\ OwnBucket
    /\ UsedSoon
    /\ Allowance
    /\ UsedUp
    /\ BurstBound

-----------------------------------------------------------------------------
(* What the operators of the model return. *)

LEMMA CapacityType ==
    /\ Cost \in Nat \ {0} /\ Burst \in Nat \ {0} /\ MaxDelay \in Nat /\ IdleLimit \in Nat
    /\ Capacity \in Nat
    /\ Cost <= Capacity
    /\ IdleLimit >= Capacity + MaxDelay
<1>1. Cost \in Nat \ {0} /\ Burst \in Nat \ {0} /\ MaxDelay \in Nat /\ IdleLimit \in Nat
  BY RateLimiterAssumption
<1>2. Burst * Cost \in Nat /\ Burst * Cost = (Burst - 1) * Cost + Cost /\ (Burst - 1) * Cost \in Nat
  BY <1>1
<1> QED BY <1>1, <1>2, RateLimiterAssumption DEF Capacity

LEMMA CostAdds == \A m \in Nat : m * Cost \in Nat /\ (m + 1) * Cost = m * Cost + Cost
BY CapacityType

\* A request that passes adds its cost to what every window up to it has spent.
LEMMA SpentGrows ==
    ASSUME NEW S, NEW g \in Seq(S), NEW x \in S
    PROVE  /\ \A i \in 1..Len(g) : Spent(g, i) \in Nat
           /\ \A i \in 1..Len(g) : Spent(Append(g, x), i) = Spent(g, i) + Cost
           /\ Spent(Append(g, x), Len(g) + 1) = Cost
<1>1. \A m \in Nat : m * Cost \in Nat /\ (m + 1) * Cost = m * Cost + Cost
  BY CostAdds
<1>2. 1 * Cost = Cost
  BY CapacityType
<1>3. Len(g) \in Nat /\ Len(Append(g, x)) = Len(g) + 1
  OBVIOUS
<1>4. ASSUME NEW i \in 1..Len(g)
      PROVE  Spent(g, i) \in Nat /\ Spent(Append(g, x), i) = Spent(g, i) + Cost
  <2> DEFINE m == Len(g) - i + 1
  <2>1. m \in Nat /\ Len(Append(g, x)) - i + 1 = m + 1
    BY <1>3
  <2> HIDE DEF m
  <2>2. Spent(g, i) = m * Cost /\ Spent(Append(g, x), i) = (m + 1) * Cost
    BY <2>1 DEF Spent, m
  <2> QED BY <1>1, <2>1, <2>2
<1>5. Spent(Append(g, x), Len(g) + 1) = Cost
  <2>1. Len(Append(g, x)) - (Len(g) + 1) + 1 = 1
    BY <1>3
  <2> QED BY <1>2, <2>1 DEF Spent
<1> QED BY <1>4, <1>5

\* A bucket fills by one unit a tick, up to its capacity.
LEMMA Refill ==
    ASSUME NEW b \in 1..Len(buckets), buckets \in Seq(Bucket), clock \in Nat
    PROVE  /\ TokensAt(b, clock) \in 0..Capacity
           /\ buckets[b].tokens \in 0..Capacity /\ buckets[b].last \in 0..clock
           /\ \/ /\ TokensAt(b, clock) = Capacity
                 /\ Capacity <= buckets[b].tokens + (clock - buckets[b].last)
              \/ TokensAt(b, clock) = buckets[b].tokens + (clock - buckets[b].last)
<1>1. buckets[b] \in Bucket
  OBVIOUS
<1>2. buckets[b].tokens \in 0..Capacity /\ buckets[b].last \in 0..clock
  BY <1>1 DEF Bucket
<1> QED BY <1>2, CapacityType DEF TokensAt

-----------------------------------------------------------------------------
(* Types. *)

\* Every variable of the limiter keeps its type.
THEOREM LimiterTypeCorrect == LimiterSpec => []LimiterTypeOK
<1>1. LimiterInit => LimiterTypeOK
  BY RateLimiterAssumption DEF LimiterInit, LimiterTypeOK
<1>2. LimiterTypeOK /\ [LimiterNext]_limiterVars => LimiterTypeOK'
  <2> SUFFICES ASSUME LimiterTypeOK, [LimiterNext]_limiterVars PROVE LimiterTypeOK'
    OBVIOUS
  <2> USE CapacityType, RateLimiterAssumption
  <2>1. ASSUME NEW w \in Handlers, NEW ip \in Addresses, getVisitor(w, ip)
        PROVE LimiterTypeOK'
    <3>1. buckets' \in Seq([tokens : 0..Capacity, last : 0..clock]) /\ Len(buckets') \in Nat
          /\ Len(buckets) <= Len(buckets') /\ Len(buckets) \in Nat
          /\ (ip \notin DOMAIN limiters => Len(buckets') \in 1..Len(buckets'))
      <4> DEFINE B == [tokens : 0..Capacity, last : 0..clock]
                 r == [tokens |-> Capacity, last |-> clock]
      <4>1. r \in B /\ buckets \in Seq(B)
        BY DEF LimiterTypeOK
      <4>2. buckets' = IF ip \in DOMAIN limiters THEN buckets ELSE Append(buckets, r)
        BY <2>1 DEF getVisitor
      <4> HIDE DEF B, r
      <4>3. buckets' \in Seq(B) /\ Len(buckets) \in Nat
            /\ Len(buckets') = IF ip \in DOMAIN limiters THEN Len(buckets) ELSE Len(buckets) + 1
        BY <4>1, <4>2
      <4> QED BY <4>3 DEF B
    <3>2. DOMAIN limiters' = DOMAIN limiters \cup {ip}
      BY <2>1 DEF getVisitor
    <3>3. limiters' \in [DOMAIN limiters' -> [bucket : 1..Len(buckets'), lastSeen : 0..clock]]
      <4>1. \A a \in DOMAIN limiters : limiters[a] \in [bucket : 1..Len(buckets), lastSeen : 0..clock]
        BY DEF LimiterTypeOK
      <4>2. \A a \in DOMAIN limiters : limiters[a] \in [bucket : 1..Len(buckets'), lastSeen : 0..clock]
        BY <4>1, <3>1
      <4>3. clock \in 0..clock
        BY DEF LimiterTypeOK
      <4> QED BY <4>1, <4>2, <4>3, <3>1, <3>2, <2>1 DEF getVisitor
    <3>4. bucket' \in [Handlers -> 0..Len(buckets')]
      <4>1. limiters'[ip] \in [bucket : 1..Len(buckets'), lastSeen : 0..clock]
        BY <3>2, <3>3
      <4>2. limiters'[ip].bucket \in 0..Len(buckets')
        BY <4>1
      <4>3. bucket \in [Handlers -> 0..Len(buckets')]
        BY SMTT(30), <3>1 DEF LimiterTypeOK
      <4> QED BY <4>2, <4>3, <2>1 DEF getVisitor
    <3> QED BY <3>1, <3>2, <3>3, <3>4, <2>1 DEF LimiterTypeOK, getVisitor
  <2>2. ASSUME NEW w \in Handlers, Allow(w) PROVE LimiterTypeOK'
    <3>1. Len(buckets') = Len(buckets) /\ buckets' \in Seq([tokens : 0..Capacity, last : 0..clock])
          /\ grants' \in [Addresses -> Seq(0..clock)]
      <4>1. CASE UNCHANGED <<buckets, grants>> BY <4>1 DEF LimiterTypeOK
      <4>2. CASE /\ TokensAt(bucket[w], clock) >= Cost
                 /\ buckets' = [buckets EXCEPT ![bucket[w]] =
                        [tokens |-> TokensAt(bucket[w], clock) - Cost, last |-> clock]]
                 /\ grants' = [grants EXCEPT ![addr[w]] = Append(@, clock)]
        <5> DEFINE B == [tokens : 0..Capacity, last : 0..clock]
                   k == bucket[w]
                   r == [tokens |-> TokensAt(k, clock) - Cost, last |-> clock]
        <5>0. grants' \in [Addresses -> Seq(0..clock)]
          <6>1. \A a \in Addresses : Append(grants[a], clock) \in Seq(0..clock)
            BY DEF LimiterTypeOK
          <6> QED BY <4>2, <6>1 DEF LimiterTypeOK
        <5>1. CASE bucket[w] \in 1..Len(buckets)
          <6>1. TokensAt(bucket[w], clock) \in 0..Capacity
            <7>1. buckets \in Seq(Bucket) /\ clock \in Nat
              BY DEF LimiterTypeOK, Bucket
            <7> QED BY <5>1, <7>1, Refill
          <6>2. r \in B
            BY <4>2, <6>1 DEF LimiterTypeOK
          <6>3. buckets \in Seq(B) /\ buckets' = [buckets EXCEPT ![k] = r]
            BY <4>2 DEF LimiterTypeOK
          <6> HIDE DEF B, k, r
          <6>4. buckets' \in Seq(B) /\ Len(buckets') = Len(buckets)
            <7>1. k \in 1..Len(buckets)
              BY <5>1 DEF k
            <7> QED BY <6>2, <6>3, <7>1, ExceptSeq
          <6> QED BY <5>0, <6>4 DEF B
        <5>2. CASE bucket[w] \notin 1..Len(buckets)
          <6>1. buckets \in Seq(B) /\ buckets' = [buckets EXCEPT ![k] = r] /\ k \notin DOMAIN buckets
            BY <4>2, <5>2 DEF LimiterTypeOK
          <6> HIDE DEF B, k, r
          <6>2. buckets' = buckets
            BY <6>1
          <6> QED BY <5>0, <6>1, <6>2 DEF B
        <5> QED BY <5>1, <5>2
      <4> QED BY <4>1, <4>2, <2>2 DEF Allow
    <3>2. phase' \in [Handlers -> {"idle", "allow"}] /\ addr' \in [Handlers -> Addresses \cup {<<>>}]
          /\ bucket' \in [Handlers -> 0..Len(buckets)] /\ asked' \in [Handlers -> 0..clock]
      <4>1. Len(buckets) \in Nat /\ clock \in Nat
        BY DEF LimiterTypeOK
      <4>2. 0 \in 0..Len(buckets) /\ 0 \in 0..clock
        BY <4>1
      <4> QED BY <4>2, <2>2, Zenon DEF LimiterTypeOK, Allow
    <3>3. UNCHANGED <<clock, limiters, sweepAt>>
      BY <2>2 DEF Allow
    <3> QED BY <3>1, <3>2, <3>3 DEF LimiterTypeOK
  <2>3. CASE cleanupVisitors
    <3>1. sweepAt' \in Nat /\ UNCHANGED <<clock, buckets, phase, addr, bucket, asked, grants>>
      BY <2>3 DEF LimiterTypeOK, cleanupVisitors
    <3>2. DOMAIN limiters' \subseteq DOMAIN limiters /\ \A a \in DOMAIN limiters' : limiters'[a] = limiters[a]
      BY <2>3 DEF cleanupVisitors
    <3>3. limiters' = [a \in DOMAIN limiters' |-> limiters'[a]]
      BY <2>3 DEF cleanupVisitors
    <3>4. limiters' \in [DOMAIN limiters' -> [bucket : 1..Len(buckets), lastSeen : 0..clock]]
      BY <3>2, <3>3 DEF LimiterTypeOK
    <3> QED BY <3>1, <3>2, <3>4 DEF LimiterTypeOK
  <2>4. CASE LimiterTick
    <3>1. clock' \in 0..MaxTicks /\ 0..clock \subseteq 0..clock'
      BY <2>4 DEF LimiterTypeOK, LimiterTick
    <3>2. [bucket : 1..Len(buckets), lastSeen : 0..clock] \subseteq [bucket : 1..Len(buckets), lastSeen : 0..clock']
          /\ [tokens : 0..Capacity, last : 0..clock] \subseteq [tokens : 0..Capacity, last : 0..clock']
      BY <3>1
    <3>3. Seq([tokens : 0..Capacity, last : 0..clock]) \subseteq Seq([tokens : 0..Capacity, last : 0..clock'])
          /\ Seq(0..clock) \subseteq Seq(0..clock')
      BY <3>1, <3>2, SeqMonotonic, Zenon
    <3>4. limiters \in [DOMAIN limiters -> [bucket : 1..Len(buckets), lastSeen : 0..clock']]
      BY <3>2 DEF LimiterTypeOK
    <3>5. asked \in [Handlers -> 0..clock'] /\ grants \in [Addresses -> Seq(0..clock')]
          /\ buckets \in Seq([tokens : 0..Capacity, last : 0..clock'])
      BY <3>1, <3>3 DEF LimiterTypeOK
    <3>6. UNCHANGED <<limiters, buckets, sweepAt, phase, addr, bucket, asked, grants>>
      BY <2>4 DEF LimiterTick
    <3> QED BY <3>1, <3>4, <3>5, <3>6 DEF LimiterTypeOK
  <2>5. CASE UNCHANGED limiterVars
    BY <2>5 DEF LimiterTypeOK, limiterVars
  <2> QED BY <2>1, <2>2, <2>3, <2>4, <2>5 DEF LimiterNext
<1> QED BY <1>1, <1>2, PTL DEF LimiterSpec
-----------------------------------------------------------------------------
(* What a step does to the bucket of each address. *)

LEMMA HeldType ==
    ASSUME LimiterTypeOK, NEW a \in DOMAIN limiters
    PROVE  /\ clock \in Nat /\ Len(buckets) \in Nat
           /\ limiters[a].bucket \in 1..Len(buckets)
           /\ limiters[a].lastSeen \in 0..clock
           /\ Held(a) \in Bucket /\ Held(a).tokens \in 0..Capacity /\ Held(a).last \in 0..clock
<1>1. limiters[a] \in [bucket : 1..Len(buckets), lastSeen : 0..clock]
  BY DEF LimiterTypeOK
<1>2. limiters[a].bucket \in 1..Len(buckets) /\ limiters[a].lastSeen \in 0..clock
  BY <1>1
<1>3. Held(a) \in Bucket
  <2>1. buckets \in Seq(Bucket)
    BY DEF LimiterTypeOK, Bucket
  <2> QED BY <1>2, <2>1 DEF Held
<1>4. clock \in Nat /\ Len(buckets) \in Nat
  BY DEF LimiterTypeOK
<1> QED BY <1>2, <1>3, <1>4 DEF Bucket

\* A request finds the bucket of its address as it was, or a full one is made.
Found(w, ip) ==
    /\ UNCHANGED <<clock, grants>>
    /\ DOMAIN limiters' = DOMAIN limiters \cup {ip}
    /\ \A a \in DOMAIN limiters :
        /\ limiters'[a].bucket = limiters[a].bucket
        /\ limiters[a].lastSeen <= limiters'[a].lastSeen
        /\ Held(a)' = Held(a)
    /\ limiters'[ip].lastSeen = clock
    /\ ip \notin DOMAIN limiters =>
        /\ limiters'[ip].bucket = Len(buckets) + 1
        /\ Held(ip)' = [tokens |-> Capacity, last |-> clock]
    /\ phase'[w] = "allow" /\ addr'[w] = ip /\ bucket'[w] = limiters'[ip].bucket /\ asked'[w] = clock
    /\ \A v \in Handlers \ {w} : /\ phase'[v] = phase[v] /\ addr'[v] = addr[v]
                                /\ bucket'[v] = bucket[v] /\ asked'[v] = asked[v]

LEMMA LookupEffect ==
    ASSUME LimiterTypeOK, NEW w \in Handlers, NEW ip \in Addresses, getVisitor(w, ip)
    PROVE  Found(w, ip)
<1> DEFINE r == [tokens |-> Capacity, last |-> clock]
<1>1. buckets \in Seq(Bucket) /\ r \in Bucket
  BY CapacityType DEF LimiterTypeOK, Bucket
<1>2. buckets' = IF ip \in DOMAIN limiters THEN buckets ELSE Append(buckets, r)
  BY DEF getVisitor
<1>3. /\ Len(buckets) \in Nat
      /\ \A k \in 1..Len(buckets) : buckets'[k] = buckets[k]
      /\ ip \notin DOMAIN limiters => Len(buckets') = Len(buckets) + 1 /\ buckets'[Len(buckets) + 1] = r
  <2> HIDE DEF r
  <2> QED BY <1>1, <1>2, AppendProperties
<1>4. DOMAIN limiters' = DOMAIN limiters \cup {ip}
  BY DEF getVisitor
<1>5. ASSUME NEW a \in DOMAIN limiters
      PROVE  /\ limiters'[a].bucket = limiters[a].bucket
             /\ limiters[a].lastSeen <= limiters'[a].lastSeen
             /\ Held(a)' = Held(a)
  <2>1. limiters'[a].bucket = limiters[a].bucket /\ limiters[a].lastSeen <= limiters'[a].lastSeen
    BY HeldType DEF getVisitor
  <2> QED BY <2>1, <1>3, HeldType DEF Held
<1>6. limiters'[ip].lastSeen = clock
  BY DEF getVisitor
<1>7. ip \notin DOMAIN limiters =>
        /\ limiters'[ip].bucket = Len(buckets) + 1
        /\ Held(ip)' = [tokens |-> Capacity, last |-> clock]
  <2>1. ip \notin DOMAIN limiters => limiters'[ip].bucket = Len(buckets')
    BY DEF getVisitor
  <2> QED BY <2>1, <1>3 DEF Held
<1>8. /\ phase'[w] = "allow" /\ addr'[w] = ip /\ bucket'[w] = limiters'[ip].bucket /\ asked'[w] = clock
      /\ \A v \in Handlers \ {w} : /\ phase'[v] = phase[v] /\ addr'[v] = addr[v]
                                  /\ bucket'[v] = bucket[v] /\ asked'[v] = asked[v]
  BY DEF getVisitor, LimiterTypeOK
<1> QED BY <1>4, <1>5, <1>6, <1>7, <1>8 DEF getVisitor, Found

\* A request either is refused and changes no bucket, or takes its cost from the
\* bucket of its own address and from no other.
Decided(w, ip) ==
    /\ UNCHANGED <<clock, limiters>>
    /\ phase[w] = "allow" /\ phase'[w] = "idle"
    /\ \A v \in Handlers \ {w} : /\ phase'[v] = phase[v] /\ addr'[v] = addr[v]
                                /\ bucket'[v] = bucket[v] /\ asked'[v] = asked[v]
    /\ ip \in DOMAIN limiters
    /\ clock <= limiters[ip].lastSeen + MaxDelay
    /\ \/ UNCHANGED <<buckets, grants>> /\ TokensAt(limiters[ip].bucket, clock) < Cost
       \/ \E h \in Bucket :
            /\ h.last = clock /\ Held(ip)' = h
            /\ h.tokens = TokensAt(limiters[ip].bucket, clock) - Cost
            /\ grants' = [grants EXCEPT ![ip] = Append(@, clock)]
            /\ \A a \in DOMAIN limiters \ {ip} : Held(a)' = Held(a)

LEMMA AllowEffect ==
    ASSUME LimiterTypeOK, PendingKnown, OwnBucket, NEW w \in Handlers, Allow(w),
           NEW ip, ip = addr[w]
    PROVE  Decided(w, ip)
<1>1. /\ UNCHANGED <<clock, limiters>>
      /\ phase[w] = "allow" /\ phase'[w] = "idle"
      /\ \A v \in Handlers \ {w} : /\ phase'[v] = phase[v] /\ addr'[v] = addr[v]
                                  /\ bucket'[v] = bucket[v] /\ asked'[v] = asked[v]
  BY DEF LimiterTypeOK, Allow
<1>2. ip \in DOMAIN limiters /\ limiters[ip].bucket = bucket[w]
  BY <1>1 DEF PendingKnown
<1>3. /\ limiters[ip].bucket \in 1..Len(buckets) /\ limiters[ip].lastSeen \in Nat
      /\ clock \in Nat /\ buckets \in Seq(Bucket) /\ asked[w] \in 0..clock
  <2>1. clock \in Nat /\ buckets \in Seq(Bucket) /\ asked[w] \in 0..clock
    BY DEF LimiterTypeOK, Bucket
  <2>2. limiters[ip].bucket \in 1..Len(buckets) /\ limiters[ip].lastSeen \in 0..clock
    BY <1>2, HeldType
  <2> QED BY <2>1, <2>2
<1>4. clock <= limiters[ip].lastSeen + MaxDelay
  <2>1. asked[w] <= limiters[ip].lastSeen /\ clock - asked[w] <= MaxDelay
    BY <1>1 DEF PendingKnown
  <2> QED BY <1>3, <2>1, CapacityType
<1>5. TokensAt(bucket[w], clock) \in 0..Capacity
  BY <1>2, <1>3, Refill
<1>6. CASE TokensAt(bucket[w], clock) >= Cost
  <2> DEFINE h == [tokens |-> TokensAt(bucket[w], clock) - Cost, last |-> clock]
             k == bucket[w]
  <2>1. h \in Bucket
    <3>1. PICK n : n = TokensAt(bucket[w], clock)
      OBVIOUS
    <3>2. n \in 0..Capacity /\ n >= Cost /\ Cost \in Nat /\ Capacity \in Nat
      BY <1>5, <1>6, <3>1, CapacityType
    <3>3. n - Cost \in 0..Capacity
      BY <3>2
    <3>4. clock \in 0..clock
      BY <1>3
    <3>5. h.tokens \in 0..Capacity /\ h.last \in 0..clock
      BY <3>1, <3>3, <3>4
    <3>6. QED
      BY <3>5 DEF Bucket
  <2>2. buckets' = [buckets EXCEPT ![k] = h] /\ grants' = [grants EXCEPT ![ip] = Append(@, clock)]
    BY <1>6 DEF Allow
  <2>3. k \in 1..Len(buckets)
    BY <1>2, <1>3
  <2>4. h.last = clock /\ h.tokens = TokensAt(bucket[w], clock) - Cost
    OBVIOUS
  <2> HIDE DEF h, k
  <2>5. \A j \in 1..Len(buckets) : buckets'[j] = IF j = k THEN h ELSE buckets[j]
    BY <1>3, <2>1, <2>2, <2>3, ExceptSeq
  <2>6. Held(ip)' = h
    BY <1>1, <1>2, <2>3, <2>5 DEF Held, k
  <2>7. ASSUME NEW a \in DOMAIN limiters, a # ip PROVE Held(a)' = Held(a)
    <3>1. limiters[a].bucket # k /\ limiters[a].bucket \in 1..Len(buckets)
      BY <1>2, <2>7, HeldType DEF OwnBucket, k
    <3> QED BY <1>1, <2>5, <3>1 DEF Held
  <2> QED BY <1>1, <1>2, <1>4, <2>1, <2>2, <2>4, <2>6, <2>7 DEF Decided
<1>7. CASE ~(TokensAt(bucket[w], clock) >= Cost)
  <2>1. UNCHANGED <<buckets, grants>>
    BY <1>7 DEF Allow
  <2>2. TokensAt(bucket[w], clock) < Cost
    BY <1>5, <1>7, CapacityType
  <2> QED BY <1>1, <1>2, <1>4, <2>1, <2>2 DEF Decided
<1> QED BY <1>6, <1>7
-----------------------------------------------------------------------------
(* The inductive invariant. *)

LEMMA LookupPreserves ==
    ASSUME LimiterTypeOK, LimiterTypeOK', LimiterInv, NEW w \in Handlers, NEW ip \in Addresses, getVisitor(w, ip)
    PROVE  LimiterInv'
<1> USE CapacityType
<1> Found(w, ip)
  BY LookupEffect
<1>0. clock \in Nat /\ Len(buckets) \in Nat /\ clock' = clock /\ grants' = grants
  BY DEF LimiterTypeOK, Found
<1>1. PendingKnown'
  <2> SUFFICES ASSUME NEW v \in Handlers, phase'[v] = "allow"
               PROVE  /\ addr'[v] \in DOMAIN limiters'
                      /\ limiters'[addr'[v]].bucket = bucket'[v]
                      /\ asked'[v] <= limiters'[addr'[v]].lastSeen
                      /\ clock' - asked'[v] <= MaxDelay
    BY DEF PendingKnown
  <2>1. CASE v = w
    BY <2>1, <1>0 DEF Found
  <2>2. CASE v # w
    <3>1. /\ addr[v] \in DOMAIN limiters /\ limiters[addr[v]].bucket = bucket[v]
          /\ asked[v] <= limiters[addr[v]].lastSeen /\ clock - asked[v] <= MaxDelay
          /\ addr'[v] = addr[v] /\ bucket'[v] = bucket[v] /\ asked'[v] = asked[v]
      BY <2>2, <1>0 DEF Found, LimiterInv, PendingKnown
    <3>2. asked[v] \in Nat
      BY DEF LimiterTypeOK
    <3>3. /\ limiters'[addr[v]].bucket = limiters[addr[v]].bucket
          /\ limiters[addr[v]].lastSeen <= limiters'[addr[v]].lastSeen
          /\ addr[v] \in DOMAIN limiters'
      BY <3>1 DEF Found
    <3>4. limiters[addr[v]].lastSeen \in Nat /\ limiters'[addr[v]].lastSeen \in Nat
      <4>1. limiters[addr[v]].lastSeen \in 0..clock
        BY <3>1, HeldType
      <4>2. \A a \in DOMAIN limiters' : limiters'[a].lastSeen \in 0..clock'
        BY DEF LimiterTypeOK
      <4> QED BY <1>0, <3>3, <4>1, <4>2
    <3> QED BY <1>0, <3>1, <3>2, <3>3, <3>4
  <2> QED BY <2>1, <2>2
<1>2. OwnBucket'
  <2>1. \A a \in DOMAIN limiters : limiters[a].bucket \in 1..Len(buckets)
    BY HeldType
  <2> QED BY <1>0, <2>1 DEF Found, LimiterInv, OwnBucket
<1>3. UsedSoon'
  <2> SUFFICES ASSUME NEW a \in DOMAIN limiters'
               PROVE  Held(a)'.last <= limiters'[a].lastSeen + MaxDelay
    BY DEF UsedSoon
  <2>1. CASE a \in DOMAIN limiters
    <3>1. /\ Held(a)' = Held(a) /\ limiters[a].lastSeen <= limiters'[a].lastSeen
          /\ Held(a).last <= limiters[a].lastSeen + MaxDelay
      BY <2>1, <1>0 DEF Found, LimiterInv, UsedSoon
    <3>2. Held(a).last \in Nat /\ limiters[a].lastSeen \in Nat
      BY <2>1, HeldType
    <3>3. limiters'[a].lastSeen \in Nat
      <4>1. limiters'[a].lastSeen \in 0..clock'
        BY DEF LimiterTypeOK
      <4> QED BY <1>0, <4>1
    <3> QED BY <3>1, <3>2, <3>3
  <2>2. CASE a \notin DOMAIN limiters
    <3>1. a = ip /\ Held(ip)' = [tokens |-> Capacity, last |-> clock] /\ limiters'[ip].lastSeen = clock
      BY <2>2 DEF Found
    <3> QED BY <1>0, <3>1
  <2> QED BY <2>1, <2>2
<1>4. Allowance'
  <2> SUFFICES ASSUME NEW a \in Addresses, NEW i \in 1..Len(grants[a])
               PROVE  IF a \in DOMAIN limiters'
                      THEN Spent(grants[a], i) + Held(a)'.tokens <= Capacity + (Held(a)'.last - grants[a][i])
                      ELSE Spent(grants[a], i) <= clock - grants[a][i]
    BY <1>0 DEF Allowance, Spent
  <2>1. Spent(grants[a], i) \in Nat /\ grants[a][i] \in 0..clock
    <3>1. grants[a] \in Seq(0..clock)
      BY DEF LimiterTypeOK
    <3> QED BY SMTT(30), <1>0, <3>1, SpentGrows
  <2>2. CASE a \in DOMAIN limiters
    BY <2>2, <1>0 DEF Found, LimiterInv, Allowance
  <2>3. CASE a \notin DOMAIN limiters /\ a = ip
    <3>1. Held(a)' = [tokens |-> Capacity, last |-> clock] /\ a \in DOMAIN limiters'
      BY <2>3 DEF Found
    <3>2. Spent(grants[a], i) <= clock - grants[a][i]
      BY <2>3, <1>0 DEF LimiterInv, Allowance
    <3> QED BY <1>0, <2>1, <3>1, <3>2
  <2>4. CASE a \notin DOMAIN limiters /\ a # ip
    BY <2>4, <1>0 DEF Found, LimiterInv, Allowance
  <2> QED BY <2>2, <2>3, <2>4
<1>5. UsedUp'
  <2> SUFFICES ASSUME NEW a \in DOMAIN limiters'
               PROVE  \/ Held(a)'.tokens = Capacity
                      \/ \E i \in 1..Len(grants[a]) :
                            Spent(grants[a], i) + Held(a)'.tokens >= Capacity + (Held(a)'.last - grants[a][i])
    BY <1>0 DEF UsedUp, Spent
  <2>1. CASE a \in DOMAIN limiters
    BY <2>1, <1>0 DEF Found, LimiterInv, UsedUp
  <2>2. CASE a \notin DOMAIN limiters
    BY <2>2, <1>0 DEF Found
  <2> QED BY <2>1, <2>2
<1>6. BurstBound'
  BY <1>0 DEF LimiterInv, BurstBound
<1> QED BY <1>1, <1>2, <1>3, <1>4, <1>5, <1>6 DEF LimiterInv

LEMMA SweepPreserves ==
    ASSUME LimiterTypeOK, LimiterTypeOK', LimiterInv, cleanupVisitors
    PROVE  LimiterInv'
<1> USE CapacityType
<1>0. /\ clock \in Nat /\ UNCHANGED <<clock, buckets, phase, addr, bucket, asked, grants>>
      /\ DOMAIN limiters' \subseteq DOMAIN limiters
      /\ \A a \in DOMAIN limiters' : limiters'[a] = limiters[a] /\ Held(a)' = Held(a)
  BY SMTT(30) DEF LimiterTypeOK, cleanupVisitors, Held
<1>1. \A a \in DOMAIN limiters \ DOMAIN limiters' : clock - limiters[a].lastSeen > IdleLimit
  BY HeldType DEF cleanupVisitors
<1>2. PendingKnown'
  <2> SUFFICES ASSUME NEW v \in Handlers, phase[v] = "allow" PROVE addr[v] \in DOMAIN limiters'
    BY <1>0 DEF LimiterInv, PendingKnown
  <2>1. addr[v] \in DOMAIN limiters /\ asked[v] <= limiters[addr[v]].lastSeen /\ clock - asked[v] <= MaxDelay
    BY DEF LimiterInv, PendingKnown
  <2>2. asked[v] \in Nat /\ limiters[addr[v]].lastSeen \in Nat
    BY <2>1, HeldType DEF LimiterTypeOK
  <2>3. clock - limiters[addr[v]].lastSeen <= IdleLimit
    BY <1>0, <2>1, <2>2
  <2> QED BY <1>0, <1>1, <2>1, <2>2, <2>3
<1>3. OwnBucket' /\ UsedSoon' /\ UsedUp'
  BY <1>0 DEF LimiterInv, OwnBucket, UsedSoon, UsedUp, Spent
<1>4. Allowance'
  <2> SUFFICES ASSUME NEW a \in Addresses, NEW i \in 1..Len(grants[a]),
                      a \in DOMAIN limiters, a \notin DOMAIN limiters'
               PROVE  Spent(grants[a], i) <= clock - grants[a][i]
    BY <1>0 DEF LimiterInv, Allowance, Spent
  <2>1. Spent(grants[a], i) \in Nat /\ grants[a][i] \in 0..clock
    <3>1. grants[a] \in Seq(0..clock)
      BY DEF LimiterTypeOK
    <3> QED BY SMTT(30), <1>0, <3>1, SpentGrows
  <2>2. Spent(grants[a], i) + Held(a).tokens <= Capacity + (Held(a).last - grants[a][i])
    BY DEF LimiterInv, Allowance
  <2>3. clock - limiters[a].lastSeen > IdleLimit /\ Held(a).last <= limiters[a].lastSeen + MaxDelay
    BY <1>1 DEF LimiterInv, UsedSoon
  <2>4. Held(a).tokens \in Nat /\ Held(a).last \in Nat /\ limiters[a].lastSeen \in Nat
    BY HeldType
  <2>5. \A spent, units, last, since, seen \in Nat :
            /\ spent + units <= Capacity + (last - since)
            /\ clock - seen > IdleLimit /\ last <= seen + MaxDelay
            => spent <= clock - since
    BY <1>0
  <2>6. grants[a][i] \in Nat
    BY <1>0, <2>1
  <2> QED BY <2>1, <2>2, <2>3, <2>4, <2>5, <2>6
<1>5. BurstBound'
  BY <1>0 DEF LimiterInv, BurstBound
<1> QED BY <1>2, <1>3, <1>4, <1>5 DEF LimiterInv

LEMMA LimiterTickPreserves ==
    ASSUME LimiterTypeOK, LimiterTypeOK', LimiterInv, LimiterTick
    PROVE  LimiterInv'
<1> USE CapacityType
<1>0. /\ clock \in Nat /\ clock' = clock + 1
      /\ UNCHANGED <<limiters, buckets, phase, addr, bucket, asked, grants>>
      /\ \A a \in DOMAIN limiters : Held(a)' = Held(a)
  BY DEF LimiterTypeOK, LimiterTick, Held
<1>1. PendingKnown'
  <2>1. \A w \in Handlers : phase[w] = "allow" => clock' - asked[w] <= MaxDelay
    BY <1>0 DEF LimiterTick, LimiterTypeOK
  <2> QED BY <1>0, <2>1 DEF LimiterInv, PendingKnown
<1>2. OwnBucket' /\ UsedSoon' /\ UsedUp' /\ BurstBound'
  BY <1>0 DEF LimiterInv, OwnBucket, UsedSoon, UsedUp, Spent, BurstBound
<1>3. Allowance'
  <2> SUFFICES ASSUME NEW a \in Addresses \ DOMAIN limiters, NEW i \in 1..Len(grants[a])
               PROVE  Spent(grants[a], i) <= clock' - grants[a][i]
    BY <1>0 DEF LimiterInv, Allowance, Spent
  <2>1. Spent(grants[a], i) \in Nat /\ grants[a][i] \in 0..clock
    <3>1. grants[a] \in Seq(0..clock)
      BY DEF LimiterTypeOK
    <3> QED BY SMTT(30), <1>0, <3>1, SpentGrows
  <2>2. Spent(grants[a], i) <= clock - grants[a][i]
    BY DEF LimiterInv, Allowance
  <2> QED BY <1>0, <2>1, <2>2
<1> QED BY <1>1, <1>2, <1>3 DEF LimiterInv
LEMMA AllowPreserves ==
    ASSUME LimiterTypeOK, LimiterTypeOK', LimiterInv, NEW w \in Handlers, Allow(w)
    PROVE  LimiterInv'
<1> USE CapacityType
<1>1. PICK ip : ip = addr[w]
  OBVIOUS
<1>2. Decided(w, ip)
  BY <1>1, AllowEffect DEF LimiterInv
<1>3. /\ clock \in Nat /\ clock' = clock /\ limiters' = limiters
      /\ ip \in DOMAIN limiters /\ ip \in Addresses
  BY <1>2 DEF LimiterTypeOK, Decided
<1>4. PendingKnown' /\ OwnBucket'
  BY <1>2 DEF LimiterInv, PendingKnown, OwnBucket, Decided
<1>5. CASE UNCHANGED <<buckets, grants>>
  <2>1. \A a \in DOMAIN limiters : Held(a)' = Held(a)
    BY <1>3, <1>5 DEF Held
  <2>2. UsedSoon' /\ Allowance' /\ UsedUp' /\ BurstBound'
    BY <1>3, <1>5, <2>1 DEF LimiterInv, UsedSoon, Allowance, UsedUp, BurstBound, Spent
  <2> QED BY <1>4, <2>2 DEF LimiterInv
<1>6. ASSUME NEW h \in Bucket,
             h.last = clock, Held(ip)' = h,
             h.tokens = TokensAt(limiters[ip].bucket, clock) - Cost,
             grants' = [grants EXCEPT ![ip] = Append(@, clock)],
             \A a \in DOMAIN limiters \ {ip} : Held(a)' = Held(a)
      PROVE  LimiterInv'
  <2>1. PICK g : g = grants[ip]
    OBVIOUS
  <2>2. PICK m \in Nat : m = Len(g)
    <3>1. g \in Seq(0..clock)
      BY <1>3, <2>1 DEF LimiterTypeOK
    <3> QED BY <3>1
  <2>3. /\ g \in Seq(0..clock) /\ clock \in 0..clock
        /\ grants'[ip] = Append(g, clock) /\ Len(grants'[ip]) = m + 1
        /\ \A i \in 1..m : grants'[ip][i] = g[i] /\ g[i] \in 0..clock
        /\ grants'[ip][m + 1] = clock
        /\ \A a \in Addresses \ {ip} : grants'[a] = grants[a]
    <3>1. g \in Seq(0..clock) /\ clock \in 0..clock /\ grants'[ip] = Append(g, clock)
          /\ \A a \in Addresses \ {ip} : grants'[a] = grants[a]
      BY <1>3, <1>6, <2>1 DEF LimiterTypeOK
    <3> QED BY <3>1, <2>2, AppendProperties
  <2>4. /\ \A i \in 1..m : Spent(g, i) \in Nat /\ Spent(grants'[ip], i) = Spent(g, i) + Cost
        /\ Spent(grants'[ip], m + 1) = Cost
    BY <2>2, <2>3, SpentGrows
  <2> DEFINE cost(i) == Spent(grants'[ip], i)
  <2>5. /\ \A i \in 1..m : /\ g[i] \in Nat /\ grants'[ip][i] = g[i]
                           /\ Spent(g, i) \in Nat /\ cost(i) = Spent(g, i) + Cost
        /\ cost(m + 1) = Cost /\ grants'[ip][m + 1] = clock
    BY <1>3, <2>3, <2>4
  <2> HIDE DEF cost
  <2>5a. PICK old : old = Held(ip)
    OBVIOUS
  <2>6. /\ old.tokens \in 0..Capacity /\ old.last \in 0..clock /\ h.tokens \in Nat
        /\ h.tokens + Cost \in 0..Capacity
        /\ h.tokens + Cost <= old.tokens + (clock - old.last)
        /\ h.tokens + Cost = Capacity \/ h.tokens + Cost = old.tokens + (clock - old.last)
    <3>1. limiters[ip].bucket \in 1..Len(buckets) /\ buckets \in Seq(Bucket)
      BY <1>3, HeldType DEF LimiterTypeOK, Bucket
    <3>2. h.tokens \in Nat
      BY <1>6 DEF Bucket
    <3>3. TokensAt(limiters[ip].bucket, clock) \in Int /\ TokensAt(limiters[ip].bucket, clock) = h.tokens + Cost
      BY <1>3, <1>6, <3>1, <3>2, Refill
    <3> QED BY <1>3, <2>5a, <3>1, <3>2, <3>3, Refill DEF Held
  <2>7. UsedSoon'
    <3>1. clock <= limiters[ip].lastSeen + MaxDelay
      BY <1>2 DEF Decided
    <3> QED BY <1>3, <1>6, <3>1 DEF LimiterInv, UsedSoon
  <2>8. /\ \A i \in 1..m : cost(i) + h.tokens <= Capacity + (clock - grants'[ip][i])
        /\ cost(m + 1) + h.tokens <= Capacity + (clock - grants'[ip][m + 1])
    <3>1. ASSUME NEW i \in 1..m
          PROVE  cost(i) + h.tokens <= Capacity + (clock - grants'[ip][i])
      <4>1. Spent(g, i) + old.tokens <= Capacity + (old.last - g[i])
        BY <1>3, <2>1, <2>2, <2>5a DEF LimiterInv, Allowance
      <4>2. \A spent, units, last, since, left \in Nat :
                spent + units <= Capacity + (last - since) /\ left + Cost <= units + (clock - last)
                => (spent + Cost) + left <= Capacity + (clock - since)
        BY <1>3
      <4>3. old.tokens \in Nat /\ old.last \in Nat
        BY <1>3, <2>6
      <4> QED BY <2>5, <2>6, <4>1, <4>2, <4>3
    <3>2. cost(m + 1) + h.tokens <= Capacity + (clock - grants'[ip][m + 1])
      BY <1>3, <2>5, <2>6
    <3> QED BY <3>1, <3>2
  <2>9. \A i \in 1..(m + 1) : cost(i) + h.tokens <= Capacity + (clock - grants'[ip][i])
    <3>1. \A i \in 1..(m + 1) : i \in 1..m \/ i = m + 1
      OBVIOUS
    <3> QED BY <2>8, <3>1
  <2>10. Allowance'
    <3> SUFFICES ASSUME NEW a \in Addresses, NEW i \in 1..Len(grants'[a])
                 PROVE  IF a \in DOMAIN limiters'
                        THEN Spent(grants'[a], i) + Held(a)'.tokens <= Capacity + (Held(a)'.last - grants'[a][i])
                        ELSE Spent(grants'[a], i) <= clock' - grants'[a][i]
      BY DEF Allowance, Spent
    <3>1. CASE a = ip
      BY <3>1, <1>3, <1>6, <2>3, <2>9 DEF cost
    <3>2. CASE a # ip
      BY <3>2, <1>3, <1>6, <2>3 DEF LimiterInv, Allowance
    <3> QED BY <3>1, <3>2
  <2>11. UsedUp'
    <3> SUFFICES ASSUME NEW a \in DOMAIN limiters
                 PROVE  \/ Held(a)'.tokens = Capacity
                        \/ \E i \in 1..Len(grants'[a]) :
                              Spent(grants'[a], i) + Held(a)'.tokens >= Capacity + (Held(a)'.last - grants'[a][i])
      BY <1>3 DEF UsedUp, Spent
    <3>1. CASE a # ip
      <4>1. a \in Addresses
        BY DEF LimiterTypeOK
      <4> QED BY <3>1, <4>1, <1>3, <1>6, <2>3 DEF LimiterInv, UsedUp
    <3>2. CASE a = ip /\ h.tokens + Cost = Capacity
      <4>1. cost(m + 1) + h.tokens >= Capacity + (clock - grants'[ip][m + 1])
        BY <3>2, <1>3, <2>5, <2>6
      <4> QED BY SMTT(30), <3>2, <4>1, <1>6, <2>3 DEF cost
    <3>3. CASE a = ip /\ h.tokens + Cost # Capacity
      <4>1. h.tokens + Cost = old.tokens + (clock - old.last)
        BY <3>3, <2>6
      <4>2. old.tokens # Capacity
        BY <3>3, <4>1, <2>6, <1>3
      <4>3. PICK i \in 1..m : Spent(g, i) + old.tokens >= Capacity + (old.last - g[i])
        BY <1>3, <2>1, <2>2, <2>5a, <4>2 DEF LimiterInv, UsedUp
      <4>4. \A spent, units, last, since, left \in Nat :
                spent + units >= Capacity + (last - since) /\ left + Cost = units + (clock - last)
                => (spent + Cost) + left >= Capacity + (clock - since)
        BY <1>3
      <4>5. cost(i) + h.tokens >= Capacity + (clock - grants'[ip][i])
        <5>1. old.tokens \in Nat /\ old.last \in Nat
          BY <1>3, <2>6
        <5>2. PICK spent \in Nat, since \in Nat : spent = Spent(g, i) /\ since = g[i]
          BY <2>5
        <5>3. PICK left \in Nat : left = h.tokens
          BY <2>6
        <5>4. PICK units \in Nat, last \in Nat : units = old.tokens /\ last = old.last
          BY <5>1
        <5>5. spent + units >= Capacity + (last - since) /\ left + Cost = units + (clock - last)
          BY <4>1, <4>3, <5>2, <5>3, <5>4
        <5>6. (spent + Cost) + left >= Capacity + (clock - since)
          BY <4>4, <5>5
        <5>7. cost(i) = spent + Cost /\ grants'[ip][i] = since
          BY <2>5, <5>2
        <5> QED BY <5>3, <5>6, <5>7
      <4>6. i \in 1..Len(grants'[ip])
        BY <2>3
      <4> QED BY <3>3, <4>5, <4>6, <1>6 DEF cost
    <3> QED BY <3>1, <3>2, <3>3
  <2>12. BurstBound'
    <3> SUFFICES ASSUME NEW a \in Addresses, NEW i \in 1..Len(grants'[a]), NEW j \in 1..Len(grants'[a]),
                        i <= j
                 PROVE  (j - i + 1) * Cost <= Capacity + (grants'[a][j] - grants'[a][i])
      BY DEF BurstBound
    <3>1. CASE a # ip
      BY <3>1, <2>3 DEF LimiterInv, BurstBound
    <3>2. CASE a = ip /\ j \in 1..m
      <4>1. i \in 1..m
        BY <3>2, <2>3
      <4>2. (j - i + 1) * Cost <= Capacity + (g[j] - g[i])
        BY <3>2, <4>1, <1>3, <2>1, <2>2 DEF LimiterInv, BurstBound
      <4> QED BY <3>2, <4>1, <4>2, <2>3
    <3>3. CASE a = ip /\ j = m + 1
      <4>1. Spent(grants'[ip], i) + h.tokens <= Capacity + (clock - grants'[ip][i])
        BY <3>3, <2>3, <2>9 DEF cost
      <4>2. (j - i + 1) * Cost = Spent(grants'[ip], i)
        BY <3>3, <2>3 DEF Spent
      <4>3. Spent(grants'[ip], i) \in Nat /\ grants'[ip][i] \in 0..clock
        <5>1. i \in 1..m \/ i = m + 1
          BY <3>3, <2>3
        <5> QED BY SMTT(30), <5>1, <2>3, <2>4
      <4>4. grants'[ip][j] = clock
        BY <3>3, <2>3
      <4>5. \A spent, left, since \in Nat : spent + left <= Capacity + (clock - since) => spent <= Capacity + (clock - since)
        BY <1>3
      <4>6. Spent(grants'[ip], i) <= Capacity + (clock - grants'[ip][i])
        <5>1. grants'[ip][i] \in Nat
          BY <1>3, <4>3
        <5> QED BY <4>1, <4>3, <4>5, <5>1, <2>6
      <4> QED BY <3>3, <4>2, <4>4, <4>6
    <3>4. j \in 1..m \/ j = m + 1 \/ a # ip
      BY <2>3
    <3> QED BY <3>1, <3>2, <3>3, <3>4
  <2> QED BY <1>4, <2>7, <2>10, <2>11, <2>12 DEF LimiterInv
<1> QED BY <1>2, <1>5, <1>6 DEF Decided

LEMMA Inductive == LimiterSpec => []LimiterInv
<1>1. LimiterInit => LimiterInv
  BY DEF LimiterInit, LimiterInv, PendingKnown, OwnBucket, UsedSoon, Allowance, UsedUp, BurstBound
<1>2. LimiterTypeOK /\ LimiterTypeOK' /\ LimiterInv /\ [LimiterNext]_limiterVars => LimiterInv'
  <2> SUFFICES ASSUME LimiterTypeOK, LimiterTypeOK', LimiterInv, [LimiterNext]_limiterVars PROVE LimiterInv'
    OBVIOUS
  <2>1. CASE UNCHANGED limiterVars
    BY <2>1 DEF limiterVars, LimiterInv, PendingKnown, OwnBucket, UsedSoon, Allowance, UsedUp, BurstBound, Held, Spent
  <2> QED BY <2>1, LookupPreserves, AllowPreserves, SweepPreserves, LimiterTickPreserves DEF LimiterNext
<1> QED BY <1>1, <1>2, LimiterTypeCorrect, PTL DEF LimiterSpec

-----------------------------------------------------------------------------
(* What the limiter promises. *)

\* In any window the requests of an address that pass are covered by the burst
\* and by what the rate adds over the window, although sweeps forget addresses
\* and full buckets are made for those that come back.
THEOREM BurstIsBound == LimiterSpec => []BurstBound
<1>1. LimiterInv => BurstBound
  BY DEF LimiterInv
<1> QED BY <1>1, Inductive, PTL

\* A request answered 429 would have broken the burst of some window that ends
\* now: no client is refused for what others asked, or for an allowance it had.
THEOREM RefusalIsDeserved == LimiterSpec => RefusedOnlyOverBurst
<1>1. ASSUME LimiterTypeOK, LimiterInv, [LimiterNext]_limiterVars,
             NEW w \in Handlers, phase[w] = "allow", phase'[w] = "idle", grants' = grants
      PROVE  LET g == grants[addr[w]]
             IN  \E i \in 1..Len(g) : (Len(g) - i + 2) * Cost > Capacity + (clock - g[i])
  <2> USE CapacityType
  <2>1. Allow(w)
    <3>1. CASE UNCHANGED limiterVars BY <3>1, <1>1 DEF limiterVars
    <3>2. CASE cleanupVisitors \/ LimiterTick BY <3>2, <1>1 DEF cleanupVisitors, LimiterTick
    <3>3. ASSUME NEW v \in Handlers, NEW ip \in Addresses, getVisitor(v, ip) PROVE FALSE
      BY <3>3, <1>1 DEF getVisitor, LimiterTypeOK
    <3>4. ASSUME NEW v \in Handlers, Allow(v), v # w PROVE FALSE
      BY <3>4, <1>1 DEF Allow, LimiterTypeOK
    <3> QED BY <3>1, <3>2, <3>3, <3>4, <1>1 DEF LimiterNext
  <2>2. PICK ip : ip = addr[w]
    OBVIOUS
  <2>3. Decided(w, ip)
    BY <1>1, <2>1, <2>2, AllowEffect DEF LimiterInv
  <2>4. ip \in DOMAIN limiters /\ ip \in Addresses /\ clock \in Nat
    BY <1>1, <2>3 DEF LimiterTypeOK, Decided
  <2>5. PICK g : g = grants[ip]
    OBVIOUS
  <2>6. g \in Seq(0..clock) /\ Len(g) \in Nat /\ \A i \in 1..Len(g) : Spent(g, i) \in Nat /\ g[i] \in 0..clock
    <3>1. g \in Seq(0..clock) /\ clock \in 0..clock
      BY <1>1, <2>4, <2>5 DEF LimiterTypeOK
    <3> QED BY <3>1, SpentGrows
  <2>7. TokensAt(limiters[ip].bucket, clock) < Cost
    <3>1. Append(g, clock) # g
      BY <2>4, <2>6
    <3>2. grants' # [grants EXCEPT ![ip] = Append(@, clock)]
      BY <1>1, <2>4, <2>5, <3>1 DEF LimiterTypeOK
    <3> QED BY <2>3, <3>2 DEF Decided
  <2>8. PICK old : old = Held(ip)
    OBVIOUS
  <2>9. /\ old.tokens \in 0..Capacity /\ old.last \in 0..clock
        /\ old.tokens + (clock - old.last) < Cost /\ old.tokens # Capacity
    <3>1. limiters[ip].bucket \in 1..Len(buckets) /\ buckets \in Seq(Bucket)
      BY <1>1, <2>4, HeldType DEF LimiterTypeOK, Bucket
    <3>2. /\ old.tokens \in 0..Capacity /\ old.last \in 0..clock
          /\ TokensAt(limiters[ip].bucket, clock) = Capacity
             \/ TokensAt(limiters[ip].bucket, clock) = old.tokens + (clock - old.last)
      BY <2>4, <2>8, <3>1, Refill DEF Held
    <3>3. old.tokens + (clock - old.last) < Cost
      BY <2>7, <3>2
    <3> QED BY <2>4, <3>2, <3>3
  <2>10. PICK i \in 1..Len(g) : Spent(g, i) + old.tokens >= Capacity + (old.last - g[i])
    BY <1>1, <2>4, <2>5, <2>8, <2>9 DEF LimiterInv, UsedUp
  <2>11. \A spent, units, last, since \in Nat :
            spent + units >= Capacity + (last - since) /\ units + (clock - last) < Cost
            => spent + Cost > Capacity + (clock - since)
    BY <2>4
  <2>12. Spent(g, i) + Cost > Capacity + (clock - g[i])
    <3>1. g[i] \in Nat /\ old.tokens \in Nat /\ old.last \in Nat
      BY <2>4, <2>6, <2>9
    <3> QED BY <2>6, <2>9, <2>10, <2>11, <3>1
  <2>13. (Len(g) - i + 2) * Cost = Spent(g, i) + Cost
    <3>1. \A n \in Nat : (n + 1) * Cost = n * Cost + Cost
      BY CostAdds
    <3>2. PICK n \in Nat : n = Len(g) - i + 1
      <4>1. PICK l \in Nat : l = Len(g)
        BY <2>6
      <4> QED BY <4>1, <2>10
    <3>3. Len(g) - i + 2 = n + 1
      BY <2>6, <2>10, <3>2
    <3> QED BY <3>1, <3>2, <3>3 DEF Spent
  <2> QED BY <2>2, <2>5, <2>12, <2>13
<1>2. LimiterTypeOK /\ LimiterInv /\ [LimiterNext]_limiterVars =>
        [\A w \in Handlers :
            phase[w] = "allow" /\ phase'[w] = "idle" /\ grants' = grants =>
                LET g == grants[addr[w]]
                IN  \E i \in 1..Len(g) : (Len(g) - i + 2) * Cost > Capacity + (clock - g[i])]_limiterVars
  BY <1>1
<1> QED BY <1>2, LimiterTypeCorrect, Inductive, PTL DEF LimiterSpec, RefusedOnlyOverBurst

-----------------------------------------------------------------------------
(* Accounts and sessions. *)

(* A session that lives as long as the cookie, or a Logout that removed it.  *)
Backed(c) ==
    \/ \E s \in sessions : s.token = c.token /\ s.expires >= c.expires
    \/ c.token \in loggedOut

(* What a browser holds, or is about to, was given to its own credentials.   *)
HeldBy(c, b) == c.token # 0 => given[c.token][1] = b /\ Backed(c)

RequestOK(w) ==
    pc[w] # "idle" =>
        /\ HeldBy(req[w].answer.cookie, req[w].browser)
        /\ req[w].token # 0 => given[req[w].token][1] = req[w].browser
        /\ pc[w] = "lookup" => req[w].user = 0
        /\ pc[w] \in {"fetchUser", "insertSession"} =>
            /\ users[req[w].user].email = req[w].email
            /\ users[req[w].user].password = req[w].password

CookiesOK == \A b \in Browsers : HeldBy(cookie[b], b)

(* A session is for the account whose address and password were given.       *)
SessionsOK ==
    \A s \in sessions : /\ given[s.token][2] = users[s.user].email
                        /\ given[s.token][3] = users[s.user].password

LoggedOutOK == failures = 0 => \A s \in sessions : s.token \notin loggedOut

IInv ==
    /\ TypeOK
    /\ \A w \in Workers : RequestOK(w)
    /\ CookiesOK /\ SessionsOK /\ LoggedOutOK

-----------------------------------------------------------------------------
(* What every step does to the tables: rows and tokens are added, and a       *)
(* session goes only with a Logout of it.                                    *)
Grows ==
    /\ Len(users) <= Len(users') /\ \A u \in User : users'[u] = users[u]
    /\ tokens <= tokens' /\ \A t \in 1..tokens : given'[t] = given[t]
    /\ loggedOut \subseteq loggedOut'
    /\ \A s \in sessions : s \in sessions' \/ s.token \in loggedOut'

LEMMA Numbers ==
    ASSUME TypeOK
    PROVE  /\ tokens \in Nat /\ Len(users) \in Nat
           /\ failures \in 0..MaxFailures /\ failures <= failures
BY SessionsAssumption DEF TypeOK

LEMMA AppendKeeps ==
    ASSUME NEW S, NEW q \in Seq(S), NEW x \in S
    PROVE  /\ Append(q, x) \in Seq(S)
           /\ Len(Append(q, x)) = Len(q) + 1 /\ Len(q) \in Nat
           /\ \A i \in 1..Len(q) : Append(q, x)[i] = q[i]
           /\ Append(q, x)[Len(q) + 1] = x
OBVIOUS

LEMMA CookiesGrow ==
    ASSUME TypeOK, Len(users') \in Nat, tokens' \in Nat, Grows
    PROVE  Cookies \subseteq Cookies' /\ Answers \subseteq Answers' /\ Body \subseteq Body'
           /\ Visit \subseteq Visit' /\ User \subseteq User'
<1>1. User \subseteq User'
    BY DEF Grows, User, TypeOK
<1>2. 0..tokens \subseteq 0..tokens' /\ 1..tokens \subseteq 1..tokens'
    BY DEF Grows, TypeOK
<1>3. Cookies \subseteq Cookies'
    BY <1>2 DEF Cookies
<1>4. Answers \subseteq Answers'
    BY <1>3 DEF Answers
<1>5. Body \subseteq Body'
    BY <1>1, <1>4 DEF Body
<1>6. Visit \subseteq Visit'
    BY <1>1, <1>2, <1>4 DEF Visit
<1>7. QED
    BY <1>1, <1>3, <1>4, <1>5, <1>6

(* What every request has, whatever its kind.                                *)
LEMMA RequestFields ==
    ASSUME TypeOK, NEW r \in Body \cup Visit
    PROVE  /\ r.browser \in Browsers
           /\ r.token \in 0..tokens
           /\ r.user \in {0} \cup User
           /\ r.answer.cookie \in Cookies
<1>1. tokens \in Nat
    BY SessionsAssumption DEF TypeOK
<1>2. r.browser \in Browsers /\ r.user \in {0} \cup User /\ r.answer \in Answers
    BY DEF Body, Visit
<1>3. r.token \in 0..tokens
    <2>1. r.token \in {0} \/ r.token \in 1..tokens
        BY DEF Body, Visit
    <2>2. QED
        BY <1>1, <2>1
<1>4. r.answer.cookie \in Cookies
    BY <1>2 DEF Answers
<1>5. QED
    BY <1>2, <1>3, <1>4

LEMMA HeldStaysHeld ==
    ASSUME TypeOK, Grows, NEW c \in Cookies, NEW b, HeldBy(c, b)
    PROVE  HeldBy(c, b)'
<1>1. CASE c.token = 0
    BY <1>1 DEF HeldBy
<1>2. CASE c.token # 0
    <2>1. c.token \in 1..tokens
        BY <1>2 DEF TypeOK, Cookies
    <2>2. given'[c.token] = given[c.token]
        BY <2>1 DEF Grows
    <2>3. Backed(c)'
        BY <1>2 DEF HeldBy, Backed, Grows
    <2>4. QED
        BY <1>2, <2>2, <2>3 DEF HeldBy
<1>3. QED
    BY <1>1, <1>2

(* A request that is not the one that moves stays as it should be.           *)
LEMMA RequestStays ==
    ASSUME TypeOK, Len(users') \in Nat, tokens' \in Nat, Grows,
           NEW w \in Workers, RequestOK(w), pc'[w] = pc[w], req'[w] = req[w]
    PROVE  RequestTypeOK(w)' /\ RequestOK(w)'
<1>1. RequestTypeOK(w)'
    BY CookiesGrow DEF TypeOK, RequestTypeOK
<1>2. ASSUME pc[w] # "idle"
      PROVE  RequestOK(w)'
    <2>1. req[w] \in Body \cup Visit
        BY <1>2 DEF TypeOK, RequestTypeOK
    <2>2. req[w].answer.cookie \in Cookies /\ req[w].token \in 0..tokens
        BY <2>1, RequestFields
    <2>3. HeldBy(req[w].answer.cookie, req[w].browser)'
        BY <1>2, <2>2, HeldStaysHeld DEF RequestOK
    <2>4. req[w].token # 0 => given'[req[w].token] = given[req[w].token]
        BY <2>2 DEF Grows, TypeOK
    <2>5. pc[w] \in {"fetchUser", "insertSession"} => users'[req[w].user] = users[req[w].user]
        BY DEF TypeOK, RequestTypeOK, Grows
    <2>6. QED
        BY <1>2, <2>3, <2>4, <2>5 DEF RequestOK
<1>3. QED
    BY <1>1, <1>2 DEF RequestOK

(* The parts of TypeOK about the tables and about the requests.              *)
TableTypes ==
    /\ now \in 0..MaxTime
    /\ users \in Seq([name : Names, email : Emails, password : Passwords])
    /\ sessions \subseteq [token : 1..tokens, user : User, created : 0..now,
                           expires : 0..MaxTime + Lifetime]
    /\ tokens \in 0..MaxTokens
    /\ cookie \in [Browsers -> Cookies]
    /\ failures \in 0..MaxFailures
    /\ given \in Seq(Browsers \X Emails \X Passwords) /\ Len(given) = tokens
    /\ loggedOut \subseteq 1..tokens

TablesOK == TableTypes /\ CookiesOK /\ SessionsOK /\ LoggedOutOK

RequestsOK ==
    /\ pc \in [Workers -> {"idle", "answer"} \cup BodyStates \cup VisitStates]
    /\ DOMAIN req = Workers
    /\ \A w \in Workers : RequestTypeOK(w) /\ RequestOK(w)

LEMMA Parts == /\ IInv <=> TablesOK /\ RequestsOK
               /\ IInv' <=> TablesOK' /\ RequestsOK'
BY DEF IInv, TypeOK, TablesOK, TableTypes, RequestsOK

(* A step of w, of which the others know nothing.                            *)
LEMMA OneMoves ==
    ASSUME IInv, Len(users') \in Nat, tokens' \in Nat, Grows, NEW w \in Workers,
           pc' \in [Workers -> {"idle", "answer"} \cup BodyStates \cup VisitStates],
           DOMAIN req' = Workers,
           \A v \in Workers \ {w} : pc'[v] = pc[v] /\ req'[v] = req[v],
           RequestTypeOK(w)' /\ RequestOK(w)'
    PROVE  RequestsOK'
<1>1. ASSUME NEW v \in Workers \ {w}
      PROVE  RequestTypeOK(v)' /\ RequestOK(v)'
    BY <1>1, RequestStays DEF IInv
<1>2. QED
    BY <1>1 DEF RequestsOK

(* A request that is answered, with a cookie that is held or without.         *)
LEMMA AnswerKeepsRequests ==
    ASSUME IInv, Len(users') \in Nat, tokens' \in Nat, Grows, NEW w \in Workers,
           req[w] \in Body \cup Visit, RequestOK(w), pc[w] # "idle",
           NEW c, Answer(w, c), (c \in Answers)', HeldBy(c.cookie, req[w].browser)'
    PROVE  RequestsOK'
<1>1. /\ pc' = [pc EXCEPT ![w] = "answer"]
      /\ req' = [req EXCEPT ![w] = [req[w] EXCEPT !.answer = c]]
      /\ pc \in [Workers -> {"idle", "answer"} \cup BodyStates \cup VisitStates]
      /\ DOMAIN req = Workers
    BY DEF Answer, Goto, IInv, TypeOK
<1>2. pc'[w] = "answer" /\ req'[w] = [req[w] EXCEPT !.answer = c]
    BY <1>1
<1>3. req'[w] \in (Body \cup Visit)'
    <2>1. req[w] \in (Body \cup Visit)'
        BY CookiesGrow DEF IInv
    <2>2. QED
        BY <1>2, <2>1 DEF Body, Visit
<1>4. /\ req'[w].answer = c
      /\ req'[w].browser = req[w].browser
      /\ req'[w].token = req[w].token
    BY <1>2 DEF Body, Visit
<1>5. RequestTypeOK(w)'
    BY <1>2, <1>3 DEF RequestTypeOK, BodyStates, VisitStates
<1>6. req[w].token # 0 => given'[req[w].token] = given[req[w].token]
    BY RequestFields DEF IInv, Grows, TypeOK
<1>7. RequestOK(w)'
    BY <1>2, <1>4, <1>6 DEF RequestOK
<1>8. /\ pc' \in [Workers -> {"idle", "answer"} \cup BodyStates \cup VisitStates]
      /\ DOMAIN req' = Workers
      /\ \A v \in Workers \ {w} : pc'[v] = pc[v] /\ req'[v] = req[v]
    BY <1>1
<1>9. QED
    BY <1>5, <1>7, <1>8, OneMoves

(* A step that leaves the tables and the browsers alone.                      *)
LEMMA TablesStay ==
    ASSUME IInv, UNCHANGED <<now, users, sessions, tokens, cookie, given, loggedOut>>,
           failures' \in 0..MaxFailures, failures <= failures'
    PROVE  TablesOK' /\ Grows /\ Len(users') \in Nat /\ tokens' \in Nat
<1>1. Grows /\ Len(users') \in Nat /\ tokens' \in Nat
    BY SessionsAssumption DEF IInv, TypeOK, Grows
<1>2. TableTypes'
    BY DEF IInv, TypeOK, TableTypes, Cookies, User
<1>3. CookiesOK' /\ SessionsOK'
    BY DEF IInv, CookiesOK, SessionsOK, HeldBy, Backed
<1>4. LoggedOutOK'
    BY SessionsAssumption DEF IInv, LoggedOutOK, TypeOK
<1>5. QED
    BY <1>1, <1>2, <1>3, <1>4 DEF TablesOK

-----------------------------------------------------------------------------
LEMMA InitIInv == Init => IInv
<1> SUFFICES ASSUME Init
             PROVE  IInv
    OBVIOUS
<1>1. tokens = 0 /\ Len(users) = 0 /\ given = <<>> /\ Len(given) = 0
    BY DEF Init
<1>2. TableTypes
    BY <1>1, SessionsAssumption DEF Init, TableTypes, Cookies, NoCookie
<1>3. RequestsOK
    BY DEF Init, RequestsOK, RequestTypeOK, RequestOK, BodyStates, VisitStates
<1>4. CookiesOK /\ SessionsOK /\ LoggedOutOK
    BY DEF Init, CookiesOK, HeldBy, NoCookie, SessionsOK, LoggedOutOK
<1>5. QED
    BY <1>2, <1>3, <1>4, Parts DEF TablesOK

LEMMA KeepIsHeld == ASSUME TypeOK, NEW b
                    PROVE  Keep \in Answers /\ HeldBy(Keep.cookie, b)
<1>1. 0 \in 0..tokens /\ 0 \in 0..MaxTime + Lifetime
    BY SessionsAssumption DEF TypeOK
<1>2. QED
    BY <1>1 DEF Keep, NoCookie, Answers, Cookies, HeldBy

(* How a statement counts its failures.                                      *)
LEMMA StatementFailures ==
    ASSUME TypeOK, NEW w \in Workers, NEW label, NEW o, Statement(w, label, o)
    PROVE  /\ failures' \in 0..MaxFailures /\ failures <= failures'
           /\ failures' = 0 => o = "ok" /\ failures = 0
           /\ pc[w] = label
BY SessionsAssumption DEF TypeOK, Statement

(* auth.go:20-50, 94-104: a request arrives.                                 *)
LEMMA CredentialsStep ==
    ASSUME IInv, NEW w \in Workers, NEW b \in Browsers, NEW n \in GivenNames,
           NEW e \in Emails, NEW p \in Passwords, NEW label \in {"insertUser", "selectUser"},
           label = "insertUser" => n \in Names, Credentials(w, b, label, n, e, p)
    PROVE  IInv'
<1>1. TablesOK' /\ Grows /\ Len(users') \in Nat /\ tokens' \in Nat
    <2>1. UNCHANGED <<now, users, sessions, tokens, cookie, failures, given, loggedOut>>
        BY DEF Credentials
    <2>2. failures' \in 0..MaxFailures /\ failures <= failures'
        BY <2>1, Numbers DEF IInv
    <2>3. QED
        BY <2>1, <2>2, TablesStay
<1>2. /\ pc' = [pc EXCEPT ![w] = label]
      /\ req' = [req EXCEPT ![w] = [browser |-> b, name |-> n, email |-> e, password |-> p,
                                    user |-> 0, token |-> 0, answer |-> Keep]]
      /\ UNCHANGED <<users, sessions, tokens, given, loggedOut>>
      /\ pc \in [Workers -> {"idle", "answer"} \cup BodyStates \cup VisitStates]
      /\ DOMAIN req = Workers
    BY DEF Credentials, Goto, IInv, TypeOK
<1>3. /\ pc'[w] = label
      /\ req'[w] = [browser |-> b, name |-> n, email |-> e, password |-> p,
                    user |-> 0, token |-> 0, answer |-> Keep]
    BY <1>2
<1>4. (Keep \in Answers /\ HeldBy(Keep.cookie, b))'
    BY <1>2, KeepIsHeld DEF IInv, Answers, Cookies, HeldBy, Backed
<1>5. RequestTypeOK(w)'
    <2>1. req'[w] \in Body'
        BY <1>3, <1>4 DEF Body
    <2>2. QED
        <3>1. req'[w].name = n
            BY <1>3
        <3>2. QED
            BY <1>3, <2>1, <3>1 DEF RequestTypeOK, BodyStates, VisitStates
<1>6. RequestOK(w)'
    <2>1. /\ req'[w].answer = Keep /\ req'[w].browser = b /\ req'[w].token = 0
          /\ pc'[w] \notin {"lookup", "fetchUser", "insertSession"}
        BY <1>3
    <2>2. QED
        BY <1>4, <2>1 DEF RequestOK
<1>7. /\ pc' \in [Workers -> {"idle", "answer"} \cup BodyStates \cup VisitStates]
      /\ DOMAIN req' = Workers
      /\ \A v \in Workers \ {w} : pc'[v] = pc[v] /\ req'[v] = req[v]
    BY <1>2 DEF BodyStates
<1>8. RequestsOK'
    BY <1>1, <1>5, <1>6, <1>7, OneMoves
<1>9. QED
    BY <1>1, <1>8, Parts

LEMMA AuthenticatedStep ==
    ASSUME IInv, NEW w \in Workers, NEW b \in Browsers, NEW act \in {"route", "logout"},
           Authenticated(w, b, act)
    PROVE  IInv'
<1>1. TablesOK' /\ Grows /\ Len(users') \in Nat /\ tokens' \in Nat
    <2>1. UNCHANGED <<now, users, sessions, tokens, cookie, failures, given, loggedOut>>
        BY DEF Authenticated
    <2>2. failures' \in 0..MaxFailures /\ failures <= failures'
        BY <2>1, Numbers DEF IInv
    <2>3. QED
        BY <2>1, <2>2, TablesStay
<1>2. /\ pc' = [pc EXCEPT ![w] = "lookup"]
      /\ req' = [req EXCEPT ![w] = [op |-> act, browser |-> b, user |-> 0,
                                    token |-> cookie[b].token, answer |-> Keep]]
      /\ UNCHANGED <<users, sessions, tokens, given, loggedOut>>
      /\ cookie[b].token # 0
      /\ pc \in [Workers -> {"idle", "answer"} \cup BodyStates \cup VisitStates]
      /\ DOMAIN req = Workers
    BY DEF Authenticated, Goto, IInv, TypeOK
<1>3. /\ pc'[w] = "lookup"
      /\ req'[w] = [op |-> act, browser |-> b, user |-> 0,
                    token |-> cookie[b].token, answer |-> Keep]
    BY <1>2
<1>4. (Keep \in Answers /\ HeldBy(Keep.cookie, b))'
    BY <1>2, KeepIsHeld DEF IInv, Answers, Cookies, HeldBy, Backed
<1>5. cookie[b].token \in 1..tokens'
    <2>1. cookie[b].token \in 0..tokens /\ tokens \in Nat
        BY SessionsAssumption DEF IInv, TypeOK, Cookies
    <2>2. QED
        BY <1>2, <2>1
<1>6. RequestTypeOK(w)'
    BY <1>3, <1>4, <1>5 DEF RequestTypeOK, BodyStates, VisitStates, Visit
<1>7. given'[cookie[b].token][1] = b
    BY <1>2 DEF IInv, CookiesOK, HeldBy
<1>8. RequestOK(w)'
    BY <1>3, <1>4, <1>7 DEF RequestOK
<1>9. /\ pc' \in [Workers -> {"idle", "answer"} \cup BodyStates \cup VisitStates]
      /\ DOMAIN req' = Workers
      /\ \A v \in Workers \ {w} : pc'[v] = pc[v] /\ req'[v] = req[v]
    BY <1>2 DEF VisitStates
<1>10. QED
    BY <1>1, <1>6, <1>8, <1>9, OneMoves, Parts

(* A statement that only reads: nobody's tables change, and the request goes   *)
(* on, or is answered as it was or without a cookie.                          *)
LEMMA ReadStep ==
    ASSUME IInv, NEW w \in Workers, NEW label \in BodyStates \cup VisitStates, NEW o,
           Statement(w, label, o),
           UNCHANGED <<now, users, sessions, tokens, cookie, given, loggedOut>>
    PROVE  /\ TablesOK' /\ Grows /\ Len(users') \in Nat /\ tokens' \in Nat
           /\ Answer(w, Keep) => IInv'
<1>1. TablesOK' /\ Grows /\ Len(users') \in Nat /\ tokens' \in Nat
    BY TablesStay, StatementFailures DEF IInv
<1>2. ASSUME Answer(w, Keep)
      PROVE  IInv'
    <2>1. pc[w] = label /\ pc[w] # "idle"
        BY DEF Statement, BodyStates, VisitStates
    <2>2. req[w] \in Body \cup Visit /\ RequestOK(w)
        BY <2>1 DEF IInv, TypeOK, RequestTypeOK
    <2>3. (Keep \in Answers)' /\ HeldBy(Keep.cookie, req[w].browser)'
        BY KeepIsHeld DEF IInv, Answers, Cookies, HeldBy, Backed, Keep, NoCookie
    <2>4. RequestsOK'
        BY <1>1, <1>2, <2>1, <2>2, <2>3, AnswerKeepsRequests
    <2>5. QED
        BY <1>1, <2>4, Parts
<1>3. QED
    BY <1>1, <1>2

(* auth.go:73-77 *)
LEMMA FetchUserStep ==
    ASSUME IInv, NEW w \in Workers, NEW o, FetchUser(w, o)
    PROVE  IInv'
<1>1. /\ Statement(w, "fetchUser", o)
      /\ UNCHANGED <<now, users, sessions, tokens, cookie, given, loggedOut>>
      /\ "fetchUser" \in BodyStates \cup VisitStates
    BY DEF FetchUser, BodyStates
<1>2. TablesOK' /\ Grows /\ Len(users') \in Nat /\ tokens' \in Nat
      /\ (Answer(w, Keep) => IInv')
    BY <1>1, ReadStep
<1>3. ASSUME Goto(w, "insertSession"), UNCHANGED req
      PROVE  IInv'
    <2>1. pc[w] = "fetchUser" /\ pc' = [pc EXCEPT ![w] = "insertSession"]
        BY <1>1, <1>3 DEF Statement, Goto
    <2>2. /\ pc \in [Workers -> {"idle", "answer"} \cup BodyStates \cup VisitStates]
          /\ DOMAIN req = Workers /\ RequestTypeOK(w) /\ RequestOK(w)
        BY DEF IInv, TypeOK
    <2>3. pc'[w] = "insertSession"
        BY <2>1, <2>2
    <2>4. RequestTypeOK(w)'
        <3>1. req[w] \in Body /\ req[w].user \in User
            BY <2>1, <2>2 DEF RequestTypeOK, BodyStates
        <3>2. req[w] \in Body' /\ req[w].user \in User'
            BY <1>2, <3>1, CookiesGrow DEF IInv
        <3>3. QED
            BY <1>3, <2>3, <3>2 DEF RequestTypeOK, BodyStates, VisitStates
    <2>5. RequestOK(w)'
        BY <1>1, <1>3, <2>1, <2>2, <2>3 DEF RequestOK, HeldBy, Backed
    <2>6. /\ pc' \in [Workers -> {"idle", "answer"} \cup BodyStates \cup VisitStates]
          /\ DOMAIN req' = Workers
          /\ \A v \in Workers \ {w} : pc'[v] = pc[v] /\ req'[v] = req[v]
        BY <1>3, <2>1, <2>2 DEF BodyStates
    <2>7. QED
        BY <1>2, <2>4, <2>5, <2>6, OneMoves, Parts
<1>4. QED
    BY <1>2, <1>3 DEF FetchUser

(* auth.go:116-126: the account found is the one of the address and password. *)
LEMMA SelectUserStep ==
    ASSUME IInv, NEW w \in Workers, NEW o, SelectUser(w, o)
    PROVE  IInv'
<1> DEFINE found == {u \in User : users[u].email = req[w].email
                                  /\ users[u].password = req[w].password}
<1>1. /\ Statement(w, "selectUser", o)
      /\ UNCHANGED <<now, users, sessions, tokens, cookie, given, loggedOut>>
      /\ "selectUser" \in BodyStates \cup VisitStates
    BY DEF SelectUser, BodyStates
<1>2. TablesOK' /\ Grows /\ Len(users') \in Nat /\ tokens' \in Nat
      /\ (Answer(w, Keep) => IInv')
    BY <1>1, ReadStep
<1>3. ASSUME found # {}, Goto(w, "insertSession"),
             req' = [req EXCEPT ![w].user = CHOOSE u \in found : TRUE]
      PROVE  IInv'
    <2>1. pc[w] = "selectUser" /\ pc' = [pc EXCEPT ![w] = "insertSession"]
        BY <1>1, <1>3 DEF Statement, Goto
    <2>2. /\ pc \in [Workers -> {"idle", "answer"} \cup BodyStates \cup VisitStates]
          /\ DOMAIN req = Workers /\ RequestTypeOK(w) /\ RequestOK(w)
        BY DEF IInv, TypeOK
    <2>3. PICK u \in found : u = CHOOSE x \in found : TRUE
        BY <1>3
    <2>4. pc'[w] = "insertSession" /\ req'[w] = [req[w] EXCEPT !.user = u]
        BY <1>3, <2>1, <2>2, <2>3
    <2>5. req[w] \in Body
        BY <2>1, <2>2 DEF RequestTypeOK, BodyStates
    <2>6. req'[w] \in Body /\ req'[w].user = u
          /\ req'[w].answer = req[w].answer /\ req'[w].browser = req[w].browser
          /\ req'[w].token = req[w].token /\ req'[w].email = req[w].email
          /\ req'[w].password = req[w].password
        BY <2>3, <2>4, <2>5 DEF Body
    <2>7. RequestTypeOK(w)'
        <3>1. req'[w] \in Body' /\ u \in User'
            BY <1>2, <2>3, <2>6, CookiesGrow DEF IInv
        <3>2. QED
            BY <2>4, <2>6, <3>1 DEF RequestTypeOK, BodyStates, VisitStates
    <2>8. RequestOK(w)'
        BY <1>1, <2>1, <2>2, <2>3, <2>4, <2>6 DEF RequestOK, HeldBy, Backed
    <2>9. /\ pc' \in [Workers -> {"idle", "answer"} \cup BodyStates \cup VisitStates]
          /\ DOMAIN req' = Workers
          /\ \A v \in Workers \ {w} : pc'[v] = pc[v] /\ req'[v] = req[v]
        BY <1>3, <2>1, <2>2 DEF BodyStates
    <2>10. QED
        BY <1>2, <2>7, <2>8, <2>9, OneMoves, Parts
<1>4. QED
    BY <1>2, <1>3 DEF SelectUser

(* middleware/auth.go:25-36 *)
LEMMA LookupStep ==
    ASSUME IInv, NEW w \in Workers, NEW o, Lookup(w, o)
    PROVE  IInv'
<1>1. /\ Statement(w, "lookup", o)
      /\ UNCHANGED <<now, users, sessions, tokens, cookie, given, loggedOut>>
      /\ "lookup" \in BodyStates \cup VisitStates
    BY DEF Lookup, VisitStates
<1>2. TablesOK' /\ Grows /\ Len(users') \in Nat /\ tokens' \in Nat
      /\ (Answer(w, Keep) => IInv')
    BY <1>1, ReadStep
<1>3. ASSUME Valid(req[w].token) # {}, NEW next \in {"deleteSession", "answer"}, Goto(w, next),
             req' = [req EXCEPT ![w].user = (CHOOSE s \in Valid(req[w].token) : TRUE).user]
      PROVE  IInv'
    <2>1. pc[w] = "lookup" /\ pc' = [pc EXCEPT ![w] = next]
        BY <1>1, <1>3 DEF Statement, Goto
    <2>2. /\ pc \in [Workers -> {"idle", "answer"} \cup BodyStates \cup VisitStates]
          /\ DOMAIN req = Workers /\ RequestTypeOK(w) /\ RequestOK(w)
        BY DEF IInv, TypeOK
    <2>3. PICK s \in Valid(req[w].token) : s = CHOOSE x \in Valid(req[w].token) : TRUE
        BY <1>3
    <2>4. s.user \in User
        BY DEF Valid, IInv, TypeOK
    <2>5. pc'[w] = next /\ req'[w] = [req[w] EXCEPT !.user = s.user]
        BY <1>3, <2>1, <2>2, <2>3
    <2>6. req[w] \in Visit
        BY <2>1, <2>2 DEF RequestTypeOK, VisitStates
    <2>7. req'[w] \in Visit
          /\ req'[w].answer = req[w].answer /\ req'[w].browser = req[w].browser
          /\ req'[w].token = req[w].token
        BY <2>4, <2>5, <2>6 DEF Visit
    <2>8. RequestTypeOK(w)'
        <3>1. req'[w] \in Visit'
            BY <1>2, <2>7, CookiesGrow DEF IInv
        <3>2. QED
            BY <2>5, <3>1 DEF RequestTypeOK, BodyStates, VisitStates
    <2>9. RequestOK(w)'
        BY <1>1, <2>1, <2>2, <2>5, <2>7 DEF RequestOK, HeldBy, Backed
    <2>10. /\ pc' \in [Workers -> {"idle", "answer"} \cup BodyStates \cup VisitStates]
           /\ DOMAIN req' = Workers
           /\ \A v \in Workers \ {w} : pc'[v] = pc[v] /\ req'[v] = req[v]
        BY <1>3, <2>1, <2>2 DEF VisitStates
    <2>11. QED
        BY <1>2, <2>8, <2>9, <2>10, OneMoves, Parts
<1>4. QED
    BY <1>2, <1>3 DEF Lookup

(* auth.go:58-71: an account is added, or the request is answered 409.        *)
LEMMA InsertUserStep ==
    ASSUME IInv, NEW w \in Workers, NEW o, InsertUser(w, o)
    PROVE  IInv'
<1> DEFINE row == [name |-> req[w].name, email |-> req[w].email, password |-> req[w].password]
           done == o # "failed" /\ ~Taken(req[w].name, req[w].email)
<1>1. /\ Statement(w, "insertUser", o)
      /\ users' = IF done THEN Append(users, row) ELSE users
      /\ IF o = "ok" /\ done
         THEN Goto(w, "fetchUser") /\ req' = [req EXCEPT ![w].user = Len(users')]
         ELSE Answer(w, Keep)
      /\ UNCHANGED <<now, sessions, tokens, cookie, given, loggedOut>>
    BY DEF InsertUser
<1>2. /\ pc[w] = "insertUser" /\ req[w] \in Body /\ RequestOK(w) /\ req[w].name \in Names
      /\ pc \in [Workers -> {"idle", "answer"} \cup BodyStates \cup VisitStates]
      /\ DOMAIN req = Workers
    BY <1>1 DEF Statement, IInv, TypeOK, RequestTypeOK, BodyStates
<1>3. row \in [name : Names, email : Emails, password : Passwords]
    BY <1>2 DEF Body
<1>4. /\ users' \in Seq([name : Names, email : Emails, password : Passwords])
      /\ Len(users') \in Nat /\ Len(users) <= Len(users')
      /\ \A u \in User : users'[u] = users[u]
    <2>1. users \in Seq([name : Names, email : Emails, password : Passwords])
        BY DEF IInv, TypeOK
    <2>2. CASE done
        BY <1>1, <1>3, <2>1, <2>2, AppendKeeps DEF User
    <2>3. CASE ~done
        BY <1>1, <2>1, <2>3
    <2>4. QED
        BY <2>2, <2>3
<1>5. Grows /\ tokens' \in Nat
    <2>1. tokens \in Nat /\ tokens <= tokens
        BY SessionsAssumption DEF IInv, TypeOK
    <2>2. QED
        BY <1>1, <1>4, <2>1 DEF Grows
<1>6. TablesOK'
    <2>1. TableTypes'
        <3>1. failures' \in 0..MaxFailures
            BY <1>1, StatementFailures DEF IInv
        <3>2. User \subseteq User'
            BY <1>4, <1>5, CookiesGrow DEF IInv
        <3>3. (Cookies = Cookies')
            BY <1>1 DEF Cookies
        <3>4. sessions' \subseteq [token : 1..tokens, user : User, created : 0..now,
                                   expires : 0..MaxTime + Lifetime]'
            BY <1>1, <3>2 DEF IInv, TypeOK
        <3>5. QED
            BY <1>1, <1>4, <3>1, <3>3, <3>4 DEF IInv, TypeOK, TableTypes
    <2>2. CookiesOK'
        BY <1>1 DEF IInv, CookiesOK, HeldBy, Backed
    <2>3. SessionsOK'
        BY <1>1, <1>4 DEF IInv, SessionsOK, TypeOK
    <2>4. LoggedOutOK'
        BY <1>1, StatementFailures DEF IInv, LoggedOutOK
    <2>5. QED
        BY <2>1, <2>2, <2>3, <2>4 DEF TablesOK
<1>7. CASE Answer(w, Keep)
    <2>1. (Keep \in Answers)' /\ HeldBy(Keep.cookie, req[w].browser)'
        BY <1>1, KeepIsHeld DEF IInv, Answers, Cookies, HeldBy, Backed, Keep, NoCookie
    <2>2. QED
        BY <1>2, <1>4, <1>5, <1>6, <1>7, <2>1, AnswerKeepsRequests, Parts
<1>8. CASE done /\ Goto(w, "fetchUser") /\ req' = [req EXCEPT ![w].user = Len(users')]
    <2>1. Len(users') \in User' /\ users'[Len(users')] = row
        BY <1>1, <1>3, <1>8 DEF IInv, TypeOK, User
    <2>2. pc'[w] = "fetchUser" /\ req'[w] = [req[w] EXCEPT !.user = Len(users')]
        BY <1>2, <1>8 DEF Goto
    <2>3. req[w] \in Body'
        BY <1>2, <1>4, <1>5, CookiesGrow DEF IInv
    <2>4. /\ req'[w] \in Body' /\ req'[w].user = Len(users')
          /\ req'[w].answer = req[w].answer /\ req'[w].browser = req[w].browser
          /\ req'[w].token = req[w].token /\ req'[w].email = req[w].email
          /\ req'[w].password = req[w].password
        BY <2>1, <2>2, <2>3 DEF Body
    <2>5. RequestTypeOK(w)'
        BY <2>1, <2>2, <2>4 DEF RequestTypeOK, BodyStates, VisitStates
    <2>6. RequestOK(w)'
        BY <1>1, <1>2, <2>1, <2>2, <2>4 DEF RequestOK, HeldBy, Backed
    <2>7. /\ pc' \in [Workers -> {"idle", "answer"} \cup BodyStates \cup VisitStates]
          /\ DOMAIN req' = Workers
          /\ \A v \in Workers \ {w} : pc'[v] = pc[v] /\ req'[v] = req[v]
        BY <1>2, <1>8 DEF Goto, BodyStates
    <2>8. QED
        BY <1>4, <1>5, <1>6, <2>5, <2>6, <2>7, OneMoves, Parts
<1>9. QED
    BY <1>1, <1>7, <1>8

(* auth.go:79-92, 127-140: the session is made for the account that was found, *)
(* and its cookie is given to the browser that sent the credentials.          *)
LEMMA InsertSessionStep ==
    ASSUME IInv, NEW w \in Workers, NEW o, InsertSession(w, o)
    PROVE  IInv'
<1> DEFINE row == [token |-> tokens + 1, user |-> req[w].user, created |-> now,
                   expires |-> now + Lifetime]
           who == <<req[w].browser, req[w].email, req[w].password>>
           given_cookie == [token |-> tokens + 1, expires |-> now + Lifetime]
<1>1. /\ Statement(w, "insertSession", o)
      /\ tokens < MaxTokens /\ tokens' = tokens + 1
      /\ given' = Append(given, who)
      /\ sessions' = IF o = "failed" THEN sessions ELSE sessions \cup {row}
      /\ Answer(w, IF o = "ok" THEN Sets(given_cookie) ELSE Keep)
      /\ UNCHANGED <<now, users, cookie, loggedOut>>
    BY DEF InsertSession
<1>2. /\ pc[w] = "insertSession" /\ pc[w] # "idle" /\ req[w] \in Body /\ RequestOK(w)
      /\ req[w].user \in User
    BY <1>1 DEF Statement, IInv, TypeOK, RequestTypeOK, BodyStates
<1>3. /\ req[w].browser \in Browsers /\ req[w].email \in Emails /\ req[w].password \in Passwords
      /\ users[req[w].user].email = req[w].email
      /\ users[req[w].user].password = req[w].password
    BY <1>2 DEF Body, RequestOK
<1>4. /\ given' \in Seq(Browsers \X Emails \X Passwords) /\ Len(given') = tokens'
      /\ \A t \in 1..tokens : given'[t] = given[t]
      /\ given'[tokens + 1] = who
    <2>1. given \in Seq(Browsers \X Emails \X Passwords) /\ Len(given) = tokens
        BY DEF IInv, TypeOK
    <2>2. who \in Browsers \X Emails \X Passwords
        BY <1>3
    <2>3. QED
        BY <1>1, <2>1, <2>2, AppendKeeps
<1>5. tokens \in Nat /\ tokens' \in 0..MaxTokens /\ tokens + 1 \in 1..tokens'
    BY <1>1, SessionsAssumption DEF IInv, TypeOK
<1>6. Grows /\ Len(users') \in Nat /\ tokens' \in Nat
    BY <1>1, <1>4, <1>5, Numbers DEF Grows, IInv
<1>7. /\ now + Lifetime \in 0..MaxTime + Lifetime /\ now \in 0..now /\ now \in Nat
      /\ now + Lifetime >= now + Lifetime
    BY SessionsAssumption DEF IInv, TypeOK
<1>8. row.token = tokens + 1 /\ row.user = req[w].user /\ row.expires = now + Lifetime
    OBVIOUS
<1>9. TablesOK'
    <2>1. TableTypes'
        <3>1. failures' \in 0..MaxFailures
            BY <1>1, StatementFailures DEF IInv
        <3>2. 1..tokens \subseteq 1..tokens' /\ Cookies \subseteq Cookies'
            BY <1>5, <1>6, CookiesGrow DEF IInv
        <3>3. sessions' \subseteq [token : 1..tokens, user : User, created : 0..now,
                                   expires : 0..MaxTime + Lifetime]'
            <4>1. row \in [token : 1..tokens, user : User, created : 0..now,
                           expires : 0..MaxTime + Lifetime]'
                BY <1>1, <1>2, <1>5, <1>7 DEF User
            <4>2. sessions \subseteq [token : 1..tokens, user : User, created : 0..now,
                                      expires : 0..MaxTime + Lifetime]'
                BY <1>1, <3>2 DEF IInv, TypeOK, User
            <4>3. QED
                BY <1>1, <4>1, <4>2
        <3>4. loggedOut' \subseteq 1..tokens'
            BY <1>1, <3>2 DEF IInv, TypeOK
        <3>5. cookie' \in [Browsers -> Cookies']
            BY <1>1, <3>2 DEF IInv, TypeOK
        <3>6. QED
            BY <1>1, <1>4, <1>5, <3>1, <3>3, <3>4, <3>5 DEF IInv, TypeOK, TableTypes
    <2>2. CookiesOK'
        BY <1>1, <1>6, HeldStaysHeld DEF IInv, TypeOK, CookiesOK
    <2>3. SessionsOK'
        <3>1. ASSUME NEW s \in sessions
              PROVE  given'[s.token] = given[s.token]
            BY <1>4 DEF IInv, TypeOK
        <3>2. given'[row.token][2] = req[w].email /\ given'[row.token][3] = req[w].password
            BY <1>4, <1>8
        <3>3. QED
            BY <1>1, <1>3, <1>8, <3>1, <3>2 DEF IInv, SessionsOK
    <2>4. LoggedOutOK'
        <3>1. tokens + 1 \notin loggedOut
            BY <1>5 DEF IInv, TypeOK
        <3>2. QED
            BY <1>1, <1>8, <3>1, StatementFailures DEF IInv, LoggedOutOK
    <2>5. QED
        BY <2>1, <2>2, <2>3, <2>4 DEF TablesOK
<1>10. CASE o = "ok"
    <2>1. PICK c : c = given_cookie
        OBVIOUS
    <2>2. c \in Cookies' /\ c.token = tokens + 1 /\ c.expires = now + Lifetime
        BY <1>5, <1>7, <2>1 DEF Cookies
    <2>3. Sets(c) \in Answers' /\ Sets(c).cookie = c
        BY <2>2 DEF Sets, Answers
    <2>4. \E s \in sessions' : s.token = c.token /\ s.expires >= c.expires
        <3>1. row \in sessions'
            BY <1>1, <1>10
        <3>2. QED
            BY <1>7, <1>8, <2>2, <3>1
    <2>5. given'[c.token][1] = req[w].browser
        BY <1>4, <2>2
    <2>6. PICK a : a = Sets(c)
        OBVIOUS
    <2>7. Answer(w, a)
        BY <1>1, <1>10, <2>1, <2>6
    <2>8. req'[w].browser = req[w].browser
        BY <1>2, <2>7 DEF Answer, Body, IInv, TypeOK
    <2>9. (a \in Answers)' /\ HeldBy(a.cookie, req[w].browser)'
        <3>1. a.cookie = c /\ a \in Answers'
            BY <2>3, <2>6
        <3>2. HeldBy(c, req[w].browser)'
            BY <2>4, <2>5, <2>8 DEF HeldBy, Backed
        <3>3. QED
            BY <3>1, <3>2 DEF HeldBy, Backed
    <2>10. QED
        BY <1>2, <1>6, <1>9, <2>7, <2>9, AnswerKeepsRequests, Parts
<1>11. CASE o # "ok"
    <2>1. Answer(w, Keep)
        BY <1>1, <1>11
    <2>2. (Keep \in Answers)' /\ HeldBy(Keep.cookie, req[w].browser)'
        BY <1>6, KeepIsHeld, CookiesGrow DEF IInv, HeldBy, Keep, NoCookie
    <2>3. QED
        BY <1>2, <1>6, <1>9, <2>1, <2>2, AnswerKeepsRequests, Parts
<1>12. QED
    BY <1>10, <1>11

(* auth.go:153-156 *)
LEMMA DeleteSessionStep ==
    ASSUME IInv, NEW w \in Workers, NEW o, DeleteSession(w, o)
    PROVE  IInv'
<1>1. /\ Statement(w, "deleteSession", o)
      /\ sessions' = IF o = "failed" THEN sessions
                     ELSE {s \in sessions : s.token # req[w].token}
      /\ loggedOut' = loggedOut \cup {req[w].token}
      /\ Answer(w, Sets(NoCookie))
      /\ UNCHANGED <<now, users, tokens, cookie, given>>
    BY DEF DeleteSession
<1>2. /\ pc[w] = "deleteSession" /\ pc[w] # "idle" /\ req[w] \in Visit /\ RequestOK(w)
    BY <1>1 DEF Statement, IInv, TypeOK, RequestTypeOK, VisitStates
<1>3. req[w].token \in 1..tokens
    BY <1>2 DEF Visit
<1>4. Grows /\ Len(users') \in Nat /\ tokens' \in Nat
    <2>1. tokens \in Nat /\ Len(users) \in Nat
        BY Numbers DEF IInv
    <2>2. \A s \in sessions : s \in sessions' \/ s.token \in loggedOut'
        BY <1>1
    <2>3. QED
        BY <1>1, <2>1, <2>2 DEF Grows
<1>5. TablesOK'
    <2>1. TableTypes'
        <3>1. failures' \in 0..MaxFailures
            BY <1>1, StatementFailures DEF IInv
        <3>2. sessions' \subseteq sessions /\ loggedOut' \subseteq 1..tokens'
            BY <1>1, <1>3 DEF IInv, TypeOK
        <3>3. Cookies' = Cookies /\ User' = User
            BY <1>1 DEF Cookies, User
        <3>4. QED
            BY <1>1, <3>1, <3>2, <3>3 DEF IInv, TypeOK, TableTypes
    <2>2. CookiesOK'
        BY <1>1, <1>4, HeldStaysHeld DEF IInv, TypeOK, CookiesOK
    <2>3. SessionsOK'
        BY <1>1 DEF IInv, SessionsOK
    <2>4. LoggedOutOK'
        BY <1>1, StatementFailures DEF IInv, LoggedOutOK
    <2>5. QED
        BY <2>1, <2>2, <2>3, <2>4 DEF TablesOK
<1>6. (Sets(NoCookie) \in Answers)' /\ HeldBy(Sets(NoCookie).cookie, req[w].browser)'
    <2>1. 0 \in 0..tokens' /\ 0 \in 0..MaxTime + Lifetime
        BY <1>4, SessionsAssumption
    <2>2. QED
        BY <2>1 DEF Sets, NoCookie, Answers, Cookies, HeldBy
<1>7. QED
    BY <1>1, <1>2, <1>4, <1>5, <1>6, AnswerKeepsRequests, Parts

LEMMA DeliverStep == ASSUME IInv, NEW w \in Workers, Deliver(w)
                     PROVE  IInv'
<1> DEFINE c == req[w].answer.cookie
<1>1. /\ pc[w] = "answer" /\ pc' = [pc EXCEPT ![w] = "idle"]
      /\ req' = [req EXCEPT ![w] = NoRequest]
      /\ cookie' = IF ~req[w].answer.sets THEN cookie
                   ELSE [cookie EXCEPT ![req[w].browser] = IF c.expires > now THEN c ELSE NoCookie]
      /\ UNCHANGED <<now, users, sessions, tokens, failures, given, loggedOut>>
    BY DEF Deliver, Goto
<1>2. /\ pc \in [Workers -> {"idle", "answer"} \cup BodyStates \cup VisitStates]
      /\ DOMAIN req = Workers
      /\ cookie \in [Browsers -> Cookies]
    BY DEF IInv, TypeOK
<1>3. req[w].browser \in Browsers /\ c \in Cookies /\ HeldBy(c, req[w].browser)
    <2>1. req[w] \in Body \cup Visit
        BY <1>1 DEF IInv, TypeOK, RequestTypeOK
    <2>2. QED
        BY <1>1, <2>1, RequestFields DEF IInv, RequestOK
<1>4. NoCookie \in Cookies /\ \A b \in Browsers : HeldBy(NoCookie, b)
    BY SessionsAssumption DEF IInv, TypeOK, NoCookie, Cookies, HeldBy
<1>5. cookie' \in [Browsers -> Cookies] /\ \A b \in Browsers : HeldBy(cookie'[b], b)
    BY <1>1, <1>2, <1>3, <1>4 DEF IInv, CookiesOK
<1>6. Grows /\ Len(users') \in Nat /\ tokens' \in Nat
    BY <1>1, Numbers DEF IInv, Grows, User
<1>7. TablesOK'
    <2>1. TableTypes'
        BY <1>1, <1>5 DEF IInv, TypeOK, TableTypes, Cookies, User
    <2>2. CookiesOK'
        BY <1>1, <1>5 DEF CookiesOK, HeldBy, Backed
    <2>3. SessionsOK' /\ LoggedOutOK'
        BY <1>1 DEF IInv, SessionsOK, LoggedOutOK
    <2>4. QED
        BY <2>1, <2>2, <2>3 DEF TablesOK
<1>8. RequestTypeOK(w)' /\ RequestOK(w)'
    BY <1>1, <1>2 DEF RequestTypeOK, RequestOK, BodyStates, VisitStates
<1>9. /\ pc' \in [Workers -> {"idle", "answer"} \cup BodyStates \cup VisitStates]
      /\ DOMAIN req' = Workers
      /\ \A v \in Workers \ {w} : pc'[v] = pc[v] /\ req'[v] = req[v]
    BY <1>1, <1>2
<1>10. QED
    BY <1>6, <1>7, <1>8, <1>9, OneMoves, Parts

LEMMA TickStep == ASSUME IInv, Tick
                  PROVE  IInv'
<1>1. /\ now < MaxTime /\ now' = now + 1
      /\ cookie' = [b \in Browsers |->
                        IF cookie[b].expires > now' THEN cookie[b] ELSE NoCookie]
      /\ UNCHANGED <<users, sessions, tokens, pc, req, failures, given, loggedOut>>
    BY DEF Tick
<1>2. NoCookie \in Cookies /\ \A b \in Browsers : HeldBy(NoCookie, b)
    BY SessionsAssumption DEF IInv, TypeOK, NoCookie, Cookies, HeldBy
<1>3. cookie' \in [Browsers -> Cookies] /\ \A b \in Browsers : HeldBy(cookie'[b], b)
    BY <1>1, <1>2 DEF IInv, TypeOK, CookiesOK
<1>4. Grows /\ Len(users') \in Nat /\ tokens' \in Nat
    BY <1>1, Numbers DEF IInv, Grows, User
<1>5. TablesOK'
    <2>1. now' \in 0..MaxTime /\ 0..now \subseteq 0..now'
        BY <1>1, SessionsAssumption DEF IInv, TypeOK
    <2>2. TableTypes'
        BY <1>1, <1>3, <2>1 DEF IInv, TypeOK, TableTypes, Cookies, User
    <2>3. CookiesOK'
        BY <1>1, <1>3 DEF CookiesOK, HeldBy, Backed
    <2>4. SessionsOK' /\ LoggedOutOK'
        BY <1>1 DEF IInv, SessionsOK, LoggedOutOK
    <2>5. QED
        BY <2>2, <2>3, <2>4 DEF TablesOK
<1>6. RequestsOK'
    <2>1. ASSUME NEW w \in Workers
          PROVE  RequestTypeOK(w)' /\ RequestOK(w)'
        BY <1>1, <1>4, RequestStays DEF IInv
    <2>2. QED
        BY <1>1, <2>1 DEF IInv, TypeOK, RequestsOK
<1>7. QED
    BY <1>5, <1>6, Parts

-----------------------------------------------------------------------------
LEMMA NextIInv == IInv /\ [Next]_vars => IInv'
<1> SUFFICES ASSUME IInv, [Next]_vars
             PROVE  IInv'
    OBVIOUS
<1>1. ASSUME NEW w \in Workers, Run(w)
      PROVE  IInv'
    <2>1. ASSUME NEW b \in Browsers, NEW e \in Emails, NEW p \in Passwords,
                 Login(w, b, e, p)
          PROVE  IInv'
        BY <2>1, CredentialsStep DEF Login, GivenNames
    <2>2. ASSUME NEW b \in Browsers, NEW n \in Names, NEW e \in Emails,
                 NEW p \in Passwords, Register(w, b, n, e, p)
          PROVE  IInv'
        BY <2>2, CredentialsStep DEF Register, GivenNames
    <2>3. ASSUME NEW b \in Browsers, NEW act \in {"route", "logout"},
                 Authenticated(w, b, act)
          PROVE  IInv'
        BY <2>3, AuthenticatedStep
    <2>4. ASSUME NEW o \in Outcomes,
                 InsertUser(w, o) \/ InsertSession(w, o) \/ DeleteSession(w, o)
          PROVE  IInv'
        BY <2>4, InsertUserStep, InsertSessionStep, DeleteSessionStep
    <2>5. ASSUME NEW o \in Outcomes \ {"lost"},
                 FetchUser(w, o) \/ SelectUser(w, o) \/ Lookup(w, o)
          PROVE  IInv'
        BY <2>5, FetchUserStep, SelectUserStep, LookupStep
    <2>6. CASE Deliver(w)
        BY <2>6, DeliverStep
    <2>7. QED
        BY <1>1, <2>1, <2>2, <2>3, <2>4, <2>5, <2>6 DEF Run
<1>2. CASE Tick
    BY <1>2, TickStep
<1>3. CASE UNCHANGED vars
    BY <1>3 DEF vars, IInv, TypeOK, RequestTypeOK, RequestOK, CookiesOK, SessionsOK,
                LoggedOutOK, HeldBy, Backed, User, Cookies, Answers, Body, Visit
<1>4. QED
    BY <1>1, <1>2, <1>3 DEF Next

(* IInv is inductive: it holds in every state, whatever statements fail and   *)
(* in whatever order requests run and answers arrive.                         *)
THEOREM Invariance == Spec => []IInv
BY InitIInv, NextIInv, PTL DEF Spec

(* Sessions, cookies and requests are of their types: a request's token was    *)
(* generated, and the account it is about exists.                              *)
THEOREM TypeCorrect == Spec => []TypeOK
<1>1. IInv => TypeOK
    BY DEF IInv
<1>2. QED
    BY <1>1, Invariance, PTL

(* A browser's cookie names a session that lives as long as the cookie, or     *)
(* whose Logout has passed its DELETE, however its INSERT or DELETE went.       *)
THEOREM CookiesBacked == Spec => []CookieIsBacked
<1>1. IInv => CookieIsBacked
    BY DEF IInv, CookiesOK, HeldBy, Backed, CookieIsBacked
<1>2. QED
    BY <1>1, Invariance, PTL

-----------------------------------------------------------------------------
(* What a request that passes the middleware has found.                       *)
LEMMA PassesByLookup ==
    ASSUME IInv, [Next]_vars, NEW w \in Workers, Passes(w)
    PROVE  \E s \in sessions : s.token = req[w].token /\ req'[w].user = s.user
<1>1. pc[w] = "lookup" /\ pc'[w] # "lookup" /\ req'[w].user # 0
    BY DEF Passes
<1>2. PICK o \in Outcomes : Lookup(w, o)
    <2>1. PICK v \in Workers : Run(v)
        BY <1>1 DEF Next, Tick, vars
    <2>2. v = w
        BY <1>1, <2>1 DEF Run, Login, Register, Credentials, Authenticated, InsertUser,
            InsertSession, DeleteSession, FetchUser, SelectUser, Lookup, Deliver, Goto, Answer,
            IInv, TypeOK
    <2>3. QED
        BY <1>1, <2>1, <2>2 DEF Run, Login, Register, Credentials, Authenticated, InsertUser,
            InsertSession, DeleteSession, FetchUser, SelectUser, Deliver, Statement, Outcomes
<1>3. req[w] \in Visit /\ RequestOK(w) /\ DOMAIN req = Workers
    BY <1>1 DEF IInv, TypeOK, RequestTypeOK, VisitStates
<1>4. req[w].user = 0
    BY <1>1, <1>3 DEF RequestOK
<1>5. QED
    BY <1>1, <1>2, <1>3, <1>4 DEF Lookup, Answer, Valid, Visit

(* A request is served as a user only on a session made for that user's own   *)
(* address and password, and only from the browser that sent them.             *)
THEOREM OwnSession == Spec => ServedAsSelf
<1>1. IInv /\ [Next]_vars =>
        [\A w \in Workers : Passes(w) =>
            LET u == users[req'[w].user]
            IN  given[req[w].token] = <<req[w].browser, u.email, u.password>>]_vars
    <2> SUFFICES ASSUME IInv, [Next]_vars, NEW w \in Workers, Passes(w)
                 PROVE  given[req[w].token] = <<req[w].browser, users[req'[w].user].email,
                                                users[req'[w].user].password>>
        OBVIOUS
    <2>1. PICK s \in sessions : /\ s.token = req[w].token
                                /\ req'[w].user = s.user
        BY PassesByLookup
    <2>2. /\ s.token \in 1..tokens /\ s.token # 0
          /\ given[s.token] \in Browsers \X Emails \X Passwords
        BY SessionsAssumption DEF IInv, TypeOK
    <2>3. given[s.token][1] = req[w].browser
        BY <2>1, <2>2 DEF IInv, RequestOK, Passes
    <2>4. given[s.token][2] = users[s.user].email /\ given[s.token][3] = users[s.user].password
        BY DEF IInv, SessionsOK
    <2>5. QED
        BY <2>1, <2>2, <2>3, <2>4
<1>2. QED
    BY <1>1, Invariance, PTL DEF Spec, ServedAsSelf

(* As long as no statement fails, no request passes the middleware on a        *)
(* session whose Logout has passed its DELETE.                                  *)
THEOREM LogoutEnds == Spec => LogoutEndsSession
<1>1. IInv /\ [Next]_vars =>
        [failures = 0 => \A w \in Workers : Passes(w) => req[w].token \notin loggedOut]_vars
    <2> SUFFICES ASSUME IInv, [Next]_vars, failures = 0, NEW w \in Workers, Passes(w)
                 PROVE  req[w].token \notin loggedOut
        OBVIOUS
    <2>1. QED
        BY PassesByLookup DEF IInv, LoggedOutOK
<1>2. QED
    BY <1>1, Invariance, PTL DEF Spec, LogoutEndsSession

=============================================================================
