---------------------------- MODULE RateLimiter ----------------------------
(***************************************************************************)
(* One middleware.RateLimiter (internal/middleware/ratelimit.go): a token  *)
(* bucket per client address, refilled lazily, and the sweep that forgets  *)
(* addresses that have been idle.                                          *)
(*                                                                         *)
(* A tick is the time a bucket takes to gain one unit; a request costs     *)
(* Cost units and a bucket holds Burst requests.  Between looking up the   *)
(* bucket of its address and taking from it a request holds no lock, so    *)
(* sweeps and other requests come in between.                              *)
(***************************************************************************)
EXTENDS Integers, SequencesExt

CONSTANTS
    Fields,      \* what stands between colons in an address: "host", "port", IPv6 groups
    Handlers,    \* request goroutines
    Cost,        \* units per request: ticks per second / rate
    Burst,       \* b
    IdleLimit,   \* an address idle for longer is forgotten (3 min in the code)
    SweepPeriod, \* pause between sweeps (1 min in the code)
    MaxDelay,    \* ticks a request can lie between lookup and Allow
    MaxTicks,    \* bound of the exploration: ticks
    MaxGrants    \* bound of the exploration: requests let through per address

Capacity == Burst * Cost

\* Nothing but scheduling lies between getVisitor and Allow, so a request
\* takes from its bucket long before the address could be forgotten; and a
\* forgotten bucket would have been full (3 min against 3 s or less).
ASSUME RateLimiterAssumption ==
    /\ {Cost, Burst, SweepPeriod} \subseteq Nat \ {0}
    /\ {IdleLimit, MaxDelay, MaxTicks, MaxGrants} \subseteq Nat
    /\ IdleLimit >= Capacity + MaxDelay

\* A header is its colon-separated fields; <<>> when absent.  RemoteAddr always
\* has a port.
Headers == LET value == UNION {[1..n -> Fields] : n \in 0..2}
           IN  [forwarded : value, real : value, remote : [1..2 -> Fields]]

\* The first header present, without what follows its last colon: the port, or
\* the last group of an IPv6 address that comes without a port.
getIP(r) ==
    LET ip == IF r.forwarded # <<>> THEN r.forwarded
              ELSE IF r.real # <<>> THEN r.real ELSE r.remote
    IN  IF Len(ip) > 1 THEN Front(ip) ELSE ip

Addresses == {getIP(r) : r \in Headers}

VARIABLES
    clock,     \* the time, in ticks
    limiters,  \* addresses present |-> [bucket, lastSeen]
    buckets,   \* every rate.Limiter made: [tokens, last], tokens as of last
    sweepAt,   \* when the sweeper's sleep ends
    phase,     \* "idle", or "allow": has looked up its bucket
    addr,      \* ip of the handler's request
    bucket,    \* limiter returned by getVisitor (0 between requests)
    asked,     \* when it was returned
    grants     \* history: the times of the requests let through, per address

limiterVars == <<clock, limiters, buckets, sweepAt, phase, addr, bucket, asked, grants>>

LimiterTypeOK ==
    /\ clock \in 0..MaxTicks
    /\ DOMAIN limiters \subseteq Addresses
    /\ limiters \in [DOMAIN limiters -> [bucket : 1..Len(buckets), lastSeen : 0..clock]]
    /\ buckets \in Seq([tokens : 0..Capacity, last : 0..clock])
    /\ sweepAt \in Nat
    /\ phase \in [Handlers -> {"idle", "allow"}]
    /\ addr \in [Handlers -> Addresses \cup {<<>>}]
    /\ bucket \in [Handlers -> 0..Len(buckets)]
    /\ asked \in [Handlers -> 0..clock]
    /\ grants \in [Addresses -> Seq(0..clock)]

LimiterInit ==
    /\ clock = 0
    /\ limiters = [a \in {} |-> 0]
    /\ buckets = <<>>
    /\ sweepAt = SweepPeriod
    /\ phase = [w \in Handlers |-> "idle"]
    /\ addr = [w \in Handlers |-> <<>>]
    /\ bucket = [w \in Handlers |-> 0]
    /\ asked = [w \in Handlers |-> 0]
    /\ grants = [a \in Addresses |-> <<>>]

-----------------------------------------------------------------------------
\* mutant: lastSeen stays what it was when the limiter was made
getVisitorStale(w, ip) ==
    /\ phase[w] = "idle"
    /\ Len(grants[ip]) < MaxGrants
    /\ buckets' = IF ip \in DOMAIN limiters THEN buckets
                  ELSE Append(buckets, [tokens |-> Capacity, last |-> clock])
    /\ limiters' = IF ip \in DOMAIN limiters THEN limiters
                   ELSE [a \in DOMAIN limiters \cup {ip} |->
            IF a = ip THEN [bucket |-> Len(buckets'), lastSeen |-> clock] ELSE limiters[a]]
    /\ phase' = [phase EXCEPT ![w] = "allow"]
    /\ addr' = [addr EXCEPT ![w] = ip]
    /\ bucket' = [bucket EXCEPT ![w] = limiters'[ip].bucket]
    /\ asked' = [asked EXCEPT ![w] = clock]
    /\ UNCHANGED <<clock, sweepAt, grants>>

\* Under the mutex: the address's limiter, made full when there is none, and
\* its lastSeen brought up to date.
getVisitor(w, ip) ==
    /\ phase[w] = "idle"
    /\ Len(grants[ip]) < MaxGrants
    /\ buckets' = IF ip \in DOMAIN limiters THEN buckets
                  ELSE Append(buckets, [tokens |-> Capacity, last |-> clock])
    /\ limiters' = [a \in DOMAIN limiters \cup {ip} |->
            IF a # ip THEN limiters[a]
            ELSE [bucket |-> IF a \in DOMAIN limiters THEN limiters[a].bucket ELSE Len(buckets'),
                  lastSeen |-> clock]]
    /\ phase' = [phase EXCEPT ![w] = "allow"]
    /\ addr' = [addr EXCEPT ![w] = ip]
    /\ bucket' = [bucket EXCEPT ![w] = limiters'[ip].bucket]
    /\ asked' = [asked EXCEPT ![w] = clock]
    /\ UNCHANGED <<clock, sweepAt, grants>>

\* mutant: a bucket does not refill
TokensAtDry(b, t) == buckets[b].tokens

\* rate.Limiter: what a bucket holds at time t
TokensAt(b, t) ==
    LET filled == buckets[b].tokens + (t - buckets[b].last)
    IN  IF filled > Capacity THEN Capacity ELSE filled

\* Allow, after the mutex was released: the request passes, or is answered 429
\* and the bucket is left as it is.
Allow(w) ==
    /\ phase[w] = "allow"
    /\ phase' = [phase EXCEPT ![w] = "idle"]
    /\ IF TokensAt(bucket[w], clock) >= Cost
       THEN /\ buckets' = [buckets EXCEPT ![bucket[w]] =
                    [tokens |-> TokensAt(bucket[w], clock) - Cost, last |-> clock]]
            /\ grants' = [grants EXCEPT ![addr[w]] = Append(@, clock)]
       ELSE UNCHANGED <<buckets, grants>>
    /\ addr' = [addr EXCEPT ![w] = <<>>]
    /\ bucket' = [bucket EXCEPT ![w] = 0]
    /\ asked' = [asked EXCEPT ![w] = 0]
    /\ UNCHANGED <<clock, limiters, sweepAt>>

\* One pass of cleanupVisitors, under the mutex.
cleanupVisitors ==
    /\ clock >= sweepAt
    /\ sweepAt' = clock + SweepPeriod
    /\ LET fresh == {a \in DOMAIN limiters : clock - limiters[a].lastSeen <= IdleLimit}
       IN  limiters' = [a \in fresh |-> limiters[a]]
    /\ UNCHANGED <<clock, buckets, phase, addr, bucket, asked, grants>>

LimiterTick ==
    /\ clock < MaxTicks
    /\ \A w \in Handlers : phase[w] = "allow" => clock - asked[w] < MaxDelay
    /\ clock' = clock + 1
    /\ UNCHANGED <<limiters, buckets, sweepAt, phase, addr, bucket, asked, grants>>

LimiterNext ==
    \/ \E w \in Handlers :
        \/ \E ip \in Addresses : getVisitor(w, ip)
        \/ Allow(w)
    \/ cleanupVisitors
    \/ LimiterTick

LimiterSpec == LimiterInit /\ [][LimiterNext]_limiterVars

-----------------------------------------------------------------------------
(* Properties. *)

\* ratelimit.go:26-29, main.go:120-125: in any window the requests of one
\* address that pass are at most the burst and what the rate adds over the
\* window, whatever is forgotten and made anew meanwhile.
BurstBound ==
    \A a \in Addresses : LET g == grants[a] IN
        \A i, j \in 1..Len(g) : i <= j =>
            (j - i + 1) * Cost <= Capacity + (g[j] - g[i])

\* ratelimit.go:91-98: a request is answered 429 only when its own address has
\* used up the allowance of some window that ends now.
RefusedOnlyOverBurst ==
    [][\A w \in Handlers :
        phase[w] = "allow" /\ phase'[w] = "idle" /\ grants' = grants =>
            LET g == grants[addr[w]]
            IN  \E i \in 1..Len(g) :
                    (Len(g) - i + 2) * Cost > Capacity + (clock - g[i])]_limiterVars

=============================================================================
