------------------------------- MODULE Server -------------------------------
(***************************************************************************)
(* The life of the api process (cmd/api/main.go, internal/db/db.go) and    *)
(* the one database connection its requests share.                         *)
(*                                                                         *)
(* The process pings the database, serves, is told to stop by a signal,    *)
(* and is started again by docker when it fails (restart: on-failure).     *)
(* A request is a sequence of statements of a handler.  A statement waits  *)
(* for the connection; a query keeps it until its rows are exhausted or    *)
(* its context is cancelled.  A stream has one such sequence, then stays.  *)
(* What the statements do is the matter of the other modules.              *)
(***************************************************************************)
EXTENDS Naturals

CONSTANTS
    Requests,    \* requests of clients, answered one by one
    Streams,     \* requests whose answer is a stream
    MaxQueries,  \* bound of the exploration: statements of a request
    MaxTries,    \* calls of Ping, 10 in the code
    MaxOutages,  \* bound of the exploration: how often the database goes away
    Free         \* nobody has the connection

Clients == Requests \cup Streams

ASSUME ServerAssumption ==
    /\ Requests \cap Streams = {}
    /\ MaxQueries \in Nat \ {0} /\ MaxTries \in Nat \ {0}
    /\ MaxOutages \in Nat
    /\ Free \notin Clients

VARIABLES
    main,      \* where main is
    tries,     \* db.New: i
    signalled, \* ctx is done: a SIGTERM or an interrupt came
    listening, \* the listener accepts connections
    closed,    \* db.Close was called
    conn,      \* the connection: its holder, or Free
    doing,        \* the request of each client
    queries,   \* statements the request still makes
    gone,      \* the client of the request gave up
    dbUp, outages \* the database answers; how often it went away

process == <<main, tries, signalled, listening>>
pool == <<closed, conn>>
requests == <<doing, queries, gone>>
database == <<dbUp, outages>>
serverVars == <<process, pool, requests, database>>

MainStates == {"tracer", "ping", "listen", "serve", "close", "flush", "failed", "stopped"}

\* "none", or the request: about to make a statement or to answer, waiting for
\* the connection, executing on it, reading rows from it, streaming
RequestStates == {"none", "running", "waiting", "executing", "reading", "streaming"}

ServerTypeOK ==
    /\ main \in MainStates
    /\ tries \in 0..MaxTries
    /\ signalled \in BOOLEAN /\ listening \in BOOLEAN
    /\ closed \in BOOLEAN
    /\ conn \in Clients \cup {Free}
    /\ doing \in [Clients -> RequestStates]
    /\ queries \in [Clients -> 0..MaxQueries]
    /\ gone \in [Clients -> BOOLEAN]
    /\ dbUp \in BOOLEAN /\ outages \in 0..MaxOutages

ServerInit ==
    /\ main = "tracer"
    /\ tries = 0
    /\ signalled = FALSE
    /\ listening = FALSE
    /\ closed = FALSE
    /\ conn = Free
    /\ doing = [c \in Clients |-> "none"]
    /\ queries = [c \in Clients |-> 0]
    /\ gone = [c \in Clients |-> FALSE]
    /\ dbUp \in BOOLEAN /\ outages = 0

-----------------------------------------------------------------------------
(* main. *)

Exited == main \in {"failed", "stopped"}

\* The process ends and with it every request.
Exit(label) ==
    /\ main' = label
    /\ listening' = FALSE
    /\ conn' = Free
    /\ doing' = [c \in Clients |-> "none"]
    /\ queries' = [c \in Clients |-> 0]
    /\ gone' = [c \in Clients |-> FALSE]

\* telemetry.Init: with or without an endpoint, it returns a shutdown function
StartTracer ==
    /\ main = "tracer"
    /\ main' = "ping"
    /\ UNCHANGED <<tries, signalled, listening, pool, requests, database>>

\* db.New: Ping does not look at the signal
PingSucceeds ==
    /\ main = "ping" /\ tries < MaxTries /\ dbUp
    /\ main' = "listen"
    /\ UNCHANGED <<tries, signalled, listening, pool, requests, database>>

PingFails ==
    /\ main = "ping" /\ tries < MaxTries /\ ~dbUp
    /\ tries' = tries + 1
    /\ UNCHANGED <<main, signalled, listening, pool, requests, database>>

\* mutant: gives up without an error, so main ends by itself
GiveUpQuietly ==
    /\ main = "ping" /\ tries = MaxTries
    /\ Exit("stopped")
    /\ UNCHANGED <<tries, signalled, closed, database>>

\* log.Fatal ends the process without the deferred calls.
GiveUp ==
    /\ main = "ping" /\ tries = MaxTries
    /\ Exit("failed")
    /\ UNCHANGED <<tries, signalled, closed, database>>

\* ListenAndServe; it does not listen once Shutdown was called.
Listen ==
    /\ main = "listen"
    /\ main' = "serve"
    /\ listening' \in {TRUE, ~signalled}
    /\ UNCHANGED <<tries, signalled, pool, requests, database>>

\* The port cannot be had.
ListenFails ==
    /\ main = "listen"
    /\ Exit("failed")
    /\ UNCHANGED <<tries, signalled, closed, database>>

\* The goroutine that waits for the signal calls Shutdown, which closes the
\* listener before it waits for requests.
Shutdown ==
    /\ signalled /\ main = "serve" /\ listening
    /\ listening' = FALSE
    /\ UNCHANGED <<main, tries, signalled, pool, requests, database>>

\* mutant: main waits for Shutdown, without its timeout
ServeReturnsDrained ==
    /\ main = "serve" /\ ~listening
    /\ \A c \in Clients : doing[c] = "none"
    /\ main' = "close"
    /\ UNCHANGED <<tries, signalled, listening, pool, requests, database>>

\* ListenAndServe returns ErrServerClosed at once; nobody waits for Shutdown.
ServeReturns ==
    /\ main = "serve" /\ ~listening
    /\ main' = "close"
    /\ UNCHANGED <<tries, signalled, listening, pool, requests, database>>

\* db.Close: whoever waits for the connection gets an error; a statement on the
\* connection goes on, and the connection is closed when it comes back.
CloseDB ==
    /\ main = "close"
    /\ main' = "flush"
    /\ closed' = TRUE
    /\ doing' = [c \in Clients |-> IF doing[c] = "waiting" THEN "running" ELSE doing[c]]
    /\ UNCHANGED <<tries, signalled, listening, conn, queries, gone, database>>

\* The tracer's shutdown ends within its timeout, and main returns.
Return ==
    /\ main = "flush"
    /\ Exit("stopped")
    /\ UNCHANGED <<tries, signalled, closed, database>>

MainStep ==
    \/ StartTracer \/ PingSucceeds \/ PingFails \/ GiveUp
    \/ Listen \/ ListenFails \/ Shutdown \/ ServeReturns \/ CloseDB \/ Return

-----------------------------------------------------------------------------
(* docker, the operator, and the database. *)

\* restart: on-failure
Restart ==
    /\ main = "failed" /\ ~signalled
    /\ main' = "tracer" /\ tries' = 0 /\ closed' = FALSE
    /\ UNCHANGED <<signalled, listening, conn, requests, database>>

\* compose up, after the process stopped or was told to
ComposeUp ==
    /\ main = "stopped" \/ (main = "failed" /\ signalled)
    /\ main' = "tracer" /\ tries' = 0 /\ signalled' = FALSE /\ closed' = FALSE
    /\ UNCHANGED <<listening, conn, requests, database>>

Signal ==
    /\ ~signalled /\ ~Exited
    /\ signalled' = TRUE
    /\ UNCHANGED <<main, tries, listening, pool, requests, database>>

DatabaseDown ==
    /\ dbUp /\ outages < MaxOutages
    /\ dbUp' = FALSE /\ outages' = outages + 1
    /\ UNCHANGED <<process, pool, requests>>

DatabaseUp ==
    /\ ~dbUp
    /\ dbUp' = TRUE
    /\ UNCHANGED <<process, pool, requests, outages>>

-----------------------------------------------------------------------------
(* Requests. *)

Enter(c, label) == doing' = [doing EXCEPT ![c] = label]

\* A request arrives; its handler will make n statements.
Arrive(c, n) ==
    /\ listening /\ doing[c] = "none"
    /\ Enter(c, "running")
    /\ queries' = [queries EXCEPT ![c] = n]
    /\ UNCHANGED <<gone, process, pool, database>>

\* The next statement: an error at once when the client is gone or the database
\* was closed, else the request queues for the connection.
Ask(c) ==
    /\ doing[c] = "running" /\ queries[c] > 0
    /\ queries' = [queries EXCEPT ![c] = @ - 1]
    /\ IF gone[c] \/ closed THEN UNCHANGED doing ELSE Enter(c, "waiting")
    /\ UNCHANGED <<gone, process, pool, database>>

\* The connection is handed to one of those who wait.  Without a database it
\* cannot be made or breaks, which the statement reports.
Acquire(c) ==
    /\ doing[c] = "waiting" /\ conn = Free
    /\ IF dbUp
       THEN Enter(c, "executing") /\ conn' = c
       ELSE Enter(c, "running") /\ UNCHANGED conn
    /\ UNCHANGED <<queries, gone, process, closed, database>>

\* Exec and QueryRow give the connection back with their result.
Executed(c) ==
    /\ doing[c] = "executing"
    /\ Enter(c, "running") /\ conn' = Free
    /\ UNCHANGED <<queries, gone, process, closed, database>>

\* Query returns with its rows open.
Opened(c) ==
    /\ doing[c] = "executing"
    /\ Enter(c, "reading")
    /\ UNCHANGED <<queries, gone, process, pool, database>>

\* mutant: queries again inside the loop over the rows
ExhaustedLate(c) ==
    /\ doing[c] = "reading"
    /\ IF queries[c] > 0
       THEN Enter(c, "waiting") /\ UNCHANGED conn
       ELSE Enter(c, "running") /\ conn' = Free
    /\ queries' = [queries EXCEPT ![c] = IF @ > 0 THEN @ - 1 ELSE 0]
    /\ UNCHANGED <<gone, process, closed, database>>

\* mutant: a stream keeps its rows open, relying on the deferred Close
ExhaustedByAnswer(c) ==
    /\ doing[c] = "reading"
    /\ IF queries[c] = 0 /\ c \in Streams
       THEN Enter(c, "streaming") /\ UNCHANGED conn
       ELSE Enter(c, "running") /\ conn' = Free
    /\ UNCHANGED <<queries, gone, process, closed, database>>

\* rows.Next is called until it returns false, which gives the connection back,
\* before the handler makes its next statement.
Exhausted(c) ==
    /\ doing[c] = "reading"
    /\ Enter(c, "running") /\ conn' = Free
    /\ UNCHANGED <<queries, gone, process, closed, database>>

\* The client goes away: its context is cancelled, which takes the request out
\* of the queue; the driver ends a statement in progress.
Leave(c) ==
    /\ doing[c] # "none" /\ ~gone[c]
    /\ gone' = [gone EXCEPT ![c] = TRUE]
    /\ IF doing[c] = "waiting" THEN Enter(c, "running") ELSE UNCHANGED doing
    /\ UNCHANGED <<queries, process, pool, database>>

Answered(c) ==
    /\ doing[c] = "running" /\ queries[c] = 0
    /\ IF c \in Streams /\ ~gone[c]
       THEN Enter(c, "streaming") /\ UNCHANGED gone
       ELSE Enter(c, "none") /\ gone' = [gone EXCEPT ![c] = FALSE]
    /\ UNCHANGED <<queries, process, pool, database>>

StreamEnds(c) ==
    /\ doing[c] = "streaming" /\ gone[c]
    /\ Enter(c, "none") /\ gone' = [gone EXCEPT ![c] = FALSE]
    /\ UNCHANGED <<queries, process, pool, database>>

RequestStep(c) ==
    \/ Ask(c) \/ Acquire(c) \/ Executed(c) \/ Opened(c) \/ Exhausted(c)
    \/ Answered(c) \/ StreamEnds(c)

ServerNext ==
    \/ MainStep \/ Restart \/ ComposeUp \/ Signal
    \/ DatabaseDown \/ DatabaseUp
    \/ \E c \in Clients :
        \/ \E n \in 1..MaxQueries : Arrive(c, n)
        \/ RequestStep(c) \/ Leave(c)

ServerSpec == ServerInit /\ [][ServerNext]_serverVars

\* Goroutines run, and the database ends every statement.  The connection is
\* handed to a waiter drawn at random, so none waits for ever while it is given
\* back again and again.  The port can be had if it is tried again and again.
\* Nothing is assumed of clients, operators and the database's being there.
ServerFairness ==
    /\ WF_serverVars(MainStep) /\ SF_serverVars(Listen)
    /\ WF_serverVars(Restart)
    /\ \A c \in Clients :
        /\ WF_serverVars(Ask(c) \/ Executed(c) \/ Opened(c) \/ Exhausted(c))
        /\ SF_serverVars(Acquire(c))
        /\ WF_serverVars(Answered(c)) /\ WF_serverVars(StreamEnds(c))

FairServerSpec == ServerSpec /\ ServerFairness

-----------------------------------------------------------------------------
(* Properties. *)

\* db.go:23-24, search.go:31-47, reply.go:111-126: the one connection is with the
\* request that executes or reads on it; nobody waits for the connection while
\* holding it, and a stream holds none.
PoolExclusive ==
    \A c \in Clients : conn = c <=> doing[c] \in {"executing", "reading"}

\* db.go:23-24: every request is answered, or becomes a stream, whatever others
\* hold, as long as the process lives; clients that never leave their streams
\* hold up nobody.
RequestsAnswered ==
    \A c \in Clients :
        doing[c] \notin {"none", "streaming"} ~> doing[c] \in {"none", "streaming"}

\* main.go:25-26, 71-84, db.go:27-36: once told to stop the process ends, also while it
\* still waits for the database and while streams are connected.
SignalEnds == signalled ~> Exited

\* db.go:27-36, compose.reg.yml:31: with the database there to stay, and nobody
\* stopping it, the process comes to serve, however often it gave up before.
ServesAgain == <>[](dbUp /\ ~signalled) => <>[]listening

\* db.go:34-36, main.go:81-84: the process ends without an error, upon which
\* docker does not start it again, only if it was told to stop.
StopsWhenTold == main = "stopped" => signalled
=============================================================================
