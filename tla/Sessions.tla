------------------------------ MODULE Sessions -----------------------------
(***************************************************************************)
(* Accounts and sessions: Register, Login and Logout (internal/handler/    *)
(* auth.go) and the check every authenticated route makes first            *)
(* (internal/middleware/auth.go).                                          *)
(*                                                                         *)
(* A request runs its statements one by one, between those of others; each *)
(* may fail, with or without having taken effect.  A browser sends the     *)
(* cookie it holds when the request starts and takes over the answer's     *)
(* cookie when the answer arrives.                                         *)
(***************************************************************************)
EXTENDS Integers, Sequences

CONSTANTS
    Browsers, Workers, Names, Emails, Passwords,
    Lifetime,    \* of a session: 24 hours
    MaxTime,     \* bound of the exploration: the clock
    MaxTokens,   \* bound of the exploration: sessions made
    MaxFailures  \* bound of the exploration: statements that fail

ASSUME SessionsAssumption ==
    Lifetime \in Nat \ {0} /\ {MaxTime, MaxTokens, MaxFailures} \subseteq Nat

VARIABLES
    now,
    users,     \* rows of users: [name, email, password], the id is the index
    sessions,  \* rows of sessions: [token, user, created, expires]
    tokens,    \* how many tokens were generated; each is new
    cookie,    \* session_id of each browser: [token, expires], token 0: none
    pc,        \* the next statement of a worker's request, or "answer"
    req,       \* the request: its body, and what it has found out
    failures,
    given,     \* history: <<browser, email, password>> each token was generated for
    loggedOut  \* history: tokens whose Logout was answered 200

vars == <<now, users, sessions, tokens, cookie, pc, req, failures, given, loggedOut>>

NoCookie == [token |-> 0, expires |-> 0]

\* Set-Cookie of an answer: a session's, an expired one, or none
Keep == [sets |-> FALSE, cookie |-> NoCookie]
Sets(c) == [sets |-> TRUE, cookie |-> c]

User == 1..Len(users)

Cookies == [token : 0..tokens, expires : 0..MaxTime + Lifetime]
Answers == [sets : BOOLEAN, cookie : Cookies]

\* The requests of Register and Login, and of the routes that look at the cookie.
GivenNames == Names \cup {""} \* Login gives none
Body == [browser : Browsers, name : GivenNames, email : Emails, password : Passwords,
         user : {0} \cup User, token : {0}, answer : Answers]
Visit == [op : {"route", "logout"}, browser : Browsers, user : {0} \cup User,
          token : 1..tokens, answer : Answers]
NoRequest == [browser |-> "none"]

BodyStates == {"insertUser", "fetchUser", "selectUser", "insertSession"}
VisitStates == {"lookup", "deleteSession"}

RequestTypeOK(w) ==
    /\ pc[w] \in BodyStates => req[w] \in Body
    /\ pc[w] \in VisitStates => req[w] \in Visit
    /\ pc[w] = "answer" => req[w] \in Body \cup Visit
    /\ pc[w] = "insertUser" => req[w].name \in Names
    /\ pc[w] \in {"fetchUser", "insertSession"} => req[w].user \in User

TypeOK ==
    /\ now \in 0..MaxTime
    /\ users \in Seq([name : Names, email : Emails, password : Passwords])
    /\ sessions \subseteq [token : 1..tokens, user : User, created : 0..now,
                           expires : 0..MaxTime + Lifetime]
    /\ tokens \in 0..MaxTokens
    /\ cookie \in [Browsers -> Cookies]
    /\ pc \in [Workers -> {"idle", "answer"} \cup BodyStates \cup VisitStates]
    /\ DOMAIN req = Workers /\ \A w \in Workers : RequestTypeOK(w)
    /\ failures \in 0..MaxFailures
    /\ given \in Seq(Browsers \X Emails \X Passwords) /\ Len(given) = tokens
    /\ loggedOut \subseteq 1..tokens

Init ==
    /\ now = 0
    /\ users = <<>>
    /\ sessions = {}
    /\ tokens = 0
    /\ cookie = [b \in Browsers |-> NoCookie]
    /\ pc = [w \in Workers |-> "idle"]
    /\ req = [w \in Workers |-> NoRequest]
    /\ failures = 0
    /\ given = <<>>
    /\ loggedOut = {}

-----------------------------------------------------------------------------
Goto(w, label) == pc' = [pc EXCEPT ![w] = label]

\* w answers, with a cookie or without
Answer(w, c) == Goto(w, "answer") /\ req' = [req EXCEPT ![w].answer = c]

\* How a statement may go: done and answered, failed, done and reported failed
Outcomes == {"ok", "failed", "lost"}

\* w executes the statement at label
Statement(w, label, o) ==
    /\ pc[w] = label
    /\ o # "ok" => failures < MaxFailures
    /\ failures' = IF o = "ok" THEN failures ELSE failures + 1

\* A request that got past the checks of its body: all of its fields are given.
Credentials(w, b, label, n, e, p) ==
    /\ pc[w] = "idle"
    /\ Goto(w, label)
    /\ req' = [req EXCEPT ![w] = [browser |-> b, name |-> n, email |-> e, password |-> p,
                                  user |-> 0, token |-> 0, answer |-> Keep]]
    /\ UNCHANGED <<now, users, sessions, tokens, cookie, failures, given, loggedOut>>

Register(w, b, n, e, p) == Credentials(w, b, "insertUser", n, e, p)
Login(w, b, e, p) == Credentials(w, b, "selectUser", "", e, p)

Taken(n, e) == \E u \in User : users[u].name = n \/ users[u].email = e

\* INSERT INTO users: any error, and a taken name or address, is answered 409.
InsertUser(w, o) ==
    /\ Statement(w, "insertUser", o)
    /\ LET r == req[w]
           done == o # "failed" /\ ~Taken(r.name, r.email)
       IN  /\ users' = IF done THEN Append(users, [name |-> r.name, email |-> r.email,
                                                   password |-> r.password])
                       ELSE users
           /\ IF o = "ok" /\ done
              THEN Goto(w, "fetchUser") /\ req' = [req EXCEPT ![w].user = Len(users')]
              ELSE Answer(w, Keep)
    /\ UNCHANGED <<now, sessions, tokens, cookie, given, loggedOut>>

\* fetchUser in Register: an error is answered 500 although the account is there.
FetchUser(w, o) ==
    /\ Statement(w, "fetchUser", o)
    /\ IF o = "ok" THEN Goto(w, "insertSession") /\ UNCHANGED req ELSE Answer(w, Keep)
    /\ UNCHANGED <<now, users, sessions, tokens, cookie, given, loggedOut>>

\* Login: the row of the address and the comparison with its password hash;
\* everything else is answered 401.
SelectUser(w, o) ==
    /\ Statement(w, "selectUser", o)
    /\ LET found == {u \in User : users[u].email = req[w].email
                                  /\ users[u].password = req[w].password}
       IN  IF o = "ok" /\ found # {}
           THEN /\ Goto(w, "insertSession")
                /\ req' = [req EXCEPT ![w].user = CHOOSE u \in found : TRUE]
           ELSE Answer(w, Keep)
    /\ UNCHANGED <<now, users, sessions, tokens, cookie, given, loggedOut>>

\* mutant: the session is made for the newest account
InsertSessionNewest(w, o) ==
    /\ Statement(w, "insertSession", o)
    /\ tokens < MaxTokens
    /\ tokens' = tokens + 1
    /\ given' = Append(given, <<req[w].browser, req[w].email, req[w].password>>)
    /\ LET row == [token |-> tokens', user |-> Len(users), created |-> now,
                   expires |-> now + Lifetime]
       IN  /\ sessions' = IF o = "failed" THEN sessions ELSE sessions \cup {row}
           /\ Answer(w, IF o = "ok" THEN Sets([token |-> row.token, expires |-> row.expires])
                        ELSE Keep)
    /\ UNCHANGED <<now, users, cookie, loggedOut>>

\* mutant: the error of the INSERT is not looked at
InsertSessionUnchecked(w, o) ==
    /\ Statement(w, "insertSession", o)
    /\ tokens < MaxTokens
    /\ tokens' = tokens + 1
    /\ given' = Append(given, <<req[w].browser, req[w].email, req[w].password>>)
    /\ LET row == [token |-> tokens', user |-> req[w].user, created |-> now,
                   expires |-> now + Lifetime]
       IN  /\ sessions' = IF o = "failed" THEN sessions ELSE sessions \cup {row}
           /\ Answer(w, Sets([token |-> row.token, expires |-> row.expires]))
    /\ UNCHANGED <<now, users, cookie, loggedOut>>

\* generateToken and INSERT INTO sessions; Login ignores what fetchUser then says.
InsertSession(w, o) ==
    /\ Statement(w, "insertSession", o)
    /\ tokens < MaxTokens
    /\ tokens' = tokens + 1
    /\ given' = Append(given, <<req[w].browser, req[w].email, req[w].password>>)
    /\ LET row == [token |-> tokens', user |-> req[w].user, created |-> now,
                   expires |-> now + Lifetime]
       IN  /\ sessions' = IF o = "failed" THEN sessions ELSE sessions \cup {row}
           /\ Answer(w, IF o = "ok" THEN Sets([token |-> row.token, expires |-> row.expires])
                        ELSE Keep)
    /\ UNCHANGED <<now, users, cookie, loggedOut>>

\* A request to a route behind Required or Optional, Logout among them.  Without
\* a cookie it is answered 401, or served to nobody, with no statement.
Authenticated(w, b, op) ==
    /\ pc[w] = "idle"
    /\ cookie[b].token # 0
    /\ Goto(w, "lookup")
    /\ req' = [req EXCEPT ![w] = [op |-> op, browser |-> b, user |-> 0,
                                  token |-> cookie[b].token, answer |-> Keep]]
    /\ UNCHANGED <<now, users, sessions, tokens, cookie, failures, given, loggedOut>>

\* WHERE id = ? AND expires_at > NOW()
Valid(t) == {s \in sessions : s.token = t /\ s.expires > now}

\* The middleware's SELECT.  A session passes the request on under its user, any
\* error does not; Logout goes on, all else is over for the tables.
Lookup(w, o) ==
    /\ Statement(w, "lookup", o)
    /\ IF o = "ok" /\ Valid(req[w].token) # {}
       THEN /\ req' = [req EXCEPT ![w].user = (CHOOSE s \in Valid(req[w].token) : TRUE).user]
            /\ Goto(w, IF req[w].op = "logout" THEN "deleteSession" ELSE "answer")
       ELSE Answer(w, Keep)
    /\ UNCHANGED <<now, users, sessions, tokens, cookie, given, loggedOut>>

\* mutant: Logout only clears the cookie
DeleteNoSession(w, o) ==
    /\ Statement(w, "deleteSession", o)
    /\ loggedOut' = loggedOut \cup {req[w].token}
    /\ Answer(w, Sets(NoCookie))
    /\ UNCHANGED <<now, users, sessions, tokens, cookie, given>>

\* Logout does not look at the DELETE's error: its answer is 200 and clears the cookie.
DeleteSession(w, o) ==
    /\ Statement(w, "deleteSession", o)
    /\ sessions' = IF o = "failed" THEN sessions
                   ELSE {s \in sessions : s.token # req[w].token}
    /\ loggedOut' = loggedOut \cup {req[w].token}
    /\ Answer(w, Sets(NoCookie))
    /\ UNCHANGED <<now, users, tokens, cookie, given>>

\* The answer reaches the browser.
Deliver(w) ==
    /\ pc[w] = "answer"
    /\ Goto(w, "idle")
    /\ LET c == req[w].answer.cookie
       IN  cookie' = IF ~req[w].answer.sets THEN cookie
                     ELSE [cookie EXCEPT ![req[w].browser] =
                               IF c.expires > now THEN c ELSE NoCookie]
    /\ req' = [req EXCEPT ![w] = NoRequest]
    /\ UNCHANGED <<now, users, sessions, tokens, failures, given, loggedOut>>

\* Time passes; a browser drops a cookie that has expired.
Tick ==
    /\ now < MaxTime
    /\ now' = now + 1
    /\ cookie' = [b \in Browsers |-> IF cookie[b].expires > now' THEN cookie[b] ELSE NoCookie]
    /\ UNCHANGED <<users, sessions, tokens, pc, req, failures, given, loggedOut>>

Run(w) ==
    \/ \E b \in Browsers :
        \/ \E e \in Emails, p \in Passwords :
            Login(w, b, e, p) \/ \E n \in Names : Register(w, b, n, e, p)
        \/ \E op \in {"route", "logout"} : Authenticated(w, b, op)
    \/ \E o \in Outcomes : InsertUser(w, o) \/ InsertSession(w, o) \/ DeleteSession(w, o)
    \/ \E o \in Outcomes \ {"lost"} : FetchUser(w, o) \/ SelectUser(w, o) \/ Lookup(w, o)
    \/ Deliver(w)

Next == Tick \/ \E w \in Workers : Run(w)

Spec == Init /\ [][Next]_vars

-----------------------------------------------------------------------------
(* Properties. *)

\* w's request passes the middleware in this step
Passes(w) == pc[w] = "lookup" /\ pc'[w] # "lookup" /\ req'[w].user # 0

\* auth.go:52-84, 105-140, middleware/auth.go:25-36: a request is served as a user
\* only on a session made for that user's own address and password, and from the
\* browser that sent them.
ServedAsSelf ==
    [][\A w \in Workers : Passes(w) =>
        LET u == users[req'[w].user]
        IN  given[req[w].token] = <<req[w].browser, u.email, u.password>>]_vars

\* api.md "24 hours", auth.go:80-92, 128-140: a browser's cookie names a session that
\* lives as long as the cookie, unless a Logout of it has passed its DELETE.
CookieIsBacked ==
    \A b \in Browsers : cookie[b].token # 0 =>
        \/ \E s \in sessions : s.token = cookie[b].token /\ s.expires >= cookie[b].expires
        \/ cookie[b].token \in loggedOut

\* api.md:201, auth.go:153-156: as long as no statement fails, a session whose Logout has passed
\* its DELETE lets no request pass any more, those on their way included.
LogoutEndsSession ==
    [][failures = 0 => \A w \in Workers : Passes(w) => req[w].token \notin loggedOut]_vars

=============================================================================
