--------------------------- MODULE Notifications ---------------------------
(***************************************************************************)
(* Follows, footprints and the notifications they make (Follow, Unfollow,  *)
(* GetProfile in internal/handler/user.go, footprint.go), and how a user   *)
(* reads the lists page by page and marks them read (notification.go).     *)
(* Likes, replies and reposts make notifications in the same way: Posts.   *)
(*                                                                         *)
(* One user's client reads a list while the requests of all users write.   *)
(***************************************************************************)
EXTENDS Integers, Sequences, FiniteSets

CONSTANTS
    Users,
    Reader,      \* the user whose lists are read
    Workers,     \* goroutines of writing requests
    Meetings,    \* who follows and visits whom in this instance: <<user, other>>
    OpenLists,   \* the lists the client opens
    PerPage,
    MaxRows,     \* bound of the exploration: rows of each table
    MaxFailures  \* bound of the exploration: statements that fail

Types == {"follow", "footprint"}

\* The lists of the client: its notifications, all or of one type; its visitors.
Lists == {"all", "visitors"} \cup Types

ASSUME NotificationsAssumption ==
    /\ Reader \in Users
    /\ OpenLists \subseteq Lists
    /\ Meetings \subseteq Users \X Users
    /\ PerPage \in Nat \ {0} /\ MaxRows \in Nat /\ MaxFailures \in Nat

VARIABLES
    follows,    \* <<follower, followee>>
    footprints, \* Seq of [user, visitor], in order of id and created_at
    notes,      \* table notifications: Seq of [user, type, actor, read], likewise
    pc, req,    \* the next statement of a writing request: its user and the other one
    failures,
    client      \* the reader's client and the list request it is at

vars == <<follows, footprints, notes, pc, req, failures, client>>

AtRest ==
    [list |-> "none", at |-> "rest", page |-> 1,
     got |-> {},        \* history: the entries of all pages so far
     begun |-> {},      \* history: the entries there when page 1 was asked for
     unreadRows |-> 0,  \* unread rows of the page
     unread |-> 0,      \* unread_count
     marked |-> FALSE,  \* history: MarkNotificationsRead since the page's SELECT
     uncounted |-> FALSE, \* history: the SELECT of unread_count failed
     again |-> {}]      \* history: who visited since page 1 was asked for

FootprintRow == [user : Users, visitor : Users]
Note == [user : Users, type : Types, actor : Users, read : BOOLEAN]
Entry == Users \cup Nat

TypeOK ==
    /\ follows \subseteq Users \X Users
    /\ footprints \in Seq(FootprintRow)
    /\ notes \in Seq(Note)
    /\ pc \in [Workers -> {"idle", "follow", "footprint", "note"}]
    /\ DOMAIN req = Workers
    /\ \A w \in Workers : pc[w] # "idle" =>
        req[w] \in [type : Types, me : Users, other : Users] /\ req[w].me # req[w].other
    /\ failures \in 0..MaxFailures
    /\ client \in [list : Lists \cup {"none"}, at : {"rest", "rows", "unread", "total"},
                   page : Nat \ {0}, got : SUBSET Entry, begun : SUBSET Entry,
                   unreadRows : Nat, unread : Nat, marked : BOOLEAN, uncounted : BOOLEAN,
                   again : SUBSET Users]

Init ==
    /\ follows = {} /\ footprints = <<>> /\ notes = <<>>
    /\ pc = [w \in Workers |-> "idle"]
    /\ req = [w \in Workers |-> <<>>]
    /\ failures = 0
    /\ client = AtRest

-----------------------------------------------------------------------------
(* The writing requests. *)

Start(w, label, type, me, other) ==
    /\ pc[w] = "idle"
    /\ Len(notes) < MaxRows /\ Len(footprints) < MaxRows
    /\ pc' = [pc EXCEPT ![w] = label]
    /\ req' = [req EXCEPT ![w] = [type |-> type, me |-> me, other |-> other]]
    /\ UNCHANGED <<follows, footprints, notes, failures, client>>

\* Follow refuses the user himself; GetProfile makes nothing for him.
Follow(w, me, other) == me # other /\ Start(w, "follow", "follow", me, other)
GetProfile(w, me, other) == me # other /\ Start(w, "footprint", "footprint", me, other)

\* A statement at label: done, failed, or done and reported failed.
Outcomes == {"ok", "failed", "lost"}

Statement(w, label, o, next) ==
    /\ pc[w] = label
    /\ o = "ok" \/ failures < MaxFailures
    /\ failures' = IF o = "ok" THEN failures ELSE failures + 1
    /\ pc' = [pc EXCEPT ![w] = next]
    /\ req' = IF next = "idle" THEN [req EXCEPT ![w] = <<>>] ELSE req

\* INSERT INTO follows, ON DUPLICATE KEY nothing: on an error the answer is 500.
InsertFollow(w, o) ==
    /\ Statement(w, "follow", o, IF o = "ok" THEN "note" ELSE "idle")
    /\ follows' = IF o = "failed" THEN follows ELSE follows \cup {<<req[w].me, req[w].other>>}
    /\ UNCHANGED <<footprints, notes, client>>

\* recordFootprint, its error ignored
InsertFootprint(w, o) ==
    /\ Statement(w, "footprint", o, "note")
    /\ Len(footprints) < MaxRows
    /\ footprints' = IF o = "failed" THEN footprints
                     ELSE Append(footprints, [user |-> req[w].other, visitor |-> req[w].me])
    /\ client' = IF o # "failed" /\ req[w].other = Reader /\ client.list = "visitors"
                 THEN [client EXCEPT !.again = @ \cup {req[w].me}] ELSE client
    /\ UNCHANGED <<follows, notes>>

\* mutant: the row is kept once per user, type and actor, and moves up
InsertNoteUnique(w, o) ==
    /\ Statement(w, "note", o, "idle")
    /\ Len(notes) < MaxRows
    /\ LET row == [user |-> req[w].other, type |-> req[w].type, actor |-> req[w].me,
                   read |-> FALSE]
       IN  notes' = IF o = "failed" THEN notes
                    ELSE Append(SelectSeq(notes, LAMBDA n : n # row), row)
    /\ UNCHANGED <<follows, footprints, client>>

\* createNotification; the Publish after it is Hub's.
InsertNote(w, o) ==
    /\ Statement(w, "note", o, "idle")
    /\ Len(notes) < MaxRows
    /\ notes' = IF o = "failed" THEN notes
                ELSE Append(notes, [user |-> req[w].other, type |-> req[w].type,
                                    actor |-> req[w].me, read |-> FALSE])
    /\ UNCHANGED <<follows, footprints, client>>

\* Unfollow: its DELETE, its error ignored
Unfollow(me, other) ==
    /\ follows' = follows \ {<<me, other>>}
    /\ UNCHANGED <<footprints, notes, pc, req, failures, client>>

\* UPDATE notifications: all that are unread, listed or not
MarkNotificationsRead(me) ==
    /\ notes' = [i \in DOMAIN notes |->
                    IF notes[i].user = me THEN [notes[i] EXCEPT !.read = TRUE] ELSE notes[i]]
    /\ client' = IF me = Reader /\ client.at \in {"unread", "total"} THEN [client EXCEPT !.marked = TRUE] ELSE client
    /\ UNCHANGED <<follows, footprints, pc, req, failures>>

-----------------------------------------------------------------------------
(* The reader's lists.  Entries are ids of notifications, or visitors.       *)

Mine(list) == {i \in DOMAIN notes : notes[i].user = Reader /\ list \in {"all", notes[i].type}}

Visits(v) == {i \in DOMAIN footprints : footprints[i] = [user |-> Reader, visitor |-> v]}

Visitors == {footprints[i].visitor : i \in {j \in DOMAIN footprints : footprints[j].user = Reader}}

Entries(list) == IF list = "visitors" THEN Visitors ELSE Mine(list)

\* ORDER BY created_at DESC, id DESC; ORDER BY last_visited DESC: the entries before x
Ahead(list, x) ==
    IF list = "visitors"
    THEN {v \in Visitors : \E i \in Visits(v) : \A j \in Visits(x) : j < i}
    ELSE {i \in Mine(list) : x < i}

\* LIMIT PerPage OFFSET (page - 1) * PerPage
PageOf(list, page) ==
    LET offset == (page - 1) * PerPage
    IN  {x \in Entries(list) : Cardinality(Ahead(list, x)) \in offset..offset + PerPage - 1}

\* The client opens a list.
Open(list) ==
    /\ client.at = "rest"
    /\ client' = [AtRest EXCEPT !.list = list, !.at = "rows", !.begun = Entries(list)]
    /\ UNCHANGED <<follows, footprints, notes, pc, req, failures>>

\* A SELECT of the client, done or failed
Selected(o) ==
    /\ o = "ok" \/ failures < MaxFailures
    /\ failures' = IF o = "ok" THEN failures ELSE failures + 1

\* GetNotifications, GetFootprints: the rows of a page, in which those are left
\* out whose actor cannot be loaded and those a broken result no longer brings.
ListRows ==
    /\ client.at = "rows"
    /\ LET page == PageOf(client.list, client.page)
       IN  \E dropped \in SUBSET page :
            /\ failures + Cardinality(dropped) <= MaxFailures
            /\ failures' = failures + Cardinality(dropped)
            /\ client' = [client EXCEPT
                    !.at = IF client.list = "visitors" THEN "total" ELSE "unread",
                    !.got = @ \cup page,
                    !.unreadRows = IF client.list = "visitors" THEN 0
                                   ELSE Cardinality({i \in page \ dropped : ~notes[i].read}),
                    !.marked = FALSE]
    /\ UNCHANGED <<follows, footprints, notes, pc, req>>

\* The SELECT of the page fails: the answer is 500, and the client gives the list up.
ListRefused ==
    /\ client.at = "rows"
    /\ Selected("failed")
    /\ client' = AtRest
    /\ UNCHANGED <<follows, footprints, notes, pc, req>>

\* mutant: unread_count counts the follows only
ListUnreadOfType(o) ==
    /\ client.at = "unread"
    /\ Selected(o)
    /\ client' = [client EXCEPT !.at = "total", !.uncounted = (o # "ok"),
            !.unread = IF o = "ok" THEN Cardinality({i \in Mine("follow") : ~notes[i].read}) ELSE 0]
    /\ UNCHANGED <<follows, footprints, notes, pc, req>>

\* unread_count: of all types (the same SELECT is GetUnreadCount); 0 on an error,
\* which is ignored
ListUnread(o) ==
    /\ client.at = "unread"
    /\ Selected(o)
    /\ client' = [client EXCEPT !.at = "total", !.uncounted = (o # "ok"),
            !.unread = IF o = "ok" THEN Cardinality({i \in Mine("all") : ~notes[i].read}) ELSE 0]
    /\ UNCHANGED <<follows, footprints, notes, pc, req>>

\* total, by which the client knows whether there is a further page; 0 on an error,
\* which is ignored
ListTotal(o) ==
    /\ client.at = "total"
    /\ Selected(o)
    /\ LET total == IF o = "ok" THEN Cardinality(Entries(client.list)) ELSE 0
       IN  client' = IF client.page * PerPage < total
                     THEN [client EXCEPT !.at = "rows", !.page = @ + 1, !.unreadRows = 0,
                                         !.unread = 0, !.marked = FALSE, !.uncounted = FALSE]
                     ELSE AtRest
    /\ UNCHANGED <<follows, footprints, notes, pc, req>>

Write ==
    \/ \E w \in Workers :
        \/ \E m \in Meetings : Follow(w, m[1], m[2]) \/ GetProfile(w, m[1], m[2])
        \/ \E o \in Outcomes : InsertFollow(w, o) \/ InsertFootprint(w, o) \/ InsertNote(w, o)
    \/ \E m \in Meetings : Unfollow(m[1], m[2])
    \/ \E me \in Users : MarkNotificationsRead(me)

Read ==
    \/ \E list \in OpenLists : Open(list)
    \/ ListRows \/ ListRefused
    \/ \E o \in {"ok", "failed"} : ListUnread(o) \/ ListTotal(o)

Next == Write \/ Read

Spec == Init /\ [][Next]_vars

-----------------------------------------------------------------------------
(* Properties. *)

\* notification.go:24-30, 96-101, footprint.go:63-66: a client that reads page
\* after page until total is reached has received every entry that was there when
\* it began, whatever arrives in between; of footprints all but those of visitors
\* who come again meanwhile.  Rows that are left out of their page count as
\* received.  Not so when the count fails: it is answered as 0, and ends the list.
PagingSkipsNothing ==
    [][client.at = "total" /\ client'.at = "rest" /\ failures' = failures =>
        client.begun \subseteq client.got \cup client.again]_vars

\* notification.go:81-94: unread_count covers the unread rows shown beside it,
\* whatever the filter, unless the user marks them read meanwhile or the count
\* fails, which is answered as 0.
UnreadCoversPage ==
    client.at = "total" /\ ~client.marked /\ ~client.uncounted /\ client.list # "visitors" =>
        client.unread >= client.unreadRows

=============================================================================
