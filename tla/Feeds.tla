-------------------------------- MODULE Feeds --------------------------------
(***************************************************************************)
(* What the lists contain, and how a client reads them page by page: the   *)
(* feeds (GetTimeline in internal/handler/post.go), search, trending and   *)
(* the users somebody follows; and the table behind the recommended feed,  *)
(* which an event of the database recomputes every minute (migrations 003  *)
(* and 004).                                                               *)
(*                                                                         *)
(* The requests of one client interleave with the writes of everybody.     *)
(* How the posts of a page are loaded is the matter of Loader.             *)
(***************************************************************************)
EXTENDS Integers, FiniteSets, SequencesExt

CONSTANTS
    Users,       \* ids of users
    Shapes,      \* the posts of this instance: [author, reply, hit]
    Lists,       \* the lists the client opens
    PerPage,
    TrendingMax, \* length of trending, 20 in the code
    Hour, Day,   \* the windows of trending and of the recommended feed
    Seeded,      \* posts there at the start
    MaxPosts, MaxWrites, MaxTime \* bounds of the exploration

\* search.go:12: users and posts are searched by the same handler
PostLists == {"latest", "following", "recommended", "search", "trending"}
UserLists == {"users", "followees"}
\* The other lists are answered in one page.
Paged == {"latest", "following", "recommended", "search", "users"}

ASSUME FeedsAssumption ==
    /\ Users \subseteq Nat /\ IsFiniteSet(Users)
    /\ Shapes \subseteq [author : Users, reply : BOOLEAN, hit : BOOLEAN]
    /\ Lists \subseteq PostLists \cup UserLists
    /\ {PerPage, TrendingMax, Hour, Day} \subseteq Nat \ {0} /\ Hour < Day
    /\ Seeded \in 1..MaxPosts /\ {MaxPosts, MaxWrites, MaxTime} \subseteq Nat

VARIABLES
    posts,       \* table posts: id |-> [author, reply, hit (the word searched), at]
    nextId,
    likes,       \* table likes: <<user, post>> |-> created_at
    follows,     \* table follows: whom the client's user follows
    hits,        \* the users whose name has the word searched
    recommended, \* table recommended_posts: post |-> recent_likes
    now,         \* the clock, in seconds of created_at
    writes,
    client       \* the client and the list request it is at

tables == <<posts, nextId, likes, follows, hits, recommended>>
vars == <<tables, now, writes, client>>

\* A table with the rows of new that it has no row of the same key for.
With(table, new) ==
    [key \in DOMAIN table \cup DOMAIN new |->
        IF key \in DOMAIN table THEN table[key] ELSE new[key]]

TopLevel == {p \in DOMAIN posts : ~posts[p].reply}

Recent(p, window) ==
    Cardinality({u \in Users : <<u, p>> \in DOMAIN likes /\ likes[<<u, p>>] > now - window})

\* SELECT ... WHERE of each list
Entries(list) ==
    CASE list = "latest" -> TopLevel
      [] list = "following" -> {p \in TopLevel : posts[p].author \in follows}
      [] list = "recommended" -> DOMAIN recommended \cap DOMAIN posts
      [] list = "search" -> {p \in DOMAIN posts : posts[p].hit}
      [] list = "trending" -> {p \in DOMAIN posts : Recent(p, Hour) > 0}
      [] list = "users" -> hits
      [] list = "followees" -> follows

\* created_at DESC, id DESC
Newer(p, q) == posts[p].at > posts[q].at \/ (posts[p].at = posts[q].at /\ p > q)

\* ORDER BY: x comes before y whatever the database does.  Search orders posts by
\* created_at and trending by likes alone; the users followed have no order.
Before(list, x, y) ==
    CASE list \in {"latest", "following"} -> Newer(x, y)
      [] list = "recommended" ->
            \/ recommended[x] > recommended[y]
            \/ recommended[x] = recommended[y] /\ Newer(x, y)
      [] list = "search" -> posts[x].at > posts[y].at
      [] list = "trending" -> Recent(x, Hour) > Recent(y, Hour)
      [] list = "users" -> x < y
      [] list = "followees" -> FALSE

\* The sequences a SELECT may return.
Answers(list) ==
    {s \in SetToSeqs(Entries(list)) :
        \A m \in 1..Len(s) : \A n \in m + 1..Len(s) : ~Before(list, s[n], s[m])}

\* mutant: the number of posts of a search leaves out replies, as the feeds do
TotalTopLevel(list) ==
    Cardinality(IF list = "recommended" THEN TopLevel
                ELSE IF list = "search" THEN Entries(list) \cap TopLevel ELSE Entries(list))

\* SELECT COUNT(*): the recommended feed counts the posts it is made from.
Total(list) == Cardinality(IF list = "recommended" THEN TopLevel ELSE Entries(list))

Reader ==
    [list : Lists, at : {"page", "load", "total", "end", "error"},
     page : 1..MaxPosts + Cardinality(Users), ids : Seq(Nat), missing : SUBSET Nat]

TypeOK ==
    /\ DOMAIN posts \subseteq 1..nextId - 1 /\ nextId \in 1..MaxPosts + 1
    /\ \A p \in DOMAIN posts :
        posts[p] \in [author : Users, reply : BOOLEAN, hit : BOOLEAN, at : -MaxPosts..now]
    /\ DOMAIN likes \subseteq Users \X (1..nextId - 1)
    /\ \A l \in DOMAIN likes : likes[l] \in 0..now
    /\ follows \cup hits \subseteq Users
    /\ DOMAIN recommended \subseteq DOMAIN posts
    /\ \A p \in DOMAIN recommended : recommended[p] \in 0..Cardinality(Users)
    /\ now \in 0..MaxTime /\ writes \in 0..MaxWrites
    /\ client \in Reader

\* The posts of the start are a second apart, or all of the same second; the first has
\* every like or none; all users are followed and found; the event has just run.
Init ==
    /\ nextId = Seeded + 1
    /\ \E shape \in [1..Seeded -> Shapes], apart \in BOOLEAN :
        posts = [p \in 1..Seeded |->
            [author |-> shape[p].author, reply |-> shape[p].reply, hit |-> shape[p].hit,
             at |-> IF apart THEN p - Seeded ELSE 0]]
    /\ \E liked \in {{}, {1}} : likes = [l \in Users \X liked |-> 0]
    /\ follows = Users /\ hits = Users
    /\ now = 0 /\ writes = 0
    /\ recommended = [p \in TopLevel |-> Recent(p, Day)]
    /\ \E list \in Lists :
        client = [list |-> list, at |-> "page", page |-> 1, ids |-> <<>>,
                  \* history: what page 1 on have not shown of the entries at the start;
                  \* nothing once an entry went or changed places, or a statement failed
                  missing |-> Entries(list)]
-----------------------------------------------------------------------------
(* The writes, of any user. *)

\* Whether two entries have no order the database must keep.
Tied(list) ==
    \E x, y \in Entries(list) : x # y /\ ~Before(list, x, y) /\ ~Before(list, y, x)

\* Entries went away or were reordered, or have no order: nothing can be promised.
Track ==
    \E list \in {client.list} :
        IF \/ Tied(list) \/ Tied(list)' \/ ~(Entries(list) \subseteq Entries(list)')
           \/ \E x, y \in Entries(list) : Before(list, x, y) /\ ~Before(list, x, y)'
        THEN client' = [client EXCEPT !.missing = {}]
        ELSE UNCHANGED client

Write == writes < MaxWrites /\ writes' = writes + 1 /\ UNCHANGED now

CreatePost ==
    /\ nextId \in 1..MaxPosts
    /\ \E s \in Shapes :
        posts' = With(posts, [p \in {nextId} |-> [author |-> s.author, reply |-> s.reply,
                                                   hit |-> s.hit, at |-> now]])
    /\ nextId' = nextId + 1
    /\ Write /\ UNCHANGED <<likes, follows, hits, recommended>>

\* ON DELETE CASCADE of recommended_posts; the likes stay.
DeletePost(p) ==
    /\ posts' = [q \in DOMAIN posts \ {p} |-> posts[q]]
    /\ recommended' = [q \in DOMAIN recommended \ {p} |-> recommended[q]]
    /\ Write /\ UNCHANGED <<nextId, likes, follows, hits>>

\* ON DUPLICATE KEY UPDATE: a second like keeps the time of the first.
Like(u, p) ==
    /\ likes' = With(likes, [l \in {<<u, p>>} |-> now])
    /\ Write /\ UNCHANGED <<posts, nextId, follows, hits, recommended>>

Unlike(u, p) ==
    /\ likes' = [l \in DOMAIN likes \ {<<u, p>>} |-> likes[l]]
    /\ Write /\ UNCHANGED <<posts, nextId, follows, hits, recommended>>

Follow(u) ==
    /\ follows' = follows \cup {u}
    /\ Write /\ UNCHANGED <<posts, nextId, likes, hits, recommended>>

Unfollow(u) ==
    /\ follows' = follows \ {u}
    /\ Write /\ UNCHANGED <<posts, nextId, likes, hits, recommended>>

\* The new display name has the word, or has it no more.
UpdateProfile(u) ==
    /\ hits' \in {hits \cup {u}, hits \ {u}}
    /\ Write /\ UNCHANGED <<posts, nextId, likes, follows, recommended>>

\* mutant: INSERT IGNORE, which keeps the rows that are there
RefreshNewOnly ==
    /\ recommended' = With(recommended, [p \in TopLevel |-> Recent(p, Day)])
    /\ recommended' # recommended
    /\ UNCHANGED <<posts, nextId, likes, follows, hits, now, writes>>

\* The event: REPLACE INTO recommended_posts ... SELECT.
Refresh ==
    /\ recommended' = With([p \in TopLevel |-> Recent(p, Day)], recommended)
    /\ recommended' # recommended
    /\ UNCHANGED <<posts, nextId, likes, follows, hits, now, writes>>

Tick == now < MaxTime /\ now' = now + 1 /\ UNCHANGED <<tables, writes>>

Others ==
    /\ \/ CreatePost \/ Refresh \/ Tick
       \/ \E p \in DOMAIN posts : DeletePost(p) \/ \E u \in Users : Like(u, p)
       \/ \E l \in DOMAIN likes : Unlike(l[1], l[2])
       \/ \E u \in Users : Follow(u) \/ Unfollow(u) \/ UpdateProfile(u)
    /\ Track
-----------------------------------------------------------------------------
(* The requests of the client. *)

Request == UNCHANGED <<tables, now, writes>>

\* LIMIT, OFFSET
Page(list, s) ==
    LET first == IF list \in Paged THEN (client.page - 1) * PerPage ELSE 0
        last == CASE list \in Paged -> first + PerPage
                  [] list = "trending" -> TrendingMax
                  [] OTHER -> Len(s)
    IN  SubSeq(s, first + 1, IF last < Len(s) THEN last ELSE Len(s))

SelectPage ==
    /\ client.at = "page"
    /\ \E s \in Answers(client.list) :
        client' = [client EXCEPT !.at = "load", !.ids = Page(client.list, s),
                   !.missing = IF Tied(client.list) THEN {} ELSE @]
    /\ Request

\* The entries of the page are loaded; others of it are left out.
Shown(loaded, others) ==
    client' = [client EXCEPT !.at = IF client.list \in Paged THEN "total" ELSE "end",
               !.ids = IF client.list = "trending" THEN @ ELSE <<>>,
               !.missing = IF others = {} THEN @ \ loaded ELSE {}]

Refused == client' = [client EXCEPT !.at = "error", !.ids = <<>>, !.missing = {}]

\* fetchPosts refuses the page for one post that is gone.
LoadPosts ==
    /\ client.at = "load" /\ client.list \in PostLists
    /\ IF Range(client.ids) \subseteq DOMAIN posts
       THEN Shown(Range(client.ids), {})
       ELSE Refused
    /\ Request

\* fetchUser, one by one: a user whose loading fails is left out.
LoadUsers ==
    /\ client.at = "load" /\ client.list \in UserLists
    /\ \E loaded \in SUBSET Range(client.ids) :
        Shown(loaded, Range(client.ids) \ loaded)
    /\ Request

\* The count that ends the request; the client goes on while total promises more.
\* When the statement fails total is 0.
CountTotal ==
    /\ client.at = "total"
    /\ \E total \in {Total(client.list), 0} :
        client' = [client EXCEPT
            !.at = IF client.page * PerPage < total THEN "page" ELSE "end",
            !.page = IF client.page * PerPage < total THEN @ + 1 ELSE @,
            !.missing = IF total = Total(client.list) THEN @ ELSE {}]
    /\ Request

\* A statement fails and the request is answered with an error.
RequestFails ==
    /\ client.at \in {"page", "load"}
    /\ Refused
    /\ Request

Next == Others \/ SelectPage \/ LoadPosts \/ LoadUsers \/ CountTotal \/ RequestFails

Spec == Init /\ [][Next]_vars

\* The scheduler of the database runs the event every minute.
FairSpec == Spec /\ WF_vars(Refresh /\ Track)
-----------------------------------------------------------------------------
(* Properties. *)

\* post.go:18-47, 75-89, search.go:33-57, 74-105: a client that turns the pages of a
\* list until total is reached has seen every entry that was there at the start,
\* whatever was added meanwhile, unless entries left, changed places or had no order
\* of their own.  The recommended feed counts posts it does not list yet, which costs
\* a page and not an entry.
PagesComplete ==
    client.at = "end" =>
        client.missing = {} \/ (client.list = "trending" /\ Len(client.ids) = TrendingMax)

\* 004_preaggregate_recommended_likes.sql:12-25, api.md:383: once nobody writes and the
\* likes are as old as they get, the recommended feed has every post of the latest feed,
\* in the order of the likes of the last day.
FeedSettles ==
    <>[](/\ DOMAIN recommended = TopLevel
         /\ \A p \in TopLevel : recommended[p] = Recent(p, Day))
=============================================================================
