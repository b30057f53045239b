------------------------------- MODULE Loader ------------------------------
(***************************************************************************)
(* How posts are read: the lists (GetTimeline, GetUserPosts in             *)
(* internal/handler/post.go) and the batch loader they share (batch.go),   *)
(* and the loader of a single post (fetchPost in handler.go).              *)
(*                                                                         *)
(* A request is a sequence of SELECTs without a transaction: writes of     *)
(* other requests (modelled in Posts) fall between any two of them.        *)
(* Rows do not change once inserted.  reposts counts and flags are those   *)
(* of likes with another table name, and authors are never deleted; both   *)
(* are left out.                                                           *)
(***************************************************************************)
EXTENDS Integers, FiniteSetsExt, SequencesExt

CONSTANTS
    MaxPosts,       \* bound of the exploration: ids of posts
    Users,
    Anonymous,      \* the viewer without a session
    PerPage,
    MaxThreadDepth, \* maxThreadDepth, 50 in the code
    MaxWrites,      \* bound of the exploration: writes during the request
    MaxFailures     \* bound of the exploration: SELECTs that fail

ASSUME LoaderAssumption ==
    /\ {MaxPosts, PerPage, MaxThreadDepth} \subseteq Nat \ {0}
    /\ {MaxWrites, MaxFailures} \subseteq Nat
    /\ Anonymous \notin Users

Ids == 1..MaxPosts
NoRow == [parent |-> -1, original |-> -1]
Plain == [parent |-> 0, original |-> 0]

\* What an INSERT can make of id i.  CreateReply has seen its parent; Repost does
\* not look for the post it names.
ReplyRows(i) == {[parent |-> p, original |-> 0] : p \in 1..i - 1}
RepostRows(i) == {[parent |-> 0, original |-> o] : o \in Ids}
RowsOf(i) == {Plain} \cup ReplyRows(i) \cup RepostRows(i)

VARIABLES
    posts,   \* table posts: rows with parent_post_id, original_post_id, 0: NULL
    nextId,
    likes,   \* table likes
    pc, viewer,
    load,    \* the local variables of the loaders
    answer,  \* "none", "200", "404" or "500"
    kept,    \* history: rows there since the request began
    seen,    \* history: rows there at some time of the request
    writes, failures

table == <<posts, nextId, likes, kept, seen, writes>>
vars == <<table, pc, viewer, load, answer, failures>>

Rows == UNION {RowsOf(i) : i \in Ids}
Present(t) == {i \in Ids : t[i] # NoRow}

NothingLoaded ==
    [replies |-> FALSE,     \* GetUserPosts with type=replies
     ids |-> {},            \* orderedIDs: the SELECT orders them, newest first
     records |-> <<>>,      \* id |-> record
     pending |-> {},        \* pending: the ids to load next
     depth |-> 0,
     likesCounts |-> <<>>,  \* likesCounts: id |-> number
     frontier |-> {},       \* frontier: <<id, root>>
     visited |-> {},        \* visited: <<id, root>>
     targets |-> {},        \* replyTargets: parents that were found
     likedByMe |-> {},
     total |-> 0,
     current |-> 0]         \* fetchPost: the post it loads

TypeOK ==
    /\ posts \in [Ids -> Rows \cup {NoRow}]
    /\ nextId \in 1..MaxPosts + 1
    /\ likes \subseteq Users \X Ids
    /\ pc \in {"list", "records", "likes", "replies", "targets", "flags", "total", "single",
               "answered"}
    /\ viewer \in Users \cup {Anonymous}
    /\ load.ids \subseteq Ids /\ Cardinality(load.ids) <= PerPage
    /\ load.pending \cup load.targets \cup load.likedByMe \subseteq Ids
    /\ load.depth \in 0..MaxThreadDepth
    /\ \A i \in DOMAIN load.records : i \in Ids /\ load.records[i] \in RowsOf(i)
    /\ load.frontier \cup load.visited \subseteq Ids \X DOMAIN load.records
    /\ load.total \in 0..MaxPosts
    /\ load.current \in 0..MaxPosts
    /\ answer \in {"none", "200", "404", "500"}
    /\ writes \in 0..MaxWrites /\ failures \in 0..MaxFailures

Init ==
    /\ nextId \in 1..MaxPosts + 1
    /\ posts \in [Ids -> Rows \cup {NoRow}]
    /\ \A i \in Ids : posts[i] \in {NoRow} \cup IF i < nextId THEN RowsOf(i) ELSE {}
    /\ likes \in SUBSET (Users \X {1, MaxPosts})
    /\ viewer \in Users \cup {Anonymous}
    /\ pc \in {"list", "single"}
    /\ load \in IF pc = "list" THEN {NothingLoaded}
                ELSE {[NothingLoaded EXCEPT !.current = i] : i \in Ids}
    /\ answer = "none"
    /\ kept = posts /\ seen = posts
    /\ writes = 0 /\ failures = 0

-----------------------------------------------------------------------------
(* Writes of other requests, one statement each. *)

Write(t, l, n) ==
    /\ pc # "answered" /\ writes < MaxWrites /\ writes' = writes + 1
    /\ posts' = t /\ likes' = l /\ nextId' = n
    /\ kept' = [i \in Ids |-> IF t[i] = NoRow THEN NoRow ELSE kept[i]]
    /\ seen' = [i \in Ids |-> IF t[i] = NoRow THEN seen[i] ELSE t[i]]
    /\ UNCHANGED <<pc, viewer, load, answer, failures>>

InsertPost ==
    /\ nextId \in Ids
    /\ \E r \in RowsOf(nextId) : Write([posts EXCEPT ![nextId] = r], likes, nextId + 1)

DeletePost == \E i \in Present(posts) : Write([posts EXCEPT ![i] = NoRow], likes, nextId)

InsertLike == \E l \in (Users \X Ids) \ likes : Write(posts, likes \cup {l}, nextId)

DeleteLike == \E l \in likes : Write(posts, likes \ {l}, nextId)

-----------------------------------------------------------------------------
(* The steps of a list.  Each reads the tables once and computes from there. *)

Goto(label) == pc' = label /\ UNCHANGED answer
Answer(a) == pc' = "answered" /\ answer' = a

\* The SELECT at label and what follows it; when it fails the answer is onError.
Select(label, Step, onError) ==
    /\ pc = label
    /\ \/ Step /\ UNCHANGED failures
       \/ /\ failures < MaxFailures /\ failures' = failures + 1
          /\ Answer(onError) /\ UNCHANGED load
    /\ UNCHANGED <<table, viewer>>

\* The rows of a feed or of a profile: replies have a list of their own.
Listed(replies) == {i \in Present(posts) : replies <=> posts[i].parent # 0}

\* ORDER BY ... DESC LIMIT PerPage OFFSET (n - 1) * PerPage
Page(replies, n) ==
    {i \in Listed(replies) :
        Cardinality({j \in Listed(replies) : j > i}) \in (n - 1) * PerPage .. n * PerPage - 1}

\* GetTimeline, GetUserPosts: the ids of a page
List ==
    \E n \in 1..MaxPosts, replies \in BOOLEAN :
        LET page == Page(replies, n)
        IN  /\ load' = [load EXCEPT !.replies = replies, !.ids = page, !.pending = page]
            /\ Goto(IF page = {} THEN "total" ELSE "records")

\* mutant: reposted posts are not loaded
LoadRecordsOnce ==
    LET found == load.pending \cap Present(posts)
    IN  /\ load' = [load EXCEPT !.records = [i \in found |-> posts[i]], !.pending = {}]
        /\ IF load.ids \subseteq found THEN Goto("likes") ELSE Answer("500")

\* mutant: a missing original refuses the list like a missing listed post
LoadRecordsStrict ==
    LET found == load.pending \cap Present(posts)
        records == [i \in DOMAIN load.records \cup found |->
                       IF i \in found THEN posts[i] ELSE load.records[i]]
        next == {records[i].original : i \in found} \ ({0} \cup DOMAIN records)
    IN  IF next # {} /\ load.depth < MaxThreadDepth
        THEN /\ load' = [load EXCEPT !.records = records, !.pending = next, !.depth = @ + 1]
             /\ Goto("records")
        ELSE /\ load' = [load EXCEPT !.records = records, !.pending = {}, !.depth = 0]
             /\ IF load.pending \subseteq found THEN Goto("likes") ELSE Answer("500")

\* mutant: posts that are loaded are loaded again, without counting the levels
LoadRecordsAgain ==
    LET found == load.pending \cap Present(posts)
        records == [i \in DOMAIN load.records \cup found |->
                       IF i \in found THEN posts[i] ELSE load.records[i]]
        next == {records[i].original : i \in found} \ {0}
    IN  IF next # {}
        THEN /\ load' = [load EXCEPT !.records = records, !.pending = next]
             /\ Goto("records")
        ELSE /\ load' = [load EXCEPT !.records = records, !.pending = {}, !.depth = 0]
             /\ IF load.ids \subseteq DOMAIN records THEN Goto("likes") ELSE Answer("500")

\* fetchPostRecords, once per level of reposts, then whether a listed post is gone
LoadRecords ==
    LET found == load.pending \cap Present(posts)
        records == [i \in DOMAIN load.records \cup found |->
                       IF i \in found THEN posts[i] ELSE load.records[i]]
        next == {records[i].original : i \in found} \ ({0} \cup DOMAIN records)
    IN  IF next # {} /\ load.depth < MaxThreadDepth
        THEN /\ load' = [load EXCEPT !.records = records, !.pending = next, !.depth = @ + 1]
             /\ Goto("records")
        ELSE /\ load' = [load EXCEPT !.records = records, !.pending = {}, !.depth = 0]
             /\ IF load.ids \subseteq DOMAIN records THEN Goto("likes") ELSE Answer("500")

LikesOf(i) == Cardinality({l \in likes : l[2] = i})

\* fetchPostCounts; then the frontier of countRepliesBatch
LoadLikes ==
    LET roots == {<<i, i>> : i \in DOMAIN load.records}
    IN  /\ load' = [load EXCEPT !.likesCounts = [i \in DOMAIN load.records |-> LikesOf(i)],
                                !.frontier = roots, !.visited = roots]
        /\ Goto("replies")

\* mutant: a reply counts for every root, not only for those it is below
LoadRepliesUnrooted ==
    LET level == {p \in Present(posts) \X DOMAIN load.records :
                    \E n \in load.frontier : n[1] = posts[p[1]].parent} \ load.visited
    IN  IF level # {} /\ load.depth + 1 < MaxThreadDepth
        THEN /\ load' = [load EXCEPT !.frontier = level, !.visited = @ \cup level, !.depth = @ + 1]
             /\ Goto("replies")
        ELSE /\ load' = [load EXCEPT !.frontier = {}, !.visited = @ \cup level, !.depth = 0]
             /\ Goto("targets")

\* One level of countRepliesBatch.  counts[root] is the visited pairs of root, less one.
LoadReplies ==
    LET level == {p \in Present(posts) \X DOMAIN load.records :
                    <<posts[p[1]].parent, p[2]>> \in load.frontier} \ load.visited
    IN  IF level # {} /\ load.depth + 1 < MaxThreadDepth
        THEN /\ load' = [load EXCEPT !.frontier = level, !.visited = @ \cup level, !.depth = @ + 1]
             /\ Goto("replies")
        ELSE /\ load' = [load EXCEPT !.frontier = {}, !.visited = @ \cup level, !.depth = 0]
             /\ Goto("targets")

Parents == {r.parent : r \in Range(load.records)} \ {0}

\* fetchReplyTargets: the parents that are there
LoadTargets ==
    /\ load' = [load EXCEPT !.targets = Parents \cap Present(posts)]
    /\ Goto("flags")

\* fetchViewerFlags
LoadFlags ==
    /\ load' = [load EXCEPT !.likedByMe = {i \in DOMAIN load.records : <<viewer, i>> \in likes}]
    /\ Goto("total")

\* SELECT COUNT(*)
LoadTotal ==
    /\ load' = [load EXCEPT !.total = Cardinality(Listed(load.replies))]
    /\ Answer("200")

\* mutant: a missing original is asked for again
FetchPostAgain ==
    LET row == posts[load.current]
    IN  IF row = NoRow THEN IF load.depth = 0 THEN Answer("404") /\ UNCHANGED load
                            ELSE Goto("single") /\ UNCHANGED load
        ELSE IF row.original \in {0, load.current} THEN Answer("200") /\ UNCHANGED load
        ELSE /\ load' = [load EXCEPT !.current = row.original, !.depth = 1]
             /\ Goto("single")

\* fetchPost for GetPost, from a repost on to what it reposts.  Only the first
\* post may not be missing; what is below a repost is left out on any error.
FetchPost ==
    LET row == posts[load.current]
    IN  IF row = NoRow THEN Answer(IF load.depth = 0 THEN "404" ELSE "200") /\ UNCHANGED load
        ELSE IF row.original \in {0, load.current} THEN Answer("200") /\ UNCHANGED load
        ELSE /\ load' = [load EXCEPT !.current = row.original, !.depth = 1]
             /\ Goto("single")

Request ==
    \/ Select("list", List, "500")
    \/ Select("records", LoadRecords, "500")
    \/ Select("likes", LoadLikes, "500")
    \/ Select("replies", LoadReplies, "500")
    \/ Select("targets", LoadTargets, "500")
    \/ Select("flags", LoadFlags, "500")
    \/ Select("total", LoadTotal, "200")
    \/ Select("single", FetchPost, IF load.depth = 0 THEN "500" ELSE "200")

Next == Request \/ InsertPost \/ DeletePost \/ InsertLike \/ DeleteLike

\* The handler runs on; nothing is assumed of the writers, nor that a SELECT fails.
Spec == Init /\ [][Next]_vars /\ WF_vars(Request /\ UNCHANGED failures)

-----------------------------------------------------------------------------
(* What the lists return, and the loader of one post to compare them with.  *)

\* replyCounts: each root's children, and theirs, that were visited
ReplyCount(r) == Cardinality({v \in load.visited : v[2] = r}) - 1

\* countReplies on table t: the children of i, and what is below them
CountReplies(t) ==
    LET below[d \in 0..MaxThreadDepth] ==
            [i \in Ids |-> IF d = 0 THEN 0
                           ELSE MapThenSumSet(LAMBDA c : 1 + below[d - 1][c],
                                              {c \in Present(t) : t[c].parent = i})]
    IN  below[MaxThreadDepth]

\* build: post i, what it reposts, what that reposts, out of the records given;
\* a post that is above itself is not shown again.
Build(records, i) ==
    LET nested[n \in 0..MaxPosts] ==
            IF n = 0 THEN <<i>>
            ELSE LET above == nested[n - 1]
                     o == records[Last(above)].original
                 IN  IF o \in DOMAIN records \ Range(above) THEN Append(above, o) ELSE above
    IN  nested[MaxPosts]

Stored(t) == [i \in Present(t) |-> t[i]]

\* fetchPost's recursion over originals ends at a post that is no repost, or whose
\* original is missing or itself.
Ends(t, i) ==
    LET last == Last(Build(Stored(t), i)) IN t[last].original \in {0, last} \cup (Ids \ Present(t))

-----------------------------------------------------------------------------
(* Properties. *)

\* batch.go:45-46, 383: while nothing is written, a list shows for every post what
\* fetchPost shows for it: the same reposted posts inside each other (up to the
\* depth the batch loads), the same numbers and flags; and it is never refused.
BatchAgrees ==
    answer # "none" /\ load.ids # {} /\ writes = 0 /\ failures = 0 =>
        /\ answer = "200"
        /\ load.total = Cardinality(Listed(load.replies))
        /\ \A i \in {j \in load.ids : Ends(posts, j)} :
            LET shown == Build(load.records, i)
                single == Build(Stored(posts), i)
            IN  /\ IsPrefix(shown, single)
                /\ Len(shown) > MaxThreadDepth \/ shown = single
                /\ \A s \in Range(shown) :
                    /\ ReplyCount(s) = CountReplies(posts)[s]
                    /\ load.likesCounts[s] = LikesOf(s)
                    /\ s \in load.likedByMe <=> <<viewer, s>> \in likes
                    /\ posts[s].parent \in load.targets <=> posts[s].parent \in Present(posts)

\* batch.go:397-438: whatever is inserted and deleted between the levels, a reply
\* that was there all the time is counted, none is counted twice, and none that
\* was never there.
RepliesBracketed ==
    answer = "200" => \A r \in DOMAIN load.records :
        CountReplies(kept)[r] <= ReplyCount(r) /\ ReplyCount(r) <= CountReplies(seen)[r]

\* batch.go:90-94: a list is refused only when a SELECT failed or a post of the page
\* was deleted while the page was loaded.
RefusedForDeletion ==
    pc = "answered" /\ answer = "500" /\ failures = 0 =>
        \E i \in load.ids : kept[i] = NoRow

\* batch.go:55-88, 397: every list is answered, also when reposts form a cycle.
ListsAnswered == pc # "single" ~> pc = "answered"

\* handler.go:143-150: a single post is answered, unless reposts come to form a cycle
\* that fetchPost does not leave.
SinglesAnswered ==
    pc = "single" ~>
        \/ pc = "answered"
        \/ load.current \in Present(posts) /\ ~Ends(posts, load.current)

=============================================================================
