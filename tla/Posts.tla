------------------------------- MODULE Posts -------------------------------
(***************************************************************************)
(* The handlers that write posts and what refers to them                   *)
(* (internal/handler/post.go, reply.go, repost.go, like.go, and            *)
(* createNotification, threadRootID and ThreadStream which they meet in).  *)
(*                                                                         *)
(* A worker is the goroutine of one request.  Each SQL statement is one    *)
(* step; no handler uses a transaction, so requests interleave between any *)
(* two statements.  A statement may fail because the database or the       *)
(* request's context does: without effect, or after it took effect ("lost" *)
(* result).  Contents, timestamps and the counts in the answers are left   *)
(* out; fetchPost, whose error CreatePost and CreateReply ignore, only     *)
(* reads.  Malformed requests are answered 400 before any statement.       *)
(***************************************************************************)
EXTENDS Integers, Sequences, FiniteSets

CONSTANTS
    Users,          \* accounts
    Workers,        \* request goroutines
    UserOf,         \* the account each worker's requests are made by
    Ops,            \* operations requested in this instance
    SeedPosts,      \* rows of posts in the initial state, in the order of their ids
    MaxPosts,       \* bound of the exploration: ids
    MaxRequests,    \* bound of the exploration: requests
    MaxFaults,      \* bound of the exploration: statements that fail
    MaxThreadDepth, \* maxThreadDepth, 50 in the code
    NoPost,         \* no row with this id
    NoUser          \* no row found yet

PostIds == 1..MaxPosts
OptId == 0..MaxPosts     \* 0 is NULL
Row == [author : Users, parent : OptId, original : OptId]

AllOps == {"CreatePost", "CreateReply", "DeletePost", "Repost", "UnRepost",
           "Like", "Unlike", "ThreadStream"}

ASSUME PostsAssumption ==
    /\ UserOf \in [Workers -> Users]
    /\ Ops \subseteq AllOps
    /\ MaxPosts \in Nat \ {0}
    /\ MaxRequests \in Nat
    /\ MaxFaults \in Nat
    /\ MaxThreadDepth \in Nat
    /\ NoPost \notin Row
    /\ NoUser \notin Users

\* A database the handlers can have produced: replies and reposts refer to
\* earlier posts.
ASSUME SeedAssumption ==
    /\ SeedPosts \in Seq(Row)
    /\ Len(SeedPosts) + MaxRequests <= MaxPosts
    /\ \A i \in 1..Len(SeedPosts) :
        SeedPosts[i].parent < i /\ SeedPosts[i].original < i

VARIABLES
    posts,     \* id |-> row, NoPost when there is none
    nextId,    \* AUTO_INCREMENT of posts: ids are never used again
    reposts,   \* rows <<user, post>>
    likes,     \* rows <<user, post>>
    notes,     \* notifications, in the order of their ids
    announced, \* events published on the Notifications hub
    threadEvents, \* events published on the Threads hub, with their keys
    pc,        \* next statement of each worker, "idle" between requests
    op,        \* the operation requested
    target,    \* post_id of the request
    owner,     \* parentAuthorID or postOwnerID
    newId,     \* LastInsertId of the reply
    root,      \* threadRootID: current
    depth,     \* threadRootID: i
    \* history, and the bounds
    written,   \* every row as it was inserted, kept when the row is deleted
    clean,     \* no statement of the worker's request failed
    opened,    \* ThreadStream was asked for a post that existed
    since,     \* Len(threadEvents) when the stream subscribed
    requests,
    faults

tables == <<posts, nextId, written, reposts, likes, notes>>
events == <<announced, threadEvents>>
args == <<op, target, opened, requests>>
locals == <<owner, newId, root, depth, since>>
vars == <<posts, nextId, reposts, likes, notes, announced, threadEvents, pc, op,
          target, owner, newId, root, depth, written, clean, opened, since,
          requests, faults>>

Labels == {"idle", "insertPost", "findParent", "insertReply", "deletePost",
           "insertRepost", "insertRepostPost", "deleteRepost", "deleteRepostPost",
           "insertLike", "deleteLike", "findOwner", "notify", "announce", "root",
           "publish", "subscribe", "streaming", "count"}

Note == [to : Users, actor : Users, type : {"reply", "repost", "like"}, post : PostIds]

TypeOK ==
    /\ posts \in [PostIds -> Row \cup {NoPost}]
    /\ nextId \in 1..(MaxPosts + 1)
    /\ reposts \subseteq Users \X PostIds
    /\ likes \subseteq Users \X PostIds
    /\ notes \in Seq(Note)
    /\ announced \in Seq(Note)
    /\ threadEvents \in Seq([key : PostIds, post : PostIds])
    /\ pc \in [Workers -> Labels]
    /\ op \in [Workers -> AllOps]
    /\ target \in [Workers -> PostIds]
    /\ owner \in [Workers -> Users \cup {NoUser}]
    /\ newId \in [Workers -> OptId]
    /\ root \in [Workers -> PostIds]
    /\ depth \in [Workers -> 0..MaxThreadDepth]
    /\ written \in [PostIds -> Row \cup {NoPost}]
    /\ clean \in [Workers -> BOOLEAN]
    /\ opened \in [Workers -> BOOLEAN]
    /\ since \in [Workers -> Nat]
    /\ requests \in 0..MaxRequests
    /\ faults \in 0..MaxFaults

Init ==
    /\ posts = [i \in PostIds |-> IF i <= Len(SeedPosts) THEN SeedPosts[i] ELSE NoPost]
    /\ nextId = Len(SeedPosts) + 1
    /\ reposts = {<<posts[i].author, posts[i].original>> :
                    i \in {j \in 1..Len(SeedPosts) : SeedPosts[j].original # 0}}
    /\ likes = {}
    /\ notes = <<>>
    /\ announced = <<>>
    /\ threadEvents = <<>>
    /\ pc = [w \in Workers |-> "idle"]
    /\ op = [w \in Workers |-> "CreatePost"]
    /\ target = [w \in Workers |-> 1]
    /\ owner = [w \in Workers |-> NoUser]
    /\ newId = [w \in Workers |-> 0]
    /\ root = [w \in Workers |-> 1]
    /\ depth = [w \in Workers |-> 0]
    /\ written = posts
    /\ clean = [w \in Workers |-> TRUE]
    /\ opened = [w \in Workers |-> FALSE]
    /\ since = [w \in Workers |-> 0]
    /\ requests = 0
    /\ faults = 0

-----------------------------------------------------------------------------
(* Statements. *)

\* "ok"; "failed" without effect; "lost": took effect, the caller sees an error
Outcomes == {"ok", "failed", "lost"}

Statement(w, label, o) ==
    /\ pc[w] = label
    /\ o # "ok" => faults < MaxFaults
    /\ faults' = IF o = "ok" THEN faults ELSE faults + 1
    /\ clean' = [clean EXCEPT ![w] = @ /\ o = "ok"]

Goto(w, label) == pc' = [pc EXCEPT ![w] = label]

\* INSERT INTO posts
InsertRow(row) ==
    /\ nextId <= MaxPosts
    /\ posts' = [posts EXCEPT ![nextId] = row]
    /\ written' = [written EXCEPT ![nextId] = row]
    /\ nextId' = nextId + 1

\* DELETE FROM posts
DeleteRows(ids) == posts' = [i \in PostIds |-> IF i \in ids THEN NoPost ELSE posts[i]]

Exists(i) == posts[i] # NoPost

\* ids of the rows u holds as reposts of i
RepostRows(u, i) ==
    {j \in PostIds : Exists(j) /\ posts[j].author = u /\ posts[j].original = i}

-----------------------------------------------------------------------------
(* A request arrives: the router picks the handler, the middleware has     *)
(* resolved the user.  The id may be of a post that never existed.         *)

FirstLabel ==
    [CreatePost |-> "insertPost", CreateReply |-> "findParent",
     DeletePost |-> "deletePost", Repost |-> "insertRepost",
     UnRepost |-> "deleteRepost", Like |-> "insertLike", Unlike |-> "deleteLike",
     ThreadStream |-> "root"]

Request(w, o, i) ==
    /\ pc[w] = "idle"
    /\ requests < MaxRequests
    /\ i <= nextId
    /\ o = "CreatePost" => i = 1
    /\ Goto(w, FirstLabel[o])
    /\ op' = [op EXCEPT ![w] = o]
    /\ target' = [target EXCEPT ![w] = i]
    /\ opened' = [opened EXCEPT ![w] = written[i] # NoPost]
    /\ owner' = [owner EXCEPT ![w] = NoUser]
    /\ newId' = [newId EXCEPT ![w] = 0]
    /\ root' = [root EXCEPT ![w] = i]
    /\ depth' = [depth EXCEPT ![w] = 0]
    /\ since' = [since EXCEPT ![w] = 0]
    /\ clean' = [clean EXCEPT ![w] = TRUE]
    /\ requests' = requests + 1
    /\ UNCHANGED <<tables, events, faults>>

-----------------------------------------------------------------------------
(* CreatePost and DeletePost. *)

InsertPost(w, o) ==
    /\ Statement(w, "insertPost", o)
    /\ IF o = "failed" THEN UNCHANGED <<posts, written, nextId>>
       ELSE InsertRow([author |-> UserOf[w], parent |-> 0, original |-> 0])
    /\ Goto(w, "idle")
    /\ UNCHANGED <<reposts, likes, notes, events, args, locals>>

\* mutant: the WHERE clause forgets the owner
DeletePostOfAnyone(w, o) ==
    /\ Statement(w, "deletePost", o)
    /\ DeleteRows(IF o # "failed" THEN {target[w]} ELSE {})
    /\ Goto(w, "idle")
    /\ UNCHANGED <<written, nextId, reposts, likes, notes, events, args, locals>>

\* 404 when no row was affected; likes, reposts, replies and notifications
\* that refer to the post stay.
DeletePost(w, o) ==
    /\ Statement(w, "deletePost", o)
    /\ DeleteRows({i \in {target[w]} :
            o # "failed" /\ Exists(i) /\ posts[i].author = UserOf[w]})
    /\ Goto(w, "idle")
    /\ UNCHANGED <<written, nextId, reposts, likes, notes, events, args, locals>>

-----------------------------------------------------------------------------
(* CreateReply. *)

\* mutant: an id without a row is not answered 404
FindParentUnchecked(w, o) ==
    /\ Statement(w, "findParent", o)
    /\ IF o = "ok"
       THEN /\ Goto(w, "insertReply")
            /\ owner' = [owner EXCEPT ![w] =
                IF Exists(target[w]) THEN posts[target[w]].author ELSE UserOf[w]]
       ELSE Goto(w, "idle") /\ UNCHANGED owner
    /\ UNCHANGED <<tables, events, args, newId, root, depth, since>>

FindParent(w, o) ==
    /\ Statement(w, "findParent", o)
    /\ IF o = "ok" /\ Exists(target[w])
       THEN /\ Goto(w, "insertReply")
            /\ owner' = [owner EXCEPT ![w] = posts[target[w]].author]
       ELSE Goto(w, "idle") /\ UNCHANGED owner
    /\ UNCHANGED <<tables, events, args, newId, root, depth, since>>

InsertReply(w, o) ==
    /\ Statement(w, "insertReply", o)
    /\ IF o = "failed" THEN UNCHANGED <<posts, written, nextId>>
       ELSE InsertRow([author |-> UserOf[w], parent |-> target[w], original |-> 0])
    /\ IF o = "ok"
       THEN Goto(w, "notify") /\ newId' = [newId EXCEPT ![w] = nextId]
       ELSE Goto(w, "idle") /\ UNCHANGED newId
    /\ UNCHANGED <<reposts, likes, notes, events, args, owner, root, depth, since>>

\* mutant: publishes under the post that was answered
PublishReplyUnderParent(w) ==
    /\ pc[w] = "publish"
    /\ threadEvents' = Append(threadEvents, [key |-> target[w], post |-> newId[w]])
    /\ Goto(w, "idle")
    /\ UNCHANGED <<tables, announced, args, locals, clean, faults>>

PublishReply(w) ==
    /\ pc[w] = "publish"
    /\ threadEvents' = Append(threadEvents, [key |-> root[w], post |-> newId[w]])
    /\ Goto(w, "idle")
    /\ UNCHANGED <<tables, announced, args, locals, clean, faults>>

-----------------------------------------------------------------------------
(* threadRootID, called by CreateReply and by ThreadStream: one SELECT per *)
(* level; a missing row, an error and the depth limit end the climb.       *)

ClimbThread(w, o) ==
    /\ o # "lost"
    /\ depth[w] = MaxThreadDepth => o = "ok"    \* no SELECT is made
    /\ Statement(w, "root", o)
    /\ LET found == o = "ok" /\ depth[w] < MaxThreadDepth /\ Exists(root[w])
       IN  IF found /\ posts[root[w]].parent # 0
           THEN /\ root' = [root EXCEPT ![w] = posts[root[w]].parent]
                /\ depth' = [depth EXCEPT ![w] = @ + 1]
                /\ UNCHANGED pc
           ELSE /\ Goto(w, IF op[w] = "CreateReply" THEN "publish" ELSE "subscribe")
                /\ UNCHANGED <<root, depth>>
    /\ UNCHANGED <<tables, events, args, owner, newId, since>>

\* ThreadStream: from here the client gets the events of its key (module Hub).
SubscribeThread(w) ==
    /\ pc[w] = "subscribe"
    /\ since' = [since EXCEPT ![w] = Len(threadEvents)]
    /\ Goto(w, "streaming")
    /\ UNCHANGED <<tables, events, args, owner, newId, root, depth, clean, faults>>

StreamEnds(w) ==
    /\ pc[w] = "streaming"
    /\ Goto(w, "idle")
    /\ UNCHANGED <<tables, events, args, locals, clean, faults>>

-----------------------------------------------------------------------------
(* Repost and UnRepost, whose statements' errors are all ignored. *)

InsertRepost(w, o) ==
    /\ Statement(w, "insertRepost", o)
    /\ reposts' = IF o = "failed" THEN reposts ELSE reposts \cup {<<UserOf[w], target[w]>>}
    /\ Goto(w, "insertRepostPost")
    /\ UNCHANGED <<posts, nextId, written, likes, notes, events, args, locals>>

\* ON DUPLICATE KEY UPDATE has no effect: the only key of posts is id.
InsertRepostPost(w, o) ==
    /\ Statement(w, "insertRepostPost", o)
    /\ IF o = "failed" THEN UNCHANGED <<posts, written, nextId>>
       ELSE InsertRow([author |-> UserOf[w], parent |-> 0, original |-> target[w]])
    /\ Goto(w, "findOwner")
    /\ UNCHANGED <<reposts, likes, notes, events, args, locals>>

DeleteRepost(w, o) ==
    /\ Statement(w, "deleteRepost", o)
    /\ reposts' = IF o = "failed" THEN reposts ELSE reposts \ {<<UserOf[w], target[w]>>}
    /\ Goto(w, "deleteRepostPost")
    /\ UNCHANGED <<posts, nextId, written, likes, notes, events, args, locals>>

\* mutant: deletes one of the rows only
DeleteRepostPostOne(w, o) ==
    /\ Statement(w, "deleteRepostPost", o)
    /\ DeleteRows({i \in RepostRows(UserOf[w], target[w]) :
            o # "failed" /\ \A j \in RepostRows(UserOf[w], target[w]) : i <= j})
    /\ Goto(w, "count")
    /\ UNCHANGED <<nextId, written, reposts, likes, notes, events, args, locals>>

DeleteRepostPost(w, o) ==
    /\ Statement(w, "deleteRepostPost", o)
    /\ DeleteRows(IF o = "failed" THEN {} ELSE RepostRows(UserOf[w], target[w]))
    /\ Goto(w, "count")
    /\ UNCHANGED <<nextId, written, reposts, likes, notes, events, args, locals>>

-----------------------------------------------------------------------------
(* Like and Unlike. *)

InsertLike(w, o) ==
    /\ Statement(w, "insertLike", o)
    /\ likes' = IF o = "failed" THEN likes ELSE likes \cup {<<UserOf[w], target[w]>>}
    /\ Goto(w, "findOwner")
    /\ UNCHANGED <<posts, nextId, written, reposts, notes, events, args, locals>>

\* mutant: the WHERE clause forgets the user
DeleteLikeOfAll(w, o) ==
    /\ Statement(w, "deleteLike", o)
    /\ likes' = IF o = "failed" THEN likes ELSE {l \in likes : l[2] # target[w]}
    /\ Goto(w, "count")
    /\ UNCHANGED <<posts, nextId, written, reposts, notes, events, args, locals>>

DeleteLike(w, o) ==
    /\ Statement(w, "deleteLike", o)
    /\ likes' = IF o = "failed" THEN likes ELSE likes \ {<<UserOf[w], target[w]>>}
    /\ Goto(w, "count")
    /\ UNCHANGED <<posts, nextId, written, reposts, notes, events, args, locals>>

-----------------------------------------------------------------------------
(* Notifications of Like, Repost and CreateReply. *)

\* An unknown post, or an error, skips the notification.
FindOwner(w, o) ==
    /\ o # "lost"
    /\ Statement(w, "findOwner", o)
    /\ IF o = "ok" /\ Exists(target[w])
       THEN Goto(w, "notify") /\ owner' = [owner EXCEPT ![w] = posts[target[w]].author]
       ELSE Goto(w, "count") /\ UNCHANGED owner
    /\ UNCHANGED <<tables, events, args, newId, root, depth, since>>

NoteOf(w) ==
    [to |-> owner[w], actor |-> UserOf[w],
     type |-> CASE op[w] = "CreateReply" -> "reply"
                [] op[w] = "Repost" -> "repost"
                [] OTHER -> "like",
     post |-> IF op[w] = "CreateReply" THEN newId[w] ELSE target[w]]

AfterNote(w) == IF op[w] = "CreateReply" THEN "root" ELSE "count"

\* nobody is notified of what they did themselves
SkipNote(w) ==
    /\ pc[w] = "notify"
    /\ owner[w] = UserOf[w]
    /\ Goto(w, AfterNote(w))
    /\ UNCHANGED <<tables, events, args, locals, clean, faults>>

\* mutant: a failed INSERT is announced all the same
InsertNoteIgnoringError(w, o) ==
    /\ owner[w] # UserOf[w]
    /\ Statement(w, "notify", o)
    /\ notes' = IF o = "failed" THEN notes ELSE Append(notes, NoteOf(w))
    /\ Goto(w, "announce")
    /\ UNCHANGED <<posts, nextId, written, reposts, likes, events, args, locals>>

\* mutant: the check for one's own post is gone
InsertNoteToSelf(w, o) ==
    /\ Statement(w, "notify", o)
    /\ notes' = IF o = "failed" THEN notes ELSE Append(notes, NoteOf(w))
    /\ Goto(w, IF o = "ok" THEN "announce" ELSE AfterNote(w))
    /\ UNCHANGED <<posts, nextId, written, reposts, likes, events, args, locals>>

InsertNote(w, o) ==
    /\ owner[w] # UserOf[w]
    /\ Statement(w, "notify", o)
    /\ notes' = IF o = "failed" THEN notes ELSE Append(notes, NoteOf(w))
    /\ Goto(w, IF o = "ok" THEN "announce" ELSE AfterNote(w))
    /\ UNCHANGED <<posts, nextId, written, reposts, likes, events, args, locals>>

AnnounceNote(w) ==
    /\ pc[w] = "announce"
    /\ announced' = Append(announced, NoteOf(w))
    /\ Goto(w, AfterNote(w))
    /\ UNCHANGED <<tables, threadEvents, args, locals, clean, faults>>

\* The count is read, whatever it is, and the request is answered 200.
CountAndAnswer(w) ==
    /\ pc[w] = "count"
    /\ Goto(w, "idle")
    /\ UNCHANGED <<tables, events, args, locals, clean, faults>>

-----------------------------------------------------------------------------
Step(w) ==
    \/ \E o \in Outcomes :
        \/ InsertPost(w, o)
        \/ DeletePost(w, o)
        \/ FindParent(w, o)
        \/ InsertReply(w, o)
        \/ ClimbThread(w, o)
        \/ InsertRepost(w, o)
        \/ InsertRepostPost(w, o)
        \/ DeleteRepost(w, o)
        \/ DeleteRepostPost(w, o)
        \/ InsertLike(w, o)
        \/ DeleteLike(w, o)
        \/ FindOwner(w, o)
        \/ InsertNote(w, o)
    \/ PublishReply(w)
    \/ SubscribeThread(w)
    \/ SkipNote(w)
    \/ AnnounceNote(w)
    \/ CountAndAnswer(w)

\* every request the bound allows was made and answered
Finished ==
    /\ requests = MaxRequests
    /\ \A w \in Workers : pc[w] = "idle"
    /\ UNCHANGED vars

Next ==
    \/ \E w \in Workers :
        \/ \E o \in Ops, i \in PostIds : Request(w, o, i)
        \/ Step(w)
        \/ StreamEnds(w)
    \/ Finished

Spec == Init /\ [][Next]_vars

-----------------------------------------------------------------------------
(* Properties. *)

Idle == \A w \in Workers : pc[w] = "idle"

\* ids above i in its thread, by the rows as they were written
Ancestors[i \in OptId] ==
    IF i = 0 \/ written[i] = NoPost THEN {}
    ELSE IF written[i].parent = 0 THEN {}
    ELSE {written[i].parent} \cup Ancestors[written[i].parent]

TrueRoot(i) ==
    IF Ancestors[i] = {} THEN i ELSE CHOOSE r \in Ancestors[i] : Ancestors[r] = {}

\* reply.go:27-39, handler.go:155-199: a reply is written under an earlier post
\* only, so parents never form a cycle and every climb and every recursion over
\* replies ends by itself; that rests on the existence check and on ids not
\* being used again, whatever is deleted in between.
ThreadsAcyclic ==
    \A i \in PostIds : posts[i] # NoPost => posts[i].parent < i

\* post.go:211-213, repost.go:57-60: a row disappears only by a request of its
\* author, who deletes that post or takes back the repost of its original.
OnlyAuthorsDelete ==
    [][\A i \in PostIds : Exists(i) /\ ~Exists(i)' =>
        \E w \in Workers :
            /\ UserOf[w] = posts[i].author
            /\ \/ pc[w] = "deletePost" /\ target[w] = i
               \/ pc[w] = "deleteRepostPost" /\ target[w] = posts[i].original]_vars

\* reply.go:57-58, repost.go:31-36, like.go:61-67: a notification goes to the
\* author of the post replied to, reposted or liked, and to nobody else, also
\* when that post is deleted while the request runs, and never to its actor.
NotifiesTheAuthor ==
    \A n \in 1..Len(notes) :
        LET note == notes[n]
            about == IF note.type = "reply" THEN written[note.post].parent ELSE note.post
        IN  /\ note.to # note.actor
            /\ note.to = written[about].author
            /\ note.type = "reply" => note.actor = written[note.post].author

\* notification.go:149-161: no event without a stored notification, and when
\* no statement fails every stored notification is announced exactly once.
AnnouncedAsStored ==
    \A u \in Users :
        LET To(s) == Cardinality({n \in 1..Len(s) : s[n].to = u})
        IN  /\ To(announced) <= To(notes)
            /\ Idle /\ faults = 0 => To(announced) = To(notes)

\* api.md:36-37, stream.go:23-31: whichever post of a thread a client names, it
\* is subscribed to the key all replies of that thread are published under. Said
\* of streams whose own post is there still, and so was there when they climbed.
SameThreadSameKey ==
    \A w \in Workers : pc[w] = "streaming" /\ opened[w] /\ Exists(target[w]) =>
        \A e \in (since[w] + 1)..Len(threadEvents) :
            TrueRoot(threadEvents[e].post) = TrueRoot(target[w])
                <=> threadEvents[e].key = root[w]

\* stream.go:23-31, reply.go:60-61, handler.go:185-199: that is so as long as no post
\* was deleted, no statement failed and no thread is deeper than the climb.
ThreadReachesStreams ==
    /\ posts = written /\ faults = 0
    /\ \A i \in PostIds : Cardinality(Ancestors[i]) <= MaxThreadDepth
    => SameThreadSameKey

\* repost.go:18-29, 53-60: as long as no statement fails and a user sends no request
\* before the last one was answered, an idle user holds no repost row that the reposts
\* table does not have, and a row was written for each that it has (which the user may
\* have deleted as a post since).
RepostsPaired ==
    faults = 0 /\ (\A v, w \in Workers : UserOf[v] = UserOf[w] => v = w) =>
        \A w \in Workers : pc[w] = "idle" =>
            \A i \in PostIds :
                LET u == UserOf[w]
                IN  IF <<u, i>> \in reposts
                    THEN \E j \in PostIds : /\ written[j] # NoPost
                                            /\ written[j].author = u /\ written[j].original = i
                    ELSE RepostRows(u, i) = {}

\* like.go:51-74, 82-94, repost.go: a 200 to a request none of whose statements
\* failed is true when it is sent: no other user's request has undone it.
AnswersAreTrue ==
    [][\A w \in Workers :
        pc[w] = "count" /\ pc'[w] = "idle" /\ clean[w] =>
            LET row == <<UserOf[w], target[w]>>
            IN  CASE op[w] = "Like" -> row \in likes
                  [] op[w] = "Unlike" -> row \notin likes
                  [] op[w] = "Repost" ->
                        row \in reposts /\ RepostRows(UserOf[w], target[w]) # {}
                  [] op[w] = "UnRepost" ->
                        row \notin reposts /\ RepostRows(UserOf[w], target[w]) = {}]_vars

=============================================================================
