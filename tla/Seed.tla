-------------------------------- MODULE Seed --------------------------------
(***************************************************************************)
(* The program that fills the database with sample data (seed/main.go)     *)
(* while the api serves: batch after batch, each a statement that takes    *)
(* effect as a whole, between which the requests of others write.  The     *)
(* first error ends the program (log.Fatal), and it may be run again.      *)
(* Texts and the texts' draws are left out; a draw of a row that the       *)
(* program has drawn before is repeated, so a batch is a set of new draws. *)
(***************************************************************************)
EXTENDS Integers, FiniteSetsExt, SequencesExt

CONSTANTS
    NumUsers, NumPosts,
    Rows,          \* how many rows of the other tables, by name
    BatchSize,     \* 1000 in the code
    MaxFanout,     \* replies to a post that has some, 4 in the code
    MaxReplyDepth, \* maxReplyDepth, 6 in the code
    MaxUsers, MaxPosts, MaxWrites, MaxRuns \* bounds of the exploration

Drawn == {"follows", "likes", "reposts", "footprints", "notifications"}

ASSUME SeedAssumption ==
    /\ {NumUsers, NumPosts, BatchSize, MaxFanout} \subseteq Nat \ {0}
    /\ Rows \in [Drawn -> Nat]
    /\ {MaxReplyDepth, MaxUsers, MaxPosts, MaxWrites} \subseteq Nat /\ MaxRuns \in Nat \ {0}
    /\ Rows["follows"] <= NumUsers * (NumUsers - 1)
    /\ Rows["likes"] <= NumUsers * NumPosts /\ Rows["reposts"] <= NumUsers * NumPosts
    /\ NumUsers >= 2

VARIABLES
    users,  \* table users: id |-> its number among the seed's names, or 0
    posts,  \* table posts: id |-> [author, parent (0: NULL), seeded]
    tables, \* the other tables: name |-> set of pairs of ids
    told,   \* reply notifications: id of the reply |-> how many there are
    nextUser, nextPost,
    seed,   \* the program
    writes, runs

database == <<users, posts, tables, told, nextUser, nextPost>>
vars == <<database, seed, writes, runs>>

\* The stages in their order; replies follow on parents (DrawTargets), until follows.
After ==
    [users |-> "posts", posts |-> "parents", follows |-> "likes", likes |-> "reposts",
     reposts |-> "footprints", footprints |-> "notifications",
     notifications |-> "replyNotifications"]

Stages == DOMAIN After \cup {"parents", "replies", "replyNotifications", "done", "failed"}

\* A table with the rows of new added.
With(table, new) ==
    [id \in DOMAIN table \cup DOMAIN new |-> IF id \in DOMAIN table THEN table[id] ELSE new[id]]

\* The names of the seed that are taken.
Names == {users[u] : u \in DOMAIN users} \ {0}

Started ==
    [stage |-> "users",
     inserted |-> 0,
     userIDs |-> {}, postIDs |-> {},
     depth |-> 1,      \* insertReplies
     targets |-> <<>>, \* insertReplyBatch: posts still to be replied to
     created |-> {},   \* insertReplyBatch: ids
     seen |-> {},      \* insertFollows, insertLikes, insertReposts: seen
     again |-> Names # {}] \* history: seeded names were taken

Init ==
    /\ users = <<>> /\ posts = <<>> /\ told = <<>>
    /\ tables = [t \in Drawn |-> {}]
    /\ nextUser = 1 /\ nextPost = 1
    /\ seed = Started
    /\ writes = 0 /\ runs = 1

\* Whom a row is about and who did it: not the same user.
Others == {p \in (DOMAIN users) \X (DOMAIN users) : p[1] # p[2]}

TypeOK ==
    /\ DOMAIN users = 1..nextUser - 1 /\ Names \subseteq 1..NumUsers
    /\ DOMAIN posts \subseteq 1..nextPost - 1 /\ DOMAIN told \subseteq 1..nextPost - 1
    /\ \A p \in DOMAIN posts : posts[p].author \in DOMAIN users /\ posts[p].parent \in 0..p - 1
    /\ \A t \in {"follows", "footprints", "notifications"} : tables[t] \subseteq Others
    /\ \A t \in {"likes", "reposts"} : tables[t] \subseteq (DOMAIN users) \X (1..nextPost - 1)
    /\ seed.stage \in Stages
    /\ seed.depth \in 1..MaxReplyDepth + 1
    /\ writes \in 0..MaxWrites /\ runs \in 1..MaxRuns

-----------------------------------------------------------------------------
(* The steps of the program. *)

Small(m, n) == IF m < n THEN m ELSE n

\* The rows of the next batch of n.
BatchOf(n) == Small(BatchSize, n - seed.inserted)

\* The program ends, and its variables with it.
End(stage) == seed' = [Started EXCEPT !.stage = stage, !.again = seed.again]

Ended == seed.stage \in {"done", "failed"}

\* LastInsertId is the id of the first row; those of a statement are consecutive.
IdsFrom(first, n) == first..first + n - 1

\* What the stage becomes once n rows of it are there.
Advance(local, n) ==
    IF local.inserted < n THEN local
    ELSE [local EXCEPT !.stage = After[@], !.inserted = 0, !.seen = {}]

\* mutant: INSERT IGNORE, which leaves out the users whose names are taken
InsertUsersIgnore ==
    /\ seed.stage = "users"
    /\ LET n == BatchOf(NumUsers)
           names == {seed.inserted + k : k \in 1..n} \ Names
           ids == nextUser..nextUser + Cardinality(names) - 1
       IN  /\ users' = With(users, [u \in ids |-> SetToSortSeq(names, <)[u - nextUser + 1]])
           /\ nextUser' = nextUser + Cardinality(names)
           /\ seed' = Advance([seed EXCEPT !.inserted = @ + n, !.userIDs = @ \cup ids], NumUsers)
    /\ UNCHANGED <<posts, tables, told, nextPost, writes, runs>>

\* A name that is taken fails the statement, and the program.
InsertUsers ==
    /\ seed.stage = "users"
    /\ LET n == BatchOf(NumUsers)
           ids == IdsFrom(nextUser, n)
       IN  IF Names \cap (seed.inserted + 1..seed.inserted + n) # {}
           THEN End("failed") /\ UNCHANGED <<users, nextUser>>
           ELSE /\ users' = With(users, [u \in ids |-> seed.inserted + u - nextUser + 1])
                /\ nextUser' = nextUser + n
                /\ seed' = Advance([seed EXCEPT !.inserted = @ + n,
                                    !.userIDs = @ \cup ids], NumUsers)
    /\ UNCHANGED <<posts, tables, told, nextPost, writes, runs>>

\* INSERT INTO posts of rows with these parents, by users drawn
InsertRows(parents) ==
    LET ids == nextPost..nextPost + Len(parents) - 1
    IN  /\ \E author \in [ids -> seed.userIDs] :
            posts' = With(posts, [p \in ids |-> [author |-> author[p], seeded |-> TRUE,
                                                 parent |-> parents[p - nextPost + 1]]])
        /\ nextPost' = nextPost + Len(parents)
        /\ UNCHANGED <<users, tables, told, nextUser, writes, runs>>

InsertPosts ==
    /\ seed.stage = "posts"
    /\ LET n == BatchOf(NumPosts)
       IN  /\ InsertRows([k \in 1..n |-> 0])
           /\ seed' = Advance([seed EXCEPT !.inserted = @ + n,
                               !.postIDs = @ \cup IdsFrom(nextPost, n)], NumPosts)

\* The posts that get replies, and how many each gets; the next depth draws from
\* the replies of this one.
DrawTargets(from, depth) ==
    \E parents \in SUBSET from :
        IF parents = {} \/ depth > MaxReplyDepth
        THEN seed' = [seed EXCEPT !.stage = "follows", !.created = {}, !.depth = 1]
        ELSE \E n \in 1..MaxFanout * Cardinality(parents) : \E targets \in [1..n -> parents] :
            /\ \A k \in 2..n : targets[k - 1] <= targets[k]
            /\ \A p \in parents : Cardinality({k \in 1..n : targets[k] = p}) \in 1..MaxFanout
            /\ seed' = [seed EXCEPT !.stage = "replies", !.created = {}, !.depth = depth,
                        !.targets = targets]

DrawParents ==
    /\ seed.stage = "parents"
    /\ DrawTargets(seed.postIDs, 1)
    /\ UNCHANGED <<database, writes, runs>>

\* insertReplyBatch.  A parent that was deleted is replied to all the same.
InsertReplies ==
    /\ seed.stage = "replies" /\ seed.targets # <<>>
    /\ LET n == Small(BatchSize, Len(seed.targets))
       IN  /\ InsertRows(SubSeq(seed.targets, 1, n))
           /\ seed' = [seed EXCEPT !.targets = SubSeq(@, n + 1, Len(@)),
                       !.created = @ \cup IdsFrom(nextPost, n)]

NextDepth ==
    /\ seed.stage = "replies" /\ seed.targets = <<>>
    /\ DrawTargets(seed.created, seed.depth + 1)
    /\ UNCHANGED <<database, writes, runs>>

\* What a table's rows are drawn from.
Pairs(table) ==
    IF table \in {"likes", "reposts"} THEN seed.userIDs \X seed.postIDs
    ELSE {p \in seed.userIDs \X seed.userIDs : p[1] # p[2]}

\* mutant: counts the rows that were new to the table
InsertPairsByEffect(table) ==
    /\ seed.stage = table /\ table \in {"follows", "likes", "reposts"}
    /\ \E drawn \in kSubset(BatchOf(Rows[table]), Pairs(table) \ seed.seen) :
        /\ tables' = [tables EXCEPT ![table] = @ \cup drawn]
        /\ seed' = Advance([seed EXCEPT !.seen = @ \cup drawn,
                            !.inserted = @ + Cardinality(drawn \ tables[table])], Rows[table])
    /\ UNCHANGED <<users, posts, told, nextUser, nextPost, writes, runs>>

\* Rows the program has not drawn yet; ON DUPLICATE KEY UPDATE accepts those that
\* others inserted.
InsertPairs(table) ==
    /\ seed.stage = table /\ table \in {"follows", "likes", "reposts"}
    /\ \E drawn \in kSubset(BatchOf(Rows[table]), Pairs(table) \ seed.seen) :
        /\ tables' = [tables EXCEPT ![table] = @ \cup drawn]
        /\ seed' = Advance([seed EXCEPT !.seen = @ \cup drawn,
                            !.inserted = @ + Cardinality(drawn)], Rows[table])
    /\ UNCHANGED <<users, posts, told, nextUser, nextPost, writes, runs>>

\* The rows may be equal.  The posts of notifications are left out.
InsertRecords(table) ==
    /\ seed.stage = table /\ table \in {"footprints", "notifications"}
    /\ \E drawn \in [1..BatchOf(Rows[table]) -> Pairs(table)] :
        /\ tables' = [tables EXCEPT ![table] = @ \cup Range(drawn)]
        /\ seed' = Advance([seed EXCEPT !.inserted = @ + Len(drawn)], Rows[table])
    /\ UNCHANGED <<users, posts, told, nextUser, nextPost, writes, runs>>

\* mutant: without parent.user_id <> child.user_id
ToNotifyAll == {p \in DOMAIN posts : posts[p].parent \in DOMAIN posts}

\* The replies to others of which the parent is there.
ToNotify ==
    {p \in DOMAIN posts : posts[p].parent \in DOMAIN posts
                          /\ posts[posts[p].parent].author # posts[p].author}

\* INSERT INTO notifications ... SELECT: of every reply, also those of others.
InsertReplyNotifications ==
    /\ seed.stage = "replyNotifications"
    /\ told' = With([p \in ToNotify |-> IF p \in DOMAIN told THEN told[p] + 1 ELSE 1], told)
    /\ End("done")
    /\ UNCHANGED <<users, posts, tables, nextUser, nextPost, writes, runs>>

\* log.Fatal: a statement failed, or the program was stopped
Fails ==
    /\ ~Ended
    /\ End("failed")
    /\ UNCHANGED <<database, writes, runs>>

Run ==
    /\ Ended /\ runs < MaxRuns /\ runs' = runs + 1
    /\ seed' = Started
    /\ UNCHANGED <<database, writes>>

SeedStep ==
    \/ InsertUsers \/ InsertPosts \/ DrawParents \/ InsertReplies \/ NextDepth
    \/ \E table \in Drawn : InsertPairs(table) \/ InsertRecords(table)
    \/ InsertReplyNotifications

-----------------------------------------------------------------------------
(* The requests of others: one can also log in as a user of the seed. *)

Write == writes < MaxWrites /\ writes' = writes + 1 /\ UNCHANGED <<seed, runs>>

\* The name may be one of the seed's.
Register ==
    /\ nextUser <= MaxUsers
    /\ \E name \in 0..NumUsers \ Names : users' = With(users, [u \in {nextUser} |-> name])
    /\ nextUser' = nextUser + 1
    /\ Write /\ UNCHANGED <<posts, tables, told, nextPost>>

\* CreatePost, and CreateReply with its notification
Publish ==
    /\ nextPost <= MaxPosts
    /\ \E u \in DOMAIN users, parent \in {0} \cup DOMAIN posts :
        /\ posts' = With(posts, [p \in {nextPost} |->
                                    [author |-> u, parent |-> parent, seeded |-> FALSE]])
        /\ told' = IF parent # 0 /\ posts[parent].author # u
                   THEN With(told, [p \in {nextPost} |-> 1]) ELSE told
    /\ nextPost' = nextPost + 1
    /\ Write /\ UNCHANGED <<users, tables, nextUser>>

DeletePost ==
    /\ \E p \in DOMAIN posts : posts' = [q \in DOMAIN posts \ {p} |-> posts[q]]
    /\ Write /\ UNCHANGED <<users, tables, told, nextUser, nextPost>>

\* Follow, Like
Mark ==
    /\ \/ \E p \in Others : tables' = [tables EXCEPT !["follows"] = @ \cup {p}]
       \/ \E p \in (DOMAIN users) \X (DOMAIN posts) :
            tables' = [tables EXCEPT !["likes"] = @ \cup {p}]
    /\ Write /\ UNCHANGED <<users, posts, told, nextUser, nextPost>>

Next == SeedStep \/ Fails \/ Run \/ Register \/ Publish \/ DeletePost \/ Mark

Spec == Init /\ [][Next]_vars

\* The program runs; a row that was not drawn yet is drawn in the end.
FairSpec == Spec /\ WF_vars(SeedStep)
-----------------------------------------------------------------------------
(* Properties. *)

\* main.go:151-155, 166-168: where a name of the seed is taken, by an earlier run or by
\* another user, a run ends before it inserts anything that refers to its users.
RerunStops == seed.again => seed.stage \in {"users", "failed"}

\* main.go:265-276: after a complete run each of its replies has been notified once, to
\* the author of a parent that is still there, and nobody of a reply to oneself.
RepliesNotified ==
    seed.stage = "done" =>
        \A p \in DOMAIN posts : posts[p].seeded /\ posts[p].parent \in DOMAIN posts =>
            IF posts[posts[p].parent].author # posts[p].author THEN p \in DOMAIN told /\ told[p] = 1
            ELSE p \notin DOMAIN told

\* main.go:346-379, 239-259: the loops that draw until they have enough rows come to an
\* end, although others insert the same rows.
SeedEnds == []<>Ended
=============================================================================
