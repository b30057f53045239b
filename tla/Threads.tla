------------------------------ MODULE Threads ------------------------------
(***************************************************************************)
(* A client that follows a thread: it opens the thread's stream            *)
(* (ThreadStream) and, once the headers of the stream have come, loads the *)
(* thread (GetThread, fetchReplyTree in internal/handler/reply.go), while  *)
(* others reply (CreateReply) and delete (DeletePost).                     *)
(*                                                                         *)
(* This composes the tables of Posts with what the Threads hub promises,   *)
(* LossyBroadcast, which Hub implements.  Each SELECT is one step.  Counts *)
(* and authors of the posts shown are the matter of Loader, notifications  *)
(* and failing statements of the writers that of Posts.                    *)
(***************************************************************************)
EXTENDS Naturals, Sequences, FiniteSets, SequencesExt

CONSTANTS
    Writers,        \* goroutines of POST /replies
    Clients,        \* clients, each with a stream and a GET of the same post
    MaxPosts,       \* bound of the exploration: ids
    MaxDeletes,     \* bound of the exploration: posts deleted
    MaxFaults,      \* bound of the exploration: SELECTs of the clients that fail
    MaxThreadDepth, \* maxThreadDepth, 50 in the code
    NoKey           \* subscribed to nothing

Ids == 1..MaxPosts

ASSUME ThreadsAssumption ==
    /\ {MaxPosts, MaxThreadDepth} \subseteq Nat \ {0}
    /\ {MaxDeletes, MaxFaults} \subseteq Nat
    /\ NoKey \notin Ids

VARIABLES
    parent,    \* every post ever written: id |-> parent_post_id, 0 for NULL
    there,     \* the ids whose rows have not been deleted
    log, watching, since, \* the Threads hub (LossyBroadcast)
    replyOf,   \* the post each event of log carries
    writer,    \* CreateReply: its next statement and its locals
    client,    \* where each client is, and the locals of its request
    faults

hub == <<log, watching, since>>
vars == <<parent, there, hub, replyOf, writer, client, faults>>

Hub == INSTANCE LossyBroadcast WITH
    Keys <- Ids, Streams <- Clients,
    last <- [c \in Clients |-> 0], taken <- [c \in Clients |-> 0]

Resting == [pc |-> "idle", target |-> 1, id |-> 0, root |-> 1, depth |-> 0]

Offline ==
    [pc |-> "offline",
     post |-> 1,        \* postID of both requests
     root |-> 1,        \* threadRootID: current
     depth |-> 0,       \* depth of the climb
     astray |-> FALSE,  \* history: a failed SELECT ended the climb below its end
     ancestors |-> <<>>,
     todo |-> <<>>,     \* calls of fetchReplyTree and fetchPost not made yet
     tree |-> {},       \* posts shown: <<id, the post it hangs under>>
     failed |-> FALSE,  \* history: a SELECT of the GET failed
     kept |-> {},       \* history: rows there since the GET began
     seen |-> {}]       \* history: rows there at some time of the GET

Request ==
    [pc : {"idle", "insert", "root", "publish"}, target : Ids, id : 0..MaxPosts,
     root : Ids, depth : Nat]

\* A call of fetchReplyTree, or of fetchPost in its loop.
Task == [call : {"tree", "post"}, id : Ids, under : 0..MaxPosts, depth : Nat]

Reader ==
    [pc : {"offline", "root", "subscribe", "connected", "ancestors", "replies", "loaded"},
     post : Ids, root : Ids, depth : Nat, astray : BOOLEAN, ancestors : Seq(Ids),
     todo : Seq(Task), tree : SUBSET (Ids \X (0..MaxPosts)), failed : BOOLEAN,
     kept : SUBSET Ids, seen : SUBSET Ids]

TypeOK ==
    /\ parent \in Seq(0..MaxPosts) /\ Len(parent) <= MaxPosts
    /\ \A i \in DOMAIN parent : parent[i] \in 0..i - 1
    /\ there \subseteq DOMAIN parent
    /\ log \in Seq(Ids) /\ replyOf \in Seq(Ids) /\ Len(log) = Len(replyOf)
    /\ watching \in [Clients -> Ids \cup {NoKey}]
    /\ since \in [Clients -> Nat]
    /\ writer \in [Writers -> Request]
    /\ client \in [Clients -> Reader]
    /\ faults \in 0..MaxFaults

Init ==
    /\ parent = <<0>> /\ there = {1}
    /\ Hub!Init
    /\ replyOf = <<>>
    /\ writer = [w \in Writers |-> Resting]
    /\ client = [c \in Clients |-> Offline]
    /\ faults = 0

-----------------------------------------------------------------------------
(* Writers. *)

WriterAt(w, label) == writer[w].pc = label
Writer(w, state) == writer' = [writer EXCEPT ![w] = state]

Children(i) == {j \in there : parent[j] = i}

\* the table becomes rows, which the histories of requests in progress note
Tables(rows) ==
    /\ there' = rows
    /\ client' = [c \in Clients |->
        IF client[c].pc \in {"ancestors", "replies"}
        THEN [client[c] EXCEPT !.kept = @ \cap rows, !.seen = @ \cup rows]
        ELSE client[c]]

FindParent(w, i) ==
    /\ WriterAt(w, "idle") /\ i \in there /\ Len(parent) < MaxPosts
    /\ Writer(w, [Resting EXCEPT !.pc = "insert", !.target = i, !.root = i])
    /\ UNCHANGED <<parent, there, hub, replyOf, client, faults>>

InsertReply(w) ==
    /\ WriterAt(w, "insert") /\ Len(parent) < MaxPosts
    /\ parent' = Append(parent, writer[w].target)
    /\ Tables(there \cup {Len(parent) + 1})
    /\ Writer(w, [writer[w] EXCEPT !.pc = "root", !.id = Len(parent) + 1])
    /\ UNCHANGED <<hub, replyOf, faults>>

\* threadRootID: the next post above, or 0 when the climb ends
Above(at) ==
    IF at.depth < MaxThreadDepth /\ at.root \in there THEN parent[at.root] ELSE 0

ClimbReply(w) ==
    /\ WriterAt(w, "root")
    /\ Writer(w, IF Above(writer[w]) # 0
                 THEN [writer[w] EXCEPT !.root = Above(writer[w]), !.depth = @ + 1]
                 ELSE [writer[w] EXCEPT !.pc = "publish"])
    /\ UNCHANGED <<parent, there, hub, replyOf, client, faults>>

PublishReply(w) ==
    /\ WriterAt(w, "publish")
    /\ Hub!Publish(writer[w].root)
    /\ replyOf' = Append(replyOf, writer[w].id)
    /\ Writer(w, Resting)
    /\ UNCHANGED <<parent, there, client, faults>>

DeletePost(i) ==
    /\ Len(parent) - Cardinality(there) < MaxDeletes
    /\ Tables(there \ {i})
    /\ UNCHANGED <<parent, hub, replyOf, writer, faults>>

-----------------------------------------------------------------------------
(* The stream of a client. *)

At(c, label) == client[c].pc = label
Client(c, state) == client' = [client EXCEPT ![c] = state]

OpenStream(c, i) ==
    /\ At(c, "offline")
    /\ Client(c, [Offline EXCEPT !.pc = "root", !.post = i, !.root = i])
    /\ UNCHANGED <<parent, there, hub, replyOf, writer, faults>>

\* threadRootID: a SELECT that fails ends the climb with the post it has come to,
\* like one that finds no row or no parent; at the depth limit none is made.
ClimbStream(c) ==
    /\ At(c, "root")
    /\ LET above == Above(client[c])
       IN  \/ /\ Client(c, IF above # 0
                           THEN [client[c] EXCEPT !.root = above, !.depth = @ + 1]
                           ELSE [client[c] EXCEPT !.pc = "subscribe"])
              /\ UNCHANGED faults
           \/ /\ client[c].depth < MaxThreadDepth
              /\ faults < MaxFaults /\ faults' = faults + 1
              /\ Client(c, [client[c] EXCEPT !.pc = "subscribe", !.astray = (above # 0)])
    /\ UNCHANGED <<parent, there, hub, replyOf, writer>>

\* mutant: the headers are flushed before the stream subscribes
SubscribeAfterHeaders(c) ==
    \/ /\ At(c, "subscribe")
       /\ Client(c, [client[c] EXCEPT !.pc = "connected"])
       /\ UNCHANGED <<parent, there, hub, replyOf, writer, faults>>
    \/ /\ client[c].pc \in {"connected", "loaded"}
       /\ Hub!Join(c, client[c].root)
       /\ UNCHANGED <<parent, there, replyOf, writer, client, faults>>

\* The headers are flushed after Subscribe: a client that has them is subscribed.
SubscribeThread(c) ==
    /\ At(c, "subscribe")
    /\ Hub!Join(c, client[c].root)
    /\ Client(c, [client[c] EXCEPT !.pc = "connected"])
    /\ UNCHANGED <<parent, there, replyOf, writer, faults>>

\* The connection breaks and the client starts again.
Disconnect(c) ==
    /\ client[c].pc \in {"connected", "loaded"}
    /\ Hub!Leave(c)
    /\ Client(c, Offline)
    /\ UNCHANGED <<parent, there, replyOf, writer, faults>>

-----------------------------------------------------------------------------
(* GetThread. *)

Read(c, state) ==
    /\ Client(c, state)
    /\ UNCHANGED <<parent, there, hub, replyOf, writer, faults>>

\* A SELECT fails: the answer is 200 without what it would have shown.
ReadFails(c, state) ==
    /\ faults < MaxFaults /\ faults' = faults + 1
    /\ Client(c, [state EXCEPT !.failed = TRUE])
    /\ UNCHANGED <<parent, there, hub, replyOf, writer>>

\* fetchPost of the post asked for; a client that is answered 404 goes away
FetchThreadPost(c) ==
    /\ At(c, "connected")
    /\ client[c].post \in there
    /\ Read(c, [client[c] EXCEPT !.pc = "ancestors", !.depth = 0, !.kept = there, !.seen = there])

Oldest(c) == Head(Append(client[c].ancestors, client[c].post))

DescendFrom(c) ==
    [client[c] EXCEPT !.pc = "replies",
                      !.todo = <<[call |-> "tree", id |-> client[c].post, under |-> 0, depth |-> 0]>>]

FetchAncestor(c) ==
    /\ At(c, "ancestors")
    /\ LET above == parent[Oldest(c)]
           next == [client[c] EXCEPT !.depth = @ + 1, !.ancestors = <<above>> \o @]
       IN  IF above = 0 \/ client[c].depth = MaxThreadDepth
           THEN Read(c, DescendFrom(c))
           ELSE \/ Read(c, IF above \in there THEN next ELSE DescendFrom(c))
                \/ ReadFails(c, DescendFrom(c))

\* The depth-first recursion of fetchReplyTree: the call at the head of todo is
\* replaced by the calls it makes.
Calls(c, calls) == [client[c] EXCEPT !.todo = calls \o Tail(@)]

Call(c, name) ==
    At(c, "replies") /\ client[c].todo # <<>> /\ Head(client[c].todo).call = name

\* ORDER BY created_at ASC, id ASC
InOrder(ids) == {s \in SetToSeqs(ids) : \A m, n \in DOMAIN s : m < n => s[m] < s[n]}

Posts(t, ids) ==
    [n \in DOMAIN ids |-> [call |-> "post", id |-> ids[n], under |-> t.id, depth |-> t.depth + 1]]

FetchReplyTree(c) ==
    /\ Call(c, "tree")
    /\ LET t == Head(client[c].todo)
       IN  IF t.depth >= MaxThreadDepth THEN Read(c, Calls(c, <<>>))
           ELSE \/ \E ids \in InOrder(Children(t.id)) : Read(c, Calls(c, Posts(t, ids)))
                \/ ReadFails(c, Calls(c, <<>>))

\* mutant: a reply that vanished is passed over, but not its replies
FetchReplyPostVanished(c) ==
    /\ Call(c, "post")
    /\ LET t == Head(client[c].todo)
           next == Calls(c, <<[t EXCEPT !.call = "tree"]>>)
       IN  Read(c, IF t.id \in there
                   THEN [next EXCEPT !.tree = @ \cup {<<t.id, t.under>>}]
                   ELSE next)

FetchReplyPost(c) ==
    /\ Call(c, "post")
    /\ LET t == Head(client[c].todo)
           next == Calls(c, <<[t EXCEPT !.call = "tree"]>>)
       IN  \/ t.id \in there /\ Read(c, [next EXCEPT !.tree = @ \cup {<<t.id, t.under>>}])
           \/ t.id \notin there /\ Read(c, Calls(c, <<>>))
           \/ ReadFails(c, Calls(c, <<>>))

AnswerThread(c) ==
    /\ At(c, "replies") /\ client[c].todo = <<>>
    /\ Read(c, [client[c] EXCEPT !.pc = "loaded"])

-----------------------------------------------------------------------------
WriterStep(w) ==
    \/ \E i \in Ids : FindParent(w, i)
    \/ InsertReply(w) \/ ClimbReply(w) \/ PublishReply(w)

ClientStep(c) ==
    \/ \E i \in DOMAIN parent : OpenStream(c, i)
    \/ ClimbStream(c) \/ SubscribeThread(c) \/ Disconnect(c)
    \/ FetchThreadPost(c) \/ FetchAncestor(c) \/ FetchReplyTree(c)
    \/ FetchReplyPost(c) \/ AnswerThread(c)

Next ==
    \/ \E w \in Writers : WriterStep(w)
    \/ \E c \in Clients : ClientStep(c)
    \/ \E i \in there : DeletePost(i)

Spec == Init /\ [][Next]_vars

-----------------------------------------------------------------------------
(* Properties. *)

\* the posts from i up to the root of its thread, by the rows as written
Line[i \in 0..MaxPosts] ==
    IF i = 0 \/ i > Len(parent) THEN {} ELSE {i} \cup Line[parent[i]]

Shown(c) == {t[1] : t \in client[c].tree}

\* replies below the client's post that fetchReplyTree descends to
Below(c) ==
    {j \in DOMAIN parent : /\ client[c].post \in Line[j] \ {j}
                           /\ Cardinality(Line[j] \ Line[client[c].post]) <= MaxThreadDepth}

\* reply.go:66-102, 104-139: however replies and deletions fall between the
\* SELECTs, the tree hangs together and the ancestors are an unbroken chain
\* upwards.  Unless a SELECT failed, the tree holds every reply that was there
\* all the time under posts that were, and the chain ends at a root, at a deleted
\* post or at the depth limit.
ThreadShown ==
    \A c \in Clients : At(c, "loaded") =>
        LET st == client[c]
            chain == Append(st.ancestors, st.post)
        IN  /\ \A t \in st.tree :
                /\ parent[t[1]] = t[2] /\ t[1] \in st.seen
                /\ t[2] \in Shown(c) \cup {st.post}
            /\ \A n \in 1..Len(chain) - 1 : parent[chain[n + 1]] = chain[n]
            /\ st.failed
               \/ /\ \A j \in Below(c) :
                       Line[j] \ Line[st.post] \subseteq st.kept => j \in Shown(c)
                  /\ \/ parent[Head(chain)] \notin st.kept
                     \/ Len(st.ancestors) = MaxThreadDepth

\* stream.go:29-31, 41-46, reply.go:41-61: a client that loads the thread once its
\* stream has begun misses no reply: one that is not in the tree was or will be
\* published on the key the client watches, since it joined.  That holds below
\* posts none of which was deleted, if no SELECT of the GET failed and none that
\* failed ended the climb to the key early: neither is told to the client.
NothingMissed ==
    \A c \in Clients : At(c, "loaded") /\ ~client[c].failed /\ ~client[c].astray =>
        \A j \in Below(c) : Line[j] \subseteq there /\ Cardinality(Line[j]) <= MaxThreadDepth + 1 =>
            \/ j \in Shown(c)
            \/ \E e \in since[c] + 1..Len(log) : replyOf[e] = j /\ log[e] = watching[c]
            \/ \E w \in Writers : writer[w].id = j
=============================================================================
