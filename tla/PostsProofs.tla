---------------------------- MODULE PostsProofs ----------------------------
(* Proofs about Posts, for any accounts, workers, initial posts and bounds. *)
EXTENDS Posts, FiniteSetTheorems, WellFoundedInduction, TLAPS

(* A row, while it exists, is what was inserted under its id; ids below     *)
(* nextId were inserted once and no other was; parents are earlier ids.     *)
RowsInv ==
    /\ \A i \in PostIds : posts[i] # NoPost => posts[i] = written[i]
    /\ \A i \in PostIds : written[i] # NoPost <=> i < nextId
    /\ \A i \in PostIds : written[i] # NoPost => written[i].parent < i

(* What a worker has read stays true of the rows as they were written, also *)
(* when other requests delete them before the worker uses it.               *)
WorkerInv ==
    \A w \in Workers :
        /\ pc[w] = "findOwner" => op[w] # "CreateReply"
        /\ pc[w] \in {"insertRepost", "insertRepostPost", "insertLike"} =>
                op[w] # "CreateReply"
        /\ pc[w] \in {"insertReply", "notify", "announce"} =>
                /\ written[target[w]] # NoPost
                /\ owner[w] = written[target[w]].author
        /\ pc[w] \in {"notify", "announce"} /\ op[w] = "CreateReply" =>
                /\ newId[w] # 0
                /\ written[newId[w]] # NoPost
                /\ written[newId[w]].parent = target[w]
                /\ written[newId[w]].author = UserOf[w]
        /\ pc[w] = "announce" => owner[w] # UserOf[w]
        /\ pc[w] = "publish" \/ (pc[w] = "root" /\ op[w] = "CreateReply") => newId[w] # 0

NotesInv ==
    \A n \in 1..Len(notes) :
        LET note == notes[n]
        IN  /\ note.to # note.actor
            /\ written[note.post] # NoPost
            /\ note.type # "reply" => note.to = written[note.post].author
            /\ note.type = "reply" =>
                /\ note.actor = written[note.post].author
                /\ written[note.post].parent # 0
                /\ written[written[note.post].parent] # NoPost
                /\ note.to = written[written[note.post].parent].author

IInv == TypeOK /\ RowsInv /\ WorkerInv /\ NotesInv

-----------------------------------------------------------------------------
(* Inserting a row touches no row written before. *)
LEMMA InsertKeepsRows ==
    ASSUME TypeOK, RowsInv, NEW row \in Row, row.parent < nextId, InsertRow(row)
    PROVE  /\ posts' \in [PostIds -> Row \cup {NoPost}]
           /\ written' \in [PostIds -> Row \cup {NoPost}]
           /\ nextId \in PostIds
           /\ nextId' \in 1..(MaxPosts + 1)
           /\ RowsInv'
           /\ written'[nextId] = row
           /\ \A i \in PostIds : written[i] # NoPost => written'[i] = written[i]
<1>1. nextId \in PostIds /\ nextId' = nextId + 1
    BY PostsAssumption DEF TypeOK, InsertRow, PostIds
<1>2. posts' = [posts EXCEPT ![nextId] = row] /\ written' = [written EXCEPT ![nextId] = row]
    BY DEF InsertRow
<1>3. row # NoPost
    BY PostsAssumption
<1>4. \A i \in PostIds : i \in Nat
    BY PostsAssumption DEF PostIds
<1>5. QED
    BY <1>1, <1>2, <1>3, <1>4, PostsAssumption DEF TypeOK, RowsInv, PostIds

LEMMA DeleteKeepsRows ==
    ASSUME TypeOK, RowsInv, NEW ids, DeleteRows(ids), UNCHANGED <<written, nextId>>
    PROVE  posts' \in [PostIds -> Row \cup {NoPost}] /\ RowsInv'
BY DEF TypeOK, RowsInv, DeleteRows

-----------------------------------------------------------------------------
(* The columns of an existing row. *)
LEMMA Columns ==
    ASSUME TypeOK, NEW i \in PostIds, posts[i] # NoPost
    PROVE  posts[i].author \in Users /\ posts[i].parent \in OptId /\ posts[i].original \in OptId
<1>1. posts[i] \in Row
    BY DEF TypeOK
<1>2. QED
    BY <1>1 DEF Row

LEMMA StatementTypes ==
    ASSUME TypeOK, NEW w \in Workers, NEW label, NEW o, Statement(w, label, o)
    PROVE  faults' \in 0..MaxFaults /\ clean' \in [Workers -> BOOLEAN]
<1>1. faults' \in 0..MaxFaults
    BY PostsAssumption DEF TypeOK, Statement
<1>2. clean' \in [Workers -> BOOLEAN]
    BY DEF TypeOK, Statement
<1>3. QED
    BY <1>1, <1>2

(* A note is built from an owner and ids that were found. *)
LEMMA NoteOfType ==
    ASSUME TypeOK, NEW w \in Workers, owner[w] # NoUser,
           op[w] = "CreateReply" => newId[w] # 0
    PROVE  NoteOf(w) \in Note
<1>1. owner[w] \in Users /\ UserOf[w] \in Users /\ target[w] \in PostIds
    BY PostsAssumption DEF TypeOK
<1>2. op[w] = "CreateReply" => newId[w] \in PostIds
    BY DEF TypeOK, OptId, PostIds
<1>3. QED
    BY <1>1, <1>2 DEF NoteOf, Note

LEMMA InitIInv == Init => IInv
<1> SUFFICES ASSUME Init PROVE IInv
    OBVIOUS
<1>1. /\ MaxPosts \in Nat /\ Len(SeedPosts) \in Nat /\ Len(SeedPosts) <= MaxPosts
      /\ \A i \in 1..Len(SeedPosts) : SeedPosts[i] \in Row
    BY PostsAssumption, SeedAssumption
<1>2. posts \in [PostIds -> Row \cup {NoPost}]
    BY <1>1 DEF Init, PostIds
<1>3. reposts \subseteq Users \X PostIds
    <2>1. ASSUME NEW i \in {j \in 1..Len(SeedPosts) : SeedPosts[j].original # 0}
          PROVE  <<posts[i].author, posts[i].original>> \in Users \X PostIds
        <3>1. i \in PostIds /\ posts[i] = SeedPosts[i] /\ SeedPosts[i] \in Row
            BY <1>1 DEF Init, PostIds
        <3>2. QED
            BY <3>1 DEF Row, OptId, PostIds
    <2>2. QED
        BY <2>1 DEF Init
<1>4. TypeOK
    BY <1>1, <1>2, <1>3, PostsAssumption, SeedAssumption
    DEF Init, TypeOK, PostIds, OptId, AllOps, Labels
<1>5. RowsInv
    BY <1>1, <1>2, PostsAssumption, SeedAssumption DEF Init, RowsInv, PostIds
<1>6. WorkerInv /\ NotesInv
    BY DEF Init, WorkerInv, NotesInv
<1>7. QED
    BY <1>4, <1>5, <1>6 DEF IInv

(* Steps that change no table. *)
LEMMA LocalSteps ==
    ASSUME IInv, NEW w \in Workers,
           \/ \E o \in Ops, i \in PostIds : Request(w, o, i)
           \/ \E o \in Outcomes :
                FindParent(w, o) \/ ClimbThread(w, o) \/ FindOwner(w, o)
           \/ PublishReply(w) \/ SubscribeThread(w) \/ StreamEnds(w)
           \/ SkipNote(w) \/ AnnounceNote(w) \/ CountAndAnswer(w)
    PROVE  IInv'
<1> USE PostsAssumption DEF IInv, TypeOK, tables, events, args, locals, Goto
<1>1. UNCHANGED tables
    BY DEF Request, FindParent, ClimbThread, FindOwner, PublishReply, SubscribeThread,
        StreamEnds, SkipNote, AnnounceNote, CountAndAnswer
<1>2. RowsInv' /\ NotesInv'
    BY <1>1 DEF RowsInv, NotesInv
<1>3. PostIds \subseteq OptId /\ 0 \notin PostIds
    BY DEF PostIds, OptId
<1>4. ASSUME NEW o \in Ops, NEW i \in PostIds, Request(w, o, i)
      PROVE  TypeOK' /\ WorkerInv'
    <2>1. TypeOK'
        <3>1. /\ op' \in [Workers -> AllOps] /\ pc' \in [Workers -> Labels]
            BY <1>4 DEF Request, FirstLabel, AllOps, Labels
        <3>2. requests' \in 0..MaxRequests
            BY <1>4 DEF Request
        <3>3. /\ target' \in [Workers -> PostIds] /\ root' \in [Workers -> PostIds]
              /\ opened' \in [Workers -> BOOLEAN] /\ clean' \in [Workers -> BOOLEAN]
              /\ owner' \in [Workers -> Users \cup {NoUser}]
              /\ newId' \in [Workers -> OptId] /\ since' \in [Workers -> Nat]
              /\ depth' \in [Workers -> 0..MaxThreadDepth]
            BY <1>4 DEF Request, OptId
        <3>4. QED
            BY <1>1, <1>4, <3>1, <3>2, <3>3 DEF Request
    <2>2. WorkerInv'
        BY <1>4, <1>1, <1>3 DEF Request, FirstLabel, Labels, AllOps, Exists, WorkerInv, RowsInv
    <2>3. QED
        BY <2>1, <2>2
<1>5. ASSUME NEW o \in Outcomes, FindParent(w, o)
      PROVE  TypeOK' /\ WorkerInv'
    <2>1. TypeOK'
        <3>1. faults' \in 0..MaxFaults /\ clean' \in [Workers -> BOOLEAN]
            BY <1>5, StatementTypes DEF FindParent
        <3>2. pc' \in [Workers -> Labels]
            BY <1>5 DEF FindParent, Labels
        <3>3. owner' \in [Workers -> Users \cup {NoUser}]
            BY <1>5, Columns DEF FindParent, Exists
        <3>4. QED
            BY <1>1, <1>5, <3>1, <3>2, <3>3 DEF FindParent
    <2>2. WorkerInv'
        BY <1>5, <1>1, <1>3 DEF FindParent, Statement, Labels, AllOps, Exists, WorkerInv, RowsInv
    <2>3. QED
        BY <2>1, <2>2
<1>6. ASSUME NEW o \in Outcomes, ClimbThread(w, o)
      PROVE  TypeOK' /\ WorkerInv'
    <2>1. TypeOK'
        <3>1. faults' \in 0..MaxFaults /\ clean' \in [Workers -> BOOLEAN]
            BY <1>6, StatementTypes DEF ClimbThread
        <3>2. pc' \in [Workers -> Labels]
            BY <1>6 DEF ClimbThread, Labels
        <3>3. root' \in [Workers -> PostIds]
            <4>1. CASE Exists(root[w]) /\ posts[root[w]].parent # 0
                <5>1. posts[root[w]].parent \in PostIds
                    BY SMTT(30), <4>1, Columns DEF Exists, OptId, PostIds
                <5>2. QED
                    BY <1>6, <5>1 DEF ClimbThread
            <4>2. CASE ~(Exists(root[w]) /\ posts[root[w]].parent # 0)
                BY <1>6, <4>2 DEF ClimbThread
            <4>3. QED
                BY <4>1, <4>2
        <3>4. depth' \in [Workers -> 0..MaxThreadDepth]
            BY <1>6 DEF ClimbThread
        <3>5. QED
            BY <1>1, <1>6, <3>1, <3>2, <3>3, <3>4 DEF ClimbThread
    <2>2. WorkerInv'
        BY <1>6, <1>1, <1>3 DEF ClimbThread, Statement, Labels, AllOps, Exists, WorkerInv, RowsInv
    <2>3. QED
        BY <2>1, <2>2
<1>7. ASSUME NEW o \in Outcomes, FindOwner(w, o)
      PROVE  TypeOK' /\ WorkerInv'
    <2>1. TypeOK'
        <3>1. faults' \in 0..MaxFaults /\ clean' \in [Workers -> BOOLEAN]
            BY <1>7, StatementTypes DEF FindOwner
        <3>2. pc' \in [Workers -> Labels]
            BY <1>7 DEF FindOwner, Labels
        <3>3. owner' \in [Workers -> Users \cup {NoUser}]
            <4>1. CASE o = "ok" /\ Exists(target[w])
                <5>1. posts[target[w]].author \in Users
                    BY <4>1, Columns DEF Exists
                <5>2. QED
                    BY <1>7, <4>1, <5>1 DEF FindOwner
            <4>2. CASE ~(o = "ok" /\ Exists(target[w]))
                BY <1>7, <4>2 DEF FindOwner
            <4>3. QED
                BY <4>1, <4>2
        <3>4. QED
            BY <1>1, <1>7, <3>1, <3>2, <3>3 DEF FindOwner
    <2>2. WorkerInv'
        BY <1>7, <1>1, <1>3 DEF FindOwner, Statement, Labels, AllOps, Exists, WorkerInv, RowsInv
    <2>3. QED
        BY <2>1, <2>2
<1>8. ASSUME PublishReply(w)
      PROVE  TypeOK' /\ WorkerInv'
    <2>1. TypeOK'
        <3>1. newId[w] \in PostIds
            BY <1>8 DEF PublishReply, WorkerInv, OptId, PostIds
        <3>2. threadEvents' \in Seq([key : PostIds, post : PostIds])
            BY <1>8, <3>1 DEF PublishReply
        <3>3. QED
            BY <1>1, <1>8, <3>2 DEF PublishReply, Labels
    <2>2. WorkerInv'
        BY <1>8, <1>1, <1>3 DEF PublishReply, Labels, AllOps, Exists, WorkerInv, RowsInv
    <2>3. QED
        BY <2>1, <2>2
<1>9. ASSUME SubscribeThread(w)
      PROVE  TypeOK' /\ WorkerInv'
    <2>1. TypeOK'
        BY <1>9, <1>1, <1>3 DEF SubscribeThread, Labels, AllOps, Exists, Row
    <2>2. WorkerInv'
        BY <1>9, <1>1, <1>3 DEF SubscribeThread, Labels, AllOps, Exists, WorkerInv, RowsInv
    <2>3. QED
        BY <2>1, <2>2
<1>10. ASSUME StreamEnds(w)
      PROVE  TypeOK' /\ WorkerInv'
    <2>1. TypeOK'
        BY <1>10, <1>1, <1>3 DEF StreamEnds, Labels, AllOps, Exists, Row
    <2>2. WorkerInv'
        BY <1>10, <1>1, <1>3 DEF StreamEnds, Labels, AllOps, Exists, WorkerInv, RowsInv
    <2>3. QED
        BY <2>1, <2>2
<1>11. ASSUME SkipNote(w)
      PROVE  TypeOK' /\ WorkerInv'
    <2>1. TypeOK'
        BY <1>11, <1>1, <1>3 DEF SkipNote, AfterNote, Labels, AllOps, Exists, Row
    <2>2. WorkerInv'
        BY <1>11, <1>1, <1>3 DEF SkipNote, AfterNote, Labels, AllOps, Exists, WorkerInv, RowsInv
    <2>3. QED
        BY <2>1, <2>2
<1>12. ASSUME AnnounceNote(w)
      PROVE  TypeOK' /\ WorkerInv'
    <2>1. TypeOK'
        <3>1. target[w] \in PostIds /\ written[target[w]] # NoPost /\ owner[w] = written[target[w]].author
            BY <1>12 DEF AnnounceNote, WorkerInv
        <3>2. owner[w] # NoUser
            BY <3>1 DEF Row
        <3>3. NoteOf(w) \in Note
            BY <1>12, <3>2, NoteOfType DEF AnnounceNote, WorkerInv
        <3>4. announced' \in Seq(Note)
            BY <1>12, <3>3 DEF AnnounceNote
        <3>5. QED
            BY <1>1, <1>12, <3>4 DEF AnnounceNote, AfterNote, Labels
    <2>2. WorkerInv'
        BY <1>12, <1>1, <1>3 DEF AnnounceNote, AfterNote, NoteOf, Labels, AllOps, Exists, WorkerInv, RowsInv
    <2>3. QED
        BY <2>1, <2>2
<1>13. ASSUME CountAndAnswer(w)
      PROVE  TypeOK' /\ WorkerInv'
    <2>1. TypeOK'
        BY <1>13, <1>1, <1>3 DEF CountAndAnswer, Labels, AllOps, Exists, Row
    <2>2. WorkerInv'
        BY <1>13, <1>1, <1>3 DEF CountAndAnswer, Labels, AllOps, Exists, WorkerInv, RowsInv
    <2>3. QED
        BY <2>1, <2>2
<1>14. QED
    BY <1>2, <1>4, <1>5, <1>6, <1>7, <1>8, <1>9, <1>10, <1>11, <1>12, <1>13

(* Steps that insert a row. *)
LEMMA InsertSteps ==
    ASSUME IInv, NEW w \in Workers, NEW o \in Outcomes,
           InsertPost(w, o) \/ InsertReply(w, o) \/ InsertRepostPost(w, o)
    PROVE  IInv'
<1> USE PostsAssumption DEF IInv, events, args, locals, Goto
<1> DEFINE row == [author |-> UserOf[w],
                   parent |-> IF pc[w] = "insertReply" THEN target[w] ELSE 0,
                   original |-> IF pc[w] = "insertRepostPost" THEN target[w] ELSE 0]
<1>1. row \in Row /\ row.parent < nextId
    <2>1. UserOf[w] \in Users /\ target[w] \in PostIds /\ PostIds \subseteq OptId /\ 0 \in OptId
        BY DEF TypeOK, PostIds, OptId
    <2>2. pc[w] = "insertReply" => target[w] < nextId
        BY <2>1 DEF WorkerInv, RowsInv
    <2>3. 0 < nextId
        BY DEF TypeOK
    <2>4. QED
        BY <2>1, <2>2, <2>3 DEF Row
<1>2. IF o = "failed" THEN UNCHANGED <<posts, written, nextId>> ELSE InsertRow(row)
    BY DEF InsertPost, InsertReply, InsertRepostPost, Statement
<1>3. /\ posts' \in [PostIds -> Row \cup {NoPost}]
      /\ written' \in [PostIds -> Row \cup {NoPost}]
      /\ nextId' \in 1..(MaxPosts + 1)
      /\ RowsInv'
      /\ \A i \in PostIds : written[i] # NoPost => written'[i] = written[i]
      /\ o # "failed" => nextId \in PostIds /\ written'[nextId] = row
    <2>1. CASE o = "failed"
        BY <1>2, <2>1 DEF TypeOK, RowsInv
    <2>2. CASE o # "failed"
        BY <1>1, <1>2, <2>2, InsertKeepsRows
    <2>3. QED
        BY <2>1, <2>2
<1>4. UNCHANGED <<reposts, likes, notes, announced, threadEvents, op, target, opened,
                  requests, owner, root, depth, since>>
    BY DEF InsertPost, InsertReply, InsertRepostPost
<1>5. TypeOK'
    <2>1. faults' \in 0..MaxFaults /\ clean' \in [Workers -> BOOLEAN]
        BY StatementTypes DEF InsertPost, InsertReply, InsertRepostPost
    <2>2. pc' \in [Workers -> Labels]
        BY DEF TypeOK, InsertPost, InsertReply, InsertRepostPost, Labels
    <2>3. newId' \in [Workers -> OptId]
        <3>1. o # "failed" => nextId \in OptId
            BY <1>3 DEF PostIds, OptId
        <3>2. newId' = newId \/ (o = "ok" /\ newId' = [newId EXCEPT ![w] = nextId])
            BY DEF InsertPost, InsertReply, InsertRepostPost
        <3>3. QED
            BY <3>1, <3>2 DEF TypeOK
    <2>4. QED
        BY <1>3, <1>4, <2>1, <2>2, <2>3 DEF TypeOK
<1>6. NotesInv'
    <2>1. ASSUME NEW n \in 1..Len(notes)
          PROVE  /\ notes[n].post \in PostIds
                 /\ written'[notes[n].post] = written[notes[n].post]
                 /\ notes[n].type = "reply" =>
                        written'[written[notes[n].post].parent] = written[written[notes[n].post].parent]
        <3>1. notes[n] \in Note
            BY DEF TypeOK
        <3>2. notes[n].post \in PostIds
            BY <3>1 DEF Note
        <3>3. written'[notes[n].post] = written[notes[n].post]
            BY <1>3, <3>2 DEF NotesInv
        <3>4. written[notes[n].post] \in Row
            BY <3>2 DEF NotesInv, TypeOK
        <3>5. ASSUME notes[n].type = "reply"
              PROVE  written'[written[notes[n].post].parent] = written[written[notes[n].post].parent]
            <4>1. written[notes[n].post].parent \in PostIds
                BY <3>4, <3>5 DEF NotesInv, Row, OptId, PostIds
            <4>2. QED
                BY <1>3, <3>5, <4>1 DEF NotesInv
        <3>6. QED
            BY <3>2, <3>3, <3>5
    <2>2. QED
        BY <1>4, <2>1 DEF NotesInv
<1>7. WorkerInv'
    <2>1. ASSUME NEW v \in Workers, v # w
          PROVE  /\ pc'[v] = pc[v] /\ newId'[v] = newId[v]
                 /\ written[target[v]] # NoPost => written'[target[v]] = written[target[v]]
                 /\ newId[v] # 0 /\ written[newId[v]] # NoPost =>
                        written'[newId[v]] = written[newId[v]]
        <3>1. target[v] \in PostIds /\ (newId[v] # 0 => newId[v] \in PostIds)
            BY DEF TypeOK, PostIds, OptId
        <3>2. pc'[v] = pc[v]
            BY <2>1 DEF TypeOK, InsertPost, InsertReply, InsertRepostPost
        <3>3. newId'[v] = newId[v]
            BY <2>1 DEF TypeOK, InsertPost, InsertReply, InsertRepostPost
        <3>4. QED
            BY <1>3, <3>1, <3>2, <3>3
    <2>2. CASE InsertPost(w, o)
        BY SMTT(30), <1>4, <2>1, <2>2 DEF TypeOK, WorkerInv, InsertPost
    <2>3. CASE InsertRepostPost(w, o)
        <3>1. pc[w] = "insertRepostPost" /\ pc'[w] = "findOwner"
            BY <2>3 DEF TypeOK, InsertRepostPost, Statement
        <3>2. QED
            BY <1>4, <2>1, <3>1 DEF WorkerInv
    <2>4. CASE InsertReply(w, o)
        <3>1. CASE o = "ok"
            <4>1. /\ pc'[w] = "notify" /\ newId'[w] = nextId /\ pc[w] = "insertReply"
                BY <2>4, <3>1 DEF TypeOK, InsertReply, Statement
            <4>2. /\ nextId \in PostIds /\ nextId # 0 /\ written'[nextId] = row
                  /\ row # NoPost /\ row.parent = target[w] /\ row.author = UserOf[w]
                BY <1>1, <1>3, <3>1, <4>1 DEF PostIds
            <4>3. /\ written'[target[w]] # NoPost
                  /\ owner[w] = written'[target[w]].author
                BY <1>3, <4>1 DEF WorkerInv, TypeOK
            <4>4. QED
                BY <1>4, <2>1, <4>1, <4>2, <4>3 DEF WorkerInv
        <3>2. CASE o # "ok"
            BY <1>4, <2>1, <2>4, <3>2 DEF TypeOK, WorkerInv, InsertReply
        <3>3. QED
            BY <3>1, <3>2
    <2>5. QED
        BY <2>2, <2>3, <2>4
<1>8. QED
    BY <1>3, <1>5, <1>6, <1>7

(* Steps that delete rows of posts, or change reposts and likes. *)
LEMMA TableSteps ==
    ASSUME IInv, NEW w \in Workers, NEW o \in Outcomes,
           \/ DeletePost(w, o) \/ DeleteRepostPost(w, o)
           \/ InsertRepost(w, o) \/ DeleteRepost(w, o)
           \/ InsertLike(w, o) \/ DeleteLike(w, o)
    PROVE  IInv'
<1> USE PostsAssumption DEF IInv, events, args, locals, Goto
<1>1. UNCHANGED <<nextId, written, notes, announced, threadEvents, op, target, opened,
                  requests, owner, newId, root, depth, since>>
    BY DEF DeletePost, DeleteRepostPost, InsertRepost, DeleteRepost, InsertLike, DeleteLike
<1>2. posts' \in [PostIds -> Row \cup {NoPost}] /\ RowsInv'
    <2>1. CASE DeletePost(w, o)
        BY <1>1, <2>1, DeleteKeepsRows DEF DeletePost
    <2>2. CASE DeleteRepostPost(w, o)
        BY <1>1, <2>2, DeleteKeepsRows DEF DeleteRepostPost
    <2>3. CASE UNCHANGED posts
        BY <1>1, <2>3 DEF RowsInv, TypeOK
    <2>4. QED
        BY <2>1, <2>2, <2>3 DEF InsertRepost, DeleteRepost, InsertLike, DeleteLike
<1>3. reposts' \subseteq Users \X PostIds /\ likes' \subseteq Users \X PostIds
    <2>1. <<UserOf[w], target[w]>> \in Users \X PostIds
        BY DEF TypeOK
    <2>2. QED
        BY <2>1 DEF TypeOK, DeletePost, DeleteRepostPost, InsertRepost, DeleteRepost,
            InsertLike, DeleteLike
<1>4. faults' \in 0..MaxFaults /\ clean' \in [Workers -> BOOLEAN]
    BY StatementTypes
    DEF DeletePost, DeleteRepostPost, InsertRepost, DeleteRepost, InsertLike, DeleteLike
<1>5. pc' \in [Workers -> Labels]
    BY DEF TypeOK, Labels, DeletePost, DeleteRepostPost, InsertRepost, DeleteRepost,
        InsertLike, DeleteLike
<1>6. TypeOK'
    BY <1>1, <1>2, <1>3, <1>4, <1>5 DEF TypeOK
<1>7. WorkerInv' /\ NotesInv'
    BY SMTT(30), <1>1 DEF TypeOK, WorkerInv, NotesInv, Statement, DeletePost, DeleteRepostPost,
        InsertRepost, DeleteRepost, InsertLike, DeleteLike
<1>8. QED
    BY <1>2, <1>6, <1>7

LEMMA NoteStep ==
    ASSUME IInv, NEW w \in Workers, NEW o \in Outcomes, InsertNote(w, o)
    PROVE  IInv'
<1> USE PostsAssumption DEF IInv, events, args, locals, Goto
<1>1. UNCHANGED <<posts, nextId, written, reposts, likes, announced, threadEvents, op,
                  target, opened, requests, owner, newId, root, depth, since>>
    BY DEF InsertNote
<1>2. /\ pc[w] = "notify" /\ owner[w] # UserOf[w]
      /\ pc'[w] \in {"announce", AfterNote(w)} /\ \A v \in Workers \ {w} : pc'[v] = pc[v]
      /\ pc' \in [Workers -> Labels]
    BY DEF InsertNote, Statement, TypeOK, AfterNote, Labels
<1>3. /\ target[w] \in PostIds /\ written[target[w]] # NoPost
      /\ owner[w] = written[target[w]].author /\ owner[w] # NoUser
    <2>1. target[w] \in PostIds /\ written[target[w]] \in Row
        BY <1>2 DEF WorkerInv, TypeOK
    <2>2. QED
        BY <1>2, <2>1 DEF WorkerInv, Row
<1>4. NoteOf(w) \in Note
    BY <1>2, <1>3, NoteOfType DEF WorkerInv
<1>5. TypeOK'
    <2>1. faults' \in 0..MaxFaults /\ clean' \in [Workers -> BOOLEAN]
        BY StatementTypes DEF InsertNote
    <2>2. notes' \in Seq(Note)
        BY <1>4 DEF InsertNote, TypeOK
    <2>3. QED
        BY <1>1, <1>2, <2>1, <2>2 DEF TypeOK
<1>6. WorkerInv'
    BY <1>1, <1>2 DEF WorkerInv, AfterNote
<1>7. NotesInv'
    <2>1. CASE o = "failed"
        BY <1>1, <2>1 DEF InsertNote, NotesInv
    <2>2. CASE o # "failed"
        <3> DEFINE note == NoteOf(w)
        <3>1. /\ note.to # note.actor
              /\ written[note.post] # NoPost
              /\ note.type # "reply" => note.to = written[note.post].author
              /\ note.type = "reply" =>
                    /\ note.actor = written[note.post].author
                    /\ written[note.post].parent # 0
                    /\ written[written[note.post].parent] # NoPost
                    /\ note.to = written[written[note.post].parent].author
            <4>1. 0 \notin PostIds
                BY DEF PostIds
            <4>2. CASE op[w] = "CreateReply"
                BY <1>2, <1>3, <4>1, <4>2 DEF NoteOf, WorkerInv
            <4>3. CASE op[w] # "CreateReply"
                BY <1>2, <1>3, <4>3 DEF NoteOf
            <4>4. QED
                BY <4>2, <4>3
        <3>2. notes' = Append(notes, note) /\ notes \in Seq(Note)
            BY <2>2 DEF InsertNote, TypeOK
        <3>3. \A n \in 1..Len(notes') :
                (n \in 1..Len(notes) /\ notes'[n] = notes[n]) \/ notes'[n] = note
            BY <1>4, <3>2
        <3> HIDE DEF note
        <3>4. QED
            BY <1>1, <3>1, <3>3 DEF NotesInv
    <2>3. QED
        BY <2>1, <2>2
<1>8. RowsInv'
    BY <1>1 DEF RowsInv
<1>9. QED
    BY <1>5, <1>6, <1>7, <1>8

-----------------------------------------------------------------------------
LEMMA NextIInv == IInv /\ [Next]_vars => IInv'
<1>1. CASE UNCHANGED vars
    BY <1>1 DEF IInv, TypeOK, RowsInv, WorkerInv, NotesInv, vars
<1>2. CASE Finished
    BY <1>1, <1>2 DEF Finished
<1>3. QED
    BY <1>1, <1>2, LocalSteps, InsertSteps, TableSteps, NoteStep DEF Next, Step

LEMMA Invariance == Spec => []IInv
BY InitIInv, NextIInv, PTL DEF Spec

(* Every variable keeps its type. *)
THEOREM TypeCorrect == Spec => []TypeOK
BY Invariance, PTL DEF IInv

(* reply.go:27-39: for any number of concurrent requests and deletions, a   *)
(* post's parent is an earlier post, so threads have no cycles.             *)
THEOREM ParentsAreEarlier == Spec => []ThreadsAcyclic
<1>1. IInv => ThreadsAcyclic
    BY DEF IInv, RowsInv, ThreadsAcyclic
<1>2. QED
    BY <1>1, Invariance, PTL

(* notification.go:145-156: every stored notification is addressed to the   *)
(* author of the post it is about, and to nobody for their own action.      *)
THEOREM NotesReachTheAuthor == Spec => []NotifiesTheAuthor
<1>1. IInv => NotifiesTheAuthor
    BY DEF IInv, NotesInv, NotifiesTheAuthor
<1>2. QED
    BY <1>1, Invariance, PTL

(* The only steps a row disappears in. *)
LEMMA DeletingSteps ==
    ASSUME IInv, [Next]_vars, NEW i \in PostIds, Exists(i), ~Exists(i)'
    PROVE  \E w \in Workers, o \in Outcomes : DeletePost(w, o) \/ DeleteRepostPost(w, o)
<1>1. posts' # posts
    BY DEF Exists
<1>2. ASSUME NEW row \in Row, InsertRow(row)
      PROVE  FALSE
    <2>1. row # NoPost /\ posts' = [posts EXCEPT ![nextId] = row]
        BY <1>2, PostsAssumption DEF InsertRow
    <2>2. QED
        BY <2>1 DEF Exists, IInv, TypeOK
<1>3. ASSUME NEW w \in Workers, NEW o \in Outcomes,
             InsertPost(w, o) \/ InsertReply(w, o) \/ InsertRepostPost(w, o)
      PROVE  FALSE
    <2>1. /\ [author |-> UserOf[w], parent |-> 0, original |-> 0] \in Row
          /\ [author |-> UserOf[w], parent |-> target[w], original |-> 0] \in Row
          /\ [author |-> UserOf[w], parent |-> 0, original |-> target[w]] \in Row
        BY PostsAssumption DEF Row, OptId, PostIds, IInv, TypeOK
    <2>2. QED
        BY <1>1, <1>2, <1>3, <2>1 DEF InsertPost, InsertReply, InsertRepostPost
<1>4. ASSUME NEW w \in Workers,
             \/ \E o \in Ops, j \in PostIds : Request(w, o, j)
             \/ \E o \in Outcomes :
                  FindParent(w, o) \/ ClimbThread(w, o) \/ FindOwner(w, o)
             \/ PublishReply(w) \/ SubscribeThread(w) \/ StreamEnds(w)
             \/ SkipNote(w) \/ AnnounceNote(w) \/ CountAndAnswer(w)
      PROVE  FALSE
    BY <1>1, <1>4 DEF tables, Request, FindParent, ClimbThread, FindOwner, PublishReply,
        SubscribeThread, StreamEnds, SkipNote, AnnounceNote, CountAndAnswer
<1>5. ASSUME NEW w \in Workers, NEW o \in Outcomes,
             \/ InsertRepost(w, o) \/ DeleteRepost(w, o)
             \/ InsertLike(w, o) \/ DeleteLike(w, o) \/ InsertNote(w, o)
      PROVE  FALSE
    BY <1>1, <1>5 DEF InsertRepost, DeleteRepost, InsertLike, DeleteLike, InsertNote
<1>6. ~(UNCHANGED vars) /\ ~Finished
    BY <1>1 DEF vars, Finished
<1>7. QED
    BY <1>3, <1>4, <1>5, <1>6 DEF Next, Step

(* post.go:211-213, repost.go:57-60: however requests interleave, a row     *)
(* disappears only by a request of the user who wrote it.                   *)
THEOREM DeletionsAreByAuthors == Spec => OnlyAuthorsDelete
<1> DEFINE ByAuthor(i) ==
        \E w \in Workers :
            /\ UserOf[w] = posts[i].author
            /\ \/ pc[w] = "deletePost" /\ target[w] = i
               \/ pc[w] = "deleteRepostPost" /\ target[w] = posts[i].original
<1>1. ASSUME IInv, [Next]_vars, NEW i \in PostIds, Exists(i), ~Exists(i)'
      PROVE  ByAuthor(i)
    <2>1. PICK w \in Workers, o \in Outcomes : DeletePost(w, o) \/ DeleteRepostPost(w, o)
        BY <1>1, DeletingSteps
    <2>2. CASE DeletePost(w, o)
        <3>1. i = target[w] /\ posts[i].author = UserOf[w]
            BY <1>1, <2>2 DEF DeletePost, DeleteRows, Exists
        <3>2. QED
            BY <2>2, <3>1 DEF DeletePost, Statement
    <2>3. CASE DeleteRepostPost(w, o)
        <3>1. i \in RepostRows(UserOf[w], target[w])
            BY <1>1, <2>3 DEF DeleteRepostPost, DeleteRows, Exists
        <3>2. QED
            BY <2>3, <3>1 DEF DeleteRepostPost, Statement, RepostRows
    <2>4. QED
        BY <2>1, <2>2, <2>3
<1>2. IInv /\ [Next]_vars => [\A i \in PostIds : Exists(i) /\ ~Exists(i)' => ByAuthor(i)]_vars
    BY <1>1
<1>3. QED
    BY <1>2, Invariance, PTL DEF Spec, OnlyAuthorsDelete

-----------------------------------------------------------------------------
(* Users whose requests do not overlap: what the last two theorems assume. *)
OneRequestPerUser == \A v, w \in Workers : UserOf[v] = UserOf[w] => v = w

Notified == {"findOwner", "notify", "announce", "count"}

(* Which operation a worker is at each statement of. *)
RequestInv ==
    \A w \in Workers :
        /\ pc[w] = "insertLike" => op[w] = "Like"
        /\ pc[w] = "deleteLike" => op[w] = "Unlike"
        /\ pc[w] \in {"insertRepost", "insertRepostPost"} => op[w] = "Repost"
        /\ pc[w] \in {"deleteRepost", "deleteRepostPost"} => op[w] = "UnRepost"
        /\ pc[w] = "findOwner" => op[w] \in {"Like", "Repost"}
        /\ pc[w] \in {"findParent", "insertReply"} => op[w] = "CreateReply"
        /\ pc[w] \in {"notify", "announce"} => op[w] \in {"CreateReply", "Like", "Repost"}
        /\ pc[w] = "count" => op[w] \in {"Like", "Unlike", "Repost", "UnRepost"}

(* What the statements of a request have done, none of them having failed,  *)
(* from the statement on until the answer.                                  *)
Done(w) ==
    LET row == <<UserOf[w], target[w]>>
        rows == RepostRows(UserOf[w], target[w])
    IN  /\ op[w] = "Like" /\ pc[w] \in Notified => row \in likes
        /\ op[w] = "Unlike" /\ pc[w] = "count" => row \notin likes
        /\ op[w] = "Repost" /\ pc[w] \in Notified \cup {"insertRepostPost"} => row \in reposts
        /\ op[w] = "Repost" /\ pc[w] \in Notified => rows # {}
        /\ op[w] = "UnRepost" /\ pc[w] \in {"deleteRepostPost", "count"} => row \notin reposts
        /\ op[w] = "UnRepost" /\ pc[w] = "count" => rows = {}

DoneInv == \A w \in Workers : clean[w] => Done(w)

(* The two tables agree about a user and a post. *)
Paired(u, i) ==
    IF <<u, i>> \in reposts
    THEN \E j \in PostIds : written[j] # NoPost /\ written[j].author = u /\ written[j].original = i
    ELSE RepostRows(u, i) = {}

(* They do except for a worker between its two statements. *)
Between(w, i) == pc[w] \in {"insertRepostPost", "deleteRepostPost"} /\ target[w] = i

PairInv ==
    faults = 0 =>
        \A w \in Workers, i \in PostIds :
            /\ pc[w] = "insertRepostPost" /\ target[w] = i => <<UserOf[w], i>> \in reposts
            /\ pc[w] = "deleteRepostPost" /\ target[w] = i => <<UserOf[w], i>> \notin reposts
            /\ ~Between(w, i) => Paired(UserOf[w], i)

(* A step of the program is the step of one worker. *)
Moves(w) ==
    \/ \E o \in Ops, i \in PostIds : Request(w, o, i)
    \/ Step(w)
    \/ StreamEnds(w)

LEMMA OneMoves ==
    ASSUME [Next]_vars PROVE (\E w \in Workers : Moves(w)) \/ UNCHANGED vars
BY DEF Next, Moves, Finished

(* The steps in which a worker executes no statement that writes rows of    *)
(* posts, reposts or likes.                                                 *)
Reads(w) ==
    \/ \E o \in Ops, i \in PostIds : Request(w, o, i)
    \/ \E o \in Outcomes :
        FindParent(w, o) \/ ClimbThread(w, o) \/ FindOwner(w, o) \/ InsertNote(w, o)
    \/ PublishReply(w) \/ SubscribeThread(w) \/ StreamEnds(w)
    \/ SkipNote(w) \/ AnnounceNote(w) \/ CountAndAnswer(w)

Inserts(w, o) == InsertPost(w, o) \/ InsertReply(w, o) \/ InsertRepostPost(w, o)

Deletes(w, o) == DeletePost(w, o) \/ DeleteRepostPost(w, o)

Refers(w, o) ==
    InsertRepost(w, o) \/ DeleteRepost(w, o) \/ InsertLike(w, o) \/ DeleteLike(w, o)

LEMMA KindsOfSteps ==
    ASSUME NEW w \in Workers, Moves(w)
    PROVE  Reads(w) \/ \E o \in Outcomes : Inserts(w, o) \/ Deletes(w, o) \/ Refers(w, o)
BY DEF Moves, Step, Reads, Inserts, Deletes, Refers

LEMMA ReadsKeepRows ==
    ASSUME NEW w \in Workers, Reads(w)
    PROVE  UNCHANGED <<posts, nextId, written, reposts, likes>>
BY DEF Reads, tables, Request, FindParent, ClimbThread, FindOwner, InsertNote, PublishReply,
    SubscribeThread, StreamEnds, SkipNote, AnnounceNote, CountAndAnswer

(* Nobody touches the locals of another request. *)
Stays(v) ==
    /\ pc'[v] = pc[v] /\ op'[v] = op[v] /\ target'[v] = target[v]
    /\ clean'[v] = clean[v] /\ owner'[v] = owner[v]

LEMMA OthersStay ==
    ASSUME TypeOK, NEW w \in Workers, Moves(w), NEW v \in Workers, v # w
    PROVE  Stays(v)
<1> USE DEF Stays, TypeOK, args, locals, Goto, Statement
<1>1. ASSUME Reads(w)
      PROVE  Stays(v)
    BY <1>1 DEF Reads, Request, FindParent, ClimbThread, FindOwner, InsertNote, PublishReply,
        SubscribeThread, StreamEnds, SkipNote, AnnounceNote, CountAndAnswer
<1>2. ASSUME NEW o \in Outcomes, Inserts(w, o)
      PROVE  Stays(v)
    BY <1>2 DEF Inserts, InsertPost, InsertReply, InsertRepostPost
<1>3. ASSUME NEW o \in Outcomes, Deletes(w, o) \/ Refers(w, o)
      PROVE  Stays(v)
    BY <1>3 DEF Deletes, Refers, DeletePost, DeleteRepostPost, InsertRepost, DeleteRepost,
        InsertLike, DeleteLike
<1>4. QED
    BY <1>1, <1>2, <1>3, KindsOfSteps

LEMMA RequestInvPreserved ==
    ASSUME TypeOK, RequestInv, [Next]_vars PROVE RequestInv'
<1> USE DEF TypeOK, args, locals, Goto, Statement, RequestInv
<1>1. CASE UNCHANGED vars
    BY <1>1 DEF vars
<1>2. ASSUME NEW w \in Workers, Moves(w)
      PROVE  RequestInv'
    <2>1. \A v \in Workers \ {w} : pc'[v] = pc[v] /\ op'[v] = op[v]
        BY <1>2, OthersStay DEF Stays
    <2>2. CASE \E o \in Ops, i \in PostIds : Request(w, o, i)
        BY <2>1, <2>2, PostsAssumption DEF Request, FirstLabel, AllOps
    <2>3. CASE Reads(w) /\ ~\E o \in Ops, i \in PostIds : Request(w, o, i)
        BY <2>1, <2>3 DEF Reads, FindParent, ClimbThread, FindOwner, InsertNote,
            PublishReply, SubscribeThread, StreamEnds, SkipNote, AnnounceNote, CountAndAnswer,
            AfterNote
    <2>4. ASSUME NEW o \in Outcomes, Inserts(w, o) \/ Deletes(w, o) \/ Refers(w, o)
          PROVE  RequestInv'
        BY <2>1, <2>4 DEF Inserts, Deletes, Refers, InsertPost, InsertReply, InsertRepostPost,
            DeletePost, DeleteRepostPost, InsertRepost, DeleteRepost, InsertLike, DeleteLike
    <2>5. QED
        BY <1>2, <2>2, <2>3, <2>4, KindsOfSteps
<1>3. QED
    BY <1>1, <1>2, OneMoves

(* The id an INSERT takes has no row. *)
LEMMA NewRow ==
    ASSUME IInv, NEW w \in Workers, NEW o \in Outcomes, Inserts(w, o)
    PROVE  \/ UNCHANGED <<posts, written>>
           \/ \E row \in Row :
                /\ nextId \in PostIds
                /\ posts[nextId] = NoPost /\ written[nextId] = NoPost
                /\ row.author = UserOf[w]
                /\ row.original = (IF pc[w] = "insertRepostPost" THEN target[w] ELSE 0)
                /\ posts' = [posts EXCEPT ![nextId] = row]
                /\ written' = [written EXCEPT ![nextId] = row]
<1> DEFINE row == [author |-> UserOf[w],
                   parent |-> IF pc[w] = "insertReply" THEN target[w] ELSE 0,
                   original |-> IF pc[w] = "insertRepostPost" THEN target[w] ELSE 0]
<1>1. row \in Row
    <2>1. UserOf[w] \in Users /\ target[w] \in PostIds /\ PostIds \subseteq OptId /\ 0 \in OptId
        BY PostsAssumption DEF IInv, TypeOK, PostIds, OptId
    <2>2. QED
        BY <2>1 DEF Row
<1>2. o # "failed" => InsertRow(row)
    BY DEF Inserts, InsertPost, InsertReply, InsertRepostPost, Statement
<1>3. o = "failed" => UNCHANGED <<posts, written>>
    BY DEF Inserts, InsertPost, InsertReply, InsertRepostPost
<1>4. o # "failed" => nextId \in PostIds
    BY <1>2, PostsAssumption DEF InsertRow, IInv, TypeOK, PostIds
<1>5. o # "failed" => posts[nextId] = NoPost /\ written[nextId] = NoPost
    <2>1. nextId \in Nat
        BY PostsAssumption DEF IInv, TypeOK
    <2>2. QED
        BY <1>4, <2>1 DEF IInv, RowsInv
<1>6. QED
    BY <1>1, <1>2, <1>3, <1>4, <1>5 DEF InsertRow

(* Rows are deleted with their author's request only. *)
LEMMA GoneRows ==
    ASSUME IInv, NEW w \in Workers, NEW o \in Outcomes, Deletes(w, o)
    PROVE  /\ UNCHANGED <<written, reposts, likes>>
           /\ \A j \in PostIds : \/ posts'[j] = posts[j]
                                 \/ posts'[j] = NoPost /\ posts[j].author = UserOf[w]
<1>1. UNCHANGED <<written, reposts, likes>>
    BY DEF Deletes, DeletePost, DeleteRepostPost
<1>2. ASSUME NEW j \in PostIds
      PROVE  posts'[j] = posts[j] \/ (posts'[j] = NoPost /\ posts[j].author = UserOf[w])
    BY DEF Deletes, DeletePost, DeleteRepostPost, DeleteRows, RepostRows
<1>3. QED
    BY <1>1, <1>2

(* A request changes no row of another user. *)
LEMMA OthersRows ==
    ASSUME OneRequestPerUser, IInv, NEW w \in Workers, Moves(w), NEW v \in Workers, v # w,
           NEW i \in PostIds
    PROVE  /\ <<UserOf[v], i>> \in likes' <=> <<UserOf[v], i>> \in likes
           /\ <<UserOf[v], i>> \in reposts' <=> <<UserOf[v], i>> \in reposts
           /\ RepostRows(UserOf[v], i)' = RepostRows(UserOf[v], i)
<1>1. UserOf[v] # UserOf[w]
    BY DEF OneRequestPerUser
<1>2. CASE Reads(w)
    BY <1>2, ReadsKeepRows DEF RepostRows, Exists
<1>3. ASSUME NEW o \in Outcomes, Refers(w, o)
      PROVE  /\ <<UserOf[v], i>> \in likes' <=> <<UserOf[v], i>> \in likes
             /\ <<UserOf[v], i>> \in reposts' <=> <<UserOf[v], i>> \in reposts
             /\ RepostRows(UserOf[v], i)' = RepostRows(UserOf[v], i)
    BY <1>1, <1>3 DEF Refers, InsertRepost, DeleteRepost, InsertLike, DeleteLike, RepostRows,
        Exists
<1>4. ASSUME NEW o \in Outcomes, Deletes(w, o)
      PROVE  /\ UNCHANGED <<reposts, likes>>
             /\ RepostRows(UserOf[v], i)' = RepostRows(UserOf[v], i)
    BY <1>1, <1>4, GoneRows DEF RepostRows, Exists
<1>5. ASSUME NEW o \in Outcomes, Inserts(w, o)
      PROVE  /\ UNCHANGED <<reposts, likes>>
             /\ RepostRows(UserOf[v], i)' = RepostRows(UserOf[v], i)
    <2>1. UNCHANGED <<reposts, likes>>
        BY <1>5 DEF Inserts, InsertPost, InsertReply, InsertRepostPost
    <2>2. \A j \in PostIds : \/ posts'[j] = posts[j]
                             \/ posts[j] = NoPost /\ posts'[j].author = UserOf[w]
        BY <1>5, NewRow DEF IInv, TypeOK
    <2>3. QED
        BY <1>1, <2>1, <2>2 DEF RepostRows, Exists
<1>6. QED
    BY <1>2, <1>3, <1>4, <1>5, KindsOfSteps

LEMMA DoneInvPreserved ==
    ASSUME OneRequestPerUser, IInv, RequestInv, DoneInv, [Next]_vars PROVE DoneInv'
<1> USE DEF args, locals, Goto, Statement
<1>1. CASE UNCHANGED vars
    BY <1>1 DEF vars, DoneInv, Done, RepostRows, Exists
<1>2. ASSUME NEW w \in Workers, Moves(w)
      PROVE  DoneInv'
    <2>1. ASSUME NEW v \in Workers, v # w, clean'[v]
          PROVE  Done(v)'
        <3>1. Stays(v) /\ target[v] \in PostIds
            BY <1>2, <2>1, OthersStay DEF IInv, TypeOK
        <3>2. PICK t \in PostIds : t = target[v]
            BY <3>1
        <3>3. /\ <<UserOf[v], t>> \in likes' <=> <<UserOf[v], t>> \in likes
              /\ <<UserOf[v], t>> \in reposts' <=> <<UserOf[v], t>> \in reposts
              /\ RepostRows(UserOf[v], t)' = RepostRows(UserOf[v], t)
            BY <1>2, <2>1, OthersRows
        <3>4. RepostRows(UserOf[v], target[v])' = RepostRows(UserOf[v], target[v])
            BY <3>1, <3>2, <3>3 DEF Stays, RepostRows, Exists
        <3>5. Done(v)
            BY <2>1, <3>1 DEF DoneInv, Stays
        <3>6. QED
            BY <3>1, <3>2, <3>3, <3>4, <3>5 DEF Done, Stays
    <2>2. ASSUME clean'[w]
          PROVE  Done(w)'
        <3>1. /\ pc[w] \in Labels /\ target[w] \in PostIds /\ clean[w] \in BOOLEAN
              /\ UserOf[w] \in Users
            BY PostsAssumption DEF IInv, TypeOK
        <3>2. CASE \E o \in Ops, i \in PostIds : Request(w, o, i)
            BY <3>2, PostsAssumption DEF Request, FirstLabel, AllOps, Done, Notified, IInv, TypeOK
        <3>3. ASSUME Reads(w), ~\E o \in Ops, i \in PostIds : Request(w, o, i)
              PROVE  Done(w)'
            <4>1. clean[w] /\ op'[w] = op[w] /\ target'[w] = target[w]
                BY <2>2, <3>3 DEF Reads, FindParent, ClimbThread, FindOwner, InsertNote,
                    PublishReply, SubscribeThread, StreamEnds, SkipNote, AnnounceNote,
                    CountAndAnswer, IInv, TypeOK
            <4>2. \/ pc'[w] \notin Notified \cup {"insertRepostPost", "deleteRepostPost"}
                  \/ pc[w] \in {"findOwner", "notify", "announce"} /\ pc'[w] \in Notified
                BY <3>3 DEF Reads, FindParent, ClimbThread, FindOwner, InsertNote,
                    PublishReply, SubscribeThread, StreamEnds, SkipNote, AnnounceNote,
                    CountAndAnswer, AfterNote, Notified, IInv, TypeOK
            <4>3. RepostRows(UserOf[w], target[w])' = RepostRows(UserOf[w], target[w])
                BY <3>3, <4>1, ReadsKeepRows DEF RepostRows, Exists
            <4>4. UNCHANGED <<reposts, likes>>
                BY <3>3, ReadsKeepRows
            <4>5. Done(w) /\ (pc[w] \in {"findOwner", "notify", "announce"} =>
                    op[w] \in {"CreateReply", "Like", "Repost"})
                BY <4>1 DEF DoneInv, RequestInv
            <4>6. QED
                BY <4>1, <4>2, <4>3, <4>4, <4>5 DEF Done, Notified
        <3>4. ASSUME NEW o \in Outcomes, InsertPost(w, o) \/ InsertReply(w, o)
              PROVE  Done(w)'
            <4>1. \/ pc'[w] = "idle"
                  \/ pc'[w] = "notify" /\ op'[w] = "CreateReply"
                BY <3>4 DEF InsertPost, InsertReply, RequestInv, IInv, TypeOK
            <4>2. QED
                BY <4>1 DEF Done, Notified
        <3>5. ASSUME NEW o \in Outcomes, InsertRepostPost(w, o)
              PROVE  Done(w)'
            <4>1. /\ clean[w] /\ o = "ok" /\ pc[w] = "insertRepostPost" /\ pc'[w] = "findOwner"
                  /\ UNCHANGED <<op, target, reposts>> /\ op[w] = "Repost"
                BY <2>2, <3>1, <3>5 DEF InsertRepostPost, RequestInv, IInv, TypeOK
            <4>2. <<UserOf[w], target[w]>> \in reposts
                BY <4>1 DEF DoneInv, Done
            <4>3. nextId \in RepostRows(UserOf[w], target[w])'
                <5>1. nextId \in PostIds
                    BY <3>5, <4>1, PostsAssumption DEF InsertRepostPost, InsertRow, IInv, TypeOK, PostIds
                <5>2. posts'[nextId] = [author |-> UserOf[w], parent |-> 0, original |-> target[w]]
                    BY <3>5, <4>1, <5>1 DEF InsertRepostPost, InsertRow, IInv, TypeOK
                <5>3. [author |-> UserOf[w], parent |-> 0, original |-> target[w]] \in Row
                    BY <3>1, PostsAssumption DEF Row, OptId, PostIds
                <5>4. QED
                    BY <4>1, <5>1, <5>2, <5>3, PostsAssumption DEF RepostRows, Exists
            <4>4. QED
                BY <4>1, <4>2, <4>3 DEF Done, Notified
        <3>6. ASSUME NEW o \in Outcomes, DeletePost(w, o)
              PROVE  Done(w)'
            BY <3>6 DEF DeletePost, Done, Notified, IInv, TypeOK
        <3>7. ASSUME NEW o \in Outcomes, DeleteRepostPost(w, o)
              PROVE  Done(w)'
            <4>1. /\ clean[w] /\ o = "ok" /\ pc[w] = "deleteRepostPost" /\ pc'[w] = "count"
                  /\ UNCHANGED <<op, target, reposts>> /\ op[w] = "UnRepost"
                BY <2>2, <3>1, <3>7 DEF DeleteRepostPost, RequestInv, IInv, TypeOK
            <4>2. <<UserOf[w], target[w]>> \notin reposts
                BY <4>1 DEF DoneInv, Done
            <4>3. RepostRows(UserOf[w], target[w])' = {}
                BY <3>7, <4>1 DEF DeleteRepostPost, DeleteRows, RepostRows, Exists
            <4>4. QED
                BY <4>1, <4>2, <4>3 DEF Done, Notified
        <3>8. ASSUME NEW o \in Outcomes, Refers(w, o)
              PROVE  Done(w)'
            BY <2>2, <3>1, <3>8 DEF Refers, InsertRepost, DeleteRepost, InsertLike, DeleteLike,
                Done, Notified, RequestInv, IInv, TypeOK
        <3>9. QED
            BY <1>2, <3>2, <3>3, <3>4, <3>5, <3>6, <3>7, <3>8, KindsOfSteps
            DEF Inserts, Deletes
    <2>3. QED
        BY <2>1, <2>2 DEF DoneInv
<1>3. QED
    BY <1>1, <1>2, OneMoves

(* like.go:51-74, 82-94, repost.go: as long as a user's requests do not     *)
(* overlap, what a request without a failed statement is answered is still  *)
(* true when it is, whatever other users' requests have done meanwhile.     *)
THEOREM AnswersHold == ASSUME OneRequestPerUser PROVE Spec => AnswersAreTrue
<1> DEFINE Answer(w) ==
        LET row == <<UserOf[w], target[w]>>
        IN  CASE op[w] = "Like" -> row \in likes
              [] op[w] = "Unlike" -> row \notin likes
              [] op[w] = "Repost" -> row \in reposts /\ RepostRows(UserOf[w], target[w]) # {}
              [] op[w] = "UnRepost" -> row \notin reposts /\ RepostRows(UserOf[w], target[w]) = {}
<1> DEFINE Sound == \A w \in Workers : pc[w] = "count" /\ pc'[w] = "idle" /\ clean[w] => Answer(w)
<1>1. Init => RequestInv /\ DoneInv
    BY DEF Init, RequestInv, DoneInv, Done, Notified
<1>2. IInv /\ RequestInv /\ DoneInv /\ [Next]_vars => (RequestInv /\ DoneInv)'
    BY RequestInvPreserved, DoneInvPreserved DEF IInv
<1>3. RequestInv /\ DoneInv => [Sound]_vars
    <2>1. ASSUME RequestInv, DoneInv, NEW w \in Workers, pc[w] = "count", clean[w]
          PROVE  Answer(w)
        <3>1. op[w] \in {"Like", "Unlike", "Repost", "UnRepost"} /\ Done(w)
            BY <2>1 DEF RequestInv, DoneInv
        <3>2. QED
            BY <2>1, <3>1 DEF Done, Notified
    <2>2. QED
        BY <2>1
<1>4. QED
    BY <1>1, <1>2, <1>3, Invariance, PTL DEF Spec, AnswersAreTrue

-----------------------------------------------------------------------------
(* Rows of posts may go, and rows be written, without parting the tables. *)
LEMMA PairedKept ==
    ASSUME NEW u \in Users, NEW i \in PostIds, Paired(u, i),
           <<u, i>> \in reposts' <=> <<u, i>> \in reposts,
           RepostRows(u, i)' \subseteq RepostRows(u, i),
           \A j \in PostIds : written[j] # NoPost => written'[j] = written[j]
    PROVE  Paired(u, i)'
BY DEF Paired

LEMMA WrittenStays ==
    ASSUME IInv, NEW w \in Workers, Moves(w)
    PROVE  \A j \in PostIds : written[j] # NoPost => written'[j] = written[j]
<1>1. CASE Reads(w)
    BY <1>1, ReadsKeepRows
<1>2. ASSUME NEW o \in Outcomes, Inserts(w, o)
      PROVE  \A j \in PostIds : written[j] # NoPost => written'[j] = written[j]
    BY <1>2, NewRow DEF IInv, TypeOK
<1>3. ASSUME NEW o \in Outcomes, Deletes(w, o) \/ Refers(w, o)
      PROVE  UNCHANGED written
    BY <1>3 DEF Deletes, Refers, DeletePost, DeleteRepostPost, InsertRepost, DeleteRepost,
        InsertLike, DeleteLike
<1>4. QED
    BY <1>1, <1>2, <1>3, KindsOfSteps

LEMMA FaultsGrow ==
    ASSUME TypeOK, NEW w \in Workers, Moves(w), faults' = 0
    PROVE  faults = 0
<1> USE DEF Statement
<1>1. faults \in Nat
    BY PostsAssumption DEF TypeOK
<1>2. CASE Reads(w)
    BY <1>1, <1>2 DEF Reads, Request, FindParent, ClimbThread, FindOwner, InsertNote,
        PublishReply, SubscribeThread, StreamEnds, SkipNote, AnnounceNote, CountAndAnswer
<1>3. ASSUME NEW o \in Outcomes, Inserts(w, o) \/ Deletes(w, o) \/ Refers(w, o)
      PROVE  faults = 0
    BY <1>1, <1>3 DEF Inserts, Deletes, Refers, InsertPost, InsertReply, InsertRepostPost,
        DeletePost, DeleteRepostPost, InsertRepost, DeleteRepost, InsertLike, DeleteLike
<1>4. QED
    BY <1>2, <1>3, KindsOfSteps

(* One worker and one post of PairInv. *)
Agrees(w, i) ==
    /\ pc[w] = "insertRepostPost" /\ target[w] = i => <<UserOf[w], i>> \in reposts
    /\ pc[w] = "deleteRepostPost" /\ target[w] = i => <<UserOf[w], i>> \notin reposts
    /\ ~Between(w, i) => Paired(UserOf[w], i)

(* A worker's own steps, while no statement fails. *)
LEMMA OwnPair ==
    ASSUME IInv, NEW w \in Workers, Moves(w), faults = 0, faults' = 0, NEW i \in PostIds,
           Agrees(w, i)
    PROVE  Agrees(w, i)'
<1> USE DEF args, locals, Goto, Statement
<1>1. UserOf[w] \in Users /\ target[w] \in PostIds /\ pc[w] \in Labels
    BY PostsAssumption DEF IInv, TypeOK
<1>2. \A j \in PostIds : written[j] # NoPost => written'[j] = written[j]
    BY WrittenStays
<1>3. CASE Reads(w)
    <2>1. /\ pc'[w] \notin {"insertRepostPost", "deleteRepostPost"}
          /\ pc[w] \notin {"insertRepostPost", "deleteRepostPost"}
        BY <1>3, PostsAssumption DEF Reads, Request, FirstLabel, AllOps, FindParent, ClimbThread, FindOwner,
            InsertNote, PublishReply, SubscribeThread, StreamEnds, SkipNote, AnnounceNote,
            CountAndAnswer, AfterNote, IInv, TypeOK
    <2>2. RepostRows(UserOf[w], i)' = RepostRows(UserOf[w], i) /\ UNCHANGED reposts
        BY <1>3, ReadsKeepRows DEF RepostRows, Exists
    <2>3. Paired(UserOf[w], i)'
        BY <1>1, <1>2, <2>1, <2>2, PairedKept DEF Agrees, Between
    <2>4. QED
        BY <2>1, <2>3 DEF Agrees
<1>4. ASSUME NEW o \in Outcomes, Refers(w, o)
      PROVE  Agrees(w, i)'
    <2>1. o = "ok" /\ UNCHANGED <<target, posts>>
        BY <1>4 DEF Refers, InsertRepost, DeleteRepost, InsertLike, DeleteLike
    <2>2. RepostRows(UserOf[w], i)' = RepostRows(UserOf[w], i)
        BY <2>1 DEF RepostRows, Exists
    <2>3. pc[w] \notin {"insertRepostPost", "deleteRepostPost"} /\ Paired(UserOf[w], i)
        BY <1>4 DEF Refers, InsertRepost, DeleteRepost, InsertLike, DeleteLike, Agrees, Between
    <2>4. CASE InsertLike(w, o) \/ DeleteLike(w, o)
        <3>1. UNCHANGED reposts /\ pc'[w] \in {"findOwner", "count"}
            BY <2>4 DEF InsertLike, DeleteLike, IInv, TypeOK
        <3>2. Paired(UserOf[w], i)'
            BY <1>1, <1>2, <2>2, <2>3, <3>1, PairedKept
        <3>3. QED
            BY <3>1, <3>2 DEF Agrees
    <2>5. CASE InsertRepost(w, o) /\ target[w] = i
        BY <2>1, <2>5 DEF InsertRepost, Agrees, Between, IInv, TypeOK
    <2>6. CASE DeleteRepost(w, o) /\ target[w] = i
        BY <2>1, <2>6 DEF DeleteRepost, Agrees, Between, IInv, TypeOK
    <2>7. CASE (InsertRepost(w, o) \/ DeleteRepost(w, o)) /\ target[w] # i
        <3>1. <<UserOf[w], i>> \in reposts' <=> <<UserOf[w], i>> \in reposts
            BY <2>7 DEF InsertRepost, DeleteRepost
        <3>2. Paired(UserOf[w], i)'
            BY <1>1, <1>2, <2>2, <2>3, <3>1, PairedKept
        <3>3. QED
            BY <2>1, <2>7, <3>2 DEF Agrees
    <2>8. QED
        BY <1>4, <2>4, <2>5, <2>6, <2>7 DEF Refers
<1>5. ASSUME NEW o \in Outcomes, Deletes(w, o)
      PROVE  Agrees(w, i)'
    <2>1. o = "ok" /\ UNCHANGED <<target, reposts>> /\ pc'[w] \in {"idle", "count"}
        BY <1>5 DEF Deletes, DeletePost, DeleteRepostPost, IInv, TypeOK
    <2>2. RepostRows(UserOf[w], i)' \subseteq RepostRows(UserOf[w], i)
        BY <1>5, GoneRows DEF RepostRows, Exists
    <2>3. CASE Between(w, i)
        <3>1. DeleteRepostPost(w, o) /\ target[w] = i /\ <<UserOf[w], i>> \notin reposts
            BY <1>5, <2>3 DEF Deletes, DeletePost, DeleteRepostPost, Between, Agrees
        <3>2. RepostRows(UserOf[w], i)' = {}
            BY <2>1, <3>1 DEF DeleteRepostPost, DeleteRows, RepostRows, Exists
        <3>3. QED
            BY <2>1, <3>1, <3>2 DEF Agrees, Paired
    <2>4. CASE ~Between(w, i)
        BY <1>1, <1>2, <2>1, <2>2, <2>4, PairedKept DEF Agrees
    <2>5. QED
        BY <2>3, <2>4
<1>6. ASSUME NEW o \in Outcomes, Inserts(w, o)
      PROVE  Agrees(w, i)'
    <2>1. /\ o = "ok" /\ UNCHANGED <<target, reposts>>
          /\ pc'[w] \in {"idle", "notify", "findOwner"}
          /\ pc[w] \in {"insertPost", "insertReply", "insertRepostPost"}
        BY <1>6 DEF Inserts, InsertPost, InsertReply, InsertRepostPost, IInv, TypeOK
    <2>2. PICK row \in Row :
            /\ nextId \in PostIds
            /\ posts[nextId] = NoPost /\ written[nextId] = NoPost
            /\ row.author = UserOf[w]
            /\ row.original = (IF pc[w] = "insertRepostPost" THEN target[w] ELSE 0)
            /\ posts' = [posts EXCEPT ![nextId] = row]
            /\ written' = [written EXCEPT ![nextId] = row]
        <3>1. InsertRow([author |-> UserOf[w],
                         parent |-> IF pc[w] = "insertReply" THEN target[w] ELSE 0,
                         original |-> IF pc[w] = "insertRepostPost" THEN target[w] ELSE 0])
            BY <1>6, <2>1 DEF Inserts, InsertPost, InsertReply, InsertRepostPost
        <3>2. nextId' = nextId + 1 /\ nextId \in Nat
            BY <3>1, PostsAssumption DEF InsertRow, IInv, TypeOK
        <3>3. posts' # posts
            <4>1. nextId \in PostIds /\ nextId < nextId + 1
                BY <3>1, <3>2, PostsAssumption DEF InsertRow, IInv, TypeOK, PostIds
            <4>2. written[nextId] = NoPost /\ posts[nextId] = NoPost
                BY <3>2, <4>1 DEF IInv, RowsInv
            <4>3. [author |-> UserOf[w],
                   parent |-> IF pc[w] = "insertReply" THEN target[w] ELSE 0,
                   original |-> IF pc[w] = "insertRepostPost" THEN target[w] ELSE 0] \in Row
                BY <1>1, PostsAssumption DEF Row, OptId, PostIds
            <4>4. QED
                BY <3>1, <4>1, <4>2, <4>3, PostsAssumption DEF InsertRow, IInv, TypeOK
        <3>4. QED
            BY <1>6, <3>3, NewRow
    <2>3. row # NoPost /\ 0 \notin PostIds
        BY PostsAssumption DEF PostIds
    <2>4. CASE Between(w, i)
        <3>1. pc[w] = "insertRepostPost" /\ target[w] = i /\ <<UserOf[w], i>> \in reposts
            BY <2>1, <2>4 DEF Between, Agrees
        <3>2. written'[nextId] = row
            BY <2>2 DEF IInv, TypeOK
        <3>3. Paired(UserOf[w], i)'
            BY <2>1, <2>2, <2>3, <3>1, <3>2 DEF Paired
        <3>4. QED
            BY <2>1, <3>3 DEF Agrees
    <2>5. CASE ~Between(w, i)
        <3>1. row.original # i
            BY <2>1, <2>2, <2>3, <2>5 DEF Between
        <3>2. RepostRows(UserOf[w], i)' \subseteq RepostRows(UserOf[w], i)
            BY <2>2, <3>1 DEF RepostRows, Exists, IInv, TypeOK
        <3>3. Paired(UserOf[w], i)'
            BY <1>1, <1>2, <2>1, <2>5, <3>2, PairedKept DEF Agrees
        <3>4. QED
            BY <2>1, <3>3 DEF Agrees
    <2>6. QED
        BY <2>4, <2>5
<1>7. QED
    BY <1>3, <1>4, <1>5, <1>6, KindsOfSteps

LEMMA PairInvPreserved ==
    ASSUME OneRequestPerUser, IInv, PairInv, [Next]_vars PROVE PairInv'
<1>1. CASE UNCHANGED vars
    BY <1>1 DEF vars, PairInv, Between, Paired, RepostRows, Exists
<1>2. ASSUME NEW w \in Workers, Moves(w), faults' = 0, NEW v \in Workers, NEW i \in PostIds
      PROVE  Agrees(v, i)'
    <2>1. faults = 0
        BY <1>2, FaultsGrow DEF IInv
    <2>2. Agrees(v, i)
        BY <1>2, <2>1 DEF PairInv, Agrees
    <2>3. CASE v = w
        BY <1>2, <2>1, <2>2, <2>3, OwnPair
    <2>4. CASE v # w
        <3>1. /\ <<UserOf[v], i>> \in reposts' <=> <<UserOf[v], i>> \in reposts
              /\ RepostRows(UserOf[v], i)' = RepostRows(UserOf[v], i)
            BY <1>2, <2>4, OthersRows
        <3>2. Stays(v)
            BY <1>2, <2>4, OthersStay DEF IInv
        <3>3. UserOf[v] \in Users
            BY PostsAssumption
        <3>4. Paired(UserOf[v], i) => Paired(UserOf[v], i)'
            BY <1>2, <3>1, <3>3, WrittenStays, PairedKept
        <3>5. QED
            BY <2>2, <3>1, <3>2, <3>4 DEF Agrees, Between, Stays
    <2>5. QED
        BY <2>3, <2>4
<1>3. QED
    BY <1>1, <1>2, OneMoves DEF PairInv, Agrees

LEMMA InitPairInv == Init => PairInv
<1> SUFFICES ASSUME Init, NEW w \in Workers, NEW i \in PostIds PROVE Agrees(w, i)
    BY DEF PairInv, Agrees
<1>1. MaxPosts \in Nat /\ Len(SeedPosts) \in Nat /\ Len(SeedPosts) <= MaxPosts
    BY PostsAssumption, SeedAssumption
<1>2. \A j \in PostIds : posts[j] # NoPost =>
            j \in 1..Len(SeedPosts) /\ posts[j] = SeedPosts[j] /\ written[j] = posts[j]
    BY <1>1 DEF Init, PostIds
<1>3. \A j \in 1..Len(SeedPosts) :
            j \in PostIds /\ posts[j] = SeedPosts[j] /\ posts[j] # NoPost /\ written[j] = posts[j]
    BY <1>1, PostsAssumption, SeedAssumption DEF Init, PostIds
<1>4. i # 0
    BY DEF PostIds
<1>5. reposts = {<<posts[j].author, posts[j].original>> :
                    j \in {k \in 1..Len(SeedPosts) : SeedPosts[k].original # 0}}
    BY DEF Init
<1>6. CASE <<UserOf[w], i>> \in reposts
    <2>1. PICK j \in 1..Len(SeedPosts) :
            posts[j].author = UserOf[w] /\ posts[j].original = i
        BY <1>5, <1>6
    <2>2. QED
        BY <1>3, <1>6, <2>1 DEF Paired, Agrees, Between, Init
<1>7. CASE <<UserOf[w], i>> \notin reposts
    <2>1. RepostRows(UserOf[w], i) = {}
        BY <1>2, <1>4, <1>5, <1>7 DEF RepostRows, Exists
    <2>2. QED
        BY <1>7, <2>1 DEF Paired, Agrees, Between, Init
<1>8. QED
    BY <1>6, <1>7

(* repost.go:18-29, 53-60: whatever other users do, the two tables a user's *)
(* reposts are kept in agree again after every request of theirs, when no   *)
(* statement fails and their requests do not overlap.                       *)
THEOREM RepostsStayPaired == Spec => []RepostsPaired
<1>1. ASSUME OneRequestPerUser
      PROVE  Spec => []PairInv
    <2>1. IInv /\ PairInv /\ [Next]_vars => PairInv'
        BY <1>1, PairInvPreserved
    <2>2. QED
        BY <2>1, InitPairInv, Invariance, PTL DEF Spec
<1>2. PairInv => RepostsPaired
    BY DEF PairInv, Between, Paired, RepostsPaired
<1>3. ~OneRequestPerUser => RepostsPaired
    BY DEF OneRequestPerUser, RepostsPaired
<1>4. CASE OneRequestPerUser
    BY <1>1, <1>2, <1>4, PTL
<1>5. CASE ~OneRequestPerUser
    <2>1. RepostsPaired
        BY <1>3, <1>5
    <2>2. QED
        BY <2>1, PTL
<1>6. QED
    BY <1>4, <1>5

-----------------------------------------------------------------------------
(* Every notification of a user that was stored was announced or is about   *)
(* to be by the request that stored it; only a statement that fails after   *)
(* it took effect leaves one unannounced.                                   *)
AddressedTo(s, u) == {n \in 1..Len(s) : s[n].to = u}

Waiting(u) == {w \in Workers : pc[w] = "announce" /\ owner[w] = u}

Busy == {w \in Workers : pc[w] # "idle"}

Counts(u) ==
    LET told == Cardinality(AddressedTo(announced, u)) + Cardinality(Waiting(u))
        stored == Cardinality(AddressedTo(notes, u))
    IN  told <= stored /\ (faults = 0 => told = stored)

CountInv == IsFiniteSet(Busy) /\ \A u \in Users : Counts(u)

LEMMA Addressed ==
    ASSUME NEW s \in Seq(Note), NEW u
    PROVE  IsFiniteSet(AddressedTo(s, u)) /\ Cardinality(AddressedTo(s, u)) \in Nat
<1>1. IsFiniteSet(1..Len(s))
    BY FS_Interval
<1>2. IsFiniteSet(AddressedTo(s, u))
    BY <1>1, FS_Subset DEF AddressedTo
<1>3. QED
    BY <1>2, FS_CardinalityType

LEMMA AddressedAppend ==
    ASSUME NEW s \in Seq(Note), NEW e \in Note, NEW u
    PROVE  Cardinality(AddressedTo(Append(s, e), u))
                = Cardinality(AddressedTo(s, u)) + (IF e.to = u THEN 1 ELSE 0)
<1>1. /\ Len(s) \in Nat /\ Len(Append(s, e)) = Len(s) + 1
      /\ Append(s, e)[Len(s) + 1] = e /\ \A n \in 1..Len(s) : Append(s, e)[n] = s[n]
    OBVIOUS
<1>2. CASE e.to = u
    <2>1. AddressedTo(Append(s, e), u) = AddressedTo(s, u) \cup {Len(s) + 1}
        BY <1>1, <1>2 DEF AddressedTo
    <2>2. Len(s) + 1 \notin AddressedTo(s, u)
        BY <1>1 DEF AddressedTo
    <2>3. QED
        BY <1>2, <2>1, <2>2, Addressed, FS_AddElement
<1>3. CASE e.to # u
    <2>1. AddressedTo(Append(s, e), u) = AddressedTo(s, u)
        BY <1>1, <1>3 DEF AddressedTo
    <2>2. QED
        BY <1>3, <2>1, Addressed
<1>4. QED
    BY <1>2, <1>3

LEMMA WaitingFinite ==
    ASSUME IsFiniteSet(Busy), NEW u
    PROVE  IsFiniteSet(Waiting(u)) /\ Cardinality(Waiting(u)) \in Nat
<1>1. Waiting(u) \subseteq Busy
    BY DEF Waiting, Busy
<1>2. IsFiniteSet(Waiting(u))
    BY <1>1, FS_Subset
<1>3. QED
    BY <1>2, FS_CardinalityType

LEMMA BusyFinite ==
    ASSUME TypeOK, IsFiniteSet(Busy), NEW w \in Workers, Moves(w)
    PROVE  IsFiniteSet(Busy)'
<1>1. Busy' \subseteq Busy \cup {w}
    BY OthersStay DEF Busy, Stays
<1>2. IsFiniteSet(Busy \cup {w})
    BY FS_AddElement
<1>3. QED
    BY <1>1, <1>2, FS_Subset

LEMMA OtherStepsCount ==
    ASSUME TypeOK, NEW w \in Workers, Moves(w), pc[w] # "announce",
           ~\E o \in Outcomes : InsertNote(w, o)
    PROVE  /\ UNCHANGED <<notes, announced>>
           /\ \A u : Waiting(u)' = Waiting(u)
<1> USE DEF Statement, Goto, TypeOK, tables, events
<1>1. UNCHANGED <<notes, announced>> /\ pc'[w] # "announce"
    <2>1. CASE Reads(w)
        <3>1. \/ \E o \in Ops, i \in PostIds : Request(w, o, i)
              \/ \E o \in Outcomes : FindParent(w, o) \/ ClimbThread(w, o) \/ FindOwner(w, o)
              \/ PublishReply(w) \/ SubscribeThread(w) \/ StreamEnds(w)
              \/ SkipNote(w) \/ CountAndAnswer(w)
            BY <2>1 DEF Reads, AnnounceNote
        <3>2. QED
            BY <3>1, PostsAssumption DEF Request, FirstLabel, AllOps, FindParent,
                ClimbThread, FindOwner, PublishReply, SubscribeThread, StreamEnds,
                SkipNote, CountAndAnswer, AfterNote
    <2>2. ASSUME NEW o \in Outcomes, Inserts(w, o) \/ Deletes(w, o) \/ Refers(w, o)
          PROVE  UNCHANGED <<notes, announced>> /\ pc'[w] # "announce"
        BY <2>2 DEF Inserts, Deletes, Refers, InsertPost, InsertReply, InsertRepostPost,
            DeletePost, DeleteRepostPost, InsertRepost, DeleteRepost, InsertLike, DeleteLike
    <2>3. QED
        BY <2>1, <2>2, KindsOfSteps
<1>2. \A v \in Workers \ {w} : pc'[v] = pc[v] /\ owner'[v] = owner[v]
    BY OthersStay DEF Stays
<1>3. QED
    BY <1>1, <1>2 DEF Waiting

LEMMA CountInvPreserved ==
    ASSUME IInv, CountInv, [Next]_vars PROVE CountInv'
<1>1. CASE UNCHANGED vars
    BY <1>1 DEF vars, CountInv, Busy, Counts, Waiting, AddressedTo
<1>2. ASSUME NEW w \in Workers, Moves(w), NEW u \in Users
      PROVE  Counts(u)'
    <2> DEFINE toldNow == Cardinality(AddressedTo(announced, u))
               stored == Cardinality(AddressedTo(notes, u))
               waiting == Cardinality(Waiting(u))
    <2>1. /\ toldNow \in Nat /\ stored \in Nat /\ waiting \in Nat /\ IsFiniteSet(Waiting(u))
          /\ toldNow + waiting <= stored /\ (faults = 0 => toldNow + waiting = stored)
        BY Addressed, WaitingFinite DEF IInv, TypeOK, CountInv, Counts
    <2>2. faults' = 0 => faults = 0
        BY <1>2, FaultsGrow DEF IInv
    <2>3. CASE pc[w] # "announce" /\ ~\E o \in Outcomes : InsertNote(w, o)
        <3>1. toldNow' = toldNow /\ stored' = stored /\ waiting' = waiting
            BY <1>2, <2>3, OtherStepsCount DEF IInv
        <3>2. QED
            BY <2>1, <2>2, <3>1 DEF Counts
    <2>4. ASSUME NEW o \in Outcomes, InsertNote(w, o)
          PROVE  Counts(u)'
        <3>1. /\ NoteOf(w) \in Note /\ NoteOf(w).to = owner[w] /\ notes \in Seq(Note)
              /\ pc[w] = "notify" /\ UNCHANGED <<announced, owner>>
            <4>1. pc[w] = "notify" /\ UNCHANGED <<announced, owner>>
                BY <2>4 DEF InsertNote, Statement, events, locals
            <4>2. target[w] \in PostIds /\ written[target[w]] \in Row
                BY <4>1 DEF IInv, WorkerInv, TypeOK
            <4>3. owner[w] # NoUser
                BY <4>1, <4>2, PostsAssumption DEF IInv, WorkerInv, Row
            <4>4. QED
                BY <4>1, <4>3, NoteOfType DEF IInv, WorkerInv, TypeOK, NoteOf
        <3>2. /\ \A v \in Workers \ {w} : pc'[v] = pc[v]
              /\ pc'[w] = (IF o = "ok" THEN "announce" ELSE AfterNote(w))
            BY <2>4 DEF InsertNote, Goto, IInv, TypeOK
        <3>3. toldNow' = toldNow
            BY <3>1
        <3>4. CASE o = "ok"
            <4>1. stored' = stored + (IF owner[w] = u THEN 1 ELSE 0)
                BY <2>4, <3>1, <3>4, AddressedAppend DEF InsertNote
            <4>2. waiting' = waiting + (IF owner[w] = u THEN 1 ELSE 0)
                <5>1. CASE owner[w] = u
                    <6>1. Waiting(u)' = Waiting(u) \cup {w} /\ w \notin Waiting(u)
                        BY <3>1, <3>2, <3>4, <5>1 DEF Waiting
                    <6>2. QED
                        BY SMTT(30), <2>1, <5>1, <6>1, FS_AddElement
                <5>2. CASE owner[w] # u
                    <6>1. Waiting(u)' = Waiting(u)
                        BY <3>1, <3>2, <5>2 DEF Waiting
                    <6>2. QED
                        BY <2>1, <5>2, <6>1
                <5>3. QED
                    BY <5>1, <5>2
            <4> HIDE DEF toldNow, stored, waiting
            <4>3. /\ toldNow' + waiting' <= stored'
                  /\ faults = 0 => toldNow' + waiting' = stored'
                BY <2>1, <3>3, <4>1, <4>2
            <4>4. QED
                BY <2>2, <4>3 DEF Counts, toldNow, stored, waiting
        <3>5. CASE o # "ok"
            <4>1. Waiting(u)' = Waiting(u)
                BY <3>1, <3>2, <3>5 DEF Waiting, AfterNote
            <4>2. waiting' = waiting
                BY <4>1
            <4>3. stored' = stored \/ stored' = stored + (IF owner[w] = u THEN 1 ELSE 0)
                <5>1. CASE o = "failed"
                    BY <2>4, <5>1 DEF InsertNote
                <5>2. CASE o # "failed"
                    BY <2>4, <3>1, <5>2, AddressedAppend DEF InsertNote
                <5>3. QED
                    BY <5>1, <5>2
            <4>4. faults' # 0
                BY <2>4, <3>5, PostsAssumption DEF InsertNote, Statement, IInv, TypeOK
            <4> HIDE DEF toldNow, stored, waiting
            <4>5. toldNow' + waiting' <= stored'
                BY <2>1, <3>3, <4>2, <4>3
            <4>6. QED
                BY <4>4, <4>5 DEF Counts, toldNow, stored, waiting
        <3>6. QED
            BY <3>4, <3>5
    <2>5. CASE pc[w] = "announce"
        <3>1. AnnounceNote(w)
            BY <1>2, <2>5, PostsAssumption DEF Moves, Step, Request, InsertPost, DeletePost,
                FindParent, InsertReply, ClimbThread, InsertRepost, InsertRepostPost, DeleteRepost,
                DeleteRepostPost, InsertLike, DeleteLike, FindOwner, InsertNote, PublishReply,
                SubscribeThread, SkipNote, CountAndAnswer, StreamEnds, Statement
        <3>2. /\ NoteOf(w) \in Note /\ NoteOf(w).to = owner[w] /\ announced \in Seq(Note)
              /\ UNCHANGED <<notes, owner, faults>>
            <4>1. UNCHANGED <<notes, owner, faults>>
                BY <3>1 DEF AnnounceNote, tables, locals
            <4>2. target[w] \in PostIds /\ written[target[w]] \in Row
                BY <2>5 DEF IInv, WorkerInv, TypeOK
            <4>3. owner[w] # NoUser
                BY <2>5, <4>2, PostsAssumption DEF IInv, WorkerInv, Row
            <4>4. QED
                BY <2>5, <4>1, <4>3, NoteOfType DEF IInv, WorkerInv, TypeOK, NoteOf
        <3>3. \A v \in Workers \ {w} : pc'[v] = pc[v]
            BY <3>1 DEF AnnounceNote, Goto, IInv, TypeOK
        <3>4. pc'[w] # "announce"
            BY <3>1 DEF AnnounceNote, Goto, AfterNote, IInv, TypeOK
        <3>5. stored' = stored
            BY <3>2
        <3>6. toldNow' = toldNow + (IF owner[w] = u THEN 1 ELSE 0)
            BY <3>1, <3>2, AddressedAppend DEF AnnounceNote
        <3>7. waiting' = waiting - (IF owner[w] = u THEN 1 ELSE 0)
            <4>1. CASE owner[w] = u
                <5>1. Waiting(u)' = Waiting(u) \ {w} /\ w \in Waiting(u)
                    BY <2>5, <3>2, <3>3, <3>4, <4>1 DEF Waiting
                <5>2. QED
                    BY <2>1, <4>1, <5>1, FS_RemoveElement
            <4>2. CASE owner[w] # u
                <5>1. Waiting(u)' = Waiting(u)
                    BY <2>5, <3>2, <3>3, <3>4, <4>2 DEF Waiting
                <5>2. QED
                    BY <2>1, <4>2, <5>1
            <4>3. QED
                BY <4>1, <4>2
        <3> HIDE DEF toldNow, stored, waiting
        <3>8. toldNow' + waiting' <= stored' /\ (faults' = 0 => toldNow' + waiting' = stored')
            BY <2>1, <2>2, <3>5, <3>6, <3>7
        <3>9. QED
            BY <3>8 DEF Counts, toldNow, stored, waiting
    <2>6. QED
        BY <2>3, <2>4, <2>5
<1>3. ASSUME NEW w \in Workers, Moves(w)
      PROVE  CountInv'
    BY <1>2, <1>3, BusyFinite DEF IInv, CountInv
<1>4. QED
    BY <1>1, <1>3, OneMoves

LEMMA InitCountInv == Init => CountInv
<1> SUFFICES ASSUME Init PROVE CountInv
    OBVIOUS
<1>1. Busy = {} /\ \A u : Waiting(u) = {}
    BY DEF Init, Busy, Waiting
<1>2. \A u : AddressedTo(notes, u) = {} /\ AddressedTo(announced, u) = {}
    BY DEF Init, AddressedTo
<1>3. IsFiniteSet({}) /\ Cardinality({}) = 0
    BY FS_EmptySet
<1>4. QED
    BY <1>1, <1>2, <1>3 DEF CountInv, Counts

(* notification.go:149-161: a client is never told of a notification that   *)
(* is not stored, and, when no statement fails, of every one exactly once.  *)
THEOREM StoredIsAnnounced == Spec => []AnnouncedAsStored
<1>1. IInv /\ CountInv /\ [Next]_vars => CountInv'
    BY CountInvPreserved
<1>2. IInv /\ CountInv => AnnouncedAsStored
    <2> SUFFICES ASSUME IInv, CountInv, NEW u \in Users
                 PROVE  LET told == Cardinality(AddressedTo(announced, u))
                            stored == Cardinality(AddressedTo(notes, u))
                        IN  told <= stored /\ (Idle /\ faults = 0 => told = stored)
        BY DEF AnnouncedAsStored, AddressedTo
    <2>1. /\ Cardinality(AddressedTo(announced, u)) \in Nat
          /\ Cardinality(AddressedTo(notes, u)) \in Nat
          /\ Cardinality(Waiting(u)) \in Nat
        BY Addressed, WaitingFinite DEF IInv, TypeOK, CountInv
    <2>2. Idle => Waiting(u) = {}
        BY DEF Idle, Waiting
    <2>3. Idle => Cardinality(Waiting(u)) = 0
        BY <2>2, FS_EmptySet
    <2>4. QED
        BY <2>1, <2>3 DEF CountInv, Counts
<1>3. QED
    BY <1>1, <1>2, InitCountInv, Invariance, PTL DEF Spec

-----------------------------------------------------------------------------
(* Threads.  Induction over the ids, from the fact that the natural numbers  *)
(* are well-founded: a set of ids that has a smallest element outside it     *)
(* whenever it lacks one has them all.                                       *)
Less == {pair \in Nat \X Nat : pair[1] < pair[2]}

LEMMA LessIsWellFounded == IsWellFoundedOn(Less, Nat)
<1>1. IsWellFoundedOn(OpToRel(<, Nat), Nat)
    BY NatLessThanWellFounded
<1>2. QED
    BY <1>1 DEF OpToRel, Less

LEMMA Smallest ==
    ASSUME NEW T, T \subseteq Nat, T # {}
    PROVE  \E x \in T : \A y \in T : x <= y
<1>1. PICK x \in T : \A y \in T : ~(<<y, x>> \in Less)
    BY LessIsWellFounded, WFMin
<1>2. \A a, b \in Nat : a < b => <<a, b>> \in Less
    BY DEF Less
<1>3. ASSUME NEW y \in T PROVE x <= y
    <2>1. x \in Nat /\ y \in Nat /\ ~(y < x)
        BY <1>1, <1>2
    <2>2. QED
        BY <2>1
<1>4. QED
    BY <1>3

LEMMA IdInduction ==
    ASSUME NEW S, \A i \in OptId : (\A j \in OptId : j < i => j \in S) => i \in S
    PROVE  OptId \subseteq S
<1>1. SUFFICES ASSUME OptId \ S # {} PROVE FALSE
    OBVIOUS
<1>2. OptId \ S \subseteq Nat
    BY PostsAssumption DEF OptId
<1>3. PICK x \in OptId \ S : \A y \in OptId \ S : x <= y
    BY <1>1, <1>2, Smallest
<1>4. ASSUME NEW j \in OptId, j < x PROVE j \in S
    <2>1. x \in Nat /\ j \in Nat
        BY PostsAssumption DEF OptId
    <2>2. j \notin OptId \ S
        BY <1>3, <1>4, <2>1
    <2>3. QED
        BY <2>2
<1>5. QED
    BY <1>3, <1>4

(* A reply, of which the post above it is known. *)
Answered(i) == i # 0 /\ written[i] # NoPost /\ written[i].parent # 0

LEMMA ParentsAreIds ==
    TypeOK => \A i \in OptId : Answered(i) => written[i].parent \in PostIds
<1> SUFFICES ASSUME TypeOK, NEW i \in OptId, Answered(i) PROVE written[i].parent \in PostIds
    OBVIOUS
<1>1. i \in PostIds
    BY PostsAssumption DEF Answered, OptId, PostIds
<1>2. written[i] \in Row
    BY <1>1 DEF TypeOK, Answered
<1>3. written[i].parent \in OptId /\ written[i].parent # 0
    BY <1>2 DEF Row, Answered
<1>4. QED
    BY <1>3, PostsAssumption DEF OptId, PostIds

(* The equation of Ancestors has a solution: the least sets closed under     *)
(* parents.                                                                  *)
LEMMA AncestorsAre ==
    TypeOK => \A i \in OptId :
        Ancestors[i] = IF Answered(i) THEN {written[i].parent} \cup Ancestors[written[i].parent]
                       ELSE {}
<1> SUFFICES ASSUME TypeOK
             PROVE  \A i \in OptId : Ancestors[i] =
                        IF Answered(i) THEN {written[i].parent} \cup Ancestors[written[i].parent]
                        ELSE {}
    OBVIOUS
<1> DEFINE Up(C) == \A c \in C : Answered(c) => written[c].parent \in C
           Closed(C, i) == Up(C) /\ (Answered(i) => written[i].parent \in C)
           Least(i) == {j \in PostIds : \A C \in SUBSET PostIds : Closed(C, i) => j \in C}
           Solves(f) == f = [i \in OptId |->
                                IF i = 0 \/ written[i] = NoPost THEN {}
                                ELSE IF written[i].parent = 0 THEN {}
                                ELSE {written[i].parent} \cup f[written[i].parent]]
           least == [i \in OptId |-> Least(i)]
<1>1. PostIds \subseteq OptId
    BY PostsAssumption DEF OptId, PostIds
<1>2. ASSUME NEW i \in OptId, ~Answered(i)
      PROVE  Least(i) = {}
    <2>1. {} \in SUBSET PostIds /\ Closed({}, i)
        BY <1>2
    <2>2. QED
        BY <2>1
<1>3. ASSUME NEW i \in OptId, Answered(i)
      PROVE  Least(i) = {written[i].parent} \cup Least(written[i].parent)
    <2> DEFINE p == written[i].parent
    <2>1. p \in PostIds
        BY <1>3, ParentsAreIds
    <2>2. p \in Least(i)
        BY <1>3, <2>1
    <2>3. Least(p) \subseteq Least(i)
        <3>1. ASSUME NEW C \in SUBSET PostIds, Closed(C, i) PROVE Closed(C, p)
            BY <1>3, <3>1
        <3>2. QED
            BY <3>1
    <2>4. Closed({p} \cup Least(p), i)
        <3>1. Answered(p) => written[p].parent \in Least(p)
            BY <1>1, <2>1, ParentsAreIds
        <3>2. ASSUME NEW c \in Least(p), Answered(c) PROVE written[c].parent \in Least(p)
            <4>1. written[c].parent \in PostIds
                BY <1>1, <3>2, ParentsAreIds
            <4>2. ASSUME NEW C \in SUBSET PostIds, Closed(C, p) PROVE written[c].parent \in C
                BY <3>2, <4>2
            <4>3. QED
                BY <4>1, <4>2
        <3> HIDE DEF Least
        <3>3. QED
            BY <3>1, <3>2
    <2>5. {p} \cup Least(p) \in SUBSET PostIds
        BY <2>1
    <2>6. Least(i) \subseteq {p} \cup Least(p)
        <3>1. \A C \in SUBSET PostIds : Closed(C, i) => Least(i) \subseteq C
            OBVIOUS
        <3> HIDE DEF Least, Closed
        <3>2. QED
            BY <2>4, <2>5, <3>1
    <2>7. QED
        BY <2>2, <2>3, <2>6
<1>4. Solves(least)
    <2> HIDE DEF Least
    <2>1. ASSUME NEW i \in OptId
          PROVE  least[i] = IF i = 0 \/ written[i] = NoPost THEN {}
                            ELSE IF written[i].parent = 0 THEN {}
                            ELSE {written[i].parent} \cup least[written[i].parent]
        <3>1. CASE Answered(i)
            <4>1. written[i].parent \in OptId
                BY <1>1, <3>1, ParentsAreIds
            <4>2. least[written[i].parent] = Least(written[i].parent)
                BY <4>1
            <4>3. QED
                BY <1>3, <3>1, <4>2 DEF Answered
        <3>2. CASE ~Answered(i)
            BY <1>2, <3>2 DEF Answered
        <3>3. QED
            BY <3>1, <3>2
    <2>2. QED
        BY <2>1
<1>5. Ancestors = CHOOSE f : Solves(f)
    BY DEF Ancestors
<1>6. Solves(Ancestors)
    <2> HIDE DEF Solves, least
    <2>1. QED
        BY <1>4, <1>5
<1>7. QED
    BY <1>6 DEF Answered

(* Ancestors were written before. *)
LEMMA AncestorsEarlier ==
    TypeOK /\ RowsInv =>
        \A i \in OptId : Ancestors[i] \subseteq PostIds /\ \A a \in Ancestors[i] : a < i
<1> SUFFICES ASSUME TypeOK, RowsInv
             PROVE  \A i \in OptId : Ancestors[i] \subseteq PostIds /\ \A a \in Ancestors[i] : a < i
    OBVIOUS
<1> DEFINE Earlier == {i \in OptId : /\ Ancestors[i] \subseteq PostIds
                                     /\ \A a \in Ancestors[i] : a < i}
<1>1. ASSUME NEW i \in OptId, \A j \in OptId : j < i => j \in Earlier
      PROVE  i \in Earlier
    <2>1. CASE Answered(i)
        <3> DEFINE p == written[i].parent
        <3>1. p \in PostIds /\ p \in OptId /\ p < i /\ i \in Nat /\ p \in Nat
            BY <2>1, ParentsAreIds, PostsAssumption DEF RowsInv, Answered, OptId, PostIds
        <3>2. Ancestors[i] = {p} \cup Ancestors[p]
            BY <2>1, AncestorsAre
        <3> HIDE DEF p
        <3>3. p \in Earlier
            BY <1>1, <3>1
        <3>4. ASSUME NEW a \in Ancestors[i] PROVE a \in PostIds /\ a < i
            <4>1. CASE a = p
                BY <3>1, <4>1
            <4>2. CASE a \in Ancestors[p]
                <5>1. a \in PostIds /\ a < p /\ a \in Nat
                    BY <3>3, <4>2, PostsAssumption DEF PostIds
                <5>2. QED
                    BY <3>1, <5>1
            <4>3. QED
                BY <3>2, <3>4, <4>1, <4>2
        <3>5. QED
            BY <3>4
    <2>2. CASE ~Answered(i)
        BY <2>2, AncestorsAre
    <2>3. QED
        BY <2>1, <2>2
<1>2. OptId \subseteq Earlier
    <2> HIDE DEF Earlier
    <2>1. QED
        BY <1>1, IdInduction
<1>3. QED
    BY <1>2

(* One level up there is one ancestor less. *)
LEMMA OneLevelUp ==
    TypeOK /\ RowsInv =>
        \A i \in OptId :
            /\ Cardinality(Ancestors[i]) \in Nat
            /\ Answered(i) => Cardinality(Ancestors[i]) =
                                Cardinality(Ancestors[written[i].parent]) + 1
            /\ ~Answered(i) => Cardinality(Ancestors[i]) = 0
<1> SUFFICES ASSUME TypeOK, RowsInv, NEW i \in OptId
             PROVE  /\ Cardinality(Ancestors[i]) \in Nat
                    /\ Answered(i) => Cardinality(Ancestors[i]) =
                                        Cardinality(Ancestors[written[i].parent]) + 1
                    /\ ~Answered(i) => Cardinality(Ancestors[i]) = 0
    OBVIOUS
<1>1. ASSUME NEW j \in OptId
      PROVE  IsFiniteSet(Ancestors[j]) /\ Cardinality(Ancestors[j]) \in Nat
    <2>1. IsFiniteSet(PostIds)
        BY FS_Interval, PostsAssumption DEF PostIds
    <2>2. IsFiniteSet(Ancestors[j])
        BY <2>1, AncestorsEarlier, FS_Subset
    <2>3. QED
        BY <2>2, FS_CardinalityType
<1>2. ASSUME Answered(i)
      PROVE  Cardinality(Ancestors[i]) = Cardinality(Ancestors[written[i].parent]) + 1
    <2> DEFINE p == written[i].parent
    <2>1. p \in PostIds /\ p \in OptId /\ p \in Nat
        BY <1>2, ParentsAreIds, PostsAssumption DEF OptId, PostIds
    <2>2. Ancestors[i] = Ancestors[p] \cup {p}
        BY <1>2, AncestorsAre
    <2>3. p \notin Ancestors[p]
        BY <2>1, AncestorsEarlier
    <2>4. IsFiniteSet(Ancestors[p])
        BY <1>1, <2>1
    <2>5. Cardinality(Ancestors[p] \cup {p}) = Cardinality(Ancestors[p]) + 1
        BY <2>3, <2>4, FS_AddElement
    <2>6. QED
        BY <2>2, <2>5
<1>3. ASSUME ~Answered(i) PROVE Cardinality(Ancestors[i]) = 0
    BY <1>3, AncestorsAre, FS_EmptySet
<1>4. QED
    BY <1>1, <1>2, <1>3

(* A thread has one top: the posts below share it. *)
LEMMA RootIs ==
    TypeOK /\ RowsInv =>
        \A i \in OptId :
            TrueRoot(i) = IF Answered(i) THEN TrueRoot(written[i].parent) ELSE i
<1> SUFFICES ASSUME TypeOK, RowsInv
             PROVE  \A i \in OptId :
                        TrueRoot(i) = IF Answered(i) THEN TrueRoot(written[i].parent) ELSE i
    OBVIOUS
<1> DEFINE Tops(i) == {r \in {i} \cup Ancestors[i] : Ancestors[r] = {}}
           Single == {i \in OptId : \E r : Tops(i) = {r}}
<1>1. ASSUME NEW i \in OptId, ~Answered(i)
      PROVE  Ancestors[i] = {} /\ Tops(i) = {i}
    BY <1>1, AncestorsAre
<1>2. ASSUME NEW i \in OptId, Answered(i)
      PROVE  Ancestors[i] # {} /\ Tops(i) = Tops(written[i].parent)
    BY <1>2, AncestorsAre
<1>3. ASSUME NEW i \in OptId, Answered(i)
      PROVE  written[i].parent \in OptId /\ written[i].parent < i
    BY <1>3, ParentsAreIds, PostsAssumption DEF RowsInv, Answered, OptId, PostIds
<1>4. OptId \subseteq Single
    <2>1. ASSUME NEW i \in OptId, \A j \in OptId : j < i => j \in Single
          PROVE  i \in Single
        <3>1. CASE Answered(i)
            <4>1. written[i].parent \in Single
                BY <1>3, <2>1, <3>1
            <4> HIDE DEF Tops
            <4>2. QED
                BY <1>2, <3>1, <4>1
        <3> HIDE DEF Tops
        <3>2. QED
            BY <1>1, <3>1
    <2> HIDE DEF Single
    <2>2. QED
        BY <2>1, IdInduction
<1>5. ASSUME NEW i \in OptId PROVE TrueRoot(i) \in Tops(i)
    <2>1. PICK r : Tops(i) = {r}
        BY <1>4
    <2>2. CASE Ancestors[i] = {}
        BY <2>2 DEF TrueRoot
    <2>3. CASE Ancestors[i] # {}
        <3>1. r \in Ancestors[i] /\ Ancestors[r] = {}
            BY <2>1, <2>3
        <3>2. TrueRoot(i) = CHOOSE s \in Ancestors[i] : Ancestors[s] = {}
            BY <2>3 DEF TrueRoot
        <3>3. TrueRoot(i) \in Ancestors[i] /\ Ancestors[TrueRoot(i)] = {}
            BY <3>1, <3>2
        <3>4. QED
            BY <3>3
    <2>4. QED
        BY <2>2, <2>3
<1>6. ASSUME NEW i \in OptId
      PROVE  TrueRoot(i) = IF Answered(i) THEN TrueRoot(written[i].parent) ELSE i
    <2> HIDE DEF Tops
    <2>1. CASE Answered(i)
        <3>1. PICK r : Tops(i) = {r}
            BY <1>4
        <3>2. TrueRoot(i) \in Tops(i) /\ TrueRoot(written[i].parent) \in Tops(i)
            BY <1>2, <1>3, <1>5, <2>1
        <3>3. QED
            BY <2>1, <3>1, <3>2
    <2>2. CASE ~Answered(i)
        <3>1. TrueRoot(i) \in {i}
            BY <1>1, <1>5, <2>2
        <3>2. QED
            BY <2>2, <3>1
    <2>3. QED
        BY <2>1, <2>2
<1>7. QED
    BY <1>6

-----------------------------------------------------------------------------
(* Requests that climb a thread: CreateReply, once its reply is written, to  *)
(* publish it, and ThreadStream, to subscribe.                               *)
Replying(w) == op[w] = "CreateReply" /\ pc[w] \in {"root", "publish"}

Streaming(w) ==
    op[w] = "ThreadStream" /\ pc[w] \in {"root", "subscribe", "streaming"} /\ opened[w]

Climber(w) ==
    /\ pc[w] = "root" => op[w] \in {"CreateReply", "ThreadStream"}
    /\ pc[w] = "publish" => op[w] = "CreateReply"
    /\ pc[w] \in {"subscribe", "streaming"} => op[w] = "ThreadStream"
    /\ op[w] = "CreateReply" /\ pc[w] \in {"findParent", "insertReply", "notify", "announce"}
            => root[w] = target[w] /\ depth[w] = 0
    /\ Replying(w) => /\ written[target[w]] # NoPost
                      /\ newId[w] # 0
                      /\ written[newId[w]] # NoPost
                      /\ written[newId[w]].parent = target[w]
    /\ Streaming(w) => written[target[w]] # NoPost

ClimbersInv ==
    /\ \A w \in Workers : Climber(w)
    /\ \A n \in 1..Len(threadEvents) : written[threadEvents[n].post] # NoPost

(* What ThreadReachesStreams assumes of the tables, and what holds then: a   *)
(* climb is still in the thread it started in, as deep as it has come, and   *)
(* ends at the top; replies were published under the top of their thread.    *)
Untouched ==
    /\ posts = written /\ faults = 0
    /\ \A i \in PostIds : Cardinality(Ancestors[i]) <= MaxThreadDepth

Climbed(w) ==
    IF pc[w] = "root"
    THEN /\ written[root[w]] # NoPost
         /\ TrueRoot(root[w]) = TrueRoot(target[w])
         /\ depth[w] + Cardinality(Ancestors[root[w]]) = Cardinality(Ancestors[target[w]])
    ELSE root[w] = TrueRoot(target[w])

ThreadInv ==
    Untouched =>
        /\ \A w \in Workers : Replying(w) \/ Streaming(w) => Climbed(w)
        /\ \A n \in 1..Len(threadEvents) :
                threadEvents[n].key = TrueRoot(threadEvents[n].post)

(* Later rows change nothing above a row. *)
LEMMA ThreadsKeep ==
    ASSUME TypeOK, RowsInv, TypeOK', RowsInv',
           \A i \in PostIds : written[i] # NoPost => written'[i] = written[i]
    PROVE  \A i \in PostIds : written[i] # NoPost =>
                Ancestors'[i] = Ancestors[i] /\ TrueRoot(i)' = TrueRoot(i)
<1> DEFINE Same(i) == Ancestors'[i] = Ancestors[i] /\ TrueRoot(i)' = TrueRoot(i)
           Kept == {i \in OptId : i \in PostIds /\ written[i] # NoPost => Same(i)}
<1>1. /\ \A i \in OptId :
            Ancestors'[i] = IF Answered(i)' THEN {written'[i].parent} \cup Ancestors'[written'[i].parent]
                            ELSE {}
      /\ \A i \in OptId :
            TrueRoot(i)' = IF Answered(i)' THEN TrueRoot(written[i].parent)' ELSE i
    <2>1. TypeOK' => (\A i \in OptId :
            Ancestors[i] = IF Answered(i) THEN {written[i].parent} \cup Ancestors[written[i].parent]
                           ELSE {})'
        BY AncestorsAre, PTL
    <2>2. (TypeOK /\ RowsInv)' => (\A i \in OptId :
            TrueRoot(i) = IF Answered(i) THEN TrueRoot(written[i].parent) ELSE i)'
        BY RootIs, PTL
    <2>3. QED
        BY <2>1, <2>2
<1>2. ASSUME NEW i \in OptId, \A j \in OptId : j < i => j \in Kept,
             i \in PostIds, written[i] # NoPost
      PROVE  Same(i)
    <2>1. written'[i] = written[i]
        BY <1>2
    <2>2. CASE Answered(i)
        <3>1. PICK p \in PostIds : p = written[i].parent
            BY <2>2, ParentsAreIds
        <3>2. p \in OptId /\ p < i /\ written[p] # NoPost
            BY <1>2, <3>1, PostsAssumption DEF RowsInv, TypeOK, OptId, PostIds
        <3>3. Same(p)
            BY <1>2, <3>2
        <3>4. Answered(i)' /\ written'[i].parent = p
            BY <2>1, <2>2, <3>1 DEF Answered
        <3>5. TrueRoot(i)' = TrueRoot(p)'
            BY <1>1, <3>4
        <3>6. Ancestors'[i] = {p} \cup Ancestors'[p]
            BY <1>1, <3>4
        <3>7. Ancestors[i] = {p} \cup Ancestors[p] /\ TrueRoot(i) = TrueRoot(p)
            BY <2>2, <3>1, AncestorsAre, RootIs
        <3>8. QED
            BY <3>3, <3>5, <3>6, <3>7
    <2>3. CASE ~Answered(i)
        <3>1. ~Answered(i)'
            BY <2>1, <2>3 DEF Answered
        <3>2. Ancestors'[i] = {} /\ TrueRoot(i)' = i
            BY <1>1, <3>1
        <3>3. Ancestors[i] = {} /\ TrueRoot(i) = i
            BY <2>3, AncestorsAre, RootIs
        <3>4. QED
            BY <3>2, <3>3
    <2>4. QED
        BY <2>2, <2>3
<1>3. OptId \subseteq Kept
    <2>1. ASSUME NEW i \in OptId, \A j \in OptId : j < i => j \in Kept
          PROVE  i \in Kept
        <3> HIDE DEF Same
        <3>1. QED
            BY <1>2, <2>1
    <2> HIDE DEF Kept
    <2>2. QED
        BY <2>1, IdInduction
<1>4. PostIds \subseteq OptId
    BY PostsAssumption DEF OptId, PostIds
<1>5. QED
    <2> HIDE DEF Same
    <2>1. \A i \in PostIds : written[i] # NoPost => Same(i)
        BY <1>3, <1>4
    <2>2. QED
        BY <2>1 DEF Same

(* What happened to the tables does not come undone. *)
LEMMA TouchedStays ==
    ASSUME IInv, IInv', NEW w \in Workers, Moves(w), Untouched'
    PROVE  Untouched
<1>1. \A j \in PostIds : written[j] # NoPost => written'[j] = written[j]
    BY WrittenStays
<1>2. ASSUME NEW j \in PostIds, written[j] # NoPost, posts[j] = NoPost
      PROVE  posts'[j] = NoPost
    <2>1. CASE Reads(w)
        BY <1>2, <2>1, ReadsKeepRows
    <2>2. ASSUME NEW o \in Outcomes, Inserts(w, o) PROVE posts'[j] = NoPost
        BY <1>2, <2>2, NewRow DEF IInv, TypeOK
    <2>3. ASSUME NEW o \in Outcomes, Deletes(w, o) PROVE posts'[j] = NoPost
        BY <1>2, <2>3, GoneRows
    <2>4. ASSUME NEW o \in Outcomes, Refers(w, o) PROVE posts' = posts
        BY <2>4 DEF Refers, InsertRepost, DeleteRepost, InsertLike, DeleteLike
    <2>5. QED
        BY <1>2, <2>1, <2>2, <2>3, <2>4, KindsOfSteps
<1>3. posts = written
    <2>1. ASSUME NEW j \in PostIds PROVE posts[j] = written[j]
        <3>1. posts'[j] = written'[j]
            BY DEF Untouched
        <3>2. QED
            BY <1>1, <1>2, <3>1 DEF IInv, RowsInv
    <2>2. posts \in [PostIds -> Row \cup {NoPost}] /\ written \in [PostIds -> Row \cup {NoPost}]
        BY DEF IInv, TypeOK
    <2>3. QED
        BY <2>1, <2>2
<1>4. faults = 0
    BY FaultsGrow DEF IInv, Untouched
<1>5. ASSUME NEW i \in PostIds PROVE Cardinality(Ancestors[i]) <= MaxThreadDepth
    <2>1. i \in OptId
        BY PostsAssumption DEF OptId, PostIds
    <2>2. CASE written[i] = NoPost
        <3>1. Cardinality(Ancestors[i]) = 0
            BY <2>1, <2>2, OneLevelUp DEF IInv, Answered
        <3>2. QED
            BY <3>1, PostsAssumption
    <2>3. CASE written[i] # NoPost
        <3>1. Ancestors'[i] = Ancestors[i]
            BY <1>1, <2>3, ThreadsKeep DEF IInv
        <3>2. Cardinality(Ancestors'[i]) <= MaxThreadDepth
            BY DEF Untouched
        <3>3. QED
            BY <3>1, <3>2
    <2>4. QED
        BY <2>2, <2>3
<1>6. QED
    BY <1>3, <1>4, <1>5 DEF Untouched

(* Nobody touches the climb of another request, and only PublishReply the    *)
(* events.                                                                   *)
LEMMA ClimbersStay ==
    ASSUME TypeOK, NEW w \in Workers, Moves(w), NEW v \in Workers, v # w
    PROVE  root'[v] = root[v] /\ depth'[v] = depth[v] /\ newId'[v] = newId[v] /\ opened'[v] = opened[v]
<1> USE DEF TypeOK, args, locals
<1>1. CASE Reads(w)
    BY <1>1 DEF Reads, Request, FindParent, ClimbThread, FindOwner, InsertNote, PublishReply,
        SubscribeThread, StreamEnds, SkipNote, AnnounceNote, CountAndAnswer
<1>2. ASSUME NEW o \in Outcomes, Inserts(w, o)
      PROVE  UNCHANGED <<root, depth, opened>> /\ newId'[v] = newId[v]
    BY <1>2 DEF Inserts, InsertPost, InsertReply, InsertRepostPost
<1>3. ASSUME NEW o \in Outcomes, Deletes(w, o) \/ Refers(w, o)
      PROVE  UNCHANGED <<root, depth, opened, newId>>
    BY <1>3 DEF Deletes, Refers, DeletePost, DeleteRepostPost, InsertRepost, DeleteRepost,
        InsertLike, DeleteLike
<1>4. QED
    BY <1>1, <1>2, <1>3, KindsOfSteps

LEMMA EventsStay ==
    ASSUME NEW w \in Workers, Moves(w)
    PROVE  threadEvents' = threadEvents \/ PublishReply(w)
<1> USE DEF events
<1>1. ASSUME Reads(w), ~PublishReply(w)
      PROVE  threadEvents' = threadEvents
    BY <1>1 DEF Reads, Request, FindParent, ClimbThread, FindOwner, InsertNote,
        SubscribeThread, StreamEnds, SkipNote, AnnounceNote, CountAndAnswer
<1>2. ASSUME NEW o \in Outcomes, Inserts(w, o) \/ Deletes(w, o) \/ Refers(w, o)
      PROVE  threadEvents' = threadEvents
    BY <1>2 DEF Inserts, InsertPost, InsertReply, InsertRepostPost, Deletes, Refers, DeletePost,
        DeleteRepostPost, InsertRepost, DeleteRepost, InsertLike, DeleteLike
<1>3. QED
    BY <1>1, <1>2, KindsOfSteps

(* A climb of which nothing changes but rows written elsewhere. *)
LEMMA ClimbKept ==
    ASSUME IInv, IInv', ClimbersInv, NEW w \in Workers, NEW v \in Workers, Moves(w),
           pc'[v] = pc[v], op'[v] = op[v], target'[v] = target[v], root'[v] = root[v],
           depth'[v] = depth[v], newId'[v] = newId[v], opened'[v] = opened[v]
    PROVE  Climber(v)' /\ (Climbed(v) /\ (Replying(v) \/ Streaming(v)) => Climbed(v)')
<1>1. \A j \in PostIds : written[j] # NoPost => written'[j] = written[j]
    BY WrittenStays
<1>2. /\ target[v] \in PostIds /\ root[v] \in PostIds
      /\ newId[v] # 0 => newId[v] \in PostIds
    <2>1. target[v] \in PostIds /\ root[v] \in PostIds /\ newId[v] \in OptId
        BY DEF IInv, TypeOK
    <2>2. QED
        BY <2>1, PostsAssumption DEF OptId, PostIds
<1>3. Climber(v)
    BY DEF ClimbersInv
<1>4. Climber(v)'
    BY <1>1, <1>2, <1>3 DEF Climber, Replying, Streaming
<1>5. ASSUME Replying(v) \/ Streaming(v), Climbed(v)
      PROVE  Climbed(v)'
    <2>1. written[target[v]] # NoPost
        BY <1>3, <1>5 DEF Climber
    <2>2. PICK t \in PostIds : t = target[v]
        BY <1>2
    <2>3. PICK r \in PostIds : r = root[v]
        BY <1>2
    <2>4. Ancestors'[t] = Ancestors[t] /\ TrueRoot(t)' = TrueRoot(t)
        BY <1>1, <2>1, <2>2, ThreadsKeep DEF IInv
    <2>5. CASE pc[v] = "root"
        <3>1. written[r] # NoPost
            BY <1>5, <2>3, <2>5 DEF Climbed
        <3>2. Ancestors'[r] = Ancestors[r] /\ TrueRoot(r)' = TrueRoot(r)
            BY <1>1, <3>1, ThreadsKeep DEF IInv
        <3>3. written'[r] # NoPost
            BY <1>1, <3>1
        <3>4. TrueRoot(r) = TrueRoot(t) /\
              depth[v] + Cardinality(Ancestors[r]) = Cardinality(Ancestors[t])
            BY <1>5, <2>2, <2>3, <2>5 DEF Climbed
        <3>5. target'[v] = t /\ root'[v] = r
            BY <2>2, <2>3
        <3>6. TrueRoot(root[v])' = TrueRoot(r)' /\ TrueRoot(target[v])' = TrueRoot(t)'
            BY <3>5
        <3>7. QED
            BY <2>4, <2>5, <3>2, <3>3, <3>4, <3>5, <3>6 DEF Climbed
    <2>6. CASE pc[v] # "root"
        <3>1. r = TrueRoot(t)
            BY <1>5, <2>2, <2>3, <2>6 DEF Climbed
        <3>2. target'[v] = t /\ root'[v] = r
            BY <2>2, <2>3
        <3>3. TrueRoot(target[v])' = TrueRoot(t)'
            BY <3>2
        <3>4. QED
            BY <2>4, <2>6, <3>1, <3>2, <3>3 DEF Climbed
    <2>7. QED
        BY <2>5, <2>6
<1>6. QED
    BY <1>4, <1>5

(* The first climb of a request starts at the post it names. *)
LEMMA ClimbStarts ==
    ASSUME NEW w \in Workers, IInv', pc'[w] = "root", root'[w] = target'[w], depth'[w] = 0,
           written'[target'[w]] # NoPost
    PROVE  Climbed(w)'
<1>1. target'[w] \in OptId
    BY PostsAssumption DEF IInv, TypeOK, OptId, PostIds
<1>2. (TypeOK /\ RowsInv)' =>
        (\A i \in OptId :
            /\ Cardinality(Ancestors[i]) \in Nat
            /\ Answered(i) => Cardinality(Ancestors[i]) =
                                Cardinality(Ancestors[written[i].parent]) + 1
            /\ ~Answered(i) => Cardinality(Ancestors[i]) = 0)'
    BY OneLevelUp, PTL
<1>3. Cardinality(Ancestors'[target'[w]]) \in Nat
    BY <1>1, <1>2 DEF IInv
<1>4. TrueRoot(root[w])' = TrueRoot(target[w])'
    BY DEF TrueRoot
<1>5. QED
    BY <1>3, <1>4 DEF Climbed

LEMMA RequestClimbs ==
    ASSUME IInv, IInv', NEW w \in Workers, NEW o \in Ops, NEW i \in PostIds, Request(w, o, i)
    PROVE  Climber(w)' /\ ((Replying(w) \/ Streaming(w))' => Climbed(w)')
<1>1. /\ pc'[w] = FirstLabel[o] /\ op'[w] = o /\ target'[w] = i /\ root'[w] = i
      /\ depth'[w] = 0 /\ opened'[w] = (written[i] # NoPost) /\ written' = written
    BY DEF Request, Goto, IInv, TypeOK, tables
<1>2. /\ o \in AllOps
      /\ FirstLabel[o] = "root" => o = "ThreadStream"
      /\ FirstLabel[o] \notin {"publish", "subscribe", "streaming", "notify", "announce"}
    BY PostsAssumption DEF FirstLabel, AllOps
<1>3. Climber(w)'
    BY <1>1, <1>2 DEF Climber, Replying, Streaming
<1>4. ASSUME (Replying(w) \/ Streaming(w))'
      PROVE  Climbed(w)'
    BY <1>1, <1>2, <1>4, ClimbStarts DEF Replying, Streaming
<1>5. QED
    BY <1>3, <1>4

(* The steps of CreateReply before it climbs, and those of other requests. *)
LEMMA BeforeTheClimb ==
    ASSUME IInv, IInv', ClimbersInv, NEW w \in Workers, Moves(w),
           pc[w] \notin {"idle", "root", "publish", "subscribe", "streaming"}
    PROVE  Climber(w)' /\ ((Replying(w) \/ Streaming(w))' => Climbed(w)')
<1> USE DEF IInv, TypeOK, args, locals, Goto, Statement
<1> DEFINE Effect ==
        /\ op'[w] = op[w] /\ target'[w] = target[w] /\ opened'[w] = opened[w]
        /\ root'[w] = root[w] /\ depth'[w] = depth[w]
        /\ \/ pc'[w] \in {"idle", "insertRepostPost", "findOwner", "deleteRepostPost", "count"}
           \/ pc[w] = "findParent" /\ pc'[w] = "insertReply"
           \/ pc[w] = "insertReply" /\ pc'[w] = "notify"
           \/ pc[w] = "findOwner" /\ pc'[w] = "notify"
           \/ pc[w] = "notify" /\ pc'[w] = "announce"
           \/ /\ pc[w] \in {"notify", "announce"} /\ pc'[w] = AfterNote(w)
              /\ newId'[w] = newId[w] /\ written' = written
<1>1. Effect
    <2>1. CASE Reads(w)
        BY <2>1 DEF Reads, Request, FindParent, ClimbThread, FindOwner, InsertNote, PublishReply,
            SubscribeThread, StreamEnds, SkipNote, AnnounceNote, CountAndAnswer, tables
    <2>2. ASSUME NEW o \in Outcomes, Inserts(w, o) PROVE Effect
        BY <2>2 DEF Inserts, InsertPost, InsertReply, InsertRepostPost
    <2>3. ASSUME NEW o \in Outcomes, Deletes(w, o) \/ Refers(w, o) PROVE Effect
        BY <2>3 DEF Deletes, Refers, DeletePost, DeleteRepostPost, InsertRepost, DeleteRepost,
            InsertLike, DeleteLike
    <2>4. QED
        BY <2>1, <2>2, <2>3, KindsOfSteps
<1> HIDE DEF IInv, TypeOK, args, locals, Goto, Statement
<1>2. Climber(w)
    BY DEF ClimbersInv
<1>3. WorkerInv
    BY DEF IInv
<1>4. ASSUME ~(pc[w] \in {"notify", "announce"} /\ pc'[w] = "root")
      PROVE  Climber(w)' /\ ~(Replying(w) \/ Streaming(w))'
    BY <1>1, <1>2, <1>3, <1>4 DEF Climber, Replying, Streaming, WorkerInv, AfterNote
<1>5. ASSUME pc[w] \in {"notify", "announce"}, pc'[w] = "root"
      PROVE  Climber(w)' /\ Climbed(w)'
    <2>1. /\ op[w] = "CreateReply" /\ op'[w] = op[w] /\ target'[w] = target[w]
          /\ root'[w] = target[w] /\ depth'[w] = 0
          /\ newId'[w] = newId[w] /\ written' = written
        BY <1>1, <1>2, <1>5 DEF AfterNote, Climber
    <2>2. /\ written[target[w]] # NoPost /\ newId[w] # 0
          /\ written[newId[w]] # NoPost /\ written[newId[w]].parent = target[w]
        BY <1>3, <1>5, <2>1 DEF WorkerInv
    <2>3. Climber(w)'
        BY <1>5, <2>1, <2>2 DEF Climber, Replying, Streaming
    <2>4. QED
        BY <1>5, <2>1, <2>2, <2>3, ClimbStarts
<1>6. QED
    BY <1>4, <1>5

(* The climb itself: one level up, or the top, unless a statement fails or   *)
(* the thread is too deep.                                                   *)
LEMMA OneClimb ==
    ASSUME IInv, IInv', ClimbersInv, NEW w \in Workers, NEW o \in Outcomes, ClimbThread(w, o)
    PROVE  /\ Climber(w)'
           /\ Untouched /\ faults' = 0 /\ (Replying(w) \/ Streaming(w)) /\ Climbed(w) => Climbed(w)'
           /\ (Replying(w) \/ Streaming(w))' => Replying(w) \/ Streaming(w)
<1> DEFINE up == posts[root[w]].parent
<1>1. /\ pc[w] = "root" /\ UNCHANGED <<posts, written, op, target, opened, newId>>
      /\ \/ /\ o = "ok" /\ depth[w] < MaxThreadDepth /\ Exists(root[w]) /\ up # 0
            /\ root'[w] = up /\ depth'[w] = depth[w] + 1 /\ pc'[w] = "root"
         \/ /\ ~(o = "ok" /\ depth[w] < MaxThreadDepth /\ Exists(root[w]) /\ up # 0)
            /\ UNCHANGED <<root, depth>>
            /\ pc'[w] = IF op[w] = "CreateReply" THEN "publish" ELSE "subscribe"
    BY DEF ClimbThread, Statement, Goto, IInv, TypeOK, tables, args
<1>2. Climber(w) /\ op[w] \in {"CreateReply", "ThreadStream"}
    BY <1>1 DEF ClimbersInv, Climber
<1>3. Climber(w)'
    BY <1>1, <1>2 DEF Climber, Replying, Streaming
<1>4. (Replying(w) \/ Streaming(w))' => Replying(w) \/ Streaming(w)
    BY <1>1, <1>2 DEF Replying, Streaming
<1>5. ASSUME Untouched, faults' = 0, Replying(w) \/ Streaming(w), Climbed(w)
      PROVE  Climbed(w)'
    <2>1. o = "ok"
        BY <1>5 DEF ClimbThread, Statement, Untouched
    <2>2. PICK r \in PostIds : r = root[w]
        BY DEF IInv, TypeOK
    <2>3. PICK t \in PostIds : t = target[w]
        BY DEF IInv, TypeOK
    <2>4. /\ written[r] # NoPost /\ TrueRoot(r) = TrueRoot(t)
          /\ depth[w] + Cardinality(Ancestors[r]) = Cardinality(Ancestors[t])
          /\ Cardinality(Ancestors[t]) <= MaxThreadDepth
        BY <1>1, <1>5, <2>2, <2>3 DEF Climbed, Untouched
    <2>5. r \in OptId /\ t \in OptId /\ r # 0 /\ depth[w] \in Nat /\ MaxThreadDepth \in Nat
        BY PostsAssumption DEF OptId, PostIds, IInv, TypeOK
    <2>6. posts[r] = written[r] /\ up = written[r].parent
        BY <1>5, <2>2 DEF Untouched
    <2>7. Ancestors' = Ancestors
        BY <1>1 DEF Ancestors
    <2>8. target'[w] = t
        BY <1>1, <2>3
    <2>9. CASE Answered(r)
        <3>1. PICK p \in PostIds : p = written[r].parent
            BY <2>5, <2>9, ParentsAreIds DEF IInv
        <3>2. p \in OptId /\ p # 0 /\ written[p] # NoPost
            <4>1. p < r /\ p \in Nat /\ r \in Nat /\ p # 0 /\ nextId \in Nat
                <5>1. written[r].parent < r
                    BY <2>4 DEF IInv, RowsInv
                <5>2. nextId \in 1..(MaxPosts + 1)
                    BY DEF IInv, TypeOK
                <5>3. QED
                    BY <3>1, <5>1, <5>2, PostsAssumption DEF PostIds
            <4>2. r < nextId
                BY <2>4 DEF IInv, RowsInv
            <4>3. p < nextId
                BY <4>1, <4>2
            <4>4. QED
                BY <3>1, <4>1, <4>3, PostsAssumption DEF IInv, RowsInv, OptId, PostIds
        <3>3. /\ Cardinality(Ancestors[p]) \in Nat
              /\ Cardinality(Ancestors[r]) = Cardinality(Ancestors[p]) + 1
            BY <2>5, <2>9, <3>1, <3>2, OneLevelUp DEF IInv
        <3>4. TrueRoot(r) = TrueRoot(p)
            BY <2>5, <2>9, <3>1, RootIs DEF IInv
        <3>5. depth[w] < MaxThreadDepth
            BY <2>4, <2>5, <3>3
        <3>6. root'[w] = p /\ depth'[w] = depth[w] + 1 /\ pc'[w] = "root"
            BY <1>1, <2>1, <2>2, <2>4, <2>6, <3>1, <3>2, <3>5 DEF Exists
        <3>7. depth'[w] + Cardinality(Ancestors[p]) = Cardinality(Ancestors[t])
            BY <2>4, <2>5, <3>3, <3>6
        <3>8. TrueRoot(root[w])' = TrueRoot(p) /\ TrueRoot(target[w])' = TrueRoot(t)
            BY <2>7, <2>8, <3>6 DEF TrueRoot
        <3>9. QED
            BY <1>1, <2>4, <2>7, <2>8, <3>2, <3>4, <3>6, <3>7, <3>8 DEF Climbed
    <2>10. CASE ~Answered(r)
        <3>1. up = 0
            BY <2>4, <2>5, <2>6, <2>10 DEF Answered
        <3>2. root'[w] = r /\ pc'[w] # "root"
            BY <1>1, <2>2, <3>1
        <3>3. r = TrueRoot(t)
            BY <2>4, <2>5, <2>10, RootIs DEF IInv
        <3>4. TrueRoot(target[w])' = TrueRoot(t)
            BY <2>7, <2>8 DEF TrueRoot
        <3>5. QED
            BY <3>2, <3>3, <3>4 DEF Climbed
    <2>11. QED
        BY <2>9, <2>10
<1>6. QED
    BY <1>3, <1>4, <1>5

(* After the climb. *)
LEMMA AfterTheClimb ==
    ASSUME IInv, ClimbersInv, NEW w \in Workers,
           PublishReply(w) \/ SubscribeThread(w) \/ StreamEnds(w)
    PROVE  /\ Climber(w)'
           /\ (Replying(w) \/ Streaming(w)) /\ Climbed(w) /\ pc'[w] # "idle" => Climbed(w)'
           /\ (Replying(w) \/ Streaming(w))' => pc'[w] # "idle" /\ (Replying(w) \/ Streaming(w))
<1>1. /\ UNCHANGED <<written, op, target, opened, newId, root, depth>>
      /\ \/ pc'[w] = "idle"
         \/ pc[w] = "subscribe" /\ pc'[w] = "streaming"
    BY DEF PublishReply, SubscribeThread, StreamEnds, Goto, IInv, TypeOK, tables, args, locals
<1>2. Climber(w)
    BY DEF ClimbersInv
<1>3. Climber(w)'
    BY <1>1, <1>2 DEF Climber, Replying, Streaming
<1>4. TrueRoot(target[w])' = TrueRoot(target[w])
    <2>1. Ancestors' = Ancestors
        BY <1>1 DEF Ancestors
    <2>2. QED
        BY <1>1, <2>1 DEF TrueRoot
<1>5. QED
    BY <1>1, <1>2, <1>3, <1>4 DEF Climber, Climbed, Replying, Streaming

(* A reply is published under the top of its thread. *)
LEMMA PublishesUnderTop ==
    ASSUME IInv, ClimbersInv, NEW w \in Workers, PublishReply(w), Climbed(w)
    PROVE  root[w] = TrueRoot(newId[w])
<1>1. pc[w] = "publish" /\ Replying(w)
    BY DEF PublishReply, ClimbersInv, Climber, Replying
<1>2. newId[w] \in OptId /\ target[w] \in PostIds /\ 0 \notin PostIds
    BY PostsAssumption DEF IInv, TypeOK, OptId, PostIds
<1>3. Answered(newId[w]) /\ written[newId[w]].parent = target[w]
    BY <1>1, <1>2 DEF ClimbersInv, Climber, Answered
<1>4. TrueRoot(newId[w]) = TrueRoot(target[w])
    BY <1>2, <1>3, RootIs DEF IInv
<1>5. QED
    BY <1>1, <1>4 DEF Climbed

ClimbInv == ClimbersInv /\ ThreadInv

LEMMA ClimbInvPreserved == IInv /\ ClimbInv /\ [Next]_vars => ClimbInv'
<1> SUFFICES ASSUME IInv, ClimbersInv, ThreadInv, [Next]_vars
             PROVE  ClimbersInv' /\ ThreadInv'
    BY DEF ClimbInv
<1>1. IInv'
    BY NextIInv
<1>2. CASE UNCHANGED vars
    <2>1. Ancestors' = Ancestors
        BY <1>2 DEF vars, Ancestors
    <2>2. ClimbersInv'
        BY <1>2 DEF vars, ClimbersInv, Climber, Replying, Streaming
    <2>3. Untouched' => Untouched
        BY <1>2, <2>1 DEF vars, Untouched
    <2>4. \A v \in Workers : Climbed(v)' <=> Climbed(v)
        BY <1>2, <2>1 DEF vars, Climbed, TrueRoot
    <2>5. \A n \in 1..Len(threadEvents) :
            TrueRoot(threadEvents[n].post)' = TrueRoot(threadEvents[n].post)
        BY <1>2, <2>1 DEF vars, TrueRoot
    <2>6. threadEvents' = threadEvents
        BY <1>2 DEF vars
    <2>7. ASSUME Untouched'
          PROVE  /\ \A w \in Workers : (Replying(w) \/ Streaming(w))' => Climbed(w)'
                 /\ \A n \in 1..Len(threadEvents') :
                        threadEvents'[n].key = TrueRoot(threadEvents[n].post)'
        <3>1. /\ \A w \in Workers : Replying(w) \/ Streaming(w) => Climbed(w)
              /\ \A n \in 1..Len(threadEvents) :
                    threadEvents[n].key = TrueRoot(threadEvents[n].post)
            BY <2>3, <2>7 DEF ThreadInv
        <3>2. ASSUME NEW w \in Workers, (Replying(w) \/ Streaming(w))'
              PROVE  Climbed(w)'
            <4>1. Replying(w) \/ Streaming(w)
                BY <1>2, <3>2 DEF vars, Replying, Streaming
            <4>2. Climbed(w)
                BY <3>1, <4>1
            <4>3. QED
                BY <2>4, <4>2
        <3>3. QED
            BY <2>5, <2>6, <3>1, <3>2
    <2>8. QED
        BY <2>2, <2>7 DEF ThreadInv
<1>3. ASSUME NEW w \in Workers, Moves(w)
      PROVE  ClimbersInv' /\ ThreadInv'
    <2>1. \A j \in PostIds : written[j] # NoPost => written'[j] = written[j]
        BY <1>3, WrittenStays
    <2>2. Untouched' => Untouched /\ faults' = 0
        BY <1>1, <1>3, TouchedStays DEF Untouched
    <2>3. ASSUME NEW v \in Workers, v # w
          PROVE  /\ Climber(v)'
                 /\ Untouched' /\ (Replying(v) \/ Streaming(v))' => Climbed(v)'
        <3>1. /\ pc'[v] = pc[v] /\ op'[v] = op[v] /\ target'[v] = target[v] /\ root'[v] = root[v]
              /\ depth'[v] = depth[v] /\ newId'[v] = newId[v] /\ opened'[v] = opened[v]
            BY <1>3, <2>3, OthersStay, ClimbersStay DEF Stays, IInv
        <3>2. Climber(v)' /\ (Climbed(v) /\ (Replying(v) \/ Streaming(v)) => Climbed(v)')
            BY <1>1, <1>3, <3>1, ClimbKept
        <3>3. (Replying(v) \/ Streaming(v))' <=> Replying(v) \/ Streaming(v)
            BY <3>1 DEF Replying, Streaming
        <3>4. QED
            BY <2>2, <3>2, <3>3 DEF ThreadInv
    <2>4. /\ Climber(w)'
          /\ Untouched' /\ (Replying(w) \/ Streaming(w))' => Climbed(w)'
        <3>1. CASE \E o \in Ops, i \in PostIds : Request(w, o, i)
            BY <1>1, <3>1, RequestClimbs
        <3>2. CASE \E o \in Outcomes : ClimbThread(w, o)
            BY <1>1, <2>2, <3>2, OneClimb DEF ThreadInv
        <3>3. CASE PublishReply(w) \/ SubscribeThread(w) \/ StreamEnds(w)
            BY <2>2, <3>3, AfterTheClimb DEF ThreadInv
        <3>4. CASE pc[w] \notin {"idle", "root", "publish", "subscribe", "streaming"}
            BY <1>1, <1>3, <3>4, BeforeTheClimb
        <3>5. QED
            BY <1>3, <3>1, <3>2, <3>3, <3>4 DEF Moves, Step, InsertPost, DeletePost, FindParent,
                InsertReply, InsertRepost, InsertRepostPost, DeleteRepost, DeleteRepostPost,
                InsertLike, DeleteLike, FindOwner, InsertNote, SkipNote, AnnounceNote,
                CountAndAnswer, Statement
    <2>5. ASSUME NEW n \in 1..Len(threadEvents')
          PROVE  /\ written'[threadEvents'[n].post] # NoPost
                 /\ Untouched' => threadEvents'[n].key = TrueRoot(threadEvents[n].post)'
        <3>1. threadEvents \in Seq([key : PostIds, post : PostIds])
            BY DEF IInv, TypeOK
        <3>2. CASE n \in 1..Len(threadEvents) /\ threadEvents'[n] = threadEvents[n]
            <4>1. PICK e \in [key : PostIds, post : PostIds] : e = threadEvents[n]
                <5> DEFINE Event == [key : PostIds, post : PostIds]
                <5>1. threadEvents \in Seq(Event)
                    BY <3>1
                <5> HIDE DEF Event
                <5>2. threadEvents[n] \in Event
                    BY <3>2, <5>1
                <5>3. QED
                    BY <5>2 DEF Event
            <4>2. written[e.post] # NoPost /\ (Untouched => e.key = TrueRoot(e.post))
                BY <3>2, <4>1 DEF ClimbersInv, ThreadInv
            <4>3. PICK q \in PostIds : q = e.post
                BY <4>1
            <4>4. written'[q] # NoPost /\ TrueRoot(q)' = TrueRoot(q)
                BY <1>1, <2>1, <4>2, <4>3, ThreadsKeep DEF IInv
            <4>5. threadEvents'[n] = e
                BY <3>2, <4>1
            <4>6. TrueRoot(threadEvents[n].post)' = TrueRoot(q)'
                BY <4>3, <4>5
            <4>7. QED
                BY <2>2, <4>2, <4>3, <4>4, <4>5, <4>6
        <3>3. CASE ~(n \in 1..Len(threadEvents) /\ threadEvents'[n] = threadEvents[n])
            <4>1. PublishReply(w)
                BY <1>3, <2>5, <3>3, EventsStay
            <4>2. PICK q \in PostIds : q = newId[w]
                <5>1. newId[w] \in OptId /\ newId[w] # 0
                    BY <4>1 DEF IInv, TypeOK, PublishReply, ClimbersInv, Climber, Replying
                <5>2. QED
                    BY <5>1, PostsAssumption DEF OptId, PostIds
            <4>3. PICK k \in PostIds : k = root[w]
                BY DEF IInv, TypeOK
            <4>4. threadEvents' = Append(threadEvents, [key |-> k, post |-> q])
                BY <4>1, <4>2, <4>3 DEF PublishReply
            <4>5. threadEvents'[n] = [key |-> k, post |-> q]
                BY <2>5, <3>1, <3>3, <4>4
            <4>6. Replying(w) /\ written[q] # NoPost
                BY <4>1, <4>2 DEF PublishReply, ClimbersInv, Climber, Replying
            <4>7. written'[q] # NoPost /\ TrueRoot(q)' = TrueRoot(q)
                BY <1>1, <2>1, <4>6, ThreadsKeep DEF IInv
            <4>8. Untouched => k = TrueRoot(q)
                BY <4>1, <4>2, <4>3, <4>6, PublishesUnderTop DEF ThreadInv
            <4>9. TrueRoot(threadEvents[n].post)' = TrueRoot(q)'
                BY <4>5
            <4>10. QED
                BY <2>2, <4>5, <4>7, <4>8, <4>9
        <3>4. QED
            BY <3>2, <3>3
    <2>6. QED
        BY <2>3, <2>4, <2>5 DEF ClimbersInv, ThreadInv
<1>4. QED
    BY <1>2, <1>3, OneMoves

LEMMA InitClimbInv == Init => ClimbInv
BY DEF Init, ClimbInv, ClimbersInv, Climber, Replying, Streaming, ThreadInv

(* stream.go:23-31, reply.go:60-61, handler.go:185-199: while no post is     *)
(* deleted, no statement fails and threads are as deep as the climb at most, *)
(* a reply is published to exactly the streams of its thread, however        *)
(* replies, subscriptions and climbs interleave.                             *)
THEOREM RepliesReachStreams == Spec => []ThreadReachesStreams
<1>1. IInv /\ ClimbInv /\ [Next]_vars => ClimbInv'
    BY ClimbInvPreserved
<1>2. IInv /\ ClimbInv => ThreadReachesStreams
    <2> SUFFICES ASSUME IInv, ClimbersInv, ThreadInv, Untouched,
                        NEW w \in Workers, pc[w] = "streaming", opened[w],
                        Exists(target[w]),
                        NEW n \in (since[w] + 1)..Len(threadEvents)
                 PROVE  TrueRoot(threadEvents[n].post) = TrueRoot(target[w])
                            <=> threadEvents[n].key = root[w]
        BY DEF ClimbInv, ThreadReachesStreams, SameThreadSameKey, Untouched
    <2>1. Streaming(w)
        BY DEF ClimbersInv, Climber, Streaming
    <2>2. root[w] = TrueRoot(target[w])
        BY <2>1 DEF ThreadInv, Climbed
    <2>3. n \in 1..Len(threadEvents)
        <3>1. since[w] \in Nat /\ Len(threadEvents) \in Nat
            BY DEF IInv, TypeOK
        <3>2. QED
            BY <3>1
    <2>4. threadEvents[n].key = TrueRoot(threadEvents[n].post)
        BY <2>3 DEF ThreadInv
    <2>5. QED
        BY <2>2, <2>4
<1>3. QED
    BY <1>1, <1>2, InitClimbInv, Invariance, PTL DEF Spec
=============================================================================
