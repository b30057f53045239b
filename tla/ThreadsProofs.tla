--------------------------- MODULE ThreadsProofs ---------------------------
(***************************************************************************)
(* Proofs about Threads, for any number of clients, writers and posts and  *)
(* for any depth limit.                                                    *)
(***************************************************************************)
EXTENDS Threads, FiniteSetTheorems, SequenceTheorems, WellFoundedInduction, TLAPS

-----------------------------------------------------------------------------
(* Induction over the ids, from the fact that the natural numbers are        *)
(* well-founded.                                                             *)
Less == {pair \in Nat \X Nat : pair[1] < pair[2]}

LEMMA LessIsWellFounded == IsWellFoundedOn(Less, Nat)
<1>1. IsWellFoundedOn(OpToRel(<, Nat), Nat)
    BY NatLessThanWellFounded
<1>2. QED
    BY <1>1 DEF OpToRel, Less

LEMMA Smallest ==
    ASSUME NEW T, T \subseteq Nat, T # {}
    PROVE  \E x \in T : \A y \in T : x <= y
<1>1. PICK x \in T : \A y \in T : ~(<<y, x>> \in Less)
    BY LessIsWellFounded, WFMin
<1>2. \A a, b \in Nat : a < b => <<a, b>> \in Less
    BY DEF Less
<1>3. ASSUME NEW y \in T PROVE x <= y
    <2>1. x \in Nat /\ y \in Nat /\ ~(y < x)
        BY <1>1, <1>2
    <2>2. QED
        BY <2>1
<1>4. QED
    BY <1>3

OptIds == 0..MaxPosts

LEMMA IdInduction ==
    ASSUME NEW S, \A i \in OptIds : (\A j \in OptIds : j < i => j \in S) => i \in S
    PROVE  OptIds \subseteq S
<1>1. SUFFICES ASSUME OptIds \ S # {} PROVE FALSE
    OBVIOUS
<1>2. OptIds \ S \subseteq Nat
    BY ThreadsAssumption DEF OptIds
<1>3. PICK x \in OptIds \ S : \A y \in OptIds \ S : x <= y
    BY <1>1, <1>2, Smallest
<1>4. ASSUME NEW j \in OptIds, j < x PROVE j \in S
    <2>1. x \in Nat /\ j \in Nat
        BY ThreadsAssumption DEF OptIds
    <2>2. j \notin OptIds \ S
        BY <1>3, <1>4, <2>1
    <2>3. QED
        BY <2>2
<1>5. QED
    BY <1>3, <1>4

-----------------------------------------------------------------------------
(* Lines. *)

LEMMA ParentFacts ==
    TypeOK => \A i \in DOMAIN parent :
        /\ i \in Ids /\ i \in OptIds /\ i \in Nat /\ i # 0
        /\ parent[i] \in OptIds /\ parent[i] \in Nat /\ parent[i] < i
        /\ parent[i] # 0 => parent[i] \in DOMAIN parent
<1> SUFFICES ASSUME TypeOK, NEW i \in DOMAIN parent
             PROVE  /\ i \in Ids /\ i \in OptIds /\ i \in Nat /\ i # 0
                    /\ parent[i] \in OptIds /\ parent[i] \in Nat /\ parent[i] < i
                    /\ parent[i] # 0 => parent[i] \in DOMAIN parent
    OBVIOUS
<1>1. Len(parent) \in Nat /\ Len(parent) <= MaxPosts /\ DOMAIN parent = 1..Len(parent)
    BY DEF TypeOK
<1>2. i \in Nat /\ 1 <= i /\ i <= Len(parent) /\ MaxPosts \in Nat
    BY <1>1, ThreadsAssumption
<1>3. parent[i] \in 0..i - 1
    BY DEF TypeOK
<1>4. parent[i] \in Nat /\ parent[i] < i
    BY <1>2, <1>3
<1>5. i \in Ids /\ i \in OptIds /\ parent[i] \in OptIds
    BY <1>1, <1>2, <1>4 DEF Ids, OptIds
<1>6. parent[i] # 0 => parent[i] \in 1..Len(parent)
    BY <1>1, <1>2, <1>4
<1>7. QED
    BY <1>1, <1>2, <1>4, <1>5, <1>6

LEMMA NoPostIsZero == TypeOK => 0 \notin DOMAIN parent
    BY ParentFacts

LEMMA PostsAreIds == TypeOK => DOMAIN parent \subseteq OptIds
    BY ParentFacts

(* The equation of Line has a solution: the least sets closed under parents. *)
LEMMA LineIs ==
    TypeOK => \A i \in OptIds :
        Line[i] = IF i \in DOMAIN parent THEN {i} \cup Line[parent[i]] ELSE {}
<1> SUFFICES ASSUME TypeOK
             PROVE  \A i \in OptIds :
                        Line[i] = IF i \in DOMAIN parent THEN {i} \cup Line[parent[i]] ELSE {}
    OBVIOUS
<1> DEFINE D == DOMAIN parent
           Closed(C, i) == /\ i \in D => i \in C
                           /\ \A k \in C : parent[k] # 0 => parent[k] \in C
           Least(i) == {j \in D : \A C \in SUBSET D : Closed(C, i) => j \in C}
           Solves(f) == f = [i \in 0..MaxPosts |->
                                IF i = 0 \/ i > Len(parent) THEN {} ELSE {i} \cup f[parent[i]]]
           least == [i \in 0..MaxPosts |-> Least(i)]
<1>1. ASSUME NEW i \in OptIds PROVE i \in D <=> ~(i = 0 \/ i > Len(parent))
    BY ThreadsAssumption DEF TypeOK, OptIds
<1>2. ASSUME NEW i \in OptIds, i \notin D PROVE Least(i) = {}
    <2>1. {} \in SUBSET D /\ Closed({}, i)
        BY <1>2
    <2>2. QED
        BY <2>1
<1>3. ASSUME NEW i \in D PROVE Least(i) = {i} \cup Least(parent[i])
    <2> DEFINE p == parent[i]
    <2>1. i \in Least(i)
        OBVIOUS
    <2>2. Least(p) \subseteq Least(i)
        <3>1. ASSUME NEW C \in SUBSET D, Closed(C, i) PROVE Closed(C, p)
            <4>1. 0 \notin D
                BY ParentFacts
            <4>2. QED
                BY <3>1, <4>1
        <3>2. QED
            BY <3>1
    <2>3. Closed({i} \cup Least(p), i)
        <3>1. p # 0 => p \in Least(p)
            BY ParentFacts
        <3>2. ASSUME NEW k \in Least(p), parent[k] # 0 PROVE parent[k] \in Least(p)
            <4>1. parent[k] \in D
                BY <3>2, ParentFacts
            <4>2. ASSUME NEW C \in SUBSET D, Closed(C, p) PROVE parent[k] \in C
                BY <3>2, <4>2
            <4>3. QED
                BY <4>1, <4>2
        <3> HIDE DEF Least
        <3>3. QED
            BY <3>1, <3>2
    <2>4. {i} \cup Least(p) \in SUBSET D
        OBVIOUS
    <2>5. Least(i) \subseteq {i} \cup Least(p)
        <3>1. \A C \in SUBSET D : Closed(C, i) => Least(i) \subseteq C
            OBVIOUS
        <3> HIDE DEF Least, Closed
        <3>2. QED
            BY <2>3, <2>4, <3>1
    <2>6. QED
        BY <2>1, <2>2, <2>5
<1>4. Solves(least)
    <2> HIDE DEF Least
    <2>1. ASSUME NEW i \in 0..MaxPosts
          PROVE  least[i] = IF i = 0 \/ i > Len(parent) THEN {} ELSE {i} \cup least[parent[i]]
        <3>1. CASE i \in D
            <4>1. parent[i] \in 0..MaxPosts
                BY <3>1, ParentFacts DEF OptIds
            <4>2. least[parent[i]] = Least(parent[i]) /\ least[i] = Least(i)
                BY <4>1
            <4>3. QED
                BY <1>1, <1>3, <3>1, <4>2 DEF OptIds
        <3>2. CASE i \notin D
            BY <1>1, <1>2, <3>2 DEF OptIds
        <3>3. QED
            BY <3>1, <3>2
    <2>2. QED
        BY <2>1
<1>5. Line = CHOOSE f : Solves(f)
    BY DEF Line
<1>6. Solves(Line)
    <2> HIDE DEF Solves, least
    <2>1. QED
        BY <1>4, <1>5
<1>7. QED
    BY <1>1, <1>6 DEF OptIds

(* A line goes down from its post, and holds the lines of all on it. *)
LEMMA LineFacts ==
    TypeOK => \A i \in DOMAIN parent :
        /\ Line[i] = {i} \cup Line[parent[i]] /\ i \notin Line[parent[i]]
        /\ Line[i] \subseteq DOMAIN parent
        /\ \A k \in Line[i] : k <= i /\ Line[k] \subseteq Line[i]
<1> SUFFICES ASSUME TypeOK, NEW i \in DOMAIN parent
             PROVE  /\ Line[i] = {i} \cup Line[parent[i]] /\ i \notin Line[parent[i]]
                    /\ Line[i] \subseteq DOMAIN parent
                    /\ \A k \in Line[i] : k <= i /\ Line[k] \subseteq Line[i]
    OBVIOUS
<1> DEFINE Good(n) == /\ Line[n] \subseteq DOMAIN parent
                      /\ \A k \in Line[n] : k <= n /\ Line[k] \subseteq Line[n]
           S == {n \in OptIds : Good(n)}
<1>1. ASSUME NEW n \in OptIds, \A j \in OptIds : j < n => j \in S
      PROVE  n \in S
    <2>1. CASE n \notin DOMAIN parent
        BY <2>1, LineIs
    <2>2. CASE n \in DOMAIN parent
        <3>1. PICK p : p = parent[n]
            OBVIOUS
        <3>2. p \in OptIds /\ p \in Nat /\ n \in Nat /\ p < n
            BY <2>2, <3>1, ParentFacts
        <3>3. Line[n] = {n} \cup Line[p]
            BY <2>2, <3>1, LineIs
        <3>4. Good(p)
            BY <1>1, <3>2
        <3>5. ASSUME NEW k \in Line[n] PROVE k <= n /\ Line[k] \subseteq Line[n]
            <4>1. CASE k = n
                BY <3>2, <4>1
            <4>2. CASE k \in Line[p]
                <5>1. k \in Nat /\ k <= p /\ Line[k] \subseteq Line[p]
                    BY <3>4, <4>2, ParentFacts
                <5>2. QED
                    BY <3>2, <3>3, <5>1
            <4>3. QED
                BY <3>3, <3>5, <4>1, <4>2
        <3>6. QED
            BY <2>2, <3>3, <3>4, <3>5
    <2>3. QED
        BY <2>1, <2>2
<1>2. OptIds \subseteq S
    <2> HIDE DEF S
    <2>1. QED
        BY <1>1, IdInduction
<1>3. PICK p : p = parent[i]
    OBVIOUS
<1>4. p \in OptIds /\ p \in Nat /\ i \in Nat /\ p < i /\ i \in OptIds
    BY <1>3, ParentFacts
<1>5. Good(p) /\ Good(i)
    BY <1>2, <1>4
<1>6. i \notin Line[p]
    BY <1>4, <1>5
<1>7. QED
    BY <1>3, <1>4, <1>5, <1>6, LineIs

(* A line is one post longer than the line above. *)
LEMMA Lengths ==
    TypeOK => \A i \in DOMAIN parent :
        /\ IsFiniteSet(Line[i]) /\ Cardinality(Line[i]) \in Nat
        /\ Cardinality(Line[parent[i]]) \in Nat
        /\ Cardinality(Line[i]) = Cardinality(Line[parent[i]]) + 1
        /\ parent[i] = 0 <=> Cardinality(Line[i]) <= 1
<1> SUFFICES ASSUME TypeOK, NEW i \in DOMAIN parent
             PROVE  /\ IsFiniteSet(Line[i]) /\ Cardinality(Line[i]) \in Nat
                    /\ Cardinality(Line[parent[i]]) \in Nat
                    /\ Cardinality(Line[i]) = Cardinality(Line[parent[i]]) + 1
                    /\ parent[i] = 0 <=> Cardinality(Line[i]) <= 1
    OBVIOUS
<1>1. ASSUME NEW n \in OptIds
      PROVE  IsFiniteSet(Line[n]) /\ Cardinality(Line[n]) \in Nat
    <2>1. IsFiniteSet(DOMAIN parent)
        <3>1. DOMAIN parent = 1..Len(parent) /\ Len(parent) \in Int
            BY DEF TypeOK
        <3>2. QED
            BY <3>1, FS_Interval
    <2>2. Line[n] \subseteq DOMAIN parent
        BY LineIs, LineFacts
    <2>3. IsFiniteSet(Line[n])
        BY <2>1, <2>2, FS_Subset
    <2>4. QED
        BY <2>3, FS_CardinalityType
<1>2. PICK p : p = parent[i]
    OBVIOUS
<1>3. p \in OptIds /\ i \in OptIds /\ (p # 0 => p \in DOMAIN parent)
    BY <1>2, ParentFacts
<1>4. Cardinality(Line[p] \cup {i}) = Cardinality(Line[p]) + 1
    BY <1>1, <1>2, <1>3, LineFacts, FS_AddElement
<1>5. Line[i] = Line[p] \cup {i}
    BY <1>2, LineFacts
<1>6. p = 0 => Cardinality(Line[p]) = 0
    <2>1. 0 \in OptIds /\ 0 \notin DOMAIN parent
        BY ParentFacts, ThreadsAssumption DEF OptIds
    <2>2. Line[0] = {}
        BY <2>1, LineIs
    <2>3. QED
        BY <2>2, FS_EmptySet
<1>7. p # 0 => Cardinality(Line[p]) # 0
    <2>1. p # 0 => p \in Line[p]
        BY <1>3, LineFacts
    <2>2. QED
        BY <1>1, <1>3, <2>1, FS_EmptySet
<1>8. Cardinality(Line[i]) \in Nat /\ Cardinality(Line[p]) \in Nat /\ IsFiniteSet(Line[i])
    BY <1>1, <1>3
<1>9. Cardinality(Line[i]) = Cardinality(Line[p]) + 1
    BY <1>4, <1>5
<1>10. QED
    BY <1>2, <1>6, <1>7, <1>8, <1>9

(* A line is never longer than the lines it is part of. *)
LEMMA Shorter ==
    TypeOK => \A i \in DOMAIN parent : \A k \in Line[i] :
        /\ Cardinality(Line[k]) <= Cardinality(Line[i])
        /\ Cardinality(Line[i] \ Line[k]) = Cardinality(Line[i]) - Cardinality(Line[k])
<1> SUFFICES ASSUME TypeOK, NEW i \in DOMAIN parent, NEW k \in Line[i]
             PROVE  /\ Cardinality(Line[k]) <= Cardinality(Line[i])
                    /\ Cardinality(Line[i] \ Line[k]) = Cardinality(Line[i]) - Cardinality(Line[k])
    OBVIOUS
<1>1. Line[k] \subseteq Line[i] /\ IsFiniteSet(Line[i])
    BY LineFacts, Lengths
<1>2. Cardinality(Line[k]) <= Cardinality(Line[i])
    BY <1>1, FS_Subset
<1>3. Cardinality(Line[i] \ Line[k]) = Cardinality(Line[i]) - Cardinality(Line[i] \cap Line[k])
    BY <1>1, FS_Difference
<1>4. Line[i] \cap Line[k] = Line[k]
    BY <1>1
<1>5. QED
    BY <1>2, <1>3, <1>4

(* A thread has one root. *)
LEMMA OneRoot ==
    TypeOK => \A i \in DOMAIN parent : \A k, l \in Line[i] :
        parent[k] = 0 /\ parent[l] = 0 => k = l
<1> SUFFICES ASSUME TypeOK
             PROVE  \A i \in DOMAIN parent : \A k, l \in Line[i] :
                        parent[k] = 0 /\ parent[l] = 0 => k = l
    OBVIOUS
<1> DEFINE S == {n \in OptIds : \A k, l \in Line[n] : parent[k] = 0 /\ parent[l] = 0 => k = l}
<1>1. ASSUME NEW n \in OptIds, \A j \in OptIds : j < n => j \in S
      PROVE  n \in S
    <2>1. CASE n \notin DOMAIN parent
        BY <2>1, LineIs
    <2>2. CASE n \in DOMAIN parent
        <3>1. PICK p : p = parent[n]
            OBVIOUS
        <3>2. p \in OptIds /\ p < n
            BY <2>2, <3>1, ParentFacts
        <3>3. Line[n] = {n} \cup Line[p]
            BY <2>2, <3>1, LineIs
        <3>4. p = 0 => Line[p] = {}
            <4>1. 0 \notin DOMAIN parent
                BY ParentFacts
            <4>2. QED
                BY <3>2, <4>1, LineIs
        <3>5. p \in S
            BY <1>1, <3>2
        <3>6. QED
            BY <3>1, <3>3, <3>4, <3>5
    <2>3. QED
        BY <2>1, <2>2
<1>2. OptIds \subseteq S
    <2> HIDE DEF S
    <2>1. QED
        BY <1>1, IdInduction
<1>3. QED
    BY <1>2, ParentFacts

(* Under a post that is on a line, but not at its end, the next is on it too. *)
LEMMA NextOnLine ==
    TypeOK => \A i \in DOMAIN parent : \A k \in Line[i] :
        k # i => \E m \in Line[i] : parent[m] = k
<1> SUFFICES ASSUME TypeOK
             PROVE  \A i \in DOMAIN parent : \A k \in Line[i] :
                        k # i => \E m \in Line[i] : parent[m] = k
    OBVIOUS
<1> DEFINE S == {n \in OptIds : \A k \in Line[n] : k # n => \E m \in Line[n] : parent[m] = k}
<1>1. ASSUME NEW n \in OptIds, \A j \in OptIds : j < n => j \in S
      PROVE  n \in S
    <2>1. CASE n \notin DOMAIN parent
        BY <2>1, LineIs
    <2>2. CASE n \in DOMAIN parent
        <3>1. PICK p : p = parent[n]
            OBVIOUS
        <3>2. p \in OptIds /\ p < n
            BY <2>2, <3>1, ParentFacts
        <3>3. Line[n] = {n} \cup Line[p]
            BY <2>2, <3>1, LineIs
        <3>4. p \in S
            BY <1>1, <3>2
        <3>5. QED
            BY <3>1, <3>3, <3>4
    <2>3. QED
        BY <2>1, <2>2
<1>2. OptIds \subseteq S
    <2> HIDE DEF S
    <2>1. QED
        BY <1>1, IdInduction
<1>3. QED
    BY <1>2, ParentFacts

(* Later rows change no line. *)
LEMMA LinesKeep ==
    ASSUME TypeOK, TypeOK',
           \A i \in DOMAIN parent : i \in DOMAIN parent' /\ parent'[i] = parent[i]
    PROVE  \A i \in DOMAIN parent : Line'[i] = Line[i] /\ Line'[parent[i]] = Line[parent[i]]
<1> DEFINE S == {n \in OptIds : n \in DOMAIN parent \cup {0} => Line'[n] = Line[n]}
<1>1. \A i \in OptIds :
        Line'[i] = IF i \in DOMAIN parent' THEN {i} \cup Line'[parent'[i]] ELSE {}
    <2>1. TypeOK' => (\A i \in OptIds :
            Line[i] = IF i \in DOMAIN parent THEN {i} \cup Line[parent[i]] ELSE {})'
        BY LineIs, PTL
    <2>2. QED
        BY <2>1 DEF OptIds
<1>2. ASSUME NEW n \in OptIds, \A j \in OptIds : j < n => j \in S
      PROVE  n \in S
    <2>1. CASE n \in DOMAIN parent
        <3>1. PICK p : p = parent[n]
            OBVIOUS
        <3>2. p \in OptIds /\ p < n /\ (p # 0 => p \in DOMAIN parent)
            BY <2>1, <3>1, ParentFacts
        <3>3. Line[n] = {n} \cup Line[p]
            BY <2>1, <3>1, LineIs
        <3>4. Line'[n] = {n} \cup Line'[p]
            BY <1>1, <2>1, <3>1
        <3>5. p \in S
            BY <1>2, <3>2
        <3>6. QED
            BY <3>2, <3>3, <3>4, <3>5
    <2>2. CASE n = 0
        <3>1. 0 \notin DOMAIN parent
            BY ParentFacts
        <3>2. 0 \notin DOMAIN parent'
            <4>1. TypeOK' => (0 \notin DOMAIN parent)'
                BY NoPostIsZero, PTL
            <4>2. QED
                BY <4>1
        <3>3. QED
            BY <1>1, <2>2, <3>1, <3>2, LineIs
    <2>3. CASE n \notin DOMAIN parent \cup {0}
        BY <2>3
    <2>4. QED
        BY <2>1, <2>2, <2>3
<1>3. OptIds \subseteq S
    <2> HIDE DEF S
    <2>1. QED
        BY <1>2, IdInduction
<1>4. QED
    BY <1>3, ParentFacts

-----------------------------------------------------------------------------
(* The invariant.                                                            *)

(* A climb from i that was never misled has ended at the root of the thread. *)
Topmost(i, r) ==
    Line[i] \subseteq there /\ Cardinality(Line[i]) <= MaxThreadDepth + 1 => parent[r] = 0

(* threadRootID on its way up from i.                                        *)
Climbed(i, at) ==
    at.root \in Line[i] /\ at.depth + Cardinality(Line[at.root]) = Cardinality(Line[i])

WriterInv(s) ==
    /\ s.target \in DOMAIN parent
    /\ s.pc \in {"idle", "insert"} => s.id = 0 /\ s.root = s.target /\ s.depth = 0
    /\ s.pc \in {"root", "publish"} =>
        s.id \in DOMAIN parent /\ parent[s.id] = s.target /\ Climbed(s.target, s)
    /\ s.pc = "publish" => Topmost(s.target, s.root)

(* An event carries a reply, on a key of its thread.                         *)
EventInv(key, reply) ==
    /\ reply \in DOMAIN parent /\ parent[reply] \in DOMAIN parent
    /\ key \in Line[parent[reply]] /\ Topmost(parent[reply], key)

(* Every reply was published or is about to be.                              *)
RepliesInv ==
    \A j \in DOMAIN parent : parent[j] # 0 =>
        \/ \E e \in DOMAIN replyOf : replyOf[e] = j
        \/ \E w \in Writers : writer[w].id = j

(* The key to which the climb of client st has led.                          *)
KeyInv(st, key) ==
    key \in Line[st.post] /\ (~st.astray => Topmost(st.post, key))

(* A client st that watches key since the event number n.                    *)
WatchInv(st, key, n) == KeyInv(st, key) /\ n <= Len(log)

(* Rows are kept from the oldest on; what was published before the client    *)
(* subscribed is kept unless it was deleted.                                 *)
KeptInv(st, n) ==
    /\ st.kept \subseteq st.seen /\ st.seen \subseteq DOMAIN parent
    /\ st.pc # "loaded" => st.kept \subseteq there /\ there \subseteq st.seen
    /\ \A j \in st.kept, i \in there : i < j => i \in st.kept
    /\ \A e \in 1..n : replyOf[e] \in there => replyOf[e] \in st.kept

Chain(st) == Append(st.ancestors, st.post)

ChainInv(st) ==
    /\ \A n \in DOMAIN Chain(st) : Chain(st)[n] \in DOMAIN parent
    /\ \A n \in 1..Len(Chain(st)) - 1 : parent[Chain(st)[n + 1]] = Chain(st)[n]

Hung(st) == {t[1] : t \in st.tree} \cup {st.post}

TreeInv(st) ==
    \A t \in st.tree : /\ t[1] \in DOMAIN parent /\ parent[t[1]] = t[2]
                       /\ t[1] \in st.seen /\ t[2] \in Hung(st)

TaskInv(st, t) ==
    /\ t.id \in DOMAIN parent
    /\ Cardinality(Line[t.id]) = Cardinality(Line[st.post]) + t.depth
    /\ t.call = "tree" => st.post \in Line[t.id] /\ t.id \in Hung(st)
    /\ t.call = "post" => /\ parent[t.id] = t.under /\ t.under \in Hung(st)
                          /\ st.post \in Line[t.under]

(* The call t will come to j if everything between them stays there.         *)
Covers(t, j) == t.id \in Line[j] /\ (t.call = "tree" => t.id # j)

BelowPost(p) ==
    {j \in DOMAIN parent : /\ p \in Line[j] \ {j}
                           /\ Cardinality(Line[j] \ Line[p]) <= MaxThreadDepth}

CoverInv(st) ==
    \A j \in BelowPost(st.post) : Line[j] \ Line[st.post] \subseteq st.kept =>
        j \in Hung(st) \/ \E n \in DOMAIN st.todo : Covers(st.todo[n], j)

ChainEnd(st) ==
    parent[Head(Chain(st))] \notin st.kept \/ Len(st.ancestors) = MaxThreadDepth

ClientInv(st, key, n) ==
    /\ st.post \in DOMAIN parent
    /\ st.pc = "root" => Climbed(st.post, st) /\ ~st.astray
    /\ st.pc = "subscribe" => KeyInv(st, st.root)
    /\ st.pc \notin {"offline", "root", "subscribe"} => WatchInv(st, key, n)
    /\ st.pc \in {"ancestors", "replies", "loaded"} =>
        KeptInv(st, n) /\ ChainInv(st) /\ TreeInv(st)
    /\ st.pc \in {"offline", "root", "subscribe", "connected", "ancestors"} =>
        st.tree = {} /\ ~st.failed /\ st.todo = <<>>
    /\ st.pc \in {"offline", "root", "subscribe", "connected"} => st.ancestors = <<>>
    /\ st.pc = "ancestors" => st.depth = Len(st.ancestors)
    /\ st.pc = "loaded" => st.todo = <<>>
    /\ \A m \in DOMAIN st.todo : TaskInv(st, st.todo[m])
    /\ st.pc \in {"replies", "loaded"} /\ ~st.failed => CoverInv(st) /\ ChainEnd(st)

ClientsInv == \A c \in Clients : ClientInv(client[c], watching[c], since[c])

WritersInv == \A w \in Writers : WriterInv(writer[w])

EventsInv == \A e \in DOMAIN log : EventInv(log[e], replyOf[e])

IInv == TypeOK /\ 1 \in DOMAIN parent /\ WritersInv /\ EventsInv /\ RepliesInv /\ ClientsInv

-----------------------------------------------------------------------------
(* What holds at the start.                                                  *)

LEMMA RestingIs ==
    Resting \in Request /\ Resting.pc = "idle" /\ Resting.id = 0 /\ Resting.target = 1
    /\ Resting.root = 1 /\ Resting.depth = 0
<1>1. 1 \in Ids /\ 0 \in 0..MaxPosts
    BY ThreadsAssumption DEF Ids
<1>2. QED
    BY <1>1 DEF Resting, Request

LEMMA OfflineIs ==
    /\ Offline \in Reader /\ Offline.pc = "offline" /\ Offline.post = 1
    /\ Offline.root = 1 /\ Offline.depth = 0 /\ Offline.astray = FALSE
    /\ Offline.ancestors = <<>> /\ Offline.todo = <<>> /\ Offline.tree = {}
    /\ Offline.failed = FALSE /\ Offline.kept = {} /\ Offline.seen = {}
<1>1. 1 \in Ids
    BY ThreadsAssumption DEF Ids
<1>2. <<>> \in Seq(Ids) /\ <<>> \in Seq(Task)
    OBVIOUS
<1>3. QED
    BY <1>1, <1>2 DEF Offline, Reader

LEMMA InitIInv == Init => IInv
<1> SUFFICES ASSUME Init PROVE IInv
    OBVIOUS
<1>1. parent = <<0>> /\ there = {1} /\ log = <<>> /\ replyOf = <<>> /\ faults = 0
      /\ watching = [s \in Clients |-> NoKey] /\ since = [s \in Clients |-> 0]
      /\ writer = [w \in Writers |-> Resting] /\ client = [c \in Clients |-> Offline]
    BY DEF Init, Hub!Init
<1>2. TypeOK
    <2>1. parent \in Seq(0..MaxPosts) /\ Len(parent) <= MaxPosts
          /\ \A i \in DOMAIN parent : parent[i] \in 0..i - 1
        BY <1>1, ThreadsAssumption
    <2>2. there \subseteq DOMAIN parent
        BY <1>1
    <2>3. log \in Seq(Ids) /\ replyOf \in Seq(Ids) /\ Len(log) = Len(replyOf)
        BY <1>1
    <2>4. faults \in 0..MaxFaults
        BY <1>1, ThreadsAssumption
    <2>5. QED
        BY <1>1, <2>1, <2>2, <2>3, <2>4, RestingIs, OfflineIs DEF TypeOK
<1>3. 1 \in DOMAIN parent /\ DOMAIN parent = {1}
    BY <1>1
<1>4. WritersInv
    BY <1>1, <1>3, RestingIs DEF WritersInv, WriterInv
<1>5. EventsInv
    BY <1>1 DEF EventsInv
<1>6. RepliesInv
    BY <1>1, <1>3 DEF RepliesInv
<1>7. ClientsInv
    BY <1>1, <1>3, OfflineIs DEF ClientsInv, ClientInv
<1>8. QED
    BY <1>2, <1>3, <1>4, <1>5, <1>6, <1>7 DEF IInv

-----------------------------------------------------------------------------
(* What the steps of others do to a client and to a writer: the thread       *)
(* grows, rows go, events are added.                                         *)

Grows ==
    /\ \A i \in DOMAIN parent : i \in DOMAIN parent' /\ parent'[i] = parent[i]
    /\ there' \cap DOMAIN parent \subseteq there
    /\ \A e \in DOMAIN replyOf : e \in DOMAIN replyOf' /\ replyOf'[e] = replyOf[e]

LEMMA TopmostKeeps ==
    ASSUME TypeOK, TypeOK', Grows, NEW i \in DOMAIN parent, NEW r \in DOMAIN parent,
           Topmost(i, r)
    PROVE  Topmost(i, r)'
<1>1. Line'[i] = Line[i] /\ parent'[r] = parent[r]
    BY LinesKeep DEF Grows
<1>2. Line[i] \subseteq DOMAIN parent
    BY LineFacts
<1>3. Line[i] \subseteq there' => Line[i] \subseteq there
    BY <1>2 DEF Grows
<1>4. QED
    BY <1>1, <1>3 DEF Topmost

LEMMA ClimbKeeps ==
    ASSUME TypeOK, TypeOK', Grows, NEW i \in DOMAIN parent, NEW at, Climbed(i, at)
    PROVE  Climbed(i, at)'
<1>1. at.root \in DOMAIN parent
    BY LineFacts DEF Climbed
<1>2. Line'[i] = Line[i] /\ Line'[at.root] = Line[at.root]
    BY <1>1, LinesKeep DEF Grows
<1>3. QED
    BY <1>2 DEF Climbed

LEMMA WriterKeeps ==
    ASSUME TypeOK, TypeOK', Grows, NEW s, WriterInv(s)
    PROVE  WriterInv(s)'
<1>1. s.target \in DOMAIN parent /\ s.target \in DOMAIN parent'
    BY DEF WriterInv, Grows
<1>2. ASSUME s.pc \in {"root", "publish"}
      PROVE  s.id \in DOMAIN parent' /\ parent'[s.id] = s.target /\ Climbed(s.target, s)'
    BY <1>1, <1>2, ClimbKeeps DEF WriterInv, Grows
<1>3. ASSUME s.pc = "publish" PROVE Topmost(s.target, s.root)'
    <2>1. s.root \in DOMAIN parent
        BY <1>1, <1>3, LineFacts DEF WriterInv, Climbed
    <2>2. QED
        BY <1>1, <1>3, <2>1, TopmostKeeps DEF WriterInv
<1>4. QED
    BY <1>1, <1>2, <1>3 DEF WriterInv

LEMMA EventKeeps ==
    ASSUME TypeOK, TypeOK', Grows, NEW key, NEW reply, EventInv(key, reply)
    PROVE  EventInv(key, reply)'
<1>1. reply \in DOMAIN parent /\ reply \in DOMAIN parent' /\ parent'[reply] = parent[reply]
    BY DEF EventInv, Grows
<1>2. PICK p : p = parent[reply]
    OBVIOUS
<1>3. p \in DOMAIN parent /\ p \in DOMAIN parent' /\ key \in Line[p] /\ Topmost(p, key)
    BY <1>2 DEF EventInv, Grows
<1>4. key \in DOMAIN parent /\ Line'[p] = Line[p]
    BY <1>3, LineFacts, LinesKeep DEF Grows
<1>5. Topmost(p, key)'
    BY <1>3, <1>4, TopmostKeeps
<1>6. QED
    BY <1>1, <1>2, <1>3, <1>4, <1>5 DEF EventInv

(* What a request has noted of the rows, in its histories.                   *)
Noted(st, at) ==
    /\ at.pc = st.pc /\ at.post = st.post /\ at.root = st.root /\ at.depth = st.depth
    /\ at.ancestors = st.ancestors /\ at.todo = st.todo /\ at.tree = st.tree
    /\ at.failed = st.failed /\ at.astray = st.astray
    /\ IF st.pc \in {"ancestors", "replies"}
       THEN at.kept = st.kept \cap there' /\ at.seen = st.seen \cup there'
       ELSE at.kept = st.kept /\ at.seen = st.seen

LEMMA NoteRows ==
    ASSUME NEW st \in Reader, there' \subseteq Ids, NEW at,
           at = IF st.pc \in {"ancestors", "replies"}
                THEN [st EXCEPT !.kept = @ \cap there', !.seen = @ \cup there']
                ELSE st
    PROVE  at \in Reader /\ Noted(st, at)
<1>1. PICK K \in SUBSET Ids : K = st.kept \cap there'
    BY DEF Reader
<1>2. PICK N \in SUBSET Ids : N = st.seen \cup there'
    BY DEF Reader
<1>3. [st EXCEPT !.kept = K, !.seen = N] \in Reader
    BY DEF Reader
<1>4. at = IF st.pc \in {"ancestors", "replies"}
           THEN [st EXCEPT !.kept = K, !.seen = N] ELSE st
    BY <1>1, <1>2
<1>5. Noted(st, at)
    BY <1>1, <1>2, <1>4 DEF Noted, Reader
<1>6. QED
    BY <1>3, <1>4, <1>5

LEMMA KeptKeeps ==
    ASSUME TypeOK, TypeOK', Grows, NEW st \in Reader, NEW at \in Reader, NEW n \in Nat,
           st.pc \in {"ancestors", "replies", "loaded"},
           KeptInv(st, n), Noted(st, at), n <= Len(log),
           \A e \in DOMAIN replyOf : replyOf[e] \in DOMAIN parent
    PROVE  KeptInv(at, n)'
<1> DEFINE D == DOMAIN parent
           D2 == DOMAIN parent'
<1>1. D \subseteq D2 /\ there \subseteq D /\ there' \subseteq D2
    BY DEF Grows, TypeOK
<1>2. st.kept \subseteq D /\ st.seen \subseteq D /\ at.kept \subseteq st.kept
      /\ st.seen \subseteq at.seen /\ at.seen \subseteq D2
    BY <1>1 DEF KeptInv, Noted
<1>3. at.kept \subseteq at.seen
    BY <1>2 DEF KeptInv
<1>4. at.pc # "loaded" => at.kept \subseteq there' /\ there' \subseteq at.seen
    BY DEF Noted
<1>5. ASSUME NEW j \in at.kept, NEW i \in there', i < j PROVE i \in at.kept
    <2>1. j \in D /\ j \in st.kept
        BY <1>2
    <2>2. i \in D
        <3>1. Len(parent) \in Nat /\ D = 1..Len(parent)
            BY DEF TypeOK
        <3>2. Len(parent') \in Nat /\ D2 = 1..Len(parent')
            BY DEF TypeOK
        <3>3. i \in Nat /\ 1 <= i /\ j \in Nat /\ j <= Len(parent)
            BY <1>1, <2>1, <3>1, <3>2
        <3>4. QED
            BY <1>5, <3>1, <3>3
    <2>3. i \in there
        BY <2>2 DEF Grows
    <2>4. i \in st.kept
        BY <1>5, <2>1, <2>3 DEF KeptInv
    <2>5. QED
        BY <1>5, <2>4 DEF Noted
<1>6. ASSUME NEW e \in 1..n, replyOf'[e] \in there' PROVE replyOf'[e] \in at.kept
    <2>1. Len(log) \in Nat /\ DOMAIN replyOf = 1..Len(log)
        BY DEF TypeOK
    <2>2. e \in DOMAIN replyOf
        BY <2>1
    <2>3. PICK r : r = replyOf[e]
        OBVIOUS
    <2>4. replyOf'[e] = r /\ r \in D /\ r \in there'
        BY <1>6, <2>2, <2>3 DEF Grows
    <2>5. r \in there
        BY <2>4 DEF Grows
    <2>6. r \in st.kept
        BY <2>3, <2>5 DEF KeptInv
    <2>7. QED
        BY <2>4, <2>6 DEF Noted
<1>7. QED
    BY <1>2, <1>3, <1>4, <1>5, <1>6 DEF KeptInv

LEMMA ChainKeeps ==
    ASSUME TypeOK, TypeOK', Grows, NEW st \in Reader, NEW at \in Reader,
           ChainInv(st), Noted(st, at)
    PROVE  ChainInv(at)'
<1>1. PICK s : s = Chain(st)
    OBVIOUS
<1>2. Chain(at) = s
    BY <1>1 DEF Chain, Noted
<1>3. s \in Seq(Ids) /\ Len(s) \in Nat /\ DOMAIN s = 1..Len(s)
    BY <1>1 DEF Chain, Reader
<1>4. \A n \in DOMAIN s : s[n] \in DOMAIN parent
    BY <1>1 DEF ChainInv
<1>5. \A n \in DOMAIN s : s[n] \in DOMAIN parent' /\ parent'[s[n]] = parent[s[n]]
    BY <1>4 DEF Grows
<1>6. ASSUME NEW n \in 1..Len(s) - 1 PROVE parent'[s[n + 1]] = s[n]
    <2>1. n + 1 \in DOMAIN s
        BY <1>3
    <2>2. parent[s[n + 1]] = s[n]
        BY <1>1, <1>6 DEF ChainInv
    <2>3. QED
        BY <1>5, <2>1, <2>2
<1>7. QED
    BY <1>2, <1>5, <1>6 DEF ChainInv

LEMMA TreeKeeps ==
    ASSUME TypeOK, TypeOK', Grows, NEW st \in Reader, NEW at \in Reader,
           TreeInv(st), Noted(st, at)
    PROVE  TreeInv(at)' /\ Hung(at) = Hung(st)
<1>1. Hung(at) = Hung(st) /\ at.tree = st.tree /\ st.seen \subseteq at.seen
    BY DEF Hung, Noted
<1>2. QED
    BY <1>1 DEF TreeInv, Grows

LEMMA TaskKeeps ==
    ASSUME TypeOK, TypeOK', Grows, NEW st \in Reader, NEW at \in Reader,
           st.post \in DOMAIN parent, NEW t, TaskInv(st, t), Noted(st, at)
    PROVE  TaskInv(at, t)'
<1>1. Hung(at) = Hung(st) /\ at.post = st.post
    BY DEF Hung, Noted
<1>2. t.id \in DOMAIN parent /\ t.id \in DOMAIN parent' /\ parent'[t.id] = parent[t.id]
    BY DEF TaskInv, Grows
<1>3. Line'[t.id] = Line[t.id] /\ Line'[parent[t.id]] = Line[parent[t.id]]
      /\ Line'[st.post] = Line[st.post]
    BY <1>2, LinesKeep DEF Grows
<1>4. QED
    BY <1>1, <1>2, <1>3 DEF TaskInv

LEMMA CoverKeeps ==
    ASSUME TypeOK, TypeOK', Grows, NEW st \in Reader, NEW at \in Reader,
           st.post \in DOMAIN parent, st.kept \subseteq DOMAIN parent,
           at.kept \subseteq st.kept, CoverInv(st), Noted(st, at)
    PROVE  CoverInv(at)'
<1>1. Hung(at) = Hung(st) /\ at.post = st.post /\ at.todo = st.todo
    BY DEF Hung, Noted
<1>2. PICK p \in DOMAIN parent : p = st.post
    OBVIOUS
<1>3. Line'[p] = Line[p] /\ Line[p] \subseteq DOMAIN parent
    BY LinesKeep, LineFacts DEF Grows
<1>4. \A j \in DOMAIN parent : Line'[j] = Line[j]
    BY LinesKeep DEF Grows
<1>5. \A j \in DOMAIN parent' : j \in Line'[j]
    <2>1. TypeOK' => (\A i \in OptIds :
            Line[i] = IF i \in DOMAIN parent THEN {i} \cup Line[parent[i]] ELSE {})'
        BY LineIs, PTL
    <2>2. TypeOK' => (DOMAIN parent \subseteq OptIds)'
        BY PostsAreIds, PTL
    <2>3. QED
        BY <2>1, <2>2
<1>6. ASSUME NEW j, (j \in BelowPost(p))', Line'[j] \ Line'[p] \subseteq at.kept
      PROVE  /\ Line'[j] = Line[j] /\ j \in BelowPost(p)
             /\ Line[j] \ Line[p] \subseteq st.kept
    <2>1. j \in DOMAIN parent' /\ p \in Line'[j] \ {j}
          /\ Cardinality(Line'[j] \ Line'[p]) <= MaxThreadDepth
        BY <1>6 DEF BelowPost
    <2>2. j \in DOMAIN parent
        BY <1>3, <1>5, <1>6, <2>1
    <2>3. QED
        BY <1>3, <1>4, <1>6, <2>1, <2>2 DEF BelowPost
<1>7. ASSUME NEW j, (j \in BelowPost(p))', Line'[j] \ Line'[p] \subseteq at.kept
      PROVE  j \in Hung(at) \/ \E n \in DOMAIN at.todo : Covers(at.todo[n], j)'
    <2>1. j \in Hung(st) \/ \E n \in DOMAIN st.todo : Covers(st.todo[n], j)
        BY <1>2, <1>6, <1>7 DEF CoverInv
    <2>2. Line'[j] = Line[j]
        BY <1>6, <1>7
    <2>3. QED
        BY <1>1, <2>1, <2>2 DEF Covers
<1>8. QED
    BY <1>1, <1>2, <1>7 DEF CoverInv

LEMMA KeyKeeps ==
    ASSUME TypeOK, TypeOK', Grows, NEW st \in Reader, NEW at \in Reader,
           st.post \in DOMAIN parent, NEW key, KeyInv(st, key), Noted(st, at)
    PROVE  KeyInv(at, key)'
<1>1. key \in Line[st.post] /\ (~st.astray => Topmost(st.post, key))
    BY DEF KeyInv
<1>2. key \in DOMAIN parent /\ Line'[st.post] = Line[st.post]
    BY <1>1, LineFacts, LinesKeep DEF Grows
<1>3. ~st.astray => Topmost(st.post, key)'
    BY <1>1, <1>2, TopmostKeeps
<1>4. at.post = st.post /\ at.astray = st.astray
    BY DEF Noted
<1>5. QED
    BY <1>1, <1>2, <1>3, <1>4 DEF KeyInv

LEMMA ClientKeeps ==
    ASSUME TypeOK, TypeOK', Grows, EventsInv,
           NEW st \in Reader, NEW at \in Reader, NEW key, NEW n \in Nat,
           ClientInv(st, key, n), Noted(st, at)
    PROVE  ClientInv(at, key, n)'
<1>1. /\ at.pc = st.pc /\ at.post = st.post /\ at.root = st.root /\ at.depth = st.depth
      /\ at.ancestors = st.ancestors /\ at.todo = st.todo /\ at.tree = st.tree
      /\ at.failed = st.failed /\ at.astray = st.astray
    BY DEF Noted
<1>2. st.post \in DOMAIN parent /\ st.post \in DOMAIN parent'
    BY DEF ClientInv, Grows
<1>3. ASSUME st.pc = "root" PROVE Climbed(at.post, at)' /\ ~at.astray
    <2>1. Climbed(st.post, st)' /\ ~st.astray
        BY <1>2, <1>3, ClimbKeeps DEF ClientInv
    <2>2. QED
        BY <1>1, <2>1 DEF Climbed
<1>4. Len(log) \in Nat /\ Len(log') \in Nat /\ Len(log) <= Len(log')
    <2>1. Len(log) \in Nat /\ DOMAIN replyOf = 1..Len(log)
        BY DEF TypeOK
    <2>2. Len(log') \in Nat /\ DOMAIN replyOf' = 1..Len(log')
        BY DEF TypeOK
    <2>3. 1..Len(log) \subseteq 1..Len(log')
        BY <2>1, <2>2 DEF Grows
    <2>4. QED
        BY <2>1, <2>2, <2>3
<1>5. ASSUME st.pc \notin {"offline", "root", "subscribe"} PROVE WatchInv(at, key, n)'
    <2>1. KeyInv(st, key) /\ n <= Len(log)
        BY <1>5 DEF ClientInv, WatchInv
    <2>2. KeyInv(at, key)'
        BY <1>2, <2>1, KeyKeeps
    <2>3. n <= Len(log')
        BY <1>4, <2>1
    <2>4. QED
        BY <2>2, <2>3 DEF WatchInv
<1>6. ASSUME st.pc \in {"ancestors", "replies", "loaded"}
      PROVE  /\ KeptInv(at, n)' /\ ChainInv(at)' /\ TreeInv(at)'
             /\ at.kept \subseteq st.kept /\ st.kept \subseteq DOMAIN parent
    <2>1. KeptInv(st, n) /\ ChainInv(st) /\ TreeInv(st) /\ n <= Len(log)
        BY <1>6 DEF ClientInv, WatchInv
    <2>2. \A e \in DOMAIN replyOf : replyOf[e] \in DOMAIN parent
        <3>1. DOMAIN replyOf = 1..Len(replyOf) /\ DOMAIN log = 1..Len(log) /\ Len(log) = Len(replyOf)
            BY DEF TypeOK
        <3>2. DOMAIN log = DOMAIN replyOf
            BY <3>1
        <3>3. QED
            BY <3>2 DEF EventsInv, EventInv
    <2>3. KeptInv(at, n)'
        BY <1>6, <2>1, <2>2, KeptKeeps
    <2>4. ChainInv(at)' /\ TreeInv(at)'
        BY <2>1, ChainKeeps, TreeKeeps
    <2>5. at.kept \subseteq st.kept /\ st.kept \subseteq DOMAIN parent
        BY <2>1 DEF Noted, KeptInv
    <2>6. QED
        BY <2>3, <2>4, <2>5
<1>7. ASSUME NEW m \in DOMAIN at.todo PROVE TaskInv(at, at.todo[m])'
    <2>1. PICK t : t = at.todo[m]
        OBVIOUS
    <2>2. TaskInv(st, t)
        BY <1>1, <2>1 DEF ClientInv
    <2>3. TaskInv(at, t)'
        BY <1>2, <2>2, TaskKeeps
    <2>4. QED
        BY <2>1, <2>3
<1>8. ASSUME st.pc \in {"replies", "loaded"}, ~st.failed
      PROVE  CoverInv(at)' /\ ChainEnd(at)'
    <2>1. CoverInv(st) /\ ChainEnd(st)
        BY <1>8 DEF ClientInv
    <2>2. CoverInv(at)'
        BY <1>2, <1>6, <1>8, <2>1, CoverKeeps
    <2>3. ChainEnd(at)'
        <3>1. PICK s : s = Chain(st)
            OBVIOUS
        <3>2. s = Chain(at) /\ s \in Seq(Ids) /\ s # <<>>
            BY <1>1, <3>1 DEF Chain, Reader
        <3>3. Head(s) \in DOMAIN parent
            <4>1. Head(s) = s[1] /\ 1 \in DOMAIN s
                BY <3>2
            <4>2. ChainInv(st)
                BY <1>8 DEF ClientInv
            <4>3. QED
                BY <3>1, <4>1, <4>2 DEF ChainInv
        <3>4. PICK i : i = Head(s)
            OBVIOUS
        <3>5. parent'[i] = parent[i]
            BY <3>3, <3>4 DEF Grows
        <3>6. QED
            BY <1>1, <1>6, <1>8, <2>1, <3>1, <3>2, <3>4, <3>5 DEF ChainEnd
    <2>4. QED
        BY <2>2, <2>3
<1>9. ASSUME st.pc = "subscribe" PROVE KeyInv(at, at.root)'
    <2>1. PICK r : r = st.root
        OBVIOUS
    <2>2. KeyInv(st, r)
        BY <1>9, <2>1 DEF ClientInv
    <2>3. KeyInv(at, r)'
        BY <1>2, <2>2, KeyKeeps
    <2>4. QED
        BY <1>1, <2>1, <2>3
<1>10. QED
    BY <1>1, <1>2, <1>3, <1>5, <1>6, <1>7, <1>8, <1>9 DEF ClientInv

LEMMA OthersKeep ==
    ASSUME IInv, TypeOK', Grows, UNCHANGED <<watching, since>>,
           \A c \in Clients : Noted(client[c], client'[c])
    PROVE  ClientsInv' /\ 1 \in DOMAIN parent'
<1>1. ASSUME NEW c \in Clients PROVE ClientInv(client[c], watching[c], since[c])'
    <2>1. PICK st : st = client[c]
        OBVIOUS
    <2>2. PICK at : at = client'[c]
        OBVIOUS
    <2>3. PICK key : key = watching[c]
        OBVIOUS
    <2>4. PICK n : n = since[c]
        OBVIOUS
    <2>5. st \in Reader /\ at \in Reader /\ n \in Nat
        BY <2>1, <2>2, <2>4 DEF IInv, TypeOK
    <2>6. ClientInv(st, key, n) /\ Noted(st, at)
        BY <2>1, <2>2, <2>3, <2>4 DEF IInv, ClientsInv
    <2>7. ClientInv(at, key, n)'
        BY <2>5, <2>6, ClientKeeps DEF IInv
    <2>8. key = watching'[c] /\ n = since'[c]
        BY <2>3, <2>4
    <2>9. QED
        BY <2>2, <2>7, <2>8
<1>2. QED
    BY <1>1 DEF ClientsInv, IInv, Grows

LEMMA NotedSame ==
    ASSUME IInv, there' = there, client' = client
    PROVE  \A c \in Clients : Noted(client[c], client'[c])
<1> SUFFICES ASSUME NEW c \in Clients PROVE Noted(client[c], client'[c])
    OBVIOUS
<1>1. PICK st : st = client[c]
    OBVIOUS
<1>2. PICK n : n = since[c]
    OBVIOUS
<1>3. st.pc \in {"ancestors", "replies"} => KeptInv(st, n)
    BY <1>1, <1>2 DEF IInv, ClientsInv, ClientInv
<1>4. st.pc \in {"ancestors", "replies"} => st.kept \subseteq there /\ there \subseteq st.seen
    BY <1>3 DEF KeptInv
<1>5. Noted(st, st)
    BY <1>4 DEF Noted
<1>6. QED
    BY <1>1, <1>5

LEMMA OtherWriters ==
    ASSUME IInv, TypeOK', Grows, NEW w \in Writers, NEW s \in Request,
           writer' = [writer EXCEPT ![w] = s], WriterInv(s)'
    PROVE  WritersInv'
<1>1. ASSUME NEW v \in Writers PROVE WriterInv(writer[v])'
    <2>1. CASE v = w
        <3>1. writer'[v] = s
            BY <2>1 DEF IInv, TypeOK
        <3>2. QED
            BY <3>1
    <2>2. CASE v # w
        <3>1. PICK r : r = writer[v]
            OBVIOUS
        <3>2. WriterInv(r)
            BY <3>1 DEF IInv, WritersInv
        <3>3. WriterInv(r)'
            BY <3>2, WriterKeeps DEF IInv
        <3>4. writer'[v] = r
            BY <2>2, <3>1 DEF IInv, TypeOK
        <3>5. QED
            BY <3>3, <3>4
    <2>3. QED
        BY <2>1, <2>2
<1>2. QED
    BY <1>1 DEF WritersInv

(* Steps that leave the thread and the events alone.                         *)
LEMMA GrowsSame ==
    ASSUME UNCHANGED <<parent, there, replyOf>> PROVE Grows
    BY DEF Grows

LEMMA EventsSame ==
    ASSUME IInv, TypeOK', Grows, UNCHANGED <<log, replyOf>>
    PROVE  EventsInv'
<1>1. ASSUME NEW e \in DOMAIN log PROVE EventInv(log[e], replyOf[e])'
    <2>1. PICK k : k = log[e]
        OBVIOUS
    <2>2. PICK r : r = replyOf[e]
        OBVIOUS
    <2>3. EventInv(k, r)
        BY <2>1, <2>2 DEF IInv, EventsInv
    <2>4. EventInv(k, r)'
        BY <2>3, EventKeeps DEF IInv
    <2>5. QED
        BY <2>1, <2>2, <2>4
<1>2. QED
    BY <1>1 DEF EventsInv

-----------------------------------------------------------------------------
(* The steps of the writers.                                                 *)

LEMMA FindParentKeeps ==
    ASSUME IInv, NEW w \in Writers, NEW i \in Ids, FindParent(w, i) PROVE IInv'
<1>1. PICK s : s = [Resting EXCEPT !.pc = "insert", !.target = i, !.root = i]
    OBVIOUS
<1>2. /\ s \in Request /\ s.pc = "insert" /\ s.target = i /\ s.root = i
      /\ s.id = 0 /\ s.depth = 0
    BY <1>1, RestingIs DEF Request, Resting
<1>3. /\ writer' = [writer EXCEPT ![w] = s] /\ i \in there /\ writer[w].pc = "idle"
      /\ UNCHANGED <<parent, there, log, watching, since, replyOf, client, faults>>
    BY <1>1 DEF FindParent, Writer, WriterAt, hub
<1>4. TypeOK /\ TypeOK' /\ Grows
    <2>1. writer' \in [Writers -> Request]
        BY <1>2, <1>3 DEF IInv, TypeOK
    <2>2. QED
        BY <1>3, <2>1, GrowsSame DEF IInv, TypeOK
<1>5. WriterInv(s)'
    BY <1>2, <1>3 DEF WriterInv, IInv, TypeOK
<1>6. WritersInv'
    BY <1>2, <1>3, <1>4, <1>5, OtherWriters
<1>7. ClientsInv' /\ 1 \in DOMAIN parent'
    BY <1>3, <1>4, NotedSame, OthersKeep
<1>8. EventsInv'
    BY <1>3, <1>4, EventsSame
<1>9. RepliesInv'
    <2>1. ASSUME NEW j \in DOMAIN parent, parent[j] # 0, NEW v \in Writers, writer[v].id = j
          PROVE  writer'[v].id = j
        <3>1. writer[w].id = 0
            BY <1>3 DEF IInv, WritersInv, WriterInv
        <3>2. j # 0
            BY <1>4, ParentFacts
        <3>3. v # w
            BY <2>1, <3>1, <3>2
        <3>4. QED
            BY <1>3, <2>1, <3>3 DEF IInv, TypeOK
    <2>2. QED
        BY <1>3, <2>1 DEF IInv, RepliesInv
<1>10. QED
    BY <1>4, <1>6, <1>7, <1>8, <1>9 DEF IInv

LEMMA InsertReplyKeeps ==
    ASSUME IInv, NEW w \in Writers, InsertReply(w) PROVE IInv'
<1>1. PICK new : new = Len(parent) + 1
    OBVIOUS
<1>2. PICK s : s = [writer[w] EXCEPT !.pc = "root", !.id = new]
    OBVIOUS
<1>3. PICK t : t = writer[w].target
    OBVIOUS
<1>4. /\ writer' = [writer EXCEPT ![w] = s] /\ writer[w].pc = "insert"
      /\ Len(parent) < MaxPosts /\ parent' = Append(parent, t)
      /\ Tables(there \cup {new}) /\ there' = there \cup {new}
      /\ UNCHANGED <<log, watching, since, replyOf, faults>>
    BY <1>1, <1>2, <1>3 DEF InsertReply, Writer, WriterAt, hub, Tables
<1>5. TypeOK /\ Len(parent) \in Nat /\ DOMAIN parent = 1..Len(parent) /\ t \in DOMAIN parent
      /\ writer[w] \in Request /\ WriterInv(writer[w])
    BY <1>3 DEF IInv, TypeOK, WritersInv, WriterInv
<1>6. t \in Nat /\ t # 0 /\ t <= Len(parent) /\ t \in 0..MaxPosts /\ new \in Ids /\ new \in 0..MaxPosts
    <2>1. t \in Nat /\ t # 0 /\ t <= Len(parent)
        BY <1>5
    <2>2. QED
        BY <1>1, <1>4, <1>5, <2>1, ThreadsAssumption DEF Ids
<1>7. /\ parent' \in Seq(0..MaxPosts) /\ Len(parent') = new
      /\ DOMAIN parent' = 1..new /\ parent'[new] = t
      /\ \A i \in DOMAIN parent : i \in DOMAIN parent' /\ parent'[i] = parent[i]
      /\ DOMAIN parent' = DOMAIN parent \cup {new} /\ new \notin DOMAIN parent
    <2>1. parent \in Seq(0..MaxPosts)
        BY <1>5 DEF TypeOK
    <2>2. /\ parent' \in Seq(0..MaxPosts) /\ Len(parent') = new /\ parent'[new] = t
          /\ \A i \in 1..Len(parent) : parent'[i] = parent[i]
        BY <1>1, <1>4, <1>6, <2>1, AppendProperties
    <2>3. DOMAIN parent' = 1..new
        BY <2>2
    <2>4. 1..new = 1..Len(parent) \cup {new} /\ new \notin 1..Len(parent)
        BY <1>1, <1>5
    <2>5. QED
        BY <1>5, <2>2, <2>3, <2>4
<1>8. ASSUME NEW c \in Clients
      PROVE  client'[c] \in Reader /\ Noted(client[c], client'[c])
    <2>1. PICK st \in Reader : st = client[c]
        BY <1>5 DEF TypeOK
    <2>2. there' \subseteq Ids
        BY <1>4, <1>5, <1>6, ParentFacts DEF TypeOK
    <2>3. client'[c] = IF st.pc \in {"ancestors", "replies"}
                       THEN [st EXCEPT !.kept = @ \cap there', !.seen = @ \cup there']
                       ELSE st
        BY <1>4, <2>1 DEF Tables
    <2>4. QED
        BY <2>1, <2>2, <2>3, NoteRows
<1>9. s \in Request /\ s.pc = "root" /\ s.id = new /\ s.target = t /\ s.root = t /\ s.depth = 0
      /\ writer[w].id = 0
    BY <1>2, <1>3, <1>4, <1>5, <1>6 DEF Request, WriterInv
<1>10. TypeOK' /\ Grows
    <2>1. \A i \in DOMAIN parent' : parent'[i] \in 0..i - 1
        <3>1. t \in 0..new - 1
            BY <1>1, <1>5, <1>6
        <3>2. QED
            BY <1>5, <1>7, <3>1 DEF TypeOK
    <2>2. there' \subseteq DOMAIN parent'
        BY <1>4, <1>5, <1>7 DEF TypeOK
    <2>3. writer' \in [Writers -> Request]
        BY <1>4, <1>5, <1>9 DEF TypeOK
    <2>4. client' \in [Clients -> Reader]
        <3>1. DOMAIN client' = Clients /\ client' = [c \in Clients |-> client'[c]]
            BY <1>4 DEF Tables
        <3>2. QED
            BY <1>8, <3>1
    <2>5. Len(parent') <= MaxPosts
        BY <1>1, <1>4, <1>5, <1>7, ThreadsAssumption
    <2>6. TypeOK'
        BY <1>4, <1>5, <1>7, <2>1, <2>2, <2>3, <2>4, <2>5 DEF TypeOK
    <2>7. there' \cap DOMAIN parent \subseteq there
        BY <1>4, <1>7
    <2>8. QED
        BY <1>4, <1>7, <2>6, <2>7 DEF Grows
<1>11. ClientsInv' /\ 1 \in DOMAIN parent'
    BY <1>4, <1>8, <1>10, OthersKeep
<1>12. EventsInv'
    BY <1>4, <1>10, EventsSame
<1>13. WritersInv'
    <2>1. Line'[t] = Line[t] /\ t \in Line[t]
        BY <1>5, <1>7, <1>10, LinesKeep, LineFacts
    <2>2. Cardinality(Line[t]) \in Nat
        BY <1>5, Lengths
    <2>3. Climbed(t, s)'
        BY <1>9, <2>1, <2>2 DEF Climbed
    <2>4. WriterInv(s)'
        BY <1>5, <1>7, <1>9, <2>3 DEF WriterInv
    <2>5. QED
        BY <1>4, <1>9, <1>10, <2>4, OtherWriters
<1>14. RepliesInv'
    <2>1. ASSUME NEW j \in DOMAIN parent', parent'[j] # 0
          PROVE  \/ \E e \in DOMAIN replyOf' : replyOf'[e] = j
                 \/ \E v \in Writers : writer'[v].id = j
        <3>1. CASE j = new
            <4>1. writer'[w] = s
                BY <1>4, <1>5 DEF TypeOK
            <4>2. QED
                BY <1>9, <3>1, <4>1
        <3>2. CASE j \in DOMAIN parent
            <4>1. parent[j] # 0 /\ j # 0
                BY <1>5, <1>7, <2>1, <3>2, ParentFacts
            <4>2. CASE \E e \in DOMAIN replyOf : replyOf[e] = j
                BY <1>4, <4>2
            <4>3. ASSUME NEW v \in Writers, writer[v].id = j PROVE writer'[v].id = j
                <5>1. v # w
                    BY <1>9, <4>1, <4>3
                <5>2. QED
                    BY <1>4, <1>5, <4>3, <5>1 DEF TypeOK
            <4>4. QED
                BY <3>2, <4>1, <4>2, <4>3 DEF IInv, RepliesInv
        <3>3. QED
            BY <1>7, <3>1, <3>2
    <2>2. QED
        BY <2>1 DEF RepliesInv
<1>15. QED
    BY <1>10, <1>11, <1>12, <1>13, <1>14 DEF IInv

(* A step of threadRootID, and its end.                                      *)
LEMMA Climb ==
    ASSUME TypeOK, NEW i \in DOMAIN parent, NEW at, at.depth \in Nat, Climbed(i, at)
    PROVE  /\ Above(at) # 0 =>
                /\ Above(at) \in Ids
                /\ \A up : up.root = Above(at) /\ up.depth = at.depth + 1 => Climbed(i, up)
           /\ Above(at) = 0 => Topmost(i, at.root)
<1>1. PICK r : r = at.root
    OBVIOUS
<1>2. r \in Line[i] /\ r \in DOMAIN parent /\ at.depth + Cardinality(Line[r]) = Cardinality(Line[i])
    BY <1>1, LineFacts DEF Climbed
<1>3. ASSUME Above(at) # 0
      PROVE  /\ Above(at) \in Ids
             /\ \A up : up.root = Above(at) /\ up.depth = at.depth + 1 => Climbed(i, up)
    <2>1. PICK p : p = parent[r]
        OBVIOUS
    <2>2. Above(at) = p /\ p # 0
        BY <1>1, <1>3, <2>1 DEF Above
    <2>3. p \in DOMAIN parent /\ p \in Ids
        BY <1>2, <2>1, <2>2, ParentFacts
    <2>4. p \in Line[i]
        <3>1. p \in Line[p] /\ Line[p] \subseteq Line[r] /\ Line[r] \subseteq Line[i]
            BY <1>2, <2>1, <2>3, LineFacts
        <3>2. QED
            BY <3>1
    <2>5. Cardinality(Line[r]) = Cardinality(Line[p]) + 1 /\ Cardinality(Line[p]) \in Nat
        BY <1>2, <2>1, Lengths
    <2>6. (at.depth + 1) + Cardinality(Line[p]) = Cardinality(Line[i])
        BY <1>2, <2>5
    <2>7. QED
        BY <2>2, <2>3, <2>4, <2>6 DEF Climbed
<1>4. ASSUME Above(at) = 0, Line[i] \subseteq there, Cardinality(Line[i]) <= MaxThreadDepth + 1
      PROVE  parent[r] = 0
    <2>1. r \in there
        BY <1>2, <1>4
    <2>2. ~(at.depth < MaxThreadDepth) \/ parent[r] = 0
        BY <1>1, <1>4, <2>1 DEF Above
    <2>3. Cardinality(Line[r]) \in Nat /\ Cardinality(Line[i]) \in Nat /\ MaxThreadDepth \in Nat
        BY <1>2, Lengths, ThreadsAssumption
    <2>4. ~(at.depth < MaxThreadDepth) => Cardinality(Line[r]) <= 1
        BY <1>2, <1>4, <2>3
    <2>5. QED
        BY <1>2, <2>2, <2>4, Lengths
<1>5. QED
    BY <1>1, <1>3, <1>4 DEF Topmost

LEMMA ClimbReplyKeeps ==
    ASSUME IInv, NEW w \in Writers, ClimbReply(w) PROVE IInv'
<1>1. PICK r \in Request : r = writer[w]
    BY DEF IInv, TypeOK
<1>2. /\ r.pc = "root" /\ WriterInv(r) /\ r.target \in DOMAIN parent /\ Climbed(r.target, r)
      /\ r.depth \in Nat
    BY <1>1 DEF ClimbReply, WriterAt, IInv, WritersInv, WriterInv, Request
<1>3. PICK s : s = IF Above(r) # 0 THEN [r EXCEPT !.root = Above(r), !.depth = @ + 1]
                   ELSE [r EXCEPT !.pc = "publish"]
    OBVIOUS
<1>4. /\ writer' = [writer EXCEPT ![w] = s]
      /\ UNCHANGED <<parent, there, log, watching, since, replyOf, client, faults>>
    BY <1>1, <1>3 DEF ClimbReply, Writer, hub
<1>5. TypeOK
    BY DEF IInv
<1>6. s \in Request /\ s.target = r.target /\ s.id = r.id /\ WriterInv(s)
    <2>1. CASE Above(r) # 0
        <3>1. Above(r) \in Ids
            BY <1>2, <1>5, <2>1, Climb
        <3>2. s.root = Above(r) /\ s.depth = r.depth + 1
            BY <1>3, <2>1 DEF Request
        <3>3. Climbed(r.target, s)
            BY <1>2, <1>5, <2>1, <3>2, Climb
        <3>4. s \in Request /\ s.target = r.target /\ s.id = r.id /\ s.pc = "root"
            <4>1. PICK i \in Ids : i = Above(r)
                BY <3>1
            <4>2. PICK d \in Nat : d = r.depth + 1
                BY <1>2
            <4>3. s = [r EXCEPT !.root = i, !.depth = d]
                BY <1>3, <2>1, <4>1, <4>2
            <4>4. QED
                BY <1>2, <4>3 DEF Request
        <3>5. QED
            BY <1>2, <3>3, <3>4 DEF WriterInv
    <2>2. CASE Above(r) = 0
        <3>1. Topmost(r.target, r.root)
            BY <1>2, <1>5, <2>2, Climb
        <3>2. /\ s \in Request /\ s.target = r.target /\ s.id = r.id /\ s.pc = "publish"
              /\ s.root = r.root /\ s.depth = r.depth
            BY <1>3, <2>2 DEF Request
        <3>3. Climbed(r.target, s)
            BY <1>2, <3>2 DEF Climbed
        <3>4. QED
            BY <1>2, <3>1, <3>2, <3>3 DEF WriterInv
    <2>3. QED
        BY <2>1, <2>2
<1>7. TypeOK' /\ Grows
    <2>1. writer' \in [Writers -> Request]
        BY <1>4, <1>5, <1>6 DEF TypeOK
    <2>2. QED
        BY <1>4, <1>5, <2>1, GrowsSame DEF TypeOK
<1>8. WriterInv(s)'
    BY <1>5, <1>6, <1>7, WriterKeeps
<1>9. WritersInv'
    BY <1>4, <1>6, <1>7, <1>8, OtherWriters
<1>10. ClientsInv' /\ 1 \in DOMAIN parent'
    BY <1>4, <1>7, NotedSame, OthersKeep
<1>11. EventsInv'
    BY <1>4, <1>7, EventsSame
<1>12. RepliesInv'
    <2>1. ASSUME NEW v \in Writers PROVE writer'[v].id = writer[v].id
        BY <1>1, <1>4, <1>5, <1>6 DEF TypeOK
    <2>2. QED
        BY <1>4, <2>1 DEF IInv, RepliesInv
<1>13. QED
    BY <1>7, <1>9, <1>10, <1>11, <1>12 DEF IInv

LEMMA PublishReplyKeeps ==
    ASSUME IInv, NEW w \in Writers, PublishReply(w) PROVE IInv'
<1>1. PICK r \in Request : r = writer[w]
    BY DEF IInv, TypeOK
<1>2. /\ writer' = [writer EXCEPT ![w] = Resting]
      /\ log' = Append(log, r.root) /\ replyOf' = Append(replyOf, r.id)
      /\ UNCHANGED <<parent, there, watching, since, client, faults>>
    BY <1>1 DEF PublishReply, Writer, Hub!Publish
<1>3. TypeOK
    BY DEF IInv
<1>4. /\ r.pc = "publish" /\ r.id \in DOMAIN parent /\ parent[r.id] = r.target
      /\ r.target \in DOMAIN parent /\ r.root \in Line[r.target] /\ Topmost(r.target, r.root)
    BY <1>1 DEF PublishReply, WriterAt, IInv, WritersInv, WriterInv, Climbed
<1>5. r.root \in Ids /\ r.id \in Ids
    BY <1>3, <1>4, ParentFacts DEF Request
<1>6. PICK n \in Nat : n = Len(log)
    BY <1>3 DEF TypeOK
<1>7. /\ log' \in Seq(Ids) /\ Len(log') = n + 1 /\ log'[n + 1] = r.root
      /\ \A e \in 1..n : log'[e] = log[e]
      /\ replyOf' \in Seq(Ids) /\ Len(replyOf') = n + 1 /\ replyOf'[n + 1] = r.id
      /\ \A e \in 1..n : replyOf'[e] = replyOf[e]
      /\ DOMAIN log = 1..n /\ DOMAIN replyOf = 1..n
    <2>1. log \in Seq(Ids) /\ replyOf \in Seq(Ids) /\ Len(log) = n /\ Len(replyOf) = n
        BY <1>3, <1>6 DEF TypeOK
    <2>2. /\ log' \in Seq(Ids) /\ Len(log') = n + 1 /\ log'[n + 1] = r.root
          /\ \A e \in 1..n : log'[e] = log[e]
        BY <1>2, <1>5, <2>1, AppendProperties
    <2>3. /\ replyOf' \in Seq(Ids) /\ Len(replyOf') = n + 1 /\ replyOf'[n + 1] = r.id
          /\ \A e \in 1..n : replyOf'[e] = replyOf[e]
        BY <1>2, <1>5, <2>1, AppendProperties
    <2>4. QED
        BY <2>1, <2>2, <2>3
<1>8. DOMAIN log' = 1..n + 1 /\ DOMAIN replyOf' = 1..n + 1 /\ 1..n + 1 = 1..n \cup {n + 1}
    BY <1>6, <1>7
<1>9. TypeOK'
    <2>1. writer' \in [Writers -> Request]
        BY <1>2, <1>3, RestingIs DEF TypeOK
    <2>2. Len(log') = Len(replyOf')
        BY <1>7
    <2>3. QED
        BY <1>2, <1>3, <1>7, <2>1, <2>2 DEF TypeOK
<1>10. Grows
    BY <1>2, <1>7, <1>8 DEF Grows
<1>11. ClientsInv' /\ 1 \in DOMAIN parent'
    BY <1>2, <1>9, <1>10, NotedSame, OthersKeep
<1>12. WritersInv'
    <2>1. WriterInv(Resting)'
        BY <1>2, RestingIs DEF IInv, WriterInv
    <2>2. QED
        BY <1>2, <1>9, <1>10, <2>1, RestingIs, OtherWriters
<1>13. EventsInv'
    <2>1. ASSUME NEW e \in 1..n + 1 PROVE EventInv(log[e], replyOf[e])'
        <3>1. PICK k : k = log'[e]
            OBVIOUS
        <3>2. PICK j : j = replyOf'[e]
            OBVIOUS
        <3>3. EventInv(k, j)
            <4>1. CASE e \in 1..n
                BY <1>7, <3>1, <3>2, <4>1 DEF IInv, EventsInv
            <4>2. CASE e = n + 1
                <5>1. k = r.root /\ j = r.id
                    BY <1>7, <3>1, <3>2, <4>2
                <5>2. QED
                    BY <1>4, <5>1 DEF EventInv
            <4>3. QED
                BY <1>8, <4>1, <4>2
        <3>4. EventInv(k, j)'
            BY <1>3, <1>9, <1>10, <3>3, EventKeeps
        <3>5. QED
            BY <3>1, <3>2, <3>4
    <2>2. QED
        BY <1>8, <2>1 DEF EventsInv
<1>14. RepliesInv'
    <2>1. ASSUME NEW j \in DOMAIN parent, parent[j] # 0
          PROVE  \/ \E e \in DOMAIN replyOf' : replyOf'[e] = j
                 \/ \E v \in Writers : writer'[v].id = j
        <3>1. CASE \E e \in DOMAIN replyOf : replyOf[e] = j
            BY <1>7, <1>8, <3>1
        <3>2. CASE writer[w].id = j
            BY <1>1, <1>7, <1>8, <3>2
        <3>3. ASSUME NEW v \in Writers, v # w, writer[v].id = j PROVE writer'[v].id = j
            BY <1>2, <1>3, <3>3 DEF TypeOK
        <3>4. QED
            BY <2>1, <3>1, <3>2, <3>3 DEF IInv, RepliesInv
    <2>2. QED
        BY <1>2, <2>1 DEF RepliesInv
<1>15. QED
    BY <1>9, <1>11, <1>12, <1>13, <1>14 DEF IInv

LEMMA DeletePostKeeps ==
    ASSUME IInv, NEW i \in there, DeletePost(i) PROVE IInv'
<1>1. /\ there' = there \ {i} /\ Tables(there \ {i})
      /\ UNCHANGED <<parent, log, watching, since, replyOf, writer, faults>>
    BY DEF DeletePost, Tables, hub
<1>2. TypeOK
    BY DEF IInv
<1>3. ASSUME NEW c \in Clients
      PROVE  client'[c] \in Reader /\ Noted(client[c], client'[c])
    <2>1. PICK st \in Reader : st = client[c]
        BY <1>2 DEF TypeOK
    <2>2. there' \subseteq Ids
        BY <1>1, <1>2, ParentFacts DEF TypeOK
    <2>3. client'[c] = IF st.pc \in {"ancestors", "replies"}
                       THEN [st EXCEPT !.kept = @ \cap there', !.seen = @ \cup there']
                       ELSE st
        BY <1>1, <2>1 DEF Tables
    <2>4. QED
        BY <2>1, <2>2, <2>3, NoteRows
<1>4. TypeOK'
    <2>1. DOMAIN client' = Clients /\ client' = [c \in Clients |-> client'[c]]
        BY <1>1 DEF Tables
    <2>2. client' \in [Clients -> Reader]
        BY <1>3, <2>1
    <2>3. QED
        BY <1>1, <1>2, <2>2 DEF TypeOK
<1>5. Grows
    BY <1>1 DEF Grows
<1>6. ClientsInv' /\ 1 \in DOMAIN parent'
    BY <1>1, <1>3, <1>4, <1>5, OthersKeep
<1>7. EventsInv'
    BY <1>1, <1>4, <1>5, EventsSame
<1>8. WritersInv'
    <2>1. ASSUME NEW w \in Writers PROVE WriterInv(writer[w])'
        <3>1. PICK s : s = writer[w]
            OBVIOUS
        <3>2. WriterInv(s)
            BY <3>1 DEF IInv, WritersInv
        <3>3. WriterInv(s)'
            BY <1>2, <1>4, <1>5, <3>2, WriterKeeps
        <3>4. QED
            BY <1>1, <3>1, <3>3
    <2>2. QED
        BY <2>1 DEF WritersInv
<1>9. RepliesInv'
    BY <1>1 DEF IInv, RepliesInv
<1>10. QED
    BY <1>4, <1>6, <1>7, <1>8, <1>9 DEF IInv

-----------------------------------------------------------------------------
(* The steps of the clients.                                                 *)

LEMMA OneClient ==
    ASSUME IInv, NEW c \in Clients, NEW st \in Reader, client' = [client EXCEPT ![c] = st],
           UNCHANGED <<parent, there, log, replyOf, writer>>, faults' \in 0..MaxFaults,
           watching' \in [Clients -> Ids \cup {NoKey}], since' \in [Clients -> Nat],
           \A d \in Clients : d # c => watching'[d] = watching[d] /\ since'[d] = since[d],
           NEW key, key = watching'[c], NEW n \in Nat, n = since'[c], ClientInv(st, key, n)
    PROVE  IInv'
<1>1. TypeOK /\ TypeOK' /\ Grows
    <2>1. client' \in [Clients -> Reader]
        BY DEF IInv, TypeOK
    <2>2. QED
        BY <2>1, GrowsSame DEF IInv, TypeOK
<1>2. ASSUME NEW d \in Clients PROVE ClientInv(client[d], watching[d], since[d])'
    <2>1. CASE d = c
        <3>1. Noted(st, st)
            BY DEF Noted, ClientInv, KeptInv
        <3>2. ClientInv(st, key, n)'
            BY <1>1, <3>1, ClientKeeps DEF IInv
        <3>3. client'[c] = st
            BY <1>1 DEF TypeOK
        <3>4. QED
            BY <2>1, <3>2, <3>3
    <2>2. CASE d # c
        <3>1. PICK at \in Reader : at = client[d]
            BY <1>1 DEF TypeOK
        <3>2. PICK k : k = watching[d]
            OBVIOUS
        <3>3. PICK m \in Nat : m = since[d]
            BY <1>1 DEF TypeOK
        <3>4. ClientInv(at, k, m)
            BY <3>1, <3>2, <3>3 DEF IInv, ClientsInv
        <3>5. Noted(at, at)
            BY <3>4 DEF Noted, ClientInv, KeptInv
        <3>6. ClientInv(at, k, m)'
            BY <1>1, <3>4, <3>5, ClientKeeps DEF IInv
        <3>7. client'[d] = at /\ watching'[d] = k /\ since'[d] = m
            BY <1>1, <2>2, <3>1, <3>2, <3>3 DEF TypeOK
        <3>8. QED
            BY <3>6, <3>7
    <2>3. QED
        BY <2>1, <2>2
<1>3. WritersInv'
    <2>1. ASSUME NEW w \in Writers PROVE WriterInv(writer[w])'
        <3>1. PICK s : s = writer[w]
            OBVIOUS
        <3>2. WriterInv(s)
            BY <3>1 DEF IInv, WritersInv
        <3>3. WriterInv(s)'
            BY <1>1, <3>2, WriterKeeps
        <3>4. QED
            BY <3>1, <3>3
    <2>2. QED
        BY <2>1 DEF WritersInv
<1>4. EventsInv'
    BY <1>1, EventsSame
<1>5. RepliesInv' /\ 1 \in DOMAIN parent'
    BY DEF IInv, RepliesInv
<1>6. QED
    BY <1>1, <1>2, <1>3, <1>4, <1>5 DEF IInv, ClientsInv

(* A step of a request: the hub stays as it is.                              *)
LEMMA OneRead ==
    ASSUME IInv, NEW c \in Clients, NEW at \in Reader, client' = [client EXCEPT ![c] = at],
           UNCHANGED <<parent, there, hub, replyOf, writer>>, faults' \in 0..MaxFaults,
           ClientInv(at, watching[c], since[c])
    PROVE  IInv'
<1>1. PICK key : key = watching[c]
    OBVIOUS
<1>2. PICK n \in Nat : n = since[c]
    BY DEF IInv, TypeOK
<1>3. ClientInv(at, key, n) /\ key = watching'[c] /\ n = since'[c]
    BY <1>1, <1>2 DEF hub
<1>4. watching' \in [Clients -> Ids \cup {NoKey}] /\ since' \in [Clients -> Nat]
    BY DEF IInv, TypeOK, hub
<1>5. UNCHANGED <<parent, there, log, replyOf, writer, watching, since>>
    BY DEF hub
<1>6. QED
    BY <1>3, <1>4, <1>5, OneClient

LEMMA OpenStreamKeeps ==
    ASSUME IInv, NEW c \in Clients, NEW i \in DOMAIN parent, OpenStream(c, i) PROVE IInv'
<1>1. PICK st : st = [Offline EXCEPT !.pc = "root", !.post = i, !.root = i]
    OBVIOUS
<1>2. i \in Ids /\ TypeOK
    BY ParentFacts DEF IInv
<1>3. /\ st \in Reader /\ st.pc = "root" /\ st.post = i /\ st.root = i /\ st.depth = 0
      /\ st.ancestors = <<>> /\ st.todo = <<>> /\ st.tree = {} /\ st.failed = FALSE
      /\ st.astray = FALSE
    BY <1>1, <1>2, OfflineIs DEF Reader
<1>4. Climbed(i, st)
    <2>1. i \in Line[i] /\ Cardinality(Line[i]) \in Nat
        BY <1>2, LineFacts, Lengths
    <2>2. QED
        BY <1>3, <2>1 DEF Climbed
<1>5. ClientInv(st, watching[c], since[c])
    BY <1>3, <1>4 DEF ClientInv
<1>6. faults' \in 0..MaxFaults
    BY DEF OpenStream, IInv, TypeOK
<1>7. QED
    BY <1>1, <1>3, <1>5, <1>6, OneRead DEF OpenStream, Client

(* threadRootID: a SELECT leads to the post above, or the climb has ended at *)
(* the root, or a SELECT failed, which leads astray where there was one.     *)
LEMMA ClimbStreamKeeps ==
    ASSUME IInv, NEW c \in Clients, ClimbStream(c) PROVE IInv'
<1>1. PICK st \in Reader : st = client[c]
    BY DEF IInv, TypeOK
<1>2. TypeOK /\ ClientInv(st, watching[c], since[c]) /\ st.pc = "root"
    BY <1>1 DEF IInv, ClientsInv, ClimbStream, At
<1>3. /\ st.post \in DOMAIN parent /\ Climbed(st.post, st) /\ st.depth \in Nat
      /\ st.astray = FALSE
    BY <1>2 DEF ClientInv, Reader
<1>4. PICK above : above = Above(st)
    OBVIOUS
<1>5. UNCHANGED <<parent, there, hub, replyOf, writer>>
    BY DEF ClimbStream
<1>6. faults \in 0..MaxFaults /\ MaxFaults \in Nat
    BY <1>2, ThreadsAssumption DEF TypeOK
<1>7. ASSUME above # 0, UNCHANGED faults,
             client' = [client EXCEPT ![c] = [st EXCEPT !.root = above, !.depth = @ + 1]]
      PROVE  IInv'
    <2>1. PICK d \in Nat : d = st.depth + 1
        BY <1>3
    <2>2. PICK at : at = [st EXCEPT !.root = above, !.depth = d]
        OBVIOUS
    <2>3. above \in Ids
        BY <1>2, <1>3, <1>4, <1>7, Climb
    <2>4. /\ at \in Reader /\ at.pc = "root" /\ at.post = st.post /\ at.root = above
          /\ at.depth = d /\ at.ancestors = st.ancestors /\ at.todo = st.todo
          /\ at.tree = st.tree /\ at.failed = st.failed /\ at.astray = FALSE
        BY <1>2, <1>3, <2>2, <2>3 DEF Reader
    <2>5. Climbed(at.post, at)
        BY <1>2, <1>3, <1>4, <1>7, <2>1, <2>4, Climb
    <2>6. ClientInv(at, watching[c], since[c])
        BY <1>2, <2>4, <2>5 DEF ClientInv
    <2>7. client' = [client EXCEPT ![c] = at]
        BY <1>7, <2>1, <2>2
    <2>8. QED
        BY <1>5, <1>6, <1>7, <2>4, <2>6, <2>7, OneRead
<1>8. ASSUME NEW astray \in BOOLEAN, astray = (above # 0), faults' \in 0..MaxFaults,
             client' = [client EXCEPT ![c] = [st EXCEPT !.pc = "subscribe", !.astray = astray]]
      PROVE  IInv'
    <2>1. PICK at : at = [st EXCEPT !.pc = "subscribe", !.astray = astray]
        OBVIOUS
    <2>2. /\ at \in Reader /\ at.pc = "subscribe" /\ at.post = st.post /\ at.root = st.root
          /\ at.ancestors = st.ancestors /\ at.todo = st.todo
          /\ at.tree = st.tree /\ at.failed = st.failed /\ at.astray = astray
        BY <2>1 DEF Reader
    <2>3. ~astray => Topmost(st.post, st.root)
        BY <1>2, <1>3, <1>4, <1>8, Climb
    <2>4. KeyInv(at, at.root)
        BY <1>3, <2>2, <2>3 DEF KeyInv, Climbed
    <2>5. ClientInv(at, watching[c], since[c])
        BY <1>2, <2>2, <2>4 DEF ClientInv
    <2>6. client' = [client EXCEPT ![c] = at]
        BY <1>8, <2>1
    <2>7. QED
        BY <1>5, <1>8, <2>2, <2>5, <2>6, OneRead
<1>9. CASE above # 0 /\ UNCHANGED faults
           /\ Client(c, [st EXCEPT !.root = above, !.depth = @ + 1])
    BY <1>7, <1>9 DEF Client
<1>10. CASE above = 0 /\ UNCHANGED faults /\ Client(c, [st EXCEPT !.pc = "subscribe"])
    <2>1. [st EXCEPT !.pc = "subscribe"] = [st EXCEPT !.pc = "subscribe", !.astray = FALSE]
        BY <1>3 DEF Reader
    <2>2. client' = [client EXCEPT ![c] = [st EXCEPT !.pc = "subscribe", !.astray = FALSE]]
        BY <1>10, <2>1 DEF Client
    <2>3. FALSE = (above # 0) /\ faults' \in 0..MaxFaults
        BY <1>6, <1>10
    <2>4. QED
        BY <1>8, <2>2, <2>3
<1>11. CASE /\ faults < MaxFaults /\ faults' = faults + 1
            /\ Client(c, [st EXCEPT !.pc = "subscribe", !.astray = (above # 0)])
    <2>1. PICK astray \in BOOLEAN : astray = (above # 0)
        OBVIOUS
    <2>2. client' = [client EXCEPT ![c] = [st EXCEPT !.pc = "subscribe", !.astray = astray]]
        BY <1>11, <2>1 DEF Client
    <2>3. faults' \in 0..MaxFaults
        BY <1>6, <1>11
    <2>4. QED
        BY <1>8, <2>1, <2>2, <2>3
<1>12. QED
    BY <1>1, <1>4, <1>9, <1>10, <1>11 DEF ClimbStream

LEMMA SubscribeThreadKeeps ==
    ASSUME IInv, NEW c \in Clients, SubscribeThread(c) PROVE IInv'
<1>1. PICK st \in Reader : st = client[c]
    BY DEF IInv, TypeOK
<1>2. TypeOK /\ ClientInv(st, watching[c], since[c]) /\ st.pc = "subscribe"
    BY <1>1 DEF IInv, ClientsInv, SubscribeThread, At
<1>3. PICK at : at = [st EXCEPT !.pc = "connected"]
    OBVIOUS
<1>4. /\ at \in Reader /\ at.pc = "connected" /\ at.post = st.post
      /\ at.ancestors = st.ancestors /\ at.todo = st.todo /\ at.tree = st.tree
      /\ at.failed = st.failed /\ at.astray = st.astray
    BY <1>3 DEF Reader
<1>5. PICK n \in Nat : n = Len(log)
    BY <1>2 DEF TypeOK
<1>6. PICK key \in Ids : key = st.root
    BY DEF Reader
<1>7. /\ client' = [client EXCEPT ![c] = at]
      /\ watching' = [watching EXCEPT ![c] = key] /\ since' = [since EXCEPT ![c] = n]
      /\ UNCHANGED <<parent, there, log, replyOf, writer, faults>>
    BY <1>1, <1>3, <1>5, <1>6 DEF SubscribeThread, Client, Hub!Join
<1>8. WatchInv(at, key, n)
    BY <1>2, <1>4, <1>5, <1>6 DEF WatchInv, KeyInv, ClientInv
<1>9. ClientInv(at, key, n)
    BY <1>2, <1>4, <1>8 DEF ClientInv
<1>10. /\ watching' \in [Clients -> Ids \cup {NoKey}] /\ since' \in [Clients -> Nat]
       /\ key = watching'[c] /\ n = since'[c]
       /\ \A d \in Clients : d # c => watching'[d] = watching[d] /\ since'[d] = since[d]
    BY <1>2, <1>7 DEF TypeOK
<1>11. faults' \in 0..MaxFaults
    BY <1>2, <1>7 DEF TypeOK
<1>12. QED
    BY <1>4, <1>7, <1>9, <1>10, <1>11, OneClient

LEMMA DisconnectKeeps ==
    ASSUME IInv, NEW c \in Clients, Disconnect(c) PROVE IInv'
<1>1. /\ client' = [client EXCEPT ![c] = Offline]
      /\ watching' = [watching EXCEPT ![c] = NoKey]
      /\ UNCHANGED <<parent, there, log, since, replyOf, writer, faults>>
    BY DEF Disconnect, Client, Hub!Leave
<1>2. PICK n \in Nat : n = since[c]
    BY DEF IInv, TypeOK
<1>3. ClientInv(Offline, NoKey, n)
    BY OfflineIs DEF ClientInv, IInv
<1>4. /\ watching' \in [Clients -> Ids \cup {NoKey}] /\ since' \in [Clients -> Nat]
      /\ NoKey = watching'[c] /\ n = since'[c]
      /\ \A d \in Clients : d # c => watching'[d] = watching[d] /\ since'[d] = since[d]
    BY <1>1, <1>2 DEF IInv, TypeOK
<1>5. faults' \in 0..MaxFaults
    BY <1>1 DEF IInv, TypeOK
<1>6. QED
    BY <1>1, <1>3, <1>4, <1>5, OfflineIs, OneClient

LEMMA FetchThreadPostKeeps ==
    ASSUME IInv, NEW c \in Clients, FetchThreadPost(c) PROVE IInv'
<1>1. PICK st \in Reader : st = client[c]
    BY DEF IInv, TypeOK
<1>2. TypeOK /\ ClientInv(st, watching[c], since[c]) /\ st.pc = "connected"
    BY <1>1 DEF IInv, ClientsInv, FetchThreadPost, At
<1>3. there \subseteq Ids /\ there \subseteq DOMAIN parent
    BY <1>2, ParentFacts DEF TypeOK
<1>4. PICK rows \in SUBSET Ids : rows = there
    BY <1>3
<1>5. PICK at : at = [st EXCEPT !.pc = "ancestors", !.depth = 0, !.kept = rows, !.seen = rows]
    OBVIOUS
<1>6. /\ client' = [client EXCEPT ![c] = at]
      /\ UNCHANGED <<parent, there, hub, replyOf, writer, faults>>
    BY <1>1, <1>4, <1>5 DEF FetchThreadPost, Read, Client
<1>7. /\ at \in Reader /\ at.pc = "ancestors" /\ at.post = st.post /\ at.depth = 0
      /\ at.ancestors = <<>> /\ at.todo = <<>> /\ at.tree = {} /\ at.failed = FALSE
      /\ at.kept = there /\ at.seen = there /\ st.post \in DOMAIN parent
      /\ at.astray = st.astray
    BY <1>2, <1>4, <1>5 DEF Reader, ClientInv
<1>8. KeptInv(at, since[c])
    BY <1>3, <1>7 DEF KeptInv
<1>9. ChainInv(at)
    <2>1. Chain(at) = <<st.post>>
        BY <1>7 DEF Chain
    <2>2. QED
        BY <1>7, <2>1 DEF ChainInv
<1>10. TreeInv(at)
    BY <1>7 DEF TreeInv
<1>11. WatchInv(at, watching[c], since[c])
    BY <1>2, <1>7 DEF WatchInv, KeyInv, ClientInv
<1>12. ClientInv(at, watching[c], since[c])
    BY <1>7, <1>8, <1>9, <1>10, <1>11 DEF ClientInv
<1>13. faults' \in 0..MaxFaults
    BY <1>2, <1>6 DEF TypeOK
<1>14. QED
    BY <1>6, <1>7, <1>12, <1>13, OneRead

-----------------------------------------------------------------------------
(* The steps of a GetThread.                                                 *)

(* What a step of a request knows.                                           *)
LEMMA Reading ==
    ASSUME IInv, NEW c \in Clients, NEW st, st = client[c],
           st.pc \in {"ancestors", "replies", "loaded"}
    PROVE  /\ TypeOK /\ st \in Reader /\ ClientInv(st, watching[c], since[c])
           /\ st.post \in DOMAIN parent /\ WatchInv(st, watching[c], since[c])
           /\ KeptInv(st, since[c]) /\ ChainInv(st) /\ TreeInv(st)
           /\ \A m \in DOMAIN st.todo : TaskInv(st, st.todo[m])
           /\ st.pc = "replies" /\ ~st.failed => CoverInv(st) /\ ChainEnd(st)
<1>1. TypeOK /\ st \in Reader /\ ClientInv(st, watching[c], since[c])
    BY DEF IInv, TypeOK, ClientsInv
<1>2. QED
    BY <1>1 DEF ClientInv

LEMMA Descends ==
    ASSUME IInv, NEW c \in Clients, NEW st, st = client[c], st.pc = "ancestors",
           NEW task \in Task, task.call = "tree", task.id = st.post, task.depth = 0,
           NEW at \in Reader, at.pc = "replies", at.post = st.post,
           at.ancestors = st.ancestors, at.todo = <<task>>, at.tree = st.tree,
           at.kept = st.kept, at.seen = st.seen, at.astray = st.astray,
           at.failed \/ ChainEnd(st)
    PROVE  ClientInv(at, watching[c], since[c])
<1>1. /\ TypeOK /\ st \in Reader /\ ClientInv(st, watching[c], since[c])
      /\ st.post \in DOMAIN parent /\ WatchInv(st, watching[c], since[c])
      /\ KeptInv(st, since[c]) /\ ChainInv(st) /\ TreeInv(st)
    BY Reading
<1>2. Chain(at) = Chain(st) /\ Hung(at) = Hung(st)
    BY DEF Chain, Hung
<1>3. KeptInv(at, since[c]) /\ ChainInv(at) /\ TreeInv(at) /\ WatchInv(at, watching[c], since[c])
    BY <1>1, <1>2 DEF KeptInv, ChainInv, TreeInv, WatchInv, KeyInv
<1>4. TaskInv(at, task)
    <2>1. st.post \in Line[st.post] /\ Cardinality(Line[st.post]) \in Nat
        BY <1>1, LineFacts, Lengths
    <2>2. st.post \in Hung(at)
        BY DEF Hung
    <2>3. QED
        BY <1>1, <2>1, <2>2 DEF TaskInv
<1>5. \A m \in DOMAIN at.todo : TaskInv(at, at.todo[m])
    BY <1>4
<1>6. CoverInv(at)
    <2>1. ASSUME NEW j \in BelowPost(st.post) PROVE Covers(at.todo[1], j) /\ 1 \in DOMAIN at.todo
        BY DEF BelowPost, Covers
    <2>2. QED
        BY <2>1 DEF CoverInv
<1>7. at.failed \/ ChainEnd(at)
    BY <1>2 DEF ChainEnd
<1>8. QED
    BY <1>1, <1>3, <1>5, <1>6, <1>7 DEF ClientInv

LEMMA FetchAncestorKeeps ==
    ASSUME IInv, NEW c \in Clients, FetchAncestor(c) PROVE IInv'
<1>1. PICK st : st = client[c]
    OBVIOUS
<1>2. st.pc = "ancestors"
    BY <1>1 DEF FetchAncestor, At
<1>3. /\ TypeOK /\ st \in Reader /\ ClientInv(st, watching[c], since[c])
      /\ st.post \in DOMAIN parent /\ WatchInv(st, watching[c], since[c])
      /\ KeptInv(st, since[c]) /\ ChainInv(st) /\ TreeInv(st)
    BY <1>1, <1>2, Reading
<1>4. /\ st.depth = Len(st.ancestors) /\ st.tree = {} /\ ~st.failed /\ st.todo = <<>>
      /\ st.kept \subseteq there /\ st.kept \subseteq DOMAIN parent
    BY <1>2, <1>3 DEF ClientInv, KeptInv, TypeOK
<1>5. PICK s \in Seq(Ids) : s = Chain(st)
    <2>1. st.ancestors \in Seq(Ids) /\ st.post \in Ids
        BY <1>3 DEF Reader
    <2>2. Append(st.ancestors, st.post) \in Seq(Ids)
        BY <2>1, AppendProperties
    <2>3. QED
        BY <2>2 DEF Chain
<1>6. s # <<>> /\ Oldest(c) = Head(s) /\ Head(s) = s[1] /\ 1 \in DOMAIN s /\ Len(s) \in Nat
      /\ DOMAIN s = 1..Len(s)
    <2>1. st.ancestors \in Seq(Ids) /\ st.post \in Ids
        BY <1>3 DEF Reader
    <2>2. s # <<>>
        BY <1>5, <2>1 DEF Chain
    <2>3. QED
        BY <1>1, <1>5, <2>2 DEF Oldest, Chain
<1>7. Head(s) \in DOMAIN parent
    BY <1>3, <1>5, <1>6 DEF ChainInv
<1>8. PICK above : above = parent[Head(s)]
    OBVIOUS
<1>9. above # 0 => above \in DOMAIN parent /\ above \in Ids
    BY <1>3, <1>7, <1>8, ParentFacts
<1>10. PICK task : task = [call |-> "tree", id |-> st.post, under |-> 0, depth |-> 0]
    OBVIOUS
<1>11. task \in Task /\ task.call = "tree" /\ task.id = st.post /\ task.depth = 0
    BY <1>3, <1>10, ThreadsAssumption DEF Task, Reader
<1>12. PICK down : down = [st EXCEPT !.pc = "replies", !.todo = <<task>>]
    OBVIOUS
<1>13. PICK fails : fails = [down EXCEPT !.failed = TRUE]
    OBVIOUS
<1>14. DescendFrom(c) = down
    BY <1>1, <1>10, <1>12 DEF DescendFrom
<1>15. /\ down \in Reader /\ down.pc = "replies" /\ down.post = st.post
       /\ down.ancestors = st.ancestors /\ down.todo = <<task>> /\ down.tree = st.tree
       /\ down.kept = st.kept /\ down.seen = st.seen /\ down.failed = st.failed
       /\ down.astray = st.astray
    <2>1. <<task>> \in Seq(Task)
        BY <1>11
    <2>2. QED
        BY <1>3, <1>12, <2>1 DEF Reader
<1>16. /\ fails \in Reader /\ fails.pc = "replies" /\ fails.post = st.post
       /\ fails.ancestors = st.ancestors /\ fails.todo = <<task>> /\ fails.tree = st.tree
       /\ fails.kept = st.kept /\ fails.seen = st.seen /\ fails.failed = TRUE
       /\ fails.astray = st.astray
    BY <1>13, <1>15 DEF Reader
<1>17. CASE Read(c, down) /\ (above \notin there \/ st.depth = MaxThreadDepth)
    <2>1. above \notin st.kept \/ Len(st.ancestors) = MaxThreadDepth
        BY <1>4, <1>17
    <2>2. ChainEnd(st)
        BY <1>5, <1>8, <2>1 DEF ChainEnd
    <2>3. ClientInv(down, watching[c], since[c])
        BY <1>1, <1>2, <1>11, <1>15, <2>2, Descends
    <2>4. faults' \in 0..MaxFaults
        BY <1>3, <1>17 DEF Read, TypeOK
    <2>5. QED
        BY <1>15, <1>17, <2>3, <2>4, OneRead DEF Read, Client
<1>18. CASE ReadFails(c, down)
    <2>1. ClientInv(fails, watching[c], since[c])
        BY <1>1, <1>2, <1>11, <1>16, Descends
    <2>2. faults' \in 0..MaxFaults
        <3>1. faults < MaxFaults /\ faults' = faults + 1
            BY <1>18 DEF ReadFails
        <3>2. faults \in 0..MaxFaults /\ MaxFaults \in Nat
            BY <1>3, ThreadsAssumption DEF TypeOK
        <3>3. QED
            BY <3>1, <3>2
    <2>3. client' = [client EXCEPT ![c] = fails]
          /\ UNCHANGED <<parent, there, hub, replyOf, writer>>
        BY <1>13, <1>18 DEF ReadFails, Client
    <2>4. QED
        BY <1>16, <2>1, <2>2, <2>3, OneRead
<1>19. ASSUME above # 0, st.depth # MaxThreadDepth, above \in there,
              Read(c, [st EXCEPT !.depth = @ + 1, !.ancestors = <<above>> \o @])
       PROVE  IInv'
    <2>1. PICK anc : anc = <<above>> \o st.ancestors
        OBVIOUS
    <2>2. PICK d \in Nat : d = st.depth + 1
        BY <1>3 DEF Reader
    <2>3. PICK at : at = [st EXCEPT !.depth = d, !.ancestors = anc]
        OBVIOUS
    <2>4. /\ anc \in Seq(Ids) /\ Len(anc) = Len(st.ancestors) + 1
          /\ Append(anc, st.post) = <<above>> \o s
        BY <1>3, <1>5, <1>9, <1>19, <2>1 DEF Reader, Chain
    <2>5. /\ at \in Reader /\ at.pc = "ancestors" /\ at.post = st.post /\ at.depth = d
          /\ at.ancestors = anc /\ at.todo = st.todo /\ at.tree = st.tree
          /\ at.failed = st.failed /\ at.kept = st.kept /\ at.seen = st.seen
          /\ at.astray = st.astray
        BY <1>2, <1>3, <2>3, <2>4 DEF Reader
    <2>6. client' = [client EXCEPT ![c] = at]
        BY <1>19, <2>1, <2>2, <2>3 DEF Read, Client
    <2>7. ChainInv(at)
        <3>1. PICK r : r = <<above>> \o s
            OBVIOUS
        <3>2. Chain(at) = r
            BY <2>4, <2>5, <3>1 DEF Chain
        <3>3. /\ Len(r) = Len(s) + 1 /\ DOMAIN r = 1..Len(s) + 1 /\ r[1] = above
              /\ \A n \in 1..Len(s) : r[n + 1] = s[n]
            BY <1>5, <1>9, <1>19, <3>1
        <3>4. ASSUME NEW n \in DOMAIN r PROVE r[n] \in DOMAIN parent
            <4>1. CASE n = 1
                BY <1>9, <1>19, <3>3, <4>1
            <4>2. CASE n # 1
                <5>1. n - 1 \in 1..Len(s) /\ r[(n - 1) + 1] = s[n - 1] /\ (n - 1) + 1 = n
                    BY <1>6, <3>3, <3>4, <4>2
                <5>2. s[n - 1] \in DOMAIN parent
                    BY <1>3, <1>5, <1>6, <5>1 DEF ChainInv
                <5>3. QED
                    BY <5>1, <5>2
            <4>3. QED
                BY <4>1, <4>2
        <3>5. ASSUME NEW n \in 1..Len(s) PROVE parent[r[n + 1]] = r[n]
            <4>1. r[n + 1] = s[n]
                BY <3>3, <3>5
            <4>2. CASE n = 1
                BY <1>6, <1>8, <3>3, <4>1, <4>2
            <4>3. CASE n # 1
                <5>1. n - 1 \in 1..Len(s) - 1 /\ n - 1 \in 1..Len(s) /\ (n - 1) + 1 = n
                    BY <1>6, <3>5, <4>3
                <5>2. parent[s[(n - 1) + 1]] = s[n - 1]
                    BY <1>3, <1>5, <5>1 DEF ChainInv
                <5>3. r[(n - 1) + 1] = s[n - 1]
                    BY <3>3, <5>1
                <5>4. QED
                    BY <4>1, <5>1, <5>2, <5>3
            <4>4. QED
                BY <4>2, <4>3
        <3>6. Len(r) - 1 = Len(s)
            BY <1>6, <3>3
        <3>7. QED
            BY <3>2, <3>4, <3>5, <3>6 DEF ChainInv
    <2>8. KeptInv(at, since[c]) /\ TreeInv(at) /\ WatchInv(at, watching[c], since[c])
        BY <1>2, <1>3, <1>4, <2>5 DEF KeptInv, TreeInv, WatchInv, KeyInv
    <2>9. at.depth = Len(at.ancestors)
        BY <1>4, <2>2, <2>4, <2>5
    <2>10. ClientInv(at, watching[c], since[c])
        BY <1>3, <1>4, <2>5, <2>7, <2>8, <2>9 DEF ClientInv
    <2>11. faults' \in 0..MaxFaults
        BY <1>3, <1>19 DEF Read, TypeOK
    <2>12. QED
        BY <1>19, <2>5, <2>6, <2>10, <2>11, OneRead DEF Read
<1>20. \/ Read(c, down) /\ (above \notin there \/ st.depth = MaxThreadDepth)
       \/ ReadFails(c, down)
       \/ /\ above # 0 /\ st.depth # MaxThreadDepth /\ above \in there
          /\ Read(c, [st EXCEPT !.depth = @ + 1, !.ancestors = <<above>> \o @])
    <2>1. 0 \notin there
        BY <1>3, NoPostIsZero DEF TypeOK
    <2>2. QED
        BY <1>1, <1>6, <1>8, <1>14, <2>1 DEF FetchAncestor
<1>21. QED
    BY <1>17, <1>18, <1>19, <1>20

(* The calls that are to be made once the first of them has made its own.    *)
Continues(s, q, r) ==
    /\ \A m \in DOMAIN r : (\E k \in DOMAIN q : r[m] = q[k]) \/ (\E k \in DOMAIN s : r[m] = s[k])
    /\ \A k \in DOMAIN q : \E m \in DOMAIN r : r[m] = q[k]
    /\ \A k \in DOMAIN s : s[k] = Head(s) \/ \E m \in DOMAIN r : r[m] = s[k]

LEMMA Calling ==
    ASSUME NEW S, NEW s \in Seq(S), s # <<>>, NEW q \in Seq(S), NEW r, r = q \o Tail(s)
    PROVE  r \in Seq(S) /\ Continues(s, q, r)
<1>1. PICK u \in Seq(S) : u = Tail(s)
    BY HeadTailProperties
<1>2. /\ Len(u) = Len(s) - 1 /\ \A i \in 1..Len(u) : u[i] = s[i + 1]
      /\ Head(s) = s[1] /\ Len(s) \in Nat /\ Len(s) >= 1 /\ Len(q) \in Nat /\ Len(u) \in Nat
    BY <1>1, HeadTailProperties
<1>3. /\ r \in Seq(S) /\ Len(r) = Len(q) + Len(u)
      /\ \A i \in 1..Len(q) + Len(u) : r[i] = IF i <= Len(q) THEN q[i] ELSE u[i - Len(q)]
    BY <1>1, ConcatProperties
<1>4. DOMAIN r = 1..Len(q) + Len(u) /\ DOMAIN q = 1..Len(q) /\ DOMAIN s = 1..Len(s)
    BY <1>3
<1>5. ASSUME NEW m \in DOMAIN r
      PROVE  (\E k \in DOMAIN q : r[m] = q[k]) \/ (\E k \in DOMAIN s : r[m] = s[k])
    <2>1. CASE m <= Len(q)
        BY <1>2, <1>3, <1>4, <2>1
    <2>2. CASE ~(m <= Len(q))
        <3>1. m - Len(q) \in 1..Len(u) /\ (m - Len(q)) + 1 \in 1..Len(s)
            BY <1>2, <1>4, <2>2
        <3>2. r[m] = s[(m - Len(q)) + 1]
            BY <1>2, <1>3, <1>4, <2>2, <3>1
        <3>3. QED
            BY <1>4, <3>1, <3>2
    <2>3. QED
        BY <2>1, <2>2
<1>6. ASSUME NEW k \in DOMAIN q PROVE \E m \in DOMAIN r : r[m] = q[k]
    <2>1. k \in 1..Len(q) + Len(u) /\ k <= Len(q)
        BY <1>2, <1>4
    <2>2. QED
        BY <1>3, <1>4, <2>1
<1>7. ASSUME NEW k \in DOMAIN s PROVE s[k] = Head(s) \/ \E m \in DOMAIN r : r[m] = s[k]
    <2>1. CASE k = 1
        BY <1>2, <2>1
    <2>2. CASE k # 1
        <3>1. /\ k - 1 \in 1..Len(u) /\ (k - 1) + 1 = k
              /\ Len(q) + (k - 1) \in 1..Len(q) + Len(u)
              /\ ~(Len(q) + (k - 1) <= Len(q)) /\ (Len(q) + (k - 1)) - Len(q) = k - 1
            BY <1>2, <1>4, <2>2
        <3>2. r[Len(q) + (k - 1)] = u[k - 1] /\ u[k - 1] = s[k]
            BY <1>2, <1>3, <3>1
        <3>3. QED
            BY <1>4, <3>1, <3>2
    <2>3. QED
        BY <2>1, <2>2
<1>8. QED
    BY <1>3, <1>5, <1>6, <1>7 DEF Continues

(* The calls, or what is shown by now, stand in for t.                       *)
TasksInv(at, calls) == \A m \in DOMAIN calls : TaskInv(at, calls[m])

Reaches(st, at, t, calls) ==
    \A j \in BelowPost(st.post) :
        Line[j] \ Line[st.post] \subseteq st.kept /\ Covers(t, j) =>
            j \in Hung(at) \/ \E m \in DOMAIN calls : Covers(calls[m], j)

(* A SELECT of fetchReplyTree: at the head of todo, t makes way for calls.   *)
LEMMA Steps ==
    ASSUME IInv, NEW c \in Clients, NEW st, st = client[c],
           st.pc = "replies", st.todo # <<>>, NEW t, t = Head(st.todo),
           NEW at \in Reader, at.pc = "replies", at.post = st.post,
           at.ancestors = st.ancestors, at.kept = st.kept, at.seen = st.seen,
           at.astray = st.astray, NEW calls \in Seq(Task), at.todo = calls \o Tail(st.todo),
           st.tree \subseteq at.tree, TreeInv(at),
           TasksInv(at, calls),
           at.failed \/ (at.failed = st.failed /\ Reaches(st, at, t, calls))
    PROVE  ClientInv(at, watching[c], since[c])
<1>1. /\ TypeOK /\ st \in Reader /\ ClientInv(st, watching[c], since[c])
      /\ st.post \in DOMAIN parent /\ WatchInv(st, watching[c], since[c])
      /\ KeptInv(st, since[c]) /\ ChainInv(st) /\ TreeInv(st)
      /\ \A m \in DOMAIN st.todo : TaskInv(st, st.todo[m])
      /\ ~st.failed => CoverInv(st) /\ ChainEnd(st)
    BY Reading
<1>2. Chain(at) = Chain(st) /\ Hung(st) \subseteq Hung(at)
    BY DEF Chain, Hung
<1>3. KeptInv(at, since[c]) /\ ChainInv(at) /\ WatchInv(at, watching[c], since[c])
    BY <1>1, <1>2 DEF KeptInv, ChainInv, WatchInv, KeyInv
<1>4. PICK todo \in Seq(Task) : todo = st.todo
    BY <1>1 DEF Reader
<1>5. PICK todo2 : todo2 = at.todo
    OBVIOUS
<1>6. Continues(todo, calls, todo2) /\ t = Head(todo)
    <2>1. todo # <<>> /\ todo2 = calls \o Tail(todo) /\ t = Head(todo)
        BY <1>4, <1>5
    <2>2. QED
        BY <2>1, Calling
<1>7. ASSUME NEW m \in DOMAIN todo2 PROVE TaskInv(at, todo2[m])
    <2>1. ASSUME NEW k \in DOMAIN todo PROVE TaskInv(at, todo[k])
        <3>1. TaskInv(st, todo[k])
            BY <1>1, <1>4
        <3>2. QED
            BY <1>2, <3>1 DEF TaskInv
    <2>2. QED
        BY <1>6, <2>1 DEF Continues, TasksInv
<1>8. ASSUME ~at.failed PROVE CoverInv(at) /\ ChainEnd(at)
    <2>1. CoverInv(st) /\ ChainEnd(st)
        BY <1>1, <1>8
    <2>2. ASSUME NEW j \in BelowPost(st.post), Line[j] \ Line[st.post] \subseteq st.kept
          PROVE  j \in Hung(at) \/ \E m \in DOMAIN todo2 : Covers(todo2[m], j)
        <3>1. CASE j \in Hung(st)
            BY <1>2, <3>1
        <3>2. ASSUME NEW k \in DOMAIN todo, Covers(todo[k], j)
              PROVE  j \in Hung(at) \/ \E m \in DOMAIN todo2 : Covers(todo2[m], j)
            <4>1. CASE todo[k] = t
                <5>1. j \in Hung(at) \/ \E m \in DOMAIN calls : Covers(calls[m], j)
                    BY <1>8, <2>2, <3>2, <4>1 DEF Reaches
                <5>2. QED
                    BY <1>6, <5>1 DEF Continues
            <4>2. CASE todo[k] # t
                BY <1>6, <3>2, <4>2 DEF Continues
            <4>3. QED
                BY <4>1, <4>2
        <3>3. QED
            BY <1>4, <2>1, <2>2, <3>1, <3>2 DEF CoverInv
    <2>3. CoverInv(at)
        BY <1>5, <2>2 DEF CoverInv
    <2>4. ChainEnd(at)
        BY <1>2, <2>1 DEF ChainEnd
    <2>5. QED
        BY <2>3, <2>4
<1>9. QED
    BY <1>1, <1>3, <1>5, <1>7, <1>8 DEF ClientInv

(* Posts that are covered are reached through rows that stay: below t the    *)
(* next post on the line is a reply to t that the SELECT returns.            *)
LEMMA Strictly ==
    TypeOK => \A i \in DOMAIN parent : \A k \in Line[i] :
        k # i => Cardinality(Line[k]) + 1 <= Cardinality(Line[i])
<1> SUFFICES ASSUME TypeOK, NEW i \in DOMAIN parent, NEW k \in Line[i], k # i
             PROVE  Cardinality(Line[k]) + 1 <= Cardinality(Line[i])
    OBVIOUS
<1>1. PICK p : p = parent[i]
    OBVIOUS
<1>2. k \in Line[p]
    BY <1>1, LineFacts
<1>3. p \in DOMAIN parent
    <2>1. p \in OptIds
        BY <1>1, ParentFacts
    <2>2. QED
        BY <1>2, <2>1, LineIs
<1>4. Cardinality(Line[k]) <= Cardinality(Line[p])
    BY <1>2, <1>3, Shorter
<1>5. k \in DOMAIN parent
    BY LineFacts
<1>6. /\ Cardinality(Line[k]) \in Nat /\ Cardinality(Line[p]) \in Nat
      /\ Cardinality(Line[i]) = Cardinality(Line[p]) + 1
    BY <1>1, <1>3, <1>5, Lengths
<1>7. QED
    BY <1>4, <1>6

LEMMA NotAbove ==
    ASSUME TypeOK, NEW p \in DOMAIN parent, NEW m \in DOMAIN parent, p \in Line[parent[m]]
    PROVE  m \notin Line[p] /\ Line[m] = {m} \cup Line[parent[m]]
           /\ parent[m] \in DOMAIN parent
<1>1. PICK q : q = parent[m]
    OBVIOUS
<1>2. q \in OptIds /\ q \in Nat /\ m \in Nat /\ q < m /\ p \in Nat
    BY <1>1, ParentFacts
<1>3. q \in DOMAIN parent
    BY <1>1, <1>2, LineIs
<1>4. p <= q
    BY <1>1, <1>3, LineFacts
<1>5. \A k \in Line[p] : k \in Nat /\ k <= p
    BY LineFacts, ParentFacts
<1>6. m \notin Line[p]
    BY <1>2, <1>4, <1>5
<1>7. QED
    BY <1>1, <1>3, <1>6, LineFacts

LEMMA InOrderIs ==
    ASSUME NEW rows, rows \subseteq Ids, NEW ids \in InOrder(rows)
    PROVE  ids \in Seq(rows) /\ \A m \in rows : \E n \in DOMAIN ids : ids[n] = m
<1>1. IsFiniteSet(rows)
    <2>1. IsFiniteSet(Ids)
        BY ThreadsAssumption, FS_Interval DEF Ids
    <2>2. QED
        BY <2>1, FS_Subset
<1>2. PICK n \in Nat : n = Cardinality(rows)
    BY <1>1, FS_CardinalityType
<1>3. ids \in [1..n -> rows] /\ \A i, j \in 1..n : i # j => ids[i] # ids[j]
    BY <1>2 DEF InOrder, SetToSeqs
<1>4. ids \in Injection(1..n, rows)
    BY <1>3 DEF Injection, IsInjective
<1>5. Cardinality(1..n) = n
    BY <1>2, FS_Interval
<1>6. ids \in Surjection(1..n, rows)
    BY <1>1, <1>2, <1>4, <1>5, FS_Injection
<1>7. QED
    BY <1>2, <1>3, <1>6 DEF Surjection

LEMMA CallFacts ==
    ASSUME IInv, NEW c \in Clients, NEW st, st = client[c],
           st.pc = "replies", st.todo # <<>>, NEW t, t = Head(st.todo)
    PROVE  /\ t \in Task /\ TaskInv(st, t) /\ st \in Reader
           /\ Tail(st.todo) \in Seq(Task) /\ st.todo \in Seq(Task)
<1>1. st \in Reader /\ \A m \in DOMAIN st.todo : TaskInv(st, st.todo[m])
    BY Reading
<1>2. PICK todo \in Seq(Task) : todo = st.todo
    BY <1>1 DEF Reader
<1>3. Head(todo) \in Task /\ Tail(todo) \in Seq(Task)
    BY <1>2, HeadTailProperties
<1>4. Head(todo) = todo[1] /\ 1 \in DOMAIN todo
    BY <1>2
<1>5. QED
    BY <1>1, <1>2, <1>3, <1>4

LEMMA CallReads ==
    ASSUME IInv, NEW c \in Clients, NEW st, st = client[c],
           st.pc = "replies", st.todo # <<>>, NEW t, t = Head(st.todo),
           NEW calls \in Seq(Task), NEW tree \in SUBSET (Ids \X (0..MaxPosts)),
           NEW at, at = [st EXCEPT !.todo = calls \o Tail(st.todo), !.tree = tree],
           st.tree \subseteq tree, TreeInv(at),
           TasksInv(at, calls), Reaches(st, at, t, calls), Read(c, at)
    PROVE  IInv'
<1>1. st \in Reader /\ Tail(st.todo) \in Seq(Task)
    BY CallFacts
<1>2. PICK rest \in Seq(Task) : rest = calls \o Tail(st.todo)
    BY <1>1, ConcatProperties
<1>3. at = [st EXCEPT !.todo = rest, !.tree = tree]
    BY <1>2
<1>4. /\ at \in Reader /\ at.pc = "replies" /\ at.post = st.post
      /\ at.ancestors = st.ancestors /\ at.kept = st.kept /\ at.seen = st.seen
      /\ at.todo = rest /\ at.tree = tree /\ at.failed = st.failed
      /\ at.astray = st.astray
    BY <1>1, <1>3 DEF Reader
<1>5. at.todo = calls \o Tail(st.todo)
    BY <1>2, <1>4
<1>6. st.tree \subseteq at.tree
    BY <1>4
<1>7. ClientInv(at, watching[c], since[c])
    BY <1>4, <1>5, <1>6, Steps
<1>8. faults' \in 0..MaxFaults
    BY DEF Read, IInv, TypeOK
<1>9. QED
    BY <1>4, <1>7, <1>8, OneRead DEF Read, Client

LEMMA CallFails ==
    ASSUME IInv, NEW c \in Clients, NEW st, st = client[c],
           st.pc = "replies", st.todo # <<>>, ReadFails(c, Calls(c, <<>>))
    PROVE  IInv'
<1>1. PICK t : t = Head(st.todo)
    OBVIOUS
<1>2. st \in Reader /\ Tail(st.todo) \in Seq(Task) /\ TreeInv(st)
    BY <1>1, CallFacts, Reading
<1>3. PICK rest \in Seq(Task) : rest = <<>> \o Tail(st.todo)
    BY <1>2, ConcatProperties, EmptySeq
<1>4. PICK at : at = [[st EXCEPT !.todo = rest] EXCEPT !.failed = TRUE]
    OBVIOUS
<1>5. /\ at \in Reader /\ at.pc = "replies" /\ at.post = st.post
      /\ at.ancestors = st.ancestors /\ at.kept = st.kept /\ at.seen = st.seen
      /\ at.todo = rest /\ at.tree = st.tree /\ at.failed = TRUE
      /\ at.astray = st.astray
    BY <1>2, <1>4 DEF Reader
<1>6. client' = [client EXCEPT ![c] = at] /\ UNCHANGED <<parent, there, hub, replyOf, writer>>
    BY <1>3, <1>4 DEF ReadFails, Client, Calls
<1>7. PICK calls \in Seq(Task) : calls = <<>>
    BY EmptySeq
<1>8. at.todo = calls \o Tail(st.todo) /\ DOMAIN calls = {}
    BY <1>3, <1>5, <1>7
<1>9. TreeInv(at)
    BY <1>2, <1>5 DEF TreeInv, Hung
<1>10. ClientInv(at, watching[c], since[c])
    <2>1. TasksInv(at, calls) /\ st.tree \subseteq at.tree
        BY <1>5, <1>8 DEF TasksInv
    <2>2. QED
        BY <1>1, <1>5, <1>8, <1>9, <2>1, Steps
<1>11. faults' \in 0..MaxFaults
    BY ThreadsAssumption DEF ReadFails, IInv, TypeOK
<1>12. QED
    BY <1>5, <1>6, <1>10, <1>11, OneRead

LEMMA FetchReplyTreeKeeps ==
    ASSUME IInv, NEW c \in Clients, FetchReplyTree(c) PROVE IInv'
<1>1. PICK st : st = client[c]
    OBVIOUS
<1>2. PICK t : t = Head(st.todo)
    OBVIOUS
<1>3. st.pc = "replies" /\ st.todo # <<>> /\ t.call = "tree"
    BY <1>1, <1>2 DEF FetchReplyTree, Call, At
<1>4. /\ TypeOK /\ st \in Reader /\ st.post \in DOMAIN parent
      /\ KeptInv(st, since[c]) /\ TreeInv(st)
    BY <1>1, <1>3, Reading
<1>5. t \in Task /\ TaskInv(st, t) /\ Tail(st.todo) \in Seq(Task)
    BY <1>1, <1>2, <1>3, CallFacts
<1>6. /\ t.id \in DOMAIN parent /\ st.post \in Line[t.id] /\ t.id \in Hung(st)
      /\ t.depth \in Nat /\ t.id \in Ids /\ st.kept \subseteq there
      /\ Cardinality(Line[t.id]) = Cardinality(Line[st.post]) + t.depth
      /\ Cardinality(Line[st.post]) \in Nat /\ MaxThreadDepth \in Nat
    BY <1>3, <1>4, <1>5, Lengths, ThreadsAssumption DEF TaskInv, Task, KeptInv
<1>7. ASSUME NEW j \in BelowPost(st.post), Covers(t, j)
      PROVE  /\ j \in DOMAIN parent /\ t.id \in Line[j] /\ t.id # j
             /\ t.depth + 1 <= MaxThreadDepth
    <2>1. /\ j \in DOMAIN parent /\ t.id \in Line[j] /\ t.id # j /\ st.post \in Line[j]
          /\ Cardinality(Line[j] \ Line[st.post]) <= MaxThreadDepth
        BY <1>3, <1>7 DEF BelowPost, Covers
    <2>2. Cardinality(Line[j] \ Line[st.post]) = Cardinality(Line[j]) - Cardinality(Line[st.post])
        BY <1>4, <2>1, Shorter
    <2>3. Cardinality(Line[t.id]) + 1 <= Cardinality(Line[j]) /\ Cardinality(Line[j]) \in Nat
        BY <1>4, <2>1, Strictly, Lengths
    <2>4. t.depth + 1 <= MaxThreadDepth
        BY <1>6, <2>1, <2>2, <2>3
    <2>5. QED
        BY <2>1, <2>4
<1>8. CASE t.depth >= MaxThreadDepth /\ Read(c, Calls(c, <<>>))
    <2>1. ASSUME NEW j \in BelowPost(st.post), Covers(t, j) PROVE FALSE
        BY <1>6, <1>7, <1>8, <2>1
    <2>2. PICK calls \in Seq(Task) : calls = <<>>
        BY EmptySeq
    <2>3. PICK tree \in SUBSET (Ids \X (0..MaxPosts)) : tree = st.tree
        BY <1>4 DEF Reader
    <2>4. PICK at : at = [st EXCEPT !.todo = calls \o Tail(st.todo), !.tree = tree]
        OBVIOUS
    <2>5. Calls(c, <<>>) = at
        BY <1>1, <1>4, <2>2, <2>3, <2>4 DEF Calls, Reader
    <2>6. at.tree = st.tree /\ at.post = st.post /\ at.seen = st.seen
        BY <1>4, <2>3, <2>4 DEF Reader
    <2>7. TreeInv(at) /\ TasksInv(at, calls) /\ Reaches(st, at, t, calls) /\ st.tree \subseteq tree
        BY <1>4, <2>1, <2>2, <2>3, <2>6 DEF TreeInv, Hung, TasksInv, Reaches
    <2>8. Read(c, at)
        BY <1>8, <2>5
    <2>9. QED
        BY <1>1, <1>2, <1>3, <2>4, <2>7, <2>8, CallReads
<1>9. ASSUME ~(t.depth >= MaxThreadDepth), NEW ids \in InOrder(Children(t.id)),
             Read(c, Calls(c, Posts(t, ids)))
      PROVE  IInv'
    <2>1. there \subseteq Ids /\ there \subseteq DOMAIN parent
        BY <1>4, ParentFacts DEF TypeOK
    <2>2. Children(t.id) \subseteq Ids
        BY <2>1 DEF Children
    <2>3. PICK rows : rows = Children(t.id)
        OBVIOUS
    <2>4. ids \in Seq(rows) /\ \A m \in rows : \E n \in DOMAIN ids : ids[n] = m
        BY <1>9, <2>2, <2>3, InOrderIs
    <2>5. PICK calls : calls = Posts(t, ids)
        OBVIOUS
    <2>6. ASSUME NEW n \in DOMAIN ids
          PROVE  /\ calls[n] \in Task /\ calls[n].call = "post" /\ calls[n].id = ids[n]
                 /\ calls[n].under = t.id /\ calls[n].depth = t.depth + 1
                 /\ ids[n] \in there /\ ids[n] \in Ids /\ parent[ids[n]] = t.id
        <3>1. ids[n] \in rows
            BY <2>4
        <3>2. ids[n] \in there /\ ids[n] \in Ids /\ parent[ids[n]] = t.id
            BY <2>1, <2>3, <3>1 DEF Children
        <3>3. calls[n] = [call |-> "post", id |-> ids[n], under |-> t.id, depth |-> t.depth + 1]
            BY <2>5 DEF Posts
        <3>4. t.id \in 0..MaxPosts /\ t.depth + 1 \in Nat
            BY <1>4, <1>6, ParentFacts DEF OptIds
        <3>5. QED
            BY <3>2, <3>3, <3>4 DEF Task
    <2>7. calls \in Seq(Task) /\ DOMAIN calls = DOMAIN ids
        <3>1. DOMAIN ids = 1..Len(ids) /\ Len(ids) \in Nat
            BY <2>4
        <3>2. DOMAIN calls = DOMAIN ids /\ calls = [n \in DOMAIN ids |-> calls[n]]
            BY <2>5 DEF Posts
        <3>3. calls \in [1..Len(ids) -> Task]
            BY <2>6, <3>1, <3>2
        <3>4. QED
            BY <3>1, <3>2, <3>3
    <2>8. PICK tree \in SUBSET (Ids \X (0..MaxPosts)) : tree = st.tree
        BY <1>4 DEF Reader
    <2>9. PICK at : at = [st EXCEPT !.todo = calls \o Tail(st.todo), !.tree = tree]
        OBVIOUS
    <2>10. Calls(c, Posts(t, ids)) = at
        BY <1>1, <1>4, <2>5, <2>8, <2>9 DEF Calls, Reader
    <2>11. at.tree = st.tree /\ at.post = st.post /\ at.seen = st.seen /\ Hung(at) = Hung(st)
        BY <1>4, <2>8, <2>9 DEF Reader, Hung
    <2>12. TreeInv(at)
        BY <1>4, <2>11 DEF TreeInv
    <2>13. ASSUME NEW n \in DOMAIN calls PROVE TaskInv(at, calls[n])
        <3>1. PICK k : k = ids[n]
            OBVIOUS
        <3>2. k \in DOMAIN parent /\ parent[k] = t.id
            BY <2>1, <2>6, <2>7, <3>1
        <3>3. Cardinality(Line[k]) = Cardinality(Line[t.id]) + 1
            BY <1>4, <3>2, Lengths
        <3>4. Cardinality(Line[k]) = Cardinality(Line[at.post]) + (t.depth + 1)
            BY <1>6, <2>11, <3>3
        <3>5. QED
            BY <1>6, <2>6, <2>7, <2>11, <3>1, <3>2, <3>4 DEF TaskInv
    <2>14. ASSUME NEW j \in BelowPost(st.post), Line[j] \ Line[st.post] \subseteq st.kept,
                  Covers(t, j)
           PROVE  \E n \in DOMAIN calls : Covers(calls[n], j)
        <3>1. j \in DOMAIN parent /\ t.id \in Line[j] /\ t.id # j
            BY <1>7, <2>14
        <3>2. PICK m \in Line[j] : parent[m] = t.id
            BY <1>4, <3>1, NextOnLine
        <3>3. m \in DOMAIN parent
            BY <1>4, <3>1, LineFacts
        <3>4. m \notin Line[st.post]
            BY <1>4, <1>6, <3>2, <3>3, NotAbove
        <3>5. m \in there
            BY <1>6, <2>14, <3>4
        <3>6. m \in rows
            BY <2>3, <3>2, <3>5 DEF Children
        <3>7. PICK n \in DOMAIN ids : ids[n] = m
            BY <2>4, <3>6
        <3>8. Covers(calls[n], j)
            BY <2>6, <3>2, <3>7 DEF Covers
        <3>9. QED
            BY <2>7, <3>7, <3>8
    <2>15. TasksInv(at, calls) /\ Reaches(st, at, t, calls) /\ st.tree \subseteq tree
        BY <2>8, <2>13, <2>14 DEF TasksInv, Reaches
    <2>16. Read(c, at)
        BY <1>9, <2>10
    <2>17. QED
        BY <1>1, <1>2, <1>3, <2>7, <2>9, <2>12, <2>15, <2>16, CallReads
<1>10. CASE ReadFails(c, Calls(c, <<>>))
    BY <1>1, <1>3, <1>10, CallFails
<1>11. QED
    BY <1>1, <1>2, <1>8, <1>9, <1>10 DEF FetchReplyTree

LEMMA FetchReplyPostKeeps ==
    ASSUME IInv, NEW c \in Clients, FetchReplyPost(c) PROVE IInv'
<1>1. PICK st : st = client[c]
    OBVIOUS
<1>2. PICK t : t = Head(st.todo)
    OBVIOUS
<1>3. st.pc = "replies" /\ st.todo # <<>> /\ t.call = "post"
    BY <1>1, <1>2 DEF FetchReplyPost, Call, At
<1>4. /\ TypeOK /\ st \in Reader /\ st.post \in DOMAIN parent
      /\ KeptInv(st, since[c]) /\ TreeInv(st)
    BY <1>1, <1>3, Reading
<1>5. t \in Task /\ TaskInv(st, t) /\ Tail(st.todo) \in Seq(Task)
    BY <1>1, <1>2, <1>3, CallFacts
<1>6. /\ t.id \in DOMAIN parent /\ parent[t.id] = t.under /\ t.under \in Hung(st)
      /\ st.post \in Line[t.under] /\ st.kept \subseteq there /\ there \subseteq st.seen
      /\ Cardinality(Line[t.id]) = Cardinality(Line[st.post]) + t.depth
    BY <1>3, <1>4, <1>5 DEF TaskInv, KeptInv
<1>7. /\ t.id \notin Line[st.post] /\ st.post \in Line[t.id]
      /\ t.id \in Ids /\ t.under \in 0..MaxPosts
    BY <1>4, <1>5, <1>6, NotAbove DEF Task
<1>8. CASE t.id \in there
           /\ Read(c, [Calls(c, <<[t EXCEPT !.call = "tree"]>>)
                       EXCEPT !.tree = @ \cup {<<t.id, t.under>>}])
    <2>1. PICK u : u = [t EXCEPT !.call = "tree"]
        OBVIOUS
    <2>2. u \in Task /\ u.call = "tree" /\ u.id = t.id /\ u.depth = t.depth
        BY <1>5, <2>1 DEF Task
    <2>3. PICK calls \in Seq(Task) : calls = <<u>>
        <3>1. <<u>> \in Seq(Task)
            BY <2>2
        <3>2. QED
            BY <3>1
    <2>4. DOMAIN calls = {1} /\ calls[1] = u
        BY <2>3
    <2>5. PICK tree \in SUBSET (Ids \X (0..MaxPosts)) : tree = st.tree \cup {<<t.id, t.under>>}
        <3>1. st.tree \in SUBSET (Ids \X (0..MaxPosts))
            BY <1>4 DEF Reader
        <3>2. <<t.id, t.under>> \in Ids \X (0..MaxPosts)
            BY <1>7
        <3>3. QED
            BY <3>1, <3>2
    <2>6. PICK at : at = [st EXCEPT !.todo = calls \o Tail(st.todo), !.tree = tree]
        OBVIOUS
    <2>7. Read(c, at)
        <3>1. Calls(c, <<u>>) = [st EXCEPT !.todo = calls \o Tail(st.todo)]
            BY <1>1, <1>4, <2>3 DEF Calls, Reader
        <3>2. [Calls(c, <<u>>) EXCEPT !.tree = @ \cup {<<t.id, t.under>>}] = at
            BY <1>4, <2>5, <2>6, <3>1 DEF Reader
        <3>3. QED
            BY <1>8, <2>1, <3>2
    <2>8. at.tree = tree /\ at.post = st.post /\ at.seen = st.seen
        BY <1>4, <2>5, <2>6 DEF Reader
    <2>9. Hung(st) \subseteq Hung(at) /\ t.id \in Hung(at) /\ st.tree \subseteq tree
        <3>1. <<t.id, t.under>> \in at.tree /\ <<t.id, t.under>>[1] = t.id
            BY <2>5, <2>8
        <3>2. QED
            BY <2>5, <2>8, <3>1 DEF Hung
    <2>10. TreeInv(at)
        <3>1. ASSUME NEW x \in at.tree
              PROVE  /\ x[1] \in DOMAIN parent /\ parent[x[1]] = x[2]
                     /\ x[1] \in at.seen /\ x[2] \in Hung(at)
            <4>1. CASE x \in st.tree
                BY <1>4, <2>8, <2>9, <4>1 DEF TreeInv
            <4>2. CASE x = <<t.id, t.under>>
                <5>1. x[1] = t.id /\ x[2] = t.under
                    BY <4>2
                <5>2. QED
                    BY <1>6, <1>8, <2>8, <2>9, <5>1
            <4>3. QED
                BY <2>5, <2>8, <4>1, <4>2
        <3>2. QED
            BY <3>1 DEF TreeInv
    <2>11. \A m \in DOMAIN calls : TaskInv(at, calls[m])
        BY <1>6, <1>7, <2>2, <2>4, <2>8, <2>9 DEF TaskInv
    <2>12. Reaches(st, at, t, calls)
        BY <2>2, <2>4, <2>9 DEF Covers, Reaches
    <2>13. TasksInv(at, calls)
        BY <2>11 DEF TasksInv
    <2>14. QED
        BY <1>1, <1>2, <1>3, <2>6, <2>7, <2>9, <2>10, <2>12, <2>13, CallReads
<1>9. CASE t.id \notin there /\ Read(c, Calls(c, <<>>))
    <2>1. ASSUME NEW j \in BelowPost(st.post), Line[j] \ Line[st.post] \subseteq st.kept,
                 Covers(t, j)
          PROVE  FALSE
        BY <1>6, <1>7, <1>9, <2>1 DEF Covers
    <2>2. PICK calls \in Seq(Task) : calls = <<>>
        BY EmptySeq
    <2>3. PICK tree \in SUBSET (Ids \X (0..MaxPosts)) : tree = st.tree
        BY <1>4 DEF Reader
    <2>4. PICK at : at = [st EXCEPT !.todo = calls \o Tail(st.todo), !.tree = tree]
        OBVIOUS
    <2>5. Calls(c, <<>>) = at
        BY <1>1, <1>4, <2>2, <2>3, <2>4 DEF Calls, Reader
    <2>6. at.tree = st.tree /\ at.post = st.post /\ at.seen = st.seen
        BY <1>4, <2>3, <2>4 DEF Reader
    <2>7. TreeInv(at) /\ TasksInv(at, calls) /\ Reaches(st, at, t, calls) /\ st.tree \subseteq tree
        BY <1>4, <2>1, <2>2, <2>3, <2>6 DEF TreeInv, Hung, TasksInv, Reaches
    <2>8. Read(c, at)
        BY <1>9, <2>5
    <2>9. QED
        BY <1>1, <1>2, <1>3, <2>4, <2>7, <2>8, CallReads
<1>10. CASE ReadFails(c, Calls(c, <<>>))
    BY <1>1, <1>3, <1>10, CallFails
<1>11. QED
    BY <1>1, <1>2, <1>8, <1>9, <1>10 DEF FetchReplyPost

LEMMA AnswerThreadKeeps ==
    ASSUME IInv, NEW c \in Clients, AnswerThread(c) PROVE IInv'
<1>1. PICK st : st = client[c]
    OBVIOUS
<1>2. st.pc = "replies" /\ st.todo = <<>>
    BY <1>1 DEF AnswerThread, At
<1>3. /\ TypeOK /\ st \in Reader /\ ClientInv(st, watching[c], since[c])
      /\ st.post \in DOMAIN parent /\ WatchInv(st, watching[c], since[c])
      /\ KeptInv(st, since[c]) /\ ChainInv(st) /\ TreeInv(st)
      /\ ~st.failed => CoverInv(st) /\ ChainEnd(st)
    BY <1>1, <1>2, Reading
<1>4. PICK at : at = [st EXCEPT !.pc = "loaded"]
    OBVIOUS
<1>5. /\ at \in Reader /\ at.pc = "loaded" /\ at.post = st.post
      /\ at.ancestors = st.ancestors /\ at.kept = st.kept /\ at.seen = st.seen
      /\ at.todo = st.todo /\ at.tree = st.tree /\ at.failed = st.failed
      /\ at.astray = st.astray
    BY <1>3, <1>4 DEF Reader
<1>6. Chain(at) = Chain(st) /\ Hung(at) = Hung(st)
    BY <1>5 DEF Chain, Hung
<1>7. /\ KeptInv(at, since[c]) /\ ChainInv(at) /\ TreeInv(at)
      /\ WatchInv(at, watching[c], since[c])
    BY <1>2, <1>3, <1>5, <1>6 DEF KeptInv, ChainInv, TreeInv, WatchInv, KeyInv
<1>8. ~at.failed => CoverInv(at) /\ ChainEnd(at)
    BY <1>3, <1>5, <1>6 DEF CoverInv, ChainEnd
<1>9. DOMAIN at.todo = {}
    BY <1>2, <1>5
<1>10. ClientInv(at, watching[c], since[c])
    BY <1>2, <1>3, <1>5, <1>7, <1>8, <1>9 DEF ClientInv
<1>11. faults' \in 0..MaxFaults
    BY <1>3 DEF AnswerThread, Read, TypeOK
<1>12. QED
    BY <1>1, <1>4, <1>5, <1>10, <1>11, OneRead DEF AnswerThread, Read, Client

LEMMA NextIInv == IInv /\ [Next]_vars => IInv'
<1> SUFFICES ASSUME IInv, [Next]_vars PROVE IInv'
    OBVIOUS
<1>1. ASSUME NEW w \in Writers, WriterStep(w) PROVE IInv'
    BY <1>1, FindParentKeeps, InsertReplyKeeps, ClimbReplyKeeps, PublishReplyKeeps DEF WriterStep
<1>2. ASSUME NEW c \in Clients, ClientStep(c) PROVE IInv'
    <2>1. ASSUME NEW i \in DOMAIN parent, OpenStream(c, i) PROVE IInv'
        BY <2>1, OpenStreamKeeps
    <2>2. CASE ClimbStream(c) \/ SubscribeThread(c) \/ Disconnect(c)
        BY <2>2, ClimbStreamKeeps, SubscribeThreadKeeps, DisconnectKeeps
    <2>3. CASE FetchThreadPost(c) \/ FetchAncestor(c)
        BY <2>3, FetchThreadPostKeeps, FetchAncestorKeeps
    <2>4. CASE FetchReplyTree(c) \/ FetchReplyPost(c) \/ AnswerThread(c)
        BY <2>4, FetchReplyTreeKeeps, FetchReplyPostKeeps, AnswerThreadKeeps
    <2>5. QED
        BY <1>2, <2>1, <2>2, <2>3, <2>4 DEF ClientStep
<1>3. ASSUME NEW i \in there, DeletePost(i) PROVE IInv'
    BY <1>3, DeletePostKeeps
<1>4. CASE UNCHANGED vars
    <2>1. /\ UNCHANGED <<parent, there, log, watching, since, replyOf, writer, client, faults>>
        BY <1>4 DEF vars, hub
    <2>2. TypeOK /\ TypeOK' /\ Grows
        BY <2>1, GrowsSame DEF IInv, TypeOK
    <2>3. ClientsInv' /\ 1 \in DOMAIN parent'
        BY <2>1, <2>2, NotedSame, OthersKeep
    <2>4. EventsInv'
        BY <2>1, <2>2, EventsSame
    <2>5. WritersInv'
        <3>1. ASSUME NEW w \in Writers PROVE WriterInv(writer[w])'
            <4>1. PICK s : s = writer[w]
                OBVIOUS
            <4>2. WriterInv(s)
                BY <4>1 DEF IInv, WritersInv
            <4>3. WriterInv(s)'
                BY <2>2, <4>2, WriterKeeps
            <4>4. QED
                BY <2>1, <4>1, <4>3
        <3>2. QED
            BY <3>1 DEF WritersInv
    <2>6. RepliesInv'
        BY <2>1 DEF IInv, RepliesInv
    <2>7. QED
        BY <2>2, <2>3, <2>4, <2>5, <2>6 DEF IInv
<1>5. QED
    BY <1>1, <1>2, <1>3, <1>4 DEF Next

LEMMA Invariance == Spec => []IInv
<1>1. Init => IInv
    BY InitIInv
<1>2. IInv /\ [Next]_vars => IInv'
    BY NextIInv
<1>3. QED
    BY <1>1, <1>2, PTL DEF Spec

-----------------------------------------------------------------------------
(* Theorems. *)

\* Every variable of Threads has its type: rows name earlier rows as their parents
\* (InsertReply), and the requests hold ids and calls (CreateReply, GetThread).
THEOREM TypeCorrect == Spec => []TypeOK
<1>1. IInv => TypeOK
    BY DEF IInv
<1>2. QED
    BY <1>1, Invariance, PTL

\* Below of the module is BelowPost of the client's post.
LEMMA ShownIs ==
    ASSUME NEW c
    PROVE  Below(c) = BelowPost(client[c].post) /\ Hung(client[c]) = Shown(c) \cup {client[c].post}
    BY DEF Below, BelowPost, Hung, Shown

LEMMA ThreadIsShown == IInv => ThreadShown
<1> SUFFICES ASSUME IInv, NEW c \in Clients, At(c, "loaded")
             PROVE  LET st == client[c]
                        chain == Append(st.ancestors, st.post)
                    IN  /\ \A t \in st.tree :
                            /\ parent[t[1]] = t[2] /\ t[1] \in st.seen
                            /\ t[2] \in Shown(c) \cup {st.post}
                        /\ \A n \in 1..Len(chain) - 1 : parent[chain[n + 1]] = chain[n]
                        /\ st.failed
                           \/ /\ \A j \in Below(c) :
                                    Line[j] \ Line[st.post] \subseteq st.kept => j \in Shown(c)
                              /\ \/ parent[Head(chain)] \notin st.kept
                                 \/ Len(st.ancestors) = MaxThreadDepth
    BY DEF ThreadShown
<1>1. PICK st : st = client[c]
    OBVIOUS
<1>2. st.pc = "loaded" /\ Below(c) = BelowPost(st.post) /\ Hung(st) = Shown(c) \cup {st.post}
    BY <1>1, ShownIs DEF At
<1>3. ClientInv(st, watching[c], since[c]) /\ ChainInv(st) /\ TreeInv(st)
    BY <1>1, <1>2, Reading DEF IInv, ClientsInv
<1>4. st.todo = <<>> /\ (~st.failed => CoverInv(st) /\ ChainEnd(st))
    BY <1>2, <1>3 DEF ClientInv
<1>5. \A t \in st.tree : /\ parent[t[1]] = t[2] /\ t[1] \in st.seen
                         /\ t[2] \in Shown(c) \cup {st.post}
    BY <1>2, <1>3 DEF TreeInv
<1>6. \A n \in 1..Len(Chain(st)) - 1 : parent[Chain(st)[n + 1]] = Chain(st)[n]
    BY <1>3 DEF ChainInv
<1>7. ASSUME ~st.failed, NEW j \in Below(c), Line[j] \ Line[st.post] \subseteq st.kept
      PROVE  j \in Shown(c)
    <2>1. j \in Hung(st) \/ \E n \in DOMAIN st.todo : Covers(st.todo[n], j)
        BY <1>2, <1>4, <1>7 DEF CoverInv
    <2>2. DOMAIN st.todo = {}
        BY <1>4
    <2>3. j # st.post
        BY <1>2, <1>7 DEF BelowPost
    <2>4. QED
        BY <1>2, <2>1, <2>2, <2>3
<1>8. ~st.failed => parent[Head(Chain(st))] \notin st.kept \/ Len(st.ancestors) = MaxThreadDepth
    BY <1>4 DEF ChainEnd
<1>9. QED
    BY <1>1, <1>5, <1>6, <1>7, <1>8 DEF Chain

\* GetThread, reply.go:66-139: what it shows hangs together, and unless a SELECT failed
\* it lacks nothing that was there throughout, for threads and depth limits of any size.
THEOREM ThreadIsWhole == Spec => []ThreadShown
<1>1. QED
    BY ThreadIsShown, Invariance, PTL

LEMMA NoReplyIsMissed == IInv => NothingMissed
<1> SUFFICES ASSUME IInv, NEW c \in Clients, At(c, "loaded"), ~client[c].failed,
                    ~client[c].astray, NEW j \in Below(c), Line[j] \subseteq there,
                    Cardinality(Line[j]) <= MaxThreadDepth + 1
             PROVE  \/ j \in Shown(c)
                    \/ \E e \in since[c] + 1..Len(log) : replyOf[e] = j /\ log[e] = watching[c]
                    \/ \E w \in Writers : writer[w].id = j
    BY DEF NothingMissed
<1>1. PICK st : st = client[c]
    OBVIOUS
<1>2. st.pc = "loaded" /\ Below(c) = BelowPost(st.post)
    BY <1>1, ShownIs DEF At
<1>3. /\ TypeOK /\ st.post \in DOMAIN parent /\ WatchInv(st, watching[c], since[c])
      /\ KeptInv(st, since[c])
    BY <1>1, <1>2, Reading
<1>4. j \in DOMAIN parent /\ st.post \in Line[j] /\ j # st.post
    BY <1>2 DEF BelowPost
<1>5. PICK p : p = parent[j]
    OBVIOUS
<1>6. /\ Line[j] = {j} \cup Line[p] /\ p \in DOMAIN parent /\ p # 0 /\ j \in there
      /\ Cardinality(Line[j]) = Cardinality(Line[p]) + 1 /\ Cardinality(Line[p]) \in Nat
    <2>1. Line[j] = {j} \cup Line[p] /\ p \in OptIds
        BY <1>3, <1>4, <1>5, LineFacts, ParentFacts
    <2>2. st.post \in Line[p]
        BY <1>4, <2>1
    <2>3. p \in DOMAIN parent
        BY <1>3, <2>1, <2>2, LineIs
    <2>4. p # 0
        BY <1>3, <2>3, ParentFacts
    <2>5. QED
        BY <1>3, <1>4, <1>5, <2>1, <2>3, <2>4, Lengths
(* Clients are on the key of the root, and so is the event.                  *)
<1>7. watching[c] \in Line[j] /\ parent[watching[c]] = 0
    <2>1. Line[st.post] \subseteq Line[j]
        BY <1>3, <1>4, LineFacts
    <2>2. Line[st.post] \subseteq there
        BY <2>1
    <2>3. Cardinality(Line[st.post]) <= MaxThreadDepth + 1
        <3>1. Cardinality(Line[st.post]) <= Cardinality(Line[j])
            BY <1>3, <1>4, Shorter
        <3>2. Cardinality(Line[st.post]) \in Nat /\ Cardinality(Line[j]) \in Nat
            BY <1>3, <1>4, Lengths
        <3>3. QED
            BY <3>1, <3>2, ThreadsAssumption
    <2>4. QED
        BY <1>1, <1>3, <2>1, <2>2, <2>3 DEF WatchInv, KeyInv, Topmost
<1>8. ASSUME NEW e \in DOMAIN log, replyOf[e] = j PROVE log[e] = watching[c]
    <2>1. log[e] \in Line[p] /\ Topmost(p, log[e])
        BY <1>5, <1>8 DEF IInv, EventsInv, EventInv
    <2>2. Line[p] \subseteq there /\ Cardinality(Line[p]) <= MaxThreadDepth + 1
        BY <1>6, ThreadsAssumption
    <2>3. parent[log[e]] = 0 /\ log[e] \in Line[j]
        BY <1>6, <2>1, <2>2 DEF Topmost
    <2>4. QED
        BY <1>3, <1>4, <1>7, <2>3, OneRoot
(* A reply that is not shown was written since the request began, as one of  *)
(* the posts above it was, and was not published before that.                *)
<1>9. ASSUME j \notin Shown(c) PROVE j \notin st.kept
    <2>1. ~(Line[j] \ Line[st.post] \subseteq st.kept)
        <3>1. ~st.failed /\ ThreadShown
            BY <1>1, ThreadIsShown
        <3>2. QED
            BY <1>1, <1>9, <3>1 DEF ThreadShown
    <2>2. PICK i \in Line[j] : i \notin st.kept
        BY <2>1
    <2>3. i \in there /\ i <= j /\ i \in DOMAIN parent
        BY <1>3, <1>4, LineFacts
    <2>4. i \in Nat /\ j \in Nat
        BY <1>3, <1>4, <2>3, ParentFacts
    <2>5. CASE i = j
        BY <2>2, <2>5
    <2>6. CASE i < j
        BY <1>3, <2>2, <2>3, <2>6 DEF KeptInv
    <2>7. QED
        BY <2>3, <2>4, <2>5, <2>6
<1>10. ASSUME NEW e \in DOMAIN log, replyOf[e] = j, j \notin Shown(c)
       PROVE  e \in since[c] + 1..Len(log)
    <2>1. since[c] \in Nat /\ Len(log) \in Nat /\ DOMAIN log = 1..Len(log)
        BY <1>3 DEF TypeOK
    <2>2. e \notin 1..since[c]
        BY <1>3, <1>6, <1>9, <1>10 DEF KeptInv
    <2>3. QED
        BY <2>1, <2>2
<1>11. DOMAIN replyOf = DOMAIN log
    <2>1. DOMAIN replyOf = 1..Len(replyOf) /\ DOMAIN log = 1..Len(log) /\ Len(replyOf) = Len(log)
        BY <1>3 DEF TypeOK
    <2>2. QED
        BY <2>1
<1>12. \/ \E e \in DOMAIN replyOf : replyOf[e] = j
       \/ \E w \in Writers : writer[w].id = j
    BY <1>4, <1>5, <1>6 DEF IInv, RepliesInv
<1>13. QED
    BY <1>8, <1>10, <1>11, <1>12

\* ThreadStream before GetThread, stream.go:29-46, reply.go:41-61: a reply that the
\* client was not shown comes, or has come, on the stream it opened first, below posts
\* that are all there and unless a SELECT of its two requests failed.
THEOREM RepliesReachTheReader == Spec => []NothingMissed
<1>1. QED
    BY NoReplyIsMissed, Invariance, PTL

=============================================================================
