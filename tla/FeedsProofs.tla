---------------------------- MODULE FeedsProofs ----------------------------
(***************************************************************************)
(* Proofs about Feeds, for any number of users and posts, any size of a    *)
(* page and of trending, and any windows.                                  *)
(***************************************************************************)
EXTENDS Feeds, FiniteSetTheorems, SequenceTheorems, TLAPS

TablesOK ==
    /\ DOMAIN posts \subseteq 1..nextId - 1 /\ nextId \in 1..MaxPosts + 1
    /\ \A p \in DOMAIN posts :
        posts[p] \in [author : Users, reply : BOOLEAN, hit : BOOLEAN, at : -MaxPosts..now]
    /\ DOMAIN likes \subseteq Users \X (1..nextId - 1)
    /\ \A l \in DOMAIN likes : likes[l] \in 0..now
    /\ follows \cup hits \subseteq Users
    /\ DOMAIN recommended \subseteq DOMAIN posts
    /\ \A p \in DOMAIN recommended : recommended[p] \in 0..Cardinality(Users)
    /\ now \in 0..MaxTime /\ writes \in 0..MaxWrites

(* The recommended feed lists no post that its total leaves out.             *)
RefreshInv == DOMAIN recommended \subseteq TopLevel

(* The entries of a list that come before x.                                 *)
Ahead(list, x) == {y \in Entries(list) : Before(list, y, x)}

Passed(st, x, n) == Cardinality(Ahead(st.list, x)) >= n

(* A client st of a list with pages that has not been shown x: it is on a    *)
(* page to come, or on the one that is loaded.                               *)
PagedInv(st, x) ==
    /\ st.at = "page" => Passed(st, x, (st.page - 1) * PerPage)
    /\ st.at = "load" => x \in Range(st.ids) \/ Passed(st, x, st.page * PerPage)
    /\ st.at = "total" => Passed(st, x, st.page * PerPage)
    /\ st.at # "end"

(* Trending is cut off.                                                      *)
Cut(st) == st.list = "trending" /\ Len(st.ids) = TrendingMax

WholeInv(st, x) ==
    /\ st.at = "load" => x \in Range(st.ids) \/ Cut(st)
    /\ st.at = "end" => Cut(st)

ClientInv(st) ==
    /\ st.missing \subseteq Entries(st.list)
    /\ st.at = "total" => st.list \in Paged
    /\ \A x \in st.missing : IF st.list \in Paged THEN PagedInv(st, x) ELSE WholeInv(st, x)

IInv == TypeOK /\ RefreshInv /\ ClientInv(client)

LEMMA TypeIs == TypeOK <=> TablesOK /\ client \in Reader
    BY DEF TypeOK, TablesOK

-----------------------------------------------------------------------------
(* The lists.                                                                *)

LEMMA UsersAreFinite ==
    /\ IsFiniteSet(Users) /\ Cardinality(Users) \in Nat
    /\ \A T \in SUBSET Users : IsFiniteSet(T) /\ Cardinality(T) \in 0..Cardinality(Users)
<1>1. IsFiniteSet(Users) /\ Cardinality(Users) \in Nat
    BY FeedsAssumption, FS_CardinalityType
<1>2. ASSUME NEW T \in SUBSET Users
      PROVE  IsFiniteSet(T) /\ Cardinality(T) \in 0..Cardinality(Users)
    <2>1. IsFiniteSet(T) /\ Cardinality(T) <= Cardinality(Users)
        BY <1>1, FS_Subset
    <2>2. Cardinality(T) \in Nat
        BY <2>1, FS_CardinalityType
    <2>3. QED
        BY <1>1, <2>1, <2>2
<1>3. QED
    BY <1>1, <1>2

LEMMA RecentIs == \A p, window : Recent(p, window) \in 0..Cardinality(Users)
    BY UsersAreFinite DEF Recent

LEMMA EntriesAre ==
    /\ Entries("latest") = TopLevel
    /\ Entries("following") \subseteq TopLevel
    /\ Entries("recommended") = DOMAIN recommended \cap DOMAIN posts
    /\ Entries("search") \subseteq DOMAIN posts
    /\ Entries("trending") \subseteq DOMAIN posts
    /\ Entries("users") = hits
    /\ Entries("followees") = follows
    BY DEF Entries

LEMMA EntriesIn ==
    ASSUME TablesOK, NEW list \in Lists
    PROVE  Entries(list) \subseteq DOMAIN posts \/ Entries(list) \subseteq Users
<1>1. TopLevel \subseteq DOMAIN posts
    BY DEF TopLevel
<1>2. \/ list = "latest" \/ list = "following" \/ list = "recommended" \/ list = "search"
      \/ list = "trending" \/ list = "users" \/ list = "followees"
    BY FeedsAssumption DEF PostLists, UserLists
<1>3. QED
    BY <1>1, <1>2, EntriesAre DEF TablesOK

LEMMA PostsAreFinite ==
    ASSUME TablesOK, NEW T \in SUBSET DOMAIN posts
    PROVE  T \subseteq Nat /\ IsFiniteSet(T) /\ Cardinality(T) \in 0..MaxPosts
<1>1. nextId \in Nat /\ MaxPosts \in Nat /\ nextId - 1 \in Nat /\ nextId - 1 <= MaxPosts
    BY FeedsAssumption DEF TablesOK
<1>2. IsFiniteSet(1..nextId - 1) /\ Cardinality(1..nextId - 1) = nextId - 1
    BY <1>1, FS_Interval
<1>3. T \in SUBSET (1..nextId - 1)
    BY DEF TablesOK
<1>4. IsFiniteSet(T) /\ Cardinality(T) <= nextId - 1
    BY <1>2, <1>3, FS_Subset
<1>5. Cardinality(T) \in Nat
    BY <1>4, FS_CardinalityType
<1>6. QED
    BY <1>1, <1>3, <1>4, <1>5

LEMMA EntriesAreFinite ==
    ASSUME TablesOK, NEW list \in Lists
    PROVE  /\ Entries(list) \subseteq Nat /\ IsFiniteSet(Entries(list))
           /\ Cardinality(Entries(list)) \in 0..MaxPosts + Cardinality(Users)
<1>1. Cardinality(Users) \in Nat /\ MaxPosts \in Nat /\ Users \subseteq Nat
    BY UsersAreFinite, FeedsAssumption
<1>2. CASE Entries(list) \subseteq DOMAIN posts
    BY <1>1, <1>2, PostsAreFinite
<1>3. CASE Entries(list) \subseteq Users
    <2>1. IsFiniteSet(Entries(list)) /\ Cardinality(Entries(list)) \in 0..Cardinality(Users)
        BY <1>3, UsersAreFinite
    <2>2. Entries(list) \subseteq Nat
        BY <1>1, <1>3
    <2>3. \A c \in 0..Cardinality(Users) : c \in 0..MaxPosts + Cardinality(Users)
        BY <1>1
    <2>4. QED
        BY <2>1, <2>2, <2>3
<1>4. QED
    BY <1>2, <1>3, EntriesIn

(* No list has more entries than its total says.                             *)
LEMMA TotalIs ==
    ASSUME TablesOK, RefreshInv, NEW list \in Lists
    PROVE  /\ Total(list) \in 0..MaxPosts + Cardinality(Users)
           /\ Cardinality(Entries(list)) <= Total(list)
<1>1. CASE list = "recommended"
    <2>1. TopLevel \in SUBSET DOMAIN posts
        BY DEF TopLevel
    <2>2. IsFiniteSet(TopLevel) /\ Cardinality(TopLevel) \in 0..MaxPosts
        BY <2>1, PostsAreFinite
    <2>3. Entries(list) \in SUBSET TopLevel
        BY <1>1, EntriesAre DEF RefreshInv
    <2>4. Cardinality(Entries(list)) <= Cardinality(TopLevel)
        BY <2>2, <2>3, FS_Subset
    <2>5. Cardinality(Users) \in Nat /\ MaxPosts \in Nat
        BY UsersAreFinite, FeedsAssumption
    <2>6. QED
        BY <1>1, <2>2, <2>4, <2>5 DEF Total
<1>2. CASE list # "recommended"
    BY <1>2, EntriesAreFinite DEF Total
<1>3. QED
    BY <1>1, <1>2

(* No entry comes before itself.                                             *)
LEMMA NotBeforeItself ==
    ASSUME TablesOK, NEW list \in Lists, NEW x \in Entries(list)
    PROVE  ~Before(list, x, x)
<1>1. \A n \in Int : ~(n > n)
    OBVIOUS
<1>2. ASSUME x \in DOMAIN posts PROVE x \in Int /\ posts[x].at \in Int
    <2>1. MaxPosts \in Nat /\ now \in Int /\ nextId \in Int
        BY FeedsAssumption DEF TablesOK
    <2>2. posts[x].at \in -MaxPosts..now /\ x \in 1..nextId - 1
        BY <1>2 DEF TablesOK
    <2>3. QED
        BY <2>1, <2>2
<1>3. x \in DOMAIN posts => ~Newer(x, x)
    BY <1>1, <1>2 DEF Newer
<1>4. \/ list = "latest" \/ list = "following" \/ list = "recommended" \/ list = "search"
      \/ list = "trending" \/ list = "users" \/ list = "followees"
    BY FeedsAssumption DEF PostLists, UserLists
<1>5. TopLevel \subseteq DOMAIN posts
    BY DEF TopLevel
<1>6. CASE list \in {"latest", "following"}
    BY <1>3, <1>5, <1>6, EntriesAre DEF Before
<1>7. CASE list = "recommended"
    <2>1. x \in DOMAIN posts /\ x \in DOMAIN recommended
        BY <1>7, EntriesAre
    <2>2. recommended[x] \in Int
        BY <2>1, UsersAreFinite DEF TablesOK
    <2>3. QED
        BY <1>1, <1>3, <1>7, <2>1, <2>2 DEF Before
<1>8. CASE list = "search"
    BY <1>1, <1>2, <1>8, EntriesAre DEF Before
<1>9. CASE list = "trending"
    <2>1. Recent(x, Hour) \in Int
        BY RecentIs, UsersAreFinite
    <2>2. QED
        BY <1>1, <1>9, <2>1 DEF Before
<1>10. CASE list = "users"
    <2>1. x \in Int
        <3>1. x \in hits /\ hits \subseteq Users /\ Users \subseteq Nat
            BY <1>10, EntriesAre, FeedsAssumption DEF TablesOK
        <3>2. QED
            BY <3>1
    <2>2. QED
        BY <1>10, <2>1 DEF Before
<1>11. CASE list = "followees"
    BY <1>11 DEF Before
<1>12. QED
    BY <1>4, <1>6, <1>7, <1>8, <1>9, <1>10, <1>11

(* An answer has every entry; without ties its place is the number of those  *)
(* that come before it.                                                      *)
LEMMA AnswerIs ==
    ASSUME TablesOK, NEW list \in Lists, NEW s \in Answers(list)
    PROVE  /\ s \in Seq(Nat) /\ Range(s) = Entries(list)
           /\ ~Tied(list) => \A n \in 1..Len(s) : Cardinality(Ahead(list, s[n])) = n - 1
<1>1. /\ Entries(list) \subseteq Nat /\ IsFiniteSet(Entries(list))
    BY EntriesAreFinite
<1>2. PICK k \in Nat : k = Cardinality(Entries(list))
    BY <1>1, FS_CardinalityType
<1>3. s \in [1..k -> Entries(list)] /\ \A i, j \in 1..k : i # j => s[i] # s[j]
    BY <1>2 DEF Answers, SetToSeqs
<1>4. s \in Injection(1..k, Entries(list))
    BY <1>3 DEF Injection, IsInjective
<1>5. Cardinality(1..k) = k
    BY <1>2, FS_Interval
<1>6. s \in Surjection(1..k, Entries(list))
    BY <1>1, <1>2, <1>4, <1>5, FS_Injection
<1>7. \A x \in Entries(list) : \E n \in 1..k : s[n] = x
    BY <1>6 DEF Surjection
<1>8. s \in Seq(Nat) /\ Len(s) = k /\ DOMAIN s = 1..k
    BY <1>1, <1>2, <1>3
<1>9. Range(s) = Entries(list)
    BY <1>3, <1>7, <1>8 DEF Range
<1>10. ASSUME ~Tied(list), NEW n \in 1..k
       PROVE  Cardinality(Ahead(list, s[n])) = n - 1
    <2>1. ASSUME NEW m \in 1..k, m < n PROVE Before(list, s[m], s[n])
        <3>1. ~Before(list, s[n], s[m])
            BY <1>2, <1>8, <1>10, <2>1 DEF Answers
        <3>2. s[m] \in Entries(list) /\ s[n] \in Entries(list) /\ s[m] # s[n]
            BY <1>3, <2>1
        <3>3. QED
            BY <1>10, <3>1, <3>2 DEF Tied
    <2>2. ASSUME NEW m \in 1..k, ~(m < n) PROVE ~Before(list, s[m], s[n])
        <3>1. CASE m = n
            BY <1>3, <3>1, NotBeforeItself
        <3>2. CASE m # n
            <4>1. m \in n + 1..Len(s)
                BY <1>2, <1>8, <2>2, <3>2
            <4>2. QED
                BY <1>8, <4>1 DEF Answers
        <3>3. QED
            BY <3>1, <3>2
    <2>3. PICK a : a = Ahead(list, s[n])
        OBVIOUS
    <2>4. PICK f : f = [m \in 1..n - 1 |-> s[m]]
        OBVIOUS
    <2>5. \A m \in 1..n - 1 : m \in 1..k /\ m < n
        BY <1>2
    <2>6. \A m \in 1..n - 1 : s[m] \in a
        BY <1>3, <2>1, <2>3, <2>5 DEF Ahead
    <2>7. \A x \in a : \E m \in 1..n - 1 : s[m] = x
        <3>1. ASSUME NEW x \in a PROVE \E m \in 1..n - 1 : s[m] = x
            <4>1. x \in Entries(list) /\ Before(list, x, s[n])
                BY <2>3 DEF Ahead
            <4>2. PICK m \in 1..k : s[m] = x
                BY <1>7, <4>1
            <4>3. m < n
                BY <2>2, <4>1, <4>2
            <4>4. QED
                BY <1>2, <4>2, <4>3
        <3>2. QED
            BY <3>1
    <2>8. f \in Injection(1..n - 1, a) /\ f \in Surjection(1..n - 1, a)
        <3>1. \A m \in 1..n - 1 : f[m] = s[m]
            BY <2>4
        <3>2. f \in [1..n - 1 -> a]
            BY <2>4, <2>6
        <3>3. \A i, j \in 1..n - 1 : i # j => f[i] # f[j]
            BY <1>3, <2>5, <3>1
        <3>4. \A x \in a : \E m \in 1..n - 1 : f[m] = x
            BY <2>7, <3>1
        <3>5. QED
            BY <3>2, <3>3, <3>4 DEF Injection, IsInjective, Surjection
    <2>9. IsFiniteSet(1..n - 1) /\ Cardinality(1..n - 1) = n - 1
        <3>1. n - 1 \in Int /\ (IF 1 > n - 1 THEN 0 ELSE (n - 1) - 1 + 1) = n - 1
            BY <1>2
        <3>2. QED
            BY <3>1, FS_Interval
    <2>10. Cardinality(a) = Cardinality(1..n - 1)
        BY <2>8, <2>9, FS_Surjection
    <2>11. QED
        BY <2>3, <2>9, <2>10
<1>11. QED
    BY <1>8, <1>9, <1>10

LEMMA PageNumbers ==
    client \in Reader => /\ client.page \in Nat \ {0} /\ PerPage \in Nat \ {0}
                         /\ (client.page - 1) * PerPage \in Nat /\ client.page * PerPage \in Nat
                         /\ client.page <= client.page * PerPage
                         /\ (client.page - 1) * PerPage + PerPage = client.page * PerPage
<1> SUFFICES ASSUME client \in Reader
             PROVE  /\ client.page \in Nat \ {0} /\ PerPage \in Nat \ {0}
                    /\ (client.page - 1) * PerPage \in Nat /\ client.page * PerPage \in Nat
                    /\ client.page <= client.page * PerPage
                    /\ (client.page - 1) * PerPage + PerPage = client.page * PerPage
    OBVIOUS
<1>1. client.page \in Nat \ {0}
    <2>1. client.page \in 1..MaxPosts + Cardinality(Users) /\ MaxPosts \in Nat
        BY FeedsAssumption DEF Reader
    <2>2. QED
        BY <2>1, UsersAreFinite
<1>2. PerPage \in Nat \ {0}
    BY FeedsAssumption
<1>3. ASSUME NEW a \in Nat \ {0}, NEW b \in Nat \ {0}
      PROVE  (a - 1) * b \in Nat /\ a * b \in Nat /\ (a - 1) * b + b = a * b /\ a <= a * b
    OBVIOUS
<1>4. QED
    BY <1>1, <1>2, <1>3

(* LIMIT and OFFSET.                                                         *)
LEMMA PageIs ==
    ASSUME client \in Reader, NEW list \in Lists, NEW s \in Seq(Nat),
           NEW ids, ids = Page(list, s)
    PROVE  /\ ids \in Seq(Nat)
           /\ list \in Paged => \A n \in 1..Len(s) :
                n > (client.page - 1) * PerPage /\ n <= client.page * PerPage =>
                    s[n] \in Range(ids)
           /\ list \notin Paged => Range(s) \subseteq Range(ids)
                                    \/ (list = "trending" /\ Len(ids) = TrendingMax)
<1>1. /\ client.page \in Nat \ {0} /\ PerPage \in Nat \ {0} /\ TrendingMax \in Nat \ {0}
      /\ (client.page - 1) * PerPage \in Nat
      /\ (client.page - 1) * PerPage + PerPage = client.page * PerPage
    BY PageNumbers, FeedsAssumption
<1>2. PICK first : first = IF list \in Paged THEN (client.page - 1) * PerPage ELSE 0
    OBVIOUS
<1>3. PICK last : last = CASE list \in Paged -> first + PerPage
                           [] list = "trending" -> TrendingMax
                           [] OTHER -> Len(s)
    OBVIOUS
<1>4. PICK upto : upto = IF last < Len(s) THEN last ELSE Len(s)
    OBVIOUS
<1>5. ids = SubSeq(s, first + 1, upto)
    BY <1>2, <1>3, <1>4 DEF Page
<1>7. first \in Nat /\ (list \in Paged => last = client.page * PerPage)
    <2>1. CASE list \in Paged
        <3>1. first = (client.page - 1) * PerPage
            BY <1>2, <2>1
        <3>2. last = first + PerPage
            BY <1>3, <2>1 DEF Paged
        <3>3. QED
            BY <1>1, <3>1, <3>2
    <2>2. CASE list \notin Paged
        BY <1>2, <2>2
    <2>3. QED
        BY <2>1, <2>2
<1>8. Len(s) \in Nat /\ DOMAIN s = 1..Len(s) /\ \A n \in 1..Len(s) : s[n] \in Nat
    OBVIOUS
<1>9. last \in Nat
    BY <1>1, <1>3, <1>7, <1>8
<1>10. upto \in Nat /\ upto <= Len(s) /\ upto <= last /\ (upto = last \/ upto = Len(s))
    <2>1. \A a, b \in Nat : LET m == IF a < b THEN a ELSE b
                          IN  m \in Nat /\ m <= b /\ m <= a /\ (m = a \/ m = b)
        OBVIOUS
    <2>2. QED
        BY <1>4, <1>8, <1>9, <2>1
<1>11. \A n \in first + 1..upto : s[n] \in Nat
    <2>1. \A n \in first + 1..upto : n \in 1..Len(s)
        <3>1. \A a, b, c \in Nat : b <= c => \A n \in a + 1..b : n \in 1..c
            OBVIOUS
        <3>2. QED
            BY <1>7, <1>8, <1>10, <3>1
    <2>2. QED
        BY <1>8, <2>1
<1>12. /\ ids \in Seq(Nat) /\ Len(ids) = IF first + 1 <= upto THEN upto - (first + 1) + 1 ELSE 0
       /\ \A i \in 1..upto - (first + 1) + 1 : ids[i] = s[first + 1 + i - 1]
    BY <1>5, <1>7, <1>10, <1>11, SubSeqProperties
<1>13. ASSUME NEW n \in 1..Len(s), n > first, n <= upto PROVE s[n] \in Range(ids)
    <2>1. PICK i \in Nat : i = n - first
        BY <1>7, <1>13
    <2>2. /\ i \in 1..upto - (first + 1) + 1 /\ first + 1 + i - 1 = n /\ first + 1 <= upto
        <3>1. n \in Nat
            BY <1>8, <1>13
        <3>2. \A a, b, c \in Nat : a < b /\ b <= c =>
                /\ b - a \in 1..c - (a + 1) + 1 /\ a + 1 + (b - a) - 1 = b /\ a + 1 <= c
            OBVIOUS
        <3>3. QED
            BY <1>7, <1>10, <1>13, <2>1, <3>1, <3>2
    <2>3. i \in 1..Len(ids) /\ ids[i] = s[n]
        BY <1>7, <1>10, <1>12, <1>13, <2>2
    <2>4. QED
        BY <1>12, <2>3 DEF Range
<1>14. ASSUME list \in Paged, NEW n \in 1..Len(s), n > (client.page - 1) * PerPage,
              n <= client.page * PerPage
       PROVE  s[n] \in Range(ids)
    <2>1. n > first /\ n <= last
        BY <1>2, <1>7, <1>14
    <2>2. n <= upto
        BY <1>10, <2>1
    <2>3. QED
        BY <1>13, <2>1, <2>2
<1>15. ASSUME list \notin Paged
       PROVE  Range(s) \subseteq Range(ids) \/ (list = "trending" /\ Len(ids) = TrendingMax)
    <2>1. first = 0
        BY <1>2, <1>15
    <2>2. CASE upto = Len(s)
        BY <1>8, <1>13, <2>1, <2>2 DEF Range
    <2>3. CASE upto # Len(s)
        <3>1. list = "trending"
            BY <1>3, <1>10, <1>15, <2>3
        <3>2. last = TrendingMax
            BY <1>3, <1>15, <3>1
        <3>3. QED
            BY <1>1, <1>10, <1>12, <2>1, <2>3, <3>1, <3>2
    <2>4. QED
        BY <2>2, <2>3
<1>16. QED
    BY <1>12, <1>14, <1>15

-----------------------------------------------------------------------------
(* What holds at the start.                                                  *)

LEMMA InitIInv == Init => IInv
<1> SUFFICES ASSUME Init PROVE IInv
    OBVIOUS
<1>1. /\ Seeded \in Nat /\ 1 <= Seeded /\ Seeded <= MaxPosts
      /\ {MaxPosts, MaxWrites, MaxTime} \subseteq Nat
    BY FeedsAssumption
<1>2. PICK shape \in [1..Seeded -> Shapes], apart \in BOOLEAN :
        posts = [p \in 1..Seeded |->
            [author |-> shape[p].author, reply |-> shape[p].reply, hit |-> shape[p].hit,
             at |-> IF apart THEN p - Seeded ELSE 0]]
    BY DEF Init
<1>3. nextId = Seeded + 1 /\ now = 0 /\ writes = 0 /\ follows = Users /\ hits = Users
    BY DEF Init
<1>4. ASSUME NEW p \in DOMAIN posts
      PROVE  posts[p] \in [author : Users, reply : BOOLEAN, hit : BOOLEAN, at : -MaxPosts..now]
    <2>1. p \in 1..Seeded
        BY <1>2
    <2>2. shape[p] \in [author : Users, reply : BOOLEAN, hit : BOOLEAN]
        BY <1>2, <2>1, FeedsAssumption
    <2>3. PICK at : at = IF apart THEN p - Seeded ELSE 0
        OBVIOUS
    <2>4. at \in -MaxPosts..now
        BY <1>1, <1>3, <2>1, <2>3
    <2>5. posts[p] = [author |-> shape[p].author, reply |-> shape[p].reply,
                      hit |-> shape[p].hit, at |-> at]
        BY <1>2, <2>1, <2>3
    <2>6. QED
        BY <2>2, <2>4, <2>5
<1>5. DOMAIN posts = 1..Seeded /\ TopLevel \subseteq DOMAIN posts
    BY <1>2 DEF TopLevel
<1>6. PICK liked \in {{}, {1}} : likes = [l \in Users \X liked |-> 0]
    BY DEF Init
<1>7. DOMAIN likes \subseteq Users \X (1..nextId - 1) /\ \A l \in DOMAIN likes : likes[l] \in 0..now
    BY <1>1, <1>3, <1>6
<1>8. /\ DOMAIN recommended = TopLevel
      /\ \A p \in DOMAIN recommended : recommended[p] \in 0..Cardinality(Users)
    BY RecentIs DEF Init
<1>9. TablesOK
    BY <1>1, <1>3, <1>4, <1>5, <1>7, <1>8 DEF TablesOK
<1>10. PICK list \in Lists : client = [list |-> list, at |-> "page", page |-> 1, ids |-> <<>>,
                                       missing |-> Entries(list)]
    BY DEF Init
<1>11. PICK all : all = Entries(list)
    OBVIOUS
<1>12. all \in SUBSET Nat
    BY <1>9, <1>11, EntriesAreFinite
<1>13. client \in Reader
    <2>1. 1 \in 1..MaxPosts + Cardinality(Users) /\ <<>> \in Seq(Nat)
        BY <1>1, UsersAreFinite
    <2>2. QED
        BY <1>10, <1>11, <1>12, <2>1 DEF Reader
<1>14. ClientInv(client)
    <2>1. client.list = list /\ client.at = "page" /\ client.page = 1 /\ client.missing = all
        BY <1>10, <1>11
    <2>2. ASSUME NEW x PROVE Passed(client, x, (1 - 1) * PerPage)
        <3>1. IsFiniteSet(Entries(list)) /\ Ahead(list, x) \in SUBSET Entries(list)
            BY <1>9, EntriesAreFinite DEF Ahead
        <3>2. Cardinality(Ahead(list, x)) \in Nat
            BY <3>1, FS_Subset, FS_CardinalityType
        <3>3. (1 - 1) * PerPage = 0
            BY FeedsAssumption
        <3>4. QED
            BY <2>1, <3>2, <3>3 DEF Passed
    <2>3. QED
        BY <1>11, <2>1, <2>2 DEF ClientInv, PagedInv, WholeInv
<1>15. QED
    BY <1>8, <1>9, <1>13, <1>14, TypeIs DEF IInv, RefreshInv

-----------------------------------------------------------------------------
(* The writes of others keep the tables right.                               *)

(* A list's total and its order are read from the tables; these steps keep   *)
(* what TablesOK and RefreshInv say of them.                                 *)
TablesKeep == TablesOK' /\ RefreshInv'

LEMMA Numbers ==
    /\ {MaxPosts, MaxWrites, MaxTime} \subseteq Nat
    /\ TablesOK => /\ nextId \in Nat /\ now \in Nat /\ writes \in Nat
                   /\ DOMAIN posts \subseteq Nat
<1>1. {MaxPosts, MaxWrites, MaxTime} \subseteq Nat
    BY FeedsAssumption
<1>2. QED
    BY <1>1 DEF TablesOK

LEMMA WriteKeeps ==
    ASSUME TablesOK, Write
    PROVE  now' = now /\ now' \in 0..MaxTime /\ writes' \in 0..MaxWrites
    BY Numbers DEF TablesOK, Write

LEMMA CreatePostKeeps ==
    ASSUME TablesOK, RefreshInv, CreatePost PROVE TablesKeep
<1>1. /\ nextId \in 1..MaxPosts /\ nextId' = nextId + 1
      /\ UNCHANGED <<likes, follows, hits, recommended>> /\ Write
    BY DEF CreatePost
<1>2. now' = now /\ now' \in 0..MaxTime /\ writes' \in 0..MaxWrites
    BY <1>1, WriteKeeps
<1>3. PICK s \in Shapes :
        posts' = With(posts, [p \in {nextId} |-> [author |-> s.author, reply |-> s.reply,
                                                  hit |-> s.hit, at |-> now]])
    BY DEF CreatePost
<1>4. PICK row : row = [author |-> s.author, reply |-> s.reply, hit |-> s.hit, at |-> now]
    OBVIOUS
<1>5. row \in [author : Users, reply : BOOLEAN, hit : BOOLEAN, at : -MaxPosts..now]
    <2>1. s \in [author : Users, reply : BOOLEAN, hit : BOOLEAN]
        BY FeedsAssumption
    <2>2. now \in -MaxPosts..now
        BY Numbers
    <2>3. QED
        BY <1>4, <2>1, <2>2
<1>6. /\ DOMAIN posts' = DOMAIN posts \cup {nextId}
      /\ \A p \in DOMAIN posts : posts'[p] = posts[p]
      /\ nextId \in DOMAIN posts \/ posts'[nextId] = row
    BY <1>3, <1>4 DEF With
<1>7. \A p \in DOMAIN posts' :
        posts'[p] \in [author : Users, reply : BOOLEAN, hit : BOOLEAN, at : -MaxPosts..now]
    BY <1>5, <1>6 DEF TablesOK
<1>8. \A k \in 1..nextId - 1 : k \in 1..nextId' - 1
    BY <1>1
<1>9. nextId \in 1..nextId' - 1 /\ nextId' \in 1..MaxPosts + 1
    BY <1>1, Numbers
<1>10. DOMAIN posts' \subseteq 1..nextId' - 1 /\ DOMAIN likes \subseteq Users \X (1..nextId' - 1)
    BY <1>6, <1>8, <1>9 DEF TablesOK
<1>11. TablesOK'
    BY <1>1, <1>2, <1>6, <1>7, <1>9, <1>10 DEF TablesOK
<1>12. RefreshInv'
    BY <1>1, <1>6 DEF RefreshInv, TopLevel, TablesOK
<1>13. QED
    BY <1>11, <1>12 DEF TablesKeep

LEMMA DeletePostKeeps ==
    ASSUME TablesOK, RefreshInv, NEW p, DeletePost(p) PROVE TablesKeep
<1>1. now' = now /\ now' \in 0..MaxTime /\ writes' \in 0..MaxWrites
    BY WriteKeeps DEF DeletePost
<1>2. /\ posts' = [q \in DOMAIN posts \ {p} |-> posts[q]]
      /\ recommended' = [q \in DOMAIN recommended \ {p} |-> recommended[q]]
      /\ UNCHANGED <<nextId, likes, follows, hits>>
    BY DEF DeletePost
<1>3. TablesOK'
    BY <1>1, <1>2 DEF TablesOK
<1>4. RefreshInv'
    BY <1>2 DEF RefreshInv, TopLevel
<1>5. QED
    BY <1>3, <1>4 DEF TablesKeep

LEMMA LikeKeeps ==
    ASSUME TablesOK, RefreshInv, NEW u \in Users, NEW p \in DOMAIN posts, Like(u, p)
    PROVE  TablesKeep
<1>1. now' = now /\ now' \in 0..MaxTime /\ writes' \in 0..MaxWrites
    BY WriteKeeps DEF Like
<1>2. /\ likes' = With(likes, [l \in {<<u, p>>} |-> now])
      /\ UNCHANGED <<posts, nextId, follows, hits, recommended>>
    BY DEF Like
<1>3. /\ DOMAIN likes' = DOMAIN likes \cup {<<u, p>>}
      /\ \A l \in DOMAIN likes' : likes'[l] = now \/ (l \in DOMAIN likes /\ likes'[l] = likes[l])
    BY <1>2 DEF With
<1>4. now \in 0..now
    BY Numbers
<1>5. DOMAIN likes' \subseteq Users \X (1..nextId - 1) /\ \A l \in DOMAIN likes' : likes'[l] \in 0..now
    BY <1>3, <1>4 DEF TablesOK
<1>6. TablesOK'
    BY <1>1, <1>2, <1>5 DEF TablesOK
<1>7. RefreshInv'
    BY <1>2 DEF RefreshInv, TopLevel
<1>8. QED
    BY <1>6, <1>7 DEF TablesKeep

LEMMA UnlikeKeeps ==
    ASSUME TablesOK, RefreshInv, NEW u, NEW p, Unlike(u, p) PROVE TablesKeep
<1>1. now' = now /\ now' \in 0..MaxTime /\ writes' \in 0..MaxWrites
    BY WriteKeeps DEF Unlike
<1>2. /\ likes' = [l \in DOMAIN likes \ {<<u, p>>} |-> likes[l]]
      /\ UNCHANGED <<posts, nextId, follows, hits, recommended>>
    BY DEF Unlike
<1>3. TablesOK'
    BY <1>1, <1>2 DEF TablesOK
<1>4. RefreshInv'
    BY <1>2 DEF RefreshInv, TopLevel
<1>5. QED
    BY <1>3, <1>4 DEF TablesKeep

LEMMA UsersKeep ==
    ASSUME TablesOK, RefreshInv, NEW u \in Users, Follow(u) \/ Unfollow(u) \/ UpdateProfile(u)
    PROVE  TablesKeep
<1>1. Write /\ UNCHANGED <<posts, nextId, likes, recommended>> /\ follows' \cup hits' \subseteq Users
    BY DEF Follow, Unfollow, UpdateProfile, TablesOK
<1>2. now' = now /\ now' \in 0..MaxTime /\ writes' \in 0..MaxWrites
    BY <1>1, WriteKeeps
<1>3. TablesOK'
    BY <1>1, <1>2 DEF TablesOK
<1>4. RefreshInv'
    BY <1>1 DEF RefreshInv, TopLevel
<1>5. QED
    BY <1>3, <1>4 DEF TablesKeep

LEMMA RefreshKeeps ==
    ASSUME TablesOK, RefreshInv, Refresh PROVE TablesKeep
<1>1. /\ recommended' = With([p \in TopLevel |-> Recent(p, Day)], recommended)
      /\ UNCHANGED <<posts, nextId, likes, follows, hits, now, writes>>
    BY DEF Refresh
<1>2. /\ DOMAIN recommended' = TopLevel \cup DOMAIN recommended
      /\ \A p \in DOMAIN recommended' :
            \/ recommended'[p] = Recent(p, Day)
            \/ p \in DOMAIN recommended /\ recommended'[p] = recommended[p]
    BY <1>1 DEF With
<1>3. /\ TopLevel' = TopLevel /\ TopLevel \subseteq DOMAIN posts
      /\ \A p \in DOMAIN recommended' : recommended'[p] \in 0..Cardinality(Users)
    BY <1>1, <1>2, RecentIs DEF TopLevel, TablesOK
<1>4. TablesOK'
    BY <1>1, <1>2, <1>3 DEF TablesOK
<1>5. RefreshInv'
    BY <1>2, <1>3 DEF RefreshInv
<1>6. QED
    BY <1>4, <1>5 DEF TablesKeep

LEMMA TickKeeps ==
    ASSUME TablesOK, RefreshInv, Tick PROVE TablesKeep
<1>1. now < MaxTime /\ now' = now + 1 /\ UNCHANGED <<tables, writes>>
    BY DEF Tick
<1>2. now' \in 0..MaxTime /\ \A n \in 0..now : n \in 0..now'
    BY <1>1, Numbers
<1>3. \A n \in -MaxPosts..now : n \in -MaxPosts..now'
    BY <1>1, Numbers
<1>4. \A p \in DOMAIN posts :
        posts[p] \in [author : Users, reply : BOOLEAN, hit : BOOLEAN, at : -MaxPosts..now']
    BY <1>3 DEF TablesOK
<1>5. TablesOK'
    BY <1>1, <1>2, <1>4 DEF TablesOK, tables
<1>6. RefreshInv'
    BY <1>1 DEF RefreshInv, TopLevel, tables
<1>7. QED
    BY <1>5, <1>6 DEF TablesKeep

AllFinite == \A list \in Lists : IsFiniteSet(Entries(list))

LEMMA Finite == TablesOK => AllFinite
    BY EntriesAreFinite DEF AllFinite

LEMMA FiniteThen == TablesOK' => AllFinite'
    BY Finite, PTL

(* What Track does to the client; and its entries come no earlier.           *)
LEMMA TrackKeeps ==
    ASSUME TablesOK, TablesOK', client \in Reader, ClientInv(client), Track
    PROVE  client' \in Reader /\ ClientInv(client)'
<1>1. PICK st : st = client
    OBVIOUS
<1>2. PICK list : list = st.list
    OBVIOUS
<1>3. list \in Lists
    BY <1>1, <1>2 DEF Reader
<1>4. CASE client' = [client EXCEPT !.missing = {}]
    <2>1. client' \in Reader
        BY <1>4 DEF Reader
    <2>2. /\ client'.missing = {} /\ client'.at = client.at /\ client'.list = client.list
        BY <1>4 DEF Reader
    <2>3. ClientInv(client)'
        BY <2>2 DEF ClientInv
    <2>4. QED
        BY <2>1, <2>3
<1>5. CASE /\ UNCHANGED client
           /\ Entries(list) \subseteq Entries(list)'
           /\ \A x, y \in Entries(list) : Before(list, x, y) => Before(list, x, y)'
    <2>1. ASSUME NEW x \in Entries(list), NEW n \in Nat, Cardinality(Ahead(list, x)) >= n
          PROVE  Cardinality(Ahead(list, x)') >= n
        <3>1. ASSUME NEW y \in Ahead(list, x) PROVE y \in Ahead(list, x)'
            <4>1. y \in Entries(list) /\ Before(list, y, x)
                BY <3>1 DEF Ahead
            <4>2. y \in Entries(list)' /\ Before(list, y, x)'
                BY <1>5, <2>1, <4>1
            <4>3. QED
                BY <4>2 DEF Ahead
        <3>2. IsFiniteSet(Entries(list)')
            BY <1>3, FiniteThen DEF AllFinite
        <3>3. PICK a : a = Ahead(list, x)
            OBVIOUS
        <3>4. PICK b : b = Ahead(list, x)'
            OBVIOUS
        <3>5. b \in SUBSET (Entries(list)')
            BY <3>4 DEF Ahead
        <3>6. IsFiniteSet(b) /\ Cardinality(b) \in Nat
            BY <3>2, <3>5, FS_Subset, FS_CardinalityType
        <3>7. a \in SUBSET b
            BY <3>1, <3>3, <3>4
        <3>8. Cardinality(a) <= Cardinality(b) /\ Cardinality(a) \in Nat
            BY <3>6, <3>7, FS_Subset, FS_CardinalityType
        <3>9. QED
            BY <2>1, <3>3, <3>4, <3>6, <3>8
    <2>2. ASSUME NEW x \in Entries(list), NEW n \in Nat, Passed(st, x, n)
          PROVE  Passed(st, x, n)'
        BY <1>2, <2>1, <2>2 DEF Passed
    <2>3. (st.page - 1) * PerPage \in Nat /\ st.page * PerPage \in Nat
        BY <1>1, PageNumbers
    <2>4. /\ st.missing \subseteq Entries(list) /\ (st.at = "total" => list \in Paged)
          /\ \A x \in st.missing : IF list \in Paged THEN PagedInv(st, x) ELSE WholeInv(st, x)
        BY <1>1, <1>2 DEF ClientInv
    <2>5. \A x \in st.missing : IF list \in Paged THEN PagedInv(st, x)' ELSE WholeInv(st, x)'
        BY <2>2, <2>3, <2>4 DEF PagedInv, WholeInv, Cut
    <2>6. ClientInv(st)'
        BY <1>2, <1>5, <2>4, <2>5 DEF ClientInv
    <2>7. client' = st
        BY <1>1, <1>5
    <2>8. QED
        BY <1>1, <2>6, <2>7
<1>6. QED
    BY <1>1, <1>2, <1>4, <1>5 DEF Track

LEMMA OthersKeep ==
    ASSUME IInv, Others PROVE IInv'
<1>1. TablesOK /\ RefreshInv /\ client \in Reader /\ ClientInv(client) /\ Track
    BY TypeIs DEF IInv, Others
<1>2. TablesKeep
    BY <1>1, CreatePostKeeps, DeletePostKeeps, LikeKeeps, UnlikeKeeps, UsersKeep, RefreshKeeps,
        TickKeeps DEF Others
<1>3. TablesOK' /\ RefreshInv'
    BY <1>2 DEF TablesKeep
<1>4. client' \in Reader /\ ClientInv(client)'
    BY <1>1, <1>3, TrackKeeps
<1>5. QED
    BY <1>3, <1>4, TypeIs DEF IInv, TypeOK, TablesOK

-----------------------------------------------------------------------------
(* The requests of the client.                                               *)

(* They leave the tables alone, so only the client's own part is to show.    *)
LEMMA RequestKeeps ==
    ASSUME IInv, Request, NEW st \in Reader, client' = st, ClientInv(st) PROVE IInv'
<1>1. UNCHANGED <<posts, nextId, likes, follows, hits, recommended, now, writes>>
    BY DEF Request, tables
<1>2. TablesOK /\ RefreshInv
    BY TypeIs DEF IInv
<1>3. TablesOK' /\ RefreshInv'
    BY <1>1, <1>2 DEF TablesOK, RefreshInv, TopLevel
<1>4. client' \in Reader
    OBVIOUS
<1>5. ClientInv(st)'
    <2>1. \A list : Entries(list)' = Entries(list)
        BY <1>1 DEF Entries, TopLevel, Recent
    <2>2. \A list, x, y : Before(list, x, y)' = Before(list, x, y)
        BY <1>1 DEF Before, Newer, Recent
    <2>3. \A list, x : Ahead(list, x)' = Ahead(list, x)
        BY <2>1, <2>2 DEF Ahead
    <2>4. QED
        BY <2>1, <2>3 DEF ClientInv, PagedInv, WholeInv, Cut, Passed
<1>6. ClientInv(client)'
    BY <1>5
<1>7. QED
    BY <1>3, <1>4, <1>6 DEF IInv, TypeOK, TablesOK

LEMMA Nothing ==
    ASSUME NEW st \in Reader, st.missing = {}, st.at # "total" \/ st.list \in Paged
    PROVE  ClientInv(st)
    BY DEF ClientInv

LEMMA SelectPageKeeps ==
    ASSUME IInv, SelectPage PROVE IInv'
<1>1. TablesOK /\ RefreshInv /\ client \in Reader /\ ClientInv(client) /\ client.at = "page"
    BY TypeIs DEF IInv, SelectPage
<1>2. PICK list \in Lists : list = client.list
    BY <1>1 DEF Reader
<1>3. PICK s \in Answers(list) :
        client' = [client EXCEPT !.at = "load", !.ids = Page(list, s),
                   !.missing = IF Tied(list) THEN {} ELSE @]
    BY <1>2 DEF SelectPage
<1>4. s \in Seq(Nat) /\ Range(s) = Entries(list)
    BY <1>1, AnswerIs
<1>5. PICK ids \in Seq(Nat) : ids = Page(list, s)
    BY <1>1, <1>4, PageIs
<1>6. PICK missing \in SUBSET client.missing :
        missing = IF Tied(list) THEN {} ELSE client.missing
    OBVIOUS
<1>7. PICK st : st = [client EXCEPT !.at = "load", !.ids = ids, !.missing = missing]
    OBVIOUS
<1>8. client' = st
    BY <1>3, <1>5, <1>6, <1>7
<1>9. /\ st \in Reader /\ st.list = list /\ st.at = "load" /\ st.page = client.page
      /\ st.ids = ids /\ st.missing = missing
    BY <1>1, <1>2, <1>6, <1>7 DEF Reader
<1>10. missing \subseteq Entries(list)
    BY <1>1, <1>2, <1>6 DEF ClientInv
<1>11. ASSUME NEW x \in missing, list \in Paged PROVE PagedInv(st, x)
    <2>1. ~Tied(list) /\ x \in client.missing
        BY <1>6, <1>11
    <2>2. Cardinality(Ahead(list, x)) >= (client.page - 1) * PerPage
        BY <1>1, <1>2, <1>11, <2>1 DEF ClientInv, PagedInv, Passed
    <2>3. PICK n \in 1..Len(s) : s[n] = x
        BY <1>4, <1>10, <1>11 DEF Range
    <2>4. Cardinality(Ahead(list, x)) = n - 1
        BY <1>1, <2>1, <2>3, AnswerIs
    <2>5. CASE n <= client.page * PerPage
        <3>1. n > (client.page - 1) * PerPage
            BY <1>1, <2>2, <2>4, PageNumbers
        <3>2. x \in Range(ids)
            BY <1>1, <1>4, <1>5, <1>11, <2>3, <2>5, <3>1, PageIs
        <3>3. QED
            BY <1>9, <3>2 DEF PagedInv
    <2>6. CASE ~(n <= client.page * PerPage)
        <3>1. Cardinality(Ahead(list, x)) >= client.page * PerPage
            BY <1>1, <2>4, <2>6, PageNumbers
        <3>2. QED
            BY <1>9, <3>1 DEF PagedInv, Passed
    <2>7. QED
        BY <2>5, <2>6
<1>12. ASSUME NEW x \in missing, list \notin Paged PROVE WholeInv(st, x)
    <2>1. x \in Range(s)
        BY <1>4, <1>10, <1>12
    <2>2. Range(s) \subseteq Range(ids) \/ (list = "trending" /\ Len(ids) = TrendingMax)
        BY <1>1, <1>4, <1>5, <1>12, PageIs
    <2>3. QED
        BY <1>9, <2>1, <2>2 DEF WholeInv, Cut
<1>13. ClientInv(st)
    BY <1>9, <1>10, <1>11, <1>12 DEF ClientInv
<1>14. QED
    BY <1>8, <1>9, <1>13, RequestKeeps DEF SelectPage

(* Shown: the entries loaded are missing no more.                            *)
LEMMA ShownKeeps ==
    ASSUME IInv, client.at = "load", Request,
           NEW loaded, NEW others, loaded \cup others = Range(client.ids), Shown(loaded, others)
    PROVE  IInv'
<1>1. TablesOK /\ RefreshInv /\ client \in Reader /\ ClientInv(client)
    BY TypeIs DEF IInv
<1>2. PICK list \in Lists : list = client.list
    BY <1>1 DEF Reader
<1>3. PICK at \in {"total", "end"} : at = IF list \in Paged THEN "total" ELSE "end"
    OBVIOUS
<1>4. PICK ids \in Seq(Nat) : ids = IF list = "trending" THEN client.ids ELSE <<>>
    BY <1>1, EmptySeq DEF Reader
<1>5. PICK missing \in SUBSET client.missing :
        missing = IF others = {} THEN client.missing \ loaded ELSE {}
    OBVIOUS
<1>6. PICK st : st = [client EXCEPT !.at = at, !.ids = ids, !.missing = missing]
    OBVIOUS
<1>7. client' = st
    BY <1>2, <1>3, <1>4, <1>5, <1>6 DEF Shown
<1>8. /\ st \in Reader /\ st.list = list /\ st.at = at /\ st.page = client.page
      /\ st.ids = ids /\ st.missing = missing
    BY <1>1, <1>2, <1>5, <1>6 DEF Reader
<1>9. \A x \in missing : x \in client.missing /\ x \notin Range(client.ids)
    BY <1>5
<1>10. ASSUME NEW x \in missing, list \in Paged PROVE PagedInv(st, x)
    <2>1. Passed(client, x, client.page * PerPage)
        BY <1>1, <1>2, <1>9, <1>10 DEF ClientInv, PagedInv
    <2>2. st.at = "total"
        BY <1>3, <1>8, <1>10
    <2>3. QED
        BY <1>2, <1>8, <2>1, <2>2 DEF PagedInv, Passed
<1>11. ASSUME NEW x \in missing, list \notin Paged PROVE WholeInv(st, x)
    <2>1. Cut(client)
        BY <1>1, <1>2, <1>9, <1>11 DEF ClientInv, WholeInv
    <2>2. QED
        BY <1>2, <1>3, <1>4, <1>8, <1>11, <2>1 DEF WholeInv, Cut
<1>12. ClientInv(st)
    <2>1. missing \subseteq Entries(list)
        BY <1>1, <1>2 DEF ClientInv
    <2>2. st.at = "total" => list \in Paged
        BY <1>3, <1>8
    <2>3. QED
        BY <1>8, <1>10, <1>11, <2>1, <2>2 DEF ClientInv
<1>13. QED
    BY <1>7, <1>8, <1>12, RequestKeeps

LEMMA RefusedKeeps ==
    ASSUME IInv, Request, Refused PROVE IInv'
<1>1. client \in Reader
    BY DEF IInv, TypeOK
<1>2. PICK st : st = [client EXCEPT !.at = "error", !.ids = <<>>, !.missing = {}]
    OBVIOUS
<1>3. st \in Reader /\ st.missing = {} /\ st.at = "error"
    <2>1. <<>> \in Seq(Nat)
        OBVIOUS
    <2>2. QED
        BY <1>1, <1>2, <2>1 DEF Reader
<1>4. ClientInv(st)
    BY <1>3, Nothing
<1>5. QED
    BY <1>2, <1>3, <1>4, RequestKeeps DEF Refused

LEMMA LoadPostsKeeps ==
    ASSUME IInv, LoadPosts PROVE IInv'
<1>1. client.at = "load" /\ Request /\ (Shown(Range(client.ids), {}) \/ Refused)
    BY DEF LoadPosts
<1>2. Range(client.ids) \cup {} = Range(client.ids)
    OBVIOUS
<1>3. QED
    BY <1>1, <1>2, ShownKeeps, RefusedKeeps

LEMMA LoadUsersKeeps ==
    ASSUME IInv, LoadUsers PROVE IInv'
<1>1. PICK loaded \in SUBSET Range(client.ids) : Shown(loaded, Range(client.ids) \ loaded)
    BY DEF LoadUsers
<1>2. loaded \cup (Range(client.ids) \ loaded) = Range(client.ids)
    OBVIOUS
<1>3. QED
    BY <1>1, <1>2, ShownKeeps DEF LoadUsers

(* When total is reached nobody is left: x would be one entry more.          *)
LEMMA CountTotalKeeps ==
    ASSUME IInv, CountTotal PROVE IInv'
<1>1. TablesOK /\ RefreshInv /\ client \in Reader /\ ClientInv(client) /\ client.at = "total"
    BY TypeIs DEF IInv, CountTotal
<1>2. PICK list \in Lists : list = client.list
    BY <1>1 DEF Reader
<1>3. list \in Paged
    BY <1>1, <1>2 DEF ClientInv
<1>4. PICK all : all = Total(list)
    OBVIOUS
<1>5. PICK total \in {all, 0} :
        client' = [client EXCEPT
            !.at = IF client.page * PerPage < total THEN "page" ELSE "end",
            !.page = IF client.page * PerPage < total THEN @ + 1 ELSE @,
            !.missing = IF total = all THEN @ ELSE {}]
    BY <1>2, <1>4 DEF CountTotal
<1>6. all \in 0..MaxPosts + Cardinality(Users) /\ Cardinality(Entries(list)) <= all
    BY <1>1, <1>4, TotalIs
<1>7. PICK bound \in Nat : bound = MaxPosts + Cardinality(Users)
    BY UsersAreFinite, FeedsAssumption
<1>8. PICK turned \in Nat : turned = client.page * PerPage
    BY <1>1, PageNumbers
<1>9. all \in Nat /\ total \in Nat /\ total <= bound /\ client.page \in 1..bound
    BY <1>1, <1>6, <1>7 DEF Reader
<1>10. client.page <= turned
    BY <1>1, <1>8, PageNumbers
<1>11. PICK page \in 1..bound : page = IF turned < total THEN client.page + 1 ELSE client.page
    BY <1>9, <1>10
<1>12. PICK at \in {"page", "end"} : at = IF turned < total THEN "page" ELSE "end"
    OBVIOUS
<1>13. PICK missing \in SUBSET client.missing : missing = IF total = all THEN client.missing ELSE {}
    OBVIOUS
<1>14. PICK st : st = [client EXCEPT !.at = at, !.page = page, !.missing = missing]
    OBVIOUS
<1>15. client' = st
    BY <1>5, <1>8, <1>11, <1>12, <1>13, <1>14
<1>16. /\ st \in Reader /\ st.list = list /\ st.at = at /\ st.page = page
       /\ st.missing = missing
    BY <1>1, <1>2, <1>7, <1>13, <1>14 DEF Reader
<1>17. ASSUME NEW x \in missing PROVE PagedInv(st, x)
    <2>1. total = all /\ x \in client.missing
        BY <1>13, <1>17
    <2>2. Cardinality(Ahead(list, x)) >= turned
        BY <1>1, <1>2, <1>3, <1>8, <2>1 DEF ClientInv, PagedInv, Passed
    <2>3. x \in Entries(list) /\ IsFiniteSet(Entries(list))
        BY <1>1, <1>2, <2>1, EntriesAreFinite DEF ClientInv
    <2>4. Ahead(list, x) \in SUBSET (Entries(list) \ {x})
        BY <1>1, <2>3, NotBeforeItself DEF Ahead
    <2>5. /\ IsFiniteSet(Entries(list) \ {x})
          /\ Cardinality(Entries(list) \ {x}) = Cardinality(Entries(list)) - 1
        BY <2>3, FS_RemoveElement
    <2>6. Cardinality(Ahead(list, x)) <= Cardinality(Entries(list) \ {x})
        BY <2>4, <2>5, FS_Subset
    <2>7. Cardinality(Ahead(list, x)) \in Nat /\ Cardinality(Entries(list)) \in Nat
        BY <2>3, <2>4, <2>5, FS_Subset, FS_CardinalityType
    <2>8. turned < total
        BY <1>6, <1>9, <2>1, <2>2, <2>5, <2>6, <2>7
    <2>9. at = "page" /\ page = client.page + 1
        BY <1>11, <1>12, <2>8
    <2>10. (page - 1) * PerPage = turned
        <3>1. page - 1 = client.page
            BY <1>9, <2>9
        <3>2. QED
            BY <1>8, <3>1
    <2>11. QED
        BY <1>16, <2>2, <2>9, <2>10 DEF PagedInv, Passed
<1>18. ClientInv(st)
    <2>1. missing \subseteq Entries(list)
        BY <1>1, <1>2 DEF ClientInv
    <2>2. QED
        BY <1>3, <1>16, <1>17, <2>1 DEF ClientInv
<1>19. QED
    BY <1>15, <1>16, <1>18, RequestKeeps DEF CountTotal

LEMMA NextIInv == IInv /\ [Next]_vars => IInv'
<1> SUFFICES ASSUME IInv, [Next]_vars PROVE IInv'
    OBVIOUS
<1>1. CASE Others
    BY <1>1, OthersKeep
<1>2. CASE SelectPage
    BY <1>2, SelectPageKeeps
<1>3. CASE LoadPosts
    BY <1>3, LoadPostsKeeps
<1>4. CASE LoadUsers
    BY <1>4, LoadUsersKeeps
<1>5. CASE CountTotal
    BY <1>5, CountTotalKeeps
<1>6. CASE RequestFails
    BY <1>6, RefusedKeeps DEF RequestFails
<1>7. CASE UNCHANGED vars
    <2>1. Request /\ client' = client
        BY <1>7 DEF vars, Request
    <2>2. client \in Reader /\ ClientInv(client)
        BY DEF IInv, TypeOK
    <2>3. QED
        BY <2>1, <2>2, RequestKeeps
<1>8. QED
    BY <1>1, <1>2, <1>3, <1>4, <1>5, <1>6, <1>7 DEF Next

LEMMA Invariance == Spec => []IInv
    BY InitIInv, NextIInv, PTL DEF Spec

-----------------------------------------------------------------------------
(* Theorems. *)

\* Every variable of Feeds has its type: likes and the rows of the recommended feed are
\* of posts that were given an id, and the client asks for no page past the last.
THEOREM TypeCorrect == Spec => []TypeOK
<1>1. IInv => TypeOK
    BY DEF IInv
<1>2. QED
    BY <1>1, Invariance, PTL

\* post.go:18-47, 75-89, search.go:33-57, 74-105: turning the pages of a list until total
\* is reached shows every entry that was there at the start and kept its place among the
\* others, for any page size and whatever is added meanwhile.
THEOREM PagesAreComplete == Spec => []PagesComplete
<1>1. IInv => PagesComplete
    <2> SUFFICES ASSUME IInv, client.at = "end"
                 PROVE  \/ client.missing = {}
                        \/ client.list = "trending" /\ Len(client.ids) = TrendingMax
        BY DEF PagesComplete
    <2>1. ClientInv(client)
        BY DEF IInv
    <2>2. ASSUME NEW x \in client.missing PROVE Cut(client)
        BY <2>1, <2>2 DEF ClientInv, PagedInv, WholeInv
    <2>3. QED
        BY <2>2 DEF Cut
<1>2. QED
    BY <1>1, Invariance, PTL
=============================================================================
