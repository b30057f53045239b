---------------------------- MODULE LoaderProofs ----------------------------
(* Proofs about Loader, for tables and pages of any size and any depth limit. *)
EXTENDS Loader, FiniteSetTheorems, SequenceTheorems, WellFoundedInduction, TLAPS

-----------------------------------------------------------------------------
(* Induction over the natural numbers, stated of sets. *)

Less == {pair \in Nat \X Nat : pair[1] < pair[2]}

LEMMA LessIsWellFounded == IsWellFoundedOn(Less, Nat)
<1>1. OpToRel(<, Nat) = Less
  BY DEF OpToRel, Less
<1> QED
  BY <1>1, NatLessThanWellFounded

LEMMA Smallest ==
  ASSUME NEW T, T \subseteq Nat, T # {}
  PROVE  \E x \in T : \A y \in T : x <= y
<1>1. PICK x \in T : \A y \in T : ~(<<y, x>> \in Less)
  BY LessIsWellFounded, WFMin
<1>2. \A a, b \in Nat : a < b => <<a, b>> \in Less
  BY DEF Less
<1>3. ASSUME NEW y \in T PROVE x <= y
  <2>1. x \in Nat /\ y \in Nat /\ ~(y < x)
    BY <1>1, <1>2
  <2> QED
    BY <2>1
<1> QED
  BY <1>3

LEMMA Induct ==
  ASSUME NEW S, 0 \in S, \A n \in Nat : n \in S => n + 1 \in S
  PROVE  Nat \subseteq S
<1> SUFFICES ASSUME Nat \ S # {} PROVE FALSE
  OBVIOUS
<1>1. PICK x \in Nat \ S : \A y \in Nat \ S : x <= y
  BY Smallest
<1>2. x # 0 /\ x - 1 \in Nat /\ (x - 1) + 1 = x
  BY <1>1
<1>3. x - 1 \in S
  <2>1. x - 1 \notin Nat \ S
    BY <1>1, <1>2
  <2> QED
    BY <1>2, <2>1
<1> QED
  BY <1>1, <1>2, <1>3

-----------------------------------------------------------------------------
(* Threads: chains of replies from a post down. *)

Tables == {t \in [Ids -> Rows \cup {NoRow}] : \A i \in Ids : t[i] \in RowsOf(i) \cup {NoRow}}

Chains(t, d) ==
  {p \in [0..d -> Ids] : \A k \in 0..d - 1 : t[p[k + 1]] # NoRow /\ t[p[k + 1]].parent = p[k]}

\* the replies exactly d below r
Below(t, r, d) == {c \in Ids : \E p \in Chains(t, d) : p[0] = r /\ p[d] = c}

Kids(t, r) == {c \in Present(t) : t[c].parent = r}

LEMMA RowFacts ==
  ASSUME NEW t \in Tables, NEW i \in Ids, t[i] # NoRow
  PROVE  /\ t[i] \in RowsOf(i)
         /\ t[i].parent \in 0..i - 1 /\ t[i].original \in Ids \cup {0}
BY LoaderAssumption DEF Tables, RowsOf, Plain, ReplyRows, RepostRows, Ids

LEMMA ChainGrows ==
  ASSUME NEW t \in Tables, NEW d \in Nat, NEW p \in Chains(t, d)
  PROVE  \A j, k \in 0..d : j < k => p[j] < p[k]
<1> DEFINE S == {k \in Nat : k <= d => \A j \in 0..d : j < k => p[j] < p[k]}
<1>1. 0 \in S
  OBVIOUS
<1>2. ASSUME NEW k \in Nat, k \in S, k + 1 <= d PROVE \A j \in 0..d : j < k + 1 => p[j] < p[k + 1]
  <2>1. k \in 0..d - 1 /\ k \in 0..d /\ k + 1 \in 0..d
    BY <1>2
  <2>2. p[k] \in Ids /\ p[k + 1] \in Ids /\ t[p[k + 1]] # NoRow /\ t[p[k + 1]].parent = p[k]
    BY <2>1 DEF Chains
  <2>3. p[k] \in Nat /\ p[k + 1] \in Nat /\ p[k] < p[k + 1]
    BY <2>2, RowFacts, LoaderAssumption DEF Ids
  <2>4. \A j \in 0..d : j < k => p[j] < p[k]
    BY <1>2, <2>1
  <2>5. \A j \in 0..d : p[j] \in Nat
    BY LoaderAssumption DEF Chains, Ids
  <2> QED
    BY <2>3, <2>4, <2>5
<1>3. \A k \in Nat : k \in S => k + 1 \in S
  BY <1>2
<1>4. Nat \subseteq S
  <2> HIDE DEF S
  <2> QED
    BY <1>1, <1>3, Induct
<1> QED
  BY <1>4

LEMMA ChainIsNat ==
  ASSUME NEW t, NEW d \in Nat, NEW p \in Chains(t, d)
  PROVE  \A k \in 0..d : p[k] \in Ids /\ p[k] \in Nat
BY LoaderAssumption DEF Chains, Ids

LEMMA SameEnd ==
  ASSUME NEW t \in Tables, NEW m \in Nat, NEW n \in Nat,
         NEW p \in Chains(t, m), NEW q \in Chains(t, n), p[m] = q[n]
  PROVE  \A j \in Nat : j <= m /\ j <= n => p[m - j] = q[n - j]
<1> DEFINE S == {j \in Nat : j <= m /\ j <= n => p[m - j] = q[n - j]}
<1>1. 0 \in S
  OBVIOUS
<1>2. ASSUME NEW j \in Nat, j \in S, j + 1 <= m, j + 1 <= n PROVE p[m - (j + 1)] = q[n - (j + 1)]
  <2> DEFINE a == m - (j + 1)
             b == n - (j + 1)
  <2>1. a \in 0..m - 1 /\ b \in 0..n - 1 /\ a + 1 = m - j /\ b + 1 = n - j
    BY <1>2
  <2>2. p[a + 1] = q[b + 1]
    BY <1>2, <2>1
  <2>3. t[p[a + 1]].parent = p[a] /\ t[q[b + 1]].parent = q[b]
    BY <2>1 DEF Chains
  <2> QED
    BY <2>2, <2>3
<1>3. \A j \in Nat : j \in S => j + 1 \in S
  BY <1>2
<1>4. Nat \subseteq S
  <2> HIDE DEF S
  <2> QED
    BY <1>1, <1>3, Induct
<1> QED
  BY <1>4

\* There is one way down from a post to a reply below it.
LEMMA OneWay ==
  ASSUME NEW t \in Tables, NEW m \in Nat, NEW n \in Nat,
         NEW p \in Chains(t, m), NEW q \in Chains(t, n), p[m] = q[n], p[0] = q[0]
  PROVE  m = n /\ \A k \in 0..m : p[k] = q[k]
<1>1. ASSUME m < n PROVE FALSE
  <2>1. p[m - m] = q[n - m]
    BY <1>1, SameEnd
  <2>2. n - m \in 0..n /\ 0 \in 0..n /\ 0 < n - m
    BY <1>1
  <2>3. q[0] < q[n - m]
    BY <2>2, ChainGrows
  <2>4. q[0] \in Nat
    BY <2>2, ChainIsNat
  <2> QED
    BY <2>1, <2>3, <2>4
<1>2. ASSUME n < m PROVE FALSE
  <2>1. p[m - n] = q[n - n]
    BY <1>2, SameEnd
  <2>2. m - n \in 0..m /\ 0 \in 0..m /\ 0 < m - n
    BY <1>2
  <2>3. p[0] < p[m - n]
    BY <2>2, ChainGrows
  <2>4. p[0] \in Nat
    BY <2>2, ChainIsNat
  <2> QED
    BY <2>1, <2>3, <2>4
<1>3. m = n
  BY <1>1, <1>2
<1>4. ASSUME NEW k \in 0..m PROVE p[k] = q[k]
  <2>1. m - k \in Nat /\ m - k <= m /\ m - k <= n /\ m - (m - k) = k /\ n - (m - k) = k
    BY <1>3
  <2>2. p[m - (m - k)] = q[n - (m - k)]
    BY <2>1, SameEnd
  <2> QED
    BY <2>1, <2>2
<1> QED
  BY <1>3, <1>4

LEMMA BelowZero ==
  ASSUME NEW t, NEW r \in Ids
  PROVE  Below(t, r, 0) = {r}
<1> DEFINE p == [k \in 0..0 |-> r]
<1>1. p \in Chains(t, 0) /\ p[0] = r
  BY DEF Chains
<1> QED
  BY <1>1 DEF Below

LEMMA BelowNext ==
  ASSUME NEW t, NEW r \in Ids, NEW d \in Nat, NEW c
  PROVE  c \in Below(t, r, d + 1) <=>
           c \in Present(t) /\ \E b \in Below(t, r, d) : t[c].parent = b
<1>1. ASSUME c \in Below(t, r, d + 1)
      PROVE  c \in Present(t) /\ \E b \in Below(t, r, d) : t[c].parent = b
  <2>1. PICK p \in Chains(t, d + 1) : p[0] = r /\ p[d + 1] = c
    BY <1>1 DEF Below
  <2> DEFINE q == [k \in 0..d |-> p[k]]
  <2>2. d \in 0..(d + 1) - 1 /\ 0..d \subseteq 0..d + 1 /\ 0..d - 1 \subseteq 0..(d + 1) - 1
    OBVIOUS
  <2>3. t[p[d + 1]] # NoRow /\ t[p[d + 1]].parent = p[d]
    BY <2>1, <2>2 DEF Chains
  <2>4. q \in [0..d -> Ids]
    BY <2>1, <2>2 DEF Chains
  <2>5. ASSUME NEW k \in 0..d - 1 PROVE t[q[k + 1]] # NoRow /\ t[q[k + 1]].parent = q[k]
    <3>1. k \in 0..d /\ k + 1 \in 0..d /\ k \in 0..(d + 1) - 1
      OBVIOUS
    <3> QED
      BY <2>1, <3>1 DEF Chains
  <2>6. q \in Chains(t, d) /\ q[0] = r /\ q[d] = p[d] /\ p[d] \in Ids
    BY <2>1, <2>4, <2>5 DEF Chains
  <2>7. p[d] \in Below(t, r, d)
    BY <2>6 DEF Below
  <2>8. c \in Ids
    BY <1>1 DEF Below
  <2> QED
    BY <2>1, <2>3, <2>7, <2>8 DEF Present
<1>2. ASSUME c \in Present(t), NEW b \in Below(t, r, d), t[c].parent = b
      PROVE  c \in Below(t, r, d + 1)
  <2>1. PICK p \in Chains(t, d) : p[0] = r /\ p[d] = b
    BY <1>2 DEF Below
  <2> DEFINE q == [k \in 0..d + 1 |-> IF k = d + 1 THEN c ELSE p[k]]
  <2>2. c \in Ids /\ t[c] # NoRow
    BY <1>2 DEF Present
  <2>3. \A k \in 0..d + 1 : k = d + 1 \/ (k # d + 1 /\ k \in 0..d)
    OBVIOUS
  <2>4. q \in [0..d + 1 -> Ids]
    BY <2>1, <2>2, <2>3 DEF Chains
  <2>5. ASSUME NEW k \in 0..(d + 1) - 1 PROVE t[q[k + 1]] # NoRow /\ t[q[k + 1]].parent = q[k]
    <3>1. CASE k = d
      <4>1. q[k + 1] = c /\ q[k] = p[d]
        BY <3>1
      <4> QED
        BY <1>2, <2>1, <2>2, <4>1
    <3>2. CASE k # d
      <4>1. k \in 0..d - 1 /\ q[k + 1] = p[k + 1] /\ q[k] = p[k]
        BY <3>2
      <4> QED
        BY <2>1, <4>1 DEF Chains
    <3> QED
      BY <3>1, <3>2
  <2>6. q \in Chains(t, d + 1)
    <3> HIDE DEF q
    <3> QED
      BY <2>4, <2>5 DEF Chains
  <2>7. q[0] = r /\ q[d + 1] = c
    BY <2>1
  <2> QED
    BY <2>2, <2>6, <2>7 DEF Below
<1> QED
  BY <1>1, <1>2

LEMMA BelowFirst ==
  ASSUME NEW t \in Tables, NEW r \in Ids, NEW d \in Nat, NEW c
  PROVE  c \in Below(t, r, d + 1) <=> \E b \in Kids(t, r) : c \in Below(t, b, d)
<1>1. ASSUME c \in Below(t, r, d + 1)
      PROVE  \E b \in Kids(t, r) : c \in Below(t, b, d)
  <2>1. PICK p \in Chains(t, d + 1) : p[0] = r /\ p[d + 1] = c
    BY <1>1 DEF Below
  <2> DEFINE q == [k \in 0..d |-> p[k + 1]]
  <2>2. 0 \in 0..(d + 1) - 1 /\ \A k \in 0..d : k + 1 \in 0..d + 1
    OBVIOUS
  <2>3. t[p[0 + 1]] # NoRow /\ t[p[0 + 1]].parent = p[0] /\ p[0 + 1] \in Ids
    BY <2>1, <2>2 DEF Chains
  <2>4. q \in [0..d -> Ids]
    BY <2>1, <2>2 DEF Chains
  <2>5. ASSUME NEW k \in 0..d - 1 PROVE t[q[k + 1]] # NoRow /\ t[q[k + 1]].parent = q[k]
    <3>1. k \in 0..d /\ k + 1 \in 0..d /\ k + 1 \in 0..(d + 1) - 1
      OBVIOUS
    <3> QED
      BY <2>1, <3>1 DEF Chains
  <2>6. q \in Chains(t, d)
    <3> HIDE DEF q
    <3> QED
      BY <2>4, <2>5 DEF Chains
  <2>7. q[0] = p[1] /\ q[d] = c
    BY <2>1
  <2>8. p[1] \in Kids(t, r)
    BY <2>1, <2>3 DEF Kids, Present
  <2> QED
    BY <1>1, <2>6, <2>7, <2>8 DEF Below
<1>2. ASSUME NEW b \in Kids(t, r), c \in Below(t, b, d)
      PROVE  c \in Below(t, r, d + 1)
  <2>1. PICK p \in Chains(t, d) : p[0] = b /\ p[d] = c
    BY <1>2 DEF Below
  <2> DEFINE q == [k \in 0..d + 1 |-> IF k = 0 THEN r ELSE p[k - 1]]
  <2>2. c \in Ids /\ t[b] # NoRow /\ t[b].parent = r
    BY <1>2 DEF Present, Kids, Below
  <2>3. \A k \in 0..d + 1 : k = 0 \/ (k # 0 /\ k - 1 \in 0..d)
    OBVIOUS
  <2>4. q \in [0..d + 1 -> Ids]
    BY <2>1, <2>3 DEF Chains
  <2>5. ASSUME NEW k \in 0..(d + 1) - 1 PROVE t[q[k + 1]] # NoRow /\ t[q[k + 1]].parent = q[k]
    <3>1. CASE k = 0
      <4>1. q[k + 1] = p[0] /\ q[k] = r
        BY <3>1
      <4> QED
        BY <2>1, <2>2, <4>1
    <3>2. CASE k # 0
      <4>1. k - 1 \in 0..d - 1 /\ q[k + 1] = p[(k - 1) + 1] /\ q[k] = p[k - 1]
        BY <3>2
      <4> QED
        BY <2>1, <4>1 DEF Chains
    <3> QED
      BY <3>1, <3>2
  <2>6. q \in Chains(t, d + 1)
    <3> HIDE DEF q
    <3> QED
      BY <2>4, <2>5 DEF Chains
  <2>7. q[0] = r /\ q[d + 1] = c
    BY <2>1
  <2> QED
    BY <2>2, <2>6, <2>7 DEF Below
<1> QED
  BY <1>1, <1>2

\* A table that has fewer rows has fewer replies.
LEMMA BelowFewer ==
  ASSUME NEW t, NEW u, \A i \in Ids : t[i] \in {u[i], NoRow}, NEW r \in Ids, NEW d \in Nat
  PROVE  Below(t, r, d) \subseteq Below(u, r, d)
<1>1. ASSUME NEW p \in Chains(t, d) PROVE p \in Chains(u, d)
  <2>1. ASSUME NEW k \in 0..d - 1 PROVE u[p[k + 1]] # NoRow /\ u[p[k + 1]].parent = p[k]
    <3>1. k + 1 \in 0..d
      OBVIOUS
    <3>2. p[k + 1] \in Ids /\ t[p[k + 1]] # NoRow /\ t[p[k + 1]].parent = p[k]
      BY <3>1 DEF Chains
    <3> QED
      BY <3>2
  <2> QED
    BY <2>1 DEF Chains
<1> QED
  BY <1>1 DEF Below

\* A reply is at one distance below a post, ...
LEMMA BelowOnce ==
  ASSUME NEW t \in Tables, NEW r, NEW m \in Nat, NEW n \in Nat,
         NEW c \in Below(t, r, m), c \in Below(t, r, n)
  PROVE  m = n
BY OneWay DEF Below

\* ... below one of its replies, ...
LEMMA KidsApart ==
  ASSUME NEW t \in Tables, NEW r \in Ids, NEW m \in Nat, NEW n \in Nat,
         NEW a \in Kids(t, r), NEW b \in Kids(t, r),
         NEW c \in Below(t, a, m), c \in Below(t, b, n)
  PROVE  a = b
<1>1. PICK p \in Chains(t, m) : p[0] = a /\ p[m] = c
  BY DEF Below
<1>2. PICK q \in Chains(t, n) : q[0] = b /\ q[n] = c
  BY DEF Below
<1>3. c \in Below(t, r, m + 1) /\ c \in Below(t, r, n + 1)
  BY BelowFirst
<1>4. m + 1 \in Nat /\ n + 1 \in Nat
  OBVIOUS
<1>5. m = n
  <2>1. m + 1 = n + 1
    BY <1>3, <1>4, BelowOnce
  <2> QED
    BY <2>1
<1>6. p[m - m] = q[n - m]
  BY <1>1, <1>2, <1>5, SameEnd
<1> QED
  BY <1>1, <1>2, <1>5, <1>6

\* ... and later than it.
LEMMA BelowLater ==
  ASSUME NEW t \in Tables, NEW r \in Ids, NEW d \in Nat \ {0}, NEW c \in Below(t, r, d)
  PROVE  r < c
<1>1. PICK p \in Chains(t, d) : p[0] = r /\ p[d] = c
  BY DEF Below
<1>2. 0 \in 0..d /\ d \in 0..d /\ 0 < d
  OBVIOUS
<1> QED
  BY <1>1, <1>2, ChainGrows

-----------------------------------------------------------------------------
(* countReplies: its sums over replies are the number of posts below.        *)

First(s) == CHOOSE x \in s : TRUE

SumSolves(it, b, S) ==
  it = [s \in SUBSET S |-> IF s = {} THEN 0 ELSE (1 + b[First(s)]) + it[s \ {First(s)}]]

\* MapThenSumSet as it is used here
Sum(b, S) == (CHOOSE it : SumSolves(it, b, S))[S]

LEMMA SumOfDisjoint ==
  ASSUME NEW S, IsFiniteSet(S), NEW b, NEW H,
         \A x \in S : IsFiniteSet(H[x]) /\ b[x] = Cardinality(H[x]) /\ x \notin H[x],
         \A x, y \in S : x # y => ({x} \cup H[x]) \cap ({y} \cup H[y]) = {}
  PROVE  Sum(b, S) = Cardinality(UNION {{x} \cup H[x] : x \in S})
<1> DEFINE All(s) == UNION {{x} \cup H[x] : x \in s}
           F(s) == Cardinality(All(s))
<1>1. \A x \in S : /\ IsFiniteSet({x} \cup H[x])
                   /\ Cardinality({x} \cup H[x]) = 1 + b[x] /\ b[x] \in Nat
  <2> SUFFICES ASSUME NEW x \in S
               PROVE  /\ IsFiniteSet(H[x] \cup {x})
                      /\ Cardinality(H[x] \cup {x}) = 1 + b[x] /\ b[x] \in Nat
    <3>1. \A x \in S : {x} \cup H[x] = H[x] \cup {x}
      OBVIOUS
    <3> QED
      BY <3>1
  <2>1. IsFiniteSet(H[x]) /\ b[x] = Cardinality(H[x]) /\ x \notin H[x]
    OBVIOUS
  <2>2. b[x] \in Nat
    BY <2>1, FS_CardinalityType
  <2>3. IsFiniteSet(H[x] \cup {x}) /\ Cardinality(H[x] \cup {x}) = Cardinality(H[x]) + 1
    BY <2>1, FS_AddElement
  <2> QED
    BY <2>1, <2>2, <2>3
<1>2. ASSUME NEW s \in SUBSET S PROVE IsFiniteSet(s) /\ IsFiniteSet(All(s)) /\ F(s) \in Nat
  <2>1. IsFiniteSet(s)
    BY FS_Subset
  <2> DEFINE G == [x \in s |-> {x} \cup H[x]]
  <2>2. {G[x] : x \in s} = {{x} \cup H[x] : x \in s}
    OBVIOUS
  <2>3. IsFiniteSet({G[x] : x \in s})
    <3>1. G \in Surjection(s, {G[x] : x \in s})
      <4>1. G \in [s -> {G[x] : x \in s}]
        OBVIOUS
      <4> QED
        BY <4>1 DEF Surjection
    <3> HIDE DEF G
    <3> QED
      BY <2>1, <3>1, FS_Surjection
  <2>4. IsFiniteSet(All(s))
    <3>1. \A T \in {{x} \cup H[x] : x \in s} : IsFiniteSet(T)
      BY <1>1
    <3> QED
      BY <2>2, <2>3, <3>1, FS_UNION
  <2> QED
    BY <2>1, <2>4, FS_CardinalityType
<1>3. ASSUME NEW s \in SUBSET S, NEW x \in s PROVE F(s) = (1 + b[x]) + F(s \ {x})
  <2>1. All(s) = ({x} \cup H[x]) \cup All(s \ {x})
    OBVIOUS
  <2>2. ({x} \cup H[x]) \cap All(s \ {x}) = {}
    OBVIOUS
  <2>3. IsFiniteSet(All(s \ {x})) /\ F(s \ {x}) \in Nat
    BY <1>2
  <2> DEFINE A == {x} \cup H[x]
             B == All(s \ {x})
  <2>4. IsFiniteSet(A) /\ Cardinality(A) = 1 + b[x] /\ b[x] \in Nat
    BY <1>1
  <2>5. Cardinality(A \cup B) = Cardinality(A) + Cardinality(B) - Cardinality(A \cap B)
    <3> HIDE DEF A, B
    <3> QED
      BY <2>3, <2>4, FS_Union DEF B
  <2>6. Cardinality(A \cap B) = 0
    <3>1. A \cap B = {}
      BY <2>2
    <3> QED
      BY <3>1, FS_EmptySet
  <2>7. F(s) = Cardinality(A \cup B) /\ F(s \ {x}) = Cardinality(B)
    BY <2>1
  <2> HIDE DEF A, B, F, All
  <2> QED
    BY <2>3, <2>4, <2>5, <2>6, <2>7
<1>4. All({}) = {} /\ F({}) = 0
  BY FS_EmptySet
<1>5. \A s \in SUBSET S : s # {} => First(s) \in s
  BY DEF First
<1> HIDE DEF F
<1>6. SumSolves([s \in SUBSET S |-> F(s)], b, S)
  <2>1. ASSUME NEW s \in SUBSET S, s # {}
        PROVE  /\ F(s) = (1 + b[First(s)]) + F(s \ {First(s)})
               /\ s \ {First(s)} \in SUBSET S
    BY <1>3, <1>5, <2>1
  <2> QED
    BY <1>4, <2>1 DEF SumSolves
<1>7. PICK it : it = (CHOOSE f : SumSolves(f, b, S)) /\ SumSolves(it, b, S)
  BY <1>6
<1> DEFINE Good == {n \in Nat : \A s \in SUBSET S : Cardinality(s) = n => it[s] = F(s)}
<1>8. 0 \in Good
  <2> SUFFICES ASSUME NEW s \in SUBSET S, Cardinality(s) = 0 PROVE it[s] = F(s)
    OBVIOUS
  <2>1. s = {}
    BY <1>2, FS_EmptySet
  <2> QED
    BY <1>4, <1>7, <2>1 DEF SumSolves
<1>9. ASSUME NEW n \in Nat, n \in Good, NEW s \in SUBSET S, Cardinality(s) = n + 1
      PROVE  it[s] = F(s)
  <2>0. IsFiniteSet(s) /\ Cardinality(s) # 0
    <3>1. IsFiniteSet(s)
      BY <1>2
    <3> QED
      BY <1>9, <3>1
  <2>1. s # {}
    BY <2>0, FS_EmptySet
  <2>2. First(s) \in s /\ s \ {First(s)} \in SUBSET S
    BY <1>5, <2>1
  <2>3. Cardinality(s \ {First(s)}) = n
    <3>1. Cardinality(s \ {First(s)}) = Cardinality(s) - 1
      BY <2>0, <2>2, FS_RemoveElement
    <3> QED
      BY <1>9, <3>1
  <2>4. it[s \ {First(s)}] = F(s \ {First(s)})
    BY <1>9, <2>2, <2>3
  <2>5. it[s] = (1 + b[First(s)]) + it[s \ {First(s)}]
    BY <1>7, <2>1 DEF SumSolves
  <2> QED
    BY <1>3, <2>2, <2>4, <2>5
<1>10. Nat \subseteq Good
  <2>1. \A n \in Nat : n \in Good => n + 1 \in Good
    BY <1>9
  <2> HIDE DEF Good
  <2> QED
    BY <1>8, <2>1, Induct
<1>11. it[S] = F(S)
  <2>1. S \in SUBSET S /\ Cardinality(S) \in Nat
    BY FS_CardinalityType
  <2> QED
    BY <1>10, <2>1
<1> QED
  BY <1>7, <1>11 DEF Sum, F

\* the posts below r, down to depth d
Descendants(t, r, d) == {c \in Ids : \E e \in 1..d : c \in Below(t, r, e)}

IdsFinite == IsFiniteSet(Ids)
LEMMA FiniteIds == IdsFinite /\ \A T \in SUBSET Ids : IsFiniteSet(T) /\ Cardinality(T) \in 0..MaxPosts
<1>1. IdsFinite /\ Cardinality(Ids) = MaxPosts
  BY LoaderAssumption, FS_Interval DEF Ids, IdsFinite
<1> SUFFICES ASSUME NEW T \in SUBSET Ids
             PROVE  IsFiniteSet(T) /\ Cardinality(T) \in 0..MaxPosts
  BY <1>1
<1>2. IsFiniteSet(T) /\ Cardinality(T) <= MaxPosts
  BY <1>1, FS_Subset DEF IdsFinite
<1>3. Cardinality(T) \in Nat
  BY <1>2, FS_CardinalityType
<1> QED
  BY <1>2, <1>3, LoaderAssumption

LEMMA DescendantsOfKids ==
  ASSUME NEW t \in Tables, NEW r \in Ids, NEW d \in Nat
  PROVE  Descendants(t, r, d + 1) = UNION {{b} \cup Descendants(t, b, d) : b \in Kids(t, r)}
<1>1. ASSUME NEW c \in Descendants(t, r, d + 1)
      PROVE  \E b \in Kids(t, r) : c \in {b} \cup Descendants(t, b, d)
  <2>1. PICK e \in 1..d + 1 : c \in Below(t, r, e)
    BY DEF Descendants
  <2>2. e - 1 \in Nat /\ (e - 1) + 1 = e /\ (e - 1 = 0 \/ e - 1 \in 1..d)
    OBVIOUS
  <2>3. c \in Below(t, r, (e - 1) + 1) /\ c \in Ids
    BY <2>1, <2>2 DEF Below
  <2>4. PICK b \in Kids(t, r) : c \in Below(t, b, e - 1)
    BY <2>2, <2>3, BelowFirst
  <2>5. b \in Ids
    BY DEF Kids, Present
  <2>6. CASE e - 1 = 0
    BY <2>4, <2>5, <2>6, BelowZero
  <2>7. CASE e - 1 \in 1..d
    BY <2>3, <2>4, <2>7 DEF Descendants
  <2> QED
    BY <2>2, <2>6, <2>7
<1>2. ASSUME NEW b \in Kids(t, r), NEW c \in {b} \cup Descendants(t, b, d)
      PROVE  c \in Descendants(t, r, d + 1)
  <2>0. b \in Ids
    BY DEF Kids, Present
  <2>1. PICK e \in 0..d : c \in Below(t, b, e)
    <3>1. CASE c = b
      BY <2>0, <3>1, BelowZero
    <3>2. CASE c # b
      <4>1. PICK e \in 1..d : c \in Below(t, b, e)
        BY <1>2, <3>2 DEF Descendants
      <4>2. e \in 0..d
        OBVIOUS
      <4> QED
        BY <4>1, <4>2
    <3> QED
      BY <3>1, <3>2
  <2>2. e \in Nat /\ e + 1 \in 1..d + 1
    BY <2>1
  <2>3. c \in Below(t, r, e + 1)
    BY <2>1, <2>2, BelowFirst
  <2>4. c \in Ids
    BY <2>3 DEF Below
  <2> QED
    BY <2>2, <2>3, <2>4 DEF Descendants
<1> QED
  BY <1>1, <1>2

CountSolves(f, t) ==
  f = [d \in 0..MaxThreadDepth |->
        [i \in Ids |-> IF d = 0 THEN 0 ELSE Sum(f[d - 1], Kids(t, i))]]

\* countReplies(i) of the code, level by level, is the number of posts at most
\* maxThreadDepth below i.
LEMMA CountIs ==
  ASSUME NEW t \in Tables
  PROVE  CountReplies(t) = [i \in Ids |-> Cardinality(Descendants(t, i, MaxThreadDepth))]
<1> DEFINE D(d) == [i \in Ids |-> Cardinality(Descendants(t, i, d))]
           G == [d \in 0..MaxThreadDepth |-> D(d)]
<1>1. MaxThreadDepth \in Nat
  BY LoaderAssumption
<1>2. ASSUME NEW i \in Ids PROVE Descendants(t, i, 0) = {} /\ D(0)[i] = 0
  <2>1. Descendants(t, i, 0) = {}
    BY DEF Descendants
  <2> QED
    BY <2>1, FS_EmptySet
<1>3. ASSUME NEW d \in Nat, NEW i \in Ids PROVE Sum(D(d), Kids(t, i)) = D(d + 1)[i]
  <2> DEFINE H == [b \in Ids |-> Descendants(t, b, d)]
             S == Kids(t, i)
             g == D(d)
  <2>1. S \subseteq Ids /\ IsFiniteSet(S)
    <3>1. S \subseteq Ids
      BY DEF Kids, Present
    <3> QED
      BY <3>1, FiniteIds
  <2>2. ASSUME NEW x \in S
        PROVE  IsFiniteSet(H[x]) /\ g[x] = Cardinality(H[x]) /\ x \notin H[x]
    <3>1. x \in Ids /\ H[x] = Descendants(t, x, d) /\ H[x] \in SUBSET Ids
      BY <2>1 DEF Descendants
    <3>2. ASSUME x \in H[x] PROVE FALSE
      <4>1. PICK e \in 1..d : x \in Below(t, x, e)
        BY <3>1, <3>2 DEF Descendants
      <4>2. e \in Nat \ {0}
        OBVIOUS
      <4>3. x < x
        BY <3>1, <4>1, <4>2, BelowLater
      <4> QED
        BY <3>1, <4>3, LoaderAssumption DEF Ids
    <3> QED
      BY <3>1, <3>2, FiniteIds
  <2>3. ASSUME NEW x \in S, NEW y \in S, x # y PROVE ({x} \cup H[x]) \cap ({y} \cup H[y]) = {}
    <3>1. ASSUME NEW z \in S, NEW c \in {z} \cup H[z] PROVE \E e \in Nat : c \in Below(t, z, e)
      <4>1. z \in Ids
        BY <2>1
      <4>2. CASE c = z
        BY <4>1, <4>2, BelowZero
      <4>3. CASE c \in Descendants(t, z, d)
        <5>1. 1..d \subseteq Nat
          OBVIOUS
        <5> QED
          BY <4>3, <5>1 DEF Descendants
      <4> QED
        BY <3>1, <4>1, <4>2, <4>3
    <3>2. ASSUME NEW c \in {x} \cup H[x], c \in {y} \cup H[y] PROVE FALSE
      <4>1. PICK m \in Nat : c \in Below(t, x, m)
        BY <3>1
      <4>2. PICK n \in Nat : c \in Below(t, y, n)
        BY <3>1, <3>2
      <4> QED
        BY <2>3, <4>1, <4>2, KidsApart
    <3> QED
      BY <3>2
  <2>4. Sum(g, S) = Cardinality(UNION {{x} \cup H[x] : x \in S})
    <3> HIDE DEF H, g, S
    <3> QED
      BY <2>1, <2>2, <2>3, SumOfDisjoint
  <2>5. {{x} \cup H[x] : x \in S} = {{b} \cup Descendants(t, b, d) : b \in Kids(t, i)}
    BY <2>1
  <2>6. UNION {{x} \cup H[x] : x \in S} = Descendants(t, i, d + 1)
    BY <2>5, DescendantsOfKids
  <2> QED
    BY <2>4, <2>6
<1>4. CountSolves(G, t)
  <2>1. ASSUME NEW d \in 0..MaxThreadDepth
        PROVE  G[d] = [i \in Ids |-> IF d = 0 THEN 0 ELSE Sum(G[d - 1], Kids(t, i))]
    <3>1. CASE d = 0
      BY <1>2, <3>1
    <3>2. CASE d # 0
      <4>1. d - 1 \in Nat /\ d - 1 \in 0..MaxThreadDepth /\ (d - 1) + 1 = d
        BY <1>1, <3>2
      <4>2. G[d - 1] = D(d - 1) /\ G[d] = D(d)
        BY <4>1
      <4> QED
        BY <1>3, <3>2, <4>1, <4>2
    <3> QED
      BY <3>1, <3>2
  <2> HIDE DEF D
  <2> QED
    BY <2>1 DEF CountSolves
<1>5. PICK f : f = (CHOOSE g : CountSolves(g, t)) /\ CountSolves(f, t)
  BY <1>4
<1> DEFINE Good == {d \in Nat : d <= MaxThreadDepth => f[d] = D(d)}
<1>6. 0 \in Good
  <2>1. f[0] = [i \in Ids |-> 0]
    BY <1>1, <1>5 DEF CountSolves
  <2>2. D(0) = [i \in Ids |-> 0]
    BY <1>2
  <2> QED
    BY <2>1, <2>2
<1>7. ASSUME NEW d \in Nat, d \in Good, d + 1 <= MaxThreadDepth PROVE f[d + 1] = D(d + 1)
  <2>1. f[d] = D(d)
    BY <1>1, <1>7
  <2>2. f[d + 1] = [i \in Ids |-> Sum(f[d], Kids(t, i))]
    <3>1. d + 1 \in 0..MaxThreadDepth /\ d + 1 # 0 /\ (d + 1) - 1 = d
      BY <1>1, <1>7
    <3>2. ASSUME NEW e \in 0..MaxThreadDepth, e # 0
          PROVE  f[e] = [i \in Ids |-> Sum(f[e - 1], Kids(t, i))]
      <4>1. f[e] = [i \in Ids |-> IF e = 0 THEN 0 ELSE Sum(f[e - 1], Kids(t, i))]
        <5> DEFINE Level(k) == [i \in Ids |-> IF k = 0 THEN 0 ELSE Sum(f[k - 1], Kids(t, i))]
        <5>1. f = [k \in 0..MaxThreadDepth |-> Level(k)]
          BY <1>5 DEF CountSolves
        <5> HIDE DEF Level
        <5>2. f[e] = Level(e)
          BY <5>1
        <5> QED
          BY <5>2 DEF Level
      <4> QED
        BY <3>2, <4>1
    <3> QED
      BY <3>1, <3>2
  <2> QED
    BY <1>3, <2>1, <2>2
<1>8. Nat \subseteq Good
  <2>1. \A d \in Nat : d \in Good => d + 1 \in Good
    BY <1>7
  <2> HIDE DEF Good
  <2> QED
    BY <1>6, <2>1, Induct
<1>9. f[MaxThreadDepth] = D(MaxThreadDepth)
  BY <1>1, <1>8
<1>10. CountReplies(t) = (CHOOSE g : CountSolves(g, t))[MaxThreadDepth]
  BY DEF CountReplies, CountSolves, Kids, Sum, SumSolves, First, MapThenSumSet, MapThenFoldSet
<1> QED
  BY <1>5, <1>9, <1>10

-----------------------------------------------------------------------------
(* The inductive invariant. *)

\* Rows do not change: what was there throughout is there, what is there was seen.
TablesInv ==
  /\ posts \in Tables /\ kept \in Tables /\ seen \in Tables
  /\ \A i \in Ids : kept[i] \in {posts[i], NoRow} /\ posts[i] \in {seen[i], NoRow}
  /\ \A i \in Ids : i >= nextId => seen[i] = NoRow
  /\ writes = 0 => kept = posts /\ seen = posts

\* What is loaded was there.  Before the page is known nothing is.
RecordsInv ==
  /\ \A i \in DOMAIN load.records : load.records[i] = seen[i]
  /\ pc \in {"list", "single"} =>
        load.ids \cup load.pending \cup DOMAIN load.records = {}
  /\ pc \in {"list", "likes"} => load.depth = 0
  /\ pc = "single" => load.current \in Ids

Gone(i) == kept[i] = NoRow

\* The posts of the page are loaded unless they were deleted.
PageInv ==
  /\ pc = "records" => \A i \in load.ids : i \in DOMAIN load.records \cup load.pending \/ Gone(i)
  /\ pc \in {"likes", "replies", "targets", "flags", "total"} => load.ids \subseteq DOMAIN load.records
  /\ answer = "200" => load.ids \subseteq DOMAIN load.records
  /\ answer = "500" /\ failures = 0 => \E i \in load.ids : Gone(i)
  /\ pc \in {"single", "list"} \/ answer = "404" => load.ids = {}
  /\ answer = "none" <=> pc # "answered"
  /\ writes = 0 => load.ids \subseteq Present(posts)

\* From each post over what it reposts to what that reposts, d times.
RepostChains(t, d) ==
  {p \in [0..d -> Ids] : \A k \in 0..d - 1 : t[p[k]] # NoRow /\ t[p[k]].original = p[k + 1]}

LevelsLoaded(n) ==
  \A k \in 0..n : \A p \in RepostChains(kept, k) :
    p[0] \in load.ids => Gone(p[k]) \/ p[k] \in DOMAIN load.records \cup load.pending

OriginalsLoaded ==
  \A i \in DOMAIN load.records :
    LET o == load.records[i].original
    IN  o = 0 \/ Gone(o) \/ o \in DOMAIN load.records \cup load.pending

Listing == pc \in {"likes", "replies", "targets", "flags", "total"} \/ answer = "200"

\* fetchPosts has followed the reposts as far as they go, or as far as it may.
LevelsInv ==
  /\ pc = "records" => OriginalsLoaded /\ LevelsLoaded(load.depth)
  /\ Listing => load.pending = {} /\ (OriginalsLoaded \/ LevelsLoaded(MaxThreadDepth))

Counted == pc \in {"targets", "flags", "total"} \/ answer = "200"

\* countRepliesBatch is as deep below each root as it has counted levels.
CountInv ==
  /\ pc = "replies" =>
      /\ load.depth < MaxThreadDepth
      /\ \A v \in load.visited : \E d \in 0..load.depth : v[1] \in Below(seen, v[2], d)
      /\ \A v \in load.frontier : v[1] \in Below(seen, v[2], load.depth)
      /\ \A r \in DOMAIN load.records : \A d \in 0..load.depth : \A c \in Below(kept, r, d) :
            /\ <<c, r>> \in load.visited
            /\ d = load.depth => <<c, r>> \in load.frontier
  /\ Counted => \A r \in DOMAIN load.records :
      /\ \A d \in 0..MaxThreadDepth : \A c \in Below(kept, r, d) : <<c, r>> \in load.visited
      /\ \A v \in load.visited : \E d \in 0..MaxThreadDepth : v[1] \in Below(seen, v[2], d)

\* While nothing is written the numbers are those of the tables.
NumbersInv ==
  writes = 0 /\ failures = 0 /\ load.ids # {} =>
    /\ pc \in {"replies", "targets", "flags", "total"} \/ answer = "200" =>
          load.likesCounts = [i \in DOMAIN load.records |-> LikesOf(i)]
    /\ pc \in {"flags", "total"} \/ answer = "200" => load.targets = Parents \cap Present(posts)
    /\ pc = "total" \/ answer = "200" =>
          load.likedByMe = {i \in DOMAIN load.records : <<viewer, i>> \in likes}
    /\ answer = "200" => load.total = Cardinality(Listed(load.replies))

\* load has the fields of NothingLoaded.
LoadInv ==
  load = [replies |-> load.replies, ids |-> load.ids, records |-> load.records,
          pending |-> load.pending, depth |-> load.depth, likesCounts |-> load.likesCounts,
          frontier |-> load.frontier, visited |-> load.visited, targets |-> load.targets,
          likedByMe |-> load.likedByMe, total |-> load.total, current |-> load.current]

IInv ==
  /\ TypeOK /\ LoadInv /\ TablesInv /\ RecordsInv /\ PageInv /\ LevelsInv /\ CountInv /\ NumbersInv

LEMMA InitIInv == Init => IInv
<1> SUFFICES ASSUME Init PROVE IInv
  OBVIOUS
<1> USE LoaderAssumption
<1>1. /\ pc \in {"list", "single"} /\ answer = "none" /\ writes = 0 /\ failures = 0
      /\ load.replies = FALSE /\ load.ids = {} /\ load.pending = {} /\ load.depth = 0
      /\ load.records = <<>> /\ load.frontier = {} /\ load.visited = {} /\ load.targets = {}
      /\ load.likedByMe = {} /\ load.total = 0 /\ load.current \in 0..MaxPosts
  BY DEF Init, NothingLoaded, Ids
<1>2. LoadInv
  BY DEF Init, NothingLoaded, LoadInv
<1>3. DOMAIN load.records = {}
  BY <1>1
<1>4. posts \in Tables /\ kept = posts /\ seen = posts
      /\ \A i \in Ids : i >= nextId => seen[i] = NoRow
  <2>1. kept = posts /\ seen = posts
    BY DEF Init
  <2>2. \A i \in Ids : posts[i] \in RowsOf(i) \cup {NoRow}
    BY DEF Init
  <2>3. \A i \in Ids : i >= nextId => posts[i] = NoRow
    BY DEF Init, Ids
  <2> QED
    BY <2>1, <2>2, <2>3 DEF Init, Tables
<1>5. TypeOK
  <2>1. Cardinality(load.ids) = 0 /\ 0 <= PerPage
    BY <1>1, FS_EmptySet
  <2>2. likes \subseteq Users \X Ids
    <3>1. {1, MaxPosts} \subseteq Ids
      BY DEF Ids
    <3> QED
      BY <3>1 DEF Init
  <2>3. /\ posts \in [Ids -> Rows \cup {NoRow}] /\ nextId \in 1..MaxPosts + 1
        /\ viewer \in Users \cup {Anonymous}
    BY DEF Init
  <2>4. 0 \in 0..MaxThreadDepth /\ 0 \in 0..MaxPosts /\ 0 \in 0..MaxWrites /\ 0 \in 0..MaxFailures
    OBVIOUS
  <2> QED
    BY <1>1, <1>3, <2>1, <2>2, <2>3, <2>4 DEF TypeOK
<1>6. TablesInv
  BY <1>4 DEF TablesInv
<1>7. RecordsInv
  <2>1. pc = "single" => load.current \in Ids
    BY DEF Init, NothingLoaded
  <2> QED
    BY <1>1, <1>3, <2>1 DEF RecordsInv
<1>8. PageInv
  BY <1>1, <1>3 DEF PageInv
<1>9. LevelsInv /\ CountInv /\ NumbersInv
  BY <1>1 DEF LevelsInv, Listing, CountInv, Counted, NumbersInv
<1> QED
  BY <1>2, <1>5, <1>6, <1>7, <1>8, <1>9 DEF IInv

-----------------------------------------------------------------------------
(* Writes of others. *)

Writes == InsertPost \/ DeletePost \/ InsertLike \/ DeleteLike

Narrows ==
  /\ \A i \in Ids : kept'[i] \in {kept[i], NoRow} /\ seen[i] \in {seen'[i], NoRow}
  /\ writes' # 0
  /\ UNCHANGED <<pc, viewer, load, answer, failures>>

LEMMA WriteEffect ==
  TypeOK /\ TablesInv /\ Writes => TablesInv' /\ Narrows /\ TypeOK'
<1> SUFFICES ASSUME TypeOK, TablesInv, Writes PROVE TablesInv' /\ Narrows /\ TypeOK'
  OBVIOUS
<1> USE LoaderAssumption
<1>1. PICK t, l, n :
        /\ Write(t, l, n) /\ t \in Tables /\ l \subseteq Users \X Ids /\ n \in nextId..MaxPosts + 1
        /\ \A i \in Ids : t[i] = posts[i] \/ t[i] = NoRow \/ (i = nextId /\ n = nextId + 1)
  <2>1. CASE InsertPost
    <3>1. PICK r \in RowsOf(nextId) :
            nextId \in Ids /\ Write([posts EXCEPT ![nextId] = r], likes, nextId + 1)
      BY <2>1 DEF InsertPost
    <3>2. [posts EXCEPT ![nextId] = r] \in Tables
      BY <3>1 DEF TablesInv, Tables, Rows
    <3>3. nextId + 1 \in nextId..MaxPosts + 1 /\ likes \subseteq Users \X Ids
      BY <3>1 DEF TypeOK, Ids
    <3>4. \A i \in Ids : i = nextId \/ [posts EXCEPT ![nextId] = r][i] = posts[i]
      BY DEF TypeOK
    <3> QED
      BY <3>1, <3>2, <3>3, <3>4
  <2>2. CASE DeletePost
    <3>1. PICK j \in Present(posts) : Write([posts EXCEPT ![j] = NoRow], likes, nextId)
      BY <2>2 DEF DeletePost
    <3>2. [posts EXCEPT ![j] = NoRow] \in Tables
      BY <3>1 DEF TablesInv, Tables, Present
    <3>3. nextId \in nextId..MaxPosts + 1 /\ likes \subseteq Users \X Ids
      BY DEF TypeOK
    <3>4. \A i \in Ids : [posts EXCEPT ![j] = NoRow][i] = NoRow
                         \/ [posts EXCEPT ![j] = NoRow][i] = posts[i]
      BY DEF TypeOK
    <3> QED
      BY <3>1, <3>2, <3>3, <3>4
  <2>3. CASE InsertLike \/ DeleteLike
    <3>1. PICK l \in SUBSET (Users \X Ids) : Write(posts, l, nextId)
      BY <2>3 DEF InsertLike, DeleteLike, TypeOK
    <3>2. nextId \in nextId..MaxPosts + 1
      BY DEF TypeOK
    <3> QED
      BY <3>1, <3>2 DEF TablesInv
  <2> QED
    BY <2>1, <2>2, <2>3 DEF Writes
<1>2. /\ posts' = t /\ likes' = l /\ nextId' = n
      /\ writes' = writes + 1 /\ writes < MaxWrites
      /\ kept' = [i \in Ids |-> IF t[i] = NoRow THEN NoRow ELSE kept[i]]
      /\ seen' = [i \in Ids |-> IF t[i] = NoRow THEN seen[i] ELSE t[i]]
      /\ UNCHANGED <<pc, viewer, load, answer, failures>>
  BY <1>1 DEF Write
<1>3. writes \in Nat /\ writes + 1 \in 0..MaxWrites /\ writes + 1 # 0
  BY <1>2 DEF TypeOK
<1>4. kept' \in Tables /\ seen' \in Tables
  <2>1. \A i \in Ids : kept'[i] \in {kept[i], NoRow} /\ seen'[i] \in {seen[i], t[i]}
    BY <1>2
  <2>2. \A i \in Ids : /\ kept'[i] \in RowsOf(i) \cup {NoRow} /\ seen'[i] \in RowsOf(i) \cup {NoRow}
                       /\ kept'[i] \in Rows \cup {NoRow} /\ seen'[i] \in Rows \cup {NoRow}
    BY <1>1, <2>1 DEF TablesInv, Tables
  <2> QED
    BY <1>2, <2>2 DEF Tables
<1>5. Narrows
  <2> SUFFICES ASSUME NEW i \in Ids
               PROVE  kept'[i] \in {kept[i], NoRow} /\ seen[i] \in {seen'[i], NoRow}
    BY <1>2, <1>3 DEF Narrows
  <2>1. nextId \in Nat
    BY DEF TypeOK
  <2>2. i = nextId => seen[i] = NoRow
    BY <2>1 DEF TablesInv
  <2> QED
    BY <1>1, <1>2, <2>2 DEF TablesInv
<1>6. \A i \in Ids : kept'[i] \in {posts'[i], NoRow} /\ posts'[i] \in {seen'[i], NoRow}
  <2> SUFFICES ASSUME NEW i \in Ids
               PROVE  kept'[i] \in {posts'[i], NoRow} /\ posts'[i] \in {seen'[i], NoRow}
    OBVIOUS
  <2>1. nextId \in Nat
    BY DEF TypeOK
  <2>2. i = nextId => kept[i] = NoRow
    BY <2>1 DEF TablesInv
  <2> QED
    BY <1>1, <1>2, <2>2 DEF TablesInv
<1>7. \A i \in Ids : i >= nextId' => seen'[i] = NoRow
  <2> SUFFICES ASSUME NEW i \in Ids, i >= n PROVE seen'[i] = NoRow
    BY <1>2
  <2>1. nextId \in Nat /\ n \in Nat /\ i \in Nat /\ i >= nextId /\ ~(i = nextId /\ n = nextId + 1)
    BY <1>1 DEF TypeOK, Ids
  <2>2. seen[i] = NoRow /\ posts[i] = NoRow
    BY <2>1 DEF TablesInv
  <2> QED
    BY <1>1, <1>2, <2>1, <2>2
<1>8. TypeOK'
  <2>1. posts' \in [Ids -> Rows \cup {NoRow}]
    BY <1>1, <1>2 DEF Tables
  <2>2. nextId' \in 1..MaxPosts + 1
    BY <1>1, <1>2 DEF TypeOK
  <2> QED
    BY <1>1, <1>2, <1>3, <2>1, <2>2 DEF TypeOK
<1> QED
  BY <1>1, <1>2, <1>3, <1>4, <1>5, <1>6, <1>7, <1>8 DEF TablesInv

\* A narrower kept and a wider seen leave what is said of them true.
LEMMA WritesKeep == IInv /\ Writes => IInv'
<1> SUFFICES ASSUME IInv, Writes PROVE IInv'
  OBVIOUS
<1>1. TablesInv' /\ Narrows /\ TypeOK'
  BY WriteEffect DEF IInv
<1>2. /\ \A i \in Ids : kept'[i] \in {kept[i], NoRow} /\ seen[i] \in {seen'[i], NoRow}
      /\ writes' # 0 /\ pc' = pc /\ load' = load /\ answer' = answer /\ failures' = failures
  BY <1>1 DEF Narrows
<1>3. LoadInv'
  BY <1>2 DEF IInv, LoadInv
<1>4. DOMAIN load.records \subseteq Ids /\ \A i \in DOMAIN load.records : load.records[i] # NoRow
  <2>1. \A i \in DOMAIN load.records : i \in Ids /\ load.records[i] \in RowsOf(i)
    BY DEF IInv, TypeOK
  <2> QED
    BY <2>1, LoaderAssumption DEF RowsOf, NoRow, Plain, ReplyRows, RepostRows, Ids
<1>5. RecordsInv'
  BY <1>2, <1>4 DEF IInv, RecordsInv
<1>6. PageInv'
  <2>1. \A i \in Ids : Gone(i) => Gone(i)'
    BY <1>2 DEF Gone
  <2>2. load.ids \subseteq Ids
    BY DEF IInv, TypeOK
  <2> QED
    BY <1>2, <2>1, <2>2 DEF IInv, PageInv
<1>7. LevelsInv'
  <2>1. \A i \in Ids : Gone(i) => Gone(i)'
    BY <1>2 DEF Gone
  <2>2. OriginalsLoaded => OriginalsLoaded'
    <3>1. \A i \in DOMAIN load.records : load.records[i].original \in Ids \cup {0}
      <4>1. \A i \in DOMAIN load.records : i \in Ids /\ load.records[i] \in RowsOf(i)
        BY DEF IInv, TypeOK
      <4> QED
        BY <4>1, LoaderAssumption DEF RowsOf, Plain, ReplyRows, RepostRows, Ids
    <3> QED
      BY <1>2, <2>1, <3>1 DEF OriginalsLoaded
  <2>3. ASSUME NEW n \in Nat PROVE LevelsLoaded(n) => LevelsLoaded(n)'
    <3>1. ASSUME NEW k \in 0..n, NEW p \in RepostChains(kept, k)' PROVE p \in RepostChains(kept, k)
      <4>1. p \in [0..k -> Ids] /\ \A j \in 0..k - 1 : j \in 0..k
        BY DEF RepostChains
      <4> QED
        BY <1>2, <4>1 DEF RepostChains
    <3>2. \A k \in 0..n : \A p \in RepostChains(kept, k) : p[k] \in Ids
      BY DEF RepostChains
    <3> QED
      BY <1>2, <2>1, <3>1, <3>2 DEF LevelsLoaded
  <2>4. load.depth \in Nat /\ MaxThreadDepth \in Nat
    BY LoaderAssumption DEF IInv, TypeOK
  <2> QED
    BY <1>2, <2>2, <2>3, <2>4 DEF IInv, LevelsInv, Listing
<1>8. CountInv'
  <2>1. ASSUME NEW r \in Ids, NEW d \in Nat
        PROVE  Below(kept', r, d) \subseteq Below(kept, r, d)
    BY <1>2, BelowFewer
  <2>2. ASSUME NEW r \in Ids, NEW d \in Nat
        PROVE  Below(seen, r, d) \subseteq Below(seen', r, d)
    BY <1>2, BelowFewer
  <2>3. \A v \in load.visited \cup load.frontier : v[2] \in Ids
    BY <1>4 DEF IInv, TypeOK
  <2>4. load.depth \in Nat /\ MaxThreadDepth \in Nat /\ \A n \in Nat : 0..n \subseteq Nat
    BY LoaderAssumption DEF IInv, TypeOK
  <2> QED
    BY <1>2, <1>4, <2>1, <2>2, <2>3, <2>4 DEF IInv, CountInv, Counted
<1>9. NumbersInv'
  BY <1>2 DEF NumbersInv
<1> QED
  BY <1>1, <1>3, <1>5, <1>6, <1>7, <1>8, <1>9 DEF IInv

-----------------------------------------------------------------------------
(* The steps of a request. *)

LEMMA RecordFacts ==
  TypeOK => /\ DOMAIN load.records \subseteq Ids
            /\ \A i \in DOMAIN load.records :
                  load.records[i] # NoRow /\ load.records[i].original \in Ids \cup {0}
<1> SUFFICES ASSUME TypeOK, NEW i \in DOMAIN load.records
             PROVE  i \in Ids /\ load.records[i] # NoRow /\ load.records[i].original \in Ids \cup {0}
  OBVIOUS
<1>1. i \in Ids /\ load.records[i] \in RowsOf(i)
  BY DEF TypeOK
<1> QED
  BY <1>1, LoaderAssumption DEF RowsOf, NoRow, Plain, ReplyRows, RepostRows, Ids

LEMMA TablesStay == TablesInv /\ UNCHANGED table => TablesInv'
BY DEF TablesInv, table

\* The request ends, with an error or, where the code goes on without it, not.
LEMMA FailKeeps ==
  ASSUME IInv, NEW e \in {"500", "200"}, e = "200" => pc \in {"total", "single"},
         pc # "answered", Answer(e), failures' = failures + 1, failures < MaxFailures,
         UNCHANGED <<table, viewer, load>>
  PROVE  IInv'
<1>1. /\ pc' = "answered" /\ answer' = e /\ load' = load /\ kept' = kept /\ seen' = seen
      /\ posts' = posts /\ writes' = writes
  BY DEF Answer, table
<1>2. failures \in Nat /\ failures' # 0 /\ failures' \in 0..MaxFailures
  BY LoaderAssumption DEF IInv, TypeOK
<1>3. TypeOK'
  BY <1>1, <1>2 DEF IInv, TypeOK, table
<1>4. LoadInv' /\ TablesInv' /\ RecordsInv'
  BY <1>1, TablesStay DEF IInv, LoadInv, RecordsInv
<1>5. PageInv'
  BY <1>1, <1>2 DEF IInv, PageInv, RecordsInv, Gone
<1>6. LevelsInv'
  <2>1. OriginalsLoaded => OriginalsLoaded'
    BY <1>1 DEF OriginalsLoaded, Gone
  <2>2. LevelsLoaded(MaxThreadDepth) => LevelsLoaded(MaxThreadDepth)'
    BY <1>1 DEF LevelsLoaded, Gone
  <2>3. pc = "single" => load.pending = {} /\ OriginalsLoaded
    BY DEF IInv, RecordsInv, OriginalsLoaded
  <2> QED
    BY <1>1, <2>1, <2>2, <2>3 DEF IInv, LevelsInv, Listing
<1>7. CountInv'
  <2>1. pc = "single" => DOMAIN load.records = {}
    BY DEF IInv, RecordsInv
  <2> QED
    BY <1>1, <2>1 DEF IInv, CountInv, Counted
<1>8. NumbersInv'
  BY <1>2 DEF NumbersInv
<1> QED
  BY <1>3, <1>4, <1>5, <1>6, <1>7, <1>8 DEF IInv

\* What a SELECT that succeeds leaves alone.
Reads(label, Step) == pc = label /\ Step /\ UNCHANGED failures /\ UNCHANGED <<table, viewer>>

LEMMA ReadStays ==
  ASSUME UNCHANGED <<failures, table, viewer>>
  PROVE  /\ posts' = posts /\ nextId' = nextId /\ likes' = likes /\ kept' = kept /\ seen' = seen
         /\ writes' = writes /\ failures' = failures /\ viewer' = viewer
BY DEF table

\* What TypeOK says of the part of the state that a SELECT does not touch.
LEMMA TypeStays ==
  ASSUME TypeOK, UNCHANGED <<failures, table, viewer>>
  PROVE  /\ posts' \in [Ids -> Rows \cup {NoRow}] /\ nextId' \in 1..MaxPosts + 1
         /\ likes' \subseteq Users \X Ids /\ viewer' \in Users \cup {Anonymous}
         /\ writes' \in 0..MaxWrites /\ failures' \in 0..MaxFailures
BY DEF TypeOK, table

\* A page has at most PerPage posts: each has its own number of newer ones.
LEMMA PageSize ==
  ASSUME TypeOK, NEW b \in BOOLEAN, NEW n \in Nat \ {0}
  PROVE  /\ Page(b, n) \subseteq Listed(b) /\ Listed(b) \subseteq Present(posts)
         /\ Cardinality(Page(b, n)) <= PerPage
<1> DEFINE L == Listed(b)
           P == Page(b, n)
           Newer(i) == {j \in L : j > i}
           f == [i \in P |-> Cardinality(Newer(i))]
           R == (n - 1) * PerPage .. n * PerPage - 1
<1>1. L \subseteq Present(posts) /\ P \subseteq L /\ L \subseteq Ids
  BY DEF Listed, Page, Present
<1>2. PerPage \in Nat \ {0} /\ n * PerPage = (n - 1) * PerPage + PerPage /\ (n - 1) * PerPage \in Nat
  BY LoaderAssumption
<1>3. ASSUME NEW i \in P, NEW j \in P, i < j PROVE f[i] # f[j]
  <2>1. Newer(j) \subseteq Newer(i) /\ j \in Newer(i) /\ j \notin Newer(j)
    BY <1>1, <1>3, LoaderAssumption DEF Ids
  <2>2. Newer(i) \in SUBSET Ids
    BY <1>1
  <2>3. IsFiniteSet(Newer(i))
    BY <2>2, FiniteIds
  <2> HIDE DEF Newer
  <2>4. Cardinality(Newer(j)) # Cardinality(Newer(i))
    BY <2>1, <2>3, FS_Subset
  <2> QED
    BY <2>4
<1>4. f \in [P -> R]
  BY DEF Page
<1>5. f \in Injection(P, R)
  <2>1. \A i, j \in P : i = j \/ i < j \/ j < i
    BY <1>1, LoaderAssumption DEF Ids
  <2> HIDE DEF f, P, R
  <2>2. IsInjective(f)
    BY <1>3, <1>4, <2>1 DEF IsInjective
  <2> QED
    BY <1>4, <2>2 DEF Injection
<1>6. IsFiniteSet(R) /\ Cardinality(R) = PerPage
  <2>1. ASSUME NEW a \in Nat, NEW q \in Nat \ {0}
        PROVE  IsFiniteSet(a .. (a + q) - 1) /\ Cardinality(a .. (a + q) - 1) = q
    <3>1. a \in Int /\ (a + q) - 1 \in Int /\ ~(a > (a + q) - 1) /\ ((a + q) - 1) - a + 1 = q
      OBVIOUS
    <3> QED
      BY <3>1, FS_Interval
  <2>2. R = (n - 1) * PerPage .. ((n - 1) * PerPage + PerPage) - 1
    BY <1>2
  <2> HIDE DEF R
  <2> QED
    BY <1>2, <2>1, <2>2
<1>7. Cardinality(P) <= Cardinality(R)
  <2> HIDE DEF f, P, R
  <2> QED
    BY <1>5, <1>6, FS_Injection
<1> QED
  BY <1>1, <1>6, <1>7

LEMMA ListKeeps == IInv /\ Reads("list", List) => IInv'
<1> SUFFICES ASSUME IInv, Reads("list", List) PROVE IInv'
  OBVIOUS
<1>1. UNCHANGED <<failures, table, viewer>> /\ pc = "list" /\ List
  BY DEF Reads
<1>2. PICK n \in 1..MaxPosts, b \in BOOLEAN :
        /\ load' = [load EXCEPT !.replies = b, !.ids = Page(b, n), !.pending = Page(b, n)]
        /\ pc' = (IF Page(b, n) = {} THEN "total" ELSE "records") /\ answer' = answer
  BY <1>1 DEF List, Goto
<1> DEFINE page == Page(b, n)
<1>3. page \subseteq Present(posts) /\ page \subseteq Ids /\ Cardinality(page) <= PerPage
  BY PageSize, LoaderAssumption DEF IInv, Present
<1> HIDE DEF page
<1>4. /\ load'.replies = b /\ load'.ids = page /\ load'.records = load.records
      /\ load'.pending = page /\ load'.depth = load.depth /\ load'.frontier = load.frontier
      /\ load'.visited = load.visited /\ load'.targets = load.targets
      /\ load'.likedByMe = load.likedByMe /\ load'.total = load.total
      /\ load'.current = load.current /\ load'.likesCounts = load.likesCounts
  BY <1>2 DEF IInv, LoadInv, page
<1>5. DOMAIN load.records = {} /\ load.depth = 0 /\ answer = "none"
  BY <1>1 DEF IInv, RecordsInv, PageInv
<1>6. pc' = (IF page = {} THEN "total" ELSE "records") /\ answer' = "none"
  BY <1>2, <1>5 DEF page
<1>7. /\ posts' = posts /\ kept' = kept /\ seen' = seen /\ writes' = writes /\ failures' = failures
  BY <1>1, ReadStays
<1>8. TypeOK'
  BY <1>1, <1>3, <1>4, <1>6, TypeStays DEF IInv, TypeOK
<1>9. LoadInv'
  BY <1>2 DEF IInv, LoadInv
<1>10. TablesInv'
  BY <1>1, TablesStay DEF IInv
<1>11. RecordsInv'
  BY <1>4, <1>5, <1>6 DEF RecordsInv
<1>12. PageInv'
  BY <1>3, <1>4, <1>5, <1>6, <1>7 DEF PageInv
<1>13. LevelsInv'
  <2>1. OriginalsLoaded'
    BY <1>4, <1>5 DEF OriginalsLoaded
  <2>2. LevelsLoaded(0)'
    BY <1>4 DEF LevelsLoaded
  <2> QED
    BY <1>4, <1>5, <1>6, <2>1, <2>2 DEF LevelsInv, Listing
<1>14. CountInv' /\ NumbersInv'
  BY <1>4, <1>5, <1>6 DEF CountInv, Counted, NumbersInv
<1> QED
  BY <1>8, <1>9, <1>10, <1>11, <1>12, <1>13, <1>14 DEF IInv

LEMMA RecordsKeep == IInv /\ Reads("records", LoadRecords) => IInv'
<1> SUFFICES ASSUME IInv, Reads("records", LoadRecords) PROVE IInv'
  OBVIOUS
<1> DEFINE found == load.pending \cap Present(posts)
           R == DOMAIN load.records
           records == [i \in R \cup found |-> IF i \in found THEN posts[i] ELSE load.records[i]]
           next == {records[i].original : i \in found} \ ({0} \cup DOMAIN records)
           more == next # {} /\ load.depth < MaxThreadDepth
           all == load.ids \subseteq DOMAIN records
<1>1. UNCHANGED <<failures, table, viewer>> /\ pc = "records" /\ LoadRecords
  BY DEF Reads
<1>2. \/ /\ more /\ pc' = "records" /\ answer' = answer
         /\ load' = [load EXCEPT !.records = records, !.pending = next, !.depth = @ + 1]
      \/ /\ ~more /\ load' = [load EXCEPT !.records = records, !.pending = {}, !.depth = 0]
         /\ \/ all /\ pc' = "likes" /\ answer' = answer
            \/ ~all /\ pc' = "answered" /\ answer' = "500"
  BY <1>1 DEF LoadRecords, Goto, Answer
<1>3. /\ posts' = posts /\ kept' = kept /\ seen' = seen /\ writes' = writes /\ failures' = failures
  BY <1>1, ReadStays
<1>4. /\ R \subseteq Ids /\ load.pending \subseteq Ids /\ load.ids \subseteq Ids /\ found \subseteq Ids
      /\ \A i \in found : posts[i] # NoRow
      /\ \A i \in load.pending : i \in found \/ posts[i] = NoRow
  BY RecordFacts DEF IInv, TypeOK, Present
<1>5. /\ \A i \in Ids : kept[i] \in {posts[i], NoRow} /\ posts[i] \in {seen[i], NoRow}
      /\ posts \in Tables
  BY DEF IInv, TablesInv
<1>6. DOMAIN records = R \cup found /\ DOMAIN records \subseteq Ids
  BY <1>4
<1>7. \A i \in R \cup found :
        /\ records[i] \in RowsOf(i) /\ records[i] # NoRow /\ records[i] = seen[i]
        /\ records[i].original \in Ids \cup {0}
  <2>1. ASSUME NEW i \in found
        PROVE  posts[i] \in RowsOf(i) /\ posts[i] = seen[i] /\ posts[i].original \in Ids \cup {0}
    BY <1>4, <1>5, RowFacts
  <2>2. ASSUME NEW i \in R
        PROVE  load.records[i] \in RowsOf(i) /\ load.records[i] = seen[i]
    BY DEF IInv, TypeOK, RecordsInv
  <2> QED
    BY <1>4, <2>1, <2>2, RecordFacts DEF IInv
<1>8. next \subseteq Ids
  BY <1>7
<1>9. load.depth \in Nat /\ MaxThreadDepth \in Nat /\ load.depth <= MaxThreadDepth
  BY LoaderAssumption DEF IInv, TypeOK
<1>10. \A i \in load.pending : i \in found \/ Gone(i)
  BY <1>4, <1>5 DEF Gone
\* what holds of the records with the level that is found added
<1>11. ASSUME NEW i \in R \cup found
       PROVE  LET o == records[i].original IN o = 0 \/ Gone(o) \/ o \in R \cup found \cup next
  <2>1. CASE i \in found
    BY <1>6, <2>1
  <2>2. CASE i \notin found
    <3>1. i \in R /\ records[i] = load.records[i]
      BY <2>2
    <3>2. LET o == load.records[i].original IN o = 0 \/ Gone(o) \/ o \in R \cup load.pending
      BY <1>1, <3>1 DEF IInv, LevelsInv, OriginalsLoaded
    <3> QED
      BY <1>10, <3>1, <3>2
  <2> QED
    BY <2>1, <2>2
<1>12. ASSUME NEW k \in 0..load.depth, NEW p \in RepostChains(kept, k), p[0] \in load.ids
       PROVE  Gone(p[k]) \/ p[k] \in R \cup found
  <2>1. Gone(p[k]) \/ p[k] \in R \cup load.pending
    BY <1>1, <1>12 DEF IInv, LevelsInv, LevelsLoaded
  <2> QED
    BY <1>10, <2>1
<1>13. ASSUME NEW p \in RepostChains(kept, load.depth + 1), p[0] \in load.ids
       PROVE  Gone(p[load.depth + 1]) \/ p[load.depth + 1] \in R \cup found \cup next
  <2> DEFINE d == load.depth
             q == [k \in 0..d |-> p[k]]
  <2>1. d \in 0..d /\ d \in 0..(d + 1) - 1 /\ 0..d - 1 \subseteq 0..(d + 1) - 1 /\ 0..d \subseteq 0..d + 1
    BY <1>9
  <2>2. p \in [0..d + 1 -> Ids] /\ kept[p[d]] # NoRow /\ kept[p[d]].original = p[d + 1]
    BY <2>1 DEF RepostChains
  <2>3. q \in [0..d -> Ids]
    BY <2>1, <2>2
  <2>4. ASSUME NEW k \in 0..d - 1 PROVE kept[q[k]] # NoRow /\ kept[q[k]].original = q[k + 1]
    <3>1. k \in 0..d /\ k + 1 \in 0..d /\ k \in 0..(d + 1) - 1
      BY <1>9
    <3> QED
      BY <3>1 DEF RepostChains
  <2>5. q[0] \in load.ids /\ q[d] = p[d]
    BY <1>9, <1>13
  <2>6. q \in RepostChains(kept, d)
    <3> HIDE DEF q
    <3> QED
      BY <2>3, <2>4 DEF RepostChains
  <2>7. p[d] \in R \cup found
    <3>1. Gone(q[d]) \/ q[d] \in R \cup found
      <4> HIDE DEF q, found, R
      <4> QED
        BY <1>12, <2>1, <2>5, <2>6
    <3> QED
      BY <2>2, <2>5, <3>1 DEF Gone
  <2>8. p[d] \in Ids /\ p[d + 1] \in Ids /\ p[d + 1] # 0
    BY <1>9, <2>2, LoaderAssumption DEF Ids
  <2>9. records[p[d]].original = p[d + 1]
    <3>1. kept[p[d]] = seen[p[d]]
      BY <1>5, <2>2, <2>8
    <3> QED
      BY <1>7, <2>2, <2>7, <3>1
  <2> HIDE DEF records, next, found, R
  <2> QED
    BY <1>11, <2>7, <2>8, <2>9
<1> HIDE DEF found, R, records, next
<1>14. load'.records = records
       /\ load'.replies = load.replies /\ load'.ids = load.ids
       /\ load'.frontier = load.frontier /\ load'.visited = load.visited
       /\ load'.targets = load.targets /\ load'.likedByMe = load.likedByMe
       /\ load'.total = load.total /\ load'.current = load.current /\ LoadInv'
  BY <1>2 DEF IInv, LoadInv
<1>15. \/ /\ more /\ load'.pending = next /\ load'.depth = load.depth + 1
       \/ ~more /\ load'.pending = {} /\ load'.depth = 0
  BY <1>2 DEF IInv, LoadInv
<1>16. TypeOK'
  <2>1. load'.depth \in 0..MaxThreadDepth
    BY <1>9, <1>15
  <2>2. pc' \in {"records", "likes", "answered"} /\ answer' \in {"none", "200", "404", "500"}
    BY <1>2 DEF IInv, TypeOK
  <2>3. \A i \in DOMAIN load'.records : i \in Ids /\ load'.records[i] \in RowsOf(i)
    BY <1>6, <1>7, <1>14
  <2>4. load'.frontier \cup load'.visited \subseteq Ids \X DOMAIN load'.records
    <3>1. load.frontier \cup load.visited \subseteq Ids \X R
      BY DEF IInv, TypeOK, R
    <3> QED
      BY <1>6, <1>14, <3>1
  <2>5. load'.ids \subseteq Ids /\ Cardinality(load'.ids) <= PerPage
    BY <1>14 DEF IInv, TypeOK
  <2>6. load'.pending \cup load'.targets \cup load'.likedByMe \subseteq Ids
    BY <1>8, <1>14, <1>15 DEF IInv, TypeOK
  <2>7. load'.total \in 0..MaxPosts /\ load'.current \in 0..MaxPosts
    BY <1>14 DEF IInv, TypeOK
  <2> QED
    BY <1>1, <2>1, <2>2, <2>3, <2>4, <2>5, <2>6, <2>7, TypeStays DEF IInv, TypeOK
<1>17. TablesInv'
  BY <1>1, TablesStay DEF IInv
<1>18. RecordsInv'
  BY <1>2, <1>3, <1>6, <1>7, <1>14, <1>15 DEF RecordsInv
<1>19. PageInv'
  <2>1. \A i \in load.ids : i \in R \cup found \/ Gone(i)
    BY <1>1, <1>10 DEF IInv, PageInv, R
  <2>2. answer = "none" /\ (writes = 0 => load.ids \subseteq Present(posts))
    BY <1>1 DEF IInv, PageInv
  <2> QED
    BY <1>2, <1>3, <1>6, <1>14, <1>15, <2>1, <2>2 DEF PageInv, Gone
<1>20. LevelsInv'
  <2>1. CASE more
    <3>1. OriginalsLoaded'
      BY <1>3, <1>6, <1>11, <1>14, <1>15, <2>1 DEF OriginalsLoaded, Gone
    <3>2. PICK d : d = load.depth + 1
      OBVIOUS
    <3>3. LevelsLoaded(d)'
      <4>1. ASSUME NEW k \in 0..d, NEW p \in RepostChains(kept, k), p[0] \in load.ids
            PROVE  Gone(p[k]) \/ p[k] \in R \cup found \cup next
        <5>1. k = load.depth + 1 \/ k \in 0..load.depth
          BY <1>9, <3>2
        <5> QED
          BY <1>12, <1>13, <4>1, <5>1
      <4>2. DOMAIN load'.records \cup load'.pending = R \cup found \cup next
        BY <1>6, <1>14, <1>15, <2>1
      <4>3. \A i : Gone(i)' <=> Gone(i)
        BY <1>3 DEF Gone
      <4> QED
        BY <1>3, <1>14, <4>1, <4>2, <4>3 DEF LevelsLoaded
    <3>4. pc' = "records" /\ load'.depth = d /\ answer' = "none"
      BY <1>1, <1>2, <1>15, <2>1, <3>2 DEF IInv, PageInv
    <3> QED
      BY <3>1, <3>3, <3>4 DEF LevelsInv, Listing
  <2>2. CASE ~more
    <3>1. load'.pending = {} /\ pc' # "records"
      BY <1>2, <1>15, <2>2
    <3>2. CASE next = {}
      <4>1. OriginalsLoaded'
        BY <1>3, <1>6, <1>11, <1>14, <3>2 DEF OriginalsLoaded, Gone
      <4> QED
        BY <3>1, <4>1 DEF LevelsInv
    <3>3. CASE load.depth = MaxThreadDepth
      <4>1. LevelsLoaded(MaxThreadDepth)'
        BY <1>3, <1>6, <1>12, <1>14, <3>3 DEF LevelsLoaded, Gone
      <4> QED
        BY <3>1, <4>1 DEF LevelsInv
    <3> QED
      BY <1>9, <2>2, <3>2, <3>3
  <2> QED
    BY <2>1, <2>2
<1>21. CountInv' /\ NumbersInv'
  <2>1. answer = "none"
    BY <1>1 DEF IInv, PageInv
  <2> QED
    BY <1>2, <2>1 DEF CountInv, Counted, NumbersInv
<1> QED
  BY <1>14, <1>16, <1>17, <1>18, <1>19, <1>20, <1>21 DEF IInv

\* After the posts are loaded the records and the page stay as they are.
LEMMA LoadedStays ==
  ASSUME IInv, UNCHANGED <<failures, table, viewer>>,
         pc \in {"likes", "replies", "targets", "flags", "total"},
         load'.records = load.records, load'.ids = load.ids, load'.pending = load.pending,
         \/ pc' \in {"replies", "targets", "flags", "total"} /\ answer' = answer
         \/ pc' = "answered" /\ answer' = "200"
  PROVE  TablesInv' /\ RecordsInv' /\ PageInv' /\ LevelsInv'
<1>1. /\ posts' = posts /\ kept' = kept /\ seen' = seen /\ writes' = writes /\ failures' = failures
  BY ReadStays
<1>2. TablesInv'
  BY TablesStay DEF IInv
<1>3. answer = "none"
  BY DEF IInv, PageInv
<1>4. RecordsInv'
  BY <1>1 DEF IInv, RecordsInv
<1>5. \A i : Gone(i)' <=> Gone(i)
  BY <1>1 DEF Gone
<1>6. PageInv'
  <2>1. load.ids \subseteq DOMAIN load.records /\ (writes = 0 => load.ids \subseteq Present(posts))
    BY DEF IInv, PageInv
  <2> QED
    BY <1>1, <1>3, <2>1 DEF PageInv
<1>7. LevelsInv'
  <2>1. load.pending = {} /\ (OriginalsLoaded \/ LevelsLoaded(MaxThreadDepth))
    BY DEF IInv, LevelsInv, Listing
  <2>2. OriginalsLoaded => OriginalsLoaded'
    BY <1>5 DEF OriginalsLoaded
  <2>3. LevelsLoaded(MaxThreadDepth) => LevelsLoaded(MaxThreadDepth)'
    BY <1>1, <1>5 DEF LevelsLoaded
  <2> QED
    BY <1>3, <2>1, <2>2, <2>3 DEF LevelsInv
<1> QED
  BY <1>2, <1>4, <1>6, <1>7

LEMMA LikesKeep == IInv /\ Reads("likes", LoadLikes) => IInv'
<1> SUFFICES ASSUME IInv, Reads("likes", LoadLikes) PROVE IInv'
  OBVIOUS
<1> DEFINE R == DOMAIN load.records
           roots == {<<i, i>> : i \in R}
           counts == [i \in R |-> LikesOf(i)]
<1>1. UNCHANGED <<failures, table, viewer>> /\ pc = "likes" /\ LoadLikes
  BY DEF Reads
<1>2. /\ pc' = "replies" /\ answer' = answer
      /\ load' = [load EXCEPT !.likesCounts = counts, !.frontier = roots, !.visited = roots]
  BY <1>1 DEF LoadLikes, Goto
<1>3. /\ kept' = kept /\ seen' = seen /\ likes' = likes /\ writes' = writes /\ failures' = failures
  BY <1>1, ReadStays
<1>4. /\ load'.records = load.records /\ load'.ids = load.ids /\ load'.pending = load.pending
      /\ load'.depth = load.depth /\ load'.likesCounts = counts
      /\ load'.frontier = roots /\ load'.visited = roots
      /\ load'.targets = load.targets /\ load'.likedByMe = load.likedByMe
      /\ load'.total = load.total /\ load'.current = load.current /\ LoadInv'
  BY <1>2 DEF IInv, LoadInv
<1>5. load.depth = 0 /\ answer = "none" /\ R \subseteq Ids
  BY <1>1, RecordFacts DEF IInv, RecordsInv, PageInv
<1>6. TypeOK'
  <2>1. load'.frontier \cup load'.visited \subseteq Ids \X DOMAIN load'.records
    BY <1>4, <1>5
  <2> QED
    BY <1>1, <1>2, <1>4, <2>1, TypeStays DEF IInv, TypeOK
<1>7. TablesInv' /\ RecordsInv' /\ PageInv' /\ LevelsInv'
  BY <1>1, <1>2, <1>4, LoadedStays
<1>8. CountInv'
  <2>1. \A r \in R : Below(kept, r, 0) = {r} /\ Below(seen, r, 0) = {r}
    BY <1>5, BelowZero
  <2>2. 0 < MaxThreadDepth /\ 0..0 = {0}
    BY LoaderAssumption
  <2>3. \A v \in roots : v[1] \in Below(seen, v[2], 0)
    BY <2>1
  <2>4. \A r \in R : \A d \in 0..0 : \A c \in Below(kept, r, d) : <<c, r>> \in roots
    BY <2>1, <2>2
  <2> HIDE DEF roots, R
  <2>5. ~Counted'
    BY <1>2, <1>5 DEF Counted
  <2>6. load'.depth = 0 /\ DOMAIN load'.records = R
    BY <1>4, <1>5 DEF R
  <2> QED
    BY <1>2, <1>3, <1>4, <2>2, <2>3, <2>4, <2>5, <2>6 DEF CountInv
<1>9. NumbersInv'
  <2>1. counts = [i \in R |-> LikesOf(i)']
    BY <1>3 DEF LikesOf
  <2> QED
    BY <1>2, <1>4, <1>5, <2>1 DEF NumbersInv
<1> QED
  BY <1>4, <1>6, <1>7, <1>8, <1>9 DEF IInv

\* Where no reply is at one distance below a post, none is farther below it.
LEMMA NothingBelow ==
  ASSUME NEW t, NEW r \in Ids, NEW d \in Nat, Below(t, r, d) = {}
  PROVE  \A e \in Nat : d <= e => Below(t, r, e) = {}
<1> DEFINE S == {j \in Nat : Below(t, r, d + j) = {}}
<1>1. 0 \in S
  OBVIOUS
<1>2. ASSUME NEW j \in Nat, j \in S PROVE j + 1 \in S
  <2>1. d + (j + 1) = (d + j) + 1 /\ d + j \in Nat
    OBVIOUS
  <2>2. \A c : c \notin Below(t, r, (d + j) + 1)
    BY <1>2, <2>1, BelowNext
  <2> QED
    BY <2>1, <2>2
<1>3. Nat \subseteq S
  <2> HIDE DEF S
  <2> QED
    BY <1>1, <1>2, Induct
<1>4. ASSUME NEW e \in Nat, d <= e PROVE Below(t, r, e) = {}
  <2>1. e - d \in Nat /\ d + (e - d) = e
    BY <1>4
  <2>2. e - d \in S
    BY <1>3, <2>1
  <2> QED
    BY <2>1, <2>2
<1> QED
  BY <1>4

LEMMA RepliesKeep == IInv /\ Reads("replies", LoadReplies) => IInv'
<1> SUFFICES ASSUME IInv, Reads("replies", LoadReplies) PROVE IInv'
  OBVIOUS
<1> DEFINE R == DOMAIN load.records
           F == load.frontier
           V == load.visited
           level == {p \in Present(posts) \X R : <<posts[p[1]].parent, p[2]>> \in F} \ V
           more == level # {} /\ load.depth + 1 < MaxThreadDepth
<1>1. UNCHANGED <<failures, table, viewer>> /\ pc = "replies" /\ LoadReplies
  BY DEF Reads
<1>2. /\ answer' = answer
      /\ \/ /\ more /\ pc' = "replies"
            /\ load' = [load EXCEPT !.frontier = level, !.visited = @ \cup level, !.depth = @ + 1]
         \/ /\ ~more /\ pc' = "targets"
            /\ load' = [load EXCEPT !.frontier = {}, !.visited = @ \cup level, !.depth = 0]
  BY <1>1 DEF LoadReplies, Goto
<1>3. /\ posts' = posts /\ kept' = kept /\ seen' = seen /\ likes' = likes
      /\ writes' = writes /\ failures' = failures
  BY <1>1, ReadStays
<1>4. PICK D : D = load.depth
  OBVIOUS
<1>5. /\ D \in Nat /\ D < MaxThreadDepth /\ MaxThreadDepth \in Nat /\ answer = "none"
      /\ R \subseteq Ids /\ F \cup V \subseteq Ids \X R
  BY <1>1, <1>4, LoaderAssumption, RecordFacts DEF IInv, TypeOK, CountInv, PageInv
<1>6. /\ \A i \in Ids : kept[i] \in {posts[i], NoRow} /\ posts[i] \in {seen[i], NoRow}
      /\ \A i \in Ids : kept[i] \in {seen[i], NoRow}
      /\ seen \in Tables
  BY DEF IInv, TablesInv
<1>7. /\ \A v \in V : \E d \in 0..D : v[1] \in Below(seen, v[2], d)
      /\ \A v \in F : v[1] \in Below(seen, v[2], D)
      /\ \A r \in R : \A d \in 0..D : \A c \in Below(kept, r, d) :
            <<c, r>> \in V /\ (d = D => <<c, r>> \in F)
  BY <1>1, <1>4 DEF IInv, CountInv
<1>8. level \subseteq Ids \X R
  BY DEF Present
\* what the level adds is one farther below, ...
<1>9. ASSUME NEW v \in level PROVE v[1] \in Below(seen, v[2], D + 1)
  <2>1. /\ v[1] \in Present(posts) /\ v[2] \in R /\ <<posts[v[1]].parent, v[2]>> \in F
    OBVIOUS
  <2>2. posts[v[1]].parent \in Below(seen, v[2], D)
    BY <1>7, <2>1
  <2>3. v[1] \in Ids /\ posts[v[1]] # NoRow /\ v[2] \in Ids
    BY <1>5, <2>1 DEF Present
  <2>4. seen[v[1]] = posts[v[1]]
    BY <1>6, <2>3
  <2>5. v[1] \in Present(seen)
    BY <2>3, <2>4 DEF Present
  <2> QED
    BY <1>5, <2>2, <2>3, <2>4, <2>5, BelowNext
\* ... and it is all that is there throughout.
<1>10. ASSUME NEW r \in R, NEW c \in Below(kept, r, D + 1) PROVE <<c, r>> \in level
  <2>0. r \in Ids
    BY <1>5
  <2>1. PICK b \in Below(kept, r, D) : c \in Present(kept) /\ kept[c].parent = b
    BY <1>5, <2>0, BelowNext
  <2>2. c \in Ids /\ kept[c] # NoRow /\ posts[c] = kept[c]
    BY <1>6, <2>1 DEF Present
  <2>3. c \in Present(posts) /\ posts[c].parent = b
    BY <2>1, <2>2 DEF Present
  <2>4. <<b, r>> \in F
    BY <1>5, <1>7
  <2>5. ASSUME <<c, r>> \in V PROVE FALSE
    <3>1. PICK d \in 0..D : c \in Below(seen, r, d)
      BY <1>7, <2>5
    <3>2. D + 1 \in Nat /\ d \in Nat /\ d # D + 1
      BY <1>5
    <3>3. c \in Below(seen, r, D + 1)
      BY <1>6, <2>0, <3>2, BelowFewer
    <3> QED
      BY <1>6, <3>1, <3>2, <3>3, BelowOnce
  <2> QED
    BY <2>3, <2>4, <2>5
<1> HIDE DEF level, R, F, V
<1>11. /\ load'.records = load.records /\ load'.ids = load.ids /\ load'.pending = load.pending
       /\ load'.visited = V \cup level /\ load'.targets = load.targets
       /\ load'.likedByMe = load.likedByMe /\ load'.likesCounts = load.likesCounts
       /\ load'.total = load.total /\ load'.current = load.current /\ LoadInv'
  BY <1>2 DEF IInv, LoadInv, V
<1>12. \/ more /\ load'.frontier = level /\ load'.depth = D + 1 /\ pc' = "replies"
       \/ ~more /\ load'.frontier = {} /\ load'.depth = 0 /\ pc' = "targets"
  BY <1>2, <1>4 DEF IInv, LoadInv
<1>13. TypeOK'
  <2>1. load'.frontier \cup load'.visited \subseteq Ids \X DOMAIN load'.records
    BY <1>5, <1>8, <1>11, <1>12 DEF R
  <2>2. load'.depth \in 0..MaxThreadDepth
    BY <1>5, <1>12
  <2> QED
    BY <1>1, <1>2, <1>11, <2>1, <2>2, TypeStays DEF IInv, TypeOK
<1>14. TablesInv' /\ RecordsInv' /\ PageInv' /\ LevelsInv'
  BY <1>1, <1>2, <1>11, LoadedStays
<1>15. CountInv'
  <2>1. ASSUME NEW v \in V \cup level PROVE \E d \in 0..D + 1 : v[1] \in Below(seen, v[2], d)
    <3>1. 0..D \subseteq 0..D + 1 /\ D + 1 \in 0..D + 1
      BY <1>5
    <3> QED
      BY <1>7, <1>9, <3>1
  <2>2. ASSUME NEW r \in R, NEW d \in 0..D + 1, NEW c \in Below(kept, r, d)
        PROVE  <<c, r>> \in V \cup level /\ (d = D + 1 => <<c, r>> \in level)
    <3>1. d \in 0..D \/ d = D + 1
      BY <1>5
    <3>2. CASE d \in 0..D
      <4>1. d # D + 1
        BY <1>5, <3>2
      <4> QED
        BY <1>7, <3>2, <4>1
    <3>3. CASE d = D + 1
      BY <1>10, <3>3
    <3> QED
      BY <3>1, <3>2, <3>3
  <2>3. CASE more
    <3>1. load'.depth = D + 1 /\ load'.frontier = level /\ load'.visited = V \cup level
          /\ pc' = "replies" /\ DOMAIN load'.records = R /\ D + 1 < MaxThreadDepth /\ answer' = "none"
      BY <1>2, <1>4, <1>5, <1>11, <1>12, <2>3 DEF R
    <3>2. ~Counted'
      BY <3>1 DEF Counted
    <3> QED
      BY <1>3, <1>9, <2>1, <2>2, <3>1, <3>2 DEF CountInv
  <2>4. CASE ~more
    <3>1. load'.visited = V \cup level /\ pc' = "targets" /\ DOMAIN load'.records = R
      BY <1>11, <1>12, <2>4 DEF R
    <3>2. 0..D + 1 \subseteq 0..MaxThreadDepth
      BY <1>5
    <3>3. ASSUME NEW r \in R, NEW d \in 0..MaxThreadDepth, NEW c \in Below(kept, r, d)
          PROVE  <<c, r>> \in V \cup level
      <4>1. CASE d \in 0..D + 1
        BY <2>2, <4>1
      <4>2. CASE d \notin 0..D + 1
        <5>1. D + 1 \in Nat /\ d \in Nat /\ D + 1 <= d /\ level = {}
          BY <1>4, <1>5, <2>4, <4>2
        <5>2. Below(kept, r, D + 1) = {} /\ r \in Ids
          BY <1>5, <1>10, <5>1
        <5> QED
          BY <5>1, <5>2, NothingBelow
      <4> QED
        BY <4>1, <4>2
    <3>4. ASSUME NEW v \in V \cup level
          PROVE  \E d \in 0..MaxThreadDepth : v[1] \in Below(seen, v[2], d)
      BY <2>1, <3>2
    <3> QED
      BY <1>3, <3>1, <3>3, <3>4 DEF CountInv
  <2> QED
    BY <2>3, <2>4
<1>16. NumbersInv'
  <2>1. writes = 0 /\ failures = 0 /\ load.ids # {} => load.likesCounts = [i \in DOMAIN load.records |-> LikesOf(i)]
    BY <1>1 DEF IInv, NumbersInv
  <2>2. \A i : LikesOf(i)' = LikesOf(i)
    BY <1>3 DEF LikesOf
  <2> QED
    BY <1>2, <1>3, <1>5, <1>11, <2>1, <2>2 DEF NumbersInv
<1> QED
  BY <1>11, <1>13, <1>14, <1>15, <1>16 DEF IInv

\* The replies are counted: the number of a post stays what it is.
LEMMA CountStays ==
  ASSUME IInv, UNCHANGED <<failures, table, viewer>>, Counted, pc' # "replies",
         load'.records = load.records, load'.visited = load.visited
  PROVE  CountInv'
BY ReadStays DEF IInv, CountInv

LEMMA TargetsKeep == IInv /\ Reads("targets", LoadTargets) => IInv'
<1> SUFFICES ASSUME IInv, Reads("targets", LoadTargets) PROVE IInv'
  OBVIOUS
<1> DEFINE found == Parents \cap Present(posts)
<1>1. UNCHANGED <<failures, table, viewer>> /\ pc = "targets" /\ LoadTargets
  BY DEF Reads
<1>2. pc' = "flags" /\ answer' = answer /\ load' = [load EXCEPT !.targets = found]
  BY <1>1 DEF LoadTargets, Goto
<1>3. /\ posts' = posts /\ likes' = likes /\ writes' = writes /\ failures' = failures
      /\ found \subseteq Ids
  BY <1>1, ReadStays DEF Present
<1>4. /\ load'.records = load.records /\ load'.ids = load.ids /\ load'.pending = load.pending
      /\ load'.depth = load.depth /\ load'.likesCounts = load.likesCounts
      /\ load'.frontier = load.frontier /\ load'.visited = load.visited
      /\ load'.targets = found /\ load'.likedByMe = load.likedByMe
      /\ load'.total = load.total /\ load'.current = load.current /\ LoadInv'
  BY <1>2 DEF IInv, LoadInv
<1>5. answer = "none"
  BY <1>1 DEF IInv, PageInv
<1>6. found = (Parents \cap Present(posts))'
  BY <1>3, <1>4 DEF Parents
<1> HIDE DEF found
<1>7. TypeOK'
  BY <1>1, <1>2, <1>3, <1>4, TypeStays DEF IInv, TypeOK
<1>8. TablesInv' /\ RecordsInv' /\ PageInv' /\ LevelsInv'
  BY <1>1, <1>2, <1>4, LoadedStays
<1>9. CountInv'
  BY <1>1, <1>2, <1>4, CountStays DEF Counted
<1>10. NumbersInv'
  <2>1. writes = 0 /\ failures = 0 /\ load.ids # {} => load.likesCounts = [i \in DOMAIN load.records |-> LikesOf(i)]
    BY <1>1 DEF IInv, NumbersInv
  <2>2. \A i : LikesOf(i)' = LikesOf(i)
    BY <1>3 DEF LikesOf
  <2> QED
    BY <1>2, <1>3, <1>4, <1>5, <1>6, <2>1, <2>2 DEF NumbersInv
<1> QED
  BY <1>4, <1>7, <1>8, <1>9, <1>10 DEF IInv

LEMMA FlagsKeep == IInv /\ Reads("flags", LoadFlags) => IInv'
<1> SUFFICES ASSUME IInv, Reads("flags", LoadFlags) PROVE IInv'
  OBVIOUS
<1> DEFINE liked == {i \in DOMAIN load.records : <<viewer, i>> \in likes}
<1>1. UNCHANGED <<failures, table, viewer>> /\ pc = "flags" /\ LoadFlags
  BY DEF Reads
<1>2. pc' = "total" /\ answer' = answer /\ load' = [load EXCEPT !.likedByMe = liked]
  BY <1>1 DEF LoadFlags, Goto
<1>3. /\ posts' = posts /\ likes' = likes /\ writes' = writes /\ failures' = failures
      /\ viewer' = viewer
  BY <1>1, ReadStays
<1>4. /\ load'.records = load.records /\ load'.ids = load.ids /\ load'.pending = load.pending
      /\ load'.depth = load.depth /\ load'.likesCounts = load.likesCounts
      /\ load'.frontier = load.frontier /\ load'.visited = load.visited
      /\ load'.targets = load.targets /\ load'.likedByMe = liked
      /\ load'.total = load.total /\ load'.current = load.current /\ LoadInv'
  BY <1>2 DEF IInv, LoadInv
<1>5. answer = "none" /\ liked \subseteq Ids
  BY <1>1, RecordFacts DEF IInv, PageInv
<1>6. liked = {i \in DOMAIN load.records : <<viewer, i>> \in likes}'
  BY <1>3, <1>4
<1> HIDE DEF liked
<1>7. TypeOK'
  BY <1>1, <1>2, <1>4, <1>5, TypeStays DEF IInv, TypeOK
<1>8. TablesInv' /\ RecordsInv' /\ PageInv' /\ LevelsInv'
  BY <1>1, <1>2, <1>4, LoadedStays
<1>9. CountInv'
  BY <1>1, <1>2, <1>4, CountStays DEF Counted
<1>10. NumbersInv'
  <2>1. writes = 0 /\ failures = 0 /\ load.ids # {} =>
          /\ load.likesCounts = [i \in DOMAIN load.records |-> LikesOf(i)]
          /\ load.targets = Parents \cap Present(posts)
    BY <1>1 DEF IInv, NumbersInv
  <2>2. (\A i : LikesOf(i)' = LikesOf(i)) /\ Parents' = Parents
    BY <1>3, <1>4 DEF LikesOf, Parents
  <2> QED
    BY <1>2, <1>3, <1>4, <1>5, <1>6, <2>1, <2>2 DEF NumbersInv
<1> QED
  BY <1>4, <1>7, <1>8, <1>9, <1>10 DEF IInv

LEMMA TotalKeep == IInv /\ Reads("total", LoadTotal) => IInv'
<1> SUFFICES ASSUME IInv, Reads("total", LoadTotal) PROVE IInv'
  OBVIOUS
<1> DEFINE total == Cardinality(Listed(load.replies))
<1>1. UNCHANGED <<failures, table, viewer>> /\ pc = "total" /\ LoadTotal
  BY DEF Reads
<1>2. pc' = "answered" /\ answer' = "200" /\ load' = [load EXCEPT !.total = total]
  BY <1>1 DEF LoadTotal, Answer
<1>3. /\ posts' = posts /\ likes' = likes /\ writes' = writes /\ failures' = failures
      /\ viewer' = viewer
  BY <1>1, ReadStays
<1>4. /\ load'.records = load.records /\ load'.ids = load.ids /\ load'.pending = load.pending
      /\ load'.depth = load.depth /\ load'.likesCounts = load.likesCounts
      /\ load'.frontier = load.frontier /\ load'.visited = load.visited
      /\ load'.targets = load.targets /\ load'.likedByMe = load.likedByMe
      /\ load'.total = total /\ load'.current = load.current /\ LoadInv'
      /\ load'.replies = load.replies
  BY <1>2 DEF IInv, LoadInv
<1>5. total \in 0..MaxPosts
  <2>1. Listed(load.replies) \in SUBSET Ids
    BY DEF Listed, Present
  <2> QED
    BY <2>1, FiniteIds
<1>6. total = Cardinality(Listed(load.replies))'
  BY <1>3, <1>4 DEF Listed
<1> HIDE DEF total
<1>7. TypeOK'
  BY <1>1, <1>2, <1>4, <1>5, TypeStays DEF IInv, TypeOK
<1>8. TablesInv' /\ RecordsInv' /\ PageInv' /\ LevelsInv'
  BY <1>1, <1>2, <1>4, LoadedStays
<1>9. CountInv'
  BY <1>1, <1>2, <1>4, CountStays DEF Counted
<1>10. NumbersInv'
  <2>1. writes = 0 /\ failures = 0 /\ load.ids # {} =>
          /\ load.likesCounts = [i \in DOMAIN load.records |-> LikesOf(i)]
          /\ load.targets = Parents \cap Present(posts)
          /\ load.likedByMe = {i \in DOMAIN load.records : <<viewer, i>> \in likes}
    BY <1>1 DEF IInv, NumbersInv
  <2>2. (\A i : LikesOf(i)' = LikesOf(i)) /\ Parents' = Parents
    BY <1>3, <1>4 DEF LikesOf, Parents
  <2> QED
    BY <1>2, <1>3, <1>4, <1>6, <2>1, <2>2 DEF NumbersInv
<1> QED
  BY <1>4, <1>7, <1>8, <1>9, <1>10 DEF IInv

LEMMA SingleKeep == IInv /\ Reads("single", FetchPost) => IInv'
<1> SUFFICES ASSUME IInv, Reads("single", FetchPost) PROVE IInv'
  OBVIOUS
<1>1. UNCHANGED <<failures, table, viewer>> /\ pc = "single" /\ FetchPost
  BY DEF Reads
<1>2. /\ posts' = posts /\ kept' = kept /\ seen' = seen /\ likes' = likes /\ writes' = writes
      /\ failures' = failures
  BY <1>1, ReadStays
<1>3. load.ids = {} /\ load.pending = {} /\ DOMAIN load.records = {} /\ answer = "none"
  BY <1>1 DEF IInv, RecordsInv, PageInv
<1>4. load.current \in Ids
  BY <1>1 DEF IInv, RecordsInv
<1>5. \/ pc' = "answered" /\ answer' \in {"200", "404"} /\ load' = load
      \/ /\ pc' = "single" /\ answer' = answer
         /\ \E i \in Ids : load' = [load EXCEPT !.current = i, !.depth = 1]
  <2> DEFINE row == posts[load.current]
  <2>1. row # NoRow => row.original \in Ids \cup {0}
    BY <1>4, RowFacts DEF IInv, TablesInv
  <2> QED
    BY <1>1, <2>1 DEF FetchPost, Answer, Goto
<1>6. /\ load'.records = load.records /\ load'.ids = load.ids /\ load'.pending = load.pending
      /\ load'.likesCounts = load.likesCounts
      /\ load'.frontier = load.frontier /\ load'.visited = load.visited
      /\ load'.targets = load.targets /\ load'.likedByMe = load.likedByMe
      /\ load'.total = load.total /\ LoadInv'
      /\ load'.current \in Ids /\ load'.depth \in {load.depth, 1}
  BY <1>4, <1>5 DEF IInv, LoadInv
<1>7. TypeOK'
  <2>1. load'.depth \in 0..MaxThreadDepth /\ load'.current \in 0..MaxPosts
    BY <1>6, LoaderAssumption DEF IInv, TypeOK, Ids
  <2>2. pc' \in {"single", "answered"} /\ answer' \in {"none", "200", "404"}
    BY <1>3, <1>5
  <2> QED
    BY <1>1, <1>6, <2>1, <2>2, TypeStays DEF IInv, TypeOK
<1>8. TablesInv'
  BY <1>1, TablesStay DEF IInv
<1>9. RecordsInv' /\ PageInv'
  BY <1>2, <1>3, <1>5, <1>6 DEF RecordsInv, PageInv
<1>10. LevelsInv'
  <2>1. OriginalsLoaded'
    BY <1>3, <1>6 DEF OriginalsLoaded
  <2> QED
    BY <1>3, <1>5, <1>6, <2>1 DEF LevelsInv
<1>11. CountInv' /\ NumbersInv'
  BY <1>3, <1>5, <1>6 DEF CountInv, Counted, NumbersInv
<1> QED
  BY <1>6, <1>7, <1>8, <1>9, <1>10, <1>11 DEF IInv

LEMMA NextIInv == IInv /\ [Next]_vars => IInv'
<1> SUFFICES ASSUME IInv, [Next]_vars PROVE IInv'
  OBVIOUS
<1>1. CASE Request
  <2>1. CASE Select("list", List, "500")
    <3>1. CASE Reads("list", List)
      BY <3>1, ListKeeps
    <3>2. CASE ~Reads("list", List)
      BY <2>1, <3>2, FailKeeps DEF Select, Reads
    <3> QED
      BY <3>1, <3>2
  <2>2. CASE Select("records", LoadRecords, "500")
    <3>1. CASE Reads("records", LoadRecords)
      BY <3>1, RecordsKeep
    <3>2. CASE ~Reads("records", LoadRecords)
      BY <2>2, <3>2, FailKeeps DEF Select, Reads
    <3> QED
      BY <3>1, <3>2
  <2>3. CASE Select("likes", LoadLikes, "500")
    <3>1. CASE Reads("likes", LoadLikes)
      BY <3>1, LikesKeep
    <3>2. CASE ~Reads("likes", LoadLikes)
      BY <2>3, <3>2, FailKeeps DEF Select, Reads
    <3> QED
      BY <3>1, <3>2
  <2>4. CASE Select("replies", LoadReplies, "500")
    <3>1. CASE Reads("replies", LoadReplies)
      BY <3>1, RepliesKeep
    <3>2. CASE ~Reads("replies", LoadReplies)
      BY <2>4, <3>2, FailKeeps DEF Select, Reads
    <3> QED
      BY <3>1, <3>2
  <2>5. CASE Select("targets", LoadTargets, "500")
    <3>1. CASE Reads("targets", LoadTargets)
      BY <3>1, TargetsKeep
    <3>2. CASE ~Reads("targets", LoadTargets)
      BY <2>5, <3>2, FailKeeps DEF Select, Reads
    <3> QED
      BY <3>1, <3>2
  <2>6. CASE Select("flags", LoadFlags, "500")
    <3>1. CASE Reads("flags", LoadFlags)
      BY <3>1, FlagsKeep
    <3>2. CASE ~Reads("flags", LoadFlags)
      BY <2>6, <3>2, FailKeeps DEF Select, Reads
    <3> QED
      BY <3>1, <3>2
  <2>7. CASE Select("total", LoadTotal, "200")
    <3>1. CASE Reads("total", LoadTotal)
      BY <3>1, TotalKeep
    <3>2. CASE ~Reads("total", LoadTotal)
      BY <2>7, <3>2, FailKeeps DEF Select, Reads
    <3> QED
      BY <3>1, <3>2
  <2>8. CASE Select("single", FetchPost, IF load.depth = 0 THEN "500" ELSE "200")
    <3>1. CASE Reads("single", FetchPost)
      BY <3>1, SingleKeep
    <3>2. CASE ~Reads("single", FetchPost)
      <4>1. CASE load.depth = 0
        BY <2>8, <3>2, <4>1, FailKeeps DEF Select, Reads
      <4>2. CASE load.depth # 0
        BY <2>8, <3>2, <4>2, FailKeeps DEF Select, Reads
      <4> QED
        BY <4>1, <4>2
    <3> QED
      BY <3>1, <3>2
  <2> QED
    BY <1>1, <2>1, <2>2, <2>3, <2>4, <2>5, <2>6, <2>7, <2>8 DEF Request
<1>2. CASE InsertPost \/ DeletePost \/ InsertLike \/ DeleteLike
  BY <1>2, WritesKeep DEF Writes
<1>3. CASE UNCHANGED vars
  BY <1>3 DEF vars, table, IInv, TypeOK, LoadInv, TablesInv, RecordsInv, PageInv, LevelsInv, CountInv,
    NumbersInv, Listing, Counted, OriginalsLoaded, LevelsLoaded, Gone, Parents, LikesOf, Listed, Present
<1> QED
  BY <1>1, <1>2, <1>3 DEF Next

LEMMA Invariance == Spec => []IInv
<1> QED
  BY InitIInv, NextIInv, PTL DEF Spec

-----------------------------------------------------------------------------
(* What the lists return. *)

\* The replies counted for a post of an answer: what stayed below it was counted, and
\* what was counted was below it.
LEMMA Bracket ==
  ASSUME IInv, answer = "200", NEW r \in DOMAIN load.records
  PROVE  /\ CountReplies(kept)[r] \in Nat /\ ReplyCount(r) \in Nat /\ CountReplies(seen)[r] \in Nat
         /\ CountReplies(kept)[r] <= ReplyCount(r) /\ ReplyCount(r) <= CountReplies(seen)[r]
<1> DEFINE V == {v \in load.visited : v[2] = r}
           C == {c \in Ids : <<c, r>> \in load.visited}
           K == Descendants(kept, r, MaxThreadDepth)
           S == Descendants(seen, r, MaxThreadDepth)
<1>1. /\ r \in Ids /\ kept \in Tables /\ seen \in Tables
      /\ load.visited \subseteq Ids \X DOMAIN load.records
  BY RecordFacts DEF IInv, TypeOK, TablesInv
<1>2. /\ \A d \in 0..MaxThreadDepth : \A c \in Below(kept, r, d) : <<c, r>> \in load.visited
      /\ \A v \in load.visited : \E d \in 0..MaxThreadDepth : v[1] \in Below(seen, v[2], d)
  BY DEF IInv, CountInv, Counted
<1>3. r \in C
  <2>1. r \in Below(kept, r, 0) /\ 0 \in 0..MaxThreadDepth
    BY <1>1, BelowZero, LoaderAssumption
  <2> QED
    BY <1>1, <1>2, <2>1
<1>4. K \subseteq C \ {r}
  <2> SUFFICES ASSUME NEW c \in K PROVE c \in C \ {r}
    OBVIOUS
  <2>1. PICK e \in 1..MaxThreadDepth : c \in Below(kept, r, e)
    BY DEF Descendants
  <2>2. e \in 0..MaxThreadDepth /\ e \in Nat \ {0}
    BY LoaderAssumption
  <2>3. c \in Ids /\ <<c, r>> \in load.visited
    BY <1>2, <2>1, <2>2 DEF Descendants
  <2>4. r < c
    BY <1>1, <2>1, <2>2, BelowLater
  <2>5. r # c
    BY <1>1, <2>4, LoaderAssumption DEF Ids
  <2> QED
    BY <2>3, <2>5
<1>5. C \ {r} \subseteq S
  <2> SUFFICES ASSUME NEW c \in C \ {r} PROVE c \in S
    OBVIOUS
  <2>1. PICK d \in 0..MaxThreadDepth : c \in Below(seen, r, d)
    BY <1>2
  <2>2. d # 0
    BY <1>1, <2>1, BelowZero
  <2>3. d \in 1..MaxThreadDepth
    BY <2>2, LoaderAssumption
  <2> QED
    BY <2>1, <2>3 DEF Descendants
<1>6. IsFiniteSet(C) /\ Cardinality(C) \in Nat /\ Cardinality(V) = Cardinality(C)
  <2>1. IsFiniteSet(C) /\ Cardinality(C) \in Nat
    <3>1. C \in SUBSET Ids
      OBVIOUS
    <3>2. IsFiniteSet(C)
      BY <3>1, FiniteIds
    <3> QED
      BY <3>2, FS_CardinalityType
  <2> DEFINE f == [c \in C |-> <<c, r>>]
  <2>2. f \in [C -> V]
    OBVIOUS
  <2>3. \A v \in V : v[1] \in C /\ f[v[1]] = v
    BY <1>1
  <2>4. f \in Bijection(C, V)
    <3>1. \A a, b \in C : f[a] = f[b] => a = b
      OBVIOUS
    <3> HIDE DEF f, C, V
    <3> QED
      BY <2>2, <2>3, <3>1 DEF Bijection, Injection, IsInjective, Surjection
  <2>5. ExistsBijection(C, V)
    BY <2>4 DEF ExistsBijection
  <2> HIDE DEF C, V
  <2> QED
    BY <2>1, <2>5, FS_Bijection
<1>7. ReplyCount(r) = Cardinality(C \ {r})
  <2>1. Cardinality(C \ {r}) = Cardinality(C) - 1
    BY <1>3, <1>6, FS_RemoveElement
  <2> QED
    BY <1>6, <2>1 DEF ReplyCount
<1>8. IsFiniteSet(S) /\ IsFiniteSet(C \ {r}) /\ IsFiniteSet(K)
  <2>1. S \in SUBSET Ids /\ C \ {r} \in SUBSET Ids /\ K \in SUBSET Ids
    BY DEF Descendants
  <2> HIDE DEF S, C, K
  <2> QED
    BY <2>1, FiniteIds
<1>9. /\ Cardinality(K) <= Cardinality(C \ {r}) /\ Cardinality(C \ {r}) <= Cardinality(S)
      /\ Cardinality(K) \in Nat /\ Cardinality(C \ {r}) \in Nat /\ Cardinality(S) \in Nat
  <2> HIDE DEF S, C, K
  <2>1. Cardinality(K) <= Cardinality(C \ {r})
    BY <1>4, <1>8, FS_Subset
  <2>2. Cardinality(C \ {r}) <= Cardinality(S)
    BY <1>5, <1>8, FS_Subset
  <2> QED
    BY <1>8, <2>1, <2>2, FS_CardinalityType
<1>10. CountReplies(kept)[r] = Cardinality(K) /\ CountReplies(seen)[r] = Cardinality(S)
  BY <1>1, CountIs
<1> QED
  BY <1>7, <1>9, <1>10

\* build, one post further in
NestedStep(records, above) ==
  LET o == records[Last(above)].original
  IN  IF o \in DOMAIN records \ Range(above) THEN Append(above, o) ELSE above

Nested(f, records, i, m) ==
  f = [n \in 0..m |-> IF n = 0 THEN <<i>> ELSE NestedStep(records, f[n - 1])]

LEMMA BuildIs ==
  ASSUME NEW records, NEW i
  PROVE  \E f : /\ f[0] = <<i>> /\ Build(records, i) = f[MaxPosts]
                /\ \A n \in 1..MaxPosts : f[n] = NestedStep(records, f[n - 1])
<1> DEFINE S == {m \in Nat : \E f : Nested(f, records, i, m)}
<1>1. 0 \in S
  <2> DEFINE f == [n \in 0..0 |-> <<i>>]
  <2>1. Nested(f, records, i, 0)
    BY DEF Nested
  <2> QED
    BY <2>1
<1>2. ASSUME NEW m \in Nat, m \in S PROVE m + 1 \in S
  <2>1. PICK f : Nested(f, records, i, m)
    BY <1>2
  <2> DEFINE g == [n \in 0..m + 1 |-> IF n = m + 1 THEN NestedStep(records, f[m]) ELSE f[n]]
             Level(n) == IF n = 0 THEN <<i>> ELSE NestedStep(records, f[n - 1])
             Next1(n) == IF n = 0 THEN <<i>> ELSE NestedStep(records, g[n - 1])
  <2>2. ASSUME NEW n \in 0..m + 1 PROVE g[n] = Next1(n)
    <3>1. CASE n = m + 1
      <4>1. n # 0 /\ n - 1 = m /\ m \in 0..m + 1 /\ m # m + 1
        BY <3>1
      <4>2. g[n] = NestedStep(records, f[m]) /\ g[m] = f[m]
        BY <3>1, <4>1
      <4> QED
        BY <4>1, <4>2
    <3>2. CASE n # m + 1
      <4>1. n \in 0..m
        BY <3>2
      <4>2. f = [k \in 0..m |-> Level(k)]
        BY <2>1 DEF Nested
      <4>3. f[n] = Level(n)
        <5> HIDE DEF Level
        <5> QED
          BY <4>1, <4>2
      <4>4. g[n] = f[n]
        BY <3>2
      <4>5. CASE n = 0
        BY <4>3, <4>4, <4>5
      <4>6. CASE n # 0
        <5>1. n - 1 \in 0..m + 1 /\ n - 1 # m + 1
          BY <4>1, <4>6
        <5>2. g[n - 1] = f[n - 1]
          BY <5>1
        <5> QED
          BY <4>3, <4>4, <4>6, <5>2
      <4> QED
        BY <4>5, <4>6
    <3> QED
      BY <3>1, <3>2
  <2>3. g = [n \in 0..m + 1 |-> Next1(n)]
    <3> HIDE DEF Next1
    <3> QED
      BY <2>2
  <2>4. Nested(g, records, i, m + 1)
    <3> HIDE DEF g
    <3> QED
      BY <2>3 DEF Nested
  <2> HIDE DEF g
  <2> QED
    BY <2>4
<1>3. MaxPosts \in S
  <2> HIDE DEF S
  <2> QED
    BY <1>1, <1>2, Induct, LoaderAssumption
<1>4. PICK f : f = (CHOOSE g : Nested(g, records, i, MaxPosts)) /\ Nested(f, records, i, MaxPosts)
  BY <1>3
<1>5. Build(records, i) = f[MaxPosts]
  BY <1>4 DEF Build, Nested, NestedStep
<1>6. ASSUME NEW n \in 0..MaxPosts
      PROVE  f[n] = IF n = 0 THEN <<i>> ELSE NestedStep(records, f[n - 1])
  <2> DEFINE Level(k) == IF k = 0 THEN <<i>> ELSE NestedStep(records, f[k - 1])
  <2>1. f = [k \in 0..MaxPosts |-> Level(k)]
    BY <1>4 DEF Nested
  <2> HIDE DEF Level
  <2>2. f[n] = Level(n)
    BY <2>1
  <2> QED
    BY <2>2 DEF Level
<1>7. f[0] = <<i>>
  BY <1>6, LoaderAssumption
<1>8. ASSUME NEW n \in 1..MaxPosts PROVE f[n] = NestedStep(records, f[n - 1])
  <2>1. n \in 0..MaxPosts /\ n # 0
    BY LoaderAssumption
  <2> QED
    BY <1>6, <2>1
<1> QED
  BY <1>5, <1>7, <1>8

LEMMA PrefixIs ==
  ASSUME NEW T, NEW a \in Seq(T), NEW b \in Seq(T)
  PROVE  IsPrefix(a, b) <=> Len(a) <= Len(b) /\ \A k \in 1..Len(a) : a[k] = b[k]
<1>1. ASSUME NEW s \in Seq(T), NEW n \in Nat, n <= Len(s)
      PROVE  /\ SubSeq(s, 1, n) \in Seq(T) /\ Len(SubSeq(s, 1, n)) = n
             /\ \A k \in 1..n : SubSeq(s, 1, n)[k] = s[k]
  <2>1. 1 \in 1..Len(s) + 1 /\ n \in 1 - 1..Len(s) /\ Len(s) \in Nat
    BY <1>1
  <2>2. /\ SubSeq(s, 1, n) \in Seq(T)
        /\ Len(SubSeq(s, 1, n)) = IF 1 <= n THEN n - 1 + 1 ELSE 0
        /\ \A k \in 1..n - 1 + 1 : SubSeq(s, 1, n)[k] = s[1 + k - 1]
    BY <2>1, SubSeqProperties
  <2>3. n - 1 + 1 = n /\ \A k \in 1..n : 1 + k - 1 = k
    OBVIOUS
  <2> QED
    BY <1>1, <2>2, <2>3
<1>2. Len(a) \in Nat /\ Len(b) \in Nat
  OBVIOUS
<1>3. ASSUME Len(a) <= Len(b)
      PROVE  SubSeq(a, 1, Len(a)) = SubSeq(b, 1, Len(a)) <=> \A k \in 1..Len(a) : a[k] = b[k]
  <2> DEFINE u == SubSeq(a, 1, Len(a))
             v == SubSeq(b, 1, Len(a))
  <2>1. u \in Seq(T) /\ Len(u) = Len(a) /\ \A k \in 1..Len(a) : u[k] = a[k]
    BY <1>1, <1>2
  <2>2. v \in Seq(T) /\ Len(v) = Len(a) /\ \A k \in 1..Len(a) : v[k] = b[k]
    BY <1>1, <1>2, <1>3
  <2> HIDE DEF u, v
  <2>3. (\A k \in 1..Len(a) : u[k] = v[k]) => u = v
    BY <2>1, <2>2
  <2>4. u = v <=> \A k \in 1..Len(a) : a[k] = b[k]
    BY <2>1, <2>2, <2>3
  <2> QED
    BY <2>4 DEF u, v
<1> QED
  BY <1>2, <1>3 DEF IsPrefix

\* a repost i, the post it reposts, what that reposts, ...
PathFrom(t, i, s) ==
  /\ s \in Seq(Ids) /\ Len(s) \in Nat \ {0} /\ s[1] = i
  /\ \A k \in 1..Len(s) : t[s[k]] # NoRow
  /\ \A k \in 1..Len(s) - 1 : t[s[k]].original = s[k + 1]

LEMMA PathGrows ==
  ASSUME NEW t, NEW i, NEW s, PathFrom(t, i, s),
         NEW o \in Ids, t[o] # NoRow, t[Last(s)].original = o
  PROVE  PathFrom(t, i, Append(s, o))
<1> DEFINE n == Len(s)
           u == Append(s, o)
<1>1. /\ s \in Seq(Ids) /\ n \in Nat \ {0} /\ s[1] = i /\ t[s[n]].original = o
      /\ \A k \in 1..n : t[s[k]] # NoRow
      /\ \A k \in 1..n - 1 : t[s[k]].original = s[k + 1]
  BY DEF PathFrom, Last
<1>2. u \in Seq(Ids) /\ Len(u) = n + 1 /\ u[n + 1] = o /\ \A k \in 1..n : u[k] = s[k]
  BY <1>1
<1> HIDE DEF u
<1>3. u[1] = i
  BY <1>1, <1>2
<1>4. ASSUME NEW k \in 1..n + 1 PROVE t[u[k]] # NoRow
  BY <1>1, <1>2
<1>5. ASSUME NEW k \in 1..(n + 1) - 1 PROVE t[u[k]].original = u[k + 1]
  <2>1. CASE k = n
    BY <1>1, <1>2, <2>1
  <2>2. CASE k # n
    <3>1. k \in 1..n - 1 /\ k \in 1..n /\ k + 1 \in 1..n
      BY <1>1, <2>2
    <3> QED
      BY <1>1, <1>2, <3>1
  <2> QED
    BY <2>1, <2>2
<1> HIDE DEF n
<1>6. Len(u) \in Nat \ {0} /\ (n + 1) - 1 = Len(u) - 1 /\ n + 1 = Len(u)
  BY <1>1, <1>2
<1>7. PathFrom(t, i, u)
  BY <1>2, <1>3, <1>4, <1>5, <1>6 DEF PathFrom
<1> QED
  BY <1>7 DEF u

\* a from the records of the list, b from the table
Compared(i, a, b) ==
  /\ PathFrom(posts, i, a) /\ PathFrom(posts, i, b)
  /\ Range(a) \subseteq DOMAIN load.records
  /\ \/ a = b
     \/ NestedStep(load.records, a) = a /\ IsPrefix(a, b) /\ Len(a) > MaxThreadDepth

LEMMA ComparedNext ==
  ASSUME IInv, answer = "200", writes = 0, NEW i \in load.ids, NEW a, NEW b, Compared(i, a, b)
  PROVE  Compared(i, NestedStep(load.records, a), NestedStep(Stored(posts), b))
<1> DEFINE R == DOMAIN load.records
           S == Stored(posts)
           Q == NestedStep(load.records, a)
           P == NestedStep(S, b)
<1>1. /\ kept = posts /\ seen = posts /\ posts \in Tables /\ load.pending = {}
      /\ OriginalsLoaded \/ LevelsLoaded(MaxThreadDepth)
  BY DEF IInv, TablesInv, LevelsInv, Listing
<1>2. \A j \in R : j \in Ids /\ load.records[j] = posts[j] /\ posts[j] # NoRow
  BY <1>1, RecordFacts DEF IInv, RecordsInv
<1>3. /\ DOMAIN S = Present(posts) /\ \A j \in Present(posts) : S[j] = posts[j]
      /\ R \subseteq Present(posts) /\ Present(posts) \subseteq Ids
  BY <1>2 DEF Stored, Present
<1>4. MaxThreadDepth \in Nat \ {0}
  BY LoaderAssumption
\* the step of the table
<1>5. PICK p : p = posts[Last(b)].original
  OBVIOUS
<1>6. Last(b) \in Present(posts) /\ Last(b) \in Range(b)
  BY DEF Compared, PathFrom, Last, Range, Present
<1>7. P = IF p \in Present(posts) \ Range(b) THEN Append(b, p) ELSE b
  BY <1>3, <1>5, <1>6 DEF NestedStep
<1>8. PathFrom(posts, i, P)
  <2>1. CASE p \in Present(posts) \ Range(b)
    BY <1>5, <1>7, <2>1, PathGrows DEF Compared, Present
  <2>2. CASE p \notin Present(posts) \ Range(b)
    BY <1>7, <2>2 DEF Compared
  <2> QED
    BY <2>1, <2>2
<1>9. ASSUME a = b PROVE Compared(i, Q, P)
  <2>1. Last(a) \in R /\ load.records[Last(a)].original = p
    BY <1>2, <1>5, <1>6, <1>9 DEF Compared
  <2>2. Q = IF p \in R \ Range(a) THEN Append(a, p) ELSE a
    BY <2>1 DEF NestedStep
  <2>3. CASE p \in R \ Range(a)
    <3>1. Q = P /\ Q = Append(a, p)
      BY <1>3, <1>7, <1>9, <2>2, <2>3
    <3>2. Range(Append(a, p)) \subseteq R
      <4>1. a \in Seq(Ids) /\ Range(a) \subseteq R /\ p \in Ids
        BY <1>3, <2>3 DEF Compared, PathFrom
      <4>2. \A k \in DOMAIN Append(a, p) : Append(a, p)[k] = p \/ (k \in DOMAIN a /\ Append(a, p)[k] = a[k])
        BY <4>1
      <4> QED
        BY <2>3, <4>1, <4>2 DEF Range
    <3> QED
      BY <1>8, <3>1, <3>2 DEF Compared
  <2>4. CASE p \notin R \ Range(a)
    <3>1. Q = a
      BY <2>2, <2>4
    <3>2. CASE P = b
      BY <1>9, <3>1, <3>2 DEF Compared
    <3>3. CASE P # b
      <4>1. p \in Present(posts) \ Range(b) /\ P = Append(b, p) /\ p \notin R
        BY <1>7, <1>9, <2>4, <3>3
      <4>2. Len(a) > MaxThreadDepth
        <5>1. ~OriginalsLoaded
          <6>1. p # 0 /\ ~Gone(p)
            BY <1>1, <1>3, <4>1, LoaderAssumption DEF Gone, Present, Ids
          <6> QED
            BY <1>1, <2>1, <4>1, <6>1 DEF OriginalsLoaded
        <5> DEFINE n == Len(a)
                   u == Append(b, p)
                   c == [k \in 0..n |-> u[k + 1]]
        <5>2. PathFrom(posts, i, u) /\ n \in Nat \ {0} /\ Len(u) = n + 1 /\ u[n + 1] = p
          BY <1>3, <1>8, <1>9, <4>1 DEF Compared, PathFrom
        <5>3. c \in RepostChains(kept, n)
          <6>1. u \in Seq(Ids)
            BY <5>2 DEF PathFrom
          <6> HIDE DEF u
          <6>2. c \in [0..n -> Ids]
            BY <5>2, <6>1
          <6>3. ASSUME NEW k \in 0..n - 1 PROVE kept[c[k]] # NoRow /\ kept[c[k]].original = c[k + 1]
            <7>1. /\ k + 1 \in 1..Len(u) - 1 /\ k + 1 \in 1..Len(u)
                  /\ c[k] = u[k + 1] /\ c[k + 1] = u[(k + 1) + 1]
              BY <5>2
            <7>2. posts[u[k + 1]] # NoRow /\ posts[u[k + 1]].original = u[(k + 1) + 1]
              BY <5>2, <7>1 DEF PathFrom
            <7> QED
              BY <1>1, <7>1, <7>2
          <6> HIDE DEF c
          <6> QED
            BY <6>2, <6>3 DEF RepostChains
        <5>4. c[0] = i /\ c[n] = p
          <6>1. u[1] = i
            BY <5>2 DEF PathFrom
          <6> HIDE DEF u
          <6> QED
            BY <5>2, <6>1
        <5>5. ~Gone(p) /\ p \notin R \cup load.pending
          BY <1>1, <4>1 DEF Gone, Present
        <5> HIDE DEF c
        <5>6. n \notin 0..MaxThreadDepth
          BY <1>1, <5>1, <5>3, <5>4, <5>5 DEF LevelsLoaded
        <5> QED
          BY <1>4, <5>2, <5>6
      <4>3. IsPrefix(a, Append(b, p))
        <5>1. b \in Seq(Ids) /\ p \in Ids
          BY <1>3, <4>1 DEF Compared, PathFrom
        <5>2. /\ Append(b, p) \in Seq(Ids) /\ Len(b) <= Len(Append(b, p))
              /\ \A k \in 1..Len(b) : b[k] = Append(b, p)[k]
          BY <5>1
        <5> QED
          BY <1>9, <5>1, <5>2, PrefixIs
      <4> QED
        BY <1>8, <3>1, <4>1, <4>2, <4>3 DEF Compared
    <3> QED
      BY <3>2, <3>3
  <2> QED
    BY <2>3, <2>4
<1>10. ASSUME a # b PROVE Compared(i, Q, P)
  <2>1. Q = a /\ IsPrefix(a, b) /\ Len(a) > MaxThreadDepth
    BY <1>10 DEF Compared
  <2>2. IsPrefix(a, P)
    <3>1. CASE P = b
      BY <2>1, <3>1
    <3>2. CASE P # b
      <4>1. P = Append(b, p) /\ p \in Ids /\ a \in Seq(Ids) /\ b \in Seq(Ids)
        BY <1>3, <1>7, <3>2 DEF Compared, PathFrom
      <4>2. Len(a) <= Len(b) /\ \A k \in 1..Len(a) : a[k] = b[k]
        BY <2>1, <4>1, PrefixIs
      <4>3. /\ Append(b, p) \in Seq(Ids) /\ Len(Append(b, p)) = Len(b) + 1
            /\ \A k \in 1..Len(b) : b[k] = Append(b, p)[k]
        BY <4>1
      <4>4. Len(a) \in Nat /\ Len(b) \in Nat /\ \A k \in 1..Len(a) : k \in 1..Len(b)
        BY <4>1, <4>2
      <4>5. Len(a) <= Len(Append(b, p)) /\ \A k \in 1..Len(a) : a[k] = Append(b, p)[k]
        BY <4>2, <4>3, <4>4
      <4> QED
        BY <4>1, <4>3, <4>5, PrefixIs
    <3> QED
      BY <3>1, <3>2
  <2> QED
    BY <1>8, <1>10, <2>1, <2>2 DEF Compared
<1> QED
  BY <1>9, <1>10

\* What a list shows for a post of it, and what fetchPost shows.
LEMMA ShownIsRight ==
  ASSUME IInv, answer = "200", writes = 0, NEW i \in load.ids
  PROVE  Compared(i, Build(load.records, i), Build(Stored(posts), i))
<1>1. PICK f : /\ f[0] = <<i>> /\ Build(load.records, i) = f[MaxPosts]
               /\ \A n \in 1..MaxPosts : f[n] = NestedStep(load.records, f[n - 1])
  BY BuildIs
<1>2. PICK g : /\ g[0] = <<i>> /\ Build(Stored(posts), i) = g[MaxPosts]
               /\ \A n \in 1..MaxPosts : g[n] = NestedStep(Stored(posts), g[n - 1])
  BY BuildIs
<1> DEFINE S == {n \in Nat : n <= MaxPosts => Compared(i, f[n], g[n])}
<1>3. 0 \in S
  <2>1. i \in DOMAIN load.records /\ i \in Present(posts)
    BY DEF IInv, PageInv
  <2>2. i \in Ids /\ posts[i] # NoRow
    BY <2>1 DEF Present
  <2>3. PathFrom(posts, i, <<i>>)
    BY <2>2 DEF PathFrom
  <2>4. Range(<<i>>) \subseteq DOMAIN load.records
    BY <2>1 DEF Range
  <2> QED
    BY <1>1, <1>2, <2>3, <2>4 DEF Compared
<1>4. ASSUME NEW n \in Nat, n \in S PROVE n + 1 \in S
  <2>1. CASE n + 1 <= MaxPosts
    <3>1. n <= MaxPosts /\ n + 1 \in 1..MaxPosts /\ (n + 1) - 1 = n
      BY <2>1, LoaderAssumption
    <3>2. f[n + 1] = NestedStep(load.records, f[n]) /\ g[n + 1] = NestedStep(Stored(posts), g[n])
      BY <1>1, <1>2, <3>1
    <3>3. Compared(i, f[n], g[n])
      BY <1>4, <3>1
    <3>4. Compared(i, NestedStep(load.records, f[n]), NestedStep(Stored(posts), g[n]))
      BY <3>3, ComparedNext
    <3> QED
      BY <3>2, <3>4
  <2>2. CASE ~(n + 1 <= MaxPosts)
    BY <2>2
  <2> QED
    BY <2>1, <2>2
<1>5. Nat \subseteq S
  <2> HIDE DEF S
  <2> QED
    BY <1>3, <1>4, Induct
<1>6. MaxPosts \in Nat
  BY LoaderAssumption
<1>7. Compared(i, f[MaxPosts], g[MaxPosts])
  BY <1>5, <1>6
<1> QED
  BY <1>1, <1>2, <1>7

-----------------------------------------------------------------------------
(* The theorems. *)

\* The tables and the locals of the loaders keep their types: no page is longer than
\* PerPage, and the levels counted stay within maxThreadDepth.
THEOREM TypeCorrect == Spec => []TypeOK
<1>1. IInv => TypeOK
  BY DEF IInv
<1> QED
  BY <1>1, Invariance, PTL

\* batch.go:90-94: a list is refused without a SELECT that fails only when a post of
\* its page was deleted while the page was loaded.
THEOREM RefusalsAreForDeletions == Spec => []RefusedForDeletion
<1>1. IInv => RefusedForDeletion
  BY DEF IInv, PageInv, RefusedForDeletion, Gone
<1> QED
  BY <1>1, Invariance, PTL

\* batch.go:397-438: whatever falls between the levels of countRepliesBatch, its number
\* lies between countReplies of what stayed and countReplies of all that was there.
THEOREM RepliesAreBracketed == Spec => []RepliesBracketed
<1>1. IInv => RepliesBracketed
  BY Bracket DEF RepliesBracketed
<1> QED
  BY <1>1, Invariance, PTL

\* batch.go:45-46, 383: while nothing is written, a list shows for each of its posts the
\* posts, numbers and flags that fetchPost shows, down to the depth it loads.
THEOREM BatchIsRight == Spec => []BatchAgrees
<1> SUFFICES IInv => BatchAgrees
  BY Invariance, PTL
<1> SUFFICES ASSUME IInv, answer # "none", load.ids # {}, writes = 0, failures = 0
             PROVE  /\ answer = "200"
                    /\ load.total = Cardinality(Listed(load.replies))
                    /\ \A i \in {j \in load.ids : Ends(posts, j)} :
                        LET shown == Build(load.records, i)
                            single == Build(Stored(posts), i)
                        IN  /\ IsPrefix(shown, single)
                            /\ Len(shown) > MaxThreadDepth \/ shown = single
                            /\ \A s \in Range(shown) :
                                /\ ReplyCount(s) = CountReplies(posts)[s]
                                /\ load.likesCounts[s] = LikesOf(s)
                                /\ s \in load.likedByMe <=> <<viewer, s>> \in likes
                                /\ posts[s].parent \in load.targets <=> posts[s].parent \in Present(posts)
  BY DEF BatchAgrees
<1>1. kept = posts /\ seen = posts /\ posts \in Tables
  BY DEF IInv, TablesInv
<1>2. answer = "200"
  <2>1. answer # "404"
    BY DEF IInv, PageInv
  <2>2. answer # "500"
    <3>1. answer = "500" => \E i \in load.ids : Gone(i)
      BY DEF IInv, PageInv
    <3>2. load.ids \subseteq Present(posts)
      BY DEF IInv, PageInv
    <3> QED
      BY <1>1, <3>1, <3>2 DEF Gone, Present
  <2> QED
    BY <2>1, <2>2 DEF IInv, TypeOK
<1>3. /\ load.likesCounts = [i \in DOMAIN load.records |-> LikesOf(i)]
      /\ load.targets = Parents \cap Present(posts)
      /\ load.likedByMe = {i \in DOMAIN load.records : <<viewer, i>> \in likes}
      /\ load.total = Cardinality(Listed(load.replies))
  BY <1>2 DEF IInv, NumbersInv
<1>4. ASSUME NEW s \in DOMAIN load.records
      PROVE  /\ ReplyCount(s) = CountReplies(posts)[s]
             /\ load.likesCounts[s] = LikesOf(s)
             /\ s \in load.likedByMe <=> <<viewer, s>> \in likes
             /\ posts[s].parent \in load.targets <=> posts[s].parent \in Present(posts)
  <2>1. ReplyCount(s) = CountReplies(posts)[s]
    BY <1>1, <1>2, Bracket
  <2>2. load.likesCounts[s] = LikesOf(s) /\ (s \in load.likedByMe <=> <<viewer, s>> \in likes)
    BY <1>3
  <2>3. ASSUME posts[s].parent \in Present(posts) PROVE posts[s].parent \in Parents
    <3>1. posts[s].parent # 0
      BY <2>3, LoaderAssumption DEF Present, Ids
    <3>2. load.records[s] = posts[s]
      BY <1>1 DEF IInv, RecordsInv
    <3>3. posts[s] \in Range(load.records)
      BY <3>2 DEF Range
    <3> QED
      BY <3>1, <3>3 DEF Parents
  <2> QED
    BY <1>3, <2>1, <2>2, <2>3
<1>5. ASSUME NEW i \in load.ids
      PROVE  /\ IsPrefix(Build(load.records, i), Build(Stored(posts), i))
             /\ \/ Len(Build(load.records, i)) > MaxThreadDepth
                \/ Build(load.records, i) = Build(Stored(posts), i)
             /\ Range(Build(load.records, i)) \subseteq DOMAIN load.records
  <2> DEFINE a == Build(load.records, i)
             b == Build(Stored(posts), i)
  <2>1. Compared(i, a, b)
    BY <1>2, ShownIsRight
  <2> HIDE DEF a, b
  <2>2. a \in Seq(Ids)
    BY <2>1 DEF Compared, PathFrom
  <2>3. IsPrefix(a, a)
    BY <2>2, PrefixIs
  <2>4. IsPrefix(a, b) /\ (Len(a) > MaxThreadDepth \/ a = b) /\ Range(a) \subseteq DOMAIN load.records
    BY <2>1, <2>3 DEF Compared
  <2> QED
    BY <2>4 DEF a, b
<1> QED
  BY <1>2, <1>3, <1>4, <1>5
=============================================================================
